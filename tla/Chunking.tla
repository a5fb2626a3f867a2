------------------------------ MODULE Chunking ------------------------------
(***************************************************************************)
(* The chunkers: how the text of a parsed document becomes chunks.         *)
(*                                                                         *)
(* A text is a sequence of characters.  Only those the chunkers tell apart *)
(* need names: a space, the end of a line, a full stop and a heading mark; *)
(* any other is a letter.  A chunk has its text and its span, which counts *)
(* characters from 0 and excludes its end.                                 *)
(***************************************************************************)
EXTENDS Integers, SequencesExt

Space == " "
Newline == "nl"
Stop == "."
Mark == "#"

White(c) == c \in {Space, Newline}
Blank(text) == \A n \in DOMAIN text : White(text[n])

(* A letter is in neither a gap between words nor the end of a sentence,   *)
(* which splitting drops.                                                  *)
Letters(text) == {n \in DOMAIN text : ~White(text[n]) /\ text[n] # Stop}

(* The characters from start to end, as text[start:end].                   *)
Slice(text, start, end) == SubSeq(text, start + 1, end)

(* str.strip                                                               *)
Strip(text) ==
  LET ink == {n \in DOMAIN text : ~White(text[n])}
  IN IF ink = {} THEN <<>> ELSE SubSeq(text, Min(ink), Max(ink))

(* Whether sep stands in text from its n-th character.                     *)
StandsAt(text, sep, n) ==
  /\ n + Len(sep) - 1 <= Len(text)
  /\ SubSeq(text, n, n + Len(sep) - 1) = sep

Positions(text) == [n \in DOMAIN text |-> n]

(* The elements of seq at the positions that are in at.                    *)
Picked(seq, at) ==
  FoldLeft(LAMBDA some, n : IF n \in at THEN Append(some, seq[n]) ELSE some,
           <<>>, Positions(seq))

(* range(0, length, step)                                                  *)
Steps(length, step) == {n \in 0..length - 1 : n % step = 0}

(* The pieces of text between the positions at, dropping width characters  *)
(* at each.                                                                *)
CutAt(text, at, width) ==
  [k \in 1..Len(at) + 1 |->
     SubSeq(text, IF k = 1 THEN 1 ELSE at[k - 1] + width,
                  IF k > Len(at) THEN Len(text) ELSE at[k] - 1)]

(* str.split                                                               *)
Parts(text, sep) ==
  LET free(cuts, n) == cuts = <<>> \/ Last(cuts) + Len(sep) <= n
      at == FoldLeft(LAMBDA cuts, n :
                       IF StandsAt(text, sep, n) /\ free(cuts, n)
                       THEN Append(cuts, n) ELSE cuts,
                     <<>>, Positions(text))
  IN CutAt(text, at, Len(sep))

(* text.find(piece, cursor), and cursor if it is not there.                *)
Find(text, piece, cursor) ==
  LET at == {n \in cursor + 1..Len(text) + 1 : StandsAt(text, piece, n)}
  IN IF at = {} THEN cursor ELSE Min(at) - 1

Larger(m, n) == IF m < n THEN n ELSE m
Least(m, n) == IF m < n THEN m ELSE n

(***************************************************************************)
(* Mutated forms of definitions below.                                     *)
(***************************************************************************)
(* parts merged without what was between them *)
CandidateUnseparated(current, sep, part) == current \o part
(* every piece sought from the start of the text *)
CursorAtStart(end, overlap) == 0

(***************************************************************************)
(* chunking/fixed.py                                                       *)
(***************************************************************************)
(* Windows of size characters, a step apart, up to the first that reaches  *)
(* the end.                                                                *)
Starts(length, size, overlap) ==
  LET step == Larger(size - overlap, 1)
  IN {start \in Steps(length, step) : start = 0 \/ start - step + size < length}

Window(text, start, size) ==
  LET end == Least(start + size, Len(text))
  IN [text |-> Slice(text, start, end), start |-> start, end |-> end]

FixedChunker(text, size, overlap) ==
  LET windows == [n \in DOMAIN text |-> Window(text, n - 1, size)]
  IN Picked(windows, {n \in DOMAIN text :
                        /\ n - 1 \in Starts(Len(text), size, overlap)
                        /\ ~Blank(windows[n].text)})

(***************************************************************************)
(* chunking/recursive.py                                                   *)
(***************************************************************************)
Candidate(current, sep, part) ==
  IF current = <<>> THEN part ELSE current \o sep \o part

Flush(chunks, current) ==
  IF current = <<>> THEN chunks ELSE Append(chunks, current)

(* Parts are merged while they fit; one that is too long by itself is split*)
(* deeper.                                                                 *)
Pack(acc, part, deeper, sep, size) ==
  LET candidate == Candidate(acc.current, sep, part)
      flushed == Flush(acc.chunks, acc.current)
  IN IF Len(candidate) <= size THEN [acc EXCEPT !.current = candidate]
     ELSE IF Len(part) > size
          THEN [chunks |-> flushed \o deeper, current |-> <<>>]
          ELSE [chunks |-> flushed, current |-> part]

Packed(parts, deeper, sep, size) ==
  LET end == FoldLeft(LAMBDA acc, n : Pack(acc, parts[n], deeper[n], sep, size),
                      [chunks |-> <<>>, current |-> <<>>], Positions(parts))
  IN Flush(end.chunks, end.current)

SplitAt(text, sep, size, Deeper(_)) ==
  LET parts == Parts(text, sep)
  IN IF Len(text) > size
     THEN Packed(parts, [n \in DOMAIN parts |-> Deeper(parts[n])], sep, size)
     ELSE IF Blank(text) THEN <<>> ELSE <<text>>

(* Paragraphs, then lines, sentences, words, and characters.               *)
HardCut(text, size) ==
  Picked([n \in DOMAIN text |-> Slice(text, n - 1, Least(n - 1 + size, Len(text)))],
         {n \in DOMAIN text : n - 1 \in Steps(Len(text), size)})

Words(text, size) ==
  SplitAt(text, <<Space>>, size, LAMBDA part : HardCut(part, size))
Sentences(text, size) ==
  SplitAt(text, <<Stop, Space>>, size, LAMBDA part : Words(part, size))
Lines(text, size) ==
  SplitAt(text, <<Newline>>, size, LAMBDA part : Sentences(part, size))
split_text(text, size) ==
  SplitAt(text, <<Newline, Newline>>, size, LAMBDA part : Lines(part, size))

(* Where the search for the next piece starts: the overlap changes nothing.*)
Cursor(end, overlap) == Larger(end - overlap, end)

(* The pieces with their spans, found one after the other.                 *)
Locate(text, overlap, acc, piece) ==
  LET start == Find(text, piece, acc.cursor)
      end == start + Len(piece)
  IN [chunks |-> Append(acc.chunks, [text |-> piece, start |-> start, end |-> end]),
      cursor |-> Cursor(end, overlap)]

Located(text, pieces, overlap) ==
  FoldLeft(LAMBDA acc, piece : Locate(text, overlap, acc, piece),
           [chunks |-> <<>>, cursor |-> 0], pieces).chunks

RecursiveChunker(text, size, overlap) ==
  IF text = <<>> THEN <<>> ELSE Located(text, split_text(text, size), overlap)

(***************************************************************************)
(* chunking/markdown_aware.py                                              *)
(***************************************************************************)
(* A heading starts a line with one to six marks and a blank.              *)
HeadingAt(text, n) ==
  /\ n = 1 \/ text[n - 1] = Newline
  /\ \E k \in 1..6 : /\ n + k <= Len(text) /\ White(text[n + k])
                     /\ \A m \in n..n + k - 1 : text[m] = Mark

Sections(text) ==
  LET heads == Picked(Positions(text), {n \in DOMAIN text : HeadingAt(text, n)})
      cut == CutAt(text, heads, 0)
  IN Picked(cut, {n \in DOMAIN cut : ~Blank(cut[n])})

(* A piece is stripped; its span is not.                                   *)
MarkdownAwareChunker(text, size, overlap) ==
  LET pieces == FlattenSeq([k \in DOMAIN Sections(text) |->
                              IF Len(Sections(text)[k]) <= size
                              THEN <<Sections(text)[k]>>
                              ELSE split_text(Sections(text)[k], size)])
  IN IF text = <<>> THEN <<>>
     ELSE IF Sections(text) = <<>> THEN RecursiveChunker(text, size, overlap)
     ELSE [k \in DOMAIN pieces |->
             [Located(text, pieces, 0)[k] EXCEPT !.text = Strip(@)]]

(***************************************************************************)
(* chunking/semantic.py.  Nothing in the program gives it an embedder, and *)
(* without one it is the recursive one.                                    *)
(***************************************************************************)
SemanticChunker(text, size, overlap) == RecursiveChunker(text, size, overlap)

(***************************************************************************)
(* chunking/registry.py                                                    *)
(***************************************************************************)
Mimes == {"text/plain", "text/markdown", "application/pdf", "text/html",
          "application/json"}
Strategies == {"fixed", "recursive", "markdown_aware", "semantic"}
Unset == [strategy |-> "unset", size |-> 512, overlap |-> 64]

MIME_DEFAULTS(mime) ==
  CASE mime = "text/plain" -> "fixed"
    [] mime = "text/markdown" -> "markdown_aware"
    [] OTHER -> "recursive"

strategy_of(config, mime) ==
  IF config.strategy = "unset" THEN MIME_DEFAULTS(mime) ELSE config.strategy

(* config is what the configuration says of the document's mime type.      *)
Rejected(config) == config.overlap >= config.size

chunk_document(text, mime, config) ==
  LET strategy == strategy_of(config, mime)
  IN CASE strategy = "fixed" -> FixedChunker(text, config.size, config.overlap)
       [] strategy = "markdown_aware" ->
            MarkdownAwareChunker(text, config.size, config.overlap)
       [] strategy = "semantic" ->
            SemanticChunker(text, config.size, config.overlap)
       [] OTHER -> RecursiveChunker(text, config.size, config.overlap)
=============================================================================
