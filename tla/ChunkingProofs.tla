--------------------------- MODULE ChunkingProofs ---------------------------
(***************************************************************************)
(* Proofs about the chunkers, for any text, size and overlap: a chunk is   *)
(* what its span says, fits the size and holds characters of the text      *)
(* alone, and no letter of the text is in no chunk (ChunkersFit).          *)
(*                                                                         *)
(* The chunkers are folds.  A fold over a sequence has a history with one  *)
(* step per element (FoldLemmas), so that what holds of what is packed,    *)
(* cut or located so far can be proved from step to step.  Two notions     *)
(* carry the argument: pieces that Fill a stretch of the text stand in it  *)
(* one after another, with no letter between any two, which str.split,     *)
(* hard cuts and merging preserve; and Located, which looks for each piece *)
(* from a cursor, Finds it where it stands if it has a letter: though a    *)
(* piece may occur often, the cursor never passes a letter still to come.  *)
(***************************************************************************)
EXTENDS Chunking, FoldLemmas

(* Arithmetic that remainders need.                                        *)
LEMMA Times == ASSUME NEW s \in Nat, NEW k \in Int, k >= 1 PROVE s * k >= s
OBVIOUS

LEMMA Euclid ==
  ASSUME NEW n \in Nat, NEW s \in Nat, s >= 1
  PROVE n % s \in 0..s-1 /\ n \div s \in Nat /\ n = s * (n \div s) + (n % s)
OBVIOUS

LEMMA Unique ==
  ASSUME NEW s \in Nat, s >= 1, NEW q \in Nat, NEW d \in Nat,
         NEW r \in 0..s-1, NEW e \in 0..s-1, s * q + r = s * d + e
  PROVE r = e
<1>1. s * (q - d) = e - r /\ s * (d - q) = r - e
  OBVIOUS
<1>2. q - d >= 1 => s * (q - d) >= s
  BY Times
<1>3. d - q >= 1 => s * (d - q) >= s
  BY Times
<1>4. q = d
  BY <1>1, <1>2, <1>3
<1>5. QED
  BY <1>4

LEMMA Multiple ==
  ASSUME NEW s \in Nat, s >= 1, NEW q \in Nat
  PROVE s * q \in Nat /\ (s * q) % s = 0
<1> DEFINE n == s * q
<1>1. n \in Nat
  OBVIOUS
<1>2. n % s \in 0..s-1 /\ n \div s \in Nat /\ n = s * (n \div s) + (n % s)
  BY <1>1, Euclid
<1>3. s * q + 0 = n /\ 0 \in 0..s-1
  OBVIOUS
<1> HIDE DEF n
<1>4. s * (n \div s) + (n % s) = s * q + 0
  BY <1>2, <1>3
<1>5. n % s = 0
  BY <1>2, <1>3, <1>4, Unique
<1>6. QED
  BY <1>1, <1>5 DEF n

(* Multiples of a step are at least a step apart.                          *)
LEMMA StepsApart ==
  ASSUME NEW s \in Nat, s >= 1, NEW n \in Nat, NEW m \in Nat, n % s = 0, m % s = 0
  PROVE (n+s) % s = 0 /\ (n < m => n + s <= m)
<1> DEFINE q == n \div s
           d == m \div s
<1>1. q \in Nat /\ n = s * q /\ d \in Nat /\ m = s * d
  BY Euclid
<1> HIDE DEF q, d
<1>2. n + s = s * (q + 1) /\ q + 1 \in Nat
  BY <1>1
<1>3. (n + s) % s = 0
  BY <1>2, Multiple
<1>4. n < m => n + s <= m
  <2>1. m - n = s * (d - q)
    BY <1>1
  <2>2. d - q >= 1 => s * (d - q) >= s
    BY <1>1, Times
  <2>3. q - d >= 0 => s * (q - d) >= 0
    BY <1>1
  <2>4. s * (q - d) = n - m
    BY <1>1
  <2>5. QED
    BY <1>1, <2>1, <2>2, <2>3, <2>4
<1>5. QED
  BY <1>3, <1>4

(* Every number is within a step of a multiple below it.                   *)
LEMMA StepBelow ==
  ASSUME NEW s \in Nat, s >= 1, NEW n \in Nat
  PROVE \E m \in Nat : m % s = 0 /\ m <= n /\ n < m + s
<1>1. n % s \in 0..s-1 /\ n \div s \in Nat /\ n = s * (n \div s) + (n % s)
  BY Euclid
<1> DEFINE m == s * (n \div s)
<1>2. m \in Nat /\ m % s = 0
  BY <1>1, Multiple
<1> HIDE DEF m
<1>3. n = m + (n % s)
  BY <1>1 DEF m
<1>4. m <= n /\ n < m + s
  BY <1>1, <1>2, <1>3
<1>5. QED
  BY <1>2, <1>4

(***************************************************************************)
(* Picking.                                                                *)
(***************************************************************************)
(* What has been picked of the first k elements.                           *)
Picks(p, V, seq, at) ==
  /\ p \in [0..Len(seq) -> Seq(V)]
  /\ p[0] = <<>> /\ p[Len(seq)] = Picked(seq, at)
  /\ \A k \in 1..Len(seq) :
       p[k] = IF k \in at THEN Append(p[k - 1], seq[k]) ELSE p[k - 1]

(* Picked has a history, position by position.                             *)
LEMMA PickedWalks ==
  ASSUME NEW V, NEW seq \in Seq(V), NEW at
  PROVE  \E p : Picks(p, V, seq, at)
<1> DEFINE n == Len(seq)
           Picking(f) == f = [s \in SUBSET (DOMAIN Positions(seq)) |->
                                IF s = {} THEN <<>>
                                ELSE IF Positions(seq)[Max(s)] \in at
                                     THEN Append(f[s \ {Max(s)}], seq[Positions(seq)[Max(s)]])
                                     ELSE f[s \ {Max(s)}]]
           step == [k \in 1..n |-> [v \in Seq(V) |->
                      IF k \in at THEN Append(v, seq[k]) ELSE v]]
<1>1. /\ n \in Nat /\ DOMAIN Positions(seq) = 1..n
      /\ \A k \in 1..n : Positions(seq)[k] = k /\ seq[k] \in V
  BY DEF Positions
<1>2. \A f0 : Picking(f0) => \E f : Picking(f) /\ Picked(seq, at) = f[DOMAIN Positions(seq)]
  BY Zenon DEF Picked, FoldLeft, MapThenFoldSet
<1>3. step \in [1..n -> [Seq(V) -> Seq(V)]] /\ <<>> \in Seq(V)
  BY <1>1
<1>4. \A k \in 1..n, v \in Seq(V) :
        step[k][v] = IF k \in at THEN Append(v, seq[k]) ELSE v
  OBVIOUS
<1> HIDE DEF n, step
<1>5. \E f0 : Picking(f0)
  <2>1. PICK f \in [SUBSET (1..n) -> Seq(V)] : FoldedBy(f, n, Seq(V), <<>>, step)
    BY <1>1, <1>3, FoldTyped
  <2>2. ASSUME NEW s \in SUBSET (1..n)
        PROVE  f[s] = IF s = {} THEN <<>>
                      ELSE IF Positions(seq)[Max(s)] \in at
                           THEN Append(f[s \ {Max(s)}], seq[Positions(seq)[Max(s)]])
                           ELSE f[s \ {Max(s)}]
    <3>1. /\ s = {} => f[s] = <<>>
          /\ s # {} => /\ Max(s) \in 1..n /\ f[s \ {Max(s)}] \in Seq(V)
                       /\ f[s] = step[Max(s)][f[s \ {Max(s)}]]
      BY <2>1 DEF FoldedBy
    <3>2. QED
      BY <1>1, <1>4, <3>1
  <2>3. Picking(f)
    BY <1>1, <2>2
  <2>4. QED
    BY <2>3
<1>6. PICK f : Picking(f) /\ Picked(seq, at) = f[1..n]
  BY <1>1, <1>2, <1>5
<1>7. Follows(f, n, Seq(V), <<>>, step)
  <2>1. ASSUME NEW s \in SUBSET (1..n), s # {}, f[s \ {Max(s)}] \in Seq(V)
        PROVE  f[s] = step[Max(s)][f[s \ {Max(s)}]]
    <3>1. Max(s) \in 1..n
      BY <1>1, <2>1, LastPosition
    <3>2. s \in SUBSET (DOMAIN Positions(seq))
      BY <1>1
    <3>3. f[s] = IF Positions(seq)[Max(s)] \in at
                 THEN Append(f[s \ {Max(s)}], seq[Positions(seq)[Max(s)]])
                 ELSE f[s \ {Max(s)}]
      BY <1>6, <2>1, <3>2
    <3>4. QED
      BY <1>1, <1>4, <2>1, <3>1, <3>3
  <2>2. f[{}] = <<>>
    BY <1>6
  <2>3. QED
    BY <2>1, <2>2 DEF Follows
<1>8. PICK p \in [0..n -> Seq(V)] :
        /\ p[0] = <<>> /\ p[n] = f[1..n]
        /\ \A k \in 1..n : p[k] = step[k][p[k - 1]]
  <2> DEFINE S == Seq(V)
             first == <<>>
  <2>1. n \in Nat /\ first \in S /\ step \in [1..n -> [S -> S]]
        /\ Follows(f, n, S, first, step)
    BY <1>1, <1>3, <1>7
  <2> HIDE DEF S, first
  <2>2. \E p \in [0..n -> S] :
          /\ p[0] = first /\ p[n] = f[1..n]
          /\ \A k \in 1..n : p[k] = step[k][p[k - 1]]
    BY <2>1, FoldWalks DEF Walks
  <2>3. QED
    BY <2>2 DEF S, first
<1>9. \A k \in 1..n : p[k] = IF k \in at THEN Append(p[k - 1], seq[k]) ELSE p[k - 1]
  <2>1. \A k \in 1..n : p[k - 1] \in Seq(V)
    BY <1>1, <1>8
  <2>2. QED
    BY <1>4, <1>8, <2>1
<1>10. Picks(p, V, seq, at)
  BY <1>6, <1>8, <1>9 DEF Picks, n
<1>11. QED
  BY <1>10

(***************************************************************************)
(* Texts, and lists of pieces of one.                                      *)
(***************************************************************************)
(* The characters that the program itself puts into texts, or looks for,   *)
(* are strings like all others, which the provers are not told.            *)
Chars == STRING \cup {Space, Newline, Stop, "*"}
Texts == Seq(Chars)

(* piece is what text has from its at-th character.                        *)
Stands(text, piece, at) ==
  /\ at \in Nat /\ 1 <= at /\ at + Len(piece) <= Len(text) + 1
  /\ \A i \in 1..Len(piece) : piece[i] = text[at + i - 1]

Letterless(text, from, to) == \A n \in Letters(text) : n < from \/ to <= n

(* The pieces, none longer than size, stand one after another from the     *)
(* places at, and no letter from lo up to hi is in none.                   *)
Placed(text, lo, hi, size, pieces, at) ==
  /\ pieces \in Seq(Texts) /\ at \in [1..Len(pieces) -> Nat]
  /\ \A k \in 1..Len(pieces) :
       /\ Len(pieces[k]) <= size /\ Stands(text, pieces[k], at[k])
       /\ lo <= at[k] /\ at[k] + Len(pieces[k]) <= hi
  /\ \A j, k \in 1..Len(pieces) : j < k => at[j] + Len(pieces[j]) <= at[k]
  /\ \A n \in Letters(text) : (lo <= n /\ n < hi) =>
       \E k \in 1..Len(pieces) : at[k] <= n /\ n < at[k] + Len(pieces[k])

(* The pieces stand one after another between lo and hi, none too long,    *)
(* with no letter outside them.                                            *)
Fills(text, lo, hi, size, pieces) ==
  \E at : Placed(text, lo, hi, size, pieces, at)

(* A letter is at a position of its text.                                  *)
LEMMA LettersAreCharacters ==
  ASSUME NEW text \in Texts
  PROVE  /\ Len(text) \in Nat /\ DOMAIN text = 1..Len(text)
         /\ \A n \in Letters(text) : n \in 1..Len(text)
BY DEF Texts, Letters

(* What is cut out of a text stands where it was cut.                      *)
LEMMA CutStands ==
  ASSUME NEW text \in Texts, NEW a \in Nat, NEW b \in Nat,
         1 <= a, a <= b + 1, b <= Len(text)
  PROVE  LET piece == SubSeq(text, a, b)
         IN piece \in Texts /\ Len(piece) = b + 1 - a /\ Stands(text, piece, a)
<1> DEFINE piece == SubSeq(text, a, b)
<1>1. text \in Seq(Chars) /\ Len(text) \in Nat
  BY DEF Texts
<1>2. Len(piece) = b + 1 - a
  BY <1>1
<1>3. \A i \in 1..Len(piece) : piece[i] = text[a + i - 1]
  BY <1>1, <1>2
<1>4. piece \in Texts
  <2> DEFINE m == b + 1 - a
  <2>1. piece = [i \in 1..m |-> text[a + i - 1]]
    BY <1>1
  <2>2. m \in Nat /\ \A i \in 1..m : text[a + i - 1] \in Chars
    BY <1>1
  <2> HIDE DEF piece, m
  <2>3. piece \in [1..m -> Chars]
    BY <2>1, <2>2
  <2>4. QED
    BY <2>2, <2>3 DEF Texts
<1> HIDE DEF piece
<1>5. Stands(text, piece, a)
  BY <1>1, <1>2, <1>3 DEF Stands
<1>6. QED
  BY <1>2, <1>4, <1>5 DEF piece

(* Where a text with a piece has a letter, so has the piece.               *)
LEMMA LettersStand ==
  ASSUME NEW text \in Texts, NEW piece \in Texts, NEW at, Stands(text, piece, at),
         NEW i \in 1..Len(piece)
  PROVE  i \in Letters(piece) <=> at + i - 1 \in Letters(text)
<1>1. /\ Len(text) \in Nat /\ DOMAIN text = 1..Len(text)
      /\ Len(piece) \in Nat /\ DOMAIN piece = 1..Len(piece)
  BY DEF Texts
<1>2. piece[i] = text[at + i - 1] /\ at + i - 1 \in 1..Len(text)
  BY <1>1 DEF Stands
<1>3. QED
  BY <1>1, <1>2 DEF Letters

(* A piece of a piece is a piece.                                          *)
LEMMA StandsWithin ==
  ASSUME NEW text \in Texts, NEW part \in Texts, NEW piece \in Texts,
         NEW a, NEW b, Stands(text, part, a), Stands(part, piece, b)
  PROVE  Stands(text, piece, a + b - 1)
<1>1. Len(text) \in Nat /\ Len(part) \in Nat /\ Len(piece) \in Nat
  BY DEF Texts
<1>2. /\ a \in Nat /\ 1 <= a /\ a + Len(part) <= Len(text) + 1
      /\ b \in Nat /\ 1 <= b /\ b + Len(piece) <= Len(part) + 1
      /\ \A i \in 1..Len(part) : part[i] = text[a + i - 1]
      /\ \A i \in 1..Len(piece) : piece[i] = part[b + i - 1]
  BY DEF Stands
<1>3. ASSUME NEW i \in 1..Len(piece) PROVE piece[i] = text[(a + b - 1) + i - 1]
  <2>1. b + i - 1 \in 1..Len(part)
    BY <1>1, <1>2
  <2>2. a + (b + i - 1) - 1 = (a + b - 1) + i - 1
    BY <1>1, <1>2
  <2>3. QED
    BY <1>2, <2>1, <2>2
<1>4. QED
  BY <1>1, <1>2, <1>3 DEF Stands

(* Two pieces that meet stand as one.                                      *)
LEMMA StandsJoined ==
  ASSUME NEW text \in Texts, NEW p \in Texts, NEW q \in Texts, NEW a,
         Stands(text, p, a), Stands(text, q, a + Len(p))
  PROVE  /\ p \o q \in Texts /\ Len(p \o q) = Len(p) + Len(q)
         /\ Stands(text, p \o q, a)
<1>1. /\ Len(text) \in Nat /\ Len(p) \in Nat /\ Len(q) \in Nat
      /\ p \o q \in Texts /\ Len(p \o q) = Len(p) + Len(q)
  BY DEF Texts
<1>2. /\ a \in Nat /\ 1 <= a /\ a + Len(p) + Len(q) <= Len(text) + 1
      /\ \A i \in 1..Len(p) : p[i] = text[a + i - 1]
      /\ \A i \in 1..Len(q) : q[i] = text[a + Len(p) + i - 1]
  BY DEF Stands
<1>3. ASSUME NEW i \in 1..Len(p) + Len(q) PROVE (p \o q)[i] = text[a + i - 1]
  <2>1. CASE i <= Len(p)
    <3>1. (p \o q)[i] = p[i] /\ i \in 1..Len(p)
      BY <1>1, <2>1 DEF Texts
    <3>2. QED
      BY <1>2, <3>1
  <2>2. CASE i > Len(p)
    <3>1. (p \o q)[i] = q[i - Len(p)] /\ i - Len(p) \in 1..Len(q)
      BY <1>1, <2>2 DEF Texts
    <3>2. a + Len(p) + (i - Len(p)) - 1 = a + i - 1
      BY <1>1, <1>2
    <3>3. QED
      BY <1>2, <3>1, <3>2
  <2>3. QED
    BY <1>1, <2>1, <2>2
<1>4. QED
  BY <1>1, <1>2, <1>3 DEF Stands

(***************************************************************************)
(* Building a list of pieces.                                              *)
(***************************************************************************)
LEMMA FillsNothing ==
  ASSUME NEW text \in Texts, NEW lo \in Nat, NEW hi \in Nat, NEW size,
         Letterless(text, lo, hi)
  PROVE  Fills(text, lo, hi, size, <<>>)
<1>1. <<>> \in Seq(Texts) /\ Len(<<>>) = 0
  OBVIOUS
<1>2. [k \in 1..0 |-> 1] \in [1..Len(<<>>) -> Nat]
  BY <1>1
<1>3. Placed(text, lo, hi, size, <<>>, [k \in 1..0 |-> 1])
  BY <1>1, <1>2, LettersAreCharacters DEF Placed, Letterless
<1>4. QED
  BY <1>3 DEF Fills

(* A piece that fits the size fills its place alone.                       *)
LEMMA FillsOne ==
  ASSUME NEW text \in Texts, NEW piece \in Texts, NEW size, Len(piece) <= size,
         NEW c, Stands(text, piece, c)
  PROVE  Fills(text, c, c + Len(piece), size, <<piece>>)
<1>1. <<piece>> \in Seq(Texts) /\ Len(<<piece>>) = 1 /\ <<piece>>[1] = piece
  OBVIOUS
<1>2. c \in Nat /\ Len(piece) \in Nat /\ Len(text) \in Nat
  BY DEF Stands, Texts
<1>3. [k \in 1..1 |-> c] \in [1..Len(<<piece>>) -> Nat]
  BY <1>1, <1>2
<1>4. Placed(text, c, c + Len(piece), size, <<piece>>, [k \in 1..1 |-> c])
  BY <1>1, <1>2, <1>3 DEF Placed
<1>5. QED
  BY <1>4 DEF Fills

(* One list after another, with no letter between them.                    *)
LEMMA FillsBoth ==
  ASSUME NEW text \in Texts, NEW lo \in Nat, NEW mid \in Nat, NEW from \in Nat,
         NEW hi \in Nat, NEW size, NEW p, NEW q,
         lo <= mid, mid <= from, from <= hi, Letterless(text, mid, from),
         Fills(text, lo, mid, size, p), Fills(text, from, hi, size, q)
  PROVE  Fills(text, lo, hi, size, p \o q)
<1>1. PICK a : Placed(text, lo, mid, size, p, a)
  BY DEF Fills
<1>2. PICK b : Placed(text, from, hi, size, q, b)
  BY DEF Fills
<1> DEFINE m == Len(p)
           n == Len(q)
           at == [k \in 1..m + n |-> IF k <= m THEN a[k] ELSE b[k - m]]
           r == p \o q
<1>3. /\ p \in Seq(Texts) /\ a \in [1..m -> Nat] /\ m \in Nat
      /\ q \in Seq(Texts) /\ b \in [1..n -> Nat] /\ n \in Nat
  BY <1>1, <1>2 DEF Placed
<1>4. r \in Seq(Texts) /\ Len(r) = m + n
  BY <1>3
<1>5. /\ \A k \in 1..m + n : k <= m => r[k] = p[k] /\ at[k] = a[k] /\ k \in 1..m
      /\ \A k \in 1..m + n : k > m => /\ r[k] = q[k - m] /\ at[k] = b[k - m]
                                      /\ k - m \in 1..n
  BY <1>3
<1>6. at \in [1..m + n -> Nat]
  BY <1>3
<1>7. /\ \A k \in 1..m : /\ Len(p[k]) <= size /\ Stands(text, p[k], a[k])
                         /\ lo <= a[k] /\ a[k] + Len(p[k]) <= mid
                         /\ Len(p[k]) \in Nat /\ a[k] \in Nat
      /\ \A k \in 1..n : /\ Len(q[k]) <= size /\ Stands(text, q[k], b[k])
                         /\ from <= b[k] /\ b[k] + Len(q[k]) <= hi
                         /\ Len(q[k]) \in Nat /\ b[k] \in Nat
  <2>1. \A t \in Texts : Len(t) \in Nat
    BY DEF Texts
  <2>2. /\ \A k \in 1..m : Len(p[k]) \in Nat /\ a[k] \in Nat
        /\ \A k \in 1..n : Len(q[k]) \in Nat /\ b[k] \in Nat
    <3>1. /\ \A k \in 1..m : p[k] \in Texts
          /\ \A k \in 1..n : q[k] \in Texts
      BY <1>3
    <3>2. /\ \A k \in 1..m : a[k] \in Nat
          /\ \A k \in 1..n : b[k] \in Nat
      BY <1>3
    <3> HIDE DEF m, n
    <3>3. QED
      BY <2>1, <3>1, <3>2
  <2>3. \A k \in 1..m : /\ Len(p[k]) <= size /\ Stands(text, p[k], a[k])
                         /\ lo <= a[k] /\ a[k] + Len(p[k]) <= mid
    BY <1>1 DEF Placed
  <2>4. \A k \in 1..n : /\ Len(q[k]) <= size /\ Stands(text, q[k], b[k])
                         /\ from <= b[k] /\ b[k] + Len(q[k]) <= hi
    BY <1>2 DEF Placed
  <2>5. QED
    BY <2>2, <2>3, <2>4
<1> HIDE DEF at, r, m, n
<1>8. ASSUME NEW k \in 1..m + n
      PROVE  /\ Len(r[k]) <= size /\ Stands(text, r[k], at[k])
             /\ lo <= at[k] /\ at[k] + Len(r[k]) <= hi
             /\ k <= m => at[k] + Len(r[k]) <= mid
             /\ k > m => from <= at[k]
  <2>1. CASE k <= m
    <3>1. r[k] = p[k] /\ at[k] = a[k] /\ k \in 1..m
      BY <1>5, <2>1
    <3>2. a[k] + Len(p[k]) <= hi
      BY <1>7, <3>1
    <3>3. ~(k > m)
      BY <1>3, <2>1
    <3>4. QED
      BY <1>7, <3>1, <3>2, <3>3
  <2>2. CASE k > m
    <3> DEFINE i == k - m
    <3>1. r[k] = q[i] /\ at[k] = b[i] /\ i \in 1..n
      BY <1>5, <2>2
    <3> HIDE DEF i
    <3>2. lo <= b[i]
      BY <1>7, <3>1
    <3>3. ~(k <= m)
      BY <1>3, <2>2
    <3>4. QED
      BY <1>7, <3>1, <3>2, <3>3
  <2>3. QED
    BY <1>3, <2>1, <2>2
<1>9. ASSUME NEW j \in 1..m + n, NEW k \in 1..m + n, j < k
      PROVE  at[j] + Len(r[j]) <= at[k]
  <2>1. CASE k <= m
    <3>1. \A x, y \in 1..m : x < y => a[x] + Len(p[x]) <= a[y]
      BY <1>1 DEF Placed, m
    <3>2. j <= m /\ k <= m
      BY <1>3, <1>9, <2>1
    <3>3. QED
      BY <1>5, <1>9, <3>1, <3>2
  <2>2. CASE j > m
    <3>1. \A x, y \in 1..n : x < y => b[x] + Len(q[x]) <= b[y]
      BY <1>2 DEF Placed, n
    <3>2. j - m < k - m /\ j > m /\ k > m
      BY <1>3, <1>9, <2>2
    <3>3. QED
      BY <1>5, <3>1, <3>2
  <2>3. CASE j <= m /\ k > m
    <3>1. at[j] \in Nat /\ at[k] \in Nat /\ Len(r[j]) \in Nat
      BY <1>3, <1>5, <1>7, <2>3
    <3>2. QED
      BY <1>8, <2>3, <3>1
  <2>4. QED
    BY <1>3, <2>1, <2>2, <2>3
<1>10. ASSUME NEW x \in Letters(text), lo <= x, x < hi
       PROVE  \E k \in 1..m + n : at[k] <= x /\ x < at[k] + Len(r[k])
  <2>0. x \in Nat
    BY LettersAreCharacters
  <2>1. CASE x < mid
    <3>1. PICK k \in 1..m : a[k] <= x /\ x < a[k] + Len(p[k])
      BY <1>1, <1>10, <2>1 DEF Placed, m
    <3>2. k \in 1..m + n /\ k <= m
      BY <1>3
    <3>3. QED
      BY <1>5, <3>1, <3>2
  <2>2. CASE from <= x
    <3>1. PICK k \in 1..n : b[k] <= x /\ x < b[k] + Len(q[k])
      BY <1>2, <1>10, <2>2 DEF Placed, n
    <3>2. m + k \in 1..m + n /\ m + k > m /\ (m + k) - m = k
      BY <1>3
    <3>3. QED
      BY <1>5, <3>1, <3>2
  <2>3. QED
    BY <2>0, <2>1, <2>2 DEF Letterless
<1>11. Placed(text, lo, hi, size, r, at)
  BY <1>4, <1>6, <1>8, <1>9, <1>10 DEF Placed
<1>12. QED
  BY <1>11 DEF Fills, r

(* What follows the last piece may hold no letter.                         *)
LEMMA FillsUpTo ==
  ASSUME NEW text \in Texts, NEW lo \in Nat, NEW mid \in Nat, NEW hi \in Nat,
         NEW size, NEW p, lo <= mid, mid <= hi, Letterless(text, mid, hi),
         Fills(text, lo, mid, size, p)
  PROVE  Fills(text, lo, hi, size, p)
<1>1. Letterless(text, hi, hi)
  BY LettersAreCharacters DEF Letterless
<1>2. Fills(text, hi, hi, size, <<>>)
  BY <1>1, FillsNothing
<1>3. Fills(text, lo, hi, size, p \o <<>>)
  <2>1. hi <= hi
    OBVIOUS
  <2>2. QED
    BY <1>2, <2>1, FillsBoth
<1>4. p \o <<>> = p
  <2>1. p \in Seq(Texts)
    BY DEF Fills, Placed
  <2>2. QED
    BY <2>1
<1>5. QED
  BY <1>3, <1>4

(* The pieces of a part are pieces of the text.                            *)
LEMMA FillsWithin ==
  ASSUME NEW text \in Texts, NEW part \in Texts, NEW f, NEW size, NEW p,
         Stands(text, part, f), Fills(part, 1, Len(part) + 1, size, p)
  PROVE  Fills(text, f, f + Len(part), size, p)
<1>1. PICK at : Placed(part, 1, Len(part) + 1, size, p, at)
  BY DEF Fills
<1> DEFINE n == Len(p)
           to == [k \in 1..n |-> f + at[k] - 1]
<1>2. p \in Seq(Texts) /\ at \in [1..n -> Nat] /\ n \in Nat
  BY <1>1 DEF Placed
<1>3. f \in Nat /\ 1 <= f /\ Len(part) \in Nat /\ Len(text) \in Nat
  BY DEF Stands, Texts
<1>4. \A k \in 1..n : /\ Len(p[k]) <= size /\ Stands(part, p[k], at[k])
                      /\ 1 <= at[k] /\ at[k] + Len(p[k]) <= Len(part) + 1
  BY <1>1 DEF Placed
<1>5. \A k \in 1..n : p[k] \in Texts /\ at[k] \in Nat /\ to[k] = f + at[k] - 1
  BY <1>2
<1>6. \A t \in Texts : Len(t) \in Nat
  BY DEF Texts
<1>7. to \in [1..n -> Nat]
  BY <1>3, <1>4, <1>5
<1> HIDE DEF n, to
<1>8. ASSUME NEW k \in 1..n
      PROVE  /\ Len(p[k]) <= size /\ Stands(text, p[k], to[k])
             /\ f <= to[k] /\ to[k] + Len(p[k]) <= f + Len(part)
  <2>1. Stands(text, p[k], to[k])
    BY <1>4, <1>5, StandsWithin
  <2>2. Len(p[k]) \in Nat
    BY <1>5, <1>6
  <2>3. Len(p[k]) <= size
    BY <1>4
  <2>4. /\ to[k] = f + at[k] - 1 /\ at[k] \in Nat
        /\ 1 <= at[k] /\ at[k] + Len(p[k]) <= Len(part) + 1
    BY <1>4, <1>5
  <2>5. f <= to[k] /\ to[k] + Len(p[k]) <= f + Len(part)
    BY <1>3, <2>2, <2>4
  <2>6. QED
    BY <2>1, <2>3, <2>5
<1>9. ASSUME NEW j \in 1..n, NEW k \in 1..n, j < k
      PROVE  to[j] + Len(p[j]) <= to[k]
  <2>1. at[j] + Len(p[j]) <= at[k]
    BY <1>1, <1>9 DEF Placed, n
  <2>2. Len(p[j]) \in Nat
    BY <1>5, <1>6
  <2>3. /\ to[j] = f + at[j] - 1 /\ to[k] = f + at[k] - 1
        /\ at[j] \in Nat /\ at[k] \in Nat
    BY <1>5
  <2> DEFINE a == at[j]
             b == at[k]
             long == Len(p[j])
  <2>4. a \in Nat /\ b \in Nat /\ long \in Nat /\ a + long <= b
    BY <2>1, <2>2, <2>3
  <2> HIDE DEF a, b, long
  <2>5. f + a - 1 + long <= f + b - 1
    BY <1>3, <2>4
  <2>6. QED
    BY <2>3, <2>5 DEF a, b, long
<1>10. ASSUME NEW x \in Letters(text), f <= x, x < f + Len(part)
       PROVE  \E k \in 1..n : to[k] <= x /\ x < to[k] + Len(p[k])
  <2> DEFINE y == x - f + 1
  <2>1. x \in Nat
    BY LettersAreCharacters
  <2>2. y \in 1..Len(part) /\ f + y - 1 = x
    BY <1>3, <1>10, <2>1
  <2> HIDE DEF y
  <2>3. y \in Letters(part)
    BY <2>2, LettersStand
  <2>4. PICK k \in 1..n : at[k] <= y /\ y < at[k] + Len(p[k])
    <3>1. 1 <= y /\ y < Len(part) + 1
      BY <1>3, <2>2
    <3>2. QED
      BY <1>1, <2>3, <3>1 DEF Placed, n
  <2>5. Len(p[k]) \in Nat
    BY <1>5, <1>6
  <2>6. QED
    BY <1>3, <1>5, <2>1, <2>2, <2>4, <2>5
<1>11. Placed(text, f, f + Len(part), size, p, to)
  BY <1>2, <1>7, <1>8, <1>9, <1>10 DEF Placed, n
<1>12. QED
  BY <1>11 DEF Fills

(***************************************************************************)
(* Merging.                                                                *)
(***************************************************************************)
(* What is flushed fills the text as far as what is being merged, which    *)
(* ends at e.                                                              *)
Accumulators == [chunks: Seq(Texts), current: Texts]

Packing(text, size, acc, e) ==
  /\ acc \in Accumulators /\ e \in Nat /\ Len(acc.current) <= size
  /\ Stands(text, acc.current, e - Len(acc.current))
  /\ Fills(text, 1, e - Len(acc.current), size, acc.chunks)

(* A piece is flushed to where it ends.                                    *)
LEMMA FlushFills ==
  ASSUME NEW text \in Texts, NEW size, NEW acc, NEW e, Packing(text, size, acc, e)
  PROVE  /\ Fills(text, 1, e, size, Flush(acc.chunks, acc.current))
         /\ 1 <= e /\ e <= Len(text) + 1
<1> DEFINE current == acc.current
           c == e - Len(current)
<1>1. /\ current \in Texts /\ acc.chunks \in Seq(Texts) /\ e \in Nat
      /\ Len(current) <= size
      /\ Stands(text, current, c) /\ Fills(text, 1, c, size, acc.chunks)
  BY DEF Packing, Accumulators
<1>2. /\ Len(current) \in Nat /\ Len(text) \in Nat /\ c \in Nat
      /\ 1 <= c /\ c + Len(current) = e /\ e <= Len(text) + 1
  BY <1>1 DEF Stands, Texts
<1>3. CASE current = <<>>
  <2>1. c = e /\ Flush(acc.chunks, acc.current) = acc.chunks
    BY <1>2, <1>3 DEF Flush
  <2>2. QED
    BY <1>1, <1>2, <2>1
<1>4. CASE current # <<>>
  <2>1. Flush(acc.chunks, acc.current) = acc.chunks \o <<current>>
    <3>1. \A q \in Seq(Texts), t \in Texts : Append(q, t) = q \o <<t>>
      OBVIOUS
    <3>2. QED
      BY <1>1, <1>4, <3>1 DEF Flush
  <2> HIDE DEF current, c
  <2>2. Fills(text, c, c + Len(current), size, <<current>>)
    BY <1>1, FillsOne
  <2>3. Letterless(text, c, c) /\ c <= c /\ c <= e /\ 1 \in Nat
    BY <1>1, <1>2, LettersAreCharacters DEF Letterless
  <2>4. Fills(text, 1, e, size, acc.chunks \o <<current>>)
    BY <1>1, <1>2, <2>2, <2>3, FillsBoth
  <2>5. QED
    BY <1>1, <1>2, <2>1, <2>4
<1>5. QED
  BY <1>3, <1>4

(* One more part keeps the list filled.                                    *)
LEMMA PackFills ==
  ASSUME NEW text \in Texts, NEW size \in Nat, NEW acc, NEW e,
         Packing(text, size, acc, e), NEW sep \in Texts, NEW part \in Texts,
         NEW f \in Nat, e <= f, Letterless(text, e, f), Stands(text, part, f),
         acc.current # <<>> => Stands(text, sep, e) /\ f = e + Len(sep),
         NEW deeper, Fills(part, 1, Len(part) + 1, size, deeper)
  PROVE  Packing(text, size, Pack(acc, part, deeper, sep, size), f + Len(part))
<1> DEFINE current == acc.current
           chunks == acc.chunks
           candidate == Candidate(current, sep, part)
           flushed == Flush(chunks, current)
           result == Pack(acc, part, deeper, sep, size)
           to == f + Len(part)
           c == e - Len(current)
<1> SUFFICES Packing(text, size, result, to)
  OBVIOUS
<1>1. /\ current \in Texts /\ chunks \in Seq(Texts) /\ e \in Nat
      /\ Len(current) <= size
      /\ Stands(text, current, c) /\ Fills(text, 1, c, size, chunks)
  BY DEF Packing, Accumulators
<1>2. /\ Len(current) \in Nat /\ Len(text) \in Nat /\ Len(part) \in Nat
      /\ Len(sep) \in Nat /\ c \in Nat /\ to \in Nat
      /\ 1 <= c /\ c + Len(current) = e
  BY <1>1 DEF Stands, Texts
<1>3. Fills(text, 1, e, size, flushed) /\ 1 <= e
  BY FlushFills
<1>4. Fills(text, 1, f, size, flushed)
  <2>1. 1 \in Nat
    OBVIOUS
  <2> HIDE DEF flushed
  <2>2. QED
    BY <1>1, <1>3, <2>1, FillsUpTo
<1>5. deeper \in Seq(Texts) /\ flushed \in Seq(Texts)
  <2> HIDE DEF flushed
  <2>1. QED
    BY <1>4 DEF Fills, Placed
<1>6. CASE Len(candidate) <= size /\ current = <<>>
  <2>1. result = [chunks |-> chunks, current |-> part]
    <3>1. candidate = part
      BY <1>6 DEF Candidate
    <3>2. result = [acc EXCEPT !.current = candidate]
      BY <1>6 DEF Pack
    <3>3. acc \in Accumulators
      BY DEF Packing
    <3> HIDE DEF candidate, result
    <3>4. QED
      BY <3>1, <3>2, <3>3 DEF Accumulators
  <2>2. candidate = part /\ flushed = chunks /\ to - Len(part) = f
    BY <1>2, <1>6 DEF Candidate, Flush
  <2>3. Len(part) <= size /\ Fills(text, 1, f, size, chunks)
    BY <1>4, <1>6, <2>2
  <2> HIDE DEF result, chunks, to
  <2>4. QED
    BY <1>1, <1>2, <2>1, <2>2, <2>3 DEF Packing, Accumulators
<1>7. CASE Len(candidate) <= size /\ current # <<>>
  <2>1. result = [chunks |-> chunks, current |-> candidate]
    <3>2. result = [acc EXCEPT !.current = candidate]
      BY <1>7 DEF Pack
    <3>3. acc \in Accumulators
      BY DEF Packing
    <3> HIDE DEF candidate, result
    <3>4. QED
      BY <3>2, <3>3 DEF Accumulators
  <2>2. Stands(text, sep, c + Len(current)) /\ f = c + Len(current) + Len(sep)
    BY <1>2, <1>7
  <2> DEFINE joined == current \o sep
  <2>3. joined \in Texts /\ Len(joined) = Len(current) + Len(sep)
        /\ Stands(text, joined, c)
    <3> HIDE DEF current, c
    <3>1. QED
      BY <1>1, <2>2, StandsJoined
  <2>4. candidate = joined \o part
    <3>1. \A x, y, z \in Texts : x \o y \o z = (x \o y) \o z
      OBVIOUS
    <3>2. QED
      BY <1>1, <1>7, <3>1 DEF Candidate
  <2>5. c + Len(joined) = f
    BY <1>2, <2>2, <2>3
  <2> HIDE DEF joined, current, c, candidate
  <2>6. candidate \in Texts /\ Len(candidate) = Len(joined) + Len(part)
        /\ Stands(text, candidate, c)
    <3>1. part \in Texts /\ Stands(text, part, c + Len(joined))
      BY <1>1, <2>5
    <3>2. /\ joined \o part \in Texts
          /\ Len(joined \o part) = Len(joined) + Len(part)
          /\ Stands(text, joined \o part, c)
      BY <2>3, <3>1, StandsJoined
    <3>3. QED
      BY <2>4, <3>2
  <2>7. to - Len(candidate) = c
    <3>1. Len(joined) \in Nat
      BY <2>3 DEF Texts
    <3>2. QED
      BY <1>2, <2>5, <2>6, <3>1
  <2> HIDE DEF result, chunks, to
  <2>8. QED
    BY <1>1, <1>2, <1>7, <2>1, <2>6, <2>7 DEF Packing, Accumulators
<1>8. CASE ~(Len(candidate) <= size) /\ Len(part) > size
  <2>1. result = [chunks |-> flushed \o deeper, current |-> <<>>]
    BY <1>8 DEF Pack
  <2>2. Fills(text, f, to, size, deeper)
    BY FillsWithin
  <2>3. Letterless(text, f, f) /\ 1 <= f /\ f <= f /\ f <= to /\ 1 \in Nat
    BY <1>1, <1>2, <1>3, LettersAreCharacters DEF Letterless
  <2>4. to <= Len(text) + 1
    BY DEF Stands
  <2> HIDE DEF result, flushed, to
  <2>5. Fills(text, 1, to, size, flushed \o deeper)
    BY <1>2, <1>4, <2>2, <2>3, FillsBoth
  <2>6. <<>> \in Texts /\ Len(<<>>) = 0 /\ flushed \o deeper \in Seq(Texts)
    BY <1>5 DEF Texts
  <2>7. to - 0 = to /\ Stands(text, <<>>, to)
    BY <1>2, <2>3, <2>4, <2>6 DEF Stands
  <2>8. QED
    BY <1>2, <2>1, <2>5, <2>6, <2>7 DEF Packing, Accumulators
<1>9. CASE ~(Len(candidate) <= size) /\ ~(Len(part) > size)
  <2>1. result = [chunks |-> flushed, current |-> part]
    BY <1>9 DEF Pack
  <2>2. Len(part) <= size /\ to - Len(part) = f
    BY <1>2, <1>9
  <2> HIDE DEF result, flushed, to
  <2>3. QED
    BY <1>2, <1>4, <1>5, <2>1, <2>2 DEF Packing, Accumulators
<1>10. QED
  BY <1>6, <1>7, <1>8, <1>9

(***************************************************************************)
(* Cutting.                                                                *)
(***************************************************************************)
(* Places in text, width apart.                                            *)
Apart(text, at, width) ==
  /\ at \in Seq(1..Len(text))
  /\ \A k \in 1..Len(at) : at[k] + width <= Len(text) + 1
  /\ \A k \in 1..Len(at) - 1 : at[k] + width <= at[k + 1]

(* The parts of a text that is cut at some places stand one after another, *)
(* width apart, from its start to its end.                                 *)
Consecutive(text, parts, from, at, width) ==
  /\ parts \in Seq(Texts) /\ Len(parts) = Len(at) + 1
  /\ from \in [1..Len(parts) -> Nat] /\ from[1] = 1
  /\ \A k \in 1..Len(parts) : Stands(text, parts[k], from[k])
  /\ \A k \in 1..Len(at) : /\ from[k] + Len(parts[k]) = at[k]
                           /\ from[k + 1] = at[k] + width
  /\ from[Len(parts)] + Len(parts[Len(parts)]) = Len(text) + 1

(* The pieces between cuts that are width apart stand one after another,   *)
(* with a cut between any two.                                             *)
LEMMA CutPlaces ==
  ASSUME NEW text \in Texts, NEW width \in Nat, NEW at, Apart(text, at, width)
  PROVE  \E from : Consecutive(text, CutAt(text, at, width), from, at, width)
<1> DEFINE m == Len(at)
           parts == CutAt(text, at, width)
           from == [k \in 1..m + 1 |-> IF k = 1 THEN 1 ELSE at[k - 1] + width]
           to == [k \in 1..m + 1 |-> IF k > m THEN Len(text) ELSE at[k] - 1]
<1>1. /\ m \in Nat /\ Len(text) \in Nat
      /\ \A k \in 1..m : at[k] \in 1..Len(text) /\ at[k] + width <= Len(text) + 1
      /\ \A k \in 1..m - 1 : at[k] + width <= at[k + 1]
  BY DEF Apart, Texts
<1>2. parts = [k \in 1..m + 1 |-> SubSeq(text, from[k], to[k])]
  BY DEF CutAt
<1>3. /\ from[1] = 1 /\ to[m + 1] = Len(text)
      /\ \A k \in 1..m : from[k + 1] = at[k] + width /\ to[k] = at[k] - 1
  <2>1. 1 \in 1..m + 1 /\ m + 1 \in 1..m + 1 /\ m + 1 > m
    BY <1>1
  <2>2. ASSUME NEW k \in 1..m PROVE from[k + 1] = at[k] + width /\ to[k] = at[k] - 1
    <3>1. k + 1 \in 1..m + 1 /\ k + 1 # 1 /\ (k + 1) - 1 = k
          /\ k \in 1..m + 1 /\ ~(k > m)
      BY <1>1
    <3>2. QED
      BY <3>1
  <2>3. QED
    BY <2>1, <2>2
<1> HIDE DEF from, to, parts, m
<1>4. ASSUME NEW k \in 1..m + 1
      PROVE  /\ from[k] \in Nat /\ to[k] \in Nat /\ 1 <= from[k]
             /\ from[k] <= to[k] + 1 /\ to[k] <= Len(text)
  <2>1. CASE k = 1 /\ k > m
    <3>1. k = m + 1
      BY <1>1, <2>1
    <3>2. QED
      BY <1>1, <1>3, <2>1, <3>1
  <2>2. CASE k = 1 /\ k <= m
    <3>1. k \in 1..m /\ from[k] = 1
      BY <1>1, <1>3, <2>2
    <3>2. to[k] = at[k] - 1 /\ at[k] \in 1..Len(text)
      BY <1>1, <1>3, <3>1
    <3>3. QED
      BY <1>1, <3>1, <3>2
  <2>3. CASE k # 1
    <3> DEFINE j == k - 1
    <3>1. j \in 1..m /\ j + 1 = k
      BY <1>1, <2>3
    <3> HIDE DEF j
    <3>2. from[k] = at[j] + width /\ at[j] \in 1..Len(text)
          /\ at[j] + width <= Len(text) + 1
      BY <1>1, <1>3, <3>1
    <3>3. CASE k > m
      <4>1. k = m + 1
        BY <1>1, <3>3
      <4>2. QED
        BY <1>1, <1>3, <3>2, <4>1
    <3>4. CASE k <= m
      <4>1. j \in 1..m - 1 /\ k \in 1..m
        BY <1>1, <3>1, <3>4
      <4>2. at[j] + width <= at[k] /\ to[k] = at[k] - 1 /\ at[k] \in 1..Len(text)
        BY <1>1, <1>3, <3>1, <4>1
      <4> DEFINE a == at[j]
                 b == at[k]
                 end == Len(text)
      <4>3. /\ a \in 1..end /\ b \in 1..end /\ end \in Nat
            /\ a + width <= b /\ from[k] = a + width /\ to[k] = b - 1
        BY <1>1, <3>2, <4>2
      <4> HIDE DEF a, b, end
      <4>4. /\ from[k] \in Nat /\ to[k] \in Nat /\ 1 <= from[k]
            /\ from[k] <= to[k] + 1 /\ to[k] <= end
        BY <4>3
      <4>5. QED
        BY <4>4 DEF end
    <3>5. QED
      BY <1>1, <3>3, <3>4
  <2>4. QED
    BY <1>1, <2>1, <2>2, <2>3
<1>5. ASSUME NEW k \in 1..m + 1
      PROVE  /\ parts[k] \in Texts /\ Len(parts[k]) = to[k] + 1 - from[k]
             /\ Stands(text, parts[k], from[k])
  <2>1. parts[k] = SubSeq(text, from[k], to[k])
    BY <1>2
  <2>2. QED
    BY <1>4, <2>1, CutStands
<1>6. parts \in Seq(Texts) /\ Len(parts) = m + 1
  <2>1. parts \in [1..m + 1 -> Texts]
    <3>1. parts = [k \in 1..m + 1 |-> parts[k]]
      BY <1>2
    <3>2. QED
      BY <1>5, <3>1
  <2>2. m + 1 \in Nat
    BY <1>1
  <2>3. QED
    BY <2>1, <2>2
<1>7. from \in [1..m + 1 -> Nat]
  <2>1. from = [k \in 1..m + 1 |-> from[k]]
    BY DEF from
  <2>2. QED
    BY <1>4, <2>1
<1>8. ASSUME NEW k \in 1..m
      PROVE  from[k] + Len(parts[k]) = at[k] /\ from[k + 1] = at[k] + width
  <2>1. k \in 1..m + 1 /\ at[k] \in Nat
    BY <1>1
  <2>2. /\ from[k] \in Nat /\ to[k] \in Nat /\ Len(parts[k]) = to[k] + 1 - from[k]
    BY <1>4, <1>5, <2>1
  <2>3. to[k] = at[k] - 1 /\ from[k + 1] = at[k] + width
    BY <1>3
  <2>4. QED
    BY <2>1, <2>2, <2>3
<1>9. from[m + 1] + Len(parts[m + 1]) = Len(text) + 1
  <2>1. m + 1 \in 1..m + 1
    BY <1>1
  <2>2. QED
    BY <1>1, <1>3, <1>4, <1>5, <2>1
<1>10. Consecutive(text, parts, from, at, width)
  BY <1>3, <1>5, <1>6, <1>7, <1>8, <1>9 DEF Consecutive, m
<1>11. QED
  BY <1>10 DEF parts

(* StandsAt is Stands.                                                     *)
LEMMA StandsAtStands ==
  ASSUME NEW text \in Texts, NEW piece \in Texts, NEW n \in Nat, 1 <= n,
         n <= Len(text) + 1
  PROVE  StandsAt(text, piece, n) <=> Stands(text, piece, n)
<1> DEFINE b == n + Len(piece) - 1
           cut == SubSeq(text, n, b)
<1>1. Len(text) \in Nat /\ Len(piece) \in Nat /\ b \in Int
  BY DEF Texts
<1>2. CASE b > Len(text)
  BY <1>1, <1>2 DEF StandsAt, Stands
<1>3. CASE b <= Len(text)
  <2>1. b \in Nat /\ n <= b + 1
    BY <1>1
  <2>2. cut \in Texts /\ Len(cut) = b + 1 - n /\ Stands(text, cut, n)
    BY <1>3, <2>1, CutStands
  <2>3. Len(cut) = Len(piece)
    BY <1>1, <2>2
  <2>4. StandsAt(text, piece, n) <=> cut = piece
    BY <1>1, <1>3 DEF StandsAt
  <2> HIDE DEF cut, b
  <2>5. Stands(text, piece, n) => cut = piece
    <3> SUFFICES ASSUME Stands(text, piece, n) PROVE cut = piece
      OBVIOUS
    <3>1. \A i \in 1..Len(piece) : cut[i] = piece[i]
      BY <2>2, <2>3 DEF Stands
    <3>2. cut \in Seq(Chars) /\ piece \in Seq(Chars)
      BY <2>2 DEF Texts
    <3>3. cut = [i \in 1..Len(piece) |-> cut[i]]
      BY <2>3, <3>2
    <3>4. piece = [i \in 1..Len(piece) |-> piece[i]]
      BY <3>2
    <3>5. QED
      BY <3>1, <3>3, <3>4
  <2>6. cut = piece => Stands(text, piece, n)
    BY <2>2
  <2>7. QED
    BY <2>4, <2>5, <2>6
<1>4. QED
  BY <1>1, <1>2, <1>3

Cuttings(text, sep) ==
  {cuts \in Seq(1..Len(text)) :
     /\ \A k \in 1..Len(cuts) : Stands(text, sep, cuts[k])
     /\ Apart(text, cuts, Len(sep))}

FreeAt(cuts, sep, n) == cuts = <<>> \/ Last(cuts) + Len(sep) <= n

(* Another place of the separator, behind the cuts so far, is one more     *)
(* cut.                                                                    *)
LEMMA OneMoreCut ==
  ASSUME NEW text \in Texts, NEW sep \in Texts, NEW cuts \in Cuttings(text, sep),
         NEW n \in 1..Len(text), StandsAt(text, sep, n), FreeAt(cuts, sep, n)
  PROVE  Append(cuts, n) \in Cuttings(text, sep)
<1> DEFINE m == Len(cuts)
           more == Append(cuts, n)
           width == Len(sep)
<1>1. /\ cuts \in Seq(1..Len(text)) /\ m \in Nat /\ Len(text) \in Nat /\ width \in Nat
      /\ \A k \in 1..m : Stands(text, sep, cuts[k])
      /\ \A k \in 1..m : cuts[k] + width <= Len(text) + 1
      /\ \A k \in 1..m - 1 : cuts[k] + width <= cuts[k + 1]
  BY DEF Cuttings, Apart, Texts
<1>2. more \in Seq(1..Len(text)) /\ Len(more) = m + 1 /\ more[m + 1] = n
      /\ \A k \in 1..m : more[k] = cuts[k]
  BY <1>1
<1>3. Stands(text, sep, n)
  BY <1>1, StandsAtStands
<1>4. n + width <= Len(text) + 1
  BY <1>3 DEF Stands
<1>5. m # 0 => cuts[m] + width <= n
  BY <1>1 DEF FreeAt, Last
<1> HIDE DEF m, more, width
<1>6. ASSUME NEW k \in 1..m + 1
      PROVE  Stands(text, sep, more[k]) /\ more[k] + width <= Len(text) + 1
  <2>1. CASE k = m + 1
    BY <1>2, <1>3, <1>4, <2>1
  <2>2. CASE k # m + 1
    <3>1. k \in 1..m
      BY <1>1, <2>2
    <3>2. QED
      BY <1>1, <1>2, <3>1
  <2>3. QED
    BY <2>1, <2>2
<1>7. ASSUME NEW k \in 1..m PROVE more[k] + width <= more[k + 1]
  <2>1. CASE k = m
    BY <1>1, <1>2, <1>5, <2>1
  <2>2. CASE k # m
    <3>1. k \in 1..m - 1 /\ k + 1 \in 1..m
      BY <1>1, <2>2
    <3>2. QED
      BY <1>1, <1>2, <3>1
  <2>3. QED
    BY <2>1, <2>2
<1>8. (m + 1) - 1 = m
  BY <1>1
<1>9. Apart(text, more, width)
  BY <1>2, <1>6, <1>7, <1>8 DEF Apart
<1>10. QED
  BY <1>2, <1>6, <1>9 DEF Cuttings, more, width

(* A text is split where the separator stands.                             *)
LEMMA PartsAreCut ==
  ASSUME NEW text \in Texts, NEW sep \in Texts
  PROVE  \E at \in Cuttings(text, sep) : Parts(text, sep) = CutAt(text, at, Len(sep))
<1> DEFINE n == Len(text)
           V == Cuttings(text, sep)
           first == <<>>
           P == Positions(text)
           Cutting(f) == f = [s \in SUBSET (DOMAIN P) |->
                                IF s = {} THEN <<>>
                                ELSE IF /\ StandsAt(text, sep, P[Max(s)])
                                        /\ \/ f[s \ {Max(s)}] = <<>>
                                           \/ Last(f[s \ {Max(s)}]) + Len(sep) <= P[Max(s)]
                                     THEN Append(f[s \ {Max(s)}], P[Max(s)])
                                     ELSE f[s \ {Max(s)}]]
           step == [k \in 1..n |-> [v \in V |->
                      IF StandsAt(text, sep, k) /\ FreeAt(v, sep, k)
                      THEN Append(v, k) ELSE v]]
<1>1. n \in Nat /\ DOMAIN P = 1..n /\ \A k \in 1..n : P[k] = k
  BY DEF Positions, Texts
<1>2. \A f0 : Cutting(f0) =>
        \E f : Cutting(f) /\ Parts(text, sep) = CutAt(text, f[DOMAIN P], Len(sep))
  BY Zenon DEF Parts, FoldLeft, MapThenFoldSet
<1>3. step \in [1..n -> [V -> V]]
  BY OneMoreCut
<1>4. first \in V
  <2>1. <<>> \in Seq(1..Len(text)) /\ Len(<<>>) = 0
    OBVIOUS
  <2>2. QED
    BY <2>1 DEF Cuttings, Apart
<1>5. \A k \in 1..n, v \in V :
        step[k][v] = IF StandsAt(text, sep, k) /\ FreeAt(v, sep, k)
                     THEN Append(v, k) ELSE v
  OBVIOUS
<1>6. \A v, k : FreeAt(v, sep, k) <=> v = <<>> \/ Last(v) + Len(sep) <= k
  BY DEF FreeAt
<1> HIDE DEF n, step, V, P
<1>7. \E f0 : Cutting(f0)
  <2> HIDE DEF first
  <2>1. PICK f \in [SUBSET (1..n) -> V] : FoldedBy(f, n, V, first, step)
    BY <1>1, <1>3, <1>4, FoldTyped
  <2>2. ASSUME NEW s \in SUBSET (1..n)
        PROVE  f[s] = IF s = {} THEN <<>>
                      ELSE IF /\ StandsAt(text, sep, P[Max(s)])
                              /\ \/ f[s \ {Max(s)}] = <<>>
                                 \/ Last(f[s \ {Max(s)}]) + Len(sep) <= P[Max(s)]
                           THEN Append(f[s \ {Max(s)}], P[Max(s)])
                           ELSE f[s \ {Max(s)}]
    <3>1. /\ s = {} => f[s] = first
          /\ s # {} => /\ Max(s) \in 1..n /\ f[s \ {Max(s)}] \in V
                       /\ f[s] = step[Max(s)][f[s \ {Max(s)}]]
      BY <2>1 DEF FoldedBy
    <3>2. CASE s = {}
      BY <3>1, <3>2 DEF first
    <3>3. CASE s # {}
      <4> DEFINE x == Max(s)
                 v == f[s \ {x}]
      <4>1. x \in 1..n /\ v \in V /\ f[s] = step[x][v]
        BY <3>1, <3>3
      <4> HIDE DEF x, v
      <4>2. P[x] = x /\ step[x][v] = IF StandsAt(text, sep, x) /\ FreeAt(v, sep, x)
                                     THEN Append(v, x) ELSE v
        BY <1>1, <1>5, <4>1
      <4>3. f[s] = IF /\ StandsAt(text, sep, P[x])
                      /\ v = <<>> \/ Last(v) + Len(sep) <= P[x]
                   THEN Append(v, P[x]) ELSE v
        BY <1>6, <4>1, <4>2
      <4>4. QED
        BY <3>3, <4>3 DEF x, v
    <3>4. QED
      BY <3>2, <3>3
  <2>3. Cutting(f)
    BY <1>1, <2>2
  <2>4. QED
    BY <2>3
<1>8. PICK f : Cutting(f) /\ Parts(text, sep) = CutAt(text, f[1..n], Len(sep))
  BY <1>1, <1>2, <1>7
<1>9. Follows(f, n, V, first, step)
  <2>1. ASSUME NEW s \in SUBSET (1..n), s # {}, f[s \ {Max(s)}] \in V
        PROVE  f[s] = step[Max(s)][f[s \ {Max(s)}]]
    <3>1. Max(s) \in 1..n
      BY <1>1, <2>1, LastPosition
    <3>2. s \in SUBSET (DOMAIN P)
      BY <1>1
    <3>3. f[s] = IF /\ StandsAt(text, sep, P[Max(s)])
                    /\ \/ f[s \ {Max(s)}] = <<>>
                       \/ Last(f[s \ {Max(s)}]) + Len(sep) <= P[Max(s)]
                 THEN Append(f[s \ {Max(s)}], P[Max(s)])
                 ELSE f[s \ {Max(s)}]
      BY <1>8, <2>1, <3>2
    <3>4. QED
      BY <1>1, <1>5, <1>6, <2>1, <3>1, <3>3
  <2>2. f[{}] = first
    BY <1>8
  <2>3. QED
    BY <2>1, <2>2 DEF Follows
<1> HIDE DEF first
<1>10. PICK p \in [0..n -> V] : p[n] = f[1..n]
  BY <1>1, <1>3, <1>4, <1>9, FoldWalks DEF Walks
<1>11. f[1..n] \in V
  BY <1>1, <1>10
<1>12. QED
  BY <1>8, <1>11 DEF V

(* A separator is no letters.                                              *)
LEMMA NoLetterStands ==
  ASSUME NEW text \in Texts, NEW sep \in Texts, NEW at, Stands(text, sep, at),
         Letters(sep) = {}
  PROVE  Letterless(text, at, at + Len(sep))
<1> SUFFICES ASSUME NEW n \in Letters(text), at <= n, n < at + Len(sep) PROVE FALSE
  <2>1. at \in Nat /\ Len(sep) \in Nat
    BY DEF Stands, Texts
  <2>2. QED
    BY <2>1, LettersAreCharacters DEF Letterless
<1> DEFINE i == n - at + 1
<1>1. n \in Nat /\ at \in Nat /\ Len(sep) \in Nat
  BY LettersAreCharacters DEF Stands, Texts
<1>2. i \in 1..Len(sep) /\ at + i - 1 = n
  BY <1>1
<1> HIDE DEF i
<1>3. i \in Letters(sep)
  BY <1>2, LettersStand
<1>4. QED
  BY <1>3

(* A part merged into what was packed leaves texts.                        *)
LEMMA PackTyped ==
  ASSUME NEW acc \in Accumulators, NEW part \in Texts, NEW deeper \in Seq(Texts),
         NEW sep \in Texts, NEW size
  PROVE  Pack(acc, part, deeper, sep, size) \in Accumulators
<1>1. acc.chunks \in Seq(Texts) /\ acc.current \in Texts /\ <<>> \in Texts
  BY DEF Accumulators, Texts
<1>2. Candidate(acc.current, sep, part) \in Texts
  BY <1>1 DEF Candidate, Texts
<1>3. Flush(acc.chunks, acc.current) \in Seq(Texts)
  BY <1>1 DEF Flush
<1>4. Flush(acc.chunks, acc.current) \o deeper \in Seq(Texts)
  BY <1>3
<1>5. QED
  BY <1>1, <1>2, <1>3, <1>4 DEF Pack, Accumulators

(* What has been merged of the first k parts.                              *)
Merges(p, parts, deeper, sep, size) ==
  /\ p \in [0..Len(parts) -> Accumulators]
  /\ p[0] = [chunks |-> <<>>, current |-> <<>>]
  /\ \A k \in 1..Len(parts) :
       p[k] = Pack(p[k - 1], parts[k], deeper[k], sep, size)
  /\ Packed(parts, deeper, sep, size)
       = Flush(p[Len(parts)].chunks, p[Len(parts)].current)

(* Packed has a history, part by part.                                     *)
LEMMA PackedWalks ==
  ASSUME NEW parts \in Seq(Texts), NEW deeper, NEW sep \in Texts, NEW size,
         \A k \in 1..Len(parts) : deeper[k] \in Seq(Texts)
  PROVE  \E p : Merges(p, parts, deeper, sep, size)
<1> DEFINE n == Len(parts)
           V == Accumulators
           first == [chunks |-> <<>>, current |-> <<>>]
           P == Positions(parts)
           Merging(f) == f = [s \in SUBSET (DOMAIN P) |->
                                IF s = {} THEN [chunks |-> <<>>, current |-> <<>>]
                                ELSE Pack(f[s \ {Max(s)}], parts[P[Max(s)]],
                                          deeper[P[Max(s)]], sep, size)]
           step == [k \in 1..n |-> [v \in V |-> Pack(v, parts[k], deeper[k], sep, size)]]
<1>1. n \in Nat /\ DOMAIN P = 1..n /\ \A k \in 1..n : P[k] = k /\ parts[k] \in Texts
  BY DEF Positions
<1>2. \A f0 : Merging(f0) =>
        \E f : Merging(f) /\ Packed(parts, deeper, sep, size)
                               = Flush(f[DOMAIN P].chunks, f[DOMAIN P].current)
  BY Zenon DEF Packed, FoldLeft, MapThenFoldSet
<1>3. step \in [1..n -> [V -> V]]
  <2>1. \A k \in 1..n, v \in V : Pack(v, parts[k], deeper[k], sep, size) \in V
    BY <1>1, PackTyped
  <2>2. QED
    BY <2>1
<1>4. first \in V
  BY DEF Accumulators, Texts
<1>5. \A k \in 1..n, v \in V :
        step[k][v] = Pack(v, parts[k], deeper[k], sep, size)
  OBVIOUS
<1> HIDE DEF n, step, V, P
<1>6. \E f0 : Merging(f0)
  <2> HIDE DEF first
  <2>1. PICK f \in [SUBSET (1..n) -> V] : FoldedBy(f, n, V, first, step)
    BY <1>1, <1>3, <1>4, FoldTyped
  <2>2. ASSUME NEW s \in SUBSET (1..n)
        PROVE  f[s] = IF s = {} THEN [chunks |-> <<>>, current |-> <<>>]
                      ELSE Pack(f[s \ {Max(s)}], parts[P[Max(s)]],
                                deeper[P[Max(s)]], sep, size)
    <3>1. /\ s = {} => f[s] = first
          /\ s # {} => /\ Max(s) \in 1..n /\ f[s \ {Max(s)}] \in V
                       /\ f[s] = step[Max(s)][f[s \ {Max(s)}]]
      BY <2>1 DEF FoldedBy
    <3>2. CASE s = {}
      BY <3>1, <3>2 DEF first
    <3>3. CASE s # {}
      BY <1>1, <1>5, <3>1, <3>3
    <3>4. QED
      BY <3>2, <3>3
  <2>3. Merging(f)
    BY <1>1, <2>2
  <2>4. QED
    BY <2>3
<1>7. PICK f : Merging(f) /\ Packed(parts, deeper, sep, size)
                               = Flush(f[1..n].chunks, f[1..n].current)
  BY <1>1, <1>2, <1>6
<1>8. Follows(f, n, V, first, step)
  <2>1. ASSUME NEW s \in SUBSET (1..n), s # {}, f[s \ {Max(s)}] \in V
        PROVE  f[s] = step[Max(s)][f[s \ {Max(s)}]]
    <3>1. Max(s) \in 1..n
      BY <1>1, <2>1, LastPosition
    <3>2. s \in SUBSET (DOMAIN P)
      BY <1>1
    <3>3. f[s] = Pack(f[s \ {Max(s)}], parts[P[Max(s)]], deeper[P[Max(s)]], sep, size)
      BY <1>7, <2>1, <3>2
    <3>4. QED
      BY <1>1, <1>5, <2>1, <3>1, <3>3
  <2>2. f[{}] = first
    BY <1>7
  <2>3. QED
    BY <2>1, <2>2 DEF Follows
<1> HIDE DEF first
<1>0. PICK p : Walks(p, n, V, first, step) /\ p[n] = f[1..n]
  BY <1>1, <1>3, <1>4, <1>8, FoldWalks
<1>9. /\ p \in [0..n -> V] /\ p[0] = first /\ p[n] = f[1..n]
      /\ \A k \in 1..n : p[k] = step[k][p[k - 1]]
  BY <1>0 DEF Walks
<1>10. \A k \in 1..n : p[k] = Pack(p[k - 1], parts[k], deeper[k], sep, size)
  <2>1. \A k \in 1..n : p[k - 1] \in V
    BY <1>1, <1>9
  <2>2. QED
    BY <1>5, <1>9, <2>1
<1>11. Merges(p, parts, deeper, sep, size)
  BY <1>7, <1>9, <1>10 DEF Merges, n, V, first
<1>12. QED
  BY <1>11

(* Merged parts fill the text, if what each is split into fills the part.  *)
LEMMA PackedFills ==
  ASSUME NEW text \in Texts, NEW size \in Nat, NEW sep \in Texts, Letters(sep) = {},
         NEW deeper,
         \A k \in 1..Len(Parts(text, sep)) :
           LET part == Parts(text, sep)[k]
           IN Fills(part, 1, Len(part) + 1, size, deeper[k])
  PROVE  Fills(text, 1, Len(text) + 1, size, Packed(Parts(text, sep), deeper, sep, size))
<1> DEFINE parts == Parts(text, sep)
           n == Len(parts)
           width == Len(sep)
<1>1. PICK at \in Cuttings(text, sep) : parts = CutAt(text, at, width)
  BY PartsAreCut
<1>2. width \in Nat /\ Apart(text, at, width) /\ Len(text) \in Nat
  BY DEF Cuttings, Texts
<1>3. PICK from : Consecutive(text, parts, from, at, width)
  BY <1>1, <1>2, CutPlaces
<1>4. \A k \in 1..Len(at) : Stands(text, sep, at[k])
  BY DEF Cuttings
<1>5. \A k \in 1..n : Fills(parts[k], 1, Len(parts[k]) + 1, size, deeper[k])
  OBVIOUS
<1>6. /\ parts \in Seq(Texts) /\ n = Len(at) + 1 /\ n \in Nat /\ Len(at) \in Nat
      /\ from \in [1..n -> Nat] /\ from[1] = 1
      /\ \A k \in 1..n : Stands(text, parts[k], from[k]) /\ parts[k] \in Texts
      /\ from[n] + Len(parts[n]) = Len(text) + 1
  BY <1>3 DEF Consecutive, Cuttings
<1>7. \A k \in 1..n : deeper[k] \in Seq(Texts)
  BY <1>5 DEF Fills, Placed
<1> HIDE DEF parts
<1>m. PICK p : Merges(p, parts, deeper, sep, size)
  <2>1. \A k \in 1..Len(parts) : deeper[k] \in Seq(Texts)
    BY <1>7
  <2>2. parts \in Seq(Texts)
    BY <1>6
  <2>3. QED
    BY <2>1, <2>2, PackedWalks
<1>8. /\ p \in [0..n -> Accumulators]
      /\ p[0] = [chunks |-> <<>>, current |-> <<>>]
      /\ \A k \in 1..n : p[k] = Pack(p[k - 1], parts[k], deeper[k], sep, size)
      /\ Packed(parts, deeper, sep, size) = Flush(p[n].chunks, p[n].current)
  BY <1>m DEF Merges
<1> DEFINE end == [k \in 0..n |-> IF k = 0 THEN 1 ELSE from[k] + Len(parts[k])]
           G == [k \in 0..n |-> {v \in Accumulators : Packing(text, size, v, end[k])}]
<1>9. end[0] = 1 /\ \A k \in 1..n : end[k] = from[k] + Len(parts[k])
  <2>1. 0 \in 0..n /\ \A k \in 1..n : k \in 0..n /\ k # 0
    BY <1>6
  <2>2. QED
    BY <2>1
<1>10. \A k \in 0..n : \A v : v \in G[k] <=> v \in Accumulators /\ Packing(text, size, v, end[k])
  OBVIOUS
<1> HIDE DEF end, G, n
<1>11. p[0] \in G[0]
  <2>0. 0 \in 0..n
    BY <1>6
  <2>1. /\ p[0].chunks = <<>> /\ p[0].current = <<>> /\ p[0] \in Accumulators
        /\ 0 \in 0..n /\ <<>> \in Texts /\ Len(<<>>) = 0
    <3>1. p[0] = [chunks |-> <<>>, current |-> <<>>] /\ p[0] \in Accumulators
      BY <1>8, <2>0
    <3>2. QED
      BY <2>0, <3>1 DEF Texts
  <2>2. Letterless(text, 1, 1) /\ 1 \in Nat
    BY LettersAreCharacters DEF Letterless
  <2>3. Fills(text, 1, 1, size, <<>>)
    BY <2>2, FillsNothing
  <2>4. Stands(text, <<>>, 1)
    BY <1>2, <2>1 DEF Stands
  <2>5. Packing(text, size, p[0], 1)
    BY <2>1, <2>3, <2>4 DEF Packing
  <2>6. QED
    BY <1>9, <1>10, <2>1, <2>5
<1>12. ASSUME NEW k \in 1..n, p[k - 1] \in G[k - 1] PROVE p[k] \in G[k]
  <2> DEFINE e == end[k - 1]
             f == from[k]
             acc == p[k - 1]
  <2>1. k - 1 \in 0..n /\ k \in 0..n
    BY <1>6
  <2>2. acc \in Accumulators /\ Packing(text, size, acc, e)
    BY <1>10, <1>12, <2>1
  <2>3. CASE k = 1
    <3>1. e = 1 /\ f = 1 /\ acc.current = <<>>
      BY <1>6, <1>8, <1>9, <2>3
    <3>2. Letterless(text, e, f)
      BY <3>1, LettersAreCharacters DEF Letterless
    <3> HIDE DEF e, f, acc
    <3>3. e <= f /\ f \in Nat
      BY <3>1
    <3>4. Packing(text, size, Pack(acc, parts[k], deeper[k], sep, size), f + Len(parts[k]))
      BY <1>5, <1>6, <2>2, <3>1, <3>2, <3>3, PackFills DEF f
    <3>5. QED
      BY <1>8, <1>9, <1>10, <2>1, <3>4 DEF f, acc
  <2>4. CASE k # 1
    <3> DEFINE j == k - 1
    <3>1. j \in 1..Len(at) /\ j \in 1..n /\ j + 1 = k
      BY <1>6, <2>4
    <3> HIDE DEF j
    <3>2. e = at[j] /\ f = at[j] + width
      <4>1. from[j] + Len(parts[j]) = at[j] /\ from[j + 1] = at[j] + width
        BY <1>3, <3>1 DEF Consecutive
      <4>2. e = end[j]
        BY DEF j
      <4>3. QED
        BY <1>9, <3>1, <4>1, <4>2
    <3>3. Stands(text, sep, e) /\ f = e + Len(sep)
      BY <1>4, <3>1, <3>2
    <3>4. Letterless(text, e, f)
      BY <3>3, NoLetterStands
    <3> HIDE DEF e, f, acc
    <3>5. e <= f /\ f \in Nat
      BY <1>2, <3>3 DEF Stands
    <3>6. Packing(text, size, Pack(acc, parts[k], deeper[k], sep, size), f + Len(parts[k]))
      BY <1>5, <1>6, <2>2, <3>3, <3>4, <3>5, PackFills DEF f
    <3>7. QED
      BY <1>8, <1>9, <1>10, <2>1, <3>6 DEF f, acc
  <2>5. QED
    BY <2>3, <2>4
<1>13. p[n] \in G[n]
  BY <1>6, <1>11, <1>12, Walk
<1>14. Packing(text, size, p[n], Len(text) + 1)
  <2>1. n \in 1..n /\ n \in 0..n
    BY <1>6
  <2>2. end[n] = Len(text) + 1
    BY <1>6, <1>9, <2>1
  <2>3. QED
    BY <1>10, <1>13, <2>1, <2>2
<1>15. QED
  BY <1>8, <1>14, FlushFills DEF parts

(* What is picked are the elements at those positions.                     *)
PickedFrom(v, V, seq, at, k) ==
  /\ v \in Seq(V)
  /\ \A i \in 1..Len(v) : \E j \in 1..Len(seq) : j \in at /\ v[i] = seq[j]
  /\ \A j \in 1..Len(seq) : (j \in at /\ j <= k) =>
       \E i \in 1..Len(v) : v[i] = seq[j]

(* What Picked returns: the elements at the positions, no others.          *)
LEMMA PickedIs ==
  ASSUME NEW V, NEW seq \in Seq(V), NEW at
  PROVE  /\ Picked(seq, at) \in Seq(V)
         /\ \A k \in 1..Len(Picked(seq, at)) :
              \E n \in 1..Len(seq) : n \in at /\ Picked(seq, at)[k] = seq[n]
         /\ \A n \in 1..Len(seq) : n \in at =>
              \E k \in 1..Len(Picked(seq, at)) : Picked(seq, at)[k] = seq[n]
<1> DEFINE n == Len(seq)
           G == [k \in 0..n |-> {v \in Seq(V) : PickedFrom(v, V, seq, at, k)}]
<1>1. n \in Nat
  OBVIOUS
<1>p. PICK p : Picks(p, V, seq, at)
  BY PickedWalks
<1>2. /\ p \in [0..n -> Seq(V)] /\ p[0] = <<>> /\ p[n] = Picked(seq, at)
      /\ \A k \in 1..n :
           p[k] = IF k \in at THEN Append(p[k - 1], seq[k]) ELSE p[k - 1]
  BY <1>p DEF Picks
<1>3. \A k \in 0..n : \A v : v \in G[k] <=> PickedFrom(v, V, seq, at, k)
  BY DEF PickedFrom
<1>4. \A k \in 1..n : seq[k] \in V
  OBVIOUS
<1> HIDE DEF n, G
<1>5. p[0] \in G[0]
  <2>1. <<>> \in Seq(V) /\ 1..Len(<<>>) = {} /\ 0 \in 0..n
    BY <1>1
  <2>2. \A j \in 1..n : ~(j <= 0)
    BY <1>1
  <2>3. <<>> \in G[0]
    BY <1>3, <2>1, <2>2 DEF PickedFrom, n
  <2>4. QED
    BY <1>2, <2>3
<1>6. ASSUME NEW k \in 1..n, p[k - 1] \in G[k - 1] PROVE p[k] \in G[k]
  <2> DEFINE v == p[k - 1]
             w == p[k]
             m == Len(v)
  <2>1. k - 1 \in 0..n /\ k \in 0..n /\ k \in Nat
    BY <1>1
  <2>2. /\ v \in Seq(V) /\ m \in Nat
        /\ \A i \in 1..m : \E j \in 1..n : j \in at /\ v[i] = seq[j]
        /\ \A j \in 1..n : (j \in at /\ j <= k - 1) => \E i \in 1..m : v[i] = seq[j]
    <3>1. PickedFrom(v, V, seq, at, k - 1)
      BY <1>3, <1>6, <2>1
    <3> HIDE DEF v
    <3>2. QED
      BY <3>1 DEF PickedFrom, n
  <2>3. CASE k \notin at
    <3>1. w = v
      BY <1>2, <2>3
    <3>2. \A j \in 1..n : (j \in at /\ j <= k) => j <= k - 1
      BY <2>1, <2>3
    <3> HIDE DEF v, w
    <3>3. PickedFrom(v, V, seq, at, k)
      BY <2>2, <3>2 DEF PickedFrom, n
    <3>4. QED
      BY <1>3, <2>1, <3>1, <3>3 DEF w
  <2>4. CASE k \in at
    <3>1. w = Append(v, seq[k])
      BY <1>2, <2>4
    <3> HIDE DEF v, w
    <3>2. /\ w \in Seq(V) /\ Len(w) = m + 1 /\ w[m + 1] = seq[k]
          /\ \A i \in 1..m : w[i] = v[i]
      BY <1>4, <2>2, <3>1
    <3> HIDE DEF m
    <3>3. ASSUME NEW i \in 1..m + 1 PROVE \E j \in 1..n : j \in at /\ w[i] = seq[j]
      <4>1. CASE i = m + 1
        BY <2>4, <3>2, <4>1
      <4>2. CASE i # m + 1
        <5>1. i \in 1..m
          BY <2>2, <4>2
        <5>2. w[i] = v[i]
          BY <3>2, <5>1
        <5>3. PICK j \in 1..n : j \in at /\ v[i] = seq[j]
          BY <2>2, <5>1
        <5>4. QED
          BY <5>2, <5>3
      <4>3. QED
        BY <4>1, <4>2
    <3>4. ASSUME NEW j \in 1..n, j \in at, j <= k
          PROVE  \E i \in 1..m + 1 : w[i] = seq[j]
      <4>1. CASE j = k
        <5>1. m + 1 \in 1..m + 1
          BY <2>2
        <5>2. QED
          BY <3>2, <4>1, <5>1
      <4>2. CASE j # k
        <5>1. j <= k - 1
          BY <2>1, <3>4, <4>2
        <5>2. PICK i \in 1..m : v[i] = seq[j]
          BY <2>2, <3>4, <5>1
        <5>3. i \in 1..m + 1
          BY <2>2
        <5>4. QED
          BY <3>2, <5>2, <5>3
      <4>3. QED
        BY <4>1, <4>2
    <3>5. PickedFrom(w, V, seq, at, k)
      BY <3>2, <3>3, <3>4 DEF PickedFrom, n
    <3>6. QED
      BY <1>3, <2>1, <3>5 DEF w
  <2>5. QED
    BY <2>3, <2>4
<1>7. p[n] \in G[n]
  BY <1>1, <1>5, <1>6, Walk
<1>8. n \in 0..n /\ \A j \in 1..n : j <= n
  BY <1>1
<1>9. PickedFrom(Picked(seq, at), V, seq, at, n)
  BY <1>2, <1>3, <1>7, <1>8
<1>10. QED
  BY <1>8, <1>9 DEF PickedFrom, n

LEMMA LeastIs ==
  ASSUME NEW m \in Int, NEW n \in Int
  PROVE  /\ Least(m, n) \in {m, n} /\ Least(m, n) <= m /\ Least(m, n) <= n
         /\ Larger(m, n) \in {m, n} /\ m <= Larger(m, n) /\ n <= Larger(m, n)
BY DEF Least, Larger

(* Windows of size characters, side by side.                               *)
LEMMA HardCutFills ==
  ASSUME NEW text \in Texts, NEW size \in Nat, 1 <= size
  PROVE  Fills(text, 1, Len(text) + 1, size, HardCut(text, size))
<1> DEFINE n == Len(text)
           cut == [k \in DOMAIN text |-> Slice(text, k - 1, Least(k - 1 + size, n))]
           at == {k \in DOMAIN text : k - 1 \in Steps(n, size)}
           G == [k \in 0..n |->
                   {v \in Seq(Texts) :
                      \E m \in Nat : /\ m % size = 0 /\ k <= m /\ m < k + size
                                     /\ Fills(text, 1, Least(m, n) + 1, size, v)}]
<1>1. n \in Nat /\ DOMAIN text = 1..n
  BY DEF Texts
<1>2. ASSUME NEW k \in 1..n
      PROVE  /\ cut[k] \in Texts /\ Stands(text, cut[k], k) /\ Len(cut[k]) <= size
             /\ k + Len(cut[k]) = Least((k - 1) + size, n) + 1
  <2> DEFINE b == Least((k - 1) + size, n)
  <2>1. b \in Nat /\ k <= b + 1 /\ b <= n /\ b <= (k - 1) + size
    BY <1>1, LeastIs
  <2>2. cut[k] = SubSeq(text, k, b)
    <3>1. (k - 1) + 1 = k
      OBVIOUS
    <3>2. QED
      BY <1>1, <3>1 DEF Slice
  <2> HIDE DEF b, cut
  <2>3. /\ cut[k] \in Texts /\ Len(cut[k]) = b + 1 - k /\ Stands(text, cut[k], k)
    BY <2>1, <2>2, CutStands
  <2>4. Len(cut[k]) <= size /\ k + Len(cut[k]) = b + 1
    BY <2>1, <2>3
  <2>5. QED
    BY <2>3, <2>4 DEF b
<1>3. cut \in Seq(Texts) /\ Len(cut) = n
  <2>1. cut = [k \in 1..n |-> cut[k]]
    BY <1>1
  <2> HIDE DEF cut
  <2>2. cut \in [1..n -> Texts]
    BY <1>2, <2>1
  <2>3. QED
    BY <1>1, <2>2
<1>4. \A k \in 1..n : k \in at <=> (k - 1) % size = 0
  BY <1>1 DEF Steps
<1>5. HardCut(text, size) = Picked(cut, at)
  BY DEF HardCut
<1>6. \A k \in 0..n : \A v : v \in G[k] <=>
        /\ v \in Seq(Texts)
        /\ \E m \in Nat : /\ m % size = 0 /\ k <= m /\ m < k + size
                          /\ Fills(text, 1, Least(m, n) + 1, size, v)
  OBVIOUS
<1> HIDE DEF n, cut, at, G
<1>p. PICK p : Picks(p, Texts, cut, at)
  BY <1>3, PickedWalks
<1>7. /\ p \in [0..n -> Seq(Texts)] /\ p[0] = <<>> /\ p[n] = Picked(cut, at)
      /\ \A k \in 1..n :
           p[k] = IF k \in at THEN Append(p[k - 1], cut[k]) ELSE p[k - 1]
  BY <1>3, <1>p DEF Picks
<1>8. p[0] \in G[0]
  <2>1. Letterless(text, 1, 1) /\ 1 \in Nat
    BY LettersAreCharacters DEF Letterless
  <2>2. Fills(text, 1, 1, size, <<>>)
    BY <2>1, FillsNothing
  <2>3. Least(0, n) + 1 = 1
    BY <1>1 DEF Least
  <2>4. 0 % size = 0 /\ 0 \in Nat /\ 0 <= 0 /\ 0 < 0 + size /\ <<>> \in Seq(Texts)
        /\ 0 \in 0..n
    BY <1>1
  <2>5. QED
    BY <1>6, <1>7, <2>2, <2>3, <2>4
<1>9. ASSUME NEW k \in 1..n, p[k - 1] \in G[k - 1] PROVE p[k] \in G[k]
  <2> DEFINE i == k - 1
             v == p[i]
  <2>1. i \in 0..n /\ k \in 0..n /\ i \in Nat /\ i + 1 = k /\ i < n
    BY <1>1
  <2>2. v \in Seq(Texts)
    BY <1>7, <2>1
  <2>3. PICK m \in Nat : /\ m % size = 0 /\ i <= m /\ m < i + size
                         /\ Fills(text, 1, Least(m, n) + 1, size, v)
    BY <1>6, <1>9, <2>1
  <2>4. CASE k \notin at
    <3>1. p[k] = v
      BY <1>7, <2>4
    <3>2. m # i
      BY <1>4, <2>3, <2>4
    <3>3. k <= m /\ m < k + size
      BY <2>1, <2>3, <3>2
    <3> HIDE DEF v, i
    <3>4. QED
      BY <1>6, <2>1, <2>2, <2>3, <3>1, <3>3
  <2>5. CASE k \in at
    <3>1. p[k] = Append(v, cut[k])
      BY <1>7, <2>5
    <3>2. i % size = 0
      BY <1>4, <2>5
    <3> HIDE DEF v, i
    <3>3. (i + size) % size = 0 /\ m = i
      <4>1. (i + size) % size = 0 /\ (i < m => i + size <= m)
        BY <2>1, <2>3, <3>2, StepsApart
      <4>2. QED
        BY <2>1, <2>3, <4>1
    <3>4. Least(m, n) + 1 = k
      BY <1>1, <2>1, <3>3 DEF Least
    <3>5. Fills(text, k, k + Len(cut[k]), size, <<cut[k]>>)
      BY <1>2, FillsOne
    <3>6. Letterless(text, k, k) /\ k \in Nat /\ 1 \in Nat /\ 1 <= k /\ k <= k
      BY <1>1, LettersAreCharacters DEF Letterless
    <3>7. k + Len(cut[k]) \in Nat /\ k <= k + Len(cut[k])
      <4>1. Len(cut[k]) \in Nat
        BY <1>2 DEF Texts
      <4>2. QED
        BY <3>6, <4>1
    <3>8. Fills(text, 1, k + Len(cut[k]), size, v \o <<cut[k]>>)
      BY <2>3, <3>4, <3>5, <3>6, <3>7, FillsBoth
    <3>9. v \o <<cut[k]>> = Append(v, cut[k]) /\ Append(v, cut[k]) \in Seq(Texts)
      <4>1. cut[k] \in Texts
        BY <1>2
      <4>2. QED
        BY <2>2, <4>1
    <3>10. i + size \in Nat /\ k <= i + size /\ i + size < k + size
      BY <2>1
    <3>11. k + Len(cut[k]) = Least(i + size, n) + 1
      BY <1>2 DEF i
    <3>12. Fills(text, 1, Least(i + size, n) + 1, size, p[k])
      BY <3>1, <3>8, <3>9, <3>11
    <3>13. QED
      BY <1>6, <2>1, <3>1, <3>3, <3>9, <3>10, <3>12
  <2>6. QED
    BY <2>4, <2>5
<1>10. p[n] \in G[n]
  BY <1>1, <1>8, <1>9, Walk
<1>11. PICK m \in Nat : n <= m /\ Fills(text, 1, Least(m, n) + 1, size, p[n])
  <2>1. n \in 0..n
    BY <1>1
  <2>2. QED
    BY <1>6, <1>10, <2>1
<1>12. Least(m, n) = n
  BY <1>1, <1>11 DEF Least
<1>13. QED
  BY <1>5, <1>7, <1>11, <1>12 DEF n

(***************************************************************************)
(* The levels of splitting.                                                *)
(***************************************************************************)
LEMMA PartsAreTexts ==
  ASSUME NEW text \in Texts, NEW sep \in Texts
  PROVE  Parts(text, sep) \in Seq(Texts)
<1>1. PICK at \in Cuttings(text, sep) : Parts(text, sep) = CutAt(text, at, Len(sep))
  BY PartsAreCut
<1>2. Len(sep) \in Nat /\ Apart(text, at, Len(sep))
  BY DEF Cuttings, Texts
<1>3. QED
  BY <1>1, <1>2, CutPlaces DEF Consecutive

(* No separator of split_text holds a letter.                              *)
LEMMA SeparatorsAreNoLetters ==
  /\ <<Space>> \in Texts /\ <<Stop, Space>> \in Texts /\ <<Newline>> \in Texts
  /\ <<Newline, Newline>> \in Texts
  /\ Letters(<<Space>>) = {} /\ Letters(<<Stop, Space>>) = {}
  /\ Letters(<<Newline>>) = {} /\ Letters(<<Newline, Newline>>) = {}
<1>1. Space \in Chars /\ Stop \in Chars /\ Newline \in Chars
  BY DEF Chars
<1>2. /\ <<Space>> \in Texts /\ <<Stop, Space>> \in Texts /\ <<Newline>> \in Texts
      /\ <<Newline, Newline>> \in Texts
  BY <1>1 DEF Texts
<1>3. White(Space) /\ White(Newline)
  BY DEF White
<1>4. /\ Letters(<<Space>>) = {} /\ Letters(<<Stop, Space>>) = {}
      /\ Letters(<<Newline>>) = {} /\ Letters(<<Newline, Newline>>) = {}
  BY <1>3 DEF Letters
<1>5. QED
  BY <1>2, <1>4

(* A text that fits is one piece, or none if it is blank.                  *)
LEMMA WholeFills ==
  ASSUME NEW text \in Texts, NEW size, Len(text) <= size
  PROVE  Fills(text, 1, Len(text) + 1, size, IF Blank(text) THEN <<>> ELSE <<text>>)
<1>1. Len(text) \in Nat /\ Len(text) + 1 \in Nat /\ 1 \in Nat
  BY DEF Texts
<1>2. CASE Blank(text)
  <2>1. Letterless(text, 1, Len(text) + 1)
    BY <1>2 DEF Blank, Letters, Letterless
  <2>2. QED
    BY <1>1, <1>2, <2>1, FillsNothing
<1>3. CASE ~Blank(text)
  <2>1. Stands(text, text, 1)
    BY <1>1 DEF Stands
  <2>2. Fills(text, 1, 1 + Len(text), size, <<text>>)
    BY <2>1, FillsOne
  <2>3. 1 + Len(text) = Len(text) + 1
    BY <1>1
  <2>4. QED
    BY <1>3, <2>2, <2>3
<1>4. QED
  BY <1>2, <1>3

(* What is split at spaces, else cut, loses no letter.                     *)
LEMMA WordsFill ==
  ASSUME NEW text \in Texts, NEW size \in Nat, 1 <= size
  PROVE  Fills(text, 1, Len(text) + 1, size, Words(text, size))
<1> DEFINE sep == <<Space>>
           parts == Parts(text, sep)
           deeper == [n \in DOMAIN parts |-> HardCut(parts[n], size)]
<1>1. sep \in Texts /\ Letters(sep) = {} /\ parts \in Seq(Texts)
  BY SeparatorsAreNoLetters, PartsAreTexts
<1>2. \A k \in 1..Len(parts) : parts[k] \in Texts /\ deeper[k] = HardCut(parts[k], size)
  BY <1>1
<1>3. Words(text, size) = IF Len(text) > size THEN Packed(parts, deeper, sep, size)
                     ELSE IF Blank(text) THEN <<>> ELSE <<text>>
  BY DEF Words, SplitAt
<1> HIDE DEF deeper, sep
<1>4. CASE Len(text) > size
  <2>1. \A k \in 1..Len(parts) :
          Fills(parts[k], 1, Len(parts[k]) + 1, size, deeper[k])
    BY <1>2, HardCutFills
  <2>2. Fills(text, 1, Len(text) + 1, size, Packed(parts, deeper, sep, size))
    BY <1>1, <2>1, PackedFills
  <2>3. QED
    BY <1>3, <1>4, <2>2
<1>5. CASE ~(Len(text) > size)
  <2>1. Len(text) <= size
    BY <1>5 DEF Texts
  <2>2. QED
    BY <1>3, <1>5, <2>1, WholeFills
<1>6. QED
  BY <1>4, <1>5

(* Nor what is split at sentence ends, else at spaces.                     *)
LEMMA SentencesFill ==
  ASSUME NEW text \in Texts, NEW size \in Nat, 1 <= size
  PROVE  Fills(text, 1, Len(text) + 1, size, Sentences(text, size))
<1> DEFINE sep == <<Stop, Space>>
           parts == Parts(text, sep)
           deeper == [n \in DOMAIN parts |-> Words(parts[n], size)]
<1>1. sep \in Texts /\ Letters(sep) = {} /\ parts \in Seq(Texts)
  BY SeparatorsAreNoLetters, PartsAreTexts
<1>2. \A k \in 1..Len(parts) : parts[k] \in Texts /\ deeper[k] = Words(parts[k], size)
  BY <1>1
<1>3. Sentences(text, size) = IF Len(text) > size THEN Packed(parts, deeper, sep, size)
                     ELSE IF Blank(text) THEN <<>> ELSE <<text>>
  BY DEF Sentences, SplitAt
<1> HIDE DEF deeper, sep
<1>4. CASE Len(text) > size
  <2>1. \A k \in 1..Len(parts) :
          Fills(parts[k], 1, Len(parts[k]) + 1, size, deeper[k])
    BY <1>2, WordsFill
  <2>2. Fills(text, 1, Len(text) + 1, size, Packed(parts, deeper, sep, size))
    BY <1>1, <2>1, PackedFills
  <2>3. QED
    BY <1>3, <1>4, <2>2
<1>5. CASE ~(Len(text) > size)
  <2>1. Len(text) <= size
    BY <1>5 DEF Texts
  <2>2. QED
    BY <1>3, <1>5, <2>1, WholeFills
<1>6. QED
  BY <1>4, <1>5

(* Nor what is split at line ends, else at sentence ends.                  *)
LEMMA LinesFill ==
  ASSUME NEW text \in Texts, NEW size \in Nat, 1 <= size
  PROVE  Fills(text, 1, Len(text) + 1, size, Lines(text, size))
<1> DEFINE sep == <<Newline>>
           parts == Parts(text, sep)
           deeper == [n \in DOMAIN parts |-> Sentences(parts[n], size)]
<1>1. sep \in Texts /\ Letters(sep) = {} /\ parts \in Seq(Texts)
  BY SeparatorsAreNoLetters, PartsAreTexts
<1>2. \A k \in 1..Len(parts) : parts[k] \in Texts /\ deeper[k] = Sentences(parts[k], size)
  BY <1>1
<1>3. Lines(text, size) = IF Len(text) > size THEN Packed(parts, deeper, sep, size)
                     ELSE IF Blank(text) THEN <<>> ELSE <<text>>
  BY DEF Lines, SplitAt
<1> HIDE DEF deeper, sep
<1>4. CASE Len(text) > size
  <2>1. \A k \in 1..Len(parts) :
          Fills(parts[k], 1, Len(parts[k]) + 1, size, deeper[k])
    BY <1>2, SentencesFill
  <2>2. Fills(text, 1, Len(text) + 1, size, Packed(parts, deeper, sep, size))
    BY <1>1, <2>1, PackedFills
  <2>3. QED
    BY <1>3, <1>4, <2>2
<1>5. CASE ~(Len(text) > size)
  <2>1. Len(text) <= size
    BY <1>5 DEF Texts
  <2>2. QED
    BY <1>3, <1>5, <2>1, WholeFills
<1>6. QED
  BY <1>4, <1>5

(* However a text is split, its pieces fill it.                             *)
LEMMA SplitFills ==
  ASSUME NEW text \in Texts, NEW size \in Nat, 1 <= size
  PROVE  Fills(text, 1, Len(text) + 1, size, split_text(text, size))
<1> DEFINE sep == <<Newline, Newline>>
           parts == Parts(text, sep)
           deeper == [n \in DOMAIN parts |-> Lines(parts[n], size)]
<1>1. sep \in Texts /\ Letters(sep) = {} /\ parts \in Seq(Texts)
  BY SeparatorsAreNoLetters, PartsAreTexts
<1>2. \A k \in 1..Len(parts) : parts[k] \in Texts /\ deeper[k] = Lines(parts[k], size)
  BY <1>1
<1>3. split_text(text, size) = IF Len(text) > size THEN Packed(parts, deeper, sep, size)
                     ELSE IF Blank(text) THEN <<>> ELSE <<text>>
  BY DEF split_text, SplitAt
<1> HIDE DEF deeper, sep
<1>4. CASE Len(text) > size
  <2>1. \A k \in 1..Len(parts) :
          Fills(parts[k], 1, Len(parts[k]) + 1, size, deeper[k])
    BY <1>2, LinesFill
  <2>2. Fills(text, 1, Len(text) + 1, size, Packed(parts, deeper, sep, size))
    BY <1>1, <2>1, PackedFills
  <2>3. QED
    BY <1>3, <1>4, <2>2
<1>5. CASE ~(Len(text) > size)
  <2>1. Len(text) <= size
    BY <1>5 DEF Texts
  <2>2. QED
    BY <1>3, <1>5, <2>1, WholeFills
<1>6. QED
  BY <1>4, <1>5

(***************************************************************************)
(* Sections.                                                               *)
(***************************************************************************)
(* The positions picked of a text are apart.                               *)
LEMMA PositionsApart ==
  ASSUME NEW text \in Texts, NEW at
  PROVE  Apart(text, Picked(Positions(text), at), 0)
<1> DEFINE n == Len(text)
           P == Positions(text)
           Rising(v, k) == /\ v \in Seq(1..n)
                           /\ \A i \in 1..Len(v) : v[i] <= k
                           /\ \A i \in 1..Len(v) - 1 : v[i] <= v[i + 1]
           G == [k \in 0..n |-> {v \in Seq(1..n) : Rising(v, k)}]
<1>1. /\ n \in Nat /\ P \in Seq(1..n) /\ Len(P) = n
      /\ \A k \in 1..n : P[k] = k
  <2>1. n \in Nat /\ DOMAIN text = 1..n
    BY DEF Texts
  <2>2. P = [k \in 1..n |-> k]
    BY <2>1 DEF Positions
  <2> HIDE DEF P
  <2>3. P \in [1..n -> 1..n]
    BY <2>2
  <2>4. QED
    BY <2>1, <2>2, <2>3
<1>2. PICK p : Picks(p, 1..n, P, at)
  <2> DEFINE V == 1..n
  <2>1. P \in Seq(V)
    BY <1>1
  <2> HIDE DEF V, P
  <2>2. QED
    BY <2>1, PickedWalks DEF V
<1> HIDE DEF P
<1>3. /\ p \in [0..n -> Seq(1..n)] /\ p[0] = <<>> /\ p[n] = Picked(P, at)
      /\ \A k \in 1..n : p[k] = IF k \in at THEN Append(p[k - 1], P[k]) ELSE p[k - 1]
  BY <1>1, <1>2 DEF Picks
<1>4. \A k \in 0..n : \A v : v \in G[k] <=> Rising(v, k)
  OBVIOUS
<1> HIDE DEF n, G
<1>5. p[0] \in G[0]
  <2>1. Rising(<<>>, 0) /\ 0 \in 0..n
    BY <1>1
  <2> HIDE DEF Rising
  <2>2. QED
    BY <1>3, <1>4, <2>1
<1>6. ASSUME NEW k \in 1..n, p[k - 1] \in G[k - 1] PROVE p[k] \in G[k]
  <2> DEFINE i == k - 1
             v == p[i]
  <2>1. i \in 0..n /\ k \in 0..n /\ i < k /\ k \in Nat /\ i \in Nat
    BY <1>1
  <2>2. Rising(v, i)
    <3> HIDE DEF Rising
    <3>1. QED
      BY <1>4, <1>6, <2>1
  <2>3. p[k] = IF k \in at THEN Append(v, k) ELSE v
    BY <1>1, <1>3
  <2> HIDE DEF v, i
  <2>4. Rising(v, k)
    BY <1>1, <2>1, <2>2
  <2>5. Rising(Append(v, k), k)
    <3> DEFINE w == Append(v, k)
               m == Len(v)
    <3>1. /\ v \in Seq(1..n) /\ m \in Nat
          /\ \A j \in 1..m : v[j] <= i /\ v[j] \in Nat
          /\ \A j \in 1..m - 1 : v[j] <= v[j + 1]
      <4>1. v \in Seq(1..n) /\ Rising(v, i)
        BY <2>2
      <4> DEFINE V == 1..n
      <4>2. \A j \in 1..m : v[j] \in V
        <5>1. v \in Seq(V)
          BY <4>1
        <5> HIDE DEF V
        <5>2. QED
          BY <5>1
      <4>3. QED
        BY <4>1, <4>2
    <3>2. /\ w \in Seq(1..n) /\ Len(w) = m + 1 /\ w[m + 1] = k
          /\ \A j \in 1..m : w[j] = v[j]
      BY <3>1
    <3> HIDE DEF w, m
    <3>3. ASSUME NEW j \in 1..m + 1 PROVE w[j] <= k
      <4>1. j = m + 1 \/ j \in 1..m
        BY <3>1
      <4>2. QED
        BY <2>1, <3>1, <3>2, <4>1
    <3>4. ASSUME NEW j \in 1..m PROVE w[j] <= w[j + 1]
      <4>1. CASE j = m
        BY <2>1, <3>1, <3>2, <4>1
      <4>2. CASE j # m
        <5>1. j \in 1..m - 1 /\ j + 1 \in 1..m
          BY <3>1, <4>2
        <5>2. QED
          BY <3>1, <3>2, <5>1
      <4>3. QED
        BY <4>1, <4>2
    <3>5. (m + 1) - 1 = m
      BY <3>1
    <3>6. Rising(w, k)
      BY <3>2, <3>3, <3>4, <3>5
    <3>7. QED
      BY <3>6 DEF w
  <2> HIDE DEF Rising
  <2>6. QED
    BY <1>4, <2>1, <2>3, <2>4, <2>5
<1>7. p[n] \in G[n]
  <2> HIDE DEF Rising
  <2>1. QED
    BY <1>1, <1>5, <1>6, Walk
<1>8. Rising(Picked(P, at), n)
  <2> HIDE DEF Rising
  <2>1. n \in 0..n
    BY <1>1
  <2>2. QED
    BY <1>3, <1>4, <1>7, <2>1
<1>9. QED
  <2> DEFINE v == Picked(P, at)
  <2>1. /\ v \in Seq(1..n) /\ \A j \in 1..Len(v) - 1 : v[j] <= v[j + 1]
    BY <1>8
  <2> HIDE DEF v
  <2>2. \A j \in 1..Len(v) : v[j] \in 1..n
    <3> DEFINE V == 1..n
    <3>1. v \in Seq(V)
      BY <2>1
    <3> HIDE DEF V
    <3>2. \A j \in 1..Len(v) : v[j] \in V
      BY <3>1
    <3>3. QED
      BY <3>2 DEF V
  <2>3. \A j \in 1..Len(v) : v[j] + 0 <= n + 1 /\ v[j] \in Nat
    BY <1>1, <2>2
  <2>4. \A j \in 1..Len(v) - 1 : v[j] + 0 <= v[j + 1]
    <3>1. \A j \in 1..Len(v) - 1 : j \in 1..Len(v)
      BY <2>1
    <3>2. QED
      BY <2>1, <2>3, <3>1
  <2>5. Apart(text, v, 0)
    BY <2>1, <2>3, <2>4 DEF Apart, n
  <2>6. QED
    BY <2>5 DEF v, P

(* The sections, the blank ones left out, fill the text.                   *)
LEMMA SectionsFill ==
  ASSUME NEW text \in Texts
  PROVE  Fills(text, 1, Len(text) + 1, Len(text), Sections(text))
<1> DEFINE heads == Picked(Positions(text), {n \in DOMAIN text : HeadingAt(text, n)})
           cut == CutAt(text, heads, 0)
           at == {n \in DOMAIN cut : ~Blank(cut[n])}
           n == Len(cut)
           size == Len(text)
<1>1. Apart(text, heads, 0) /\ size \in Nat /\ 0 \in Nat
  BY PositionsApart DEF Texts
<1>2. PICK from : Consecutive(text, cut, from, heads, 0)
  <2> HIDE DEF heads
  <2>1. QED
    BY <1>1, CutPlaces
<1>3. Sections(text) = Picked(cut, at)
  BY DEF Sections
<1> HIDE DEF cut
<1>4. /\ cut \in Seq(Texts) /\ n = Len(heads) + 1 /\ n \in Nat /\ Len(heads) \in Nat
      /\ DOMAIN cut = 1..n /\ from \in [1..n -> Nat] /\ from[1] = 1
      /\ \A k \in 1..n : Stands(text, cut[k], from[k]) /\ cut[k] \in Texts
      /\ from[n] + Len(cut[n]) = size + 1
  <2>1. Len(heads) \in Nat
    <3> HIDE DEF heads
    <3>1. QED
      BY <1>1 DEF Apart
  <2> HIDE DEF heads, n
  <2>2. /\ cut \in Seq(Texts) /\ Len(cut) = Len(heads) + 1
        /\ from \in [1..Len(cut) -> Nat] /\ from[1] = 1
        /\ \A k \in 1..Len(cut) : Stands(text, cut[k], from[k])
        /\ from[Len(cut)] + Len(cut[Len(cut)]) = Len(text) + 1
    BY <1>2 DEF Consecutive
  <2>3. DOMAIN cut = 1..n /\ n \in Nat
    BY <2>2 DEF n
  <2>4. \A k \in 1..n : cut[k] \in Texts
    BY <2>2 DEF n
  <2>5. QED
    BY <2>1, <2>2, <2>3, <2>4 DEF n
<1>5. \A k \in 1..n : k \in at <=> ~Blank(cut[k])
  BY <1>4
<1>6. PICK p : Picks(p, Texts, cut, at)
  BY <1>4, PickedWalks
<1>7. /\ p \in [0..n -> Seq(Texts)] /\ p[0] = <<>> /\ p[n] = Picked(cut, at)
      /\ \A k \in 1..n :
           p[k] = IF k \in at THEN Append(p[k - 1], cut[k]) ELSE p[k - 1]
  BY <1>6 DEF Picks
<1> DEFINE end == [k \in 0..n |-> IF k = 0 THEN 1 ELSE from[k] + Len(cut[k])]
           G == [k \in 0..n |-> {v \in Seq(Texts) : Fills(text, 1, end[k], size, v)}]
<1>8. end[0] = 1 /\ \A k \in 1..n : end[k] = from[k] + Len(cut[k])
  <2>1. 0 \in 0..n /\ \A k \in 1..n : k \in 0..n /\ k # 0
    BY <1>4
  <2>2. QED
    BY <2>1
<1>9. \A k \in 0..n : \A v : v \in G[k] <=> v \in Seq(Texts) /\ Fills(text, 1, end[k], size, v)
  OBVIOUS
<1> HIDE DEF end, G, n, at
<1>10. ASSUME NEW k \in 1..n PROVE end[k - 1] = from[k]
  <2>1. CASE k = 1
    BY <1>4, <1>8, <2>1
  <2>2. CASE k # 1
    <3> DEFINE j == k - 1
    <3>1. j \in 1..Len(heads) /\ j \in 1..n /\ j + 1 = k
      BY <1>4, <2>2
    <3> HIDE DEF j
    <3>2. from[j] + Len(cut[j]) = heads[j] /\ from[j + 1] = heads[j] + 0
      BY <1>2, <3>1 DEF Consecutive
    <3>3. heads[j] \in Nat
      <4> HIDE DEF heads
      <4>1. heads[j] \in 1..Len(text)
        BY <1>1, <3>1 DEF Apart
      <4>2. QED
        BY <1>1, <4>1
    <3> HIDE DEF heads
    <3>4. end[j] = from[k]
      BY <1>8, <3>1, <3>2, <3>3
    <3>5. QED
      BY <3>4 DEF j
  <2>3. QED
    BY <2>1, <2>2
<1>11. p[0] \in G[0]
  <2>1. Letterless(text, 1, 1) /\ 1 \in Nat
    BY LettersAreCharacters DEF Letterless
  <2>2. Fills(text, 1, 1, size, <<>>)
    BY <2>1, FillsNothing
  <2>3. <<>> \in Seq(Texts) /\ 0 \in 0..n
    BY <1>4
  <2>4. QED
    BY <1>7, <1>8, <1>9, <2>2, <2>3
<1>12. ASSUME NEW k \in 1..n, p[k - 1] \in G[k - 1] PROVE p[k] \in G[k]
  <2> DEFINE v == p[k - 1]
             f == from[k]
             to == f + Len(cut[k])
  <2>1. k - 1 \in 0..n /\ k \in 0..n
    BY <1>4
  <2>2. v \in Seq(Texts) /\ Fills(text, 1, f, size, v)
    BY <1>9, <1>10, <1>12, <2>1
  <2>3. /\ cut[k] \in Texts /\ Stands(text, cut[k], f) /\ end[k] = to
        /\ Len(cut[k]) \in Nat /\ f \in Nat /\ 1 <= f /\ to <= size + 1 /\ to \in Nat
        /\ f <= to
    <3>1. cut[k] \in Texts /\ Stands(text, cut[k], f) /\ end[k] = to
      BY <1>4, <1>8
    <3>2. Len(cut[k]) \in Nat /\ Len(text) \in Nat
      BY <3>1 DEF Texts
    <3>3. f \in Nat /\ 1 <= f /\ to <= Len(text) + 1
      BY <3>1 DEF Stands
    <3> HIDE DEF f
    <3>4. to \in Nat /\ f <= to
      BY <3>2, <3>3
    <3>5. QED
      BY <3>1, <3>2, <3>3, <3>4
  <2>4. p[k] = IF k \in at THEN Append(v, cut[k]) ELSE v
    BY <1>7
  <2>5. CASE k \notin at
    <3>1. Letters(cut[k]) = {}
      BY <1>5, <2>5 DEF Blank, Letters
    <3>2. Letterless(text, f, to)
      BY <2>3, <3>1, NoLetterStands
    <3> HIDE DEF v, f, to
    <3>3. Fills(text, 1, to, size, v)
      BY <2>2, <2>3, <3>2, FillsUpTo
    <3>4. QED
      BY <1>9, <2>1, <2>2, <2>3, <2>4, <2>5, <3>3
  <2>6. CASE k \in at
    <3>1. Letterless(text, f, f) /\ f <= f /\ 1 \in Nat
      BY <2>3, LettersAreCharacters DEF Letterless
    <3>2. Len(cut[k]) <= size
      BY <1>1, <2>3
    <3>3. Fills(text, f, to, size, <<cut[k]>>)
      BY <2>3, <3>2, FillsOne
    <3> HIDE DEF v, f, to
    <3>4. Fills(text, 1, to, size, v \o <<cut[k]>>)
      BY <2>2, <2>3, <3>1, <3>3, FillsBoth
    <3>5. v \o <<cut[k]>> = Append(v, cut[k]) /\ Append(v, cut[k]) \in Seq(Texts)
      BY <2>2, <2>3
    <3>6. QED
      BY <1>9, <2>1, <2>3, <2>4, <2>6, <3>4, <3>5
  <2>7. QED
    BY <2>5, <2>6
<1>13. p[n] \in G[n]
  BY <1>4, <1>11, <1>12, Walk
<1>14. end[n] = size + 1 /\ n \in 0..n
  BY <1>4, <1>8
<1>15. Fills(text, 1, size + 1, size, p[n])
  BY <1>9, <1>13, <1>14
<1>16. QED
  BY <1>3, <1>7, <1>15

(* Where there is no letter, dropping a stretch loses none.                *)
LEMMA NoneBetween ==
  ASSUME NEW text \in Texts, NEW lo \in Nat, NEW hi \in Nat,
         \A n \in Letters(text) : ~(lo <= n /\ n < hi)
  PROVE  Letterless(text, lo, hi)
<1>1. \A n \in Letters(text) : n \in Nat
  BY LettersAreCharacters
<1>2. QED
  BY <1>1 DEF Letterless

(* The place after the k-th piece.                                         *)
Past(pieces, at, k) == IF k = 0 THEN 1 ELSE at[k] + Len(pieces[k])

(* What pieces that fill a text leave out is no letter.                    *)
LEMMA Gaps ==
  ASSUME NEW text \in Texts, NEW size, NEW pieces, NEW at,
         Placed(text, 1, Len(text) + 1, size, pieces, at)
  PROVE  /\ Len(pieces) \in Nat
         /\ \A k \in 0..Len(pieces) :
              /\ Past(pieces, at, k) \in Nat /\ 1 <= Past(pieces, at, k)
              /\ Past(pieces, at, k) <= Len(text) + 1
         /\ \A k \in 1..Len(pieces) :
              /\ pieces[k] \in Texts /\ Len(pieces[k]) \in Nat
              /\ Past(pieces, at, k) = at[k] + Len(pieces[k])
              /\ Stands(text, pieces[k], at[k]) /\ at[k] \in Nat /\ 1 <= at[k]
              /\ Past(pieces, at, k - 1) <= at[k]
              /\ Letterless(text, Past(pieces, at, k - 1), at[k])
         /\ Letterless(text, Past(pieces, at, Len(pieces)), Len(text) + 1)
<1> DEFINE n == Len(pieces)
           hi == Len(text) + 1
           end == [k \in 0..n |-> Past(pieces, at, k)]
<1>4. n \in Nat /\ hi \in Nat /\ 1 <= hi
  BY DEF Texts, Placed
<1>5. /\ end[0] = 1 /\ \A k \in 1..n : end[k] = at[k] + Len(pieces[k])
      /\ \A k \in 0..n : Past(pieces, at, k) = end[k]
  <2>1. 0 \in 0..n /\ \A k \in 1..n : k \in 0..n /\ k # 0
    BY <1>4
  <2>2. QED
    BY <2>1 DEF Past
<1> HIDE DEF end, n, hi
<1>7. /\ \A k \in 1..n : /\ pieces[k] \in Texts /\ at[k] \in Nat
                         /\ Stands(text, pieces[k], at[k])
                         /\ 1 <= at[k] /\ end[k] <= hi /\ Len(pieces[k]) \in Nat
      /\ \A j, k \in 1..n : j < k => end[j] <= at[k]
      /\ \A m \in Letters(text) : (1 <= m /\ m < hi) =>
           \E k \in 1..n : at[k] <= m /\ m < end[k]
  <2>1. /\ pieces \in Seq(Texts) /\ at \in [1..n -> Nat]
        /\ \A k \in 1..n : /\ Stands(text, pieces[k], at[k])
                           /\ 1 <= at[k] /\ end[k] <= hi
        /\ \A j, k \in 1..n : j < k => end[j] <= at[k]
        /\ \A m \in Letters(text) : (1 <= m /\ m < hi) =>
             \E k \in 1..n : at[k] <= m /\ m < end[k]
    BY <1>5 DEF Placed, n, hi
  <2>2. \A k \in 1..n : pieces[k] \in Texts /\ at[k] \in Nat
    BY <2>1 DEF n
  <2>3. \A t \in Texts : Len(t) \in Nat
    BY DEF Texts
  <2>4. QED
    BY <2>1, <2>2, <2>3
<1>8. \A k \in 0..n : end[k] \in Nat /\ 1 <= end[k] /\ end[k] <= hi
  <2>1. ASSUME NEW k \in 0..n, k # 0 PROVE end[k] \in Nat /\ 1 <= end[k] /\ end[k] <= hi
    <3>1. k \in 1..n
      BY <1>4, <2>1
    <3>2. /\ end[k] = at[k] + Len(pieces[k]) /\ at[k] \in Nat /\ 1 <= at[k]
          /\ end[k] <= hi /\ Len(pieces[k]) \in Nat
      BY <1>5, <1>7, <3>1
    <3>3. QED
      BY <3>2
  <2>2. QED
    BY <1>4, <1>5, <2>1
<1>9. \A j, k \in 1..n : j <= k => end[j] <= end[k]
  <2>1. ASSUME NEW j \in 1..n, NEW k \in 1..n, j < k PROVE end[j] <= end[k]
    <3>1. end[j] <= at[k] /\ end[k] = at[k] + Len(pieces[k]) /\ end[j] \in Nat
          /\ at[k] \in Nat /\ Len(pieces[k]) \in Nat
      BY <1>4, <1>5, <1>7, <1>8, <2>1
    <3>2. QED
      BY <3>1
  <2>2. \A k \in 1..n : end[k] <= end[k]
    BY <1>4, <1>8
  <2>3. QED
    BY <1>4, <2>1, <2>2
<1>10. ASSUME NEW k \in 1..n PROVE end[k - 1] <= at[k] /\ Letterless(text, end[k - 1], at[k])
  <2>1. end[k - 1] <= at[k]
    <3>1. CASE k = 1
      BY <1>4, <1>5, <1>7, <3>1
    <3>2. CASE k # 1
      <4>1. k - 1 \in 1..n /\ k - 1 < k
        BY <1>4, <3>2
      <4>2. QED
        BY <1>7, <4>1
    <3>3. QED
      BY <3>1, <3>2
  <2>2. ASSUME NEW m \in Letters(text), end[k - 1] <= m, m < at[k] PROVE FALSE
    <3>1. m \in Nat /\ 1 <= m /\ m < hi
      BY <1>4, LettersAreCharacters DEF hi
    <3>2. PICK j \in 1..n : at[j] <= m /\ m < end[j]
      BY <1>7, <3>1
    <3>3. CASE j < k
      <4>1. k - 1 \in 1..n /\ j <= k - 1 /\ j \in 0..n /\ k - 1 \in 0..n
        BY <1>4, <3>3
      <4>2. end[j] <= end[k - 1] /\ end[j] \in Nat /\ end[k - 1] \in Nat
        BY <1>8, <1>9, <4>1
      <4>3. QED
        BY <2>2, <3>1, <3>2, <4>2
    <3>4. CASE k <= j
      <4>1. at[k] <= at[j]
        <5>1. CASE k = j
          BY <1>7, <5>1
        <5>2. CASE k < j
          <6>1. end[k] <= at[j] /\ end[k] = at[k] + Len(pieces[k])
            BY <1>5, <1>7, <5>2
          <6>2. QED
            BY <1>7, <6>1
        <5>3. QED
          BY <1>4, <3>4, <5>1, <5>2
      <4>2. at[k] \in Nat /\ at[j] \in Nat
        BY <1>7
      <4>3. QED
        BY <2>2, <3>1, <3>2, <4>1, <4>2
    <3>5. QED
      BY <1>4, <3>3, <3>4
  <2>3. end[k - 1] \in Nat /\ at[k] \in Nat
    <3>1. k - 1 \in 0..n
      BY <1>4
    <3>2. QED
      BY <1>7, <1>8, <3>1
  <2>4. Letterless(text, end[k - 1], at[k])
    BY <2>2, <2>3, NoneBetween
  <2>5. QED
    BY <2>1, <2>4
<1>11. Letterless(text, end[n], hi)
  <2>1. ASSUME NEW m \in Letters(text), end[n] <= m, m < hi PROVE FALSE
    <3>1. m \in Nat /\ 1 <= m
      BY LettersAreCharacters
    <3>2. PICK j \in 1..n : m < end[j]
      BY <1>7, <2>1, <3>1
    <3>3. j <= n /\ n \in 1..n /\ j \in 0..n
      BY <1>4
    <3>4. end[j] <= end[n] /\ end[j] \in Nat /\ end[n] \in Nat
      <4>1. n \in 0..n
        BY <1>4
      <4>2. QED
        BY <1>8, <1>9, <3>3, <4>1
    <3>5. QED
      BY <2>1, <3>1, <3>2, <3>4
  <2>2. end[n] \in Nat
    BY <1>4, <1>8
  <2>3. QED
    BY <1>4, <2>1, <2>2, NoneBetween
<1>12. /\ \A k \in 1..n : k \in 0..n /\ k - 1 \in 0..n
       /\ n \in 0..n
  BY <1>4
<1>13. \A k \in 0..n : /\ Past(pieces, at, k) \in Nat /\ 1 <= Past(pieces, at, k)
                       /\ Past(pieces, at, k) <= hi
  BY <1>5, <1>8
<1>14. \A k \in 1..n :
         /\ pieces[k] \in Texts /\ Len(pieces[k]) \in Nat
         /\ Past(pieces, at, k) = at[k] + Len(pieces[k])
         /\ Stands(text, pieces[k], at[k]) /\ at[k] \in Nat /\ 1 <= at[k]
         /\ Past(pieces, at, k - 1) <= at[k]
         /\ Letterless(text, Past(pieces, at, k - 1), at[k])
  BY <1>5, <1>7, <1>10, <1>12
<1>15. Letterless(text, Past(pieces, at, n), hi)
  BY <1>5, <1>11, <1>12
<1>16. QED
  BY <1>4, <1>13, <1>14, <1>15 DEF n, hi

(* Pieces split again fill the text, if what each is split into fills it.  *)
LEMMA RefinedFills ==
  ASSUME NEW text \in Texts, NEW big, NEW size, NEW secs, NEW deeper \in Seq(Seq(Texts)),
         Fills(text, 1, Len(text) + 1, big, secs), Len(deeper) = Len(secs),
         \A k \in 1..Len(secs) :
           Fills(secs[k], 1, Len(secs[k]) + 1, size, deeper[k])
  PROVE  Fills(text, 1, Len(text) + 1, size, FlattenSeq(deeper))
<1> DEFINE n == Len(deeper)
           hi == Len(text) + 1
<1>1. PICK at : Placed(text, 1, hi, big, secs, at)
  BY DEF Fills
<1>2. PICK p : Flattens(p, Texts, deeper)
  BY FlattenWalks
<1>3. /\ p \in [0..n -> Seq(Texts)] /\ p[0] = <<>> /\ p[n] = FlattenSeq(deeper)
      /\ \A k \in 1..n : p[k] = p[k - 1] \o deeper[k]
  BY <1>2 DEF Flattens
<1> DEFINE end == [k \in 0..n |-> Past(secs, at, k)]
           G == [k \in 0..n |-> {v \in Seq(Texts) : Fills(text, 1, end[k], size, v)}]
<1>4. n \in Nat /\ Len(secs) = n /\ hi \in Nat /\ 1 <= hi
  BY DEF Texts
<1>5. end[0] = 1 /\ \A k \in 0..n : end[k] = Past(secs, at, k)
  BY <1>4 DEF Past
<1>6. \A k \in 0..n : \A v : v \in G[k] <=> v \in Seq(Texts) /\ Fills(text, 1, end[k], size, v)
  OBVIOUS
<1> HIDE DEF end, G, n, hi
<1>7. /\ \A k \in 0..n : end[k] \in Nat /\ 1 <= end[k] /\ end[k] <= hi
      /\ \A k \in 1..n :
           /\ secs[k] \in Texts /\ Len(secs[k]) \in Nat
           /\ end[k] = at[k] + Len(secs[k])
           /\ Stands(text, secs[k], at[k]) /\ at[k] \in Nat /\ 1 <= at[k]
           /\ end[k - 1] <= at[k] /\ Letterless(text, end[k - 1], at[k])
      /\ Letterless(text, end[n], hi)
  <2>1. /\ \A k \in 1..n : k \in 0..n /\ k - 1 \in 0..n
        /\ n \in 0..n
    BY <1>4
  <2>2. /\ \A k \in 0..n :
              /\ Past(secs, at, k) \in Nat /\ 1 <= Past(secs, at, k)
              /\ Past(secs, at, k) <= hi
        /\ \A k \in 1..n :
              /\ secs[k] \in Texts /\ Len(secs[k]) \in Nat
              /\ Past(secs, at, k) = at[k] + Len(secs[k])
              /\ Stands(text, secs[k], at[k]) /\ at[k] \in Nat /\ 1 <= at[k]
              /\ Past(secs, at, k - 1) <= at[k]
              /\ Letterless(text, Past(secs, at, k - 1), at[k])
        /\ Letterless(text, Past(secs, at, n), hi)
    BY <1>1, <1>4, Gaps DEF hi
  <2>3. QED
    BY <1>5, <2>1, <2>2
<1>11. p[0] \in G[0]
  <2>1. Letterless(text, 1, 1) /\ 1 \in Nat
    BY LettersAreCharacters DEF Letterless
  <2>2. Fills(text, 1, 1, size, <<>>)
    BY <2>1, FillsNothing
  <2>3. <<>> \in Seq(Texts) /\ 0 \in 0..n
    BY <1>4
  <2>4. QED
    BY <1>3, <1>5, <1>6, <2>2, <2>3
<1>12. ASSUME NEW k \in 1..n, p[k - 1] \in G[k - 1] PROVE p[k] \in G[k]
  <2> DEFINE v == p[k - 1]
             f == at[k]
             mid == end[k - 1]
             to == end[k]
  <2>1. k - 1 \in 0..n /\ k \in 0..n
    BY <1>4
  <2>2. v \in Seq(Texts) /\ Fills(text, 1, mid, size, v)
    BY <1>6, <1>12, <2>1
  <2>3. /\ secs[k] \in Texts /\ Stands(text, secs[k], f) /\ to = f + Len(secs[k])
        /\ f \in Nat /\ mid \in Nat /\ to \in Nat /\ 1 <= mid /\ mid <= f /\ f <= to
        /\ Letterless(text, mid, f) /\ Len(secs[k]) \in Nat
    BY <1>7, <2>1
  <2>4. Fills(text, f, to, size, deeper[k])
    BY <1>4, <2>3, FillsWithin
  <2>5. p[k] = v \o deeper[k] /\ p[k] \in Seq(Texts)
    BY <1>3, <2>1
  <2> HIDE DEF v, f, mid, to
  <2>6. Fills(text, 1, to, size, v \o deeper[k])
    BY <2>2, <2>3, <2>4, FillsBoth
  <2>7. QED
    BY <1>6, <2>1, <2>5, <2>6 DEF to
<1>13. p[n] \in G[n]
  BY <1>4, <1>11, <1>12, Walk
<1>14. n \in 0..n
  BY <1>4
<1>15. Fills(text, 1, end[n], size, p[n]) /\ end[n] \in Nat /\ 1 <= end[n] /\ end[n] <= hi
  BY <1>6, <1>7, <1>13, <1>14
<1>17. Fills(text, 1, hi, size, p[n])
  <2> DEFINE e == end[n]
             v == p[n]
  <2>1. /\ Fills(text, 1, e, size, v) /\ e \in Nat /\ 1 <= e /\ e <= hi
        /\ Letterless(text, e, hi)
    BY <1>7, <1>15
  <2> HIDE DEF e, v
  <2>2. Fills(text, 1, hi, size, v)
    BY <1>4, <2>1, FillsUpTo
  <2>3. QED
    BY <2>2 DEF v
<1>18. QED
  BY <1>3, <1>17 DEF hi

(***************************************************************************)
(* Where the pieces are found.                                             *)
(***************************************************************************)
Spans == [text: Texts, start: Nat, end: Nat]
Locators == [chunks: Seq(Spans), cursor: Nat]

(* text.find is never negative here: the cursor stands in for -1.          *)
LEMMA FindIsPlace ==
  ASSUME NEW text, NEW piece, NEW cursor \in Nat
  PROVE  Find(text, piece, cursor) \in Nat
<1> DEFINE at == {n \in cursor + 1..Len(text) + 1 : StandsAt(text, piece, n)}
<1>1. CASE at = {}
  BY <1>1 DEF Find
<1>2. CASE at # {}
  <2>1. at \in SUBSET Nat /\ \A n \in at : n >= 1
    OBVIOUS
  <2>2. \E m \in at : \A n \in at : m <= n
    <3> HIDE DEF at
    <3>1. QED
      BY <1>2, <2>1, LeastExists
  <2>3. Find(text, piece, cursor) = Min(at) - 1
    BY <1>2 DEF Find
  <2> HIDE DEF at
  <2>4. Min(at) \in at
    BY <2>2 DEF Min
  <2> DEFINE m == Min(at)
  <2>5. m \in Nat /\ m >= 1
    BY <2>1, <2>4
  <2> HIDE DEF m
  <2>6. m - 1 \in Nat
    BY <2>5
  <2>7. QED
    BY <2>3, <2>6 DEF m
<1>3. QED
  BY <1>1, <1>2

(* A piece that stands after the cursor is found there or before.          *)
LEMMA FindFinds ==
  ASSUME NEW text \in Texts, NEW piece \in Texts, NEW cursor \in Nat,
         NEW a \in Nat, cursor + 1 <= a, Stands(text, piece, a)
  PROVE  LET start == Find(text, piece, cursor)
         IN /\ start \in Nat /\ cursor <= start /\ start + 1 <= a
            /\ Stands(text, piece, start + 1)
<1> DEFINE at == {n \in cursor + 1..Len(text) + 1 : StandsAt(text, piece, n)}
           start == Find(text, piece, cursor)
<1>1. Len(text) \in Nat /\ Len(piece) \in Nat /\ a <= Len(text) + 1 /\ 1 <= a
  BY DEF Texts, Stands
<1>2. a \in at
  BY <1>1, StandsAtStands
<1>3. /\ at \in SUBSET Nat
      /\ \A n \in at : n >= cursor + 1 /\ n <= Len(text) + 1 /\ StandsAt(text, piece, n)
  OBVIOUS
<1>4. start = Min(at) - 1
  BY <1>2 DEF Find
<1> HIDE DEF at, start
<1>5. \E m \in at : \A n \in at : m <= n
  BY <1>2, <1>3, LeastExists
<1>6. Min(at) \in at /\ \A n \in at : Min(at) <= n
  BY <1>5 DEF Min
<1>7. start \in Nat /\ start + 1 = Min(at) /\ cursor <= start /\ start + 1 <= a
  <2> DEFINE m == Min(at)
  <2>1. m \in Nat /\ m >= cursor + 1 /\ m <= a /\ start = m - 1
    BY <1>2, <1>3, <1>4, <1>6
  <2> HIDE DEF m
  <2>2. start \in Nat /\ start + 1 = m /\ cursor <= start /\ start + 1 <= a
    BY <2>1
  <2>3. QED
    BY <2>2 DEF m
<1>8. StandsAt(text, piece, start + 1) /\ 1 <= start + 1 /\ start + 1 <= Len(text) + 1
  BY <1>3, <1>6, <1>7
<1>9. Stands(text, piece, start + 1)
  <2>1. start + 1 \in Nat
    BY <1>7
  <2>2. QED
    BY <1>8, <2>1, StandsAtStands
<1>10. QED
  BY <1>7, <1>9 DEF start

(* A piece located keeps the spans and the cursor well formed.             *)
LEMMA LocateTyped ==
  ASSUME NEW text, NEW overlap \in Nat, NEW acc \in Locators, NEW piece \in Texts
  PROVE  Locate(text, overlap, acc, piece) \in Locators
<1> DEFINE start == Find(text, piece, acc.cursor)
           end == start + Len(piece)
<1>1. acc.chunks \in Seq(Spans) /\ acc.cursor \in Nat
  BY DEF Locators
<1>2. start \in Nat /\ Len(piece) \in Nat /\ end \in Nat
  BY <1>1, FindIsPlace DEF Texts
<1>3. Locate(text, overlap, acc, piece) =
        [chunks |-> Append(acc.chunks, [text |-> piece, start |-> start, end |-> end]),
         cursor |-> Cursor(end, overlap)]
  BY DEF Locate
<1> HIDE DEF start, end
<1>4. Cursor(end, overlap) = end
  BY <1>2 DEF Cursor, Larger
<1>5. Append(acc.chunks, [text |-> piece, start |-> start, end |-> end]) \in Seq(Spans)
  <2>1. [text |-> piece, start |-> start, end |-> end] \in Spans
    BY <1>2 DEF Spans
  <2>2. QED
    BY <1>1, <2>1
<1>6. QED
  BY <1>2, <1>3, <1>4, <1>5 DEF Locators

(* What has been found of the first k pieces.                              *)
Locating(p, text, pieces, overlap) ==
  /\ p \in [0..Len(pieces) -> Locators]
  /\ p[0] = [chunks |-> <<>>, cursor |-> 0]
  /\ \A k \in 1..Len(pieces) : p[k] = Locate(text, overlap, p[k - 1], pieces[k])
  /\ Located(text, pieces, overlap) = p[Len(pieces)].chunks

(* Located has a history, piece by piece.                                  *)
LEMMA LocatedWalks ==
  ASSUME NEW text, NEW pieces \in Seq(Texts), NEW overlap \in Nat
  PROVE  \E p : Locating(p, text, pieces, overlap)
<1> DEFINE n == Len(pieces)
           V == Locators
           first == [chunks |-> <<>>, cursor |-> 0]
           Found(f) == f = [s \in SUBSET (DOMAIN pieces) |->
                              IF s = {} THEN [chunks |-> <<>>, cursor |-> 0]
                              ELSE Locate(text, overlap, f[s \ {Max(s)}], pieces[Max(s)])]
           step == [k \in 1..n |-> [v \in V |-> Locate(text, overlap, v, pieces[k])]]
<1>1. n \in Nat /\ DOMAIN pieces = 1..n /\ \A k \in 1..n : pieces[k] \in Texts
  OBVIOUS
<1>2. \A f0 : Found(f0) =>
        \E f : Found(f) /\ Located(text, pieces, overlap) = f[DOMAIN pieces].chunks
  BY Zenon DEF Located, FoldLeft, MapThenFoldSet
<1>3. step \in [1..n -> [V -> V]]
  <2>1. \A k \in 1..n, v \in V : Locate(text, overlap, v, pieces[k]) \in V
    BY <1>1, LocateTyped
  <2>2. QED
    BY <2>1
<1>4. first \in V
  BY DEF Locators
<1>5. \A k \in 1..n, v \in V : step[k][v] = Locate(text, overlap, v, pieces[k])
  OBVIOUS
<1> HIDE DEF n, step, V
<1>6. \E f0 : Found(f0)
  <2> HIDE DEF first
  <2>1. PICK f \in [SUBSET (1..n) -> V] : FoldedBy(f, n, V, first, step)
    BY <1>1, <1>3, <1>4, FoldTyped
  <2>2. ASSUME NEW s \in SUBSET (1..n)
        PROVE  f[s] = IF s = {} THEN [chunks |-> <<>>, cursor |-> 0]
                      ELSE Locate(text, overlap, f[s \ {Max(s)}], pieces[Max(s)])
    <3>1. /\ s = {} => f[s] = first
          /\ s # {} => /\ Max(s) \in 1..n /\ f[s \ {Max(s)}] \in V
                       /\ f[s] = step[Max(s)][f[s \ {Max(s)}]]
      BY <2>1 DEF FoldedBy
    <3>2. CASE s = {}
      BY <3>1, <3>2 DEF first
    <3>3. CASE s # {}
      BY <1>1, <1>5, <3>1, <3>3
    <3>4. QED
      BY <3>2, <3>3
  <2>3. Found(f)
    BY <1>1, <2>2
  <2>4. QED
    BY <2>3
<1>7. PICK f : Found(f) /\ Located(text, pieces, overlap) = f[1..n].chunks
  BY <1>1, <1>2, <1>6
<1>8. Follows(f, n, V, first, step)
  <2>1. ASSUME NEW s \in SUBSET (1..n), s # {}, f[s \ {Max(s)}] \in V
        PROVE  f[s] = step[Max(s)][f[s \ {Max(s)}]]
    <3>1. Max(s) \in 1..n
      BY <1>1, <2>1, LastPosition
    <3>2. s \in SUBSET (DOMAIN pieces)
      BY <1>1
    <3>3. f[s] = Locate(text, overlap, f[s \ {Max(s)}], pieces[Max(s)])
      BY <1>7, <2>1, <3>2
    <3>4. QED
      BY <1>1, <1>5, <2>1, <3>1, <3>3
  <2>2. f[{}] = first
    BY <1>7
  <2>3. QED
    BY <2>1, <2>2 DEF Follows
<1> HIDE DEF first
<1>9. PICK p : Walks(p, n, V, first, step) /\ p[n] = f[1..n]
  BY <1>1, <1>3, <1>4, <1>8, FoldWalks
<1>10. /\ p \in [0..n -> V] /\ p[0] = first
       /\ \A k \in 1..n : p[k] = step[k][p[k - 1]]
  BY <1>9 DEF Walks
<1>11. \A k \in 1..n : p[k] = Locate(text, overlap, p[k - 1], pieces[k])
  <2>1. \A k \in 1..n : p[k - 1] \in V
    BY <1>1, <1>10
  <2>2. QED
    BY <1>5, <1>10, <2>1
<1>12. Locating(p, text, pieces, overlap)
  BY <1>7, <1>9, <1>10, <1>11 DEF Locating, n, V, first
<1>13. QED
  BY <1>12

(* The next piece is found where it stands, if it has a letter, and leaves *)
(* no letter behind.                                                       *)
LEMMA FindsNext ==
  ASSUME NEW text \in Texts, NEW piece \in Texts, NEW cursor \in Nat,
         NEW end \in Nat, NEW a \in Nat, cursor + 1 <= end, end <= a,
         Letterless(text, cursor + 1, end), Letterless(text, end, a),
         Stands(text, piece, a)
  PROVE  LET start == Find(text, piece, cursor)
             to == start + Len(piece)
         IN /\ start \in Nat /\ to \in Nat /\ Stands(text, piece, start + 1)
            /\ to + 1 <= a + Len(piece)
            /\ Letterless(text, to + 1, a + Len(piece))
            /\ Letters(piece) # {} => start + 1 = a
<1> DEFINE start == Find(text, piece, cursor)
           l == Len(piece)
<1>1. l \in Nat
  BY DEF Texts
<1>2. /\ start \in Nat /\ cursor <= start /\ start + 1 <= a
      /\ Stands(text, piece, start + 1)
  <2>1. cursor + 1 <= a
    OBVIOUS
  <2>2. QED
    BY <2>1, FindFinds
<1> HIDE DEF start
<1>3. ASSUME NEW n \in Letters(text), cursor + 1 <= n PROVE n \in Nat /\ a <= n
  <2>1. n \in Nat
    BY LettersAreCharacters
  <2>2. end <= n
    BY <1>3, <2>1 DEF Letterless
  <2>3. QED
    BY <2>1, <2>2 DEF Letterless
<1>4. ASSUME Letters(piece) # {} PROVE start + 1 = a
  <2>1. Letters(piece) \in SUBSET Nat /\ \A i \in Letters(piece) : i \in 1..l
    BY LettersAreCharacters
  <2>2. PICK i \in Letters(piece) : \A j \in Letters(piece) : i <= j
    BY <1>4, <2>1, LeastExists
  <2>3. i \in 1..l /\ i \in Nat
    BY <2>1
  <2>4. start + i \in Letters(text)
    <3>1. (start + 1) + i - 1 \in Letters(text)
      BY <1>2, <2>3, LettersStand
    <3>2. (start + 1) + i - 1 = start + i
      BY <1>2, <2>3
    <3>3. QED
      BY <3>1, <3>2
  <2>5. cursor + 1 <= start + i
    BY <1>2, <2>3
  <2>6. a <= start + i
    BY <1>3, <2>4, <2>5
  <2> DEFINE j == start + i - a + 1
  <2>7. j \in 1..i /\ j \in 1..l /\ a + j - 1 = start + i
    BY <1>1, <1>2, <2>3, <2>6
  <2> HIDE DEF j
  <2>8. j \in Letters(piece)
    <3>1. a + j - 1 \in Letters(text)
      BY <2>4, <2>7
    <3>2. QED
      BY <2>7, <3>1, LettersStand
  <2>9. i <= j
    BY <2>2, <2>8
  <2>10. j = i
    BY <2>3, <2>7, <2>9
  <2>11. QED
    BY <1>2, <2>3, <2>7, <2>10
<1>5. ASSUME NEW n \in Letters(text), start + l + 1 <= n, n < a + l PROVE FALSE
  <2>1. n \in Nat /\ a <= n
    <3>1. n \in Nat
      BY LettersAreCharacters
    <3>2. cursor + 1 <= n
      BY <1>1, <1>2, <1>5, <3>1
    <3>3. QED
      BY <1>3, <3>2
  <2>2. CASE Letters(piece) # {}
    <3>1. start + 1 = a
      BY <1>4, <2>2
    <3>2. start + l + 1 = a + l
      BY <1>1, <1>2, <3>1
    <3>3. QED
      BY <1>1, <1>5, <2>1, <3>2
  <2>3. CASE Letters(piece) = {}
    <3>1. Letterless(text, a, a + l)
      BY <2>3, NoLetterStands
    <3>2. QED
      BY <1>1, <1>5, <2>1, <3>1 DEF Letterless
  <2>4. QED
    BY <2>2, <2>3
<1>6. start + l \in Nat /\ start + l + 1 <= a + l /\ a + l \in Nat /\ start + l + 1 \in Nat
  BY <1>1, <1>2
<1>7. Letterless(text, start + l + 1, a + l)
  BY <1>5, <1>6, NoneBetween
<1>8. QED
  BY <1>2, <1>4, <1>6, <1>7 DEF start

(* A chunk is its piece, where the piece is.                               *)
Finds(c, text, piece, a) ==
  /\ c \in Spans /\ c.text = piece /\ c.end = c.start + Len(piece)
  /\ Stands(text, piece, c.start + 1)
  /\ Letters(piece) # {} => c.start + 1 = a

Finding(acc, k, text, pieces, at) ==
  /\ acc \in Locators /\ Len(acc.chunks) = k
  /\ acc.cursor + 1 <= Past(pieces, at, k)
  /\ Letterless(text, acc.cursor + 1, Past(pieces, at, k))
  /\ \A i \in 1..k : Finds(acc.chunks[i], text, pieces[i], at[i])

(* Located finds each piece where it stands, or, if it holds no letter, at *)
(* an equal one.                                                           *)
LEMMA LocatedFinds ==
  ASSUME NEW text \in Texts, NEW size, NEW pieces, NEW at, NEW overlap \in Nat,
         Placed(text, 1, Len(text) + 1, size, pieces, at)
  PROVE  /\ Located(text, pieces, overlap) \in Seq(Spans)
         /\ Len(Located(text, pieces, overlap)) = Len(pieces)
         /\ \A i \in 1..Len(pieces) :
              Finds(Located(text, pieces, overlap)[i], text, pieces[i], at[i])
<1> DEFINE n == Len(pieces)
           hi == Len(text) + 1
           G == [k \in 0..n |-> {acc \in Locators : Finding(acc, k, text, pieces, at)}]
<1>1. pieces \in Seq(Texts) /\ n \in Nat
  BY DEF Placed
<1>2. /\ \A k \in 0..n :
              Past(pieces, at, k) \in Nat /\ 1 <= Past(pieces, at, k)
      /\ \A k \in 1..n :
              /\ pieces[k] \in Texts /\ Len(pieces[k]) \in Nat
              /\ Past(pieces, at, k) = at[k] + Len(pieces[k])
              /\ Stands(text, pieces[k], at[k]) /\ at[k] \in Nat /\ 1 <= at[k]
              /\ Past(pieces, at, k - 1) <= at[k]
              /\ Letterless(text, Past(pieces, at, k - 1), at[k])
  BY Gaps
<1>3. PICK p : Locating(p, text, pieces, overlap)
  BY <1>1, LocatedWalks
<1>4. /\ p \in [0..n -> Locators]
      /\ p[0] = [chunks |-> <<>>, cursor |-> 0]
      /\ \A k \in 1..n : p[k] = Locate(text, overlap, p[k - 1], pieces[k])
      /\ Located(text, pieces, overlap) = p[n].chunks
  BY <1>3 DEF Locating
<1>5. \A k \in 0..n : \A acc : acc \in G[k] <=>
                                 acc \in Locators /\ Finding(acc, k, text, pieces, at)
  OBVIOUS
<1> HIDE DEF n, G
<1>6. p[0] \in G[0]
  <2>1. 0 \in 0..n /\ p[0] \in Locators
    BY <1>1, <1>4
  <2>2. p[0].cursor = 0 /\ p[0].chunks = <<>> /\ Past(pieces, at, 0) = 1
    BY <1>4 DEF Past
  <2>3. Letterless(text, 0 + 1, 1)
    BY LettersAreCharacters DEF Letterless
  <2>4. Finding(p[0], 0, text, pieces, at)
    BY <2>1, <2>2, <2>3 DEF Finding
  <2>5. QED
    BY <1>5, <2>1, <2>4
<1>7. ASSUME NEW k \in 1..n, p[k - 1] \in G[k - 1] PROVE p[k] \in G[k]
  <2> DEFINE i == k - 1
             acc == p[i]
             piece == pieces[k]
             a == at[k]
             end == Past(pieces, at, i)
             start == Find(text, piece, acc.cursor)
             to == start + Len(piece)
             c == [text |-> piece, start |-> start, end |-> to]
  <2>1. i \in 0..n /\ k \in 0..n /\ i \in Nat /\ k = i + 1
    BY <1>1
  <2>2. acc \in Locators /\ Finding(acc, i, text, pieces, at)
    BY <1>5, <1>7, <2>1
  <2>3. /\ acc.cursor \in Nat /\ acc.chunks \in Seq(Spans) /\ Len(acc.chunks) = i
        /\ acc.cursor + 1 <= end /\ Letterless(text, acc.cursor + 1, end)
        /\ \A j \in 1..i : Finds(acc.chunks[j], text, pieces[j], at[j])
    BY <2>2 DEF Finding, Locators
  <2>4. /\ piece \in Texts /\ Len(piece) \in Nat /\ a \in Nat /\ end \in Nat
        /\ Stands(text, piece, a) /\ end <= a /\ Letterless(text, end, a)
        /\ Past(pieces, at, k) = a + Len(piece)
    BY <1>2, <2>1
  <2>5. /\ start \in Nat /\ to \in Nat /\ Stands(text, piece, start + 1)
        /\ to + 1 <= a + Len(piece)
        /\ Letterless(text, to + 1, a + Len(piece))
        /\ Letters(piece) # {} => start + 1 = a
    <3> HIDE DEF acc, piece, a, end
    <3>1. QED
      BY <2>3, <2>4, FindsNext
  <2>6. p[k] = [chunks |-> Append(acc.chunks, c), cursor |-> Cursor(to, overlap)]
    BY <1>4 DEF Locate
  <2>7. p[k] \in Locators
    BY <1>4, <2>1
  <2>8. c \in Spans /\ Finds(c, text, piece, a)
    <3>1. c.text = piece /\ c.start = start /\ c.end = to
      OBVIOUS
    <3>2. c \in Spans
      BY <2>4, <2>5 DEF Spans
    <3> HIDE DEF c, start
    <3>3. QED
      BY <2>5, <3>1, <3>2 DEF Finds
  <2> HIDE DEF i, acc, piece, a, end, start, c
  <2>9. Cursor(to, overlap) = to
    <3> HIDE DEF to
    <3>1. QED
      BY <2>5 DEF Cursor, Larger
  <2>10. p[k].cursor = to /\ p[k].chunks = Append(acc.chunks, c)
    BY <2>6, <2>9
  <2>11. /\ Len(Append(acc.chunks, c)) = k /\ Append(acc.chunks, c)[k] = c
         /\ \A j \in 1..i : Append(acc.chunks, c)[j] = acc.chunks[j]
    BY <2>1, <2>3, <2>8
  <2>12. ASSUME NEW j \in 1..k PROVE Finds(Append(acc.chunks, c)[j], text, pieces[j], at[j])
    <3>1. CASE j = k
      BY <2>8, <2>11, <3>1 DEF piece, a
    <3>2. CASE j # k
      <4>1. j \in 1..i
        BY <2>1, <3>2
      <4>2. QED
        BY <2>3, <2>11, <4>1
    <3>3. QED
      BY <3>1, <3>2
  <2>13. Finding(p[k], k, text, pieces, at)
    <3> HIDE DEF to
    <3>1. QED
      BY <2>4, <2>5, <2>7, <2>10, <2>11, <2>12 DEF Finding
  <2>14. QED
    BY <1>5, <2>1, <2>7, <2>13
<1>8. p[n] \in G[n]
  BY <1>1, <1>6, <1>7, Walk
<1>9. Finding(p[n], n, text, pieces, at)
  <2>1. n \in 0..n
    BY <1>1
  <2>2. QED
    BY <1>5, <1>8, <2>1
<1>10. QED
  BY <1>4, <1>9 DEF Finding, Locators, n

(***************************************************************************)
(* str.strip.                                                              *)
(***************************************************************************)
(* All characters of a text are in another.                                *)
Within(piece, text) == \A i \in DOMAIN piece : \E j \in DOMAIN text : piece[i] = text[j]

(* Stripping leaves a text of the same characters, none longer, that       *)
(* stripping again does not change.                                        *)
LEMMA StripIs ==
  ASSUME NEW text \in Texts
  PROVE  /\ Strip(text) \in Texts /\ Len(Strip(text)) <= Len(text)
         /\ Within(Strip(text), text) /\ Strip(Strip(text)) = Strip(text)
<1> DEFINE ink == {n \in DOMAIN text : ~White(text[n])}
           s == Strip(text)
<1>1. Len(text) \in Nat /\ DOMAIN text = 1..Len(text)
  BY DEF Texts
<1>2. CASE ink = {}
  <2>1. Strip(text) = <<>>
    BY <1>2 DEF Strip
  <2>2. Strip(<<>>) = <<>>
    BY DEF Strip
  <2>3. QED
    BY <1>1, <2>1, <2>2 DEF Texts, Within
<1>3. CASE ink # {}
  <2> DEFINE a == Min(ink)
             b == Max(ink)
             l == b + 1 - a
  <2>1. /\ ink \in SUBSET (1..Len(text))
        /\ \A n \in ink : n \in 1..Len(text) /\ ~White(text[n])
    BY <1>1
  <2>2. Strip(text) = SubSeq(text, a, b)
    BY <1>3 DEF Strip
  <2> HIDE DEF ink
  <2>3. b \in ink /\ \A n \in ink : n <= b
    BY <1>1, <1>3, <2>1, LastPosition
  <2>4. a \in ink /\ \A n \in ink : a <= n
    <3>1. ink \in SUBSET Nat
      BY <2>1
    <3>2. \E m \in ink : \A n \in ink : m <= n
      BY <1>3, <3>1, LeastExists
    <3>3. QED
      BY <3>2 DEF Min
  <2> HIDE DEF a, b, s
  <2>5. /\ a \in Nat /\ b \in Nat /\ 1 <= a /\ a <= b /\ b <= Len(text) /\ l \in Nat
        /\ ~White(text[a]) /\ ~White(text[b])
    BY <2>1, <2>3, <2>4
  <2>6. s \in Texts /\ Len(s) = l /\ Stands(text, s, a)
    <3>1. a <= b + 1
      BY <2>5
    <3>2. QED
      BY <2>2, <2>5, <3>1, CutStands DEF s
  <2>7. /\ DOMAIN s = 1..l /\ \A i \in 1..l : s[i] = text[a + i - 1]
    BY <2>6 DEF Texts, Stands
  <2>8. Within(s, text)
    <3>1. \A i \in 1..l : a + i - 1 \in 1..Len(text)
      BY <1>1, <2>5
    <3>2. QED
      BY <1>1, <2>7, <3>1 DEF Within
  <2>9. Strip(s) = s
    <3> DEFINE ink2 == {n \in DOMAIN s : ~White(s[n])}
    <3>1. 1 \in 1..l /\ l \in 1..l /\ a + 1 - 1 = a /\ a + l - 1 = b
      BY <2>5
    <3>2. s[1] = text[a] /\ s[l] = text[b]
      BY <2>7, <3>1
    <3>3. /\ 1 \in ink2 /\ l \in ink2
          /\ \A n \in ink2 : n \in 1..l
      BY <2>5, <2>7, <3>1, <3>2
    <3>4. Strip(s) = IF ink2 = {} THEN <<>> ELSE SubSeq(s, Min(ink2), Max(ink2))
      BY DEF Strip
    <3> HIDE DEF ink2
    <3>5. ink2 \in SUBSET (1..l) /\ ink2 # {} /\ l \in Nat
      BY <2>5, <3>3
    <3>6. Max(ink2) = l
      <4>1. Max(ink2) \in ink2 /\ \A n \in ink2 : n <= Max(ink2)
        BY <3>5, LastPosition
      <4>2. Max(ink2) \in 1..l /\ l <= Max(ink2)
        BY <3>3, <4>1
      <4> HIDE DEF l
      <4>3. QED
        BY <3>5, <4>2
    <3>7. Min(ink2) = 1
      <4>1. \A n \in ink2 : 1 <= n
        BY <3>3
      <4>2. Min(ink2) \in ink2 /\ \A n \in ink2 : Min(ink2) <= n
        BY <3>3, <4>1 DEF Min
      <4>3. Min(ink2) \in 1..l /\ Min(ink2) <= 1
        BY <3>3, <4>2
      <4> HIDE DEF l
      <4>4. QED
        BY <3>5, <4>3
    <3>8. SubSeq(s, 1, l) = s
      BY <2>5, <2>6 DEF Texts
    <3>9. QED
      BY <3>4, <3>5, <3>6, <3>7, <3>8
  <2>10. l <= Len(text)
    BY <1>1, <2>5
  <2>11. QED
    BY <2>6, <2>8, <2>9, <2>10 DEF s
<1>4. QED
  BY <1>2, <1>3

LEMMA WithinWithin ==
  ASSUME NEW a, NEW b, NEW c, Within(a, b), Within(b, c)
  PROVE  Within(a, c)
BY DEF Within

(***************************************************************************)
(* What every chunker promises.                                            *)
(***************************************************************************)
(* A chunk says of a text's characters what its span says of them.         *)
Excerpt(text, size, c) ==
  /\ c \in Spans /\ c.end <= Len(text) /\ Len(c.text) <= size
  /\ Strip(Slice(text, c.start, c.end)) = Strip(c.text)
  /\ Within(c.text, text)

Excerpts(text, size, chunks) ==
  /\ chunks \in Seq(Spans)
  /\ \A k \in 1..Len(chunks) : Excerpt(text, size, chunks[k])
  /\ \A n \in Letters(text) : \E k \in 1..Len(chunks) :
       chunks[k].start < n /\ n <= chunks[k].end

(* What stands in a text is there, and all its characters are the text's.  *)
LEMMA StandsIsSlice ==
  ASSUME NEW text \in Texts, NEW piece \in Texts, NEW start \in Nat,
         Stands(text, piece, start + 1)
  PROVE  /\ Slice(text, start, start + Len(piece)) = piece
         /\ start + Len(piece) <= Len(text) /\ Within(piece, text)
<1> DEFINE l == Len(piece)
           n == Len(text)
           cut == SubSeq(text, start + 1, start + l)
<1>1. /\ l \in Nat /\ n \in Nat /\ DOMAIN piece = 1..l /\ DOMAIN text = 1..n
      /\ text \in Seq(Chars) /\ piece \in Seq(Chars)
  BY DEF Texts
<1>2. /\ start + 1 + l <= n + 1
      /\ \A i \in 1..l : piece[i] = text[start + 1 + i - 1]
  BY DEF Stands
<1>3. start + l <= n
  BY <1>1, <1>2
<1>4. cut \in Texts /\ Len(cut) = l /\ Stands(text, cut, start + 1)
  <2>1. /\ start + 1 \in Nat /\ start + l \in Nat /\ 1 <= start + 1
        /\ start + 1 <= (start + l) + 1 /\ (start + l) + 1 - (start + 1) = l
    <3>1. l \in Nat
      BY <1>1
    <3> HIDE DEF l, cut, n
    <3>2. QED
      BY <3>1
  <2>2. QED
    BY <1>3, <2>1, CutStands
<1> HIDE DEF cut
<1>5. \A i \in 1..l : cut[i] = piece[i]
  BY <1>2, <1>4 DEF Stands
<1>6. cut = piece
  <2>1. DOMAIN cut = 1..l /\ cut \in Seq(Chars)
    BY <1>4 DEF Texts
  <2> HIDE DEF l
  <2>2. cut = [i \in 1..l |-> cut[i]] /\ piece = [i \in 1..l |-> piece[i]]
    BY <1>1, <2>1
  <2>3. QED
    BY <1>5, <2>2
<1>7. \A i \in 1..l : start + 1 + i - 1 \in 1..n
  BY <1>1, <1>3
<1>8. Within(piece, text)
  BY <1>1, <1>2, <1>7 DEF Within
<1>9. QED
  BY <1>3, <1>6, <1>8 DEF Slice, cut

(* The chunks of pieces that fill a text.                                  *)
LEMMA LocatedExcerpts ==
  ASSUME NEW text \in Texts, NEW size, NEW pieces, NEW overlap \in Nat,
         Fills(text, 1, Len(text) + 1, size, pieces)
  PROVE  /\ Excerpts(text, size, Located(text, pieces, overlap))
         /\ Len(Located(text, pieces, overlap)) = Len(pieces)
<1> DEFINE chunks == Located(text, pieces, overlap)
           n == Len(pieces)
<1>1. PICK at : Placed(text, 1, Len(text) + 1, size, pieces, at)
  BY DEF Fills
<1>2. /\ chunks \in Seq(Spans) /\ Len(chunks) = n
      /\ \A i \in 1..n : Finds(chunks[i], text, pieces[i], at[i])
  BY <1>1, LocatedFinds
<1>3. /\ pieces \in Seq(Texts) /\ \A k \in 1..n : Len(pieces[k]) <= size
      /\ \A m \in Letters(text) : (1 <= m /\ m < Len(text) + 1) =>
           \E k \in 1..n : at[k] <= m /\ m < at[k] + Len(pieces[k])
  BY <1>1 DEF Placed
<1>4. \A k \in 1..n : at[k] \in Nat /\ pieces[k] \in Texts /\ Stands(text, pieces[k], at[k])
  BY <1>1, Gaps
<1> HIDE DEF chunks, n
<1>5. ASSUME NEW k \in 1..n PROVE Excerpt(text, size, chunks[k])
  <2> DEFINE c == chunks[k]
  <2>1. /\ c \in Spans /\ c.text = pieces[k] /\ c.end = c.start + Len(pieces[k])
        /\ Stands(text, pieces[k], c.start + 1) /\ Len(pieces[k]) <= size
        /\ pieces[k] \in Texts
    BY <1>2, <1>3, <1>4 DEF Finds
  <2> HIDE DEF c
  <2>2. c.start \in Nat
    BY <2>1 DEF Spans
  <2> DEFINE piece == pieces[k]
             s == c.start
  <2>5. piece \in Texts /\ s \in Nat /\ Stands(text, piece, s + 1) /\ c.end = s + Len(piece)
    BY <2>1, <2>2
  <2> HIDE DEF piece, s
  <2>6. /\ Slice(text, s, s + Len(piece)) = piece
        /\ s + Len(piece) <= Len(text) /\ Within(piece, text)
    BY <2>5, StandsIsSlice
  <2>3. /\ Slice(text, c.start, c.end) = pieces[k]
        /\ c.end <= Len(text) /\ Within(pieces[k], text)
    BY <2>5, <2>6 DEF piece, s
  <2>4. Excerpt(text, size, c)
    BY <2>1, <2>3 DEF Excerpt
  <2>7. QED
    BY <2>4 DEF c
<1>6. ASSUME NEW m \in Letters(text)
      PROVE  \E k \in 1..n : chunks[k].start < m /\ m <= chunks[k].end
  <2>1. m \in Nat /\ 1 <= m /\ m < Len(text) + 1
    BY LettersAreCharacters
  <2>2. PICK k \in 1..n : at[k] <= m /\ m < at[k] + Len(pieces[k])
    BY <1>3, <2>1
  <2> DEFINE c == chunks[k]
             a == at[k]
             piece == pieces[k]
             i == m - a + 1
  <2>3. /\ c \in Spans /\ c.end = c.start + Len(piece)
        /\ Letters(piece) # {} => c.start + 1 = a
        /\ a \in Nat /\ piece \in Texts /\ Len(piece) \in Nat /\ Stands(text, piece, a)
    <3>1. Finds(c, text, piece, a) /\ a \in Nat /\ piece \in Texts /\ Stands(text, piece, a)
      BY <1>2, <1>4
    <3> HIDE DEF c, a, piece
    <3>2. Len(piece) \in Nat
      BY <3>1 DEF Texts
    <3>3. QED
      BY <3>1, <3>2 DEF Finds
  <2> HIDE DEF c, a, piece
  <2>4. c.start \in Nat
    BY <2>3 DEF Spans
  <2>5. i \in 1..Len(piece) /\ a + i - 1 = m
    BY <2>1, <2>2, <2>3 DEF a, piece
  <2>6. i \in Letters(piece)
    <3> HIDE DEF i
    <3>1. QED
      BY <2>3, <2>5, LettersStand
  <2>7. c.start + 1 = a
    BY <2>3, <2>6
  <2>8. c.start < m /\ m <= c.end
    BY <2>1, <2>3, <2>4, <2>5, <2>7
  <2>9. QED
    BY <2>8 DEF c
<1>7. Excerpts(text, size, chunks)
  BY <1>2, <1>5, <1>6 DEF Excerpts
<1>8. QED
  BY <1>2, <1>7 DEF chunks, n

(* A step back from a multiple is one, unless it is the first.             *)
LEMMA StepBack ==
  ASSUME NEW s \in Nat, s >= 1, NEW n \in Nat, n % s = 0, n # 0
  PROVE  n - s \in Nat /\ (n - s) % s = 0
<1> DEFINE q == n \div s
<1>1. q \in Nat /\ n = s * q
  BY Euclid
<1> HIDE DEF q
<1>2. q # 0
  BY <1>1
<1>3. q - 1 \in Nat /\ n - s = s * (q - 1)
  BY <1>1, <1>2
<1> DEFINE r == q - 1
           m == s * r
<1>4. m \in Nat /\ m % s = 0
  <2>1. r \in Nat
    BY <1>3
  <2> HIDE DEF r
  <2>2. QED
    BY <2>1, Multiple
<1>5. QED
  BY <1>3, <1>4

(* A window is an excerpt.                                                 *)
LEMMA WindowIsExcerpt ==
  ASSUME NEW text \in Texts, NEW start \in Nat, start < Len(text), NEW size \in Nat
  PROVE  LET c == Window(text, start, size)
         IN /\ Excerpt(text, size, c) /\ c.start = start
            /\ c.end = Least(start + size, Len(text)) /\ c.text \in Texts
            /\ Len(c.text) = c.end - start /\ Stands(text, c.text, start + 1)
<1> DEFINE n == Len(text)
           end == Least(start + size, n)
           piece == Slice(text, start, end)
           c == Window(text, start, size)
<1>1. n \in Nat /\ start < n
  BY DEF Texts
<1>2. end \in Nat /\ start <= end /\ end <= n /\ end - start <= size
  <2> HIDE DEF n
  <2>1. QED
    BY <1>1 DEF Least
<1>3. c.text = piece /\ c.start = start /\ c.end = end
  BY DEF Window
<1>4. piece \in Texts /\ Len(piece) = end - start /\ Stands(text, piece, start + 1)
  <2> HIDE DEF end
  <2>1. start + 1 \in Nat /\ 1 <= start + 1 /\ start + 1 <= end + 1
        /\ end + 1 - (start + 1) = end - start
    BY <1>2
  <2>2. QED
    BY <1>2, <2>1, CutStands DEF Slice
<1>5. Within(piece, text)
  <2> HIDE DEF piece, end
  <2>1. QED
    BY <1>4, StandsIsSlice
<1>6. c \in Spans
  <2>1. c = [text |-> piece, start |-> start, end |-> end]
    BY DEF Window
  <2> HIDE DEF c, piece, end
  <2>2. QED
    BY <1>2, <1>4, <2>1 DEF Spans
<1>7. Slice(text, c.start, c.end) = piece
  <2>1. piece = Slice(text, start, end)
    OBVIOUS
  <2> HIDE DEF c, piece, end
  <2>2. QED
    BY <1>3, <2>1
<1> HIDE DEF c, piece, end, n
<1>8. Excerpt(text, size, c)
  BY <1>2, <1>3, <1>4, <1>5, <1>6, <1>7 DEF Excerpt, n
<1>9. c.text \in Texts /\ Len(c.text) = c.end - start /\ Stands(text, c.text, start + 1)
  BY <1>3, <1>4
<1>10. QED
  BY <1>3, <1>8, <1>9 DEF c, end, n

(* The window that a letter is in: the first that reaches it.              *)
LEMMA FirstToReach ==
  ASSUME NEW n \in Nat, NEW size \in Nat, 1 <= size, NEW overlap \in Nat,
         NEW m \in 1..n
  PROVE  \E s \in Starts(n, size, overlap) :
           s \in Nat /\ s < m /\ m <= s + size
<1> DEFINE step == Larger(size - overlap, 1)
           S == {s \in Nat : s % step = 0 /\ m <= s + size}
<1>1. step \in Nat /\ 1 <= step /\ step <= size
  BY DEF Larger
<1> HIDE DEF step
<1>2. m - 1 \in Nat /\ m \in Nat /\ 1 <= m /\ m <= n
  OBVIOUS
<1>3. PICK t \in Nat : t % step = 0 /\ t <= m - 1 /\ m - 1 < t + step
  BY <1>1, <1>2, StepBelow
<1>4. t \in S
  BY <1>1, <1>2, <1>3
<1>5. S \in SUBSET Nat /\ \A s \in S : s % step = 0 /\ m <= s + size
  OBVIOUS
<1>6. \A s \in Nat : s % step = 0 /\ m <= s + size => s \in S
  OBVIOUS
<1> HIDE DEF S
<1>7. PICK s \in S : \A r \in S : s <= r
  BY <1>4, <1>5, LeastExists
<1>8. s \in Nat /\ s % step = 0 /\ m <= s + size /\ s <= m - 1
  BY <1>2, <1>3, <1>4, <1>5, <1>7
<1>9. s = 0 \/ s - step + size < n
  <2> SUFFICES ASSUME s # 0 PROVE s - step + size < n
    OBVIOUS
  <2> DEFINE r == s - step
  <2>1. r \in Nat /\ r % step = 0
    BY <1>1, <1>8, StepBack
  <2>2. r < s
    BY <1>1, <1>8
  <2> HIDE DEF r
  <2>3. r \notin S
    BY <1>7, <1>8, <2>1, <2>2
  <2>4. ~(m <= r + size)
    BY <1>6, <2>1, <2>3
  <2>5. r + size < n
    BY <1>2, <2>1, <2>4
  <2>6. QED
    BY <2>5 DEF r
<1>10. s \in Steps(n, step)
  <2>1. s \in 0..n - 1
    BY <1>2, <1>8
  <2>2. QED
    BY <1>8, <2>1 DEF Steps
<1>11. s \in Starts(n, size, overlap)
  BY <1>9, <1>10 DEF Starts, step
<1>12. s < m
  BY <1>2, <1>8
<1>13. QED
  BY <1>8, <1>11, <1>12

(* chunking/fixed.py                                                       *)
LEMMA FixedExcerpts ==
  ASSUME NEW text \in Texts, NEW size \in Nat, 1 <= size, NEW overlap \in Nat
  PROVE  Excerpts(text, size, FixedChunker(text, size, overlap))
<1> DEFINE n == Len(text)
           windows == [k \in DOMAIN text |-> Window(text, k - 1, size)]
           at == {k \in DOMAIN text : /\ k - 1 \in Starts(n, size, overlap)
                                      /\ ~Blank(windows[k].text)}
           chunks == Picked(windows, at)
<1>1. n \in Nat /\ DOMAIN text = 1..n
  BY DEF Texts
<1>2. FixedChunker(text, size, overlap) = chunks
  BY DEF FixedChunker
<1>3. \A k \in 1..n : windows[k] = Window(text, k - 1, size)
  BY <1>1
<1>4. \A k \in 1..n : k \in at <=> /\ k - 1 \in Starts(n, size, overlap)
                                   /\ ~Blank(windows[k].text)
  BY <1>1
<1>5. ASSUME NEW k \in 1..n
      PROVE  LET c == windows[k]
             IN /\ Excerpt(text, size, c) /\ c.start = k - 1
                /\ c.end = Least(k - 1 + size, n) /\ c.text \in Texts
                /\ Len(c.text) = c.end - (k - 1) /\ Stands(text, c.text, k)
  <2> DEFINE s == k - 1
             c == Window(text, s, size)
  <2>1. s \in Nat /\ s < n /\ s + 1 = k
    BY <1>1
  <2>2. windows[k] = c
    BY <1>3
  <2> HIDE DEF s, windows
  <2>3. /\ Excerpt(text, size, c) /\ c.start = s
        /\ c.end = Least(s + size, n) /\ c.text \in Texts
        /\ Len(c.text) = c.end - s /\ Stands(text, c.text, s + 1)
    BY <2>1, WindowIsExcerpt
  <2> HIDE DEF c
  <2>4. QED
    BY <2>1, <2>2, <2>3 DEF s
<1>6. windows \in Seq(Spans) /\ Len(windows) = n
  <2>1. \A k \in 1..n : windows[k] \in Spans
    BY <1>5 DEF Excerpt
  <2>2. windows = [k \in 1..n |-> windows[k]]
    BY <1>1
  <2> HIDE DEF windows, n
  <2>3. windows \in [1..n -> Spans]
    BY <2>1, <2>2
  <2>4. QED
    BY <1>1, <2>3
<1> HIDE DEF windows, at
<1>7. /\ chunks \in Seq(Spans)
      /\ \A k \in 1..Len(chunks) : \E j \in 1..n : chunks[k] = windows[j]
      /\ \A j \in 1..n : j \in at => \E k \in 1..Len(chunks) : chunks[k] = windows[j]
  <2>1. /\ chunks \in Seq(Spans)
        /\ \A k \in 1..Len(chunks) : \E j \in 1..Len(windows) : j \in at /\ chunks[k] = windows[j]
        /\ \A j \in 1..Len(windows) : j \in at => \E k \in 1..Len(chunks) : chunks[k] = windows[j]
    BY <1>6, PickedIs
  <2>2. QED
    BY <1>6, <2>1
<1> HIDE DEF chunks
<1>8. \A k \in 1..Len(chunks) : Excerpt(text, size, chunks[k])
  BY <1>5, <1>7
<1>9. ASSUME NEW m \in Letters(text)
      PROVE  \E k \in 1..Len(chunks) : chunks[k].start < m /\ m <= chunks[k].end
  <2>1. m \in 1..n
    BY LettersAreCharacters
  <2>2. PICK s \in Starts(n, size, overlap) : s \in Nat /\ s < m /\ m <= s + size
    BY <1>1, <2>1, FirstToReach
  <2> DEFINE j == s + 1
             c == windows[j]
             i == m - s
  <2>3. j \in 1..n /\ j - 1 = s /\ j \in Nat
    BY <1>1, <2>1, <2>2
  <2>4. /\ c.start = s /\ c.end = Least(s + size, n) /\ c.text \in Texts
        /\ Len(c.text) = c.end - s /\ Stands(text, c.text, j)
    <3> HIDE DEF j
    <3>1. QED
      BY <1>5, <2>3
  <2> HIDE DEF c
  <2>5. c.start < m /\ m <= c.end /\ i \in 1..Len(c.text) /\ j + i - 1 = m
    <3>1. c.end \in Nat /\ m <= c.end
      BY <1>1, <2>1, <2>2, <2>4 DEF Least
    <3>2. QED
      BY <1>1, <2>1, <2>2, <2>4, <3>1
  <2>6. i \in Letters(c.text)
    <3> HIDE DEF i, j
    <3>1. QED
      BY <2>4, <2>5, LettersStand
  <2>7. ~Blank(c.text)
    BY <2>6 DEF Letters, Blank
  <2>8. j \in at
    <3> HIDE DEF j
    <3>1. QED
      BY <1>4, <2>2, <2>3, <2>7 DEF c
  <2>9. PICK k \in 1..Len(chunks) : chunks[k] = windows[j]
    <3> HIDE DEF j
    <3>1. QED
      BY <1>7, <2>3, <2>8
  <2>10. QED
    BY <2>5, <2>9 DEF c
<1>10. QED
  BY <1>2, <1>7, <1>8, <1>9 DEF Excerpts, chunks

(* chunking/recursive.py                                                   *)
LEMMA RecursiveExcerpts ==
  ASSUME NEW text \in Texts, NEW size \in Nat, 1 <= size, NEW overlap \in Nat
  PROVE  Excerpts(text, size, RecursiveChunker(text, size, overlap))
<1>1. CASE text = <<>>
  <2>1. RecursiveChunker(text, size, overlap) = <<>> /\ Letters(text) = {}
    BY <1>1 DEF RecursiveChunker, Letters
  <2>2. QED
    BY <2>1 DEF Excerpts
<1>2. CASE text # <<>>
  <2>1. RecursiveChunker(text, size, overlap)
          = Located(text, split_text(text, size), overlap)
    BY <1>2 DEF RecursiveChunker
  <2>2. QED
    BY <2>1, SplitFills, LocatedExcerpts
<1>3. QED
  BY <1>1, <1>2

(* An excerpt whose text is stripped is one.                               *)
LEMMA StrippedExcerpt ==
  ASSUME NEW text \in Texts, NEW size \in Nat, NEW c, Excerpt(text, size, c)
  PROVE  LET d == [c EXCEPT !.text = Strip(@)]
         IN Excerpt(text, size, d) /\ d.start = c.start /\ d.end = c.end
<1> DEFINE t == Strip(c.text)
           d == [c EXCEPT !.text = Strip(@)]
<1>1. c \in Spans /\ c.text \in Texts
  BY DEF Excerpt, Spans
<1>2. /\ t \in Texts /\ Len(t) <= Len(c.text) /\ Within(t, c.text) /\ Strip(t) = t
  BY <1>1, StripIs
<1>3. Len(t) <= size
  <2>1. Len(t) \in Nat /\ Len(c.text) \in Nat /\ Len(c.text) <= size
    BY <1>1, <1>2 DEF Texts, Excerpt
  <2>2. QED
    BY <1>2, <2>1
<1>4. d.text = t /\ d.start = c.start /\ d.end = c.end
  BY <1>1 DEF Spans
<1>5. d \in Spans
  <2> HIDE DEF t
  <2>1. d = [c EXCEPT !.text = t]
    BY DEF t
  <2>2. QED
    BY <1>1, <1>2, <2>1 DEF Spans
<1> HIDE DEF d, t
<1>6. Within(t, text)
  BY <1>2, WithinWithin DEF Excerpt
<1>7. Strip(Slice(text, c.start, c.end)) = Strip(t)
  BY <1>2 DEF Excerpt, t
<1>8. Excerpt(text, size, d)
  BY <1>3, <1>4, <1>5, <1>6, <1>7 DEF Excerpt
<1>9. QED
  BY <1>4, <1>8 DEF d

(* chunking/markdown_aware.py                                              *)
LEMMA MarkdownExcerpts ==
  ASSUME NEW text \in Texts, NEW size \in Nat, 1 <= size, NEW overlap \in Nat
  PROVE  Excerpts(text, size, MarkdownAwareChunker(text, size, overlap))
<1> DEFINE secs == Sections(text)
           deeper == [k \in DOMAIN secs |->
                        IF Len(secs[k]) <= size THEN <<secs[k]>>
                                                ELSE split_text(secs[k], size)]
           pieces == FlattenSeq(deeper)
           found == Located(text, pieces, 0)
           chunks == [k \in DOMAIN pieces |-> [found[k] EXCEPT !.text = Strip(@)]]
<1>1. MarkdownAwareChunker(text, size, overlap) =
        IF text = <<>> THEN <<>>
        ELSE IF secs = <<>> THEN RecursiveChunker(text, size, overlap) ELSE chunks
  BY DEF MarkdownAwareChunker
<1>2. Fills(text, 1, Len(text) + 1, Len(text), secs)
  BY SectionsFill
<1>3. secs \in Seq(Texts) /\ Len(secs) \in Nat /\ DOMAIN secs = 1..Len(secs)
  BY <1>2 DEF Fills, Placed
<1>4. \A k \in 1..Len(secs) :
        secs[k] \in Texts /\ deeper[k] = IF Len(secs[k]) <= size THEN <<secs[k]>>
                                         ELSE split_text(secs[k], size)
  BY <1>3
<1>5. DOMAIN deeper = 1..Len(secs) /\ deeper = [k \in 1..Len(secs) |-> deeper[k]]
  BY <1>3
<1> HIDE DEF secs, deeper
<1>6. ASSUME NEW k \in 1..Len(secs)
      PROVE  Fills(secs[k], 1, Len(secs[k]) + 1, size, deeper[k])
  <2> DEFINE sec == secs[k]
             l == Len(sec)
  <2>1. sec \in Texts /\ l \in Nat
    <3>1. sec \in Texts
      BY <1>4
    <3> HIDE DEF sec
    <3>2. QED
      BY <3>1 DEF Texts
  <2>2. deeper[k] = IF l <= size THEN <<sec>> ELSE split_text(sec, size)
    BY <1>4
  <2> HIDE DEF sec
  <2>3. Stands(sec, sec, 1)
    BY <2>1 DEF Stands
  <2>4. CASE l <= size
    <3>1. Fills(sec, 1, 1 + l, size, <<sec>>)
      BY <2>1, <2>3, <2>4, FillsOne
    <3>2. 1 + l = l + 1
      BY <2>1
    <3>3. QED
      BY <2>2, <2>4, <3>1, <3>2 DEF sec
  <2>5. CASE ~(l <= size)
    BY <2>1, <2>2, <2>5, SplitFills DEF sec
  <2>6. QED
    BY <2>4, <2>5
<1>7. \A k \in 1..Len(secs) : deeper[k] \in Seq(Texts)
  BY <1>6 DEF Fills, Placed
<1>8. deeper \in Seq(Seq(Texts)) /\ Len(deeper) = Len(secs)
  <2> DEFINE V == Seq(Texts)
             n == Len(secs)
  <2>1. deeper \in [1..n -> V] /\ n \in Nat
    BY <1>3, <1>5, <1>7
  <2> HIDE DEF V, n
  <2>2. deeper \in Seq(V) /\ Len(deeper) = n
    BY <2>1
  <2>3. QED
    BY <2>2 DEF V, n
<1>9. Fills(text, 1, Len(text) + 1, size, pieces)
  <2> HIDE DEF pieces
  <2>1. Fills(text, 1, Len(text) + 1, size, FlattenSeq(deeper))
    BY <1>2, <1>6, <1>8, RefinedFills
  <2>2. QED
    BY <2>1 DEF pieces
<1> HIDE DEF pieces
<1>10. Excerpts(text, size, found) /\ Len(found) = Len(pieces)
  BY <1>9, LocatedExcerpts
<1>11. DOMAIN pieces = 1..Len(pieces) /\ Len(pieces) \in Nat
  BY <1>9 DEF Fills, Placed
<1>12. \A k \in 1..Len(pieces) : chunks[k] = [found[k] EXCEPT !.text = Strip(@)]
  BY <1>11
<1>13. chunks = [k \in 1..Len(pieces) |-> chunks[k]]
  BY <1>11
<1> HIDE DEF chunks, found
<1>14. ASSUME NEW k \in 1..Len(pieces)
       PROVE  Excerpt(text, size, chunks[k]) /\ chunks[k].start = found[k].start
              /\ chunks[k].end = found[k].end
  <2>1. Excerpt(text, size, found[k])
    BY <1>10, <1>11 DEF Excerpts
  <2> DEFINE c == found[k]
  <2>2. chunks[k] = [c EXCEPT !.text = Strip(@)]
    BY <1>12
  <2> HIDE DEF c
  <2>3. LET d == [c EXCEPT !.text = Strip(@)]
        IN Excerpt(text, size, d) /\ d.start = c.start /\ d.end = c.end
    BY <2>1, StrippedExcerpt DEF c
  <2>4. QED
    BY <2>2, <2>3 DEF c
<1>15. chunks \in Seq(Spans) /\ Len(chunks) = Len(pieces)
  <2> DEFINE n == Len(pieces)
  <2>1. \A k \in 1..n : chunks[k] \in Spans
    BY <1>14 DEF Excerpt
  <2>2. chunks \in [1..n -> Spans] /\ n \in Nat
    BY <1>11, <1>13, <2>1
  <2> HIDE DEF n
  <2>3. chunks \in Seq(Spans) /\ Len(chunks) = n
    BY <2>2
  <2>4. QED
    BY <2>3 DEF n
<1>16. Excerpts(text, size, chunks)
  BY <1>10, <1>14, <1>15 DEF Excerpts
<1>17. CASE text = <<>>
  <2>1. Letters(text) = {}
    BY <1>17 DEF Letters
  <2>2. QED
    BY <1>1, <1>17, <2>1 DEF Excerpts
<1>18. QED
  BY <1>1, <1>16, <1>17, RecursiveExcerpts

(* Whatever chunker the configuration or the document's type chooses,      *)
(* unless the configuration is refused, every chunk is what its span says  *)
(* of the text, of no more than size characters, none of them another's,   *)
(* and every letter of the text is in a chunk (chunking/*.py).             *)
THEOREM ChunkersFit ==
  ASSUME NEW text \in Texts, NEW mime, NEW config,
         config.size \in Nat, config.overlap \in Nat, ~Rejected(config)
  PROVE  Excerpts(text, config.size, chunk_document(text, mime, config))
<1> DEFINE size == config.size
           overlap == config.overlap
           strategy == strategy_of(config, mime)
<1>1. size \in Nat /\ overlap \in Nat /\ 1 <= size
  BY DEF Rejected
<1>2. chunk_document(text, mime, config)
        \in {FixedChunker(text, size, overlap), MarkdownAwareChunker(text, size, overlap),
             SemanticChunker(text, size, overlap), RecursiveChunker(text, size, overlap)}
  <2> HIDE DEF size, overlap
  <2>1. chunk_document(text, mime, config) =
          CASE strategy = "fixed" -> FixedChunker(text, size, overlap)
            [] strategy = "markdown_aware" -> MarkdownAwareChunker(text, size, overlap)
            [] strategy = "semantic" -> SemanticChunker(text, size, overlap)
            [] OTHER -> RecursiveChunker(text, size, overlap)
    BY DEF chunk_document, size, overlap
  <2> HIDE DEF strategy
  <2>2. QED
    BY <2>1
<1> HIDE DEF size, overlap
<1>3. SemanticChunker(text, size, overlap) = RecursiveChunker(text, size, overlap)
  BY DEF SemanticChunker
<1>4. QED
  BY <1>1, <1>2, <1>3, FixedExcerpts, MarkdownExcerpts, RecursiveExcerpts DEF size
=============================================================================
