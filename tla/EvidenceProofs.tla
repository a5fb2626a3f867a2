--------------------------- MODULE EvidenceProofs ---------------------------
(***************************************************************************)
(* Proofs about Access, LexicalIndex, Retrieval, Grounding and             *)
(* AgentEvidence: the stores, what the pipeline makes of a request, and    *)
(* requests of the pipeline and searches of agent turns, one after         *)
(* another, over stores that are being written.  They hold for every       *)
(* corpus, batch, caller, query, number of query variants and planner, and *)
(* whatever the models write.                                              *)
(***************************************************************************)
EXTENDS AgentEvidence, FoldLemmas

(***************************************************************************)
(* Citations are collected by a fold: each marker adds what it hits,       *)
(* unless that is cited already.                                           *)
(***************************************************************************)
Collecting(f, n, hit) ==
  f = [s \in SUBSET (1..n) |->
         IF s = {} THEN <<>>
         ELSE IF ToSet(hit[Max(s)]) \subseteq ToSet(f[s \ {Max(s)}])
              THEN f[s \ {Max(s)}]
              ELSE f[s \ {Max(s)}] \o hit[Max(s)]]

(* A marker hits one ref of R, or none.                                    *)
Hitting(n, R, hit) ==
  /\ hit \in [1..n -> Seq(R)]
  /\ \A k \in 1..n : hit[k] = <<>> \/ \E r \in R : hit[k] = <<r>>

LEMMA CollectionExists ==
  ASSUME NEW n \in Nat, NEW R, NEW hit, Hitting(n, R, hit)
  PROVE  \E f : Collecting(f, n, hit)
<1> DEFINE V == Seq(R)
           step == [k \in 1..n |-> [c \in V |->
                      IF ToSet(hit[k]) \subseteq ToSet(c) THEN c ELSE c \o hit[k]]]
<1>1. <<>> \in V /\ step \in [1..n -> [V -> V]]
  BY DEF Hitting
<1>2. \A k \in 1..n : \A c \in V :
        step[k][c] = IF ToSet(hit[k]) \subseteq ToSet(c) THEN c ELSE c \o hit[k]
  OBVIOUS
<1> HIDE DEF V, step
<1>3. PICK f \in [SUBSET (1..n) -> V] : Folding(f, n, <<>>, step)
  BY <1>1, FoldExists
<1>4. ASSUME NEW s \in SUBSET (1..n)
      PROVE  f[s] = IF s = {} THEN <<>>
                    ELSE IF ToSet(hit[Max(s)]) \subseteq ToSet(f[s \ {Max(s)}])
                         THEN f[s \ {Max(s)}]
                         ELSE f[s \ {Max(s)}] \o hit[Max(s)]
  <2>1. f[s] = IF s = {} THEN <<>> ELSE step[Max(s)][f[s \ {Max(s)}]]
    BY <1>3 DEF Folding
  <2>2. s # {} => Max(s) \in 1..n
    BY LastPosition
  <2>3. s \ {Max(s)} \in SUBSET (1..n)
    OBVIOUS
  <2>4. f[s \ {Max(s)}] \in V
    BY <1>3, <2>3
  <2>5. QED
    BY <1>2, <2>1, <2>2, <2>4
<1>5. Collecting(f, n, hit)
  BY <1>3, <1>4 DEF Collecting
<1>6. QED
  BY <1>5

(* What is collected is what the markers hit, each once.                   *)
LEMMA CollectionIsExact ==
  ASSUME NEW n \in Nat, NEW R, NEW hit, Hitting(n, R, hit),
         NEW f, Collecting(f, n, hit)
  PROVE  /\ f[1..n] \in Seq(R)
         /\ ToSet(f[1..n]) = UNION {ToSet(hit[k]) : k \in 1..n}
         /\ Cardinality(ToSet(f[1..n])) = Len(f[1..n])
<1> DEFINE Good(k) == /\ f[1..k] \in Seq(R)
                      /\ ToSet(f[1..k]) = UNION {ToSet(hit[j]) : j \in 1..k}
                      /\ IsFiniteSet(ToSet(f[1..k]))
                      /\ Cardinality(ToSet(f[1..k])) = Len(f[1..k])
           S == {k \in Nat : k <= n => Good(k)}
<1>0. /\ hit \in [1..n -> Seq(R)]
      /\ \A k \in 1..n : hit[k] = <<>> \/ \E r \in R : hit[k] = <<r>>
  BY DEF Hitting
<1>1. Good(0)
  <2>1. 1..0 \in SUBSET (1..n) /\ 1..0 = {}
    OBVIOUS
  <2>2. f[1..0] = <<>>
    BY <2>1 DEF Collecting
  <2>3. ToSet(<<>>) = {}
    BY DEF ToSet
  <2>4. IsFiniteSet({}) /\ Cardinality({}) = 0
    BY FS_EmptySet
  <2>5. UNION {ToSet(hit[j]) : j \in 1..0} = {}
    BY <2>1
  <2>6. <<>> \in Seq(R) /\ Len(<<>>) = 0
    OBVIOUS
  <2>7. QED
    BY <2>2, <2>3, <2>4, <2>5, <2>6
<1>2. ASSUME NEW k \in Nat, k + 1 <= n, Good(k) PROVE Good(k + 1)
  <2> DEFINE c == f[1..k]
             h == hit[k + 1]
             d == f[1..(k + 1)]
  <2>1. k + 1 \in 1..n /\ (k + 1) - 1 = k
    <3> HIDE DEF Good
    <3>1. QED
      BY <1>2
  <2>2. /\ 1..(k + 1) \in SUBSET (1..n) /\ 1..(k + 1) # {} /\ Max(1..(k + 1)) = k + 1
        /\ (1..(k + 1)) \ {k + 1} = 1..k
    BY <2>1, PrefixEnds
  <2>3. d = IF ToSet(h) \subseteq ToSet(c) THEN c ELSE c \o h
    <3>1. d = IF 1..(k + 1) = {} THEN <<>>
              ELSE IF ToSet(hit[Max(1..(k + 1))]) \subseteq ToSet(f[(1..(k + 1)) \ {Max(1..(k + 1))}])
              THEN f[(1..(k + 1)) \ {Max(1..(k + 1))}]
              ELSE f[(1..(k + 1)) \ {Max(1..(k + 1))}] \o hit[Max(1..(k + 1))]
      BY <2>2 DEF Collecting
    <3>2. QED
      BY <2>2, <3>1
  <2>4. /\ c \in Seq(R) /\ IsFiniteSet(ToSet(c)) /\ Cardinality(ToSet(c)) = Len(c)
        /\ ToSet(c) = UNION {ToSet(hit[j]) : j \in 1..k}
    BY <1>2
  <2>5. UNION {ToSet(hit[j]) : j \in 1..(k + 1)}
          = (UNION {ToSet(hit[j]) : j \in 1..k}) \cup ToSet(h)
    <3>1. 1..(k + 1) = (1..k) \cup {k + 1}
      OBVIOUS
    <3> DEFINE last == k + 1
               T(j) == ToSet(hit[j])
    <3> HIDE DEF last, T
    <3>2. 1..last = (1..k) \cup {last}
      BY <3>1 DEF last
    <3>3. UNION {T(j) : j \in 1..last} = (UNION {T(j) : j \in 1..k}) \cup T(last)
      BY <3>2, Zenon
    <3>4. QED
      BY <3>3 DEF last, T
  <2> HIDE DEF c, d
  <2>6. CASE ToSet(h) \subseteq ToSet(c)
    <3>1. d = c
      BY <2>3, <2>6
    <3>2. ToSet(d) = UNION {ToSet(hit[j]) : j \in 1..(k + 1)}
      BY <2>4, <2>5, <2>6, <3>1
    <3>3. QED
      BY <2>4, <3>1, <3>2 DEF d
  <2>7. CASE ~(ToSet(h) \subseteq ToSet(c))
    <3>1. PICK r \in R : h = <<r>>
      <4>1. ToSet(<<>>) = {}
        BY DEF ToSet
      <4>2. QED
        BY <1>0, <2>1, <2>7, <4>1
    <3>2. d = c \o <<r>> /\ ToSet(h) = {r}
      BY <2>3, <2>7, <3>1 DEF ToSet
    <3>3. /\ d \in Seq(R) /\ Len(d) = Len(c) + 1
          /\ ToSet(d) = ToSet(c) \cup {r}
      <4>1. /\ d \in Seq(R) /\ Len(d) = Len(c) + 1 /\ DOMAIN d = 1..(Len(c) + 1)
            /\ DOMAIN c = 1..Len(c) /\ Len(c) \in Nat
            /\ d[Len(c) + 1] = r
            /\ \A j \in 1..Len(c) : d[j] = c[j]
        BY <2>4, <3>2
      <4>2. 1..(Len(c) + 1) = (1..Len(c)) \cup {Len(c) + 1}
        BY <4>1
      <4>3. QED
        BY <4>1, <4>2 DEF ToSet
    <3>4. r \notin ToSet(c)
      BY <2>7, <3>2
    <3>5. /\ IsFiniteSet(ToSet(c) \cup {r})
          /\ Cardinality(ToSet(c) \cup {r}) = Cardinality(ToSet(c)) + 1
      BY <2>4, <3>4, FS_AddElement
    <3>6. ToSet(d) = UNION {ToSet(hit[j]) : j \in 1..(k + 1)}
      BY <2>4, <2>5, <3>2, <3>3
    <3>7. QED
      BY <2>4, <3>3, <3>5, <3>6 DEF d
  <2>8. QED
    BY <2>6, <2>7
<1> HIDE DEF Good
<1>3. 0 \in S
  BY <1>1
<1>4. ASSUME NEW k \in S PROVE k + 1 \in S
  BY <1>2
<1>5. n \in S
  <2>1. S \in SUBSET Nat
    OBVIOUS
  <2> HIDE DEF S
  <2>2. QED
    BY <1>3, <1>4, <2>1, Induction
<1>6. QED
  BY <1>5 DEF Good

(***************************************************************************)
(* Sums.  MapThenSumSet takes one member after another out of a set: a     *)
(* recursion over sets D, whose size the next one, rest[s], is below.      *)
(***************************************************************************)
Shrinking(D, n, size, rest) ==
  /\ \A s \in D : size[s] \in 0..n
  /\ \A s \in D : size[s] # 0 => rest[s] \in D /\ size[rest[s]] < size[s]

(* f[s] is the sum of the terms from s on.                                 *)
Summed(f, D, size, rest, term) ==
  \A s \in D : f[s] = IF size[s] = 0 THEN 0 ELSE term[s] + f[rest[s]]

LEMMA SummedExists ==
  ASSUME NEW n \in Nat, NEW D, NEW size, NEW rest, NEW term \in [D -> Nat],
         Shrinking(D, n, size, rest)
  PROVE  \E f \in [D -> Nat] : Summed(f, D, size, rest, term)
<1> DEFINE Next1(f) == [s \in D |-> IF size[s] = 0 THEN 0 ELSE term[s] + f[rest[s]]]
           Sums(f, k) == \A s \in D : size[s] <= k => f[s] = Next1(f)[s]
           Reached == {k \in Nat : \E f \in [D -> Nat] : Sums(f, k)}
<1>1. ASSUME NEW f \in [D -> Nat] PROVE Next1(f) \in [D -> Nat]
  <2>1. ASSUME NEW s \in D PROVE Next1(f)[s] \in Nat
    BY DEF Shrinking
  <2>2. QED
    BY <2>1
<1>2. 0 \in Reached
  <2> DEFINE f == [s \in D |-> 0]
  <2>1. f \in [D -> Nat]
    OBVIOUS
  <2>2. ASSUME NEW s \in D, size[s] <= 0 PROVE f[s] = Next1(f)[s]
    BY <2>2 DEF Shrinking
  <2> HIDE DEF f
  <2>3. Sums(f, 0)
    BY <2>2
  <2> HIDE DEF Sums
  <2>4. QED
    BY <2>1, <2>3
<1>3. ASSUME NEW k \in Reached PROVE k + 1 \in Reached
  <2>1. k \in Nat /\ k + 1 \in Nat
    OBVIOUS
  <2>2. PICK f \in [D -> Nat] : Sums(f, k)
    <3> HIDE DEF Sums
    <3>1. QED
      OBVIOUS
  <2> DEFINE g == Next1(f)
  <2>3. \A s \in D : size[s] <= k => g[s] = f[s]
    BY <2>2
  <2>4. ASSUME NEW s \in D, size[s] <= k + 1 PROVE g[s] = Next1(g)[s]
    <3>1. CASE size[s] = 0
      BY <3>1
    <3>2. CASE size[s] # 0
      <4>1. rest[s] \in D /\ size[rest[s]] <= k
        BY <2>1, <2>4, <3>2 DEF Shrinking
      <4>2. g[rest[s]] = f[rest[s]]
        BY <2>3, <4>1
      <4>3. QED
        BY <3>2, <4>2
    <3>3. QED
      BY <3>1, <3>2
  <2>5. g \in [D -> Nat]
    BY <1>1
  <2> HIDE DEF g
  <2>6. Sums(g, k + 1)
    BY <2>4
  <2> HIDE DEF Sums
  <2>7. QED
    BY <2>1, <2>5, <2>6
<1>4. n \in Reached
  <2>1. Reached \in SUBSET Nat
    OBVIOUS
  <2> HIDE DEF Reached
  <2>2. QED
    BY <1>2, <1>3, <2>1, Induction
<1>5. PICK f \in [D -> Nat] : Sums(f, n)
  <2> HIDE DEF Sums
  <2>1. QED
    BY <1>4
<1>6. Summed(f, D, size, rest, term)
  BY <1>5 DEF Shrinking, Summed
<1>7. QED
  BY <1>6

(* A sum of greater terms is no smaller.                                   *)
LEMMA SummedGrows ==
  ASSUME NEW n \in Nat, NEW D, NEW size, NEW rest,
         NEW v \in [D -> Nat], NEW w \in [D -> Nat], \A s \in D : v[s] >= w[s],
         Shrinking(D, n, size, rest),
         NEW f, NEW g, Summed(f, D, size, rest, v), Summed(g, D, size, rest, w)
  PROVE  \A s \in D : f[s] \in Nat /\ g[s] \in Nat /\ f[s] >= g[s]
<1> DEFINE Fine(s) == f[s] \in Nat /\ g[s] \in Nat /\ f[s] >= g[s]
           Reached == {k \in Nat : \A s \in D : size[s] <= k => Fine(s)}
<1>1. 0 \in Reached
  BY DEF Shrinking, Summed
<1>2. ASSUME NEW k \in Reached PROVE k + 1 \in Reached
  <2>1. ASSUME NEW s \in D, size[s] <= k + 1 PROVE Fine(s)
    <3>1. CASE size[s] = 0
      BY <3>1 DEF Summed
    <3>2. CASE size[s] # 0
      <4>1. rest[s] \in D /\ size[rest[s]] <= k
        BY <2>1, <3>2 DEF Shrinking
      <4>2. Fine(rest[s])
        BY <4>1
      <4>3. f[s] = v[s] + f[rest[s]] /\ g[s] = w[s] + g[rest[s]]
        BY <3>2 DEF Summed
      <4>4. QED
        BY <4>2, <4>3
    <3>3. QED
      BY <3>1, <3>2
  <2> HIDE DEF Fine
  <2>2. QED
    BY <2>1
<1>3. n \in Reached
  <2>1. Reached \in SUBSET Nat
    OBVIOUS
  <2> HIDE DEF Reached
  <2>2. QED
    BY <1>1, <1>2, <2>1, Induction
<1>4. QED
  BY <1>3 DEF Shrinking

(* The sums MapThenSumSet makes of subsets of 1..n.                        *)
AnyOf(s) == CHOOSE x \in s : TRUE
SizeOf(n) == [s \in SUBSET (1..n) |-> Cardinality(s)]
RestOf(n) == [s \in SUBSET (1..n) |-> s \ {AnyOf(s)}]
TermOf(n, w) == [s \in SUBSET (1..n) |-> IF s = {} THEN 0 ELSE w[AnyOf(s)]]

Summing(f, S, w) ==
  f = [s \in SUBSET S |->
         IF s = {} THEN 0 ELSE w[AnyOf(s)] + f[s \ {AnyOf(s)}]]

LEMMA OneLess ==
  ASSUME NEW n \in Nat, NEW s \in SUBSET (1..n)
  PROVE  /\ Cardinality(s) \in 0..n
         /\ s = {} <=> Cardinality(s) = 0
         /\ s # {} => /\ AnyOf(s) \in 1..n
                      /\ s \ {AnyOf(s)} \in SUBSET (1..n)
                      /\ Cardinality(s \ {AnyOf(s)}) < Cardinality(s)
<1>1. IsFiniteSet(1..n) /\ Cardinality(1..n) = n
  BY FS_Interval
<1>2. IsFiniteSet(s) /\ Cardinality(s) \in Nat /\ Cardinality(s) <= n
  BY <1>1, FS_Subset, FS_CardinalityType
<1>3. s = {} <=> Cardinality(s) = 0
  BY <1>2, FS_EmptySet
<1>4. ASSUME s # {}
      PROVE  /\ AnyOf(s) \in 1..n
             /\ s \ {AnyOf(s)} \in SUBSET (1..n)
             /\ Cardinality(s \ {AnyOf(s)}) < Cardinality(s)
  <2>1. AnyOf(s) \in s
    BY <1>4, Zenon DEF AnyOf
  <2>2. AnyOf(s) \in 1..n /\ s \ {AnyOf(s)} \in SUBSET (1..n)
    BY <2>1, Zenon
  <2>3. Cardinality(s \ {AnyOf(s)}) = Cardinality(s) - 1
    BY <1>2, <2>1, FS_RemoveElement
  <2>4. QED
    BY <1>2, <2>2, <2>3
<1>5. QED
  BY <1>2, <1>3, <1>4

LEMMA SubsetsShrink ==
  ASSUME NEW n \in Nat
  PROVE  /\ Shrinking(SUBSET (1..n), n, SizeOf(n), RestOf(n))
         /\ \A s \in SUBSET (1..n) : s = {} <=> SizeOf(n)[s] = 0
<1>1. ASSUME NEW s \in SUBSET (1..n)
      PROVE  /\ SizeOf(n)[s] = Cardinality(s)
             /\ RestOf(n)[s] = s \ {AnyOf(s)}
  BY Zenon DEF SizeOf, RestOf
<1>2. ASSUME NEW s \in SUBSET (1..n)
      PROVE  SizeOf(n)[s] \in 0..n /\ (s = {} <=> SizeOf(n)[s] = 0)
  <2>1. Cardinality(s) \in 0..n /\ (s = {} <=> Cardinality(s) = 0)
    BY OneLess
  <2>2. QED
    BY <1>1, <2>1
<1>3. ASSUME NEW s \in SUBSET (1..n), SizeOf(n)[s] # 0
      PROVE  /\ RestOf(n)[s] \in SUBSET (1..n)
             /\ SizeOf(n)[RestOf(n)[s]] < SizeOf(n)[s]
  <2>1. /\ s \ {AnyOf(s)} \in SUBSET (1..n)
        /\ Cardinality(s \ {AnyOf(s)}) < Cardinality(s)
    BY <1>2, <1>3, OneLess, Zenon
  <2>2. SizeOf(n)[s \ {AnyOf(s)}] = Cardinality(s \ {AnyOf(s)})
    BY <1>1, <2>1, Zenon
  <2>3. QED
    BY <1>1, <2>1, <2>2, Zenon
<1>4. QED
  BY <1>2, <1>3, Zenon DEF Shrinking

LEMMA TermsAreNumbers ==
  ASSUME NEW n \in Nat, NEW w \in [1..n -> Nat]
  PROVE  TermOf(n, w) \in [SUBSET (1..n) -> Nat]
<1>1. ASSUME NEW s \in SUBSET (1..n)
      PROVE  (IF s = {} THEN 0 ELSE w[AnyOf(s)]) \in Nat
  BY OneLess
<1>2. QED
  BY <1>1, Zenon DEF TermOf

LEMMA SumsAreSummed ==
  ASSUME NEW n \in Nat, NEW w, NEW f
  PROVE  Summing(f, 1..n, w)
           <=> /\ f = [s \in SUBSET (1..n) |-> f[s]]
               /\ Summed(f, SUBSET (1..n), SizeOf(n), RestOf(n), TermOf(n, w))
<1>1. ASSUME NEW s \in SUBSET (1..n)
      PROVE  (IF SizeOf(n)[s] = 0 THEN 0 ELSE TermOf(n, w)[s] + f[RestOf(n)[s]])
               = IF s = {} THEN 0 ELSE w[AnyOf(s)] + f[s \ {AnyOf(s)}]
  <2>1. s = {} <=> SizeOf(n)[s] = 0
    BY SubsetsShrink
  <2>2. RestOf(n)[s] = s \ {AnyOf(s)}
    BY Zenon DEF RestOf
  <2>3. s # {} => TermOf(n, w)[s] = w[AnyOf(s)]
    BY Zenon DEF TermOf
  <2>4. QED
    BY <2>1, <2>2, <2>3, Zenon
<1>2. Summing(f, 1..n, w)
        <=> f = [s \in SUBSET (1..n) |->
                   IF SizeOf(n)[s] = 0 THEN 0 ELSE TermOf(n, w)[s] + f[RestOf(n)[s]]]
  BY <1>1, Zenon DEF Summing
<1> DEFINE D == SUBSET (1..n)
           size == SizeOf(n)
           rest == RestOf(n)
           term == TermOf(n, w)
<1> HIDE DEF D, size, rest, term
<1>3. f = [s \in D |-> IF size[s] = 0 THEN 0 ELSE term[s] + f[rest[s]]]
        <=> f = [s \in D |-> f[s]] /\ Summed(f, D, size, rest, term)
  BY DEF Summed
<1>4. QED
  BY <1>2, <1>3, Zenon DEF D, size, rest, term

LEMMA SumExists ==
  ASSUME NEW n \in Nat, NEW w \in [1..n -> Nat]
  PROVE  \E f : Summing(f, 1..n, w)
<1> DEFINE D == SUBSET (1..n)
<1>1. TermOf(n, w) \in [D -> Nat] /\ Shrinking(D, n, SizeOf(n), RestOf(n))
  BY TermsAreNumbers, SubsetsShrink
<1> HIDE DEF D
<1>2. PICK f \in [D -> Nat] : Summed(f, D, SizeOf(n), RestOf(n), TermOf(n, w))
  BY <1>1, SummedExists, Zenon
<1>3. f = [s \in D |-> f[s]]
  OBVIOUS
<1>4. QED
  BY <1>2, <1>3, SumsAreSummed, Zenon DEF D

LEMMA SumGrows ==
  ASSUME NEW n \in Nat, NEW v \in [1..n -> Nat], NEW w \in [1..n -> Nat],
         \A k \in 1..n : v[k] >= w[k],
         NEW f, NEW g, Summing(f, 1..n, v), Summing(g, 1..n, w)
  PROVE  f[1..n] \in Nat /\ g[1..n] \in Nat /\ f[1..n] >= g[1..n]
<1> DEFINE D == SUBSET (1..n)
<1>1. /\ TermOf(n, v) \in [D -> Nat] /\ TermOf(n, w) \in [D -> Nat]
      /\ Shrinking(D, n, SizeOf(n), RestOf(n))
  BY TermsAreNumbers, SubsetsShrink
<1>2. /\ Summed(f, D, SizeOf(n), RestOf(n), TermOf(n, v))
      /\ Summed(g, D, SizeOf(n), RestOf(n), TermOf(n, w))
  BY SumsAreSummed, Zenon
<1>3. ASSUME NEW s \in D PROVE TermOf(n, v)[s] >= TermOf(n, w)[s]
  <2>1. /\ TermOf(n, v)[s] = IF s = {} THEN 0 ELSE v[AnyOf(s)]
        /\ TermOf(n, w)[s] = IF s = {} THEN 0 ELSE w[AnyOf(s)]
    BY Zenon DEF TermOf
  <2>2. s # {} => AnyOf(s) \in 1..n
    BY OneLess
  <2>3. QED
    BY <2>1, <2>2
<1>4. 1..n \in D
  OBVIOUS
<1> HIDE DEF D
<1>5. \A s \in D : f[s] \in Nat /\ g[s] \in Nat /\ f[s] >= g[s]
  BY <1>1, <1>2, <1>3, SummedGrows, Zenon
<1>6. QED
  BY <1>4, <1>5

(***************************************************************************)
(* Sorting.  A strict order of 1..n that leaves no two positions undecided *)
(* has a list that follows it: a position's place is the number of those   *)
(* before it.                                                              *)
(***************************************************************************)
Ordering(before, n) ==
  /\ before \subseteq (1..n) \X (1..n)
  /\ \A a \in 1..n : <<a, a>> \notin before
  /\ \A a, b, c \in 1..n : <<a, b>> \in before /\ <<b, c>> \in before
                             => <<a, c>> \in before
  /\ \A a, b \in 1..n : a # b => <<a, b>> \in before \/ <<b, a>> \in before

LEMMA SortExists ==
  ASSUME NEW n \in Nat, NEW before, Ordering(before, n)
  PROVE  \E s \in [1..n -> 1..n] :
           /\ \A a, b \in 1..n : s[a] = s[b] => a = b
           /\ \A a, b \in 1..n : a < b => <<s[a], s[b]>> \in before
<1> DEFINE Before(k) == {j \in 1..n : <<j, k>> \in before}
           rank == [k \in 1..n |-> Cardinality(Before(k)) + 1]
<1>1. IsFiniteSet(1..n) /\ Cardinality(1..n) = n
  BY FS_Interval
<1>2. ASSUME NEW k \in 1..n
      PROVE  /\ IsFiniteSet(Before(k)) /\ Cardinality(Before(k)) \in Nat
             /\ rank[k] \in 1..n
  <2>1. Before(k) \in SUBSET (1..n) /\ k \notin Before(k)
    BY DEF Ordering
  <2> HIDE DEF Before
  <2>2. /\ IsFiniteSet(Before(k)) /\ Cardinality(Before(k)) <= n
        /\ Cardinality(Before(k)) = n => Before(k) = 1..n
    <3>1. /\ IsFiniteSet(Before(k)) /\ Cardinality(Before(k)) <= Cardinality(1..n)
          /\ Cardinality(1..n) = Cardinality(Before(k)) => 1..n = Before(k)
      BY <1>1, <2>1, FS_Subset, Zenon
    <3>2. QED
      BY <1>1, <3>1
  <2>3. Cardinality(Before(k)) \in Nat
    BY <2>2, FS_CardinalityType
  <2>4. Cardinality(Before(k)) # n
    BY <2>1, <2>2
  <2>5. rank[k] = Cardinality(Before(k)) + 1
    OBVIOUS
  <2> HIDE DEF rank
  <2>6. QED
    BY <2>2, <2>3, <2>4, <2>5
<1>3. ASSUME NEW a \in 1..n, NEW b \in 1..n, <<a, b>> \in before
      PROVE  rank[a] < rank[b]
  <2>1. Before(a) \in SUBSET Before(b)
    BY <1>3 DEF Ordering
  <2>2. a \in Before(b) /\ a \notin Before(a)
    BY <1>3 DEF Ordering
  <2>3. /\ IsFiniteSet(Before(b))
        /\ Cardinality(Before(a)) \in Nat /\ Cardinality(Before(b)) \in Nat
    BY <1>2
  <2>4. rank[a] = Cardinality(Before(a)) + 1 /\ rank[b] = Cardinality(Before(b)) + 1
    OBVIOUS
  <2> HIDE DEF Before, rank
  <2>5. /\ Cardinality(Before(a)) <= Cardinality(Before(b))
        /\ Cardinality(Before(b)) = Cardinality(Before(a)) => Before(b) = Before(a)
    BY <2>1, <2>3, FS_Subset
  <2>6. QED
    BY <2>2, <2>3, <2>4, <2>5
<1>4. rank \in [1..n -> 1..n]
  BY <1>2
<1> HIDE DEF rank
<1>5. \A a, b \in 1..n : rank[a] = rank[b] => a = b
  <2> SUFFICES ASSUME NEW a \in 1..n, NEW b \in 1..n, rank[a] = rank[b], a # b
               PROVE  FALSE
    OBVIOUS
  <2>1. <<a, b>> \in before \/ <<b, a>> \in before
    BY DEF Ordering
  <2>2. rank[a] < rank[b] \/ rank[b] < rank[a]
    BY <1>3, <2>1
  <2>3. rank[a] \in Nat /\ rank[b] \in Nat
    BY <1>4
  <2>4. QED
    BY <2>2, <2>3
<1>6. rank \in Injection(1..n, 1..n)
  BY <1>4, <1>5 DEF Injection, IsInjective
<1>7. rank \in Surjection(1..n, 1..n)
  BY <1>1, <1>6, FS_Injection
<1>8. \A r \in 1..n : \E k \in 1..n : rank[k] = r
  BY <1>7 DEF Surjection
<1> DEFINE s == [r \in 1..n |-> CHOOSE k \in 1..n : rank[k] = r]
<1>9. ASSUME NEW r \in 1..n PROVE s[r] \in 1..n /\ rank[s[r]] = r
  BY <1>8
<1>10. s \in [1..n -> 1..n]
  BY <1>9
<1> HIDE DEF s
<1>11. \A a, b \in 1..n : s[a] = s[b] => a = b
  BY <1>9
<1>12. ASSUME NEW a \in 1..n, NEW b \in 1..n, a < b
       PROVE  <<s[a], s[b]>> \in before
  <2>1. s[a] \in 1..n /\ s[b] \in 1..n /\ s[a] # s[b]
    BY <1>9, <1>11, <1>12
  <2>2. ~(<<s[b], s[a]>> \in before)
    <3>1. ~(rank[s[b]] < rank[s[a]])
      BY <1>9, <1>12
    <3>2. QED
      BY <1>3, <2>1, <3>1
  <2>3. QED
    BY <2>1, <2>2 DEF Ordering
<1>13. QED
  BY <1>10, <1>11, <1>12

LEMMA Appended ==
  ASSUME NEW S, NEW v \in Seq(S), NEW e \in S
  PROVE  /\ Append(v, e) \in Seq(S) /\ Len(Append(v, e)) = Len(v) + 1
         /\ ToSet(Append(v, e)) = ToSet(v) \cup {e}
         /\ \A j \in 1..Len(v) : Append(v, e)[j] = v[j]
         /\ Append(v, e)[Len(v) + 1] = e
<1> DEFINE w == Append(v, e)
<1>1. /\ w \in Seq(S) /\ Len(w) = Len(v) + 1 /\ DOMAIN w = 1..(Len(v) + 1)
      /\ DOMAIN v = 1..Len(v) /\ Len(v) \in Nat
      /\ w[Len(v) + 1] = e
      /\ \A j \in 1..Len(v) : w[j] = v[j]
  OBVIOUS
<1> HIDE DEF w
<1>2. 1..(Len(v) + 1) = (1..Len(v)) \cup {Len(v) + 1}
  BY <1>1
<1>3. ToSet(w) = ToSet(v) \cup {e}
  BY <1>1, <1>2 DEF ToSet
<1>4. QED
  BY <1>1, <1>3 DEF w

(***************************************************************************)
(* The recheck keeps what it allows.                                       *)
(***************************************************************************)
AllowedOf(S) == {s \in S : is_allowed(principal, s.chunk)}

LEMMA AllowedGrows ==
  ASSUME NEW S, NEW e
  PROVE  AllowedOf(S \cup {e})
           = IF is_allowed(principal, e.chunk) THEN AllowedOf(S) \cup {e} ELSE AllowedOf(S)
BY DEF AllowedOf

LEMMA AuthorisedIsExact ==
  ASSUME NEW S, NEW list \in Seq(S)
  PROVE  /\ Authorised(list) \in Seq(S)
         /\ ToSet(Authorised(list)) = AllowedOf(ToSet(list))
<1> DEFINE n == Len(list)
           V == Seq(S)
           keep(kept, s) == IF is_allowed(principal, s.chunk) THEN Append(kept, s) ELSE kept
           Keeping(f) == f = [s \in SUBSET (DOMAIN list) |->
                                IF s = {} THEN <<>>
                                ELSE keep(f[s \ {Max(s)}], list[Max(s)])]
           step == [k \in 1..n |-> [v \in V |-> keep(v, list[k])]]
<1>1. n \in Nat /\ DOMAIN list = 1..n /\ \A k \in 1..n : list[k] \in S
  OBVIOUS
<1>2. \A f0 : Keeping(f0) => \E f : Keeping(f) /\ Authorised(list) = f[DOMAIN list]
  BY Zenon DEF Authorised, FoldLeft, MapThenFoldSet
<1>3. ASSUME NEW v \in V, NEW e \in S
      PROVE  keep(v, e) \in V /\ (ToSet(keep(v, e))
               = IF is_allowed(principal, e.chunk) THEN ToSet(v) \cup {e} ELSE ToSet(v))
  <2>1. Append(v, e) \in Seq(S) /\ ToSet(Append(v, e)) = ToSet(v) \cup {e}
    BY Appended
  <2>2. CASE is_allowed(principal, e.chunk)
    BY <2>1, <2>2, Zenon
  <2>3. CASE ~is_allowed(principal, e.chunk)
    BY <1>3, <2>3, Zenon
  <2>4. QED
    BY <2>2, <2>3
<1>4. <<>> \in V /\ ToSet(<<>>) = {}
  BY DEF ToSet
<1> HIDE DEF n, V, keep
<1>5. \E f0 : Keeping(f0)
  <2>1. step \in [1..n -> [V -> V]]
    BY <1>1, <1>3
  <2>2. ASSUME NEW k \in 1..n, NEW v \in V PROVE step[k][v] = keep(v, list[k])
    OBVIOUS
  <2> HIDE DEF step
  <2>3. PICK f \in [SUBSET (1..n) -> V] : FoldedBy(f, n, V, <<>>, step)
    BY <1>1, <1>4, <2>1, FoldTyped
  <2>4. \A s \in SUBSET (1..n) :
          f[s] = IF s = {} THEN <<>> ELSE keep(f[s \ {Max(s)}], list[Max(s)])
    BY <2>2, <2>3 DEF FoldedBy
  <2>5. Keeping(f)
    BY <1>1, <2>4
  <2>6. QED
    BY <2>5
<1>6. PICK f : Keeping(f) /\ Authorised(list) = f[1..n]
  BY <1>1, <1>2, <1>5
<1>7. f[1..0] = <<>>
  <2>1. 1..0 = {} /\ 1..0 \in SUBSET (DOMAIN list)
    OBVIOUS
  <2>2. QED
    BY <1>6, <2>1
<1>8. ASSUME NEW k \in 1..n PROVE f[1..k] = keep(f[1..(k - 1)], list[k])
  <2>1. /\ 1..k \in SUBSET (DOMAIN list) /\ 1..k # {} /\ Max(1..k) = k
        /\ (1..k) \ {k} = 1..(k - 1)
    BY <1>1, PrefixEnds
  <2>2. f[1..k] = keep(f[(1..k) \ {Max(1..k)}], list[Max(1..k)])
    BY <1>6, <2>1
  <2>3. QED
    BY <2>1, <2>2
<1> HIDE DEF Keeping
<1> DEFINE First(k) == {list[j] : j \in 1..k}
           Good(v, k) == v \in V /\ ToSet(v) = AllowedOf(First(k))
           p == [k \in 0..n |-> f[1..k]]
           G == [k \in 0..n |-> {v \in V : Good(v, k)}]
<1>9. Good(<<>>, 0)
  BY <1>4 DEF AllowedOf
<1>10. ASSUME NEW k \in 1..n, NEW v, Good(v, k - 1) PROVE Good(keep(v, list[k]), k)
  <2>1. First(k) = First(k - 1) \cup {list[k]}
    <3>1. 1..k = (1..(k - 1)) \cup {k}
      BY <1>1
    <3>2. QED
      BY <3>1
  <2> HIDE DEF First
  <2>2. list[k] \in S /\ v \in V /\ ToSet(v) = AllowedOf(First(k - 1))
    BY <1>1, <1>10
  <2> DEFINE e == list[k]
             w == keep(v, e)
             more == is_allowed(principal, e.chunk)
  <2>3. w \in V /\ ToSet(w) = IF more THEN ToSet(v) \cup {e} ELSE ToSet(v)
    BY <1>3, <2>2
  <2>4. AllowedOf(First(k)) = IF more THEN AllowedOf(First(k - 1)) \cup {e}
                              ELSE AllowedOf(First(k - 1))
    BY <2>1, AllowedGrows
  <2> HIDE DEF more, w
  <2>5. w \in V /\ ToSet(w) = AllowedOf(First(k))
    BY <2>2, <2>3, <2>4
  <2>6. QED
    BY <2>5 DEF w
<1> HIDE DEF Good
<1>11. \A k \in 0..n : \A v : v \in G[k] <=> v \in V /\ Good(v, k)
  OBVIOUS
<1>12. \A k \in 0..n : p[k] = f[1..k]
  OBVIOUS
<1> HIDE DEF p, G
<1>13. p[0] \in G[0]
  BY <1>1, <1>4, <1>7, <1>9, <1>11, <1>12
<1>14. ASSUME NEW k \in 1..n, p[k - 1] \in G[k - 1] PROVE p[k] \in G[k]
  <2>1. k - 1 \in 0..n /\ k \in 0..n
    BY <1>1
  <2>2. Good(p[k], k)
    BY <1>8, <1>10, <1>11, <1>12, <1>14, <2>1
  <2>3. p[k] \in V
    BY <2>2 DEF Good
  <2>4. QED
    BY <1>11, <2>1, <2>2, <2>3
<1>15. p[n] \in G[n]
  BY <1>1, <1>13, <1>14, Walk
<1>16. First(n) = ToSet(list)
  BY <1>1 DEF ToSet
<1>17. Good(Authorised(list), n)
  BY <1>1, <1>6, <1>11, <1>12, <1>15
<1>18. QED
  BY <1>16, <1>17 DEF Good, V

(***************************************************************************)
(* The ledger gathers what the tools observe: of every ref one source, the *)
(* strongest observation of it.                                            *)
(***************************************************************************)
SourceSet == [ref: Ids, chunk: Chunks, score: Nat]

Gathers(v, O) ==
  /\ v \in Seq(SourceSet) /\ ToSet(v) \subseteq O
  /\ \A o \in O : \E k \in DOMAIN v : v[k].ref = o.ref /\ v[k].score >= o.score
  /\ \A a, b \in DOMAIN v : v[a].ref = v[b].ref => a = b

LEMMA AddedGathers ==
  ASSUME NEW O \in SUBSET SourceSet, NEW v, Gathers(v, O), NEW o \in SourceSet
  PROVE  Gathers(Added(v, o), O \cup {o})
<1> DEFINE n == Len(v)
           w == Added(v, o)
<1>1. /\ n \in Nat /\ DOMAIN v = 1..n /\ \A k \in 1..n : v[k] \in SourceSet /\ v[k] \in O
      /\ v \in Seq(SourceSet) /\ ToSet(v) \subseteq O
  BY DEF Gathers, ToSet
<1>2. /\ \A x \in O : \E k \in 1..n : v[k].ref = x.ref /\ v[k].score >= x.score
      /\ \A a, b \in 1..n : v[a].ref = v[b].ref => a = b
  BY <1>1 DEF Gathers
<1>3. \A s \in SourceSet : s.score \in Nat
  BY DEF SourceSet
<1>4. CASE \A k \in DOMAIN v : v[k].ref # o.ref
  <2>1. w = Append(v, o)
    BY <1>4 DEF Added
  <2>2. /\ w \in Seq(SourceSet) /\ Len(w) = n + 1 /\ ToSet(w) = ToSet(v) \cup {o}
        /\ \A j \in 1..n : w[j] = v[j]
        /\ w[n + 1] = o
    BY <1>1, <2>1, Appended
  <2> HIDE DEF n, w
  <2>3. DOMAIN w = 1..(n + 1)
    BY <2>2
  <2>4. \A k \in 1..(n + 1) : k \in 1..n \/ k = n + 1
    BY <1>1
  <2>5. n + 1 \in 1..(n + 1) /\ \A k \in 1..n : k \in 1..(n + 1)
    BY <1>1
  <2>6. ASSUME NEW x \in O \cup {o}
        PROVE  \E k \in DOMAIN w : w[k].ref = x.ref /\ w[k].score >= x.score
    <3>1. CASE x = o
      <4>1. w[n + 1] = o /\ o.score >= o.score
        BY <1>3, <2>2
      <4>2. QED
        BY <2>3, <2>5, <3>1, <4>1
    <3>2. CASE x \in O
      BY <1>2, <2>2, <2>3, <2>5, <3>2
    <3>3. QED
      BY <3>1, <3>2
  <2>7. ASSUME NEW a \in DOMAIN w, NEW b \in DOMAIN w, w[a].ref = w[b].ref
        PROVE  a = b
    BY <1>1, <1>2, <1>4, <2>2, <2>3, <2>4, <2>7
  <2>8. ToSet(w) \subseteq O \cup {o}
    BY <1>1, <2>2
  <2>9. QED
    BY <2>2, <2>6, <2>7, <2>8 DEF Gathers, w
<1>5. CASE ~\A k \in DOMAIN v : v[k].ref # o.ref
  <2>1. w = [k \in 1..n |-> IF v[k].ref = o.ref /\ o.score > v[k].score THEN o ELSE v[k]]
    BY <1>1, <1>5 DEF Added
  <2>2. DOMAIN w = 1..n
    BY <2>1
  <2>3. ASSUME NEW k \in 1..n
        PROVE  /\ w[k] = IF v[k].ref = o.ref /\ o.score > v[k].score THEN o ELSE v[k]
               /\ w[k] \in SourceSet /\ w[k] \in O \cup {o}
               /\ w[k].ref = v[k].ref /\ w[k].score >= v[k].score
    <3>1. w[k] = IF v[k].ref = o.ref /\ o.score > v[k].score THEN o ELSE v[k]
      BY <2>1
    <3>2. v[k] \in SourceSet /\ v[k] \in O /\ v[k].score \in Nat /\ o.score \in Nat
      BY <1>1, <1>3
    <3> HIDE DEF w
    <3>3. QED
      BY <3>1, <3>2
  <2>4. w \in Seq(SourceSet)
    <3>1. w \in [1..n -> SourceSet]
      BY <2>1, <2>3
    <3>2. QED
      BY <1>1, <3>1
  <2> HIDE DEF w, n
  <2>5. ASSUME NEW x \in O \cup {o}
        PROVE  \E k \in DOMAIN w : w[k].ref = x.ref /\ w[k].score >= x.score
    <3>1. CASE x = o
      <4>1. PICK k \in 1..n : v[k].ref = o.ref
        BY <1>1, <1>5
      <4>2. w[k].ref = o.ref /\ w[k].score >= o.score
        BY <1>1, <1>3, <2>3, <4>1
      <4>3. QED
        BY <2>2, <3>1, <4>2
    <3>2. CASE x \in O
      <4>1. PICK k \in 1..n : v[k].ref = x.ref /\ v[k].score >= x.score
        BY <1>2, <3>2
      <4>2. w[k].ref = v[k].ref /\ w[k].score >= v[k].score
        BY <2>3
      <4>3. w[k].score \in Nat /\ v[k].score \in Nat /\ x.score \in Nat
        BY <1>1, <1>3, <2>3, <3>2
      <4>4. QED
        BY <2>2, <4>1, <4>2, <4>3
    <3>3. QED
      BY <3>1, <3>2
  <2>6. ASSUME NEW a \in DOMAIN w, NEW b \in DOMAIN w, w[a].ref = w[b].ref
        PROVE  a = b
    BY <1>2, <2>2, <2>3, <2>6
  <2>7. ToSet(w) \subseteq O \cup {o}
    BY <2>2, <2>3 DEF ToSet
  <2>8. QED
    BY <2>4, <2>5, <2>6, <2>7 DEF Gathers, w
<1>6. QED
  BY <1>4, <1>5

LEMMA MergedGathers ==
  ASSUME NEW O \in SUBSET SourceSet, NEW start, Gathers(start, O),
         NEW list \in Seq(SourceSet)
  PROVE  Gathers(Merged(start, list), O \cup ToSet(list))
<1> DEFINE n == Len(list)
           V == Seq(SourceSet)
           Keeping(f) == f = [s \in SUBSET (DOMAIN list) |->
                                IF s = {} THEN start
                                ELSE Added(f[s \ {Max(s)}], list[Max(s)])]
           step == [k \in 1..n |-> [v \in V |-> Added(v, list[k])]]
<1>1. n \in Nat /\ DOMAIN list = 1..n /\ \A k \in 1..n : list[k] \in SourceSet
  OBVIOUS
<1>2. \A f0 : Keeping(f0) => \E f : Keeping(f) /\ Merged(start, list) = f[DOMAIN list]
  BY Zenon DEF Merged, FoldLeft, MapThenFoldSet
<1>3. ASSUME NEW v \in V, NEW e \in SourceSet PROVE Added(v, e) \in V
  <2>1. CASE \A k \in DOMAIN v : v[k].ref # e.ref
    <3>1. Added(v, e) = Append(v, e)
      BY <2>1 DEF Added
    <3>2. QED
      BY <3>1
  <2>2. CASE ~\A k \in DOMAIN v : v[k].ref # e.ref
    <3>1. Added(v, e) = [k \in DOMAIN v |->
                           IF v[k].ref = e.ref /\ e.score > v[k].score THEN e ELSE v[k]]
      BY <2>2 DEF Added
    <3> DEFINE w == [k \in DOMAIN v |->
                           IF v[k].ref = e.ref /\ e.score > v[k].score THEN e ELSE v[k]]
    <3>2. DOMAIN v = 1..Len(v) /\ Len(v) \in Nat /\ \A k \in 1..Len(v) : v[k] \in SourceSet
      OBVIOUS
    <3>3. w \in [1..Len(v) -> SourceSet]
      BY <3>2
    <3> HIDE DEF w
    <3>4. w \in Seq(SourceSet)
      BY <3>2, <3>3
    <3>5. QED
      BY <3>1, <3>4 DEF w
  <2>3. QED
    BY <2>1, <2>2
<1>4. start \in V
  BY DEF Gathers
<1> HIDE DEF n, V
<1>5. \E f0 : Keeping(f0)
  <2>1. step \in [1..n -> [V -> V]]
    BY <1>1, <1>3
  <2>2. ASSUME NEW k \in 1..n, NEW v \in V PROVE step[k][v] = Added(v, list[k])
    OBVIOUS
  <2> HIDE DEF step
  <2>3. PICK f \in [SUBSET (1..n) -> V] : FoldedBy(f, n, V, start, step)
    BY <1>1, <1>4, <2>1, FoldTyped
  <2>4. \A s \in SUBSET (1..n) :
          f[s] = IF s = {} THEN start ELSE Added(f[s \ {Max(s)}], list[Max(s)])
    BY <2>2, <2>3 DEF FoldedBy
  <2>5. Keeping(f)
    BY <1>1, <2>4
  <2>6. QED
    BY <2>5
<1>6. PICK f : Keeping(f) /\ Merged(start, list) = f[1..n]
  BY <1>1, <1>2, <1>5
<1>7. f[1..0] = start
  <2>1. 1..0 = {} /\ 1..0 \in SUBSET (DOMAIN list)
    OBVIOUS
  <2>2. QED
    BY <1>6, <2>1
<1>8. ASSUME NEW k \in 1..n PROVE f[1..k] = Added(f[1..(k - 1)], list[k])
  <2>1. /\ 1..k \in SUBSET (DOMAIN list) /\ 1..k # {} /\ Max(1..k) = k
        /\ (1..k) \ {k} = 1..(k - 1)
    BY <1>1, PrefixEnds
  <2>2. f[1..k] = Added(f[(1..k) \ {Max(1..k)}], list[Max(1..k)])
    BY <1>6, <2>1
  <2>3. QED
    BY <2>1, <2>2
<1> HIDE DEF Keeping
<1> DEFINE First(k) == {list[j] : j \in 1..k}
           Good(v, k) == Gathers(v, O \cup First(k))
           p == [k \in 0..n |-> f[1..k]]
           G == [k \in 0..n |-> {v \in V : Good(v, k)}]
<1>9. Good(start, 0)
  <2>1. O \cup First(0) = O
    OBVIOUS
  <2>2. QED
    BY <2>1
<1>10. ASSUME NEW k \in 1..n, NEW v, Good(v, k - 1) PROVE Good(Added(v, list[k]), k)
  <2>1. First(k) = First(k - 1) \cup {list[k]}
    <3>1. 1..k = (1..(k - 1)) \cup {k}
      BY <1>1
    <3>2. QED
      BY <3>1
  <2>2. O \cup First(k - 1) \in SUBSET SourceSet
    BY <1>1
  <2>3. (O \cup First(k - 1)) \cup {list[k]} = O \cup First(k)
    BY <2>1
  <2> HIDE DEF First
  <2>4. QED
    BY <1>1, <1>10, <2>2, <2>3, AddedGathers
<1>v. \A v, k : Good(v, k) => v \in V
  BY DEF Gathers, V
<1> HIDE DEF Good
<1>11. \A k \in 0..n : \A v : v \in G[k] <=> v \in V /\ Good(v, k)
  OBVIOUS
<1>12. \A k \in 0..n : p[k] = f[1..k]
  OBVIOUS
<1> HIDE DEF p, G
<1>13. p[0] \in G[0]
  BY <1>1, <1>4, <1>7, <1>9, <1>11, <1>12
<1>14. ASSUME NEW k \in 1..n, p[k - 1] \in G[k - 1] PROVE p[k] \in G[k]
  <2>1. k - 1 \in 0..n /\ k \in 0..n
    BY <1>1
  <2>2. Good(p[k - 1], k - 1)
    BY <1>11, <1>14, <2>1
  <2>3. p[k] = Added(p[k - 1], list[k])
    BY <1>8, <1>12, <2>1
  <2>4. Good(p[k], k)
    BY <1>10, <2>2, <2>3
  <2>5. QED
    BY <1>v, <1>11, <2>1, <2>4
<1>15. p[n] \in G[n]
  BY <1>1, <1>13, <1>14, Walk
<1>16. First(n) = ToSet(list)
  BY <1>1 DEF ToSet
<1>17. Good(Merged(start, list), n)
  BY <1>1, <1>6, <1>11, <1>12, <1>15
<1>18. QED
  BY <1>16, <1>17 DEF Good

LEMMA SourcesAreSorted ==
  ASSUME NEW O \in SUBSET SourceSet, Gathers(ledger, O)
  PROVE  /\ Gathers(Sources, O)
         /\ \A a, b \in DOMAIN Sources : a < b => Sources[a].score >= Sources[b].score
<1> DEFINE n == Len(ledger)
           ahead(a, b) == \/ ledger[a].score > ledger[b].score
                          \/ ledger[a].score = ledger[b].score /\ a < b
           InOrder(s) == \A a, b \in DOMAIN s : a < b => ahead(s[a], s[b])
           order == CHOOSE s \in Rankings(DOMAIN ledger, Len(ledger)) : InOrder(s)
           before == {x \in (1..n) \X (1..n) : ahead(x[1], x[2])}
<1>1. /\ n \in Nat /\ DOMAIN ledger = 1..n
      /\ \A k \in 1..n : ledger[k] \in SourceSet /\ ledger[k] \in O
                         /\ ledger[k].score \in Nat
  BY DEF Gathers, ToSet, SourceSet
<1>2. \A a, b \in 1..n : <<a, b>> \in before <=> ahead(a, b)
  OBVIOUS
<1>3. Ordering(before, n)
  <2>1. before \subseteq (1..n) \X (1..n)
    OBVIOUS
  <2> HIDE DEF before, n
  <2>2. \A a \in 1..n : <<a, a>> \notin before
    BY <1>1, <1>2
  <2>3. \A a, b, c \in 1..n : <<a, b>> \in before /\ <<b, c>> \in before
                                => <<a, c>> \in before
    <3> SUFFICES ASSUME NEW a \in 1..n, NEW b \in 1..n, NEW c \in 1..n,
                        <<a, b>> \in before, <<b, c>> \in before
                 PROVE  <<a, c>> \in before
      OBVIOUS
    <3>1. ahead(a, b) /\ ahead(b, c)
      BY <1>2
    <3>2. /\ ledger[a].score \in Nat /\ ledger[b].score \in Nat /\ ledger[c].score \in Nat
          /\ a \in Nat /\ b \in Nat /\ c \in Nat
      BY <1>1
    <3>3. ahead(a, c)
      BY <3>1, <3>2
    <3>4. QED
      BY <1>2, <3>3
  <2>4. \A a, b \in 1..n : a # b => <<a, b>> \in before \/ <<b, a>> \in before
    <3> SUFFICES ASSUME NEW a \in 1..n, NEW b \in 1..n, a # b
                 PROVE  <<a, b>> \in before \/ <<b, a>> \in before
      OBVIOUS
    <3>1. /\ ledger[a].score \in Nat /\ ledger[b].score \in Nat
          /\ a \in Nat /\ b \in Nat
      BY <1>1
    <3>2. ahead(a, b) \/ ahead(b, a)
      BY <3>1
    <3>3. QED
      BY <1>2, <3>2
  <2>5. QED
    BY <2>1, <2>2, <2>3, <2>4 DEF Ordering
<1>4. Rankings(DOMAIN ledger, Len(ledger))
        = {s \in [1..n -> 1..n] : \A a, b \in DOMAIN s : s[a] = s[b] => a = b}
  <2>0. Cardinality(1..n) = n
    <3>1. 0 \in Nat /\ \A k \in Nat : Cardinality(1..k) = k
      BY FS_Interval
    <3> HIDE DEF n
    <3>2. QED
      BY <1>1, <3>1
  <2>1. Smaller(n, Cardinality(1..n)) = n
    <3> HIDE DEF n
    <3>1. QED
      BY <1>1, <2>0 DEF Smaller
  <2>2. QED
    BY <1>1, <2>1 DEF Rankings
<1>5. Sources = [k \in DOMAIN ledger |-> ledger[order[k]]]
  BY Zenon DEF Sources
<1> HIDE DEF before, n
<1>6. PICK s0 \in [1..n -> 1..n] :
        /\ \A a, b \in 1..n : s0[a] = s0[b] => a = b
        /\ \A a, b \in 1..n : a < b => <<s0[a], s0[b]>> \in before
  BY <1>1, <1>3, SortExists
<1>7. s0 \in Rankings(DOMAIN ledger, Len(ledger)) /\ InOrder(s0)
  <2>1. DOMAIN s0 = 1..n
    OBVIOUS
  <2>2. s0 \in Rankings(DOMAIN ledger, Len(ledger))
    BY <1>4, <1>6
  <2>3. ASSUME NEW a \in 1..n, NEW b \in 1..n, a < b PROVE ahead(s0[a], s0[b])
    <3>1. s0[a] \in 1..n /\ s0[b] \in 1..n
      OBVIOUS
    <3>2. QED
      BY <1>2, <1>6, <2>3, <3>1
  <2> HIDE DEF ahead
  <2>4. QED
    BY <2>1, <2>2, <2>3
<1> HIDE DEF InOrder
<1>8. order \in Rankings(DOMAIN ledger, Len(ledger)) /\ InOrder(order)
  BY <1>7
<1> HIDE DEF order
<1>9. /\ order \in [1..n -> 1..n] /\ \A a, b \in 1..n : order[a] = order[b] => a = b
  BY <1>4, <1>8
<1>10. \A r \in 1..n : \E k \in 1..n : order[k] = r
  <2>1. IsFiniteSet(1..n)
    BY <1>1, FS_Interval
  <2>2. order \in Injection(1..n, 1..n)
    BY <1>9 DEF Injection, IsInjective
  <2>3. order \in Surjection(1..n, 1..n)
    BY <2>1, <2>2, FS_Injection
  <2>4. QED
    BY <2>3 DEF Surjection
<1> DEFINE w == Sources
<1>11. w = [k \in 1..n |-> ledger[order[k]]]
  BY <1>1, <1>5
<1>12. DOMAIN w = 1..n /\ \A k \in 1..n : order[k] \in 1..n /\ w[k] = ledger[order[k]]
  BY <1>9, <1>11
<1>13. w \in Seq(SourceSet)
  <2>1. w \in [1..n -> SourceSet]
    BY <1>1, <1>9, <1>11
  <2>2. QED
    BY <1>1, <2>1
<1> HIDE DEF w
<1>14. ToSet(w) \subseteq O
  BY <1>1, <1>12 DEF ToSet
<1>15. ASSUME NEW o \in O
       PROVE  \E k \in DOMAIN w : w[k].ref = o.ref /\ w[k].score >= o.score
  <2>1. PICK r \in 1..n : ledger[r].ref = o.ref /\ ledger[r].score >= o.score
    BY <1>1 DEF Gathers
  <2>2. PICK k \in 1..n : order[k] = r
    BY <1>10
  <2>3. QED
    BY <1>12, <2>1, <2>2
<1>16. ASSUME NEW a \in DOMAIN w, NEW b \in DOMAIN w, w[a].ref = w[b].ref
       PROVE  a = b
  <2>1. ledger[order[a]].ref = ledger[order[b]].ref
    BY <1>12, <1>16
  <2>2. order[a] = order[b]
    BY <1>1, <1>12, <2>1 DEF Gathers
  <2>3. QED
    BY <1>9, <1>12, <2>2
<1>17. ASSUME NEW a \in DOMAIN w, NEW b \in DOMAIN w, a < b
       PROVE  w[a].score >= w[b].score
  <2>1. ahead(order[a], order[b])
    <3> HIDE DEF ahead
    <3>1. QED
      BY <1>8, <1>9, <1>12, <1>17 DEF InOrder
  <2>2. ledger[order[a]].score \in Nat /\ ledger[order[b]].score \in Nat
    BY <1>1, <1>12
  <2>3. QED
    BY <1>12, <2>1, <2>2
<1>18. Gathers(w, O)
  BY <1>13, <1>14, <1>15, <1>16 DEF Gathers
<1>19. QED
  BY <1>17, <1>18 DEF w

USE CallerAssumption, LimitAssumption, NoChunkAssumption, FiniteAssumption,
    TermAssumption, BatchAssumption, AnyVersionAssumption, LiveAssumption

(***************************************************************************)
(* Access.                                                                 *)
(***************************************************************************)

(* The rule of security/acl.py says what it is meant to.                   *)
LEMMA RuleIsMeant ==
  ASSUME NEW p \in Principals, NEW chunk \in Chunks
  PROVE  is_allowed(p, chunk) <=> MayRead(p, chunk)
BY DEF is_allowed, MayRead, Principals, Chunks

(* The filters that Qdrant and OpenSearch evaluate admit the chunks that   *)
(* is_allowed admits, and what is read back is the chunk that was written, *)
(* so a recheck looks at the same tags.                                    *)
THEOREM FiltersAgree ==
  ASSUME NEW p \in Principals, NEW v \in Versions \cup {AnyVersion},
         NEW chunk \in Chunks
  PROVE  /\ QdrantAdmits(p, v, to_payload(chunk)) <=> MemoryAdmits(p, v, chunk)
         /\ OpenSearchAdmits(p, v, to_source(chunk)) <=> MemoryAdmits(p, v, chunk)
         /\ from_payload(to_payload(chunk)) = chunk
         /\ from_source(to_source(chunk)) = chunk
<1> USE DEF Principals, Chunks, is_allowed, MemoryAdmits
<1>1. QdrantAdmits(p, v, to_payload(chunk)) <=> MemoryAdmits(p, v, chunk)
  BY DEF QdrantAdmits, to_payload
<1>2. from_payload(to_payload(chunk)) = chunk
  BY DEF from_payload, to_payload
<1>3. CASE chunk.allow_groups = {}
  <2>1. /\ "allow_groups" \notin DOMAIN to_source(chunk)
        /\ to_source(chunk).tenant = chunk.tenant
        /\ to_source(chunk).index_version = chunk.index_version
        /\ to_source(chunk).text = chunk.text
    BY <1>3 DEF to_source
  <2>2. QED
    BY <1>1, <1>2, <1>3, <2>1 DEF OpenSearchAdmits, from_source
<1>4. CASE chunk.allow_groups # {}
  <2>1. /\ "allow_groups" \in DOMAIN to_source(chunk)
        /\ to_source(chunk).tenant = chunk.tenant
        /\ to_source(chunk).index_version = chunk.index_version
        /\ to_source(chunk).text = chunk.text
        /\ to_source(chunk).allow_groups = chunk.allow_groups
    BY <1>4 DEF to_source
  <2>2. QED
    BY <1>1, <1>2, <1>4, <2>1 DEF OpenSearchAdmits, from_source
<1>5. QED
  BY <1>3, <1>4

(***************************************************************************)
(* The stores.                                                             *)
(***************************************************************************)
Stored == [Ids -> Chunks \cup {NoChunk}]

(* What the stores hold, and that the counts and lengths are those of the  *)
(* chunks.                                                                 *)
StoresInv ==
  /\ chunks \in Stored /\ vectors \in Stored
  /\ call \in {"none", "upsert", "delete"}
  /\ call = "upsert" => batch \in Seq(Entries)
  /\ call = "delete" => batch \in Seq(Ids)
  /\ tf = [i \in Ids |-> IF chunks[i] = NoChunk THEN NoTerms
                         ELSE CountOf[chunks[i].text]]
  /\ df \in [Terms -> Nat]
  /\ docLen = [i \in Indexed |-> Length(chunks[i])]
  /\ call = "none" => avgdl = Average(docLen)

(* vector_store.upsert keeps a store a store.                              *)
LEMMA WrittenStored ==
  ASSUME NEW store \in Stored, NEW entries \in Seq(Entries)
  PROVE  Written(store, entries) \in Stored
<1> SUFFICES ASSUME NEW i \in Ids
             PROVE  Written(store, entries)[i] \in Chunks \cup {NoChunk}
  BY DEF Written, Stored
<1> DEFINE at == {n \in DOMAIN entries : entries[n].id = i}
<1>1. at \in SUBSET (1..Len(entries)) /\ Len(entries) \in Nat
  OBVIOUS
<1>2. CASE at = {}
  BY <1>2 DEF Written, Stored
<1>3. CASE at # {}
  <2>1. Max(at) \in DOMAIN entries
    BY <1>1, <1>3, LastPosition
  <2>2. entries[Max(at)] \in Entries
    BY <2>1
  <2>3. entries[Max(at)].chunk \in Chunks
    BY <2>2 DEF Entries
  <2>4. QED
    BY <1>3, <2>3 DEF Written
<1>4. QED
  BY <1>2, <1>3

(***************************************************************************)
(* Term frequencies.                                                       *)
(***************************************************************************)
With(t) == {i \in Indexed : CountOf[chunks[i].text][t] > 0}
FrequenciesExact == \A t \in Terms : df[t] = Cardinality(With(t))

(* Cardinality of a set of ids.                                            *)
LEMMA IdsCount ==
  ASSUME NEW S \in SUBSET Ids
  PROVE  IsFiniteSet(S) /\ Cardinality(S) \in Nat
BY FS_Subset, FS_CardinalityType

(* _remove_stats leaves the frequencies of the other chunks.               *)
LEMMA RemovedExact ==
  ASSUME StoresInv, FrequenciesExact, NEW i \in Indexed, NEW t \in Terms
  PROVE  Removed(i)[t] = Cardinality(With(t) \ {i})
<1>1. With(t) \in SUBSET Ids /\ i \in Ids
  BY DEF With, Indexed
<1>2. /\ df[t] = Cardinality(With(t)) /\ df[t] \in Nat
      /\ tf[i] = CountOf[chunks[i].text]
  BY DEF StoresInv, FrequenciesExact, With, Indexed
<1>3. CASE i \in With(t)
  <2>1. Cardinality(With(t) \ {i}) = df[t] - 1
    BY <1>1, <1>2, <1>3, IdsCount, FS_RemoveElement
  <2>2. Cardinality(With(t) \ {i}) \in Nat
    BY <1>1, IdsCount
  <2>3. tf[i][t] > 0
    BY <1>2, <1>3 DEF With
  <2>4. QED
    BY <1>2, <2>1, <2>2, <2>3 DEF Removed
<1>4. CASE i \notin With(t)
  <2>1. With(t) \ {i} = With(t)
    BY <1>4
  <2>2. ~(tf[i][t] > 0)
    BY <1>2, <1>4 DEF With
  <2>3. QED
    BY <1>2, <2>1, <2>2 DEF Removed
<1>5. QED
  BY <1>3, <1>4

(* upsert of one chunk, whether or not its id was indexed.                 *)
LEMMA UpsertExact ==
  ASSUME StoresInv, FrequenciesExact, UpsertChunk
  PROVE  FrequenciesExact'
<1> DEFINE i == Head(batch).id
           c == Head(batch).chunk
           d == IF i \in Indexed THEN Removed(i) ELSE df
<1>1. i \in Ids /\ c \in Chunks
  <2>1. Head(batch) \in Entries
    BY DEF StoresInv, UpsertChunk
  <2>2. QED
    BY <2>1 DEF Entries
<1>2. /\ chunks' = [chunks EXCEPT ![i] = c] /\ df' = Counted(d, c)
      /\ chunks \in Stored /\ df \in [Terms -> Nat]
  BY DEF UpsertChunk, StoresInv
<1> SUFFICES ASSUME NEW t \in Terms
             PROVE  df'[t] = Cardinality(With(t)')
  BY DEF FrequenciesExact, With
<1>3. d[t] = Cardinality(With(t) \ {i})
  <2>1. CASE i \in Indexed
    BY <2>1, RemovedExact
  <2>2. CASE i \notin Indexed
    <3>1. With(t) \ {i} = With(t)
      BY <2>2 DEF With
    <3>2. QED
      BY <2>2, <3>1 DEF FrequenciesExact, With
  <2>3. QED
    BY <2>1, <2>2
<1>4. /\ chunks'[i] = c
      /\ \A j \in Ids : j # i => chunks'[j] = chunks[j]
  BY <1>1, <1>2 DEF Stored
<1>5. c # NoChunk
  BY <1>1
<1>6. With(t)' = {j \in Ids : chunks'[j] # NoChunk
                             /\ CountOf[chunks'[j].text][t] > 0}
  BY DEF With, Indexed
<1>7. With(t) = {j \in Ids : chunks[j] # NoChunk
                            /\ CountOf[chunks[j].text][t] > 0}
  BY DEF With, Indexed
<1>8. df'[t] = IF CountOf[c.text][t] > 0 THEN d[t] + 1 ELSE d[t]
  BY <1>2 DEF Counted
<1>9. CASE CountOf[c.text][t] > 0
  <2>1. With(t)' = (With(t) \ {i}) \cup {i}
    BY <1>1, <1>4, <1>5, <1>6, <1>7, <1>9
  <2>2. (With(t) \ {i}) \in SUBSET Ids
    BY DEF With, Indexed
  <2>3. Cardinality(With(t)') = Cardinality(With(t) \ {i}) + 1
    BY <2>1, <2>2, IdsCount, FS_AddElement
  <2>4. QED
    BY <1>3, <1>8, <1>9, <2>3
<1>10. CASE ~(CountOf[c.text][t] > 0)
  <2>1. With(t)' = With(t) \ {i}
    BY <1>1, <1>4, <1>5, <1>6, <1>7, <1>10
  <2>2. QED
    BY <1>3, <1>8, <1>10, <2>1
<1>11. QED
  BY <1>9, <1>10

(* delete of one id, indexed or not.                                       *)
LEMMA DeleteExact ==
  ASSUME StoresInv, FrequenciesExact, DeleteChunk
  PROVE  FrequenciesExact'
<1> DEFINE i == Head(batch)
<1>1. i \in Ids
  BY DEF StoresInv, DeleteChunk
<1> SUFFICES ASSUME NEW t \in Terms
             PROVE  df'[t] = Cardinality(With(t)')
  BY DEF FrequenciesExact, With
<1>2. CASE i \in Indexed
  <2>1. /\ chunks' = [chunks EXCEPT ![i] = NoChunk] /\ df' = Removed(i)
        /\ chunks \in Stored
    BY <1>2 DEF DeleteChunk, StoresInv
  <2>2. With(t)' = With(t) \ {i}
    BY <1>1, <2>1 DEF With, Indexed, Stored
  <2>3. QED
    BY <1>2, <2>1, <2>2, RemovedExact
<1>3. CASE i \notin Indexed
  BY <1>3 DEF DeleteChunk, FrequenciesExact, With, Indexed
<1>4. QED
  BY <1>2, <1>3

(* Every other step leaves the stores alone.                               *)
LEMMA StoreSteps ==
  ASSUME [Next]_vars
  PROVE  \/ \E entries \in Batches : Index(entries)
         \/ IndexChunk
         \/ \E i \in Ids : Delete(<<i>>)
         \/ DropChunk
         \/ CallReturns
         \/ UNCHANGED written
BY DEF Next, RetrievalNext, WriteStores, Retrieve, vars, retrievalVars, Ask, SearchDense,
   SearchLexical, SearchFails, Returns, Fuse, Rerank, AnswerAtOnce,
   RefuseEarly, CallModel, ModelFails, Cite, Done

LEMMA StoresInvKept ==
  ASSUME StoresInv, [Next]_vars
  PROVE  StoresInv'
<1> USE DEF StoresInv
<1>1. ASSUME NEW entries \in Batches, Index(entries)
      PROVE  StoresInv'
  <2>1. entries \in Seq(Entries)
    OBVIOUS
  <2>2. vectors' \in Stored
    BY <1>1, <2>1, WrittenStored DEF Index
  <2>3. QED
    BY <1>1, <2>1, <2>2 DEF Index, BeginUpsert, stats, Indexed
<1>2. CASE IndexChunk
  <2> DEFINE i == Head(batch).id
             c == Head(batch).chunk
  <2>1. Head(batch) \in Entries /\ Tail(batch) \in Seq(Entries)
    BY <1>2 DEF IndexChunk, UpsertChunk
  <2>2. i \in Ids /\ c \in Chunks
    BY <2>1 DEF Entries
  <2>3. CountOf[c.text] \in [Terms -> Nat] /\ c # NoChunk
    BY <2>2 DEF Chunks
  <2>4. Removed(i) \in [Terms -> Nat]
    BY DEF Removed
  <2>5. df' \in [Terms -> Nat]
    BY <1>2, <2>4 DEF IndexChunk, UpsertChunk, Counted
  <2>6. chunks' \in Stored
    BY <1>2, <2>2 DEF IndexChunk, UpsertChunk, Stored
  <2>7. tf' = [j \in Ids |-> IF chunks'[j] = NoChunk THEN NoTerms
                            ELSE CountOf[chunks'[j].text]]
    <3>1. /\ tf' = [tf EXCEPT ![i] = CountOf[c.text]]
          /\ chunks' = [chunks EXCEPT ![i] = c]
      BY <1>2 DEF IndexChunk, UpsertChunk
    <3>2. QED
      BY <2>2, <2>3, <3>1 DEF Stored
  <2>8. vectors' = vectors /\ call' = "upsert" /\ batch' = Tail(batch)
    BY <1>2 DEF IndexChunk, UpsertChunk
  <2>9. (docLen = [j \in Indexed |-> Length(chunks[j])])'
    <3>1. /\ docLen' = [j \in DOMAIN docLen \cup {i} |->
                           IF j = i THEN Length(c) ELSE docLen[j]]
          /\ chunks' = [chunks EXCEPT ![i] = c]
      BY <1>2 DEF IndexChunk, UpsertChunk
    <3>2. Indexed' = Indexed \cup {i}
      BY <2>2, <2>3, <3>1 DEF Indexed, Stored
    <3>3. ASSUME NEW j \in Indexed'
          PROVE  docLen'[j] = Length(chunks'[j])
      <4>1. j \in Ids
        BY DEF Indexed
      <4>2. CASE j = i
        BY <2>2, <3>1, <3>2, <4>2 DEF Stored
      <4>3. CASE j # i
        <5>1. j \in Indexed /\ chunks'[j] = chunks[j] /\ docLen'[j] = docLen[j]
          BY <2>2, <3>1, <3>2, <4>1, <4>3 DEF Stored
        <5>2. QED
          BY <5>1
      <4>4. QED
        BY <4>2, <4>3
    <3>4. docLen' = [j \in Indexed' |-> docLen'[j]]
      BY <3>1, <3>2
    <3>5. QED
      BY <3>3, <3>4
  <2>10. QED
    BY <2>1, <2>5, <2>6, <2>7, <2>8, <2>9
<1>3. ASSUME NEW i \in Ids, Delete(<<i>>)
      PROVE  StoresInv'
  <2>1. vectors' \in Stored
    BY <1>3 DEF Delete, Stored
  <2>2. QED
    BY <1>3, <2>1 DEF Delete, BeginDelete, stats, Indexed
<1>4. CASE DropChunk
  <2> DEFINE i == Head(batch)
  <2>1. i \in Ids /\ Tail(batch) \in Seq(Ids)
    BY <1>4 DEF DropChunk, DeleteChunk
  <2>2. Removed(i) \in [Terms -> Nat]
    BY DEF Removed
  <2>3. vectors' = vectors /\ call' = "delete" /\ batch' = Tail(batch)
    BY <1>4 DEF DropChunk, DeleteChunk
  <2>4. CASE i \in Indexed
    <3>1. /\ tf' = [tf EXCEPT ![i] = NoTerms] /\ df' = Removed(i)
          /\ chunks' = [chunks EXCEPT ![i] = NoChunk]
          /\ docLen' = [j \in DOMAIN docLen \ {i} |-> docLen[j]]
          /\ call' = "delete"
      BY <1>4, <2>4 DEF DropChunk, DeleteChunk
    <3>2. Indexed' = Indexed \ {i}
      BY <2>1, <3>1 DEF Indexed, Stored
    <3>3. \A j \in Indexed' : j \in Indexed /\ chunks'[j] = chunks[j]
      BY <2>1, <3>1, <3>2 DEF Indexed, Stored
    <3>4. (docLen = [j \in Indexed |-> Length(chunks[j])])'
      BY <3>1, <3>2, <3>3
    <3>5. QED
      BY <2>1, <2>2, <2>3, <3>1, <3>4 DEF Stored
  <2>5. CASE i \notin Indexed
    <3>1. UNCHANGED <<df, chunks, tf, docLen>>
      BY <1>4, <2>5 DEF DropChunk, DeleteChunk
    <3>2. Indexed' = Indexed
      BY <3>1 DEF Indexed
    <3>3. QED
      BY <2>1, <2>3, <3>1, <3>2
  <2>6. QED
    BY <2>4, <2>5
<1>5. CASE CallReturns
  BY <1>5 DEF CallReturns, EndCall, Indexed
<1>6. CASE UNCHANGED written
  BY <1>6 DEF written, lexicalVars, stats, Indexed
<1>7. QED
  BY <1>1, <1>2, <1>3, <1>4, <1>5, <1>6, StoreSteps

LEMMA StoresInvStarts == Init => StoresInv /\ FrequenciesExact
<1> SUFFICES ASSUME Init PROVE StoresInv /\ FrequenciesExact
  OBVIOUS
<1>1. Indexed = {}
  BY DEF Init, RetrievalInit, LexicalInit, Indexed
<1>2. StoresInv
  BY <1>1 DEF Init, RetrievalInit, LexicalInit, StoresInv, Stored, NoTerms
<1>3. ASSUME NEW t \in Terms
      PROVE  df[t] = Cardinality(With(t))
  <2>1. With(t) = {} /\ df[t] = 0
    BY <1>1 DEF With, Init, RetrievalInit, LexicalInit, NoTerms
  <2>2. QED
    BY <2>1, FS_EmptySet
<1>4. QED
  BY <1>2, <1>3 DEF FrequenciesExact, With

LEMMA FrequenciesKept ==
  ASSUME StoresInv, FrequenciesExact, [Next]_vars
  PROVE  FrequenciesExact'
<1>1. CASE IndexChunk
  BY <1>1, UpsertExact DEF IndexChunk
<1>2. CASE DropChunk
  BY <1>2, DeleteExact DEF DropChunk
<1>3. CASE UNCHANGED <<chunks, df>>
  BY <1>3 DEF FrequenciesExact, With, Indexed
<1>4. QED
  BY <1>1, <1>2, <1>3, StoreSteps DEF Index, BeginUpsert, Delete,
     BeginDelete, CallReturns, EndCall, stats, written, lexicalVars

LEMMA CountsAreExact == StoresInv /\ FrequenciesExact => StatisticsExact
BY DEF StoresInv, FrequenciesExact, With, StatisticsExact

(* What BM25 scores with, document frequencies and average length, is      *)
(* exact after any sequence of upserts and deletes, of new ids, known ids  *)
(* and ids named twice.                                                    *)
THEOREM StatisticsStayExact == Spec => []StatisticsExact
<1>1. StoresInv /\ FrequenciesExact /\ [Next]_vars
        => StoresInv' /\ FrequenciesExact'
  BY StoresInvKept, FrequenciesKept
<1>2. QED
  BY <1>1, CountsAreExact, StoresInvStarts, PTL DEF Spec

(***************************************************************************)
(* What a request retrieves.                                               *)
(***************************************************************************)

(* A hit the caller may read, of a chunk it might read in a store.         *)
Fit(h) ==
  /\ {"id", "chunk"} \subseteq DOMAIN h
  /\ h.id \in visible /\ h.chunk \in Chunks /\ MayRead(principal, h.chunk)

(* The inductive invariant: at every stage the request holds fit hits      *)
(* only.  While it searches, the history has all it might read now.        *)
RequestInv ==
  /\ principal \in Callers
  /\ pc = "search" => Readable(vectors, principal) \cup Readable(chunks, principal)
                        \subseteq visible
  /\ pc \in {"idle", "search", "fused", "failed"} => results = <<>>
  /\ pc # "fused" => fused = <<>>
  /\ DOMAIN legs = DOMAIN hits
  /\ \A l \in DOMAIN hits : \A n \in DOMAIN hits[l] : Fit(hits[l][n])
  /\ \E m \in Nat : DOMAIN fused = 1..m
  /\ \A n \in DOMAIN fused : Fit(fused[n])
  /\ \A n \in DOMAIN results : Fit(results[n])

LEMMA RequestInvStarts == Init => RequestInv
<1> SUFFICES ASSUME Init PROVE RequestInv
  OBVIOUS
<1>1. principal \in Callers
  BY DEF Init, RetrievalInit
<1>2. QED
  BY <1>1 DEF Init, RetrievalInit, RequestInv

(* A write that the request observes.                                      *)
LEMMA ObservedKeeps ==
  ASSUME RequestInv, Observe, UNCHANGED request
  PROVE  RequestInv'
<1>1. visible \subseteq visible'
  BY DEF Observe, history
<1>2. ASSUME NEW h, Fit(h)
      PROVE  Fit(h)'
  BY <1>1, <1>2 DEF Fit, MayRead, request
<1>3. pc = "search" => Readable(vectors', principal) \cup Readable(chunks', principal)
                         \subseteq visible'
  BY DEF Observe
<1>4. QED
  BY <1>2, <1>3 DEF RequestInv, request, Readable

(* The two searches return fit hits.                                       *)
LEMMA MatchesAreFit ==
  ASSUME StoresInv, RequestInv, pc = "search", NEW i \in Ids
  PROVE  /\ i \in DenseMatches(vectors)
              => Fit([id |-> i, chunk |-> DenseCopy(vectors[i])])
         /\ i \in LexicalMatches(chunks)
              => Fit([id |-> i, chunk |-> LexicalCopy(chunks[i])])
<1>1. principal \in Principals
  BY DEF RequestInv
<1>2. ASSUME NEW c \in Chunks, MemoryAdmits(principal, Live, c)
      PROVE  c.index_version = Live /\ MayRead(principal, c)
  BY <1>1, <1>2, RuleIsMeant DEF MemoryAdmits
<1>3. ASSUME i \in DenseMatches(vectors)
      PROVE  Fit([id |-> i, chunk |-> DenseCopy(vectors[i])])
  <2>1. vectors[i] \in Chunks
    BY <1>3 DEF StoresInv, Stored, DenseMatches
  <2>2. /\ MemoryAdmits(principal, Live, vectors[i])
        /\ DenseCopy(vectors[i]) = vectors[i]
    BY <1>1, <1>3, <2>1, FiltersAgree DEF DenseMatches, DenseCopy
  <2>3. i \in Readable(vectors, principal)
    BY <1>2, <2>1, <2>2 DEF Readable
  <2>4. QED
    BY <1>2, <2>1, <2>2, <2>3 DEF Fit, RequestInv
<1>4. ASSUME i \in LexicalMatches(chunks)
      PROVE  Fit([id |-> i, chunk |-> LexicalCopy(chunks[i])])
  <2>1. chunks[i] \in Chunks
    BY <1>4 DEF StoresInv, Stored, LexicalMatches
  <2>2. /\ MemoryAdmits(principal, Live, chunks[i])
        /\ LexicalCopy(chunks[i]) = chunks[i]
    BY <1>1, <1>4, <2>1, FiltersAgree DEF LexicalMatches, LexicalCopy
  <2>3. i \in Readable(chunks, principal)
    BY <1>2, <2>1, <2>2 DEF Readable
  <2>4. QED
    BY <1>2, <2>1, <2>2, <2>3 DEF Fit, RequestInv
<1>5. QED
  BY <1>3, <1>4

(* A search that returns keeps the invariant.                              *)
LEMMA SearchKeeps ==
  ASSUME StoresInv, RequestInv, NEW l, SearchDense(l) \/ SearchLexical(l)
  PROVE  RequestInv'
<1>1. PICK ranked : /\ Returns(l, ranked)
                    /\ \A n \in DOMAIN ranked : Fit(ranked[n])
  <2>1. CASE SearchDense(l)
    <3>1. PICK s \in Rankings(DenseMatches(vectors), TopK) :
            Returns(l, [n \in DOMAIN s |->
                          [id |-> s[n], chunk |-> DenseCopy(vectors[s[n]])]])
      BY <2>1 DEF SearchDense
    <3>2. \A n \in DOMAIN s : s[n] \in DenseMatches(vectors)
      BY DEF Rankings
    <3>3. \A n \in DOMAIN s : Fit([id |-> s[n], chunk |-> DenseCopy(vectors[s[n]])])
      BY <2>1, <3>2, MatchesAreFit DEF SearchDense, DenseMatches
    <3>4. QED
      BY <3>1, <3>3
  <2>2. CASE SearchLexical(l)
    <3>1. PICK s \in Rankings(LexicalMatches(chunks), TopK) :
            Returns(l, [n \in DOMAIN s |->
                          [id |-> s[n], chunk |-> LexicalCopy(chunks[s[n]])]])
      BY <2>2 DEF SearchLexical
    <3>2. \A n \in DOMAIN s : s[n] \in LexicalMatches(chunks)
      BY DEF Rankings
    <3>3. \A n \in DOMAIN s : Fit([id |-> s[n], chunk |-> LexicalCopy(chunks[s[n]])])
      BY <2>2, <3>2, MatchesAreFit DEF SearchLexical, LexicalMatches
    <3>4. QED
      BY <3>1, <3>3
  <2>3. QED
    BY <2>1, <2>2
<1>2. /\ hits' = [hits EXCEPT ![l] = ranked]
      /\ UNCHANGED <<pc, principal, legs, fused, results, visible, chunks, vectors>>
  BY <1>1 DEF Returns, history, written, lexicalVars
<1>3. ASSUME NEW h, Fit(h)
      PROVE  Fit(h)'
  BY <1>2, <1>3 DEF Fit, MayRead
<1>4. \A k \in DOMAIN hits' : \A n \in DOMAIN hits'[k] : Fit(hits'[k][n])
  BY <1>1, <1>2 DEF RequestInv
<1>5. QED
  BY <1>2, <1>3, <1>4 DEF RequestInv, Readable

(* Fusion keeps, of each chunk found, one of the copies that were found.   *)
LEMMA FuseKeeps ==
  ASSUME StoresInv, RequestInv, Fuse
  PROVE  RequestInv'
<1> DEFINE score == [i \in Found |-> FusedScore(i)]
<1>1. PICK s \in Rankings(Found, Cardinality(Found)),
           best \in [Found -> UNION {CopiesOf(i) : i \in Found}] :
        /\ \A i \in Found : best[i] \in CopiesOf(i)
        /\ fused' = [n \in DOMAIN s |->
                       [id |-> s[n], chunk |-> best[s[n]], score |-> score[s[n]]]]
  BY DEF Fuse
<1>2. /\ pc = "search" /\ pc' = "fused"
      /\ UNCHANGED <<principal, legs, hits, results, visible, chunks, vectors>>
  BY DEF Fuse, history, written, lexicalVars
<1>3. ASSUME NEW i \in Found
      PROVE  i \in visible /\ best[i] \in Chunks /\ MayRead(principal, best[i])
  <2>1. PICK l \in DOMAIN legs :
          RankIn(l, i) # 0 /\ best[i] = hits[l][RankIn(l, i)].chunk
    BY <1>1 DEF CopiesOf
  <2>2. RankIn(l, i) \in DOMAIN hits[l] /\ hits[l][RankIn(l, i)].id = i
    BY <2>1 DEF RankIn
  <2>3. Fit(hits[l][RankIn(l, i)])
    BY <2>1, <2>2 DEF RequestInv
  <2>4. QED
    BY <2>1, <2>2, <2>3 DEF Fit
<1>4. \A n \in DOMAIN s : s[n] \in Found
  BY DEF Rankings
<1>5. \A n \in DOMAIN fused' : Fit(fused'[n])
  BY <1>1, <1>3, <1>4 DEF Fit
<1>6. \E m \in Nat : DOMAIN fused' = 1..m
  <2>1. Cardinality(Found) \in Nat
    BY IdsCount DEF Found
  <2>2. DOMAIN s = 1..Cardinality(Found)
    BY <2>1 DEF Rankings, Smaller
  <2>3. QED
    BY <1>1, <2>1, <2>2
<1>7. ASSUME NEW h, Fit(h)
      PROVE  Fit(h)'
  BY <1>2, <1>7 DEF Fit, MayRead
<1>8. (\A n \in DOMAIN fused : Fit(fused[n]))'
  BY <1>5, <1>7
<1>9. (\A l \in DOMAIN hits : \A n \in DOMAIN hits[l] : Fit(hits[l][n]))'
  BY <1>2, <1>7 DEF RequestInv
<1>10. results' = <<>>
  BY <1>2 DEF RequestInv
<1>11. QED
  BY <1>2, <1>6, <1>8, <1>9, <1>10 DEF RequestInv

(* The recheck of fit chunks passes them all.                              *)
LEMMA FitIsKept ==
  ASSUME RequestInv
  PROVE  RecheckDropsNothing
<1>1. principal \in Principals
  BY DEF RequestInv
<1>2. QED
  BY <1>1, RuleIsMeant DEF RequestInv, Fit, RecheckDropsNothing, Kept

Listed(list) == \E n \in Nat : list = [k \in 1..n |-> list[k]]

(* What either reranker makes of the candidates is a list of fit hits.     *)
LEMMA RerankedAreFit ==
  ASSUME RequestInv, NEW candidates \in Candidates,
         NEW res \in Reranked(candidates)
  PROVE  /\ Listed(res) /\ \A k \in DOMAIN res : Fit(res[k])
         /\ (\A k \in DOMAIN fused : fused[k] \in Scored)
              => \A k \in DOMAIN res : res[k] \in Scored
<1>1. PICK m \in Nat : DOMAIN fused = 1..m
  BY DEF RequestInv
<1>2. /\ Kept \in SUBSET (1..m)
      /\ IsFiniteSet(Kept) /\ Cardinality(Kept) \in Nat
  <2>1. Kept \in SUBSET (1..m)
    BY <1>1 DEF Kept
  <2>2. IsFiniteSet(1..m)
    BY FS_Interval
  <2>3. IsFiniteSet(Kept)
    BY <2>1, <2>2, FS_Subset
  <2>4. QED
    BY <2>1, <2>3, FS_CardinalityType
<1>3. PICK s \in Smallest(Kept, TopK) :
        candidates = [j \in DOMAIN s |-> fused[s[j]]]
  BY DEF Candidates
<1> DEFINE width == Smaller(TopK, Cardinality(Kept))
<1>4. /\ width \in Nat /\ DOMAIN candidates = 1..width
      /\ \A j \in 1..width : Fit(candidates[j])
      /\ \A j \in 1..width : \E k \in DOMAIN fused : candidates[j] = fused[k]
  <2>1. s \in [1..width -> Kept] /\ width \in Nat
    BY <1>2, <1>3 DEF Smallest, Rankings, Smaller
  <2>2. \A j \in 1..width : s[j] \in DOMAIN fused
    BY <1>1, <1>2, <2>1
  <2>3. QED
    BY <1>3, <2>1, <2>2 DEF RequestInv
<1>5. Len(candidates) = width
  BY <1>3, <1>4
<1> DEFINE n == Smaller(RerankTopK, Len(candidates))
<1>6. n \in 1..width \cup {0}
  BY <1>4, <1>5 DEF Smaller
<1>7. CASE reranker = "identity"
  <2>1. res = SubSeq(candidates, 1, n)
    BY <1>7 DEF Reranked
  <2>2. SubSeq(candidates, 1, n) = [j \in 1..n |-> candidates[j]]
    BY <1>3, <1>4, <1>6
  <2>3. res = [j \in 1..n |-> candidates[j]] /\ n \in Nat
    BY <1>4, <1>6, <2>1, <2>2
  <2>4. \A k \in 1..n : Fit(res[k])
    BY <1>4, <1>6, <2>3
  <2>5. ASSUME \A k \in DOMAIN fused : fused[k] \in Scored, NEW k \in 1..n
        PROVE  res[k] \in Scored
    BY <1>4, <1>6, <2>3, <2>5
  <2>6. DOMAIN res = 1..n
    BY <2>3
  <2>7. QED
    BY <2>3, <2>4, <2>5, <2>6 DEF Listed
<1>8. CASE reranker # "identity"
  <2>1. PICK order \in Rankings(DOMAIN candidates, n),
             score \in [1..n -> {0, Scale}] :
          res = [j \in 1..n |-> [candidates[order[j]] EXCEPT !.score = score[j]]]
    BY <1>8 DEF Reranked
  <2>2. Cardinality(1..width) = width
    BY <1>4, FS_Interval
  <2>3. order \in [1..n -> 1..width]
    BY <1>4, <1>6, <2>1, <2>2 DEF Rankings, Smaller
  <2>4. ASSUME NEW k \in 1..n PROVE Fit(res[k])
    <3>1. order[k] \in 1..width
      BY <2>3
    <3>2. Fit(candidates[order[k]])
      BY <1>4, <3>1
    <3>3. res[k] = [candidates[order[k]] EXCEPT !.score = score[k]]
      BY <2>1
    <3>4. QED
      BY <3>2, <3>3 DEF Fit
  <2>5. Listed(res) /\ DOMAIN res = 1..n
    BY <1>4, <1>6, <2>1 DEF Listed
  <2>6. ASSUME \A k \in DOMAIN fused : fused[k] \in Scored, NEW k \in 1..n
        PROVE  res[k] \in Scored
    <3>1. order[k] \in 1..width /\ score[k] \in {0, Scale}
      BY <2>1, <2>3
    <3>2. candidates[order[k]] \in Scored /\ score[k] \in Nat
      BY <1>4, <2>6, <3>1, ScaleAssumption
    <3>3. res[k] = [candidates[order[k]] EXCEPT !.score = score[k]]
      BY <2>1
    <3>4. QED
      BY <3>2, <3>3 DEF Scored
  <2>7. QED
    BY <2>4, <2>5, <2>6
<1>9. QED
  BY <1>7, <1>8

LEMMA RerankKeeps ==
  ASSUME RequestInv, Rerank
  PROVE  RequestInv'
<1>1. /\ pc' = "retrieved" /\ legs' = <<>> /\ hits' = <<>> /\ fused' = <<>>
      /\ UNCHANGED <<principal, visible>>
  BY DEF Rerank
<1>2. \A n \in DOMAIN results' : Fit(results'[n])
  <2>1. PICK candidates \in Candidates : results' \in Reranked(candidates)
    BY DEF Rerank
  <2>2. QED
    BY <2>1, RerankedAreFit
<1>3. ASSUME NEW h, Fit(h)
      PROVE  Fit(h)'
  BY <1>1, <1>3 DEF Fit, MayRead
<1>4. (\A n \in DOMAIN results : Fit(results[n]))'
  BY <1>2, <1>3
<1>5. (\E m \in Nat : DOMAIN fused = 1..m)'
  <2>1. DOMAIN fused' = 1..0
    BY <1>1
  <2>2. QED
    BY <2>1
<1>6. /\ (DOMAIN legs = DOMAIN hits)'
      /\ (\A l \in DOMAIN hits : \A n \in DOMAIN hits[l] : Fit(hits[l][n]))'
      /\ (\A n \in DOMAIN fused : Fit(fused[n]))'
  BY <1>1
<1>7. principal' \in Callers
  BY <1>1 DEF RequestInv
<1>8. QED
  BY <1>1, <1>4, <1>5, <1>6, <1>7 DEF RequestInv

LEMMA RequestInvKept ==
  ASSUME StoresInv, RequestInv, [Next]_vars
  PROVE  RequestInv'
<1>1. ASSUME NEW entries \in Batches, Index(entries)
      PROVE  RequestInv'
  BY <1>1, ObservedKeeps DEF Index
<1>2. CASE IndexChunk
  BY <1>2, ObservedKeeps DEF IndexChunk
<1>3. ASSUME NEW i \in Ids, Delete(<<i>>)
      PROVE  RequestInv'
  BY <1>3, ObservedKeeps DEF Delete
<1>4. CASE DropChunk
  BY <1>4, ObservedKeeps DEF DropChunk
<1>5. ASSUME NEW p \in Callers, NEW n \in 1..MaxVariants, Ask(p, n)
      PROVE  RequestInv'
  <2>1. /\ pc = "idle" /\ pc' = "search" /\ principal' = p
        /\ visible' = Readable(vectors, p) \cup Readable(chunks, p)
        /\ UNCHANGED <<vectors, chunks, fused, results>>
        /\ hits' = [l \in 1..2 * n |-> <<>>] /\ DOMAIN legs' = 1..2 * n
    BY <1>5 DEF Ask, written, lexicalVars
  <2>2. fused' = <<>> /\ results' = <<>>
    BY <2>1 DEF RequestInv
  <2>3. /\ (DOMAIN legs = DOMAIN hits)'
        /\ (\A l \in DOMAIN hits : \A k \in DOMAIN hits[l] : Fit(hits[l][k]))'
        /\ (\A k \in DOMAIN fused : Fit(fused[k]))'
        /\ (\A k \in DOMAIN results : Fit(results[k]))'
    BY <2>1, <2>2
  <2>4. (\E m \in Nat : DOMAIN fused = 1..m)'
    BY <2>1 DEF RequestInv
  <2>5. QED
    BY <1>5, <2>1, <2>2, <2>3, <2>4 DEF RequestInv, Readable
<1>6. ASSUME NEW l \in todo, SearchDense(l) \/ SearchLexical(l)
      PROVE  RequestInv'
  BY <1>6, SearchKeeps
<1>7. CASE Fuse
  BY <1>7, FuseKeeps
<1>8. CASE Rerank
  BY <1>8, RerankKeeps
<1>9. CASE Done
  <2>1. /\ pc \in {"answered", "failed"} /\ pc' = "idle"
        /\ legs' = <<>> /\ hits' = <<>> /\ results' = <<>>
        /\ UNCHANGED <<principal, fused>>
    BY <1>9 DEF Done
  <2>2. fused' = <<>>
    BY <2>1 DEF RequestInv
  <2>3. /\ (DOMAIN legs = DOMAIN hits)'
        /\ (\A l \in DOMAIN hits : \A n \in DOMAIN hits[l] : Fit(hits[l][n]))'
        /\ (\A n \in DOMAIN fused : Fit(fused[n]))'
        /\ (\A n \in DOMAIN results : Fit(results[n]))'
    BY <2>1, <2>2
  <2>4. (\E m \in Nat : DOMAIN fused = 1..m)'
    BY <2>1 DEF RequestInv
  <2>5. QED
    BY <2>1, <2>2, <2>3, <2>4 DEF RequestInv
<1>10. CASE /\ UNCHANGED <<written, principal, legs, hits, fused, results, visible>>
            /\ pc' \in {pc, "failed", "drafted", "answered"}
            /\ pc' = "failed" => pc \in {"search", "failed"}
            /\ pc' # pc => pc # "fused"
  <2>1. ASSUME NEW h, Fit(h)
        PROVE  Fit(h)'
    BY <1>10, <2>1 DEF Fit, MayRead
  <2>2. UNCHANGED <<vectors, chunks>>
    BY <1>10 DEF written, lexicalVars
  <2>3. (\A l \in DOMAIN hits : \A n \in DOMAIN hits[l] : Fit(hits[l][n]))'
    BY <1>10, <2>1 DEF RequestInv
  <2>4. (\A n \in DOMAIN fused : Fit(fused[n]))'
    BY <1>10, <2>1 DEF RequestInv
  <2>5. (\A n \in DOMAIN results : Fit(results[n]))'
    BY <1>10, <2>1 DEF RequestInv
  <2>6. QED
    BY <1>10, <2>2, <2>3, <2>4, <2>5 DEF RequestInv, Readable
<1>11. CASE CallReturns
  <2>1. UNCHANGED <<vectors, chunks, pc, principal, legs, hits, fused, results,
                    visible>>
    BY <1>11 DEF CallReturns, EndCall, request, history
  <2>2. ASSUME NEW h, Fit(h)
        PROVE  Fit(h)'
    BY <2>1, <2>2 DEF Fit, MayRead
  <2>3. QED
    BY <2>1, <2>2 DEF RequestInv, Readable
<1>12. QED
  BY <1>1, <1>2, <1>3, <1>4, <1>5, <1>6, <1>7, <1>8, <1>9, <1>10, <1>11
  DEF Next, RetrievalNext, WriteStores, Retrieve, vars, retrievalVars, SearchFails, AnswerAtOnce,
      RefuseEarly, CallModel, ModelFails, Cite, request, history

LEMMA FitWasVisible == RequestInv => RetrievedWasVisible
BY DEF RequestInv, RetrievedWasVisible, Fit

(* The recheck of access after fusion never drops a chunk, though writers  *)
(* change tags between the searches and the filters are three others.      *)
THEOREM RecheckNeverDrops == Spec => []RecheckDropsNothing
<1>1. StoresInv /\ RequestInv /\ [Next]_vars => StoresInv' /\ RequestInv'
  BY StoresInvKept, RequestInvKept
<1>2. Init => StoresInv /\ RequestInv
  BY StoresInvStarts, RequestInvStarts
<1>3. RequestInv => RecheckDropsNothing
  BY FitIsKept
<1>4. QED
  BY <1>1, <1>2, <1>3, PTL DEF Spec

(* Nothing is retrieved, by any number of searches over stores that are    *)
(* being written, that the caller might not read in a store meanwhile.     *)
THEOREM RetrievedIsVisible == Spec => []RetrievedWasVisible
<1>1. StoresInv /\ RequestInv /\ [Next]_vars => StoresInv' /\ RequestInv'
  BY StoresInvKept, RequestInvKept
<1>2. Init => StoresInv /\ RequestInv
  BY StoresInvStarts, RequestInvStarts
<1>3. RequestInv => RetrievedWasVisible
  BY FitWasVisible
<1>4. QED
  BY <1>1, <1>2, <1>3, PTL DEF Spec

(***************************************************************************)
(* The steps of an agent turn: those it shares with the pipeline, and its  *)
(* own.                                                                    *)
(***************************************************************************)
SharedStep ==
  \/ WriteStores \/ Retrieve
  \/ \E p \in Callers : Ask(p, 1)
  \/ Done

TurnStep ==
  \/ \E k \in ToolTopK : SearchReturns(k)
  \/ SearchRaises
  \/ \E t \in MarkerTexts : Draft(t)
  \/ FinalizeOwn
  \/ StepAside

LEMMA EvidenceSteps ==
  ASSUME [EvidenceNext]_evidenceVars
  PROVE  \/ /\ [Next]_vars /\ mode' = mode
            /\ mode = "agent" => SharedStep \/ UNCHANGED vars
         \/ TurnStep /\ mode = "agent"
<1>1. ASSUME NEW p \in Callers, CallSearch(p)
      PROVE  Next /\ mode' = mode /\ SharedStep
  <2>1. Ask(p, 1) /\ 1 \in 1..MaxVariants
    BY <1>1 DEF CallSearch
  <2>2. UNCHANGED <<text, answer, mode>>
    BY <1>1 DEF CallSearch
  <2>3. RetrievalNext
    BY <2>1 DEF RetrievalNext
  <2>4. QED
    BY <2>1, <2>2, <2>3 DEF Next, SharedStep
<1>2. CASE mode = "agent" /\ (WriteStores \/ Retrieve)
           /\ UNCHANGED <<text, answer, mode, turnVars>>
  BY <1>2 DEF Next, RetrievalNext, SharedStep
<1>3. CASE NextQuestion
  BY <1>3 DEF NextQuestion, Next, SharedStep
<1>4. CASE UNCHANGED evidenceVars
  BY <1>4 DEF evidenceVars
<1>5. CASE mode = "pipeline" /\ Next /\ UNCHANGED <<mode, turnVars>>
  BY <1>5
<1>6. CASE TurnStep
  BY <1>6 DEF TurnStep, SearchReturns, SearchRaises, Draft, FinalizeOwn, StepAside
<1>7. QED
  BY <1>1, <1>2, <1>3, <1>4, <1>5, <1>6 DEF EvidenceNext, TurnStep

(* The searches' lists are there while a request searches, fuses or fails  *)
(* only, and a turn has results only until its search returns them.        *)
TurnInv ==
  /\ pc \notin {"search", "fused", "failed"} => legs = <<>> /\ hits = <<>>
  /\ mode = "agent" /\ pc # "retrieved" => results = <<>>

LEMMA TurnInvKept ==
  ASSUME RequestInv, RequestInv', TurnInv, [EvidenceNext]_evidenceVars
  PROVE  TurnInv'
<1>1. CASE [Next]_vars /\ mode' = mode
           /\ (mode = "agent" => SharedStep \/ UNCHANGED vars)
  <2>1. CASE WriteStores \/ UNCHANGED vars
    <3>1. UNCHANGED <<pc, legs, hits, results>>
      BY <2>1 DEF WriteStores, Index, IndexChunk, Delete, DropChunk,
         CallReturns, request, vars, retrievalVars
    <3>2. QED
      BY <1>1, <3>1 DEF TurnInv
  <2>2. CASE \E p \in Callers, n \in 1..MaxVariants : Ask(p, n)
    <3>1. pc' = "search"
      BY <2>2 DEF Ask
    <3>2. QED
      BY <3>1 DEF TurnInv, RequestInv
  <2>3. CASE Retrieve
    <3>1. \/ pc' \in {"search", "fused", "failed"}
          \/ pc' = "retrieved" /\ legs' = <<>> /\ hits' = <<>>
      BY <2>3 DEF Retrieve, SearchDense, SearchLexical, SearchFails, Returns,
         Fuse, Rerank
    <3>2. QED
      BY <3>1 DEF TurnInv, RequestInv
  <2>4. CASE Done
    BY <2>4 DEF Done, TurnInv
  <2>5. CASE /\ mode # "agent" /\ UNCHANGED <<legs, hits>>
             /\ pc' \in {"drafted", "answered"}
             /\ pc \notin {"search", "fused", "failed"}
    BY <1>1, <2>5 DEF TurnInv
  <2>6. QED
    BY <1>1, <2>1, <2>2, <2>3, <2>4, <2>5 DEF Next, RetrievalNext, SharedStep,
       AnswerAtOnce, RefuseEarly, CallModel, ModelFails, Cite
<1>2. CASE TurnStep /\ mode = "agent"
  <2>1. CASE \E k \in ToolTopK : SearchReturns(k)
    BY <2>1 DEF SearchReturns, TurnInv
  <2>2. CASE SearchRaises
    BY <2>2 DEF SearchRaises, TurnInv
  <2>3. CASE (\E t \in MarkerTexts : Draft(t)) \/ FinalizeOwn \/ StepAside
    <3>1. /\ UNCHANGED <<legs, hits, results>>
          /\ pc \in {"idle", "drafted"}
      BY <2>3 DEF Draft, FinalizeOwn, StepAside
    <3>2. QED
      BY <1>2, <3>1 DEF TurnInv
  <2>4. QED
    BY <1>2, <2>1, <2>2, <2>3 DEF TurnStep
<1>3. QED
  BY <1>1, <1>2, EvidenceSteps

(* A turn's own steps write no store, and drop the lists and the results   *)
(* before the history they are fit for.                                    *)
LEMMA TurnStepKeeps ==
  ASSUME StoresInv, FrequenciesExact, RequestInv, TurnInv, TurnStep
  PROVE  StoresInv' /\ FrequenciesExact' /\ RequestInv'
<1>1. UNCHANGED written
  BY DEF TurnStep, SearchReturns, SearchRaises, Draft, FinalizeOwn, StepAside
<1>2. UNCHANGED <<chunks, vectors, tf, df, docLen, avgdl, call, batch>>
  BY <1>1 DEF written, lexicalVars, stats
<1>3. StoresInv'
  BY <1>2 DEF StoresInv, Indexed
<1>4. FrequenciesExact'
  BY <1>2 DEF FrequenciesExact, With, Indexed
<1>5. /\ UNCHANGED <<principal, fused>>
      /\ pc' \in {"idle", "drafted", "answered"} /\ pc # "fused"
      /\ legs' = <<>> /\ hits' = <<>> /\ results' = <<>>
  <2>1. CASE \E k \in ToolTopK : SearchReturns(k)
    BY <2>1 DEF SearchReturns, TurnInv
  <2>2. CASE SearchRaises
    BY <2>2 DEF SearchRaises, RequestInv
  <2>3. CASE (\E t \in MarkerTexts : Draft(t)) \/ FinalizeOwn \/ StepAside
    BY <2>3 DEF Draft, FinalizeOwn, StepAside, TurnInv
  <2>4. QED
    BY <2>1, <2>2, <2>3 DEF TurnStep
<1>6. fused' = <<>>
  BY <1>5 DEF RequestInv
<1>7. /\ (DOMAIN legs = DOMAIN hits)'
      /\ (\A l \in DOMAIN hits : \A n \in DOMAIN hits[l] : Fit(hits[l][n]))'
      /\ (\A n \in DOMAIN fused : Fit(fused[n]))'
      /\ (\A n \in DOMAIN results : Fit(results[n]))'
  BY <1>5, <1>6
<1>8. (\E m \in Nat : DOMAIN fused = 1..m)'
  BY <1>5 DEF RequestInv
<1>9. RequestInv'
  BY <1>5, <1>6, <1>7, <1>8 DEF RequestInv
<1>10. QED
  BY <1>3, <1>4, <1>9

(***************************************************************************)
(* Nobody is starved.                                                      *)
(***************************************************************************)

(* A list of different chunks, as many as the caller might read in the     *)
(* vector store all along, or top_k.                                       *)
Full(list) ==
  \E k \in Nat :
    /\ DOMAIN list = 1..k
    /\ k >= Smaller(TopK, Cardinality(steady))
    /\ \A a, b \in 1..k : list[a].id = list[b].id => a = b

(* The inductive invariant: the first search is a dense one, a dense       *)
(* search that has returned has found enough, and so has fusion.           *)
SearchInv ==
  /\ visible \subseteq Ids /\ steady \subseteq Ids
  /\ pc = "search" =>
       /\ steady \subseteq Readable(vectors, principal)
       /\ 1 \in DOMAIN legs /\ legs[1] = "dense"
       /\ \A l \in DOMAIN legs : l \notin todo /\ legs[l] = "dense" => Full(hits[l])
  /\ pc = "fused" =>
       \E m \in Nat : DOMAIN fused = 1..m /\ m >= Smaller(TopK, Cardinality(steady))

(* A list stays full when less is steady.                                  *)
LEMMA FullKept ==
  ASSUME NEW list, Full(list), steady \subseteq Ids, steady' \subseteq steady
  PROVE  Full(list)'
<1>1. PICK k \in Nat : /\ DOMAIN list = 1..k
                       /\ k >= Smaller(TopK, Cardinality(steady))
                       /\ \A a, b \in 1..k : list[a].id = list[b].id => a = b
  BY DEF Full
<1>2. /\ Cardinality(steady) \in Nat /\ Cardinality(steady') \in Nat
      /\ Cardinality(steady') <= Cardinality(steady)
  BY IdsCount, FS_Subset
<1>3. k >= Smaller(TopK, Cardinality(steady'))
  BY <1>1, <1>2 DEF Smaller
<1>4. QED
  BY <1>1, <1>3 DEF Full

(* A write observed: what stays steady is still readable.                  *)
LEMMA ObservedSearch ==
  ASSUME SearchInv, Observe, UNCHANGED request
  PROVE  SearchInv'
<1>1. UNCHANGED <<pc, principal, legs, todo, hits, fused>>
  BY DEF request
<1>2. /\ visible' \subseteq Ids /\ steady' \subseteq steady /\ steady \subseteq Ids
      /\ pc = "fused" => steady' = steady
  BY DEF Observe, SearchInv, Readable, history
<1>3. CASE pc = "search"
  <2>1. steady' \subseteq Readable(vectors', principal')
    BY <1>1, <1>3 DEF Observe
  <2>2. ASSUME NEW l \in DOMAIN legs, l \notin todo, legs[l] = "dense"
        PROVE  Full(hits[l])'
    <3>1. Full(hits[l])
      BY <1>3, <2>2 DEF SearchInv
    <3>2. hits'[l] = hits[l]
      BY <1>1
    <3>3. QED
      BY <1>2, <3>1, <3>2, FullKept DEF Full
  <2>3. QED
    BY <1>1, <1>2, <1>3, <2>1, <2>2 DEF SearchInv, Readable
<1>4. CASE pc # "search"
  BY <1>1, <1>2, <1>4 DEF SearchInv
<1>5. QED
  BY <1>3, <1>4

(* Whatever the caller may read in the vector store, the dense search      *)
(* matches, in either profile.                                             *)
LEMMA ReadableIsMatched ==
  ASSUME StoresInv, RequestInv
  PROVE  Readable(vectors, principal) \subseteq DenseMatches(vectors)
<1> SUFFICES ASSUME NEW i \in Readable(vectors, principal)
             PROVE  i \in DenseMatches(vectors)
  OBVIOUS
<1>1. /\ i \in Ids /\ vectors[i] # NoChunk /\ vectors[i] \in Chunks
      /\ vectors[i].index_version = Live /\ MayRead(principal, vectors[i])
      /\ principal \in Principals
  BY DEF Readable, StoresInv, Stored, RequestInv
<1>2. MemoryAdmits(principal, Live, vectors[i])
  BY <1>1, RuleIsMeant DEF MemoryAdmits
<1>3. QdrantAdmits(principal, Live, to_payload(vectors[i]))
  BY <1>1, <1>2, FiltersAgree
<1>4. QED
  BY <1>1, <1>2, <1>3 DEF DenseMatches

(* A dense search that returns has found enough.                           *)
LEMMA DenseIsFull ==
  ASSUME StoresInv, RequestInv, SearchInv, NEW l, SearchDense(l)
  PROVE  \E list : Returns(l, list) /\ Full(list)
<1>1. PICK s \in Rankings(DenseMatches(vectors), TopK) :
        Returns(l, [n \in DOMAIN s |->
                      [id |-> s[n], chunk |-> DenseCopy(vectors[s[n]])]])
  BY DEF SearchDense
<1> DEFINE list == [n \in DOMAIN s |->
                      [id |-> s[n], chunk |-> DenseCopy(vectors[s[n]])]]
           k == Smaller(TopK, Cardinality(DenseMatches(vectors)))
<1>2. steady \subseteq DenseMatches(vectors) /\ DenseMatches(vectors) \subseteq Ids
  BY ReadableIsMatched DEF SearchDense, SearchInv, DenseMatches
<1>3. /\ Cardinality(DenseMatches(vectors)) \in Nat
      /\ Cardinality(steady) \in Nat
      /\ Cardinality(steady) <= Cardinality(DenseMatches(vectors))
  BY <1>2, IdsCount, FS_Subset
<1>4. k \in Nat /\ k >= Smaller(TopK, Cardinality(steady))
  BY <1>3 DEF Smaller
<1>5. DOMAIN s = 1..k /\ \A a, b \in DOMAIN s : s[a] = s[b] => a = b
  BY DEF Rankings
<1>6. DOMAIN list = 1..k
  BY <1>5
<1>7. \A a, b \in 1..k : list[a].id = list[b].id => a = b
  BY <1>5
<1>8. Full(list)
  BY <1>4, <1>6, <1>7 DEF Full
<1>9. QED
  BY <1>1, <1>8

(* A search that returns changes its own list only.                        *)
LEMMA SearchReturnsFull ==
  ASSUME RequestInv, SearchInv, pc = "search", NEW l \in todo, NEW list,
         Returns(l, list), legs[l] = "dense" => Full(list)
  PROVE  SearchInv'
<1>1. /\ hits' = [hits EXCEPT ![l] = list] /\ todo' = todo \ {l}
      /\ UNCHANGED <<vectors, pc, principal, legs, visible, steady, fused>>
  BY DEF Returns, written, history
<1>2. ASSUME NEW k \in DOMAIN legs, k \notin todo', legs[k] = "dense"
      PROVE  Full(hits[k])'
  <2>1. k \in DOMAIN hits
    BY DEF RequestInv
  <2>2. CASE k = l
    <3>1. hits'[k] = list /\ Full(list)
      BY <1>1, <1>2, <2>1, <2>2
    <3>2. QED
      BY <1>1, <3>1 DEF Full
  <2>3. CASE k # l
    <3>1. hits'[k] = hits[k] /\ Full(hits[k])
      BY <1>1, <1>2, <2>1, <2>3 DEF SearchInv
    <3>2. QED
      BY <1>1, <3>1 DEF Full
  <2>4. QED
    BY <2>2, <2>3
<1>3. QED
  BY <1>1, <1>2 DEF SearchInv, Readable

(* Fusion loses no chunk of a full list.                                   *)
LEMMA FusionIsFull ==
  ASSUME RequestInv, SearchInv, Fuse
  PROVE  SearchInv'
<1>1. PICK s \in Rankings(Found, Cardinality(Found)) : DOMAIN fused' = DOMAIN s
  BY DEF Fuse
<1>2. /\ pc = "search" /\ todo = {} /\ pc' = "fused"
      /\ UNCHANGED <<visible, steady>>
  BY DEF Fuse, history
<1> DEFINE list == hits[1]
<1>3. 1 \in DOMAIN legs /\ 1 \in DOMAIN hits /\ Full(list)
  BY <1>2 DEF SearchInv, RequestInv
<1>4. PICK k \in Nat : /\ DOMAIN list = 1..k
                       /\ k >= Smaller(TopK, Cardinality(steady))
                       /\ \A a, b \in 1..k : list[a].id = list[b].id => a = b
  BY <1>3 DEF Full
<1> DEFINE ids == [n \in 1..k |-> list[n].id]
<1>5. ASSUME NEW n \in 1..k PROVE ids[n] \in Found
  <2>1. ids[n] \in Ids
    BY <1>3, <1>4 DEF RequestInv, Fit, SearchInv
  <2>2. \E a \in DOMAIN hits[1] : hits[1][a].id = ids[n]
    BY <1>4
  <2>3. RankIn(1, ids[n]) \in DOMAIN hits[1]
    BY <2>2 DEF RankIn
  <2>4. RankIn(1, ids[n]) # 0
    BY <1>4, <2>3
  <2>5. QED
    BY <1>3, <2>1, <2>4 DEF Found
<1>6. ids \in Injection(1..k, Found)
  BY <1>4, <1>5 DEF Injection, IsInjective
<1>7. IsFiniteSet(Found) /\ Cardinality(Found) \in Nat
  BY IdsCount DEF Found
<1>8. Cardinality(1..k) = k
  BY FS_Interval
<1>9. k <= Cardinality(Found)
  BY <1>6, <1>7, <1>8, FS_Injection
<1>10. DOMAIN fused' = 1..Cardinality(Found)
  BY <1>1, <1>7 DEF Rankings, Smaller
<1>11. Smaller(TopK, Cardinality(steady)) \in Int
  BY IdsCount DEF SearchInv, Smaller
<1>12. Cardinality(Found) >= Smaller(TopK, Cardinality(steady))
  BY <1>4, <1>7, <1>9, <1>11
<1>13. QED
  BY <1>2, <1>7, <1>10, <1>12 DEF SearchInv

LEMMA SearchInvKept ==
  ASSUME StoresInv, RequestInv, TurnInv, SearchInv,
         [EvidenceNext]_evidenceVars
  PROVE  SearchInv'
<1>1. CASE \/ \E entries \in Batches : Index(entries)
           \/ IndexChunk
           \/ \E i \in Ids : Delete(<<i>>)
           \/ DropChunk
  BY <1>1, ObservedSearch DEF Index, IndexChunk, Delete, DropChunk
<1>2. CASE \E p \in Callers, n \in 1..MaxVariants : Ask(p, n)
  <2>1. PICK p \in Callers, n \in 1..MaxVariants : Ask(p, n)
    BY <1>2
  <2>2. /\ pc' = "search" /\ principal' = p /\ vectors' = vectors
        /\ legs' = [l \in 1..2 * n |-> IF l <= n THEN "dense" ELSE "lexical"]
        /\ todo' = 1..2 * n
        /\ visible' = Readable(vectors, p) \cup Readable(chunks, p)
        /\ steady' = Readable(vectors, p)
    BY <2>1 DEF Ask, written
  <2>3. 1 \in DOMAIN legs' /\ legs'[1] = "dense" /\ DOMAIN legs' = todo'
    BY <2>2
  <2>4. visible' \subseteq Ids /\ steady' \subseteq Ids
    BY <2>2 DEF Readable
  <2>5. QED
    BY <2>2, <2>3, <2>4 DEF SearchInv, Readable
<1>3. ASSUME NEW l \in todo, SearchDense(l) PROVE SearchInv'
  BY <1>3, DenseIsFull, SearchReturnsFull DEF SearchDense
<1>4. ASSUME NEW l \in todo, SearchLexical(l) PROVE SearchInv'
  <2>1. /\ \E list : Returns(l, list)
        /\ pc = "search" /\ legs[l] = "lexical"
    BY <1>4 DEF SearchLexical
  <2>2. QED
    BY <2>1, SearchReturnsFull
<1>5. CASE Fuse
  BY <1>5, FusionIsFull
<1>6. CASE /\ UNCHANGED <<vectors, pc, principal, legs, todo, hits, fused, steady>>
           /\ visible' = visible
  BY <1>6 DEF SearchInv, Readable, Full
<1>7. CASE /\ pc' \notin {"search", "fused"}
           /\ visible' \in {visible, {}} /\ steady' \in {steady, {}}
  BY <1>7 DEF SearchInv
<1>8. CASE WriteStores \/ \E p \in Callers, n \in 1..MaxVariants : Ask(p, n)
  <2>1. CASE CallReturns
    BY <1>6, <2>1 DEF CallReturns, request, history
  <2>2. QED
    BY <1>1, <1>2, <1>8, <2>1 DEF WriteStores
<1>9. CASE Retrieve
  <2>1. CASE \E l \in todo : SearchFails(l)
    BY <1>7, <2>1 DEF SearchFails, history
  <2>2. CASE Rerank
    BY <1>7, <2>2 DEF Rerank
  <2>3. QED
    BY <1>3, <1>4, <1>5, <1>9, <2>1, <2>2 DEF Retrieve
<1>10. CASE (\E reason \in {"empty_query", "none"} : AnswerAtOnce(reason))
            \/ RefuseEarly \/ (\E t \in MarkerTexts : CallModel(t))
            \/ ModelFails \/ Cite \/ Done \/ TurnStep
  <2>1. CASE \/ \E reason \in {"empty_query", "none"} : AnswerAtOnce(reason)
             \/ RefuseEarly \/ \E t \in MarkerTexts : CallModel(t)
             \/ ModelFails \/ Cite \/ Done
    BY <1>7, <2>1 DEF AnswerAtOnce, RefuseEarly, CallModel, ModelFails, Cite,
       Done, history
  <2>2. CASE TurnStep
    BY <1>7, <2>2 DEF TurnStep, SearchReturns, SearchRaises, Draft,
       FinalizeOwn, StepAside, history
  <2>3. QED
    BY <1>10, <2>1, <2>2
<1>11. CASE UNCHANGED vars
  BY <1>6, <1>11 DEF vars, retrievalVars, request, history, written
<1>12. QED
  BY <1>8, <1>9, <1>10, <1>11, EvidenceSteps DEF Next, RetrievalNext

(***************************************************************************)
(* The invariant and what it says of retrieval.                            *)
(***************************************************************************)
EvidenceInv ==
  /\ StoresInv /\ FrequenciesExact /\ RequestInv /\ TurnInv /\ SearchInv

LEMMA EvidenceStarts == EvidenceInit => EvidenceInv
<1> SUFFICES ASSUME EvidenceInit PROVE EvidenceInv
  OBVIOUS
<1>1. Init
  BY DEF EvidenceInit
<1>2. StoresInv /\ FrequenciesExact /\ RequestInv
  BY <1>1, StoresInvStarts, RequestInvStarts
<1>3. TurnInv /\ SearchInv
  BY <1>1 DEF Init, RetrievalInit, TurnInv, SearchInv
<1>4. QED
  BY <1>2, <1>3 DEF EvidenceInv

LEMMA EvidenceKept == EvidenceInv /\ [EvidenceNext]_evidenceVars => EvidenceInv'
<1> SUFFICES ASSUME EvidenceInv, [EvidenceNext]_evidenceVars PROVE EvidenceInv'
  OBVIOUS
<1>1. StoresInv' /\ FrequenciesExact' /\ RequestInv'
  BY EvidenceSteps, StoresInvKept, FrequenciesKept, RequestInvKept,
     TurnStepKeeps DEF EvidenceInv
<1>2. TurnInv' /\ SearchInv'
  BY <1>1, TurnInvKept, SearchInvKept DEF EvidenceInv
<1>3. QED
  BY <1>1, <1>2 DEF EvidenceInv

(* Every search, a request's or a turn's, holds only fit hits, and its     *)
(* dense lists and its fusion are full (HybridRetriever.retrieve_multi).   *)
THEOREM EvidenceInvariant == EvidenceSpec => []EvidenceInv
BY EvidenceStarts, EvidenceKept, PTL DEF EvidenceSpec

(* What is proved of one request after another holds when agent turns      *)
(* search as well: the statistics stay exact, what is retrieved was        *)
(* visible, and the recheck drops nothing.                                 *)
THEOREM RetrievalHoldsForAgents ==
  EvidenceSpec => [](StatisticsExact /\ RetrievedWasVisible /\ RecheckDropsNothing)
<1>1. EvidenceInv => StatisticsExact /\ RetrievedWasVisible /\ RecheckDropsNothing
  BY CountsAreExact, FitWasVisible, FitIsKept DEF EvidenceInv
<1>2. QED
  BY <1>1, EvidenceInvariant, PTL

(* A caller who may read n chunks of the vector store throughout a search  *)
(* is offered n candidates, or top_k, whatever else the store holds and    *)
(* whoever writes it (retrieval/hybrid.py, the filters of the stores).     *)
THEOREM NobodyIsStarved == EvidenceSpec => []NotStarved
<1>1. EvidenceInv => NotStarved
  <2> SUFFICES ASSUME EvidenceInv, pc = "fused", NEW candidates \in Candidates
               PROVE  Len(candidates) >= Smaller(TopK, Cardinality(steady))
    BY DEF NotStarved
  <2>1. PICK m \in Nat : /\ DOMAIN fused = 1..m
                         /\ m >= Smaller(TopK, Cardinality(steady))
    BY DEF EvidenceInv, SearchInv
  <2>2. Kept = 1..m
    BY <2>1, FitIsKept DEF EvidenceInv, RecheckDropsNothing
  <2>3. Cardinality(Kept) = m
    BY <2>2, FS_Interval
  <2>4. PICK s \in Smallest(Kept, TopK) :
          candidates = [j \in DOMAIN s |-> fused[s[j]]]
    BY DEF Candidates
  <2>5. DOMAIN candidates = 1..Smaller(TopK, m) /\ Smaller(TopK, m) \in Nat
    BY <2>3, <2>4 DEF Smallest, Rankings, Smaller
  <2>6. Len(candidates) = Smaller(TopK, m)
    BY <2>4, <2>5
  <2>7. Cardinality(steady) \in Nat
    BY IdsCount DEF EvidenceInv, SearchInv
  <2>8. QED
    BY <2>1, <2>6, <2>7 DEF Smaller
<1>2. QED
  BY <1>1, EvidenceInvariant, PTL

(***************************************************************************)
(* The pipeline's citations.                                               *)
(***************************************************************************)

(* A set of positions has a first one.                                     *)
LEMMA FirstPosition ==
  ASSUME NEW n \in Nat, NEW at \in SUBSET (1..n), at # {}
  PROVE  Min(at) \in at /\ \A k \in at : Min(at) <= k
<1>1. at \in SUBSET Nat
  OBVIOUS
<1>2. PICK m \in at : \A k \in at : m <= k
  BY <1>1, LeastExists
<1>3. QED
  BY <1>2 DEF Min

(* SetToSeq of at most one element.                                        *)
LEMMA SingletonListed ==
  /\ SetToSeq({}) = <<>> /\ ToSet(<<>>) = {}
  /\ \A r : SetToSeq({r}) = <<r>> /\ ToSet(<<r>>) = {r}
<1>1. SetToSeq({}) = <<>>
  <2>1. Cardinality({}) = 0 /\ 1..0 = {}
    BY FS_EmptySet
  <2>2. IsInjective(<<>>) /\ <<>> \in [1..0 -> {}]
    BY <2>1 DEF IsInjective
  <2>3. \A f \in [1..0 -> {}] : f = <<>>
    BY <2>1
  <2>4. QED
    BY <2>1, <2>2, <2>3 DEF SetToSeq
<1>2. ASSUME NEW r PROVE SetToSeq({r}) = <<r>>
  <2>1. Cardinality({r}) = 1 /\ 1..1 = {1}
    <3>1. Cardinality({r}) = 1
      BY FS_Singleton, Zenon
    <3>2. 1..1 = {1}
      OBVIOUS
    <3>3. QED
      BY <3>1, <3>2
  <2>2. IsInjective(<<r>>) /\ <<r>> \in [1..1 -> {r}]
    BY <2>1 DEF IsInjective
  <2>3. \A f \in [1..1 -> {r}] : f = <<r>>
    BY <2>1
  <2>4. QED
    BY <2>1, <2>2, <2>3 DEF SetToSeq
<1>3. ToSet(<<>>) = {} /\ \A r : ToSet(<<r>>) = {r}
  BY DEF ToSet
<1>4. QED
  BY <1>1, <1>2, <1>3

(* A marker resolves to one retrieved chunk, or to none.                   *)
LEMMA ResolvedOnce ==
  ASSUME NEW n \in Nat, DOMAIN results = 1..n, NEW m
  PROVE  Resolved(m) = {} \/ \E r \in Retrieved : Resolved(m) = {r}
<1> DEFINE alike == {k \in DOMAIN results : results[k].id \in Loose[m]}
<1>1. CASE m \in Retrieved
  BY <1>1 DEF Resolved
<1>2. CASE m \notin Retrieved /\ alike = {}
  BY <1>2 DEF Resolved
<1>3. CASE m \notin Retrieved /\ alike # {}
  <2>1. Min(alike) \in alike
    BY <1>3, FirstPosition
  <2>2. results[Min(alike)].id \in Retrieved
    BY <2>1 DEF Retrieved
  <2>3. Resolved(m) = {results[Min(alike)].id}
    BY <1>3 DEF Resolved
  <2>4. QED
    BY <2>2, <2>3
<1>4. QED
  BY <1>1, <1>2, <1>3

(* The marked citations are what the markers resolve to, each once.        *)
LEMMA MarkedIsExact ==
  ASSUME NEW n \in Nat, DOMAIN results = 1..n, text \in Seq(Markers)
  PROVE  /\ Marked \in Seq(Retrieved)
         /\ ToSet(Marked) = UNION {Resolved(text[k]) : k \in DOMAIN text}
         /\ Cardinality(ToSet(Marked)) = Len(Marked)
<1> DEFINE len == Len(text)
           hit == [k \in 1..len |-> SetToSeq(Resolved(text[k]))]
<1>1. len \in Nat /\ DOMAIN text = 1..len
  OBVIOUS
<1>2. ASSUME NEW k \in 1..len
      PROVE  /\ hit[k] \in Seq(Retrieved) /\ ToSet(hit[k]) = Resolved(text[k])
             /\ (hit[k] = <<>> \/ \E r \in Retrieved : hit[k] = <<r>>)
  <2>1. hit[k] = SetToSeq(Resolved(text[k]))
    OBVIOUS
  <2> DEFINE h == hit[k]
             found == Resolved(text[k])
  <2>2. h = SetToSeq(found)
    BY <2>1
  <2>3. found = {} \/ \E r \in Retrieved : found = {r}
    BY ResolvedOnce
  <2> HIDE DEF h, found
  <2>4. CASE found = {}
    <3>1. h = <<>> /\ ToSet(h) = found
      BY <2>2, <2>4, SingletonListed
    <3>2. h \in Seq(Retrieved)
      BY <3>1
    <3>3. QED
      BY <3>1, <3>2 DEF h, found
  <2>5. CASE \E r \in Retrieved : found = {r}
    <3>1. PICK r \in Retrieved : found = {r}
      BY <2>5
    <3>2. h = <<r>> /\ ToSet(h) = found
      BY <2>2, <3>1, SingletonListed
    <3>3. h \in Seq(Retrieved) /\ \E q \in Retrieved : h = <<q>>
      BY <3>1, <3>2
    <3>4. QED
      BY <3>2, <3>3 DEF h, found
  <2>6. QED
    BY <2>3, <2>4, <2>5
<1>3. hit \in [1..len -> Seq(Retrieved)]
  BY <1>2
<1>h. Hitting(len, Retrieved, hit)
  BY <1>2, <1>3 DEF Hitting
<1> DEFINE Marking(iter) ==
      iter = [s \in SUBSET (DOMAIN text) |->
                IF s = {} THEN <<>>
                ELSE IF Resolved(text[Max(s)]) \subseteq ToSet(iter[s \ {Max(s)}])
                     THEN iter[s \ {Max(s)}]
                     ELSE iter[s \ {Max(s)}] \o SetToSeq(Resolved(text[Max(s)]))]
<1>4. \A iter0 : Marking(iter0) => \E iter : Marking(iter) /\ Marked = iter[DOMAIN text]
  BY Zenon DEF Marked, FoldLeft, MapThenFoldSet
<1>5. ASSUME NEW s \in SUBSET (1..len), s # {}
      PROVE  /\ ToSet(hit[Max(s)]) = Resolved(text[Max(s)])
             /\ hit[Max(s)] = SetToSeq(Resolved(text[Max(s)]))
  <2>1. Max(s) \in 1..len
    BY <1>1, <1>5, LastPosition
  <2>2. QED
    BY <1>2, <2>1
<1> HIDE DEF hit, len
<1>6. ASSUME NEW iter PROVE Marking(iter) <=> Collecting(iter, len, hit)
  <2> DEFINE left == [s \in SUBSET (DOMAIN text) |->
                IF s = {} THEN <<>>
                ELSE IF Resolved(text[Max(s)]) \subseteq ToSet(iter[s \ {Max(s)}])
                     THEN iter[s \ {Max(s)}]
                     ELSE iter[s \ {Max(s)}] \o SetToSeq(Resolved(text[Max(s)]))]
             right == [s \in SUBSET (1..len) |->
                IF s = {} THEN <<>>
                ELSE IF ToSet(hit[Max(s)]) \subseteq ToSet(iter[s \ {Max(s)}])
                     THEN iter[s \ {Max(s)}]
                     ELSE iter[s \ {Max(s)}] \o hit[Max(s)]]
  <2>1. left = right
    BY <1>1, <1>5
  <2>2. QED
    BY <2>1 DEF Collecting
<1> HIDE DEF Marking
<1>7. PICK f : Collecting(f, len, hit) /\ Marked = f[1..len]
  BY <1>1, <1>h, <1>4, <1>6, CollectionExists
<1>8. /\ f[1..len] \in Seq(Retrieved)
      /\ ToSet(f[1..len]) = UNION {ToSet(hit[k]) : k \in 1..len}
      /\ Cardinality(ToSet(f[1..len])) = Len(f[1..len])
  BY <1>1, <1>7, <1>h, CollectionIsExact
<1>9. UNION {ToSet(hit[k]) : k \in 1..len} = UNION {Resolved(text[k]) : k \in DOMAIN text}
  BY <1>1, <1>2
<1>10. QED
  BY <1>7, <1>8, <1>9

(* What resolve_citations makes of any text.                               *)
LEMMA CitationsAreExact ==
  ASSUME NEW n \in Nat, results = [k \in 1..n |-> results[k]],
         text \in Seq(Markers), results # <<>>
  PROVE  /\ ToSet(resolve_citations) \subseteq Retrieved
         /\ Cardinality(ToSet(resolve_citations)) = Len(resolve_citations)
         /\ Retrieved \cap ToSet(text) \subseteq ToSet(resolve_citations)
<1>0. DOMAIN results = 1..n /\ 1 \in DOMAIN results
  <2>1. DOMAIN results = 1..n
    OBVIOUS
  <2>2. n # 0
    OBVIOUS
  <2>3. QED
    BY <2>1, <2>2
<1>1. /\ Marked \in Seq(Retrieved)
      /\ ToSet(Marked) = UNION {Resolved(text[k]) : k \in DOMAIN text}
      /\ Cardinality(ToSet(Marked)) = Len(Marked)
  BY <1>0, MarkedIsExact
<1>2. Retrieved \cap ToSet(text) \subseteq ToSet(Marked)
  <2> SUFFICES ASSUME NEW k \in DOMAIN text, text[k] \in Retrieved
               PROVE  text[k] \in ToSet(Marked)
    BY DEF ToSet
  <2>1. Resolved(text[k]) = {text[k]}
    BY DEF Resolved
  <2>2. QED
    BY <1>1, <2>1
<1>3. CASE Marked = <<>> /\ results # <<>>
  <2>1. resolve_citations = <<results[1].id>>
    BY <1>3 DEF resolve_citations
  <2>2. results[1].id \in Retrieved
    BY <1>0 DEF Retrieved
  <2>3. ToSet(Marked) = {}
    BY <1>3, SingletonListed
  <2>4. Cardinality({results[1].id}) = 1 /\ Len(<<results[1].id>>) = 1
    BY FS_Singleton
  <2>5. QED
    BY <1>2, <2>1, <2>2, <2>3, <2>4, SingletonListed
<1>4. CASE ~(Marked = <<>> /\ results # <<>>)
  <2>1. resolve_citations = Marked
    BY <1>4 DEF resolve_citations
  <2>2. ToSet(Marked) \subseteq Retrieved
    BY <1>1 DEF ToSet
  <2>3. QED
    BY <1>1, <1>2, <2>1, <2>2
<1>5. QED
  BY <1>3, <1>4

(* The inductive invariant: a request has a text and an answer only when   *)
(* they are written, an agent's turn leaves the pipeline's answer alone,   *)
(* and an answer cites as it should.                                       *)
AnswerInv ==
  /\ text \in Seq(Markers) /\ Listed(results)
  /\ pc \notin {"drafted", "answered"} => text = <<>>
  /\ pc # "answered" \/ mode = "agent" => answer = NoAnswer
  /\ ToSet(answer.citations) \subseteq Retrieved
  /\ Cardinality(ToSet(answer.citations)) = Len(answer.citations)
  /\ ExactMarkerCited

(* The steps of EvidenceNext, by what they do to the answer.               *)
AnswerStep ==
  \/ \E reason \in {"empty_query", "none"} : AnswerAtOnce(reason)
  \/ RefuseEarly
  \/ \E t \in MarkerTexts : CallModel(t)
  \/ ModelFails
  \/ Cite

LEMMA EvidenceCases ==
  ASSUME [EvidenceNext]_evidenceVars
  PROVE  \/ RetrievalNext /\ UNCHANGED <<text, answer, mode>>
         \/ Done
         \/ mode = "pipeline" /\ mode' = mode /\ AnswerStep
         \/ TurnStep /\ mode = "agent"
         \/ UNCHANGED <<vars, mode>>
<1>1. ASSUME NEW p \in Callers, CallSearch(p)
      PROVE  RetrievalNext /\ UNCHANGED <<text, answer, mode>>
  <2>1. Ask(p, 1) /\ 1 \in 1..MaxVariants
    BY <1>1 DEF CallSearch
  <2>2. QED
    BY <1>1, <2>1 DEF CallSearch, RetrievalNext
<1>2. CASE mode = "agent" /\ (WriteStores \/ Retrieve)
           /\ UNCHANGED <<text, answer, mode, turnVars>>
  BY <1>2 DEF RetrievalNext
<1>3. CASE NextQuestion
  BY <1>3 DEF NextQuestion
<1>4. CASE UNCHANGED evidenceVars
  BY <1>4 DEF evidenceVars
<1>5. CASE mode = "pipeline" /\ Next /\ UNCHANGED <<mode, turnVars>>
  BY <1>5 DEF Next, AnswerStep
<1>6. CASE TurnStep
  BY <1>6 DEF TurnStep, SearchReturns, SearchRaises, Draft, FinalizeOwn, StepAside
<1>7. QED
  BY <1>1, <1>2, <1>3, <1>4, <1>5, <1>6 DEF EvidenceNext, TurnStep

LEMMA NothingCited ==
  ASSUME NEW a, a.citations = <<>>
  PROVE  /\ ToSet(a.citations) = {}
         /\ Cardinality(ToSet(a.citations)) = Len(a.citations)
BY SingletonListed, FS_EmptySet

LEMMA EmptyListed == Listed(<<>>)
<1>1. <<>> = [k \in 1..0 |-> <<>>[k]]
  OBVIOUS
<1>2. QED
  BY <1>1 DEF Listed

LEMMA TextsAreSequences == \A t \in MarkerTexts : t \in Seq(Markers)
BY TextAssumption DEF MarkerTexts

LEMMA CiteKeeps ==
  ASSUME AnswerInv, Cite, mode' = mode, mode # "agent"
  PROVE  AnswerInv'
<1>1. /\ pc = "drafted" /\ pc' = "answered" /\ UNCHANGED <<text, results>>
      /\ answer' = Answer(should_refuse(resolve_citations), resolve_citations)
  BY DEF Cite
<1>2. CASE should_refuse(resolve_citations) = "none"
  <2>1. results # <<>>
    BY <1>2 DEF should_refuse
  <2>2. PICK n \in Nat : results = [k \in 1..n |-> results[k]]
    BY DEF AnswerInv, Listed
  <2>3. /\ ToSet(resolve_citations) \subseteq Retrieved
        /\ Cardinality(ToSet(resolve_citations)) = Len(resolve_citations)
        /\ Retrieved \cap ToSet(text) \subseteq ToSet(resolve_citations)
    BY <2>1, <2>2, CitationsAreExact DEF AnswerInv
  <2>4. answer'.citations = resolve_citations
    BY <1>1, <1>2 DEF Answer
  <2>5. Retrieved' = Retrieved
    BY <1>1 DEF Retrieved
  <2>6. QED
    BY <1>1, <2>3, <2>4, <2>5 DEF AnswerInv, ExactMarkerCited, Listed
<1>3. CASE should_refuse(resolve_citations) # "none"
  <2>1. answer'.citations = <<>> /\ answer'.refused
    BY <1>1, <1>3 DEF Answer
  <2>2. QED
    BY <1>1, <2>1, NothingCited DEF AnswerInv, ExactMarkerCited, Listed
<1>4. QED
  BY <1>2, <1>3

LEMMA AnswerInvKept ==
  ASSUME EvidenceInv, EvidenceInv', AnswerInv, [EvidenceNext]_evidenceVars
  PROVE  AnswerInv'
(* Steps that answer nothing, and have nothing to cite or a text as before. *)
<1>1. ASSUME pc' # "answered", answer' = NoAnswer, text' \in Seq(Markers),
             Listed(results'), pc' # "drafted" => text' = <<>>
      PROVE  AnswerInv'
  <2>1. answer'.citations = <<>>
    BY <1>1 DEF NoAnswer
  <2>2. QED
    BY <1>1, <2>1, NothingCited DEF AnswerInv, ExactMarkerCited, Listed
<1>2. ASSUME UNCHANGED <<pc, text, answer, results, mode>>
      PROVE  AnswerInv'
  BY <1>2 DEF AnswerInv, ExactMarkerCited, Listed, Retrieved
<1>3. ASSUME pc' = "answered", mode' # "agent", text' = text,
             pc \in {"idle", "retrieved"}, results' = results,
             NEW reason, answer' = Answer(reason, <<>>)
      PROVE  AnswerInv'
  <2>1. answer'.citations = <<>>
    BY <1>3 DEF Answer
  <2>2. text' = <<>>
    BY <1>3 DEF AnswerInv
  <2>3. Retrieved' \cap ToSet(text') = {}
    BY <2>2, SingletonListed
  <2>4. QED
    BY <1>3, <2>1, <2>2, <2>3, NothingCited DEF AnswerInv, ExactMarkerCited, Listed
<1>4. Listed(results) /\ Listed(<<>>) /\ text \in Seq(Markers) /\ <<>> \in Seq(Markers)
  BY EmptyListed DEF AnswerInv
<1>5. CASE RetrievalNext /\ UNCHANGED <<text, answer, mode>>
  <2>1. CASE WriteStores
    BY <1>2, <1>5, <2>1 DEF WriteStores, Index, IndexChunk, Delete, DropChunk,
       CallReturns, request
  <2>2. CASE ~WriteStores
    <3>1. /\ pc \in {"idle", "search", "fused"}
          /\ pc' \in {"search", "fused", "failed", "retrieved"}
          /\ results' = results \/ Rerank
      BY <1>5, <2>2 DEF RetrievalNext, Ask, Retrieve, SearchDense, SearchLexical,
         SearchFails, Returns, Fuse, Rerank
    <3>2. Listed(results')
      <4>1. ASSUME Rerank PROVE Listed(results')
        <5>1. PICK candidates \in Candidates : results' \in Reranked(candidates)
          BY <4>1 DEF Rerank
        <5>2. QED
          BY <5>1, RerankedAreFit DEF EvidenceInv
      <4>2. QED
        BY <1>4, <3>1, <4>1
    <3>3. QED
      BY <1>1, <1>5, <3>1, <3>2 DEF AnswerInv
  <2>3. QED
    BY <2>1, <2>2
<1>6. CASE Done
  BY <1>1, <1>4, <1>6 DEF Done
<1>7. CASE mode = "pipeline" /\ mode' = mode /\ AnswerStep
  <2>1. CASE \E t \in MarkerTexts : CallModel(t)
    BY <1>1, <1>4, <2>1, TextsAreSequences DEF CallModel, AnswerInv
  <2>2. CASE Cite
    BY <1>7, <2>2, CiteKeeps
  <2>3. CASE (\E reason \in {"empty_query", "none"} : AnswerAtOnce(reason))
             \/ RefuseEarly \/ ModelFails
    <3>1. /\ pc \in {"idle", "retrieved"} /\ pc' = "answered"
          /\ UNCHANGED <<text, results>>
          /\ \E reason : answer' = Answer(reason, <<>>)
      BY <2>3 DEF AnswerAtOnce, RefuseEarly, ModelFails
    <3>2. QED
      BY <1>3, <1>7, <3>1
  <2>4. QED
    BY <1>7, <2>1, <2>2, <2>3 DEF AnswerStep
<1>8. CASE TurnStep /\ mode = "agent"
  <2>0. answer = NoAnswer
    BY <1>8 DEF AnswerInv
  <2>1. CASE \E k \in ToolTopK : SearchReturns(k)
    BY <1>1, <1>4, <2>0, <2>1 DEF SearchReturns, AnswerInv
  <2>2. CASE SearchRaises
    BY <1>1, <1>4, <2>0, <2>2 DEF SearchRaises, AnswerInv
  <2>3. CASE \E t \in MarkerTexts : Draft(t)
    BY <1>1, <1>4, <2>0, <2>3, TextsAreSequences DEF Draft
  <2>4. CASE FinalizeOwn
    <3>1. /\ pc' = "answered" /\ mode' = "agent" /\ UNCHANGED <<text, answer>>
          /\ pc = "drafted" /\ results' = results
      BY <1>8, <2>4 DEF FinalizeOwn
    <3>2. results' = <<>>
      BY <1>8, <3>1 DEF EvidenceInv, TurnInv
    <3>3. Retrieved' = {}
      BY <3>2 DEF Retrieved
    <3>4. answer'.citations = <<>>
      BY <2>0, <3>1 DEF NoAnswer
    <3>5. QED
      BY <1>4, <2>0, <3>1, <3>2, <3>3, <3>4, NothingCited
      DEF AnswerInv, ExactMarkerCited
  <2>5. CASE StepAside
    BY <1>1, <1>4, <2>0, <2>5 DEF StepAside
  <2>6. QED
    BY <1>8, <2>1, <2>2, <2>3, <2>4, <2>5 DEF TurnStep
<1>9. CASE UNCHANGED <<vars, mode>>
  BY <1>2, <1>9 DEF vars, retrievalVars, request
<1>10. QED
  BY <1>5, <1>6, <1>7, <1>8, <1>9, EvidenceCases

LEMMA AnswerInvStarts == EvidenceInit => AnswerInv
<1> SUFFICES ASSUME EvidenceInit PROVE AnswerInv
  OBVIOUS
<1>1. pc = "idle" /\ text = <<>> /\ answer = NoAnswer /\ results = <<>>
  BY DEF EvidenceInit, Init, RetrievalInit
<1>2. answer.citations = <<>> /\ <<>> \in Seq(Markers)
  BY <1>1 DEF NoAnswer
<1>3. QED
  BY <1>1, <1>2, EmptyListed, NothingCited DEF AnswerInv, ExactMarkerCited

(* What the pipeline answers cites what it retrieved, at every step of     *)
(* generate_grounded, whatever agent turns come in between.                *)
THEOREM AnswerInvariant == EvidenceSpec => []AnswerInv
<1>1. EvidenceInv /\ EvidenceInv' /\ AnswerInv /\ [EvidenceNext]_evidenceVars => AnswerInv'
  BY AnswerInvKept
<1>2. QED
  BY <1>1, AnswerInvStarts, EvidenceInvariant, PTL DEF EvidenceSpec

(* A citation is no invention: whatever the model writes, an answer of the *)
(* pipeline cites chunks retrieved for its caller, which he might read     *)
(* while it retrieved, each once (generation/citations.py).                *)
THEOREM CitationsAreRetrieved == EvidenceSpec => []CitesRetrieved
<1>1. EvidenceInv /\ AnswerInv => CitesRetrieved
  <2> SUFFICES ASSUME EvidenceInv, AnswerInv PROVE CitesRetrieved
    OBVIOUS
  <2>1. Retrieved \subseteq visible
    BY DEF EvidenceInv, RequestInv, Fit, Retrieved
  <2>2. QED
    BY <2>1 DEF AnswerInv, CitesRetrieved
<1>2. QED
  BY <1>1, EvidenceInvariant, AnswerInvariant, PTL

(* A marker that is the id of a retrieved chunk cites it, whatever other   *)
(* ids resemble it and whatever the rest of the text cites.                *)
THEOREM FullMarkersAreCited == EvidenceSpec => []ExactMarkerCited
<1>1. AnswerInv => ExactMarkerCited
  BY DEF AnswerInv
<1>2. QED
  BY <1>1, AnswerInvariant, PTL

(***************************************************************************)
(* Fusion respects the lists it fuses.                                     *)
(***************************************************************************)

(* While a request searches, its searches are numbered, and so are the     *)
(* hits of each.                                                           *)
Numbered ==
  /\ \E m \in Nat : DOMAIN legs = 1..m
  /\ \A l \in DOMAIN legs : \E k \in Nat : DOMAIN hits[l] = 1..k

LEMMA RanksAreNumbers ==
  ASSUME Numbered, NEW l \in DOMAIN legs, NEW i
  PROVE  RankIn(l, i) \in Nat
<1>1. PICK k \in Nat : DOMAIN hits[l] = 1..k
  BY DEF Numbered
<1>2. CASE \E n \in DOMAIN hits[l] : hits[l][n].id = i
  <2>1. RankIn(l, i) \in DOMAIN hits[l]
    BY <1>2 DEF RankIn
  <2>2. QED
    BY <1>1, <2>1
<1>3. CASE ~\E n \in DOMAIN hits[l] : hits[l][n].id = i
  BY <1>3 DEF RankIn
<1>4. QED
  BY <1>2, <1>3

(* 1 / rank falls as the rank rises, also in whole multiples of 1 / Scale. *)
LEMMA QuotientFalls ==
  ASSUME NEW s \in Nat, NEW x \in Nat \ {0}, NEW y \in Nat \ {0}, x <= y
  PROVE  s \div x \in Nat /\ s \div y \in Nat /\ s \div x >= s \div y
<1> DEFINE p == s \div x
           q == s \div y
<1>1. p \in Nat /\ q \in Nat
  OBVIOUS
<1>2. s < x * (p + 1) /\ y * q <= s
  OBVIOUS
<1> HIDE DEF p, q
<1>3. x * q <= y * q
  BY <1>1
<1>4. x * q < x * (p + 1)
  BY <1>1, <1>2, <1>3
<1>5. q < p + 1
  BY <1>1, <1>4
<1>6. p >= q
  BY <1>1, <1>5
<1>7. QED
  BY <1>1, <1>6 DEF p, q

LEMMA ShareGrows ==
  ASSUME Numbered, NEW l \in DOMAIN legs, NEW a, NEW b,
         RankIn(l, b) # 0 => RankIn(l, a) # 0 /\ RankIn(l, a) <= RankIn(l, b)
  PROVE  /\ Share(l, a) \in Nat /\ Share(l, b) \in Nat
         /\ Share(l, a) >= Share(l, b)
<1> DEFINE ra == RankIn(l, a)
           rb == RankIn(l, b)
           w == Weight(l)
           qa == Scale \div (RrfK + ra)
           qb == Scale \div (RrfK + rb)
<1>1. ra \in Nat /\ rb \in Nat
  BY RanksAreNumbers
<1>2. w \in Nat /\ Scale \in Nat /\ RrfK \in Nat
  BY ScaleAssumption DEF Weight
<1>3. /\ Share(l, a) = IF ra = 0 THEN 0 ELSE w * qa
      /\ Share(l, b) = IF rb = 0 THEN 0 ELSE w * qb
  BY DEF Share
<1>4. rb # 0 => ra # 0 /\ ra <= rb
  OBVIOUS
<1> HIDE DEF ra, rb, w
<1>5. ra # 0 => qa \in Nat
  BY <1>1, <1>2, QuotientFalls
<1>6. ASSUME rb # 0 PROVE qb \in Nat /\ qa \in Nat /\ qa >= qb
  <2>1. /\ RrfK + ra \in Nat \ {0} /\ RrfK + rb \in Nat \ {0}
        /\ RrfK + ra <= RrfK + rb
    BY <1>1, <1>2, <1>4, <1>6
  <2>2. QED
    BY <1>2, <2>1, QuotientFalls
<1> HIDE DEF qa, qb
<1>7. CASE rb = 0
  BY <1>2, <1>3, <1>5, <1>7
<1>8. CASE rb # 0
  <2>1. w * qa \in Nat /\ w * qb \in Nat /\ w * qa >= w * qb
    BY <1>2, <1>6, <1>8
  <2>2. QED
    BY <1>3, <1>4, <1>8, <2>1
<1>9. QED
  BY <1>7, <1>8

(* The score of a chunk is the sum of its shares.                          *)
SharesOf(i) == [l \in DOMAIN legs |-> Share(l, i)]

LEMMA ScoreIsSum ==
  ASSUME NEW m \in Nat, DOMAIN legs = 1..m, NEW i,
         SharesOf(i) \in [1..m -> Nat]
  PROVE  \E f : Summing(f, 1..m, SharesOf(i)) /\ FusedScore(i) = f[1..m]
<1> DEFINE Shares(f) ==
             f = [s \in SUBSET (DOMAIN legs) |->
                    IF s = {} THEN 0
                    ELSE Share(CHOOSE x \in s : TRUE, i)
                           + f[s \ {CHOOSE x \in s : TRUE}]]
<1>1. FusedScore(i) = (CHOOSE f : Shares(f))[DOMAIN legs]
  BY Zenon DEF FusedScore, MapThenSumSet, MapThenFoldSet
<1>2. ASSUME NEW f PROVE Shares(f) <=> Summing(f, 1..m, SharesOf(i))
  <2>1. ASSUME NEW s \in SUBSET (1..m)
        PROVE  (IF s = {} THEN 0 ELSE Share(AnyOf(s), i) + f[s \ {AnyOf(s)}])
                 = IF s = {} THEN 0 ELSE SharesOf(i)[AnyOf(s)] + f[s \ {AnyOf(s)}]
    <3>1. s # {} => AnyOf(s) \in 1..m
      BY OneLess
    <3>2. QED
      BY <3>1, Zenon DEF SharesOf
  <2>2. Shares(f) <=> f = [s \in SUBSET (1..m) |->
                             IF s = {} THEN 0
                             ELSE Share(AnyOf(s), i) + f[s \ {AnyOf(s)}]]
    BY Zenon DEF AnyOf
  <2> HIDE DEF Shares
  <2>3. [s \in SUBSET (1..m) |->
           IF s = {} THEN 0 ELSE Share(AnyOf(s), i) + f[s \ {AnyOf(s)}]]
          = [s \in SUBSET (1..m) |->
               IF s = {} THEN 0 ELSE SharesOf(i)[AnyOf(s)] + f[s \ {AnyOf(s)}]]
    BY <2>1, Zenon
  <2>4. QED
    BY <2>2, <2>3, Zenon DEF Summing
<1>3. \E f : Shares(f)
  <2>1. PICK f : Summing(f, 1..m, SharesOf(i))
    BY SumExists
  <2> HIDE DEF Shares
  <2>2. Shares(f)
    BY <1>2, <2>1
  <2>3. QED
    BY <2>2
<1>4. Shares(CHOOSE f : Shares(f))
  BY <1>3, Zenon
<1>5. QED
  BY <1>1, <1>2, <1>4, Zenon

(* What is ahead in every list has at least the score of what it is ahead  *)
(* of.                                                                     *)
Dominates(a, b) ==
  \A l \in DOMAIN legs :
    RankIn(l, b) # 0 => RankIn(l, a) # 0 /\ RankIn(l, a) <= RankIn(l, b)

LEMMA ScoresRespectRanks ==
  ASSUME Numbered, NEW a, NEW b, Dominates(a, b)
  PROVE  FusedScore(a) \in Nat /\ FusedScore(b) \in Nat
         /\ FusedScore(a) >= FusedScore(b)
<1>1. PICK m \in Nat : DOMAIN legs = 1..m
  BY DEF Numbered
<1>2. \A l \in 1..m : /\ Share(l, a) \in Nat /\ Share(l, b) \in Nat
                      /\ Share(l, a) >= Share(l, b)
  BY <1>1, ShareGrows DEF Dominates
<1>3. /\ SharesOf(a) \in [1..m -> Nat] /\ SharesOf(b) \in [1..m -> Nat]
      /\ \A l \in 1..m : SharesOf(a)[l] >= SharesOf(b)[l]
  BY <1>1, <1>2 DEF SharesOf
<1>4. PICK f : Summing(f, 1..m, SharesOf(a)) /\ FusedScore(a) = f[1..m]
  BY <1>1, <1>3, ScoreIsSum
<1>5. PICK g : Summing(g, 1..m, SharesOf(b)) /\ FusedScore(b) = g[1..m]
  BY <1>1, <1>3, ScoreIsSum
<1>6. f[1..m] \in Nat /\ g[1..m] \in Nat /\ f[1..m] >= g[1..m]
  BY <1>3, <1>4, <1>5, SumGrows, Zenon
<1>7. QED
  BY <1>4, <1>5, <1>6

(* ... and enters the dictionary of scores no later.                       *)
LEMMA PlacesRespectRanks ==
  ASSUME Numbered, NEW a, NEW b \in Found, Dominates(a, b)
  PROVE  Place(a) \in Nat /\ Place(b) \in Nat /\ Place(a) <= Place(b)
<1> DEFINE Of(i) == {k \in DOMAIN legs : RankIn(k, i) # 0}
           Places(i) == {l * (TopK + 1) + RankIn(l, i) : l \in Of(i)}
<1>1. TopK \in Nat
  OBVIOUS
<1>2. ASSUME NEW i, NEW l \in DOMAIN legs
      PROVE  l * (TopK + 1) + RankIn(l, i) \in Nat
  <2>1. RankIn(l, i) \in Nat
    BY RanksAreNumbers
  <2>2. l \in Nat
    BY DEF Numbered
  <2>3. QED
    BY <1>1, <2>1, <2>2
<1>3. ASSUME NEW i, Of(i) # {}
      PROVE  Place(i) \in Places(i) /\ Place(i) \in Nat
             /\ \A n \in Places(i) : Place(i) <= n
  <2>1. Place(i) = Min(Places(i))
    BY Zenon DEF Place
  <2>2. Places(i) \in SUBSET Nat /\ Places(i) # {}
    BY <1>2, <1>3
  <2> HIDE DEF Places
  <2>3. PICK n \in Places(i) : \A k \in Places(i) : n <= k
    BY <2>2, LeastExists
  <2>4. Min(Places(i)) \in Places(i) /\ \A k \in Places(i) : Min(Places(i)) <= k
    BY <2>3 DEF Min
  <2>5. QED
    BY <2>1, <2>2, <2>4
<1>4. Of(b) # {}
  BY DEF Found
<1>5. PICK l \in Of(b) : Place(b) = l * (TopK + 1) + RankIn(l, b)
  BY <1>3, <1>4
<1>6. l \in Of(a) /\ RankIn(l, a) <= RankIn(l, b)
  BY <1>5 DEF Dominates
<1>7. Place(a) <= l * (TopK + 1) + RankIn(l, a) /\ Place(a) \in Nat
  BY <1>3, <1>6
<1>8. /\ RankIn(l, a) \in Nat /\ RankIn(l, b) \in Nat
      /\ l * (TopK + 1) \in Nat /\ Place(b) \in Nat
  <2>1. l \in Nat
    BY DEF Numbered
  <2>2. QED
    BY <1>1, <1>3, <1>4, <2>1, RanksAreNumbers
<1>9. QED
  BY <1>5, <1>6, <1>7, <1>8

(* Fuse sorts by score, then by place, so it leaves what dominates ahead.  *)
LEMMA FusionIsOrdered ==
  ASSUME Numbered, Fuse
  PROVE  FusionRespectsLists'
<1> DEFINE score == [i \in Found |-> FusedScore(i)]
           place == [i \in Found |-> Place(i)]
<1>1. PICK s \in Rankings(Found, Cardinality(Found)) :
        /\ \A a, b \in DOMAIN s : a < b => Ahead(score, place, s[a], s[b])
        /\ DOMAIN fused' = DOMAIN s
        /\ \A n \in DOMAIN s : fused'[n].id = s[n]
  <2>1. PICK s \in Rankings(Found, Cardinality(Found)) :
          /\ \A a, b \in DOMAIN s : a < b => Ahead(score, place, s[a], s[b])
          /\ \E best \in [Found -> UNION {CopiesOf(i) : i \in Found}] :
               fused' = [n \in DOMAIN s |-> [id |-> s[n], chunk |-> best[s[n]],
                                            score |-> score[s[n]]]]
    BY Zenon DEF Fuse
  <2> HIDE DEF score, place
  <2>2. /\ DOMAIN fused' = DOMAIN s
        /\ \A n \in DOMAIN s : fused'[n].id = s[n]
    BY <2>1
  <2>3. QED
    BY <2>1, <2>2
<1>2. legs' = legs /\ hits' = hits
  BY DEF Fuse
<1>3. ASSUME NEW a \in DOMAIN s, NEW b \in DOMAIN s, Dominates(s[a], s[b])
      PROVE  a <= b
  <2>1. s[a] \in Found /\ s[b] \in Found
    BY DEF Rankings
  <2>2. a \in Nat /\ b \in Nat
    BY IdsCount DEF Rankings, Smaller, Found
  <2>3. /\ score[s[a]] \in Nat /\ score[s[b]] \in Nat /\ score[s[a]] >= score[s[b]]
        /\ place[s[a]] \in Nat /\ place[s[b]] \in Nat /\ place[s[a]] <= place[s[b]]
    BY <1>3, <2>1, ScoresRespectRanks, PlacesRespectRanks
  <2> HIDE DEF score, place
  <2>4. ~Ahead(score, place, s[b], s[a])
    BY <2>3 DEF Ahead
  <2>5. ~(b < a)
    BY <1>1, <2>4
  <2>6. QED
    BY <2>2, <2>5
<1>4. ASSUME NEW a \in DOMAIN fused', NEW b \in DOMAIN fused',
             Dominates(fused'[a].id, fused'[b].id)
      PROVE  a <= b
  BY <1>1, <1>3, <1>4
<1>5. \A l, i : RankIn(l, i)' = RankIn(l, i)
  BY <1>2 DEF RankIn
<1>6. QED
  BY <1>2, <1>4, <1>5 DEF FusionRespectsLists, Dominates

FusionInv ==
  /\ pc = "search" => Numbered
  /\ FusionRespectsLists

(* A search that returns changes its own list only.                        *)
LEMMA ReturnsNumbered ==
  ASSUME RequestInv, pc = "search", Numbered, NEW l \in todo, NEW list,
         NEW k \in Nat, DOMAIN list = 1..k, Returns(l, list)
  PROVE  FusionInv'
<1>1. /\ hits' = [hits EXCEPT ![l] = list] /\ legs' = legs /\ pc' = pc
  BY DEF Returns
<1>2. ASSUME NEW j \in DOMAIN legs PROVE \E n \in Nat : DOMAIN hits'[j] = 1..n
  <2>1. CASE j = l
    BY <1>1, <2>1 DEF RequestInv
  <2>2. CASE j # l
    BY <1>1, <2>2 DEF RequestInv, Numbered
  <2>3. QED
    BY <2>1, <2>2
<1>3. Numbered'
  BY <1>1, <1>2 DEF Numbered
<1>4. QED
  BY <1>1, <1>3 DEF FusionInv, FusionRespectsLists

LEMMA FusionInvKept ==
  ASSUME RequestInv, FusionInv, [EvidenceNext]_evidenceVars
  PROVE  FusionInv'
<1>1. CASE UNCHANGED <<pc, legs, hits, fused>>
  <2>1. (pc = "search" => Numbered)'
    BY <1>1 DEF FusionInv, Numbered
  <2>2. \A l, i : RankIn(l, i)' = RankIn(l, i)
    BY <1>1 DEF RankIn
  <2>3. FusionRespectsLists'
    BY <1>1, <2>2 DEF FusionInv, FusionRespectsLists
  <2>4. QED
    BY <2>1, <2>3 DEF FusionInv
<1>2. CASE pc' \notin {"search", "fused"}
  BY <1>2 DEF FusionInv, FusionRespectsLists
<1>3. CASE WriteStores
  BY <1>1, <1>3 DEF WriteStores, Index, IndexChunk, Delete, DropChunk,
     CallReturns, request
<1>4. CASE \E p \in Callers, n \in 1..MaxVariants : Ask(p, n)
  <2>1. PICK p \in Callers, n \in 1..MaxVariants : Ask(p, n)
    BY <1>4
  <2>2. /\ pc' = "search" /\ n \in Nat
        /\ legs' = [l \in 1..2 * n |-> IF l <= n THEN "dense" ELSE "lexical"]
        /\ hits' = [l \in 1..2 * n |-> <<>>]
    BY <2>1 DEF Ask
  <2>3. 2 * n \in Nat /\ DOMAIN legs' = 1..2 * n
    BY <2>2
  <2>4. \A l \in 1..2 * n : DOMAIN hits'[l] = 1..0
    BY <2>2
  <2>5. Numbered'
    BY <2>3, <2>4 DEF Numbered
  <2> HIDE DEF Numbered
  <2>6. pc' # "fused"
    BY <2>2
  <2>7. QED
    BY <2>5, <2>6 DEF FusionInv, FusionRespectsLists
<1>5. ASSUME NEW S \in SUBSET Ids, NEW s \in Rankings(S, TopK)
      PROVE  \E k \in Nat : DOMAIN s = 1..k
  BY IdsCount DEF Rankings, Smaller
<1>6. ASSUME NEW l \in todo, SearchDense(l) PROVE FusionInv'
  <2>1. PICK s \in Rankings(DenseMatches(vectors), TopK) :
          Returns(l, [n \in DOMAIN s |->
                        [id |-> s[n], chunk |-> DenseCopy(vectors[s[n]])]])
    BY <1>6 DEF SearchDense
  <2>2. pc = "search" /\ DenseMatches(vectors) \in SUBSET Ids
    BY <1>6 DEF SearchDense, DenseMatches
  <2>3. QED
    BY <1>5, <2>1, <2>2, ReturnsNumbered DEF FusionInv
<1>7. ASSUME NEW l \in todo, SearchLexical(l) PROVE FusionInv'
  <2>1. PICK s \in Rankings(LexicalMatches(chunks), TopK) :
          Returns(l, [n \in DOMAIN s |->
                        [id |-> s[n], chunk |-> LexicalCopy(chunks[s[n]])]])
    BY <1>7 DEF SearchLexical
  <2>2. pc = "search" /\ LexicalMatches(chunks) \in SUBSET Ids
    BY <1>7 DEF SearchLexical, LexicalMatches
  <2>3. QED
    BY <1>5, <2>1, <2>2, ReturnsNumbered DEF FusionInv
<1>8. CASE Fuse
  <2>1. Numbered /\ pc' = "fused"
    BY <1>8 DEF Fuse, FusionInv
  <2>2. QED
    BY <1>8, <2>1, FusionIsOrdered DEF FusionInv
<1>9. CASE Retrieve
  <2>1. CASE (\E l \in todo : SearchFails(l)) \/ Rerank
    BY <1>2, <2>1 DEF SearchFails, Rerank
  <2>2. QED
    BY <1>6, <1>7, <1>8, <1>9, <2>1 DEF Retrieve
<1>10. CASE AnswerStep \/ Done \/ TurnStep
  <2>1. pc' \notin {"search", "fused"}
    BY <1>10 DEF AnswerStep, TurnStep, AnswerAtOnce, RefuseEarly, CallModel,
       ModelFails, Cite, Done, SearchReturns, SearchRaises, Draft, FinalizeOwn,
       StepAside
  <2>2. QED
    BY <1>2, <2>1
<1>11. CASE UNCHANGED vars
  BY <1>1, <1>11 DEF vars, retrievalVars, request
<1>12. QED
  BY <1>3, <1>4, <1>9, <1>10, <1>11, EvidenceCases DEF RetrievalNext

(* A chunk that is ahead of another in every list that has the other is    *)
(* ahead of it after fusion, whatever order searches return in, whatever   *)
(* the weights, and on equal scores too (reciprocal_rank_fusion in         *)
(* retrieval/hybrid.py).                                                   *)
THEOREM FusionIsRespectful == EvidenceSpec => []FusionRespectsLists
<1>1. EvidenceInit => FusionInv
  BY DEF EvidenceInit, Init, RetrievalInit, FusionInv, FusionRespectsLists
<1>2. EvidenceInv /\ FusionInv /\ [EvidenceNext]_evidenceVars => FusionInv'
  BY FusionInvKept DEF EvidenceInv
<1>3. FusionInv => FusionRespectsLists
  BY DEF FusionInv
<1>4. QED
  BY <1>1, <1>2, <1>3, EvidenceInvariant, PTL DEF EvidenceSpec

(***************************************************************************)
(* The citations of a draft: what its markers point at among the sources,  *)
(* each once.                                                              *)
(***************************************************************************)
RefsOf(sources) == {sources[k].ref : k \in DOMAIN sources}

LEMMA SourceCitationsAreExact ==
  ASSUME NEW sources \in Seq(SourceSet), NEW t \in Seq(Markers)
  PROVE  /\ Cardinality(ToSet(resolve_source_citations(t, sources)))
              = Len(resolve_source_citations(t, sources))
         /\ \A r \in ToSet(resolve_source_citations(t, sources)) :
              r \in RefsOf(sources) /\ \E m \in ToSet(t) : r \in Loose[m]
         /\ RefsOf(sources) \cap ToSet(t)
              \subseteq ToSet(resolve_source_citations(t, sources))
<1> DEFINE n == Len(t)
           R == RefsOf(sources)
           C == resolve_source_citations(t, sources)
           refs == {sources[k].ref : k \in DOMAIN sources}
           alike(m) == {k \in DOMAIN sources : sources[k].ref \in Loose[m]}
           hit(m) == IF m \in refs THEN <<m>>
                     ELSE IF alike(m) = {} THEN <<>>
                     ELSE <<sources[Min(alike(m))].ref>>
           Citing(f) == f = [s \in SUBSET (DOMAIN t) |->
                          IF s = {} THEN <<>>
                          ELSE IF ToSet(hit(t[Max(s)])) \subseteq ToSet(f[s \ {Max(s)}])
                               THEN f[s \ {Max(s)}]
                               ELSE f[s \ {Max(s)}] \o hit(t[Max(s)])]
           H == [k \in 1..n |-> hit(t[k])]
<1>1. n \in Nat /\ DOMAIN t = 1..n /\ \A k \in 1..n : t[k] \in Markers
  OBVIOUS
<1>2. \A f0 : Citing(f0) => \E f : Citing(f) /\ C = f[DOMAIN t]
  BY Zenon DEF resolve_source_citations, FoldLeft, MapThenFoldSet
<1>3. refs = R /\ \A i \in R : i \in Ids
  <2>1. refs = R
    BY DEF RefsOf
  <2>2. ASSUME NEW k \in DOMAIN sources PROVE sources[k].ref \in Ids
    <3>1. sources[k] \in SourceSet
      OBVIOUS
    <3>2. QED
      BY <3>1 DEF SourceSet
  <2>3. QED
    BY <2>1, <2>2
<1>4. ASSUME NEW m \in Markers
      PROVE  \/ hit(m) = <<>> /\ m \notin R
             \/ \E r \in R : hit(m) = <<r>> /\ r \in Loose[m] /\ (m \in R => r = m)
  <2>1. CASE m \in refs
    <3>1. hit(m) = <<m>>
      BY <2>1
    <3>2. m \in Loose[m]
      BY <1>3, <2>1, MarkerAssumption
    <3>3. QED
      BY <1>3, <2>1, <3>1, <3>2
  <2>2. CASE m \notin refs /\ alike(m) = {}
    <3>1. hit(m) = <<>>
      BY <2>2
    <3>2. QED
      BY <1>3, <2>2, <3>1
  <2>3. CASE m \notin refs /\ alike(m) # {}
    <3>1. alike(m) \in SUBSET (1..Len(sources)) /\ Len(sources) \in Nat
      OBVIOUS
    <3>2. Min(alike(m)) \in alike(m)
      <4> HIDE DEF alike
      <4>1. QED
        BY <2>3, <3>1, FirstPosition
    <3>3. sources[Min(alike(m))].ref \in R /\ sources[Min(alike(m))].ref \in Loose[m]
      BY <3>2 DEF RefsOf
    <3>4. hit(m) = <<sources[Min(alike(m))].ref>>
      BY <2>3
    <3> DEFINE r == sources[Min(alike(m))].ref
    <3>5. r \in R /\ hit(m) = <<r>> /\ r \in Loose[m] /\ m \notin R
      BY <1>3, <2>3, <3>3, <3>4
    <3> HIDE DEF r, hit, R
    <3>6. QED
      BY <3>5
  <2>4. QED
    BY <2>1, <2>2, <2>3
<1> HIDE DEF n, R, C, hit
<1>5. \A k \in 1..n : H[k] = hit(t[k])
  OBVIOUS
<1>6. Hitting(n, R, H)
  <2>1. ASSUME NEW k \in 1..n
        PROVE  H[k] \in Seq(R) /\ (H[k] = <<>> \/ \E r \in R : H[k] = <<r>>)
    <3>1. H[k] = <<>> \/ \E r \in R : H[k] = <<r>>
      BY <1>1, <1>4, <1>5
    <3>2. ASSUME NEW r \in R PROVE <<r>> \in Seq(R)
      OBVIOUS
    <3>3. <<>> \in Seq(R)
      OBVIOUS
    <3> HIDE DEF H
    <3>4. QED
      BY <3>1, <3>2, <3>3, Zenon
  <2>2. H \in [1..n -> Seq(R)]
    BY <2>1
  <2>3. QED
    BY <2>1, <2>2 DEF Hitting
<1>7. ASSUME NEW f PROVE Citing(f) <=> Collecting(f, n, H)
  <2> DEFINE left == [s \in SUBSET (DOMAIN t) |->
                          IF s = {} THEN <<>>
                          ELSE IF ToSet(hit(t[Max(s)])) \subseteq ToSet(f[s \ {Max(s)}])
                               THEN f[s \ {Max(s)}]
                               ELSE f[s \ {Max(s)}] \o hit(t[Max(s)])]
             right == [s \in SUBSET (1..n) |->
                IF s = {} THEN <<>>
                ELSE IF ToSet(H[Max(s)]) \subseteq ToSet(f[s \ {Max(s)}])
                     THEN f[s \ {Max(s)}]
                     ELSE f[s \ {Max(s)}] \o H[Max(s)]]
  <2>1. \A s \in SUBSET (1..n) : s # {} => H[Max(s)] = hit(t[Max(s)])
    BY <1>1, <1>5, LastPosition
  <2> HIDE DEF H
  <2>2. left = right
    BY <1>1, <2>1
  <2>3. QED
    BY <2>2 DEF Collecting
<1> HIDE DEF Citing, H
<1>8. PICK f : Collecting(f, n, H) /\ C = f[1..n]
  BY <1>1, <1>2, <1>6, <1>7, CollectionExists
<1>9. /\ f[1..n] \in Seq(R)
      /\ ToSet(f[1..n]) = UNION {ToSet(H[k]) : k \in 1..n}
      /\ Cardinality(ToSet(f[1..n])) = Len(f[1..n])
  BY <1>1, <1>6, <1>8, CollectionIsExact
<1>10. ToSet(C) = UNION {ToSet(H[k]) : k \in 1..n} /\ Cardinality(ToSet(C)) = Len(C)
  BY <1>8, <1>9
<1>11. ASSUME NEW k \in 1..n
       PROVE  /\ t[k] \in ToSet(t)
              /\ \A r \in ToSet(H[k]) : r \in R /\ r \in Loose[t[k]]
              /\ t[k] \in R => t[k] \in ToSet(H[k])
  <2>1. t[k] \in ToSet(t) /\ H[k] = hit(t[k]) /\ t[k] \in Markers
    BY <1>1, <1>5 DEF ToSet
  <2>2. ToSet(<<>>) = {} /\ \A r : ToSet(<<r>>) = {r}
    BY SingletonListed
  <2>3. QED
    BY <1>4, <2>1, <2>2
<1>12. ASSUME NEW r \in ToSet(C) PROVE r \in R /\ \E m \in ToSet(t) : r \in Loose[m]
  <2>1. PICK k \in 1..n : r \in ToSet(H[k])
    BY <1>10
  <2>2. QED
    BY <1>11, <2>1
<1>13. ASSUME NEW r \in R \cap ToSet(t) PROVE r \in ToSet(C)
  <2>1. PICK k \in 1..n : r = t[k]
    BY <1>1 DEF ToSet
  <2>2. r \in ToSet(H[k])
    BY <1>11, <2>1
  <2>3. QED
    BY <1>10, <2>2
<1>14. QED
  BY <1>10, <1>12, <1>13 DEF C, R

(***************************************************************************)
(* What a request fuses and retrieves is scored in numbers.                *)
(***************************************************************************)
ScoredInv ==
  /\ visible \subseteq Ids
  /\ \A k \in DOMAIN fused : fused[k] \in Scored
  /\ \A k \in DOMAIN results : results[k] \in Scored

LEMMA FusedAreScored ==
  ASSUME Numbered, RequestInv', visible' \subseteq Ids, Fuse
  PROVE  \A k \in DOMAIN fused' : fused'[k] \in Scored
<1> DEFINE score == [i \in Found |-> FusedScore(i)]
           place == [i \in Found |-> Place(i)]
<1>1. PICK s \in Rankings(Found, Cardinality(Found)) :
        \E best \in [Found -> UNION {CopiesOf(i) : i \in Found}] :
          fused' = [k \in DOMAIN s |-> [id |-> s[k], chunk |-> best[s[k]],
                                        score |-> score[s[k]]]]
  BY Zenon DEF Fuse
<1>2. PICK best : fused' = [k \in DOMAIN s |-> [id |-> s[k], chunk |-> best[s[k]],
                                                score |-> score[s[k]]]]
  BY <1>1
<1>3. ASSUME NEW k \in DOMAIN fused' PROVE fused'[k] \in Scored
  <2>1. k \in DOMAIN s /\ s[k] \in Found
    BY <1>2, <1>3 DEF Rankings
  <2>2. Dominates(s[k], s[k])
    <3>1. \A l \in DOMAIN legs : RankIn(l, s[k]) \in Nat
      BY RanksAreNumbers
    <3>2. QED
      BY <3>1 DEF Dominates
  <2>3. score[s[k]] \in Nat
    BY <2>1, <2>2, ScoresRespectRanks
  <2> HIDE DEF score
  <2>4. fused'[k] = [id |-> s[k], chunk |-> best[s[k]], score |-> score[s[k]]]
    BY <1>2, <2>1
  <2>5. fused'[k].id \in Ids /\ fused'[k].chunk \in Chunks
    BY <1>3 DEF RequestInv, Fit
  <2>6. s[k] \in Ids /\ best[s[k]] \in Chunks
    BY <2>4, <2>5
  <2>7. QED
    BY <2>3, <2>4, <2>6 DEF Scored
<1>4. QED
  BY <1>3

LEMMA ScoredInvKept ==
  ASSUME RequestInv, RequestInv', FusionInv, ScoredInv, [EvidenceNext]_evidenceVars
  PROVE  ScoredInv'
<1>1. ASSUME NEW store, NEW p PROVE Readable(store, p) \subseteq Ids
  BY DEF Readable
<1>2. visible' \subseteq Ids
  <2>1. CASE UNCHANGED visible \/ visible' = {}
    BY <2>1 DEF ScoredInv
  <2>2. CASE Observe
    BY <1>1, <2>2 DEF Observe, history, ScoredInv
  <2>3. CASE \E p \in Callers, n \in 1..MaxVariants : Ask(p, n)
    BY <1>1, <2>3 DEF Ask
  <2>4. CASE WriteStores
    BY <2>1, <2>2, <2>4 DEF WriteStores, Index, IndexChunk, Delete, DropChunk,
       CallReturns, history
  <2>5. CASE Retrieve
    BY <2>1, <2>5 DEF Retrieve, SearchDense, SearchLexical, SearchFails, Returns,
       Fuse, Rerank, history
  <2>6. CASE AnswerStep \/ Done \/ TurnStep
    BY <2>1, <2>6 DEF AnswerStep, TurnStep, AnswerAtOnce, RefuseEarly, CallModel,
       ModelFails, Cite, Done, SearchReturns, SearchRaises, Draft, FinalizeOwn,
       StepAside, history
  <2>7. CASE UNCHANGED vars
    BY <2>1, <2>7 DEF vars, retrievalVars, history
  <2>8. QED
    BY <2>3, <2>4, <2>5, <2>6, <2>7, EvidenceCases DEF RetrievalNext
<1>3. ASSUME fused' = fused \/ fused' = <<>>, results' = results \/ results' = <<>>
      PROVE  ScoredInv'
  BY <1>2, <1>3 DEF ScoredInv
<1>4. CASE WriteStores
  BY <1>3, <1>4 DEF WriteStores, Index, IndexChunk, Delete, DropChunk,
     CallReturns, request
<1>5. CASE \E p \in Callers, n \in 1..MaxVariants : Ask(p, n)
  BY <1>3, <1>5 DEF Ask
<1>6. CASE \E l \in todo : SearchDense(l) \/ SearchLexical(l) \/ SearchFails(l)
  BY <1>3, <1>6 DEF SearchDense, SearchLexical, SearchFails, Returns
<1>7. CASE Fuse
  <2>1. Numbered /\ UNCHANGED results
    BY <1>7 DEF Fuse, FusionInv
  <2>2. \A k \in DOMAIN fused' : fused'[k] \in Scored
    BY <1>2, <1>7, <2>1, FusedAreScored
  <2>3. QED
    BY <1>2, <2>1, <2>2 DEF ScoredInv
<1>8. CASE Rerank
  <2>1. fused' = <<>> /\ \E candidates \in Candidates : results' \in Reranked(candidates)
    BY <1>8 DEF Rerank
  <2>2. \A k \in DOMAIN results' : results'[k] \in Scored
    BY <2>1, RerankedAreFit DEF ScoredInv
  <2>3. QED
    BY <1>2, <2>1, <2>2 DEF ScoredInv
<1>9. CASE AnswerStep \/ Done \/ TurnStep
  BY <1>3, <1>9 DEF AnswerStep, TurnStep, AnswerAtOnce, RefuseEarly, CallModel,
     ModelFails, Cite, Done, SearchReturns, SearchRaises, Draft, FinalizeOwn,
     StepAside
<1>10. CASE UNCHANGED vars
  BY <1>3, <1>10 DEF vars, retrievalVars, request
<1>11. QED
  BY <1>4, <1>5, <1>6, <1>7, <1>8, <1>9, <1>10, EvidenceCases
  DEF RetrievalNext, Retrieve

(***************************************************************************)
(* The ledger of an agent turn.                                            *)
(***************************************************************************)

(* The tool returns sources of what was retrieved, all of which the caller *)
(* may read: the recheck of the runtime drops none.                        *)
LEMMA PassagesAreSources ==
  ASSUME RequestInv, ScoredInv, Listed(results), NEW k \in ToolTopK
  PROVE  /\ Authorised(Passages(k)) \in Seq(SourceSet)
         /\ ToSet(Authorised(Passages(k))) = ToSet(Passages(k))
         /\ ToSet(Passages(k)) \subseteq SourceSet
         /\ \A o \in ToSet(Passages(k)) :
              o.ref \in visible /\ MayRead(principal, o.chunk)
<1> DEFINE limit == Smaller(PassageLimit(k), Len(results))
           shown == SubSeq(results, 1, limit)
           kept == Authorised(shown)
           FitSet == {s \in Scored : s.id \in visible /\ MayRead(principal, s.chunk)}
           GoodSet == {o \in SourceSet : o.ref \in visible /\ MayRead(principal, o.chunk)}
<1>1. results \in Seq(FitSet)
  <2>1. PICK n \in Nat : results = [j \in 1..n |-> results[j]]
    BY DEF Listed
  <2>2. DOMAIN results = 1..n
    BY <2>1
  <2>3. \A j \in 1..n : results[j] \in FitSet
    BY <2>2 DEF RequestInv, ScoredInv, Fit
  <2> HIDE DEF FitSet
  <2>4. results \in [1..n -> FitSet]
    BY <2>1, <2>3, Zenon
  <2>5. QED
    BY <2>4
<1>2. PassageLimit(k) \in Nat
  BY AgentAssumption DEF PassageLimit, Smaller
<1>3. shown \in Seq(FitSet)
  <2> HIDE DEF FitSet
  <2>1. Len(results) \in Nat /\ DOMAIN results = 1..Len(results)
        /\ \A j \in 1..Len(results) : results[j] \in FitSet
    BY <1>1
  <2>2. limit \in 0..Len(results)
    BY <1>2, <2>1 DEF Smaller
  <2> HIDE DEF limit
  <2>3. shown = [j \in 1..limit |-> results[j]]
    BY <1>1, <2>1, <2>2
  <2>4. \A j \in 1..limit : results[j] \in FitSet
    BY <2>1, <2>2
  <2>5. [j \in 1..limit |-> results[j]] \in Seq(FitSet)
    BY <2>2, <2>4
  <2>6. QED
    BY <2>3, <2>5
<1>4. kept \in Seq(FitSet)
  <2> HIDE DEF FitSet, shown
  <2>1. QED
    BY <1>3, AuthorisedIsExact
<1>5. Passages(k) = [j \in DOMAIN kept |-> source_from_scored(kept[j])]
  BY Zenon DEF Passages
<1> HIDE DEF kept
<1>6. ASSUME NEW s \in FitSet PROVE source_from_scored(s) \in GoodSet
  BY DEF source_from_scored, SourceSet, Scored
<1>7. Passages(k) \in Seq(GoodSet)
  <2> HIDE DEF FitSet, GoodSet
  <2>1. Len(kept) \in Nat /\ DOMAIN kept = 1..Len(kept)
        /\ \A j \in 1..Len(kept) : kept[j] \in FitSet
    BY <1>4
  <2>2. Passages(k) \in [1..Len(kept) -> GoodSet]
    BY <1>5, <1>6, <2>1
  <2>3. QED
    BY <2>1, <2>2
<1>8. ToSet(Passages(k)) \subseteq GoodSet
  <2> HIDE DEF GoodSet
  <2>1. QED
    BY <1>7 DEF ToSet
<1>9. Authorised(Passages(k)) \in Seq(GoodSet)
      /\ ToSet(Authorised(Passages(k))) = AllowedOf(ToSet(Passages(k)))
  <2> HIDE DEF GoodSet
  <2>1. QED
    BY <1>7, AuthorisedIsExact
<1>10. principal \in Principals
  BY DEF RequestInv
<1>11. \A o \in GoodSet : is_allowed(principal, o.chunk)
  BY <1>10, RuleIsMeant DEF SourceSet
<1>12. AllowedOf(ToSet(Passages(k))) = ToSet(Passages(k))
  BY <1>8, <1>11 DEF AllowedOf
<1>13. Authorised(Passages(k)) \in Seq(SourceSet)
  <2>1. GoodSet \subseteq SourceSet
    OBVIOUS
  <2> HIDE DEF GoodSet
  <2>2. QED
    BY <1>9, <2>1
<1>14. QED
  BY <1>8, <1>9, <1>12, <1>13

(* The inductive invariant of the ledger: it gathers what was observed,    *)
(* which this turn's searches might return and its caller might read; a    *)
(* turn that has not searched, and the pipeline, have observed nothing;    *)
(* and only an answer cites.                                               *)
LedgerInv ==
  /\ mode \in {"agent", "pipeline"}
  /\ observed \in SUBSET SourceSet /\ Gathers(ledger, observed)
  /\ \A o \in observed : o.ref \in seen /\ MayRead(principal, o.chunk)
  /\ searches \in Nat
  /\ searches = 0 \/ mode = "pipeline" => observed = {}
  /\ mode = "agent" /\ pc # "idle" => searches # 0
  /\ pc # "answered" \/ mode = "pipeline" => cited = <<>>
  /\ AgentCitesEvidence

LEMMA NothingGathered == Gathers(<<>>, {})
<1>1. <<>> \in Seq(SourceSet) /\ ToSet(<<>>) = {} /\ DOMAIN <<>> = {}
  BY SingletonListed
<1>2. QED
  BY <1>1 DEF Gathers

(* The own answer.                                                         *)
LEMMA FinalizeCites ==
  ASSUME RequestInv, text \in Seq(Markers), LedgerInv, FinalizeOwn
  PROVE  AgentCitesEvidence'
<1> DEFINE list == Authorised(Sources)
           refs == {o.ref : o \in observed}
<1>1. /\ cited' = resolve_source_citations(text, list)
      /\ UNCHANGED <<principal, text, seen, observed>>
  BY DEF FinalizeOwn, Citations
<1>2. Gathers(Sources, observed)
  BY SourcesAreSorted DEF LedgerInv
<1>3. Sources \in Seq(SourceSet) /\ ToSet(Sources) \subseteq observed
  BY <1>2 DEF Gathers
<1>4. list \in Seq(SourceSet) /\ ToSet(list) = AllowedOf(ToSet(Sources))
  BY <1>3, AuthorisedIsExact
<1>5. \A o \in observed : is_allowed(principal, o.chunk)
  BY RuleIsMeant DEF LedgerInv, RequestInv, SourceSet
<1>6. ToSet(list) = ToSet(Sources)
  BY <1>3, <1>4, <1>5 DEF AllowedOf
<1>7. RefsOf(list) = refs
  <2>1. \A v : RefsOf(v) = {s.ref : s \in ToSet(v)}
    BY DEF RefsOf, ToSet
  <2>2. refs \subseteq {s.ref : s \in ToSet(Sources)}
    BY <1>2 DEF Gathers, ToSet
  <2>3. {s.ref : s \in ToSet(Sources)} \subseteq refs
    BY <1>3
  <2>4. QED
    BY <1>6, <2>1, <2>2, <2>3
<1> HIDE DEF list, refs
<1>8. /\ Cardinality(ToSet(cited')) = Len(cited')
      /\ \A r \in ToSet(cited') : r \in refs /\ \E m \in ToSet(text) : r \in Loose[m]
      /\ refs \cap ToSet(text) \subseteq ToSet(cited')
  BY <1>1, <1>4, <1>7, SourceCitationsAreExact
<1>9. \A r \in refs : r \in seen /\ \E o \in observed : o.ref = r /\ MayRead(principal, o.chunk)
  BY DEF refs, LedgerInv
<1>10. /\ ToSet(cited') \subseteq seen'
       /\ \A r \in ToSet(cited') :
            /\ \E o \in observed' : o.ref = r /\ MayRead(principal', o.chunk)
            /\ \E m \in ToSet(text') : r \in Loose[m]
  BY <1>1, <1>8, <1>9
<1>11. {o.ref : o \in observed'} \cap ToSet(text') \subseteq ToSet(cited')
  BY <1>1, <1>8 DEF refs
<1>12. QED
  BY <1>8, <1>10, <1>11 DEF AgentCitesEvidence

LEMMA LedgerInvKept ==
  ASSUME EvidenceInv, ScoredInv, AnswerInv, LedgerInv, [EvidenceNext]_evidenceVars
  PROVE  LedgerInv'
<1>0. Gathers(ledger, observed) /\ observed \in SUBSET SourceSet
  BY DEF LedgerInv
(* Steps that observe and cite nothing.                                    *)
<1>1. ASSUME UNCHANGED <<mode, ledger, seen, observed>>, cited' = <<>>,
             principal' = principal \/ observed = {},
             searches' \in Nat, searches' = 0 => searches = 0,
             mode = "agent" /\ pc' # "idle" => searches' # 0
      PROVE  LedgerInv'
  <2>1. AgentCitesEvidence'
    BY <1>1 DEF AgentCitesEvidence
  <2>2. \A o \in observed' : o.ref \in seen' /\ MayRead(principal', o.chunk)
    BY <1>1 DEF LedgerInv
  <2>3. Gathers(ledger', observed')
    BY <1>0, <1>1
  <2>4. QED
    BY <1>1, <2>1, <2>2, <2>3 DEF LedgerInv
<1>2. ASSUME Forget, mode' \in {"agent", "pipeline"}, pc' = "idle"
      PROVE  LedgerInv'
  <2>1. ledger' = <<>> /\ observed' = {} /\ cited' = <<>> /\ searches' = 0
    BY <1>2 DEF Forget
  <2>2. Gathers(ledger', observed')
    BY <2>1, NothingGathered
  <2>3. QED
    BY <1>2, <2>1, <2>2 DEF LedgerInv, AgentCitesEvidence
<1>3. ASSUME UNCHANGED <<pc, principal, text, mode, turnVars>> PROVE LedgerInv'
  <2>1. UNCHANGED <<ledger, searches, cited, seen, observed>>
    BY <1>3 DEF turnVars
  <2>2. AgentCitesEvidence'
    BY <1>3, <2>1 DEF AgentCitesEvidence, LedgerInv
  <2>3. QED
    BY <1>3, <2>1, <2>2 DEF LedgerInv
<1>4. CASE mode = "pipeline" /\ Next /\ UNCHANGED <<mode, turnVars>>
  <2>1. mode # "agent" /\ UNCHANGED <<ledger, searches, cited, seen, observed, mode>>
    BY <1>4 DEF turnVars
  <2>2. QED
    BY <1>1, <1>4, <2>1 DEF LedgerInv
<1>5. CASE mode = "agent" /\ WriteStores /\ UNCHANGED <<text, answer, mode, turnVars>>
  BY <1>3, <1>5 DEF WriteStores, Index, IndexChunk, Delete, DropChunk,
     CallReturns, request
<1>6. CASE mode = "agent" /\ Retrieve /\ UNCHANGED <<text, answer, mode, turnVars>>
  <2>1. pc \in {"search", "fused"} /\ principal' = principal
    BY <1>6 DEF Retrieve, SearchDense, SearchLexical, SearchFails, Returns, Fuse,
       Rerank
  <2>2. cited = <<>>
    BY <2>1 DEF LedgerInv
  <2>3. searches # 0 /\ searches \in Nat
    BY <1>6, <2>1 DEF LedgerInv
  <2>4. UNCHANGED <<ledger, searches, cited, seen, observed, mode>>
    BY <1>6 DEF turnVars
  <2>5. QED
    BY <1>1, <2>1, <2>2, <2>3, <2>4
<1>7. ASSUME NEW p \in Callers, CallSearch(p) PROVE LedgerInv'
  <2>1. pc = "idle" /\ principal' = p
    BY <1>7 DEF CallSearch, Ask
  <2>2. cited = <<>>
    BY <2>1 DEF LedgerInv
  <2>3. searches \in Nat /\ (searches = 0 => observed = {})
    BY DEF LedgerInv
  <2>4. /\ searches > 0 => p = principal
        /\ searches' = searches + 1
        /\ UNCHANGED <<mode, ledger, cited, seen, observed>>
    BY <1>7 DEF CallSearch
  <2>5. /\ principal' = principal \/ observed = {}
        /\ searches' \in Nat /\ searches' # 0
    BY <2>1, <2>3, <2>4
  <2>6. QED
    BY <1>1, <2>2, <2>4, <2>5
<1>8. ASSUME NEW k \in ToolTopK, SearchReturns(k) PROVE LedgerInv'
  <2>1. /\ ledger' = Merged(ledger, Authorised(Passages(k)))
        /\ seen' = seen \cup visible
        /\ observed' = observed \cup ToSet(Passages(k))
        /\ UNCHANGED <<principal, mode, searches, cited>>
        /\ mode = "agent" /\ pc = "retrieved"
    BY <1>8 DEF SearchReturns
  <2>2. /\ Authorised(Passages(k)) \in Seq(SourceSet)
        /\ ToSet(Authorised(Passages(k))) = ToSet(Passages(k))
        /\ ToSet(Passages(k)) \subseteq SourceSet
        /\ \A o \in ToSet(Passages(k)) :
             o.ref \in visible /\ MayRead(principal, o.chunk)
    BY PassagesAreSources DEF EvidenceInv, AnswerInv
  <2>3. Gathers(ledger', observed')
    BY <1>0, <2>1, <2>2, MergedGathers
  <2>4. \A o \in observed' : o.ref \in seen' /\ MayRead(principal', o.chunk)
    BY <2>1, <2>2 DEF LedgerInv
  <2>5. cited' = <<>>
    BY <2>1 DEF LedgerInv
  <2>6. QED
    BY <2>1, <2>2, <2>3, <2>4, <2>5 DEF LedgerInv, AgentCitesEvidence
<1>9. CASE SearchRaises
  <2>1. cited = <<>>
    BY <1>9 DEF SearchRaises, LedgerInv
  <2>2. /\ UNCHANGED <<ledger, searches, cited, seen, observed, mode, principal>>
        /\ pc' = "idle"
    BY <1>9 DEF SearchRaises, turnVars
  <2>3. searches \in Nat
    BY DEF LedgerInv
  <2>4. QED
    BY <1>1, <2>1, <2>2, <2>3
<1>10. ASSUME NEW t \in MarkerTexts, Draft(t) PROVE LedgerInv'
  <2>1. cited = <<>>
    BY <1>10 DEF Draft, LedgerInv
  <2>2. /\ UNCHANGED <<ledger, searches, cited, seen, observed, mode, principal>>
        /\ searches > 0
    BY <1>10 DEF Draft, turnVars
  <2>3. searches \in Nat
    BY DEF LedgerInv
  <2>4. QED
    BY <1>1, <2>1, <2>2, <2>3
<1>11. CASE FinalizeOwn
  <2>1. AgentCitesEvidence'
    BY <1>11, FinalizeCites DEF EvidenceInv, AnswerInv
  <2>2. /\ UNCHANGED <<principal, mode, ledger, searches, seen, observed>>
        /\ pc' = "answered" /\ mode = "agent" /\ pc = "drafted"
    BY <1>11 DEF FinalizeOwn
  <2>3. QED
    BY <2>1, <2>2 DEF LedgerInv
<1>12. CASE StepAside \/ NextQuestion
  BY <1>2, <1>12 DEF StepAside, NextQuestion, Done
<1>13. CASE UNCHANGED evidenceVars
  BY <1>3, <1>13 DEF evidenceVars, vars, retrievalVars, request
<1>14. QED
  BY <1>4, <1>5, <1>6, <1>7, <1>8, <1>9, <1>10, <1>11, <1>12, <1>13 DEF EvidenceNext

(* The invariant of the evidence, on which both properties of the agent's  *)
(* turn rest.                                                              *)
THEOREM LedgerInvariant == EvidenceSpec => [](ScoredInv /\ LedgerInv)
<1>1. EvidenceInit => ScoredInv /\ LedgerInv /\ FusionInv
  <2> SUFFICES ASSUME EvidenceInit PROVE ScoredInv /\ LedgerInv /\ FusionInv
    OBVIOUS
  <2>1. /\ fused = <<>> /\ results = <<>> /\ visible = {} /\ pc = "idle"
        /\ ledger = <<>> /\ cited = <<>> /\ observed = {} /\ searches = 0 /\ mode \in {"agent", "pipeline"}
    BY DEF EvidenceInit, Init, RetrievalInit
  <2>2. Gathers(ledger, observed)
    BY <2>1, NothingGathered
  <2>3. QED
    BY <2>1, <2>2 DEF ScoredInv, LedgerInv, AgentCitesEvidence, FusionInv,
       FusionRespectsLists
<1>2. EvidenceInv /\ FusionInv /\ [EvidenceNext]_evidenceVars => FusionInv'
  BY FusionInvKept DEF EvidenceInv
<1>3. EvidenceInv /\ EvidenceInv' /\ FusionInv /\ ScoredInv
        /\ [EvidenceNext]_evidenceVars => ScoredInv'
  BY ScoredInvKept DEF EvidenceInv
<1>4. EvidenceInv /\ ScoredInv /\ AnswerInv /\ LedgerInv
        /\ [EvidenceNext]_evidenceVars => LedgerInv'
  BY LedgerInvKept
<1>5. QED
  BY <1>1, <1>2, <1>3, <1>4, EvidenceInvariant, AnswerInvariant, PTL DEF EvidenceSpec

(* An own answer of the agent cites what a search of its turn found for    *)
(* its caller and a marker of the draft points at, each source once, for   *)
(* any searches, stores that change between them and drafts                *)
(* (resolve_source_citations in generation/citations.py, _finalize in      *)
(* agent/runtime.py).                                                      *)
THEOREM AgentCitesItsEvidence == EvidenceSpec => []AgentCitesEvidence
<1>1. LedgerInv => AgentCitesEvidence
  BY DEF LedgerInv
<1>2. QED
  BY <1>1, LedgerInvariant, PTL

(***************************************************************************)
(* The prompt.                                                             *)
(***************************************************************************)
PromptEntry == [ref: Ids, chars: Nat]
Prompt == [entries: Seq(PromptEntry), used: Nat, omitted: Nat]

(* The lengths of the first j entries, and the separators counted in used. *)
Measured(entries, used) ==
  \E c \in [0..Len(entries) -> Nat] :
    /\ c[0] = 0
    /\ \A j \in 1..Len(entries) : c[j] = c[j - 1] + entries[j].chars
    /\ used = c[Len(entries)] + 2 * Len(entries)

(* A prompt of one entry, whose header alone overruns the budget.          *)
Overruns(entries) ==
  Len(entries) = 1 /\ HeaderChars[entries[1].ref] + 1 > MAX_CHARS

(* A prompt made of the first k sources: the first of them are shown, the  *)
(* rest are counted, and the first source always is.                       *)
Rendered(p, sources, k) ==
  /\ p \in Prompt /\ Len(p.entries) + p.omitted = k
  /\ \A j \in 1..Len(p.entries) : p.entries[j].ref = sources[j].ref
  /\ k # 0 => p.entries # <<>>
  /\ IF p.entries = <<>> THEN p.used = 0
     ELSE p.used <= MAX_CHARS + 2 \/ Overruns(p.entries)
  /\ Measured(p.entries, p.used)

LEMMA SlicedIsShort ==
  ASSUME NEW length \in Nat, NEW end \in Int
  PROVE  Sliced(length, end) \in Nat /\ (end >= 0 => Sliced(length, end) <= end)
<1>1. CASE end >= 0
  BY <1>1 DEF Sliced, Smaller
<1>2. CASE ~(end >= 0)
  <2> DEFINE S == {0, length + end}
  <2>1. Sliced(length, end) = Max(S)
    BY <1>2 DEF Sliced
  <2>2. \E x \in S : \A y \in S : x >= y
    <3>1. CASE length + end <= 0
      <4>1. 0 \in S /\ \A y \in S : 0 >= y
        BY <3>1
      <4>2. QED
        BY <4>1
    <3>2. CASE ~(length + end <= 0)
      <4>1. length + end \in S /\ \A y \in S : length + end >= y
        BY <3>2
      <4>2. QED
        BY <4>1
    <3>3. QED
      BY <3>1, <3>2
  <2> HIDE DEF S
  <2>3. Max(S) \in S /\ \A y \in S : Max(S) >= y
    BY <2>2 DEF Max
  <2>4. Max(S) \in Nat
    BY <2>3 DEF S
  <2>5. QED
    BY <1>2, <2>1, <2>4
<1>3. QED
  BY <1>1, <1>2

(* What the next source does to a prompt.                                  *)
LeftFor(p, source) == MAX_CHARS - p.used - HeaderChars[source.ref] - 1

Line(p, source) ==
  IF p.omitted > 0 \/ (LeftFor(p, source) < MIN_QUOTE_CHARS /\ p.entries # <<>>)
  THEN [p EXCEPT !.omitted = @ + 1]
  ELSE [p EXCEPT !.entries = Append(@, Entry(source, LeftFor(p, source))),
                 !.used = @ + Entry(source, LeftFor(p, source)).chars + 2]

LEMMA EntryFits ==
  ASSUME NEW p \in Prompt, NEW source \in SourceSet
  PROVE  LET left == LeftFor(p, source)
             entry == Entry(source, left)
         IN /\ left \in Int /\ entry \in PromptEntry /\ entry.ref = source.ref
            /\ left >= 0 => p.used + entry.chars <= MAX_CHARS
<1> DEFINE left == LeftFor(p, source)
           header == HeaderChars[source.ref]
           length == TextChars[source.chunk.text]
           end == Smaller(MAX_QUOTE_CHARS, left)
           slice == Sliced(length, end)
           entry == Entry(source, left)
<1>1. /\ header \in Nat /\ length \in Nat /\ p.used \in Nat /\ MAX_CHARS \in Nat
      /\ MAX_QUOTE_CHARS \in Nat /\ source.ref \in Ids
  BY LengthAssumption DEF SourceSet, Chunks, Prompt
<1>2. left = MAX_CHARS - p.used - header - 1
  BY DEF LeftFor
<1>3. entry = [ref |-> source.ref, chars |-> header + 1 + slice]
  BY DEF Entry
<1> HIDE DEF header, length, left
<1>4. left \in Int
  BY <1>1, <1>2
<1>5. end \in Int /\ (left >= 0 => end >= 0 /\ end <= left)
  BY <1>1, <1>4 DEF Smaller
<1> HIDE DEF end
<1>6. slice \in Nat /\ (end >= 0 => slice <= end)
  BY <1>1, <1>5, SlicedIsShort
<1> HIDE DEF slice, entry
<1>7. entry.ref = source.ref /\ entry.chars = header + 1 + slice
  BY <1>3
<1>8. entry \in PromptEntry
  BY <1>1, <1>3, <1>6 DEF PromptEntry
<1>9. left >= 0 => p.used + entry.chars <= MAX_CHARS
  BY <1>1, <1>2, <1>5, <1>6, <1>7
<1>10. QED
  BY <1>4, <1>7, <1>8, <1>9 DEF left, entry

LEMMA LineIsPrompt ==
  ASSUME NEW p \in Prompt, NEW source \in SourceSet
  PROVE  Line(p, source) \in Prompt
<1> DEFINE entry == Entry(source, LeftFor(p, source))
<1>1. entry \in PromptEntry
  BY EntryFits
<1>2. /\ p = [entries |-> p.entries, used |-> p.used, omitted |-> p.omitted]
      /\ p.entries \in Seq(PromptEntry) /\ p.used \in Nat /\ p.omitted \in Nat
  BY DEF Prompt
<1> HIDE DEF entry
<1>3. Append(p.entries, entry) \in Seq(PromptEntry) /\ entry.chars \in Nat
  <2>1. entry.chars \in Nat
    BY <1>1 DEF PromptEntry
  <2>2. Append(p.entries, entry) \in Seq(PromptEntry)
    BY <1>1, <1>2, Appended
  <2>3. QED
    BY <2>1, <2>2
<1>4. \/ Line(p, source) = [p EXCEPT !.omitted = @ + 1]
      \/ Line(p, source) = [p EXCEPT !.entries = Append(@, entry),
                                     !.used = @ + entry.chars + 2]
  BY DEF Line, entry
<1>5. CASE Line(p, source) = [p EXCEPT !.omitted = @ + 1]
  <2>1. Line(p, source) = [entries |-> p.entries, used |-> p.used, omitted |-> p.omitted + 1]
    BY <1>2, <1>5
  <2>2. QED
    BY <1>2, <2>1 DEF Prompt
<1>6. CASE Line(p, source) = [p EXCEPT !.entries = Append(@, entry),
                                       !.used = @ + entry.chars + 2]
  <2>1. Line(p, source) = [entries |-> Append(p.entries, entry),
                           used |-> p.used + entry.chars + 2, omitted |-> p.omitted]
    BY <1>2, <1>6
  <2>2. QED
    BY <1>2, <1>3, <2>1 DEF Prompt
<1>7. QED
  BY <1>4, <1>5, <1>6

LEMMA MeasuredGrows ==
  ASSUME NEW entries \in Seq(PromptEntry), NEW used \in Nat, Measured(entries, used),
         NEW entry \in PromptEntry
  PROVE  Measured(Append(entries, entry), used + entry.chars + 2)
<1> DEFINE n == Len(entries)
           grown == Append(entries, entry)
<1>1. /\ n \in Nat /\ entry.chars \in Nat /\ Len(grown) = n + 1
      /\ \A j \in 1..n : grown[j] = entries[j]
      /\ grown[n + 1] = entry
  BY DEF PromptEntry
<1>2. PICK c \in [0..n -> Nat] :
        /\ c[0] = 0
        /\ \A j \in 1..n : c[j] = c[j - 1] + entries[j].chars
        /\ used = c[n] + 2 * n
  BY DEF Measured
<1> HIDE DEF n, grown
<1> DEFINE d == [j \in 0..(n + 1) |-> IF j <= n THEN c[j] ELSE c[n] + entry.chars]
<1>3. /\ n \in 0..n /\ c[n] \in Nat
      /\ \A j \in 0..n : j \in 0..(n + 1) /\ j <= n
      /\ n + 1 \in 0..(n + 1) /\ ~(n + 1 <= n)
  BY <1>1, <1>2
<1>4. d \in [0..(n + 1) -> Nat]
  <2>1. ASSUME NEW j \in 0..(n + 1)
        PROVE  (IF j <= n THEN c[j] ELSE c[n] + entry.chars) \in Nat
    <3>1. CASE j <= n
      <4>1. j \in 0..n
        BY <1>1, <3>1
      <4>2. QED
        BY <1>2, <3>1, <4>1
    <3>2. CASE ~(j <= n)
      BY <1>1, <1>3, <3>2
    <3>3. QED
      BY <3>1, <3>2
  <2>2. QED
    BY <2>1
<1>5. (\A j \in 0..n : d[j] = c[j]) /\ d[n + 1] = c[n] + entry.chars
  BY <1>3
<1> HIDE DEF d
<1>6. ASSUME NEW j \in 1..(n + 1) PROVE d[j] = d[j - 1] + grown[j].chars
  <2>1. CASE j \in 1..n
    <3>1. j \in 0..n /\ j - 1 \in 0..n
      BY <1>1, <2>1
    <3>2. QED
      BY <1>1, <1>2, <1>5, <2>1, <3>1
  <2>2. CASE j \notin 1..n
    <3>1. j = n + 1 /\ j - 1 = n
      BY <1>1, <2>2
    <3>2. QED
      BY <1>1, <1>3, <1>5, <3>1
  <2>3. QED
    BY <2>1, <2>2
<1>7. d[0] = 0
  BY <1>1, <1>2, <1>5
<1>8. used + entry.chars + 2 = d[n + 1] + 2 * (n + 1)
  BY <1>1, <1>2, <1>3, <1>5
<1>9. Measured(grown, used + entry.chars + 2)
  BY <1>1, <1>4, <1>6, <1>7, <1>8 DEF Measured
<1>10. QED
  BY <1>9 DEF grown

LEMMA LineRenders ==
  ASSUME NEW sources \in Seq(SourceSet), NEW k \in 1..Len(sources),
         NEW p, Rendered(p, sources, k - 1)
  PROVE  Rendered(Line(p, sources[k]), sources, k)
<1> DEFINE source == sources[k]
           left == LeftFor(p, source)
           entry == Entry(source, left)
           n == Len(p.entries)
           q == Line(p, source)
<1>1. /\ p \in Prompt /\ source \in SourceSet /\ k \in Nat /\ k # 0
      /\ n + p.omitted = k - 1
      /\ \A j \in 1..n : p.entries[j].ref = sources[j].ref
      /\ k - 1 # 0 => p.entries # <<>>
      /\ p.entries = <<>> => p.used = 0
      /\ Measured(p.entries, p.used)
  BY DEF Rendered
<1>2. /\ p = [entries |-> p.entries, used |-> p.used, omitted |-> p.omitted]
      /\ p.entries \in Seq(PromptEntry) /\ p.used \in Nat /\ p.omitted \in Nat
      /\ n \in Nat
  BY <1>1 DEF Prompt
<1>3. /\ left \in Int /\ entry \in PromptEntry /\ entry.ref = source.ref
      /\ left >= 0 => p.used + entry.chars <= MAX_CHARS
  BY <1>1, EntryFits
<1>4. q \in Prompt
  BY <1>1, LineIsPrompt
<1>5. p.entries # <<>> => p.used <= MAX_CHARS + 2 \/ Overruns(p.entries)
  BY DEF Rendered
<1>6. CASE p.omitted > 0 \/ (left < MIN_QUOTE_CHARS /\ p.entries # <<>>)
  <2>1. q = [p EXCEPT !.omitted = @ + 1]
    BY <1>6 DEF Line
  <2>2. q.entries = p.entries /\ q.used = p.used /\ q.omitted = p.omitted + 1
    BY <1>2, <2>1
  <2>3. p.entries # <<>>
    <3>1. n = 0 <=> p.entries = <<>>
      BY <1>2
    <3>2. p.omitted > 0 => k - 1 # 0
      BY <1>1, <1>2
    <3>3. QED
      BY <1>1, <1>6, <3>2
  <2> HIDE DEF q, left
  <2>4. Len(q.entries) + q.omitted = k
    <3>1. Len(q.entries) = n
      BY <2>2
    <3> DEFINE o == p.omitted
    <3>2. n \in Nat /\ o \in Nat /\ n + o = k - 1 /\ q.omitted = o + 1 /\ k \in Nat
      BY <1>1, <1>2, <2>2
    <3> HIDE DEF n, o
    <3>3. n + (o + 1) = k
      BY <3>2
    <3>4. QED
      BY <3>1, <3>2, <3>3
  <2>5. \A j \in 1..Len(q.entries) : q.entries[j].ref = sources[j].ref
    BY <1>1, <2>2
  <2>6. Measured(q.entries, q.used)
    BY <1>1, <2>2
  <2>7. Rendered(q, sources, k)
    BY <1>4, <1>5, <2>2, <2>3, <2>4, <2>5, <2>6 DEF Rendered
  <2>8. QED
    BY <2>7 DEF q
<1>7. CASE ~(p.omitted > 0 \/ (left < MIN_QUOTE_CHARS /\ p.entries # <<>>))
  <2>1. q = [p EXCEPT !.entries = Append(@, entry), !.used = @ + entry.chars + 2]
    BY <1>7 DEF Line
  <2>2. /\ q.entries = Append(p.entries, entry) /\ q.used = p.used + entry.chars + 2
        /\ q.omitted = p.omitted
    BY <1>2, <2>1
  <2>3. p.omitted = 0 /\ n = k - 1
    BY <1>1, <1>2, <1>7
  <2>4. left >= 0 \/ (n = 0 /\ HeaderChars[source.ref] + 1 > MAX_CHARS)
    <3>1. CASE p.entries = <<>>
      <4>1. left = MAX_CHARS - p.used - HeaderChars[source.ref] - 1
        BY DEF LeftFor
      <4>2. source.ref \in Ids
        BY <1>1 DEF SourceSet
      <4>3. HeaderChars[source.ref] \in Nat /\ MAX_CHARS \in Nat
        BY <4>2, LengthAssumption
      <4>4. p.used = 0 /\ n = 0
        BY <1>1, <1>2, <3>1
      <4> HIDE DEF left
      <4>5. QED
        BY <4>1, <4>3, <4>4
    <3>2. CASE p.entries # <<>>
      BY <1>3, <1>7, <3>2, LengthAssumption
    <3>3. QED
      BY <3>1, <3>2
  <2>5. entry.chars \in Nat
    BY <1>3 DEF PromptEntry
  <2> DEFINE grown == Append(p.entries, entry)
  <2>6. /\ Len(grown) = n + 1 /\ grown # <<>>
        /\ \A j \in 1..n : grown[j] = p.entries[j]
        /\ grown[n + 1] = entry
    <3>1. /\ Len(grown) = n + 1
          /\ \A j \in 1..n : grown[j] = p.entries[j]
          /\ grown[n + 1] = entry
      BY <1>2, <1>3, Appended
    <3> HIDE DEF n, grown
    <3>2. grown # <<>>
      <4>1. Len(<<>>) = 0 /\ n + 1 # 0
        BY <1>2
      <4>2. QED
        BY <3>1, <4>1
    <3>3. QED
      BY <3>1, <3>2
  <2>7. Measured(grown, q.used)
    BY <1>1, <1>2, <1>3, <2>2, MeasuredGrows
  <2>8. q.used <= MAX_CHARS + 2 \/ Overruns(grown)
    <3>1. CASE left >= 0
      <4> HIDE DEF q, left, entry, grown
      <4>1. p.used + entry.chars <= MAX_CHARS /\ MAX_CHARS \in Nat
        BY <1>3, <3>1, LengthAssumption
      <4>2. q.used <= MAX_CHARS + 2
        BY <1>2, <2>2, <2>5, <4>1
      <4>3. QED
        BY <4>2
    <3>2. CASE n = 0 /\ HeaderChars[source.ref] + 1 > MAX_CHARS
      <4> HIDE DEF entry, n, grown
      <4>1. Len(grown) = 1 /\ grown[1] = entry
        BY <2>6, <3>2
      <4>2. QED
        BY <1>3, <3>2, <4>1 DEF Overruns
    <3>3. QED
      BY <2>4, <3>1, <3>2
  <2> HIDE DEF q, left, entry, n, grown
  <2>9. q.entries = grown
    BY <2>2 DEF grown
  <2>10. Len(q.entries) + q.omitted = k
    BY <1>1, <1>2, <2>2, <2>3, <2>6, <2>9
  <2>11. ASSUME NEW j \in 1..Len(q.entries) PROVE q.entries[j].ref = sources[j].ref
    <3>1. j \in 1..n \/ j = n + 1
      BY <1>2, <2>6, <2>9
    <3>2. n + 1 = k
      BY <1>1, <2>3
    <3>3. QED
      BY <1>1, <1>3, <2>6, <2>9, <3>1, <3>2 DEF source, n
  <2>12. Rendered(q, sources, k)
    BY <1>4, <2>6, <2>7, <2>8, <2>9, <2>10, <2>11 DEF Rendered
  <2>13. QED
    BY <2>12 DEF q
<1>8. QED
  BY <1>6, <1>7

LEMMA SourcesAreRendered ==
  ASSUME NEW sources \in Seq(SourceSet)
  PROVE  Rendered(render_sources(sources), sources, Len(sources))
<1> DEFINE n == Len(sources)
           V == Prompt
           start == [entries |-> <<>>, used |-> 0, omitted |-> 0]
           Keeping(f) == f = [s \in SUBSET (DOMAIN sources) |->
                                IF s = {} THEN start
                                ELSE Line(f[s \ {Max(s)}], sources[Max(s)])]
           step == [k \in 1..n |-> [v \in V |-> Line(v, sources[k])]]
<1>1. n \in Nat /\ DOMAIN sources = 1..n /\ \A k \in 1..n : sources[k] \in SourceSet
  OBVIOUS
<1>2. \A f0 : Keeping(f0) => \E f : Keeping(f) /\ render_sources(sources) = f[DOMAIN sources]
  BY Zenon DEF render_sources, FoldLeft, MapThenFoldSet, Line, LeftFor
<1>3. ASSUME NEW v \in V, NEW e \in SourceSet PROVE Line(v, e) \in V
  BY LineIsPrompt
<1>4. start \in V
  BY DEF Prompt
<1>s. Rendered(start, sources, 0)
  <2>1. start.entries = <<>> /\ start.used = 0 /\ start.omitted = 0 /\ Len(<<>>) = 0
    OBVIOUS
  <2>2. Measured(<<>>, 0)
    <3> DEFINE c == [j \in 0..0 |-> 0]
    <3>1. /\ c \in [0..Len(<<>>) -> Nat] /\ c[0] = 0 /\ c[Len(<<>>)] = 0
          /\ \A j \in 1..Len(<<>>) : c[j] = c[j - 1] + <<>>[j].chars
      OBVIOUS
    <3> HIDE DEF c
    <3>2. 0 = c[Len(<<>>)] + 2 * Len(<<>>)
      BY <2>1, <3>1
    <3>3. QED
      BY <3>1, <3>2 DEF Measured
  <2> HIDE DEF start
  <2>3. QED
    BY <1>4, <2>1, <2>2 DEF Rendered
<1> HIDE DEF n, V, start
<1>5. \E f0 : Keeping(f0)
  <2>1. step \in [1..n -> [V -> V]]
    BY <1>1, <1>3
  <2>2. ASSUME NEW k \in 1..n, NEW v \in V PROVE step[k][v] = Line(v, sources[k])
    OBVIOUS
  <2> HIDE DEF step
  <2>3. PICK f \in [SUBSET (1..n) -> V] : FoldedBy(f, n, V, start, step)
    BY <1>1, <1>4, <2>1, FoldTyped
  <2>4. \A s \in SUBSET (1..n) :
          f[s] = IF s = {} THEN start ELSE Line(f[s \ {Max(s)}], sources[Max(s)])
    BY <2>2, <2>3 DEF FoldedBy
  <2>5. Keeping(f)
    BY <1>1, <2>4
  <2>6. QED
    BY <2>5
<1>6. PICK f : Keeping(f) /\ render_sources(sources) = f[1..n]
  BY <1>1, <1>2, <1>5
<1>7. f[1..0] = start
  <2>1. 1..0 = {} /\ 1..0 \in SUBSET (DOMAIN sources)
    OBVIOUS
  <2>2. QED
    BY <1>6, <2>1
<1>8. ASSUME NEW k \in 1..n PROVE f[1..k] = Line(f[1..(k - 1)], sources[k])
  <2>1. /\ 1..k \in SUBSET (DOMAIN sources) /\ 1..k # {} /\ Max(1..k) = k
        /\ (1..k) \ {k} = 1..(k - 1)
    BY <1>1, PrefixEnds
  <2>2. f[1..k] = Line(f[(1..k) \ {Max(1..k)}], sources[Max(1..k)])
    BY <1>6, <2>1
  <2>3. QED
    BY <2>1, <2>2
<1> HIDE DEF Keeping
<1> DEFINE p == [k \in 0..n |-> f[1..k]]
           G == [k \in 0..n |-> {v \in V : Rendered(v, sources, k)}]
<1>9. ASSUME NEW k \in 1..n, NEW v, Rendered(v, sources, k - 1)
      PROVE  Rendered(Line(v, sources[k]), sources, k)
  BY <1>9, LineRenders DEF n
<1>10. \A v, k : Rendered(v, sources, k) => v \in V
  BY DEF Rendered, V
<1>11. \A k \in 0..n : \A v : v \in G[k] <=> v \in V /\ Rendered(v, sources, k)
  OBVIOUS
<1>12. \A k \in 0..n : p[k] = f[1..k]
  OBVIOUS
<1> HIDE DEF p, G
<1>13. p[0] \in G[0]
  BY <1>1, <1>4, <1>7, <1>s, <1>11, <1>12
<1>14. ASSUME NEW k \in 1..n, p[k - 1] \in G[k - 1] PROVE p[k] \in G[k]
  <2>1. k - 1 \in 0..n /\ k \in 0..n
    BY <1>1
  <2>2. Rendered(p[k - 1], sources, k - 1)
    BY <1>11, <1>14, <2>1
  <2>3. p[k] = Line(p[k - 1], sources[k])
    BY <1>8, <1>12, <2>1
  <2>4. Rendered(p[k], sources, k)
    BY <1>9, <2>2, <2>3
  <2>5. QED
    BY <1>10, <1>11, <2>1, <2>4
<1>15. p[n] \in G[n]
  BY <1>1, <1>13, <1>14, Walk
<1>16. QED
  BY <1>1, <1>6, <1>11, <1>12, <1>15 DEF n

CharsOf(entries) == FoldLeft(LAMBDA sum, entry : sum + entry.chars, 0, entries)

LEMMA CharsAreMeasured ==
  ASSUME NEW entries \in Seq(PromptEntry), NEW used \in Nat, Measured(entries, used)
  PROVE  CharsOf(entries) \in Nat /\ used = CharsOf(entries) + 2 * Len(entries)
<1> DEFINE n == Len(entries)
           Keeping(f) == f = [s \in SUBSET (DOMAIN entries) |->
                                IF s = {} THEN 0
                                ELSE f[s \ {Max(s)}] + entries[Max(s)].chars]
           step == [k \in 1..n |-> [v \in Nat |-> v + entries[k].chars]]
<1>1. n \in Nat /\ DOMAIN entries = 1..n /\ \A k \in 1..n : entries[k].chars \in Nat
  <2>1. n \in Nat /\ DOMAIN entries = 1..n /\ \A k \in 1..n : entries[k] \in PromptEntry
    OBVIOUS
  <2>2. \A e \in PromptEntry : e.chars \in Nat
    BY DEF PromptEntry
  <2>3. QED
    BY <2>1, <2>2
<1>2. \A f0 : Keeping(f0) => \E f : Keeping(f) /\ CharsOf(entries) = f[DOMAIN entries]
  BY Zenon DEF CharsOf, FoldLeft, MapThenFoldSet
<1>3. PICK c \in [0..n -> Nat] :
        /\ c[0] = 0
        /\ \A j \in 1..n : c[j] = c[j - 1] + entries[j].chars
        /\ used = c[n] + 2 * n
  BY DEF Measured
<1> HIDE DEF n
<1>5. \E f0 : Keeping(f0)
  <2>1. step \in [1..n -> [Nat -> Nat]]
    BY <1>1
  <2>2. ASSUME NEW k \in 1..n, NEW v \in Nat PROVE step[k][v] = v + entries[k].chars
    OBVIOUS
  <2> HIDE DEF step
  <2>3. PICK f \in [SUBSET (1..n) -> Nat] : FoldedBy(f, n, Nat, 0, step)
    <3>1. 0 \in Nat
      OBVIOUS
    <3>2. QED
      BY <1>1, <2>1, <3>1, FoldTyped
  <2>4. \A s \in SUBSET (1..n) :
          f[s] = IF s = {} THEN 0 ELSE f[s \ {Max(s)}] + entries[Max(s)].chars
    BY <2>2, <2>3 DEF FoldedBy
  <2>5. Keeping(f)
    BY <1>1, <2>4
  <2>6. QED
    BY <2>5
<1>6. PICK f : Keeping(f) /\ CharsOf(entries) = f[1..n]
  BY <1>1, <1>2, <1>5
<1>7. f[1..0] = 0
  <2>1. 1..0 = {} /\ 1..0 \in SUBSET (DOMAIN entries)
    OBVIOUS
  <2>2. QED
    BY <1>6, <2>1
<1>8. ASSUME NEW k \in 1..n PROVE f[1..k] = f[1..(k - 1)] + entries[k].chars
  <2>1. /\ 1..k \in SUBSET (DOMAIN entries) /\ 1..k # {} /\ Max(1..k) = k
        /\ (1..k) \ {k} = 1..(k - 1)
    BY <1>1, PrefixEnds
  <2>2. f[1..k] = f[(1..k) \ {Max(1..k)}] + entries[Max(1..k)].chars
    BY <1>6, <2>1
  <2>3. QED
    BY <2>1, <2>2
<1> HIDE DEF Keeping
<1> DEFINE p == [k \in 0..n |-> f[1..k]]
           G == [k \in 0..n |-> {c[k]}]
<1>11. \A k \in 0..n : \A v : v \in G[k] <=> v = c[k]
  OBVIOUS
<1>12. \A k \in 0..n : p[k] = f[1..k]
  OBVIOUS
<1> HIDE DEF p, G
<1>13. p[0] \in G[0]
  BY <1>1, <1>3, <1>7, <1>11, <1>12
<1>14. ASSUME NEW k \in 1..n, p[k - 1] \in G[k - 1] PROVE p[k] \in G[k]
  <2>1. k - 1 \in 0..n /\ k \in 0..n
    BY <1>1
  <2>2. p[k - 1] = c[k - 1] /\ p[k] = p[k - 1] + entries[k].chars
    BY <1>8, <1>11, <1>12, <1>14, <2>1
  <2>3. QED
    BY <1>3, <1>11, <2>1, <2>2
<1>15. p[n] \in G[n]
  BY <1>1, <1>13, <1>14, Walk
<1>16. CharsOf(entries) = c[n] /\ n \in 0..n
  BY <1>1, <1>6, <1>11, <1>12, <1>15
<1>17. CharsOf(entries) \in Nat /\ used = CharsOf(entries) + 2 * n
  BY <1>3, <1>16
<1>18. QED
  BY <1>17 DEF n

(* The strongest observation of a ref is the source the ledger has of it.  *)
LEMMA BestIsGathered ==
  ASSUME NEW O \in SUBSET SourceSet, NEW v, Gathers(v, O), NEW k \in DOMAIN v
  PROVE  Max({o.score : o \in {s \in O : s.ref = v[k].ref}}) = v[k].score
<1> DEFINE S == {o.score : o \in {s \in O : s.ref = v[k].ref}}
           top == v[k].score
<1>1. v[k] \in O
  BY DEF Gathers, ToSet
<1>2. top \in S
  BY <1>1
<1>3. ASSUME NEW y \in S PROVE y \in Nat /\ top \in Nat /\ top >= y
  <2>1. PICK o \in O : o.ref = v[k].ref /\ y = o.score
    BY <1>3
  <2>2. PICK j \in DOMAIN v : v[j].ref = o.ref /\ v[j].score >= o.score
    BY DEF Gathers
  <2>3. j = k
    BY <2>1, <2>2 DEF Gathers
  <2>4. o.score \in Nat /\ v[k].score \in Nat
    BY <1>1 DEF SourceSet
  <2>5. QED
    BY <2>1, <2>2, <2>3, <2>4
<1> HIDE DEF S, top
<1>4. Max(S) \in S /\ \A y \in S : Max(S) >= y
  BY <1>2, <1>3 DEF Max
<1>5. Max(S) = top
  BY <1>2, <1>3, <1>4
<1>6. QED
  BY <1>5 DEF S, top

LEMMA PromptIsStrong ==
  ASSUME LedgerInv
  PROVE  CriticSeesStrongest
<1> DEFINE list == Sources
           n == Len(list)
           prompt == render_sources(list)
           m == Len(prompt.entries)
           shown == {prompt.entries[k].ref : k \in DOMAIN prompt.entries}
           refs == {o.ref : o \in observed}
           best(r) == Max({o.score : o \in {s \in observed : s.ref = r}})
<1>1. /\ Gathers(list, observed) /\ observed \in SUBSET SourceSet
      /\ \A a, b \in DOMAIN list : a < b => list[a].score >= list[b].score
  BY SourcesAreSorted DEF LedgerInv
<1>2. /\ list \in Seq(SourceSet) /\ n \in Nat /\ DOMAIN list = 1..n
      /\ \A a, b \in 1..n : list[a].ref = list[b].ref => a = b
  BY <1>1 DEF Gathers
<1>3. \A k \in 1..n : list[k] \in SourceSet /\ list[k] \in observed
  BY <1>1, <1>2 DEF Gathers, ToSet
<1>4. Rendered(prompt, list, n)
  BY <1>2, SourcesAreRendered
<1> HIDE DEF list, prompt
<1>5. /\ prompt.entries \in Seq(PromptEntry) /\ prompt.used \in Nat
      /\ prompt.omitted \in Nat /\ m \in Nat /\ DOMAIN prompt.entries = 1..m
      /\ m = 0 <=> prompt.entries = <<>>
  BY <1>4 DEF Rendered, Prompt
<1>6. /\ m + prompt.omitted = n
      /\ \A j \in 1..m : prompt.entries[j].ref = list[j].ref
      /\ n # 0 => m # 0
      /\ IF m = 0 THEN prompt.used = 0
         ELSE prompt.used <= MAX_CHARS + 2 \/ Overruns(prompt.entries)
      /\ Measured(prompt.entries, prompt.used)
  BY <1>4, <1>5 DEF Rendered
<1>7. m <= n
  <2> DEFINE o == prompt.omitted
  <2>1. m + o = n /\ o \in Nat
    BY <1>5, <1>6
  <2> HIDE DEF m, n, o
  <2>2. QED
    BY <1>2, <1>5, <2>1
<1>8. CharsOf(prompt.entries) + 2 * (m - 1) <= MAX_CHARS \/ Overruns(prompt.entries)
  <2> DEFINE chars == CharsOf(prompt.entries)
             used == prompt.used
  <2>1. chars \in Nat /\ used = chars + 2 * m
    BY <1>5, <1>6, CharsAreMeasured
  <2> DEFINE over == Overruns(prompt.entries)
  <2>2. IF m = 0 THEN used = 0 ELSE used <= MAX_CHARS + 2 \/ over
    BY <1>6
  <2>3. MAX_CHARS \in Nat
    BY LengthAssumption
  <2> HIDE DEF chars, used, m, over
  <2>4. chars + 2 * (m - 1) = used - 2
    BY <1>5, <2>1
  <2>5. (used <= MAX_CHARS + 2 \/ over) /\ used \in Nat
    BY <1>5, <2>1, <2>2, <2>3
  <2>6. chars + 2 * (m - 1) <= MAX_CHARS \/ over
    BY <2>3, <2>4, <2>5
  <2>7. QED
    BY <2>6 DEF chars, over
<1>9. refs = {list[k].ref : k \in 1..n}
  <2>1. {list[k].ref : k \in 1..n} \subseteq refs
    BY <1>3
  <2>2. ASSUME NEW o \in observed PROVE \E k \in 1..n : list[k].ref = o.ref
    BY <1>1, <1>2 DEF Gathers
  <2>3. refs \subseteq {list[k].ref : k \in 1..n}
    BY <2>2
  <2>4. QED
    BY <2>1, <2>3
<1>10. shown = {list[k].ref : k \in 1..m}
  <2> HIDE DEF m
  <2>1. QED
    BY <1>5, <1>6
<1>11. Cardinality(refs) = n
  <2> DEFINE F == [k \in 1..n |-> list[k].ref]
  <2>1. F \in Injection(1..n, refs)
    <3>1. F \in [1..n -> refs]
      BY <1>9
    <3>2. \A a, b \in 1..n : F[a] = F[b] => a = b
      BY <1>2
    <3> HIDE DEF F
    <3>3. QED
      BY <3>1, <3>2 DEF Injection, IsInjective
  <2>2. F \in Surjection(1..n, refs)
    <3>1. F \in [1..n -> refs]
      BY <1>9
    <3>2. \A r \in refs : \E k \in 1..n : F[k] = r
      BY <1>9
    <3> HIDE DEF F
    <3>3. QED
      BY <3>1, <3>2 DEF Surjection
  <2>3. IsFiniteSet(1..n) /\ Cardinality(1..n) = n
    <3> HIDE DEF n
    <3>1. 1 \in Int /\ n \in Int
      BY <1>2
    <3>2. /\ IsFiniteSet(1..n)
          /\ Cardinality(1..n) = IF 1 > n THEN 0 ELSE n - 1 + 1
      BY <3>1, FS_Interval
    <3>3. QED
      BY <1>2, <3>2
  <2> HIDE DEF F, refs, n
  <2>4. F \in Bijection(1..n, refs)
    BY <2>1, <2>2 DEF Bijection
  <2>5. Cardinality(refs) = Cardinality(1..n)
    BY <2>3, <2>4, FS_Bijection DEF ExistsBijection
  <2>6. QED
    BY <2>3, <2>5
<1>12. (shown = {}) = (refs = {})
  <2>1. m # 0 => 1 \in 1..m
    BY <1>5
  <2>2. n # 0 => 1 \in 1..n
    BY <1>2
  <2>3. (m = 0) = (n = 0)
    <3> HIDE DEF m, n
    <3>1. QED
      BY <1>2, <1>5, <1>6, <1>7
  <2> HIDE DEF m, n
  <2> HIDE DEF shown, refs
  <2>4. (shown = {}) = (m = 0)
    <3>1. CASE m = 0
      <4>1. \A k : k \notin 1..m
        BY <3>1
      <4>2. shown = {}
        BY <1>10, <4>1
      <4>3. QED
        BY <3>1, <4>2
    <3>2. CASE m # 0
      <4>1. list[1].ref \in shown
        BY <1>10, <2>1, <3>2
      <4>2. QED
        BY <3>2, <4>1
    <3>3. QED
      BY <3>1, <3>2
  <2>5. (refs = {}) = (n = 0)
    <3>1. CASE n = 0
      <4>1. \A k : k \notin 1..n
        BY <3>1
      <4>2. refs = {}
        BY <1>9, <4>1
      <4>3. QED
        BY <3>1, <4>2
    <3>2. CASE n # 0
      <4>1. list[1].ref \in refs
        BY <1>9, <2>2, <3>2
      <4>2. QED
        BY <3>2, <4>1
    <3>3. QED
      BY <3>1, <3>2
  <2>6. QED
    BY <2>3, <2>4, <2>5
<1>13. shown \subseteq refs
  <2> HIDE DEF m, n
  <2>1. \A k \in 1..m : k \in 1..n
    BY <1>2, <1>5, <1>7
  <2>2. QED
    BY <1>9, <1>10, <2>1
<1>14. ASSUME NEW r \in shown, NEW q \in refs \ shown
       PROVE  best(q) <= best(r)
  <2>1. PICK a \in 1..m : r = list[a].ref
    BY <1>10
  <2>2. PICK b \in 1..n : q = list[b].ref
    BY <1>9
  <2>3. ~(b \in 1..m)
    BY <1>10, <1>14, <2>2
  <2> HIDE DEF m, n
  <2>4. a \in 1..n /\ a < b
    BY <1>2, <1>5, <1>7, <2>3
  <2>5. list[a].score >= list[b].score
    BY <1>1, <1>2, <2>4
  <2>6. list[a].score \in Nat /\ list[b].score \in Nat
    BY <1>3, <2>4 DEF SourceSet
  <2>7. /\ Max({o.score : o \in {s \in observed : s.ref = list[a].ref}}) = list[a].score
        /\ Max({o.score : o \in {s \in observed : s.ref = list[b].ref}}) = list[b].score
    <3>1. a \in DOMAIN list /\ b \in DOMAIN list
      BY <1>2, <2>2, <2>4
    <3>2. \A k \in DOMAIN list :
            Max({o.score : o \in {s \in observed : s.ref = list[k].ref}})
              = list[k].score
      BY <1>1, BestIsGathered
    <3>3. QED
      BY <3>1, <3>2
  <2>8. best(r) = list[a].score /\ best(q) = list[b].score
    BY <2>1, <2>2, <2>7
  <2> HIDE DEF best
  <2>9. QED
    BY <2>5, <2>6, <2>8
<1>15. Cardinality(refs) = m + prompt.omitted
  BY <1>6, <1>11
<1>16. CharsOf(prompt.entries)
         = FoldLeft(LAMBDA sum, entry : sum + entry.chars, 0, prompt.entries)
  BY DEF CharsOf
<1> HIDE DEF shown, refs, best, CharsOf, m
<1>17. QED
  BY <1>8, <1>12, <1>13, <1>14, <1>15, Zenon
  DEF CriticSeesStrongest, CriticPrompt, Overruns, prompt, shown, refs, best, list,
      CharsOf, m

(* What the critic is shown of the evidence fits its budget unless a       *)
(* single header does not, shows something if there is something, and      *)
(* leaves out nothing stronger than what it shows, for any number of       *)
(* searches and sources and any lengths (agent/evidence.py add,            *)
(* render_sources, agent/critic.py evaluate).                              *)
THEOREM PromptIsStrongest == EvidenceSpec => []CriticSeesStrongest
<1>1. LedgerInv => CriticSeesStrongest
  BY PromptIsStrong
<1>2. QED
  BY <1>1, LedgerInvariant, PTL
=============================================================================
