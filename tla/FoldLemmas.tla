----------------------------- MODULE FoldLemmas -----------------------------
(***************************************************************************)
(* Lemmas about sets of numbers and about folds, which the proofs about    *)
(* every component that goes through a list rest on.                       *)
(***************************************************************************)
EXTENDS Integers, SequencesExt, FiniteSetTheorems, WellFoundedInduction, TLAPS

(* A nonempty set of numbers has a least one.                              *)
LEMMA LeastExists ==
  ASSUME NEW S \in SUBSET Nat, S # {}
  PROVE  \E m \in S : \A n \in S : m <= n
<1>1. PICK m \in S : \A n \in S : ~(<<n, m>> \in OpToRel(<, Nat))
  BY WFMin, NatLessThanWellFounded, Zenon
<1>2. \A n \in S : ~(n < m)
  BY <1>1 DEF OpToRel
<1>3. QED
  BY <1>2

(* Induction, over sets.                                                   *)
LEMMA Induction ==
  ASSUME NEW S \in SUBSET Nat, 0 \in S, \A n \in S : n + 1 \in S
  PROVE  \A n \in Nat : n \in S
<1> SUFFICES ASSUME Nat \ S # {} PROVE FALSE
  OBVIOUS
<1>1. PICK m \in Nat \ S : \A n \in Nat \ S : m <= n
  BY LeastExists
<1>2. m # 0 /\ m - 1 \in Nat
  BY <1>1
<1>3. m - 1 \in S
  BY <1>1, <1>2
<1>4. (m - 1) + 1 = m
  BY <1>1
<1>5. QED
  BY <1>1, <1>3, <1>4

(* A finite nonempty set of positions has a last one.                      *)
LEMMA LastPosition ==
  ASSUME NEW n \in Nat, NEW at \in SUBSET (1..n), at # {}
  PROVE  Max(at) \in at /\ \A k \in at : k <= Max(at)
<1> DEFINE gaps == {n - m : m \in at}
<1>1. /\ gaps \subseteq Nat
      /\ gaps # {}
  <2>1. \A m \in at : m \in 1..n
    OBVIOUS
  <2>2. \A m \in at : n - m \in Nat
    BY <2>1
  <2>3. QED
    BY <2>2
<1>2. PICK g \in gaps : \A h \in gaps : ~(<<h, g>> \in OpToRel(<, Nat))
  BY <1>1, WFMin, NatLessThanWellFounded, Zenon
<1>3. PICK m \in at : g = n - m
  OBVIOUS
<1>4. \A k \in at : k <= m
  <2> SUFFICES ASSUME NEW k \in at PROVE k <= m
    OBVIOUS
  <2>1. n - k \in gaps /\ n - k \in Nat /\ n - m \in Nat
    OBVIOUS
  <2>2. ~(n - k < n - m)
    BY <1>2, <1>3, <2>1 DEF OpToRel
  <2>3. QED
    BY <2>2
<1>5. m >= m /\ \A k \in at : m >= k
  BY <1>4
<1>6. Max(at) \in at /\ \A k \in at : Max(at) >= k
  BY <1>5 DEF Max
<1>7. QED
  BY <1>6

(***************************************************************************)
(* Folds.  The library folds a sequence by a function on the subsets of    *)
(* its domain, whose value on a set is made from its greatest member and   *)
(* the value on the rest.                                                  *)
(***************************************************************************)

(* f folds the steps into first, over every set of positions up to n.      *)
Folding(f, n, first, step) ==
  \A s \in SUBSET (1..n) :
    f[s] = IF s = {} THEN first ELSE step[Max(s)][f[s \ {Max(s)}]]

(* There is such a function: the recursion is well founded.                *)
LEMMA FoldExists ==
  ASSUME NEW n \in Nat, NEW V, NEW first \in V, NEW step \in [1..n -> [V -> V]]
  PROVE  \E f \in [SUBSET (1..n) -> V] : Folding(f, n, first, step)
<1> DEFINE Foldable(m) == \E f \in [SUBSET (1..m) -> V] : Folding(f, m, first, step)
           Reached == {m \in Nat : m <= n => Foldable(m)}
<1>1. 0 \in Reached
  <2> DEFINE f == [s \in SUBSET (1..0) |-> first]
  <2>1. f \in [SUBSET (1..0) -> V]
    OBVIOUS
  <2>2. ASSUME NEW s \in SUBSET (1..0) PROVE s = {} /\ f[s] = first
    OBVIOUS
  <2> HIDE DEF f
  <2>3. Folding(f, 0, first, step)
    BY <2>2 DEF Folding
  <2>4. QED
    BY <2>1, <2>3
<1>2. ASSUME NEW m \in Reached PROVE m + 1 \in Reached
  <2> DEFINE k == m + 1
  <2>1. m \in Nat /\ k \in Nat
    OBVIOUS
  <2> SUFFICES ASSUME k <= n PROVE Foldable(k)
    <3> HIDE DEF Foldable
    <3>1. QED
      BY <2>1
  <2>0. Foldable(m)
    <3> HIDE DEF Foldable
    <3>1. QED
      BY <2>1
  <2>2. PICK f \in [SUBSET (1..m) -> V] : Folding(f, m, first, step)
    BY <2>0
  <2>3. k \in 1..n /\ step[k] \in [V -> V]
    BY <2>1
  <2> DEFINE g == [s \in SUBSET (1..k) |->
                     IF k \in s THEN step[k][f[s \ {k}]] ELSE f[s]]
  <2>4. ASSUME NEW s \in SUBSET (1..k)
        PROVE  s \ {k} \in SUBSET (1..m) /\ (k \notin s => s \in SUBSET (1..m))
    <3>1. ASSUME NEW x \in s, x # k PROVE x \in 1..m
      <4>1. x \in Nat /\ 1 <= x /\ x <= k
        BY <2>1
      <4>2. QED
        BY <2>1, <3>1, <4>1
    <3>2. QED
      BY <3>1
  <2>5. g \in [SUBSET (1..k) -> V]
    BY <2>2, <2>3, <2>4
  <2>6. ASSUME NEW s \in SUBSET (1..k)
        PROVE  g[s] = IF s = {} THEN first ELSE step[Max(s)][g[s \ {Max(s)}]]
    <3>1. CASE k \in s
      <4>1. Max(s) = k
        <5>1. Max(s) \in s /\ \A j \in s : j <= Max(s)
          BY <2>1, <3>1, LastPosition
        <5>2. Max(s) \in 1..k /\ k <= Max(s)
          BY <3>1, <5>1
        <5>3. QED
          BY <2>1, <5>2
      <4>2. g[s \ {k}] = f[s \ {k}] /\ g[s] = step[k][f[s \ {k}]]
        BY <3>1, <2>4
      <4>3. QED
        BY <3>1, <4>1, <4>2
    <3>2. CASE k \notin s
      <4>1. s \in SUBSET (1..m) /\ g[s] = f[s]
        BY <2>4, <3>2
      <4>2. g[s \ {Max(s)}] = f[s \ {Max(s)}]
        BY <3>2
      <4>3. f[s] = IF s = {} THEN first ELSE step[Max(s)][f[s \ {Max(s)}]]
        BY <2>2, <4>1 DEF Folding
      <4>4. QED
        BY <4>1, <4>2, <4>3
    <3>3. QED
      BY <3>1, <3>2
  <2> HIDE DEF g, k
  <2>7. Folding(g, k, first, step)
    BY <2>6 DEF Folding
  <2>8. QED
    BY <2>5, <2>7
<1>3. n \in Reached
  <2>1. Reached \in SUBSET Nat
    OBVIOUS
  <2> HIDE DEF Reached
  <2>2. QED
    BY <1>1, <1>2, <2>1, Induction
<1>4. Foldable(n)
  <2> HIDE DEF Foldable
  <2>1. QED
    BY <1>3
<1>5. QED
  BY <1>4

(* The last of the first k positions, and the rest.                        *)
LEMMA PrefixEnds ==
  ASSUME NEW n \in Nat, NEW k \in 1..n
  PROVE  /\ 1..k \in SUBSET (1..n) /\ 1..k # {} /\ Max(1..k) = k
         /\ (1..k) \ {k} = 1..(k - 1)
<1>1. k \in Nat /\ k \in 1..k
  OBVIOUS
<1>2. Max(1..k) \in 1..k /\ \A j \in 1..k : j <= Max(1..k)
  BY <1>1, LastPosition
<1>3. Max(1..k) = k
  BY <1>1, <1>2
<1>4. 1..k \in SUBSET (1..n) /\ 1..k # {}
  <2>1. ASSUME NEW x \in 1..k PROVE x \in 1..n
    OBVIOUS
  <2>2. QED
    BY <1>1, <2>1
<1>5. (1..k) \ {k} = 1..(k - 1)
  <2>1. ASSUME NEW x PROVE x \in (1..k) \ {k} <=> x \in 1..(k - 1)
    BY <1>1
  <2>2. QED
    BY <2>1
<1>6. QED
  BY <1>3, <1>4, <1>5

(***************************************************************************)
(* A list that is folded, element by element: p[k] is what the fold has    *)
(* made of the first k.                                                    *)
(***************************************************************************)
LEMMA Walk ==
  ASSUME NEW n \in Nat, NEW p, NEW G, p[0] \in G[0],
         \A k \in 1..n : p[k - 1] \in G[k - 1] => p[k] \in G[k]
  PROVE  p[n] \in G[n]
<1> DEFINE S == {k \in Nat : k <= n => p[k] \in G[k]}
<1>1. 0 \in S
  OBVIOUS
<1>2. ASSUME NEW k \in S PROVE k + 1 \in S
  <2>1. k \in Nat /\ (k + 1) - 1 = k
    OBVIOUS
  <2>2. SUFFICES ASSUME k + 1 <= n PROVE p[k + 1] \in G[k + 1]
    BY <2>1
  <2>3. k + 1 \in 1..n /\ p[k] \in G[k]
    BY <2>1, <2>2
  <2>4. QED
    BY <2>1, <2>3
<1>3. S \in SUBSET Nat
  OBVIOUS
<1> HIDE DEF S
<1>4. n \in S
  BY <1>1, <1>2, <1>3, Induction
<1>5. QED
  BY <1>4 DEF S

FoldedBy(f, n, V, base, step) ==
  \A s \in SUBSET (1..n) :
    /\ s = {} => f[s] = base
    /\ s # {} => /\ Max(s) \in 1..n /\ f[s \ {Max(s)}] \in V
                 /\ f[s] = step[Max(s)][f[s \ {Max(s)}]]

(* The same for a fold over a sequence, as Folds defines it.               *)
LEMMA FoldTyped ==
  ASSUME NEW n \in Nat, NEW V, NEW base \in V, NEW step \in [1..n -> [V -> V]]
  PROVE  \E f \in [SUBSET (1..n) -> V] : FoldedBy(f, n, V, base, step)
<1>1. PICK f \in [SUBSET (1..n) -> V] : Folding(f, n, base, step)
  BY FoldExists
<1>2. ASSUME NEW s \in SUBSET (1..n)
      PROVE  /\ s = {} => f[s] = base
             /\ s # {} => /\ Max(s) \in 1..n /\ f[s \ {Max(s)}] \in V
                          /\ f[s] = step[Max(s)][f[s \ {Max(s)}]]
  <2>1. f[s] = IF s = {} THEN base ELSE step[Max(s)][f[s \ {Max(s)}]]
    BY <1>1 DEF Folding
  <2>2. s # {} => Max(s) \in 1..n
    BY LastPosition
  <2>3. s \ {Max(s)} \in SUBSET (1..n)
    OBVIOUS
  <2>4. f[s \ {Max(s)}] \in V
    BY <1>1, <2>3
  <2>5. QED
    BY <2>1, <2>2, <2>4
<1>3. QED
  BY <1>1, <1>2 DEF FoldedBy

(* g is what such a fold is defined as, in whatever set its values are.    *)
Follows(g, n, V, base, step) ==
  /\ g[{}] = base
  /\ \A s \in SUBSET (1..n) :
       (s # {} /\ g[s \ {Max(s)}] \in V) => g[s] = step[Max(s)][g[s \ {Max(s)}]]

(* p goes through such a fold, a step at a time.                           *)
Walks(p, n, V, base, step) ==
  /\ p \in [0..n -> V] /\ p[0] = base
  /\ \A k \in 1..n : p[k] = step[k][p[k - 1]]

(* What FoldLeft returns is the last of a walk, one step per element.      *)
LEMMA FoldWalks ==
  ASSUME NEW n \in Nat, NEW V, NEW base \in V, NEW step \in [1..n -> [V -> V]],
         NEW g, Follows(g, n, V, base, step)
  PROVE  \E p : Walks(p, n, V, base, step) /\ p[n] = g[1..n]
<1> DEFINE p == [k \in 0..n |-> g[1..k]]
           G == [k \in 0..n |-> V]
<1>1. p[0] = base
  <2>1. 1..0 = {}
    OBVIOUS
  <2>2. QED
    BY <2>1 DEF Follows
<1>2. ASSUME NEW k \in 1..n, p[k - 1] \in V
      PROVE  p[k] = step[k][p[k - 1]] /\ p[k] \in V
  <2>1. /\ 1..k \in SUBSET (1..n) /\ 1..k # {} /\ Max(1..k) = k
        /\ (1..k) \ {k} = 1..(k - 1)
    BY PrefixEnds
  <2>2. p[k] = g[1..k] /\ p[k - 1] = g[1..(k - 1)]
    OBVIOUS
  <2> DEFINE s == 1..k
             r == 1..(k - 1)
  <2>3. /\ s \in SUBSET (1..n) /\ s # {} /\ Max(s) = k /\ s \ {k} = r
        /\ p[k] = g[s] /\ p[k - 1] = g[r]
    BY <2>1, <2>2
  <2> HIDE DEF p, s, r
  <2>4. s \ {Max(s)} = r
    BY <2>3
  <2>5. g[s \ {Max(s)}] \in V
    BY <1>2, <2>3, <2>4
  <2>6. g[s] = step[Max(s)][g[s \ {Max(s)}]]
    BY <2>3, <2>5 DEF Follows
  <2>7. p[k] = step[k][p[k - 1]]
    BY <2>3, <2>4, <2>6
  <2>8. step[k] \in [V -> V]
    OBVIOUS
  <2>9. QED
    BY <1>2, <2>7, <2>8
<1>3. ASSUME NEW m \in 0..n PROVE p[m] \in V
  <2> HIDE DEF p
  <2>1. m \in Nat /\ p[0] \in G[0]
    BY <1>1
  <2>2. \A k \in 1..m : p[k - 1] \in G[k - 1] => p[k] \in G[k]
    BY <1>2
  <2> HIDE DEF G
  <2>3. p[m] \in G[m]
    BY <2>1, <2>2, Walk
  <2>4. QED
    BY <2>3 DEF G
<1>4. p \in [0..n -> V] /\ p[n] = g[1..n]
  <2>1. p = [k \in 0..n |-> p[k]]
    OBVIOUS
  <2>2. p[n] = g[1..n]
    OBVIOUS
  <2> HIDE DEF p
  <2>3. QED
    BY <1>3, <2>1, <2>2
<1>5. \A k \in 1..n : p[k] = step[k][p[k - 1]]
  <2> HIDE DEF p
  <2>1. QED
    BY <1>2, <1>3
<1> HIDE DEF p
<1>6. Walks(p, n, V, base, step) /\ p[n] = g[1..n]
  BY <1>1, <1>4, <1>5 DEF Walks
<1>7. QED
  BY <1>6

(* Such a list can always be made.                                         *)
LEMMA WalkExists ==
  ASSUME NEW n \in Nat, NEW V, NEW base \in V, NEW step \in [1..n -> [V -> V]]
  PROVE  \E p : Walks(p, n, V, base, step)
<1>1. PICK f \in [SUBSET (1..n) -> V] : FoldedBy(f, n, V, base, step)
  BY FoldTyped
<1>2. Follows(f, n, V, base, step)
  BY <1>1 DEF FoldedBy, Follows
<1>3. QED
  BY <1>2, FoldWalks

(***************************************************************************)
(* Lists of lists.                                                         *)
(***************************************************************************)
(* p[k] is the first k lists, one after another.                           *)
Flattens(p, V, seqs) ==
  /\ p \in [0..Len(seqs) -> Seq(V)]
  /\ p[0] = <<>> /\ p[Len(seqs)] = FlattenSeq(seqs)
  /\ \A k \in 1..Len(seqs) : p[k] = p[k - 1] \o seqs[k]

(* Flattening has a history, sequence by sequence.                         *)
LEMMA FlattenWalks ==
  ASSUME NEW V, NEW seqs \in Seq(Seq(V))
  PROVE  \E p : Flattens(p, V, seqs)
<1> DEFINE n == Len(seqs)
           S == Seq(V)
           none == <<>>
           step == [k \in 1..n |-> [v \in S |-> v \o seqs[k]]]
           Flat(f) == f = [i \in 1..n |-> IF i = 1 THEN seqs[i] ELSE f[i - 1] \o seqs[i]]
<1>1. n \in Nat /\ none \in S /\ \A k \in 1..n : seqs[k] \in S
  OBVIOUS
<1>2. \A k \in 1..n, v \in S : v \o seqs[k] \in S
  BY <1>1
<1>3. step \in [1..n -> [S -> S]] /\ \A k \in 1..n, v \in S : step[k][v] = v \o seqs[k]
  BY <1>2
<1>4. none \o seqs[1] = seqs[1] \/ n = 0
  BY <1>1
<1>5. n = 0 => FlattenSeq(seqs) = none
  BY DEF FlattenSeq
<1>6. \A f0 : Flat(f0) => \E f : Flat(f) /\ (n # 0 => FlattenSeq(seqs) = f[n])
  BY Zenon DEF FlattenSeq
<1> HIDE DEF n, S, none, step
<1>0. PICK p : Walks(p, n, S, none, step)
  BY <1>1, <1>3, WalkExists
<1>7. p \in [0..n -> S] /\ p[0] = none /\ \A k \in 1..n : p[k] = step[k][p[k - 1]]
  BY <1>0 DEF Walks
<1>8. \A k \in 1..n : p[k] = p[k - 1] \o seqs[k]
  <2>1. \A k \in 1..n : p[k - 1] \in S
    BY <1>1, <1>7
  <2>2. QED
    BY <1>3, <1>7, <2>1
<1>9. \E f0 : Flat(f0)
  <2> DEFINE g == [i \in 1..n |-> p[i]]
  <2>1. ASSUME NEW i \in 1..n PROVE g[i] = IF i = 1 THEN seqs[i] ELSE g[i - 1] \o seqs[i]
    <3>1. CASE i = 1
      <4>1. 1 - 1 = 0 /\ n # 0 /\ 1 \in 1..n
        BY <1>1, <3>1
      <4>2. QED
        BY <1>4, <1>7, <1>8, <3>1, <4>1
    <3>2. CASE i # 1
      <4>1. i - 1 \in 1..n
        BY <1>1, <3>2
      <4>2. QED
        BY <1>8, <3>2, <4>1
    <3>3. QED
      BY <3>1, <3>2
  <2>2. Flat(g)
    BY <2>1
  <2>3. QED
    BY <2>2
<1>10. PICK f : Flat(f) /\ (n # 0 => FlattenSeq(seqs) = f[n])
  BY <1>6, <1>9
<1>11. \A i \in 1..n : f[i] = IF i = 1 THEN seqs[i] ELSE f[i - 1] \o seqs[i]
  BY <1>10
<1> DEFINE G == [k \in 0..n |-> IF k = 0 THEN {p[0]} ELSE {v \in {p[k]} : v = f[k]}]
<1>12. p[0] \in G[0]
  BY <1>1
<1>13. ASSUME NEW k \in 1..n, p[k - 1] \in G[k - 1] PROVE p[k] \in G[k]
  <2>1. k \in 0..n /\ k # 0 /\ k - 1 \in 0..n
    BY <1>1
  <2>2. p[k] = f[k]
    <3>1. CASE k = 1
      <4>1. 1 - 1 = 0 /\ n # 0 /\ 1 \in 1..n
        BY <1>1, <3>1
      <4>2. QED
        BY <1>4, <1>7, <1>8, <1>11, <3>1, <4>1
    <3>2. CASE k # 1
      <4>1. k - 1 # 0
        BY <1>1, <3>2
      <4>2. p[k - 1] = f[k - 1]
        BY <1>13, <2>1, <4>1
      <4>3. QED
        BY <1>8, <1>11, <3>2, <4>2
    <3>3. QED
      BY <3>1, <3>2
  <2>3. QED
    BY <2>1, <2>2
<1> HIDE DEF G
<1>14. p[n] \in G[n]
  BY <1>1, <1>12, <1>13, Walk
<1>15. p[n] = FlattenSeq(seqs)
  <2>1. CASE n = 0
    BY <1>5, <1>7, <2>1
  <2>2. CASE n # 0
    <3>1. n \in 0..n
      BY <1>1
    <3>2. p[n] = f[n]
      BY <1>14, <2>2, <3>1 DEF G
    <3>3. QED
      BY <1>10, <2>2, <3>2
  <2>3. QED
    BY <2>1, <2>2
<1>16. Flattens(p, V, seqs)
  BY <1>7, <1>8, <1>15 DEF Flattens, n, S, none
<1>17. QED
  BY <1>16

(* What is in a list of lists is in one of its lists, and the converse.    *)
FlatFrom(v, V, seqs, k) ==
  /\ v \in Seq(V)
  /\ \A i \in 1..Len(v) : \E j \in 1..k : \E m \in 1..Len(seqs[j]) : v[i] = seqs[j][m]
  /\ \A j \in 1..k : \A m \in 1..Len(seqs[j]) : \E i \in 1..Len(v) : v[i] = seqs[j][m]

(* What FlattenSeq returns: the elements of the sequences, no others.      *)
LEMMA FlattenIs ==
  ASSUME NEW V, NEW seqs \in Seq(Seq(V))
  PROVE  FlatFrom(FlattenSeq(seqs), V, seqs, Len(seqs))
<1> DEFINE n == Len(seqs)
           G == [k \in 0..n |-> {v \in Seq(V) : FlatFrom(v, V, seqs, k)}]
<1>1. n \in Nat /\ \A k \in 1..n : seqs[k] \in Seq(V)
  OBVIOUS
<1>2. PICK p : Flattens(p, V, seqs)
  BY FlattenWalks
<1>3. /\ p \in [0..n -> Seq(V)] /\ p[0] = <<>> /\ p[n] = FlattenSeq(seqs)
      /\ \A k \in 1..n : p[k] = p[k - 1] \o seqs[k]
  BY <1>2 DEF Flattens
<1>4. \A k \in 0..n : \A v : v \in G[k] <=> v \in Seq(V) /\ FlatFrom(v, V, seqs, k)
  OBVIOUS
<1> HIDE DEF n, G
<1>5. p[0] \in G[0]
  <2>1. FlatFrom(<<>>, V, seqs, 0)
    BY DEF FlatFrom
  <2>2. QED
    BY <1>1, <1>3, <1>4, <2>1
<1>6. ASSUME NEW k \in 1..n, p[k - 1] \in G[k - 1] PROVE p[k] \in G[k]
  <2> DEFINE v == p[k - 1]
             q == seqs[k]
             w == v \o q
             a == Len(v)
             b == Len(q)
  <2>1. k - 1 \in 0..n /\ k \in 0..n /\ k \in Nat
    BY <1>1
  <2>2. v \in Seq(V) /\ FlatFrom(v, V, seqs, k - 1) /\ q \in Seq(V) /\ p[k] = w
    BY <1>1, <1>3, <1>4, <1>6, <2>1
  <2> HIDE DEF v, q
  <2>3. /\ w \in Seq(V) /\ a \in Nat /\ b \in Nat /\ Len(w) = a + b
        /\ \A i \in 1..a : w[i] = v[i]
        /\ \A i \in 1..b : w[a + i] = q[i]
    BY <2>2
  <2> HIDE DEF w, a, b
  <2>4. ASSUME NEW i \in 1..Len(w)
        PROVE  \E j \in 1..k : \E m \in 1..Len(seqs[j]) : w[i] = seqs[j][m]
    <3>1. CASE i \in 1..a
      <4>1. PICK j \in 1..k - 1 : \E m \in 1..Len(seqs[j]) : v[i] = seqs[j][m]
        BY <2>2, <3>1 DEF FlatFrom, a
      <4>2. j \in 1..k
        BY <2>1
      <4>3. QED
        BY <2>3, <3>1, <4>1, <4>2
    <3>2. CASE i \notin 1..a
      <4> DEFINE m == i - a
      <4>1. m \in 1..b /\ a + m = i
        BY <2>3, <3>2
      <4> HIDE DEF m
      <4>2. w[a + m] = q[m] /\ k \in 1..k
        <5>1. k \in 1..k
          BY <2>1, <1>1
        <5>2. QED
          BY <2>3, <4>1, <5>1
      <4>3. QED
        BY <4>1, <4>2 DEF q, b
    <3>3. QED
      BY <3>1, <3>2
  <2>5. ASSUME NEW j \in 1..k, NEW m \in 1..Len(seqs[j])
        PROVE  \E i \in 1..Len(w) : w[i] = seqs[j][m]
    <3>1. CASE j = k
      <4>1. m \in 1..b /\ seqs[j][m] = q[m]
        BY <3>1 DEF b, q
      <4>2. a + m \in 1..Len(w) /\ w[a + m] = q[m]
        BY <2>3, <4>1
      <4>3. QED
        BY <4>1, <4>2
    <3>2. CASE j # k
      <4>1. j \in 1..k - 1
        BY <2>1, <3>2
      <4>2. PICK i \in 1..a : v[i] = seqs[j][m]
        BY <2>2, <4>1 DEF FlatFrom, a
      <4>3. i \in 1..Len(w)
        BY <2>3
      <4>4. QED
        BY <2>3, <4>2, <4>3
    <3>3. QED
      BY <3>1, <3>2
  <2>6. FlatFrom(w, V, seqs, k)
    BY <2>3, <2>4, <2>5 DEF FlatFrom
  <2>7. QED
    BY <1>4, <2>1, <2>2, <2>3, <2>6
<1>7. p[n] \in G[n]
  BY <1>1, <1>5, <1>6, Walk
<1>8. n \in 0..n
  BY <1>1
<1>9. QED
  BY <1>3, <1>4, <1>7, <1>8 DEF n
=============================================================================
