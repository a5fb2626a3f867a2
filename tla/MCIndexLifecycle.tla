-------------------------- MODULE MCIndexLifecycle --------------------------
(* Scenarios for IndexLifecycle: who runs which command, and in what order.*)
EXTENDS IndexLifecycle, TLC

CONSTANTS v1, v2, v3, c1, c2, j1, j2, j3, j4

Holding(a, b) == (c1 :> a) @@ (c2 :> b)
Old == Holding(1, 1)
New == Holding(2, 1)
Small == Holding(2, 0)

Build(v, source, publish) ==
  [op |-> "reindex", version |-> v, source |-> source, publish |-> publish]
Activate(v) ==
  [op |-> "activate", version |-> v, source |-> Nothing, publish |-> TRUE]

Plan(command, needs, follows, readOnly) ==
  [command |-> command, needs |-> needs, follows |-> follows,
   read_only |-> readOnly]
Free(jobs) == [j \in jobs |-> {}]

(* v1 is live.  v2 is built and published while v3 is built for later; a   *)
(* finished v3 is promoted, and once v2 has been live v1 may come back.    *)
Promote == Plan(j1 :> Build(v2, New, TRUE) @@ j2 :> Build(v3, Small, FALSE)
                @@ j3 :> Activate(v3) @@ j4 :> Activate(v1),
                j1 :> {} @@ j2 :> {} @@ j3 :> {j2} @@ j4 :> {j1},
                Free({j1, j2, j3, j4}), TRUE)

(* v2 is built and published, the corpus changes, the command is run again *)
(* whether or not its first run died, and v1 is put back.                  *)
Rerun == Plan(j1 :> Build(v2, Old, TRUE) @@ j2 :> Build(v2, New, TRUE)
              @@ j3 :> Activate(v1),
              Free({j1, j2, j3}),
              j1 :> {} @@ j2 :> {j1} @@ j3 :> {j1, j2}, FALSE)

Operations == {Promote, Rerun}
=============================================================================
