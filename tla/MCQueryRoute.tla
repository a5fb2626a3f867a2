---------------------------- MODULE MCQueryRoute ----------------------------
(* Small instances of QueryRoute.                                          *)
EXTENDS QueryRoute, TLC

CONSTANTS q1, q2, q3, ana, bob, acme, umbra

TwoRequests == {q1, q2}
ThreeRequests == {q1, q2, q3}

(* Two callers of one tenant, in different groups.                         *)
ScopeOfTwo == q1 :> ana @@ q2 :> ana
ScopeOfThree == q1 :> ana @@ q2 :> ana @@ q3 :> bob
OneTenant == [r \in Requests |-> acme]

(* Requests of one caller may be swapped.                                  *)
SameCaller == Permutations({q1, q2})

(* Bound: once the alias has moved, only one caller asks.                  *)
OneCallerAfterPromotion == promotions = 0 \/ pc[q3] = "new"
=============================================================================
