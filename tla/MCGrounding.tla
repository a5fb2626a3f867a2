---------------------------- MODULE MCGrounding ----------------------------
(* A small corpus, whose first chunk changes hands.                        *)
EXTENDS AgentEvidence

CONSTANTS ca, cb, cc, cd, stub, acme, umbra, eng, hr, v1, v2, word, filler

Chunk(t, groups, v, body) ==
  [tenant |-> t, allow_groups |-> groups, index_version |-> v, text |-> body]
At(i, chunk) == [id |-> i, chunk |-> chunk]

(* "on" has the word that is asked for, twice; "off" has not.              *)
Counts == [t \in Texts |-> IF t = "on" THEN [w \in Terms |-> IF w = word THEN 2 ELSE 1]
                           ELSE [w \in Terms |-> IF w = word THEN 0 ELSE 1]]

Open == Chunk(acme, {}, v1, "on")
ForEng == Chunk(acme, {eng}, v1, "on")
ForHr == Chunk(acme, {hr}, v1, "off")
Foreign == Chunk(umbra, {}, v1, "on")
Other == Chunk(acme, {}, v2, "on")

(* A corpus, and a later one: ca changes hands, cc is named twice.         *)
SomeBatches == {
  <<At(ca, ForEng), At(cb, Open), At(cd, Other)>>,
  <<At(cb, Foreign), At(cc, Open), At(ca, ForHr), At(cc, ForEng)>>}

SomeCallers == {[tenant |-> acme, groups |-> {eng}],
                [tenant |-> acme, groups |-> {}]}

(* ca and cb share their first twelve characters; stub resembles both.     *)
Resembles == [m \in Markers |-> IF m \in {cc, cd} THEN {m} ELSE {ca, cb}]

(* The prompt has room for two sources, the second cut short, if they are  *)
(* ca and cb.  The header of cc leaves no room for its quote, and costs    *)
(* its last character.                                                     *)
Headers == [i \in Ids |-> CASE i = ca -> 2 [] i = cc -> 24 [] OTHER -> 5]
Lengths == [t \in Texts |-> IF t = "on" THEN 9 ELSE 2]

(* One caller, one corpus of two long chunks, in sizes of agent/evidence.py. *)
OneBatch == {<<At(ca, ForEng), At(cb, Open)>>}
OneCaller == {[tenant |-> acme, groups |-> {eng}]}
ShortHeaders == [i \in Ids |-> 60]
LongTexts == [t \in Texts |-> 900]
=============================================================================
