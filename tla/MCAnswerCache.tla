---------------------------- MODULE MCAnswerCache ----------------------------
(* Small instances of AnswerCache: two close queries and a distant one.    *)
EXTENDS AnswerCache, TLC

CONSTANTS near1, near2, far, w1, w2, w3

Cosine == [p \in Queries \X Queries |->
             IF p[1] = p[2] THEN 100
             ELSE IF far \in {p[1], p[2]} THEN 10 ELSE 95]

Threads == Permutations(Workers)
=============================================================================
