---------------------------- MODULE MCAgentTurn ----------------------------
(* Values of the constants of AgentTurn for TLC.                           *)
EXTENDS AgentTurn

CONSTANTS r1, r2, hidden

MCRefs == {r1, r2, hidden}
MCVisible == {r1, r2}

(* Room for a correction, a truncated batch and a spent critic.            *)
MCCeiling == [max_steps |-> 3, max_tool_calls |-> 2,
              max_critique_rounds |-> 2, max_tokens |-> 4]

(* The ceiling itself, a caller asking for more than it in every           *)
(* dimension but critiques, and one who runs out of tokens first.          *)
MCRequests ==
  {MCCeiling,
   [max_steps |-> 9, max_tool_calls |-> 9, max_critique_rounds |-> 0,
    max_tokens |-> 9],
   [max_steps |-> 3, max_tool_calls |-> 1, max_critique_rounds |-> 9,
    max_tokens |-> 2]}

(* A smaller turn, enough for a critic to fail in.                         *)
MCSmallCeiling == [max_steps |-> 2, max_tool_calls |-> 2,
                   max_critique_rounds |-> 1, max_tokens |-> 9]
MCSmallRequests == {MCSmallCeiling}
=============================================================================
