----------------------------- MODULE MCAgentLoop -----------------------------
(***************************************************************************)
(* An instance of AgentLoop for TLC.                                        *)
(***************************************************************************)
EXTENDS AgentLoop, TLC

CONSTANTS r1, r2

(* The model calls up to two tools at once for r1 and none for r2, whose     *)
(* part is to share the gauge and the policy.                                *)
UsesPerRun == r1 :> 2 @@ r2 :> 0
=============================================================================
