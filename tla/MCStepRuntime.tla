--------------------------- MODULE MCStepRuntime ---------------------------
(***************************************************************************)
(* The runtime on a small instance: a tool the rules allow, one they leave *)
(* to the user, which may be asked for twice in a step, and the spawning   *)
(* of a sub-agent.  A refusal by the rules ends in the same event as one   *)
(* by the user.                                                            *)
(***************************************************************************)
EXTENDS StepRuntime, TLC
CONSTANTS read, write, spawn
ReadWriteSpawn == read :> "allow" @@ write :> "ask" @@ spawn :> "spawn"
=============================================================================
