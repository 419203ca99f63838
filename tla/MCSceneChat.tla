---------------------------- MODULE MCSceneChat ----------------------------
(***************************************************************************)
(* The chat of a scene workspace on small instances.                       *)
(*                                                                         *)
(* The conversations are interchangeable and a conversation that is        *)
(* COMPLETE from the start is one that completed before anything else      *)
(* happened: one initial state stands for all that begin with a            *)
(* conversation on the screen.                                             *)
(***************************************************************************)
EXTENDS SceneChat

CONSTANT A

MCInit == Init /\ convUid = A /\ \A c \in Conv : server[c] = "RUNNING"

MCSpec == MCInit /\ [][Next]_vars

MCFairSpec == MCSpec /\ Fairness
=============================================================================
