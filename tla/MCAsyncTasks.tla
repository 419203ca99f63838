---------------------------- MODULE MCAsyncTasks ----------------------------
(* Instances of AsyncTasks.                                                  *)
EXTENDS AsyncTasks, TLC

CONSTANTS t1, t2, c1, c2

\* Dependencies in both directions, the second named twice: as long as the
\* other task is not spawned it is unknown, and both may be circular.
Pair == t1 :> <<t2>> @@ t2 :> <<t1, t1>>
=============================================================================
