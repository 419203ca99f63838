--------------------------- MODULE MCStreamPush ---------------------------
(***************************************************************************)
(* Instances of StreamPush: who pushes for which message.                  *)
(***************************************************************************)
EXTENDS StreamPush

CONSTANTS a, b

\* Two agents of one turn, two tools that report on one message, one agent.
UidTwo   == [x \in {a, b} |-> x]
UidOne   == [x \in {a, b} |-> a]
UidAlone == [x \in {a} |-> a]

\* One talks more than the other; one talks alone.
TwoAndOne == [x \in {a, b} |-> IF x = a THEN 2 ELSE 1]
Two       == [x \in {a} |-> 2]
=============================================================================
