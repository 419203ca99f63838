--------------------------- MODULE MCCronService ---------------------------
(***************************************************************************)
(* The cron service on a small instance.  Jobs share nothing but the event *)
(* loop, so one is enough; three executions are one that holds the lock    *)
(* and two in its queue.                                                   *)
(***************************************************************************)
EXTENDS CronService
=============================================================================
