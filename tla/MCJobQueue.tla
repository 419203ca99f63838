----------------------------- MODULE MCJobQueue -----------------------------
(* Instances of JobQueue for TLC. *)
EXTENDS JobQueue, TLC

CONSTANTS j1, j2, w1, w2

Req(priority, max_attempts, run_after, required_worker) ==
  [priority |-> priority, max_attempts |-> max_attempts, run_after |-> run_after,
   job_type |-> "t", required_worker |-> required_worker]

\* One ordinary job.
OneJob == [j \in Jobs |-> Req(5, 2, 0, {})]

\* One that a nack may requeue twice, as max_attempts_default has it.
ThreeAttempts == [j \in Jobs |-> Req(5, 3, 0, {})]

\* The second job is urgent but scheduled for later.
TwoJobs == [j \in Jobs |-> IF j = j1 THEN Req(5, 2, 0, {}) ELSE Req(1, 1, 1, {})]

DefaultTags == [w \in Workers |-> {"default"}]
AllTypes == [w \in Workers |-> {"t"}]

Bounds(crash, stop, admin, fault) ==
  [kind \in {"crash", "stop", "admin", "fault"} |->
     CASE kind = "crash" -> crash [] kind = "stop" -> stop
       [] kind = "admin" -> admin [] kind = "fault" -> fault]

Calm == Bounds(0, 0, 0, 0)
OneCrash == Bounds(1, 0, 0, 0)
OneEach == Bounds(1, 1, 1, 1)

\* One of them, a crash or an admin call also with a fault.
Few == {{"crash"}, {"stop"}, {"admin"}, {"fault"}, {"crash", "fault"}, {"admin", "fault"}}

WorkersAlike == Permutations(Workers)
=============================================================================
