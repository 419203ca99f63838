------------------------- MODULE CronServiceProofs -------------------------
(***************************************************************************)
(* The safety of the cron service for any jobs, number of executions and   *)
(* max_instances.  The three invariants are inductive together with the    *)
(* types: each is restored by the action that disturbs it, the mark by     *)
(* Finish under the lock, the timers by _schedule_job.  Two facts support  *)
(* them: a row that is not stored is neither enabled nor running, so that  *)
(* recovery leaves it alone, and an execution that has begun has its job.  *)
(***************************************************************************)
EXTENDS CronService, TLAPS

MissingIdle ==
  \A j \in Jobs : ~rows[j].stored => ~rows[j].enabled /\ ~rows[j].running

RunsHaveJobs == \A s \in Slot : runs[s].phase # "none" => runs[s].job \in Jobs

Inv ==
  /\ TypeOK
  /\ OneRunPerJob
  /\ MarkHonest
  /\ ScheduleMatchesTable
  /\ MissingIdle
  /\ RunsHaveJobs

-----------------------------------------------------------------------------
LEMMA RunTypes ==
  /\ NoRun \in Run /\ Missing \in Row
  /\ \A j \in Jobs, by \in {"timer", "client"} : NewRun(j, by) \in Run
BY DEF NoRun, Missing, NewRun, Run, Row, Kinds, Triggers

\* What removing executions from the slots does to the ones that stay.
LEMMA WithoutStays ==
  ASSUME TypeOK, NEW gone
  PROVE  /\ Without(gone) \in [Slot -> Run]
         /\ \A s \in gone \cap Slot : Without(gone)[s] = NoRun
         /\ \A s \in Slot \ gone : /\ Without(gone)[s].job = runs[s].job
                                   /\ Without(gone)[s].phase = runs[s].phase
<1>1. \A s \in Slot : runs[s] \in Run
  BY DEF TypeOK
<1>2. \A s \in Slot : LET r == [runs[s] EXCEPT !.ahead = @ \ gone]
                      IN  r \in Run /\ r.job = runs[s].job /\ r.phase = runs[s].phase
  BY <1>1 DEF Run
<1>3. \A s \in Slot : Without(gone)[s] = IF s \in gone THEN NoRun
                                         ELSE [runs[s] EXCEPT !.ahead = @ \ gone]
  BY DEF Without
<1>4. Without(gone) = [s \in Slot |-> Without(gone)[s]]
  BY DEF Without
<1> QED BY <1>2, <1>3, <1>4, RunTypes

\* A new execution is not executing, and those that are stay where they are.
LEMMA CreateKeeps ==
  ASSUME TypeOK, NEW i \in Jobs, NEW by \in {"timer", "client"}, Create(i, by)
  PROVE  /\ runs' \in [Slot -> Run]
         /\ \A j \in Jobs : InPhase(j, "executing")' = InPhase(j, "executing")
         /\ RunsHaveJobs => RunsHaveJobs'
<1>1. PICK s \in Slot : runs[s] = NoRun /\ runs' = [runs EXCEPT ![s] = NewRun(i, by)]
  BY DEF Create
<1>2. NewRun(i, by) \in Run /\ NewRun(i, by).phase # "executing" /\ NoRun.phase # "executing"
  BY RunTypes DEF NoRun, NewRun
<1>3. runs' \in [Slot -> Run]
  BY <1>1, <1>2 DEF TypeOK
<1>4. \A t \in Slot \ {s} : runs'[t] = runs[t]
  BY <1>1, <1>3 DEF TypeOK
<1>5. runs'[s].phase # "executing" /\ runs[s].phase # "executing"
  BY <1>1, <1>2, <1>3 DEF TypeOK
<1>6. \A j \in Jobs : InPhase(j, "executing")' = InPhase(j, "executing")
  BY <1>4, <1>5 DEF InPhase
<1>7. runs'[s].job \in Jobs
  BY <1>1, <1>3 DEF TypeOK, NewRun
<1>8. RunsHaveJobs => RunsHaveJobs'
  BY <1>4, <1>7 DEF RunsHaveJobs
<1> QED BY <1>3, <1>6, <1>8

\* The executing run that enters is the only one.
LEMMA EnterKeeps ==
  ASSUME TypeOK, NEW s \in Slot, NEW delete \in BOOLEAN, NEW i \in Jobs,
         runs[s].job = i, InPhase(i, "executing") = {}, Enter(s, delete)
  PROVE  /\ runs' \in [Slot -> Run]
         /\ InPhase(i, "executing")' = {s}
         /\ \A j \in Jobs \ {i} :
              InPhase(j, "executing")' = InPhase(j, "executing") \ {s}
         /\ RunsHaveJobs => RunsHaveJobs'
<1> DEFINE r == [job |-> runs[s].job, phase |-> "executing", by |-> runs[s].by,
                 delete_after_run |-> delete, ahead |-> {}]
<1>1. r \in Run /\ r.job = runs[s].job /\ r.phase = "executing"
  BY DEF TypeOK, Run
<1>2. runs' = [Without({s}) EXCEPT ![s] = r]
  BY DEF Enter
<1> HIDE DEF r
<1>3. runs' \in [Slot -> Run] /\ runs'[s] = r
  BY <1>1, <1>2, WithoutStays
<1>4. \A t \in Slot \ {s} : runs'[t].job = runs[t].job /\ runs'[t].phase = runs[t].phase
  BY <1>2, WithoutStays
<1>5. RunsHaveJobs => RunsHaveJobs'
  BY <1>1, <1>3, <1>4 DEF RunsHaveJobs
<1>6. /\ InPhase(i, "executing")' = {s}
      /\ \A j \in Jobs \ {i} :
           InPhase(j, "executing")' = InPhase(j, "executing") \ {s}
  BY <1>1, <1>3, <1>4 DEF InPhase
<1> QED BY <1>3, <1>5, <1>6

LEMMA MarkKeeps ==
  ASSUME TypeOK, NEW j \in Jobs, NEW b \in BOOLEAN, Mark(j, b)
  PROVE  /\ rows' \in [Jobs -> Row]
         /\ \A i \in Jobs : /\ rows'[i].stored = rows[i].stored
                            /\ rows'[i].enabled = rows[i].enabled
                            /\ rows'[i].kind = rows[i].kind
                            /\ i # j => rows'[i] = rows[i]
         /\ rows'[j].running => b \/ (~rows[j].stored /\ rows[j].running)
<1>1. rows[j] \in Row
  BY DEF TypeOK
<1> DEFINE row == IF rows[j].stored THEN [rows[j] EXCEPT !.running = b] ELSE rows[j]
<1>2. /\ row \in Row /\ row.stored = rows[j].stored /\ row.enabled = rows[j].enabled
      /\ row.kind = rows[j].kind
      /\ row.running => b \/ (~rows[j].stored /\ rows[j].running)
  BY <1>1 DEF Row
<1>3. rows' = [rows EXCEPT ![j] = row]
  BY DEF Mark
<1> HIDE DEF row
<1> QED BY <1>2, <1>3 DEF TypeOK

-----------------------------------------------------------------------------
LEMMA InitInv == Init => Inv
<1> SUFFICES ASSUME Init PROVE Inv
  OBVIOUS
<1>1. /\ ~Missing.stored /\ ~Missing.enabled /\ ~Missing.running
      /\ NoRun.phase = "none"
  BY DEF Missing, NoRun
<1>2. /\ \A j \in Jobs : rows[j] = Missing /\ entries[j] = "none"
      /\ \A s \in Slot : runs[s] = NoRun
  BY DEF Init
<1>3. TypeOK
  BY RunTypes DEF Init, TypeOK
<1>4. \A j \in Jobs : InPhase(j, "executing") = {}
  BY <1>1, <1>2 DEF InPhase
<1>5. OneRunPerJob /\ MarkHonest /\ MissingIdle /\ RunsHaveJobs
  BY <1>1, <1>2, <1>4 DEF OneRunPerJob, MarkHonest, MissingIdle, RunsHaveJobs
<1>6. ScheduleMatchesTable
  BY <1>1, <1>2 DEF ScheduleMatchesTable
<1> QED BY <1>3, <1>5, <1>6 DEF Inv

\* The part of Inv a step keeps that changes no execution, or only idle ones.
LEMMA ExecutingStill ==
  ASSUME TypeOK, OneRunPerJob,
         \A j \in Jobs : InPhase(j, "executing")' \subseteq InPhase(j, "executing")
  PROVE  OneRunPerJob'
BY DEF OneRunPerJob

LEMMA AddJobKeeps ==
  ASSUME Inv, NEW j \in Jobs, NEW enabled \in BOOLEAN, NEW kind \in Kinds, NEW delete \in BOOLEAN,
         AddJob(j, enabled, kind, delete) \/ UpdateJob(j, enabled, kind, delete)
  PROVE  Inv'
<1> DEFINE row(b) == [stored |-> TRUE, enabled |-> enabled, kind |-> kind,
                      delete_after_run |-> delete, running |-> b]
<1>1. \A b \in BOOLEAN : /\ row(b) \in Row /\ row(b).stored /\ row(b).enabled = enabled
                         /\ row(b).kind = kind /\ row(b).running = b
  BY DEF Row
<1>2. PICK r \in Row : /\ r.stored /\ r.enabled = enabled /\ r.kind = kind
                       /\ rows' = [rows EXCEPT ![j] = r]
                       /\ r.running => rows[j].running
  <2>1. CASE AddJob(j, enabled, kind, delete)
    <3>1. rows' = [rows EXCEPT ![j] = row(FALSE)]
      BY <2>1 DEF AddJob
    <3> HIDE DEF row
    <3> QED BY <1>1, <3>1
  <2>2. CASE UpdateJob(j, enabled, kind, delete)
    <3>1. rows[j].running \in BOOLEAN
      BY DEF Inv, TypeOK, Row
    <3>2. rows' = [rows EXCEPT ![j] = row(rows[j].running)]
      BY <2>2 DEF UpdateJob
    <3> HIDE DEF row
    <3> QED BY <1>1, <3>1, <3>2
  <2> QED BY <2>1, <2>2
<1> HIDE DEF row
<1>3. PICK e \in Triggers \cup {"none"} :
         /\ entries' = [entries EXCEPT ![j] = e]
         /\ e # "none" => service = "running" /\ e = kind
         /\ service = "running" /\ enabled /\ kind = "every" => e = "every"
  <2>1. /\ Trigger(kind) \in Triggers \cup {"none"}
        /\ Trigger(kind) # "none" => service = "running" /\ Trigger(kind) = kind
        /\ service = "running" /\ kind = "every" => Trigger(kind) = "every"
    BY DEF Trigger, Triggers
  <2>2. CASE entries' = [entries EXCEPT ![j] = Trigger(kind)]
    BY <2>1, <2>2
  <2>3. CASE entries' = [entries EXCEPT ![j] = "none"] /\ ~enabled
    BY <2>3
  <2> QED BY <2>2, <2>3 DEF AddJob, UpdateJob, Entry
<1>4. UNCHANGED <<service, runs, orphaned>>
  BY DEF AddJob, UpdateJob
<1>5. /\ rows \in [Jobs -> Row] /\ entries \in [Jobs -> Triggers \cup {"none"}]
      /\ TypeOK /\ OneRunPerJob /\ MarkHonest /\ ScheduleMatchesTable /\ MissingIdle
      /\ RunsHaveJobs
  BY DEF Inv, TypeOK
<1>6. /\ rows' \in [Jobs -> Row] /\ rows'[j] = r
      /\ \A i \in Jobs : i # j => rows'[i] = rows[i]
  <2>1. rows' = [rows EXCEPT ![j] = r]
    BY <1>2
  <2> QED BY <1>5, <2>1
<1>7. /\ entries' \in [Jobs -> Triggers \cup {"none"}] /\ entries'[j] = e
      /\ \A i \in Jobs : i # j => entries'[i] = entries[i]
  BY <1>3, <1>5
<1>8. TypeOK'
  BY <1>4, <1>5, <1>6, <1>7 DEF TypeOK
<1>9. OneRunPerJob' /\ RunsHaveJobs'
  BY <1>4, <1>5 DEF OneRunPerJob, RunsHaveJobs, InPhase
<1>10. MarkHonest'
  <2>1. \A i \in Jobs : InPhase(i, "executing")' = InPhase(i, "executing")
    BY <1>4 DEF InPhase
  <2>2. \A i \in Jobs : rows'[i].running => rows[i].running
    <3>1. r.running => rows[j].running
      BY <1>2
    <3> QED BY <1>6, <3>1
  <2> QED BY <1>4, <1>5, <2>1, <2>2 DEF MarkHonest
<1>11. ScheduleMatchesTable'
  <2> SUFFICES ASSUME NEW i \in Jobs
               PROVE  /\ service = "running" /\ rows'[i].enabled /\ rows'[i].kind = "every"
                           => entries'[i] = "every"
                      /\ entries'[i] # "none" =>
                           service = "running" /\ rows'[i].stored /\ entries'[i] = rows'[i].kind
    BY <1>4 DEF ScheduleMatchesTable
  <2>1. CASE i = j
    <3>1. rows'[i] = r /\ entries'[i] = e
      BY <1>6, <1>7, <2>1
    <3>2. r.stored /\ (r.enabled => enabled) /\ r.kind = kind
      BY <1>2
    <3> QED BY <1>3, <3>1, <3>2
  <2>2. CASE i # j
    BY <1>5, <1>6, <1>7, <2>2 DEF ScheduleMatchesTable
  <2> QED BY <2>1, <2>2
<1>12. MissingIdle'
  <2>1. r.stored
    BY <1>2
  <2> QED BY <1>5, <1>6, <2>1 DEF MissingIdle
<1> QED BY <1>8, <1>9, <1>10, <1>11, <1>12 DEF Inv

LEMMA RemoveJobKeeps ==
  ASSUME Inv, NEW j \in Jobs, RemoveJob(j)
  PROVE  Inv'
<1>1. /\ rows \in [Jobs -> Row] /\ entries \in [Jobs -> Triggers \cup {"none"}]
      /\ TypeOK /\ OneRunPerJob /\ MarkHonest /\ ScheduleMatchesTable /\ MissingIdle
      /\ RunsHaveJobs
  BY DEF Inv, TypeOK
<1>2. /\ rows' = [rows EXCEPT ![j] = Missing] /\ entries' = [entries EXCEPT ![j] = "none"]
      /\ orphaned' = orphaned \ {j} /\ UNCHANGED <<service, runs>>
  BY DEF RemoveJob
<1>3. ~Missing.stored /\ ~Missing.enabled /\ ~Missing.running
  BY DEF Missing
<1>4. TypeOK'
  BY <1>1, <1>2, RunTypes DEF TypeOK
<1>5. OneRunPerJob' /\ RunsHaveJobs'
  BY <1>1, <1>2 DEF OneRunPerJob, RunsHaveJobs, InPhase
<1>6. MarkHonest'
  <2>1. \A i \in Jobs : InPhase(i, "executing")' = InPhase(i, "executing")
    BY <1>2 DEF InPhase
  <2> QED BY <1>1, <1>2, <1>3, <2>1 DEF MarkHonest
<1>7. ScheduleMatchesTable' /\ MissingIdle'
  BY <1>1, <1>2, <1>3 DEF ScheduleMatchesTable, MissingIdle
<1> QED BY <1>4, <1>5, <1>6, <1>7 DEF Inv

\* The trigger of an entry that fires stays, or goes if it was a date.
LEMMA FiredKeeps ==
  ASSUME TypeOK, ScheduleMatchesTable, NEW j \in Jobs, Fired(j), UNCHANGED <<service, rows>>
  PROVE  ScheduleMatchesTable' /\ entries' \in [Jobs -> Triggers \cup {"none"}]
<1> DEFINE e == IF entries[j] = "at" THEN "none" ELSE entries[j]
<1>1. entries' = [entries EXCEPT ![j] = e]
  BY DEF Fired
<1>2. entries[j] \in Triggers \cup {"none"}
  BY DEF TypeOK
<1>3. e \in Triggers \cup {"none"} /\ (e = "none" \/ e = entries[j])
      /\ (entries[j] = "every" => e = "every")
  BY <1>2
<1> HIDE DEF e
<1> QED BY <1>1, <1>3 DEF TypeOK, ScheduleMatchesTable

LEMMA TriggerKeeps ==
  ASSUME Inv, NEW j \in Jobs,
         (\E force \in BOOLEAN : RunJob(j, force)) \/ Fire(j) \/ FireSkipped(j)
  PROVE  Inv'
<1> USE DEF Inv
<1>1. CASE \E force \in BOOLEAN : RunJob(j, force)
  <2>1. Create(j, "client") /\ UNCHANGED <<service, rows, entries, orphaned>>
    BY <1>1 DEF RunJob
  <2>2. runs' \in [Slot -> Run]
        /\ \A i \in Jobs : InPhase(i, "executing")' = InPhase(i, "executing")
        /\ RunsHaveJobs'
    BY <2>1, CreateKeeps
  <2> QED BY <2>1, <2>2 DEF TypeOK, OneRunPerJob, MarkHonest, ScheduleMatchesTable, MissingIdle
<1>2. CASE Fire(j)
  <2>1. runs' \in [Slot -> Run]
        /\ \A i \in Jobs : InPhase(i, "executing")' = InPhase(i, "executing")
        /\ RunsHaveJobs'
    BY <1>2, CreateKeeps DEF Fire
  <2>2. ScheduleMatchesTable' /\ entries' \in [Jobs -> Triggers \cup {"none"}]
    BY <1>2, FiredKeeps DEF Fire
  <2> QED BY <1>2, <2>1, <2>2 DEF Fire, TypeOK, OneRunPerJob, MarkHonest, MissingIdle
<1>3. CASE FireSkipped(j)
  <2>1. ScheduleMatchesTable' /\ entries' \in [Jobs -> Triggers \cup {"none"}]
    BY <1>3, FiredKeeps DEF FireSkipped
  <2> QED BY <1>3, <2>1 DEF FireSkipped, TypeOK, OneRunPerJob, MarkHonest, MissingIdle, InPhase,
       RunsHaveJobs
<1> QED BY <1>1, <1>2, <1>3

LEMMA ServiceKeeps ==
  ASSUME Inv, Start \/ Stop \/ Crash
  PROVE  Inv'
<1> USE DEF Inv
<1>1. CASE Start
  <2>1. /\ service' = "running" /\ UNCHANGED <<rows, runs, orphaned>>
        /\ entries' = [j \in Jobs |->
             IF rows[j].stored /\ rows[j].enabled /\ rows[j].kind \in Triggers
               THEN rows[j].kind ELSE "none"]
    BY <1>1 DEF Start
  <2>2. TypeOK'
    BY <2>1 DEF TypeOK
  <2>3. OneRunPerJob' /\ MarkHonest' /\ MissingIdle' /\ RunsHaveJobs'
    BY <2>1 DEF OneRunPerJob, MarkHonest, MissingIdle, RunsHaveJobs, InPhase
  <2>4. ScheduleMatchesTable'
    BY <2>1 DEF ScheduleMatchesTable, MissingIdle, Triggers
  <2> QED BY <2>2, <2>3, <2>4
<1>2. CASE Stop
  <2> DEFINE cancelled == {s \in Slot : runs[s].by = "timer"}
  <2>1. runs' = Without(cancelled)
    BY <1>2 DEF Stop
  <2>2. runs' \in [Slot -> Run]
    BY <2>1, WithoutStays
  <2>3. \A j \in Jobs : InPhase(j, "executing")' = InPhase(j, "executing") \ cancelled
    <3>1. NoRun.phase # "executing"
      BY DEF NoRun
    <3>2. \A s \in Slot : s \in cancelled => runs'[s] = NoRun
      BY <2>1, WithoutStays
    <3>3. \A s \in Slot : s \notin cancelled =>
            runs'[s].job = runs[s].job /\ runs'[s].phase = runs[s].phase
      BY <2>1, WithoutStays
    <3> QED BY <3>1, <3>2, <3>3 DEF InPhase
  <2>4. orphaned' = orphaned \cup
          {j \in Jobs : rows[j].running /\ InPhase(j, "executing") \cap cancelled # {}}
    BY <1>2 DEF Stop
  <2> HIDE DEF cancelled
  <2>5. MarkHonest' /\ OneRunPerJob'
    BY <1>2, <2>3, <2>4 DEF Stop, MarkHonest, OneRunPerJob
  <2>6. ScheduleMatchesTable' /\ TypeOK' /\ MissingIdle'
    BY <1>2, <2>2, <2>4 DEF Stop, TypeOK, ScheduleMatchesTable, MissingIdle
  <2>7. RunsHaveJobs'
    <3>1. NoRun.phase = "none"
      BY DEF NoRun
    <3> QED BY <2>1, <3>1, WithoutStays DEF RunsHaveJobs
  <2> QED BY <2>5, <2>6, <2>7
<1>3. CASE Crash
  <2>1. /\ service' = "init" /\ entries' = [j \in Jobs |-> "none"]
        /\ runs' = [s \in Slot |-> NoRun] /\ orphaned' = {j \in Jobs : rows[j].running}
        /\ UNCHANGED rows
    BY <1>3 DEF Crash
  <2>2. TypeOK'
    BY <2>1, RunTypes DEF TypeOK
  <2>3. \A s \in Slot : runs'[s].phase = "none"
    BY <2>1 DEF NoRun
  <2>4. OneRunPerJob' /\ RunsHaveJobs'
    BY <2>3 DEF OneRunPerJob, RunsHaveJobs, InPhase
  <2>5. MarkHonest' /\ ScheduleMatchesTable' /\ MissingIdle'
    BY <2>1 DEF MarkHonest, ScheduleMatchesTable, MissingIdle
  <2> QED BY <2>2, <2>4, <2>5
<1> QED BY <1>1, <1>2, <1>3

\* get_job, and the wait for the lock, touch neither the table nor the scheduler.
LEMMA WaitKeeps ==
  ASSUME Inv, NEW s \in Slot, BeginMissing(s) \/ BeginWaiting(s)
  PROVE  Inv'
<1> USE DEF Inv
<1>1. UNCHANGED <<service, rows, entries, orphaned>>
  BY DEF BeginMissing, BeginWaiting
<1>2. runs[s] \in Run /\ runs[s].phase = "created" /\ runs[s].job \in Jobs
  BY DEF BeginMissing, BeginWaiting, TypeOK, RunsHaveJobs
<1>3. PICK r \in Run : /\ runs' = [runs EXCEPT ![s] = r]
                       /\ r.phase # "executing"
                       /\ r.phase # "none" => r.job \in Jobs
  <2>1. CASE BeginMissing(s)
    BY <2>1, RunTypes DEF BeginMissing, NoRun
  <2>2. CASE BeginWaiting(s)
    <3> DEFINE r == [job |-> runs[s].job, phase |-> "waiting", by |-> runs[s].by,
                     delete_after_run |-> rows[runs[s].job].delete_after_run,
                     ahead |-> InPhase(runs[s].job, "waiting")]
    <3>1. rows[runs[s].job] \in Row
      BY <1>2 DEF TypeOK
    <3>2. r \in Run
      BY <1>2, <3>1 DEF Run, Row, InPhase
    <3>3. r.phase # "executing" /\ r.job \in Jobs
      BY <1>2
    <3>4. runs' = [runs EXCEPT ![s] = r]
      BY <2>2 DEF BeginWaiting
    <3> HIDE DEF r
    <3> QED BY <3>2, <3>3, <3>4
  <2> QED BY <2>1, <2>2
<1>4. runs' \in [Slot -> Run] /\ runs'[s] = r /\ \A t \in Slot \ {s} : runs'[t] = runs[t]
  <2>1. runs' = [runs EXCEPT ![s] = r]
    BY <1>3
  <2> QED BY <2>1 DEF TypeOK
<1>5. \A j \in Jobs : InPhase(j, "executing")' = InPhase(j, "executing")
  BY <1>2, <1>3, <1>4 DEF InPhase
<1>6. RunsHaveJobs'
  BY <1>3, <1>4 DEF RunsHaveJobs
<1> QED BY <1>1, <1>4, <1>5, <1>6 DEF TypeOK, OneRunPerJob, MarkHonest, ScheduleMatchesTable,
                                      MissingIdle

\* Both ways into the lock find it free of an executing run.
LEMMA LockKeeps ==
  ASSUME Inv, NEW s \in Slot, Begin(s) \/ Acquire(s)
  PROVE  Inv'
<1> USE DEF Inv
<1>1. PICK j \in Jobs : j = runs[s].job
  BY DEF Begin, Acquire, RunsHaveJobs
<1>2. InPhase(j, "executing") = {}
  BY <1>1 DEF Begin, Acquire, LockFree
<1>3. PICK delete \in BOOLEAN : Enter(s, delete)
  <2>1. runs[s].delete_after_run \in BOOLEAN /\ rows[j].delete_after_run \in BOOLEAN
    BY <1>1 DEF TypeOK, Run, Row
  <2> QED BY <1>1, <2>1 DEF Begin, Acquire
<1>4. UNCHANGED <<service, entries, orphaned>> /\ Mark(j, TRUE)
  BY <1>1, <1>3 DEF Enter
<1>5. /\ runs' \in [Slot -> Run] /\ InPhase(j, "executing")' = {s} /\ RunsHaveJobs'
      /\ \A i \in Jobs \ {j} : InPhase(i, "executing")' = InPhase(i, "executing") \ {s}
  BY <1>1, <1>2, <1>3, EnterKeeps
<1>6. \A i \in Jobs \ {j} : s \notin InPhase(i, "executing")
  BY <1>1 DEF InPhase
<1>7. /\ rows' \in [Jobs -> Row]
      /\ \A i \in Jobs : /\ rows'[i].stored = rows[i].stored
                         /\ rows'[i].enabled = rows[i].enabled
                         /\ rows'[i].kind = rows[i].kind
                         /\ i # j => rows'[i] = rows[i]
  BY <1>1, <1>4, MarkKeeps
<1>8. ~rows[j].stored => rows'[j] = rows[j]
  BY <1>1, <1>4 DEF Mark, TypeOK
<1>9. TypeOK'
  BY <1>4, <1>5, <1>7 DEF TypeOK
<1>10. OneRunPerJob' /\ MarkHonest'
  <2>1. \A i \in Jobs : i # j => InPhase(i, "executing")' = InPhase(i, "executing")
    BY <1>5, <1>6
  <2>2. OneRunPerJob'
    BY <1>1, <1>5, <2>1 DEF OneRunPerJob
  <2>3. MarkHonest'
    BY <1>1, <1>4, <1>5, <1>7, <2>1 DEF MarkHonest
  <2> QED BY <2>2, <2>3
<1>11. ScheduleMatchesTable'
  BY <1>4, <1>7 DEF ScheduleMatchesTable
<1>12. MissingIdle'
  BY <1>7, <1>8 DEF MissingIdle
<1> QED BY <1>5, <1>9, <1>10, <1>11, <1>12

LEMMA FinishKeeps ==
  ASSUME Inv, NEW s \in Slot, NEW success \in BOOLEAN, Finish(s, success)
  PROVE  Inv'
<1> USE DEF Inv
<1>1. PICK j \in Jobs : j = runs[s].job
  BY DEF Finish, RunsHaveJobs
<1>2. /\ runs[s].phase = "executing" /\ runs' = [runs EXCEPT ![s] = NoRun]
      /\ orphaned' = orphaned \ {j} /\ UNCHANGED service
  BY <1>1 DEF Finish
<1>3. /\ runs' \in [Slot -> Run] /\ runs'[s] = NoRun
      /\ \A t \in Slot \ {s} : runs'[t] = runs[t]
  BY <1>2, RunTypes DEF TypeOK
<1>4. NoRun.phase = "none"
  BY DEF NoRun
<1>5. \A i \in Jobs : InPhase(i, "executing")' = InPhase(i, "executing") \ {s}
  BY <1>3, <1>4 DEF InPhase
<1>6. InPhase(j, "executing") = {s} /\ \A i \in Jobs \ {j} : s \notin InPhase(i, "executing")
  BY <1>1, <1>2 DEF OneRunPerJob, InPhase
<1>7. OneRunPerJob' /\ RunsHaveJobs'
  BY <1>3, <1>4, <1>5 DEF OneRunPerJob, RunsHaveJobs
<1>8. /\ rows' \in [Jobs -> Row] /\ entries' \in [Jobs -> Triggers \cup {"none"}]
      /\ ~rows'[j].running /\ \A i \in Jobs : i # j => rows'[i] = rows[i]
      /\ ScheduleMatchesTable' /\ MissingIdle'
  <2>1. CASE success /\ runs[s].delete_after_run
    <3>1. /\ rows' = [rows EXCEPT ![j] = Missing] /\ entries' = [entries EXCEPT ![j] = "none"]
      BY <1>1, <2>1 DEF Finish
    <3>2. ~Missing.stored /\ ~Missing.enabled /\ ~Missing.running
      BY DEF Missing
    <3>3. /\ rows' \in [Jobs -> Row] /\ rows'[j] = Missing
          /\ \A i \in Jobs : i # j => rows'[i] = rows[i]
      BY <3>1, RunTypes DEF TypeOK
    <3>4. /\ entries' \in [Jobs -> Triggers \cup {"none"}] /\ entries'[j] = "none"
          /\ \A i \in Jobs : i # j => entries'[i] = entries[i]
      BY <3>1 DEF TypeOK
    <3> QED BY <1>2, <3>2, <3>3, <3>4 DEF ScheduleMatchesTable, MissingIdle
  <2>2. CASE ~(success /\ runs[s].delete_after_run)
    <3>1. Mark(j, FALSE) /\ UNCHANGED entries
      BY <1>1, <2>2 DEF Finish
    <3>2. /\ rows' \in [Jobs -> Row]
          /\ \A i \in Jobs : /\ rows'[i].stored = rows[i].stored
                             /\ rows'[i].enabled = rows[i].enabled
                             /\ rows'[i].kind = rows[i].kind
                             /\ i # j => rows'[i] = rows[i]
          /\ rows'[j].running => ~rows[j].stored /\ rows[j].running
      BY <3>1, MarkKeeps
    <3>3. ~rows'[j].running
      BY <3>2 DEF MissingIdle
    <3>4. ScheduleMatchesTable'
      BY <1>2, <3>1, <3>2 DEF ScheduleMatchesTable
    <3>5. MissingIdle'
      BY <3>2, <3>3 DEF MissingIdle
    <3> QED BY <3>1, <3>2, <3>3, <3>4, <3>5 DEF TypeOK
  <2> QED BY <2>1, <2>2
<1>9. MarkHonest'
  <2> SUFFICES ASSUME NEW i \in Jobs, rows'[i].running
               PROVE  i \in orphaned' \/ InPhase(i, "executing")' # {}
    BY DEF MarkHonest
  <2>1. i # j /\ rows[i].running
    BY <1>8
  <2>2. i \in orphaned \/ InPhase(i, "executing") # {}
    BY <2>1 DEF MarkHonest
  <2> QED BY <1>2, <1>5, <1>6, <2>1, <2>2
<1>10. TypeOK'
  BY <1>2, <1>3, <1>8 DEF TypeOK
<1> QED BY <1>7, <1>8, <1>9, <1>10

-----------------------------------------------------------------------------
LEMMA StutterKeeps == Inv /\ UNCHANGED vars => Inv'
BY DEF Inv, vars, TypeOK, OneRunPerJob, MarkHonest, ScheduleMatchesTable, MissingIdle,
       RunsHaveJobs, InPhase

LEMMA StepInv == Inv /\ [Next]_vars => Inv'
<1> SUFFICES ASSUME Inv, [Next]_vars PROVE Inv'
  OBVIOUS
<1>1. CASE \E j \in Jobs : Client(j) \/ Fire(j) \/ FireSkipped(j)
  BY <1>1, AddJobKeeps, RemoveJobKeeps, TriggerKeeps DEF Client
<1>2. CASE \E s \in Slot : Execution(s)
  BY <1>2, WaitKeeps, LockKeeps, FinishKeeps DEF Execution
<1>3. CASE Start \/ Stop \/ Crash
  BY <1>3, ServiceKeeps
<1>4. CASE UNCHANGED vars
  BY <1>4, StutterKeeps
<1> QED BY <1>1, <1>2, <1>3, <1>4 DEF Next

LEMMA Invariance == Spec => []Inv
BY InitInv, StepInv, PTL DEF Spec

\* Every variable keeps its type, for any jobs and any number of executions.
THEOREM CronTypes == Spec => []TypeOK
<1>1. Inv => TypeOK
  BY DEF Inv
<1> QED BY <1>1, Invariance, PTL

\* No job is ever executed twice at one time.
THEOREM JobRunsOnce == Spec => []OneRunPerJob
<1>1. Inv => OneRunPerJob
  BY DEF Inv
<1> QED BY <1>1, Invariance, PTL

\* The running mark is never left behind but by a stop or crash.
THEOREM MarkIsHonest == Spec => []MarkHonest
<1>1. Inv => MarkHonest
  BY DEF Inv
<1> QED BY <1>1, Invariance, PTL

\* In a running service the timers are those of the table.
THEOREM TimersMatchTable == Spec => []ScheduleMatchesTable
<1>1. Inv => ScheduleMatchesTable
  BY DEF Inv
<1> QED BY <1>1, Invariance, PTL
=============================================================================
