# OpenDerisk: specifications, checks and proofs

OpenDerisk is a multi-agent platform: agents plan and call tools, start
sub-agents in the background, ask people for permission, and hand long work
to a persistent job queue; people follow them in a web client that streams and
polls. The services are Python (`src/packages`), the client is TypeScript
(`src/web`). This directory holds TLA+ models of the parts whose correctness
depends on the order in which processes, coroutines, callbacks and time-outs
happen to run, the TLC instances that check them and TLAPS proofs about them.

    tlc -config JobChaos.cfg MCJobQueue.tla      # any cfg with the MC module of its run
    tlapm JobQueueProofs.tla                     # any of the *Proofs modules

## 1. Inventory

Abbreviations: *serve* = `src/packages/derisk-serve/src/derisk_serve`,
*core* = `src/packages/derisk-core/src/derisk`, *web* = `src/web/src`.

| Part | State | Operations | What is hard | Correct when | Here |
|---|---|---|---|---|---|
| **Job engine** `serve/job` | table `derisk_serve_job`; per worker `_in_flight`, a semaphore, renewers | submit; claim (two dialects), reclaim, ack, nack, renew; retry, cancel, delete; worker loop, start, stop | processes race on rows; leases lapse; calls arrive late, fail half-way; crash and restart | one owner per claim, no claim stolen, every job ends, limits hold | §2 |
| **Async task manager** `core/agent/util/async_task_manager.py` | tasks, futures, background coroutines, semaphore, completion event | spawn, dependency wait, run, callbacks, cancel, collect, wait_any, wait_all | coroutines interleave at awaits; cancellation is a request; time-outs; cyclic dependencies | terminal is final, permits balanced, results reach the agent, all tasks end | §3 |
| **Scene chat** `web/app/workspaces/detail`, **polling hook** `web/hooks/use-chat-polling.ts` | React state and refs, timers, status requests in flight, streams | render, effects, poll, send, stream frames and ends, switch, unmount | continuations outlive the render that started them; answers out of order | no answer in a foreign view, spinner and flags end, the end is shown | §4 |
| **Cron** `serve/cron` | job rows, APScheduler's entries, in-process lock | add, update, remove, run, execute, start, stop, recover | job read before the lock, used after it; two copies of the schedule; crash | no overlap, mark and schedule tell the truth, runs end | §5 |
| **Agent v2 runtime** `core/agent/core/v2` | step events, step state, checkpoints, session cache | run loop, step, permission gate, resume | crash between two commits; suspended steps; redo | the log replays, done is final, no tool runs without its grant | §6, leases left out |
| Event stream hook `web/hooks/use-chat.ts` | buffers of a stream | open, frame, close, abort | frame scheduling | frames in order | as the scene chat sees it |
| **Push pipeline** `core/agent/core/memory/gpts/gpts_memory.py`, `serve/agent/agents/chat` | pending increments and their timer, channel, stop flag; the turn's coroutines; the reader | push, flush, deliver, complete, stop, read, leave, clear | a flush overlaps pushes; a full channel; cancellation in a finally block | increments once and in order, [DONE] last, turn and stream end | §7 |
| Subagent coordinator `serve/agent/subagent_coordinator.py` | `pending_subagents` of a conversation | register, done, failed, resume | resume twice or never | one resume, after all sub-agents | no |
| Heartbeat, lease, recovery `serve/agent/{heartbeat,recovery_daemon}.py` | lease columns of `gpts_conversations` | acquire, renew, scan, recover | two processes, stale heartbeats | one process drives a conversation | no |
| Intervention `serve/intervention` | rows with a status, a bound tool call | resolve, abort, execute_resolved | no status test; the tool runs before the commit | an approved tool runs once | no |
| Agent v2 sub-agent runtime `core/agent/core/v2/subagent_runtime.py` | handles, tasks, transcripts | spawn, wait, cancel | wait cancels what it waits for | results are handed over | no |
| Interaction gateway `core/agent/interaction` | pending futures, stored requests, offline list | send, wait, deliver, cancel | answer against time-out | a request gets one outcome | no |
| Task service `serve/task` | task rows, relations | transition, close, spawn | concurrent transitions | only legal transitions | no |
| Tool authorization `core/core/authorization` | rules, TTL cache | evaluate | stale cache | a decision agrees with the rules | no |

How they interact: the agent loop calls the async task manager through its
tools (`spawn_agent_task`, `check_tasks`, `wait_tasks`, `cancel_task`) and
collects ended tasks before each thinking step. Sub-agents report to the
coordinator, which resumes the main conversation through the agent chat.
Knowledge ingest submits jobs to the job engine and registers their handler
there. Approved interventions run their tool and report to the coordinator.
Triggers and playbooks create cron jobs and tasks. The scene chat opens streams
to the agent chat and polls the conversation API. All services of a process
share one database, and several processes may share it.

§9 says what is not modelled and why.

## 2. The job engine: `JobQueue`

`JobQueue.tla` models `serve/job/models/models.py` (JobDao) and
`serve/job/service/service.py` (Service) with any number of worker processes.

| TLA+ | Code |
|---|---|
| `rows` | the table; `"new"` is an id not inserted, `"deleted"` a row that is gone |
| `lease`, `wait` | ticks from now to `lease_until` / `not_before`; -1 is a lapsed lease, -2 NULL |
| `skipLocked` | the dialect test of JobDao: FALSE is SQLite; chosen once in Init |
| `pc`, `cands` | where `_worker_loop` stands; the rows its claim has selected |
| `execs` | a claimed row in the hands of a worker: fetched, in its handler, acking, nacking |
| `inFlight`, `slot` | `_in_flight` and the semaphore of the present loop, which the code keeps apart |
| `task` | the `_run_one` of an execution lives: a stop has not cancelled it |
| `zombies` | renewers that outlive the execution that `stop()` cancelled |
| `Submit` `Retry` `Cancel` `Delete` | JobDao.submit and the admin endpoints |
| `Start` `Sweep` `AtCapacity` `ClaimSelect` `ClaimUpdate` `ClaimMiss` `ClaimNone` `Launch` | `_worker_loop`, reclaim_stalled and claim_next |
| `HandlerReturns` `HandlerRaises` `Ack` `Nack` | `_run_one` |
| `RenewLease` | `_renew_loop` |
| `...Fault` | a DAO call that raises, before its commit or after it |
| `Stop` | `stop()`: it cancels the tasks `_in_flight` names (`Named`) and no other (`Unnamed`) |
| `Crash`, `Tick` | the death of a process, the passing of time |

A DAO call is one transaction and one action. The claim is the exception. On
SQLite its SELECT and its UPDATE are separate steps and other transactions
commit between them; on the other dialects the SELECT takes row locks which
keep `Retry`, `Cancel`, `Delete`, `Nack` and other claims away until the
commit. The attempts_history entry `running` is stored only by the second
path (the first expunges the row before it is flushed).

Not in the model: `update_result` (it merges progress into result_json of a
running row), the contents of payloads, results and error texts, listing, and
the case of a claimed job without handler, which cannot occur because the
claim asks for the registered types. `claim_next` takes its `now` before it
gets a thread; the model reads the clock in the transaction, which makes a lease
longer by that delay, never shorter than one Prompt = FALSE allows.

### Bounds

`Budget` limits crashes, stops, admin calls and database faults to one each, and
`Together` says which of them one behaviour may have: any one, and a database fault also
with a crash or an admin call. `MaxClaims` limits the claims of a job to three (five
in `job_exclusive`), and one more for every stop: two to displace an execution from
`_in_flight`, and after the stop two to fill the new semaphore beside it. Leases last one tick, enough to be live, to be at
its last instant and lapsed. `HistoryCap` is 20 in the code and 0 here (the
history is left out: what it holds is proved, `HistoryFitsAttempts`). Two workers and one or two jobs produce every race listed
under the hazards: a third worker adds no new pair of transactions. Worker ids
are symmetric in `job_chaos`, which checks no liveness.

`Prompt` says whether an execution's renewals and its final ack or nack come
before its lease is over. The code hopes so (a renewal every 0.4 leases) and
nothing enforces it, so `JobChaos` and `JobLateNack` use FALSE; `JobExclusive` uses
TRUE because handlers exclude each other only then.

### Runs

| Run | Instance | Question |
|---|---|---|
| `job_chaos` | 1 job, 2 workers of concurrency 2, a crash, a stop, an admin call or a database fault (the fault also with a crash or an admin call), late renewals, both dialects; 1,097,678 states | Do the claim columns and the claims held by workers stay consistent, does no claim replace another, and how many handlers does a worker run where `_in_flight` undercounts, and after a stop? `ClaimColumns` `AttemptHasOneOwner` `ConcurrencyBound` `NoClaimStolen` |
| `job_exclusive` | 2 jobs, 2 workers, one crash, prompt executions, both dialects, fairness; 189,324 states | Does a job have one running handler, the right recorded executor, explained attempts (at most max_attempts, and one for every crash or stop)? Does the table implement the lock of `JobClaims`? Does every job end (SQLite), is every abandoned row given up (both)? `HandlersExclusive` `ExecutorRecorded` `AttemptsBounded` `ImplementsClaims` `Settles` `StalledReclaimed` |
| `job_late_nack` | 1 job of max_attempts 3, 2 workers of concurrency 1, late renewals, no crash, stop, admin call or fault | *Violation*: the lease of w1 lapses and w2 claims attempt 2; w1 acks, and the nack of w2 finds attempts left and takes the done job back to pending, with executed_by NULL. `DoneUntilRetried` |

`AttemptsBounded` and `Settles` are stated for SQLite: under SKIP LOCKED every
claim is lost in the worker (see below), so a job is claimed again at each
lapse of its lease and never ends.

### The promise: `JobClaims`

`JobClaims.tla` is what the table promises without leases, statuses, locks or
dialects: a lock on every job that counts its turns. `Take` starts a turn of a
job nobody holds; `Release` ends turns, drops claims and deletes jobs in any
combination, because a lapsed lease ends a turn and leaves the claim in
somebody's hands, and a crash does the reverse. `Fenced` is what users get from
it: no turn has two claims. `JobQueue` maps the holder to `claimed_by`, the turn to
`attempts`, the claims to `execs`, the deleted rows to `gone`
(`Table == INSTANCE JobClaims WITH ...`), and implements it under every fault of
the model: a claim, also one whose answer is lost in a fault, is a `Take`, every
other step a `Release` or a stutter.

### Fairness

The worker loop polls for ever (`while True` with a sleep), a dead process is
started again by its supervisor, renewers tick and time passes: each is weakly
fair. Handlers and DAO calls are assumed to come to an end. Clients, admins,
crashes, stops and faults are not fair, so nothing is proved by hoping for
them.

### What the code does that its documents do not say

One has a run: the late nack (`models.py:374`). The others were met while modelling
and are the reason for the way properties are qualified:

- on PostgreSQL and MySQL the claimed row is expired by the commit and detached by
  the expunge (`models.py:248`), so the loop's first read of it raises and the claim
  is lost in the worker: no handler starts there (`Launch` with `skipLocked`);
- a late ack records the worker of the *current* claim as executor of the
  result of the earlier one (`models.py:355`);
- retry resets a running row too, so two handlers can run (`models.py:428`,
  documented for failed and done jobs at `api/endpoints.py:101`);
- a job that kills its process is not limited by max_attempts (`models.py:332`);
- the candidate LIMIT comes before the worker tags are matched, so untakeable
  jobs of high priority can hide the rest (`models.py:269`);
- `stop()` leaves renewers alive (`service.py:282`) and one failed renewal
  ends a renewer (`service.py:298`);
- `stop()` cancels only what `_in_flight` names (`service.py:228`): an execution whose
  entry the worker's own reclaim has overwritten (`:263`) runs on, and the next start
  makes a semaphore (`:234`) that does not count it. `config.py:56` documents concurrency
  as "Max concurrent job executions per instance"; `job_chaos` reaches three handlers
  for a concurrency of two, so `ConcurrencyBound` says what the code keeps: concurrency, and
  at most concurrency - 1 more for every stop.

## 3. The async task manager: `AsyncTasks`

One event loop runs everything, so an action is the code between two awaits:
of a task's background coroutine (`Start`, `DepDone`, `DepTimeout`, `Acquire`,
`DelegateEnds`, `RunTimeout`, `Resume`, `CallbackEnds`, `DeliverCancel`) or of a
call of the agent (`Spawn`, `Cancel`, `Collect`, `WaitAny`, `WaitAll` and their
returns). Ready coroutines run in any order, which includes asyncio's queue
order. A tool batch is gathered, so `Callers` has two members.

| TLA+ | Code |
|---|---|
| `spawned`, `status` | `_tasks` in insertion order, `state.status` |
| `phase`, `at` | the await at which the background coroutine stands; the dependency it waits for |
| `requested` | `bg_task.cancel()` was called, CancelledError not yet delivered |
| `resolved`, `permits` | the done futures; the semaphore |
| `calls` | the wait under way; `woken`: the completion event has released it |
| `consumed` | `state.consumed`; `received` and `unfinished` record what the agent was given |
| `keepsResult` | whether `asyncio.wait_for` prefers a finished result to a cancellation, as in Python 3.10 and 3.11 (the project requires 3.10 or later); chosen once in Init |

`Proceed` is the loop over `depend_on` up to its next await. Unknown
dependencies are passed over, as the code warns. A callback is an await of its
own, with the status already visible; the production agent passes none
(`Callbacks = {}`), `Async` gives the success callback.
Counters and formatting are left out. A delegate that takes long to die after
its time-out is modelled as dying at once.

| Run | Instance | Question |
|---|---|---|
| `async` | 2 tasks that depend on each other, 1 permit, 2 overlapping calls, any cancellation, both versions of wait_for, fairness; 133,094 states | Is every end handed over, does no waiter sleep through one, are permits balanced, dependencies honoured, does the manager implement `TaskExecutor`, and do all tasks end? `EndIsReceived` `NoMissedWakeup` `PermitsBalanced` `DepsHonoured` `ImplementsExecutor` `EveryTaskEnds` |

No counter is bounded: the state space is finite. `Pair` makes each task depend on the
other, one of them twice. Tasks are spawned in any order and at any time, so a
dependency is unknown while its task is not spawned, and then may be met, fail, time
out, be cancelled, or wait for its dependent in turn. One permit makes tasks queue;
`permits` returns on every path or the count is off. Fairness: the
event loop resumes what can run and `wait_for` bounds dependency waits and
delegations; a callback is assumed to return. Tool calls are not fair.

### The promise: `TaskExecutor`

`TaskExecutor.tla` is what the manager promises those who spawn tasks, without
coroutines, awaits, cancellation requests or a semaphore. It accepts a task once
(`Accept`), works on at most MaxConcurrent at a time, on each once and with its
dependencies completed (`Begin`), lets its end be known, be announced and its work
be left in any combination, never the last without the others (`Conclude`), and
tells the agent of ends only (`Tell`). `AsyncTasks` maps `order` to `spawned`, `end` to the
terminal statuses, `working` to the coroutines inside the semaphore, `announced`
to the done futures and `told` to what the agent received
(`Executor == INSTANCE TaskExecutor WITH ...`).

### What the code does not keep

Two promises are qualified by what the code does. The end of a task is final from
Python 3.12 on (`StatusFinal`); before, a result that is ready when `cancel()` is called
overwrites CANCELLED after `cancel()` has returned True, and a failed dependency
can turn CANCELLED into FAILED: `late` in `TaskExecutor`, which lets nothing but
CANCELLED be overruled. `EndIsReceived` excepts what a timed-out wait_all
took: it marks the tasks it gave up on consumed (`async_task_manager.py:480`)
although the flag says that a result was collected (`:75`), and their later
result never reaches the agent.

## 4. The scene chat and its polling: `ChatPolling`, `SceneChat`

`ChatPolling` models the hook `hooks/use-chat-polling.ts`; `SceneChat` extends it
with `use-scene-agent-chat.ts`, `agent-workspace.tsx` and `parse-workspace-view.ts`,
with the life of a stream as `use-chat.ts` gives it, and with the server as
environment. The hook is used by more than this component (ChatSession gives it an
inline callback, so its effect runs at every render); the composition is with the
scene chat.

| TLA+ | Code |
|---|---|
| `rendered`, `effected` | what the last render closed over; the dependencies its effects last ran with |
| `intervals`, `intervalRef` | the timers alive in the browser; the one the component can clear |
| `requests` | status requests in flight, each with the continuation that awaits it: of the effect, of startPolling, of a tick |
| `isPolling`, `state`, `loading`, `mounted` | the React state and mountedRef |
| `view` | `workspaceView`: for each conversation the snapshot merged last, told by its status (COMPLETE stands for every status but RUNNING) |
| `optimistic`, `optimisticUserRef` | messages inserted on sending; the one an echo removes |
| `streams`, `sent` | the stream of each message; abortRef is that of the last |
| `server` | the status of each conversation (external) |
| `RenderScene` `RunSceneEffects` `UnmountScene` `SwitchConversation` | a render, its passive effects, unmounting, a new prop `convUid` |
| `TickScene` `PollReturns` | the timer; checkStatus and the continuation behind it, with handlePoll |
| `SendMessage` `StreamOpens` `StreamMessage` `StreamEvent` `StreamEnds` | send and the handlers it gives to chatV1 |
| `ServerAnswers` `AnswerLost` `ServerCompletes` | the server |

Rendering and effects are separate steps, as React runs passive effects after the
commit; a handler is that of the last render. Details that shape the model: Enter
sends also while a stream runs, so an abort of a live stream is real;
fetch-event-source resolves an aborted stream without calling any handler (the
comment at the catch in use-chat.ts expects an exception); [DONE] and error frames
release the input while the connection stays open; polls merge content and do not
remove the optimistic message. Left out: the compact step list, the error text,
lastInput, the hook's `abort()`, which the component does not call, and the
incremental mode of the stream hook, which serves other pages.

| Run | Instance | Question |
|---|---|---|
| `scene_chat` | 2 conversations, 1 input (a message or a switch), 2 requests and 2 timers at one time, 1 lost answer, fairness; 307,526 states | Does no late answer reach a foreign view, do spinner and flag end, does an echo replace its message, does who stays get the end? `NoForeignPoll` `SpinnerHasStream` `EchoReplaces` `PollingIsReal` `StayedCatchesUp` |
| `scene_reopen` | as scene_chat, nothing lost | *Violation*: who comes from another conversation may never get the end. `ReopenedCatchesUp` |

The initial state of both runs has a conversation on the screen and all
conversations RUNNING: the conversations are symmetric, and one that is COMPLETE
is one that completed first. One input is enough for each pair of a late event
with a change of the conversation; requests that overlap need two slots, and a
timer that is no longer held needs a second one. The system may rest when
everything is complete (CHECK_DEADLOCK FALSE).

Fairness: the browser renders, runs effects and timers and hands over answers, the
server answers and completes what runs. The user, the end of a stream and lost
answers are not fair. `StayedCatchesUp` therefore asks for a conversation that
stays on the screen, no message sent and no answer lost. "Reaches" is meant once: a
delayed RUNNING snapshot may come behind the final one.

The violation is a defect of `use-chat-polling.ts`: the continuation of startPolling
starts its timer also after the conversation has changed (`:94`), and a timer's
callback clears `intervalRef.current`, whichever timer that is (`:100`). After a
switch at the wrong moment the first conversation's timer stops the second's and
goes on for ever itself.

## 5. The cron service: `CronService`

`add_job`, `update_job`, `remove_job` and `start` suspend nowhere and are one action
each. An execution (`_execute_job_safe`) suspends at the lock of its job and while
the job runs; what it read of its row before the lock it uses behind it.

| TLA+ | Code |
|---|---|
| `service` | before start(), running, after stop() |
| `rows` | the table: stored, enabled, kind of schedule, delete_after_run, running_at_ms set |
| `entries` | the trigger APScheduler's memory holds for a job (external) |
| `runs` | executions: created, in the queue of the asyncio.Lock (`ahead`), executing; triggered by a timer or a client |
| `orphaned` | bookkeeping: marks a stop or crash left behind |
| `AddJob` `UpdateJob` `RemoveJob` `RunJob` | the service's calls; the disable endpoint is an UpdateJob |
| `Start` `Stop` `Crash` | start with _recover_jobs, stop, the death of the process |
| `Fire` `FireSkipped` | a timer that comes due, or is skipped for max_instances or lateness; a date trigger is gone with it |
| `BeginMissing` `Begin` `BeginWaiting` `Acquire` `Finish` | `_execute_job_safe` |

A schedule no trigger can be made of ("bad") is in the model: it raises after the
row is committed. Stopping cancels the executions of timers, whose CancelledError
passes by the code that clears the mark, and not those of clients. Left out:
next_run_at_ms, last_status, the error counters, and what a payload does.

`cron` (43,096 states) has one job id, since jobs share nothing but the event loop,
and three executions: one that holds the lock and two in its queue, so that order
matters. It asks: do executions exclude each other through removals and
re-creations (`OneRunPerJob`), does the mark tell the truth (`MarkHonest`), do timers
and table agree through every sequence of calls and restarts
(`ScheduleMatchesTable`), does every execution end (`RunsEnd`), and does an enabled
job keep running (`EnabledKeepsRunning`)? Fairness: the event loop runs what is
ready, jobs end, timers come due. Clients, stop, crash and start are not fair.

Not claimed by any document, and therefore without a property: a job removed,
disabled or changed while its execution waits for the lock is executed as it was
(`service.py:532`); `add_job` schedules a job without asking whether it is enabled
(`:262`), so a job added disabled runs until it is updated or the service restarts;
the enable endpoint always fails its validation (`api/endpoints.py:294`); an AT job
can run a second time after a restart within its misfire grace time.

## 6. The v2 step runtime: `StepRuntime`

`run_loop`, `run_step` and `resume_step` with the transition table, the permission
gate and its session cache, the event stream, the state store and the decision of
recovery, for one conversation. An action is the code between two commits or other
awaits, and the process may crash between any two.

| TLA+ | Code |
|---|---|
| `log`, `snap`, `asks` | the rows of step_event, step_state, interaction_checkpoint; they outlive a crash |
| `pc`, `driver`, `step`, `rounds` | the await the run stands at; run_loop or a host that drains run_step; the step; step_count |
| `tracked`, `seq`, `behind` | `_step_state_tracker`, the next seq, whether the last event waits for its set_step_state |
| `todo`, `cache`, `said` | the calls left of the step; SessionPermissionCache; what the user said of a call |
| `StartTurn` `NextRound` `TurnEnds` | run_loop and run_step |
| `Think` `AwaitUser` `ThinkingEnds` `Raises` | the chunks of thinking_fn, and exceptions of what the runtime calls |
| `Pass` `Refuse` `Ask` `Question` `Answer` `DeleteCheckpoint` `Executed` | the gate and the execution of a call |
| `SpawnSubAgent` `SubAgentSpawned` | the intercepted call |
| `StepDone` | the end of a step |
| `StoreState` | the second commit of emit(); the event then goes to the consumer |
| `Resume`, `Crash` | decide_resume_action with resume_step; the loss of the process |

`emit` is two commits, append_event and set_step_state, with the consumer behind
them. run_loop leaves at the first event that waits, which closes the generator; a
host that drains the generator, as the sub-agent runtime does, goes on. `Rule` folds
permission modes, rules and a tool's check_permissions into one answer for each
call. Left out: leases (nothing runs them together with a runtime), the hooks of
run_loop, a missing acting_fn, transcripts and conversations shared by sub-agents,
the ask_user branch, which cannot be reached, the state FAILED, which nothing emits,
failures of the store, and two processes on one conversation.

| Run | Instance | Question |
|---|---|---|
| `step_runtime` | 2 steps of up to 2 calls: a free tool, one the user is asked about, a sub-agent; 1 crash, log of 8; 1,575,577 states | Does the log replay in order, is done final, is the kept state recent, do tools run only as granted, does a step that ends leave no question? `ReplayInOrder` `DoneIsFinal` `StateIsRecent` `RunsAsGranted` `DoneLeavesNoAsk` |
| `step_recovery` | as step_runtime, no crash | *Violation*: recovery takes an earlier step for the last one. `RecoveryFindsLastStep` |

Two calls of a step are what it takes for a second question, a second round is what
it takes for the log of two steps, and a log of 8 holds a step with both its calls
and its redo; `MaxLog` restrains thinking and resuming only, so a step that has
begun to act can always finish. The run stops at its bounds (CHECK_DEADLOCK FALSE).
No fairness is stated: all properties are safety.

The finding: seq restarts at 0 in every step (`runtime.py:264`), events are sorted by
seq over the whole conversation (`state_store.py:187`), and recovery takes the last of
them (`recovery.py:62`), which is that of an earlier step if it was longer. Met while
modelling, and in the model as the code has it:

- a second question or sub-agent in one step comes from OBSERVING, from where the
  table allows no wait, and raises IllegalTransitionError behind a saved checkpoint;
- run_loop leaves at AWAITING_PERMISSION, so the adapter is never asked, and resuming
  only repeats the event;
- a crash between the two commits makes decide_resume_action, which reads events,
  and resume_step, which reads step_state, disagree: `StateIsRecent` bounds by how much;
- a redo does not delete the checkpoint of the run before: `DoneLeavesNoAsk` excepts it.

## 7. The push pipeline: `StreamPush`

What a turn shows its client while it runs: the part of `GptsMemory` that pushes
(`core/agent/core/memory/gpts/gpts_memory.py`), the coroutines of a turn that call it,
`_inner_chat`, `_chat_messages` and `stop_chat` of `serve/agent/agents/chat/agent_chat.py`,
and the stream of `agent_chat_simple.py` that reads the channel. All run on one event
loop, so an action is the code between two awaits.

| TLA+ | Code |
|---|---|
| `pending`, `handle`, `strays` | `stream_pending`; the timer `stream_pending_handle` names; timers it no longer names |
| `flushes`, `flying` | tasks of `_flush_stream_pending_by_id` not yet run; frames whose view one of them is making |
| `stream`, `taken` | everything ever put in the channel, and how much of it was read; the channel is the rest, of capacity `MaxSize` (100 in the code) |
| `work` | the await a coroutine stands at: `flushing` and `pushing` make a view in a thread, `flushed` has the push itself still to do, `blocked` is complete waiting for room |
| `cached`, `stop_flag` | the conversation is in `_conversations`; `stop_flag` |
| `made`, `ending`, `cancel` | pushes so far; how the turn failed; `task.cancel()` not yet delivered |
| `Push` `Lands` `Resumes` | push_message, its suspension while the view is made, what follows a flush |
| `TimerFires` `FlushById` `FlushLands` | `call_later`, the task it starts, its view |
| `End` `Fail` `PushBreak` `Complete` `RoomForDone` | the body, the handlers and the finally block of `_inner_chat` |
| `StopChat` `MemoryStop` `Interrupted` | stop_chat, stop, CancelledError where it meets the turn |
| `Read` `Leave` `Clear` | the reader, a client that goes away, the clearing of the cache |

An increment is a token (`text`), a state of an action (`report`), a whole message or
its reset (`whole`), or a fence sent as it is (`raw`); the first two are what
`push_message` takes for coalescable. `Screens` says whether the converter wants user
messages screened, which is where `vis_messages` waits for a thread; with FALSE the view
is made without a suspension. Left out: what views look like, the tables of messages and
plans, eviction of idle conversations, and what `_inner_chat` does before the agent runs.
One over-approximation: a dropped frame skips the `asyncio.sleep(0)`; here it may suspend
all the same.

| Run | Instance | Question |
|---|---|---|
| `push_direct` | 2 coroutines, one message, no threads, channel of 8, a stop and a client that leaves; 513,755 states | Is order kept, does [DONE] come last, was a turn that ended well shown whole, and do turn and stream end after a stop? `OrderKept` `DoneComesLast` `NothingLost` `StopSettles` |
| `push_threads` | 2 agents with a message each, views in threads, channel of 2; 81,172 states | Is nothing shown twice, are messages not mixed, is what is pending flushed, do turn and stream end? `ShownOnce` `OneMessageAFrame` `PendingHasFlush` `LeaseReleased` `StreamEnds` |
| `push_order` | 1 agent, threads | *Violation*: the next push overtakes a flush that is under way. `OrderKept` |

Bounds. `MaxPush` gives each coroutine its number of pushes: two for one, one for the
other, and the message of a failure. That makes every overlap of two - a push against
the timer's flush, a flush against the flush of another - and a third that finds the
collector filled meanwhile. A channel of 2 fills, one of 8 holds all that can be pushed,
so that losses there are not those of a full channel. Turns stop (CHECK_DEADLOCK FALSE).

Fairness. The loop runs what is ready, threads return their views, timers fire, agents
come to an end (they may always do so, and a turn that never ends owes nothing), a
client that stays reads on. Pushes, failures, stops and departures are not fair.

What is qualified by the code: `OrderKept`, `DoneComesLast` and `NothingLost` hold
without threads, the last also for one message, without reports, with room in the
channel, without a stop and with a client that
stays; `LeaseReleased` and `StreamEnds` hold where nobody stops the turn and the client
stays; `StopSettles` holds while the channel has room. Each exception is a defect that a comment of the code speaks against. `push_order`
shows one: the collector is emptied before the frame it holds is in the channel
(`:1450`), so whoever comes while the view is made finds nothing to wait for. The others
TLC finds when the constants of a run are changed as told:

- *[DONE] before the last content* (`DoneComesLast` with `PushOrder.cfg`): complete
  finds nothing pending while the timer's flush is on its way; the flush is there
  against that (`:1125`);
- *a lost increment of another message* (`NothingLost` with Uid <- UidTwo in
  `PushDirect.cfg`): a push that finds another message pending flushes it and then
  overwrites the slot (`:1422`), into which a third push may have come meanwhile;
- *a lost report* (`NothingLost` with "report" in the Kinds of `PushDirect.cfg`): of an
  action's state that joins what is pending only thinking and content are merged (`:1437`),
  though increments must be merged and never dropped, says the comment above it;
- *a lease that is kept* (`LeaseReleased` with MayLeave = TRUE in `PushThreads.cfg`): the
  client leaves with the channel full and `complete` waits for room that only a reader
  makes (`:1128`), with the release of the lease and of the sandbox behind it;
- *a stream without an end* (`StreamEnds` with MayStop = TRUE in `PushThreads.cfg`): `stop`
  cancels just that wait, without making room for its own [DONE] (`:1564`), which it
  promises its consumer (`:1551`).

Met while modelling, and
in the model: after a flush at a change of the uid the collector is written without
looking whether another agent filled it meanwhile (`:1425`), so its increments are gone.

## 8. Proofs

All theorems hold for every value of the constants the modules' assumptions admit
(any sets of jobs, workers, tasks, conversations, calls; any bounds), and none
assumes fairness.

### `JobQueueProofs`

`TypeCorrectness`, `ClaimColumnsHold`, `OneOwner`, `LocksAreExclusive` and
`ClaimsAreNotStolen` prove the type invariant, the two claim invariants and the
action property of `job_chaos`, and `LocksHold`, on both dialects and without Prompt.
The type invariants of all modules are proved, so no run repeats them.

The argument is one inductive invariant `Inv`: the type invariant, a
predicate on each row (running exactly with a claim and a lease),
`AttemptHasOneOwner` and `LocksHold`. `AttemptHasOneOwner` is not inductive
alone: that a claim is fresh needs that no execution is ahead of its row's
attempt counter, and that a claim on SQLite takes a pending row needs the test
repeated by the UPDATE, on the other dialects `LocksHold`. Under SKIP LOCKED
`LocksHold` needs that every transaction that can take a row out of pending
tests `Locked`. The step lemmas have one case per action; the steps that
change one row go through lemmas about the row updates (`Requeued`, `Acked`,
`Nacked`, `Renewed`), which state what each does to the claim columns.

`EngineImplementsClaims`: the job engine implements `JobClaims`. Every step but a
claim starts no claim and leaves the counts alone (`QuietRows`, `ExecsKept`) and so is a
`Release` or a stutter; a claim takes a row that is pending, also when its candidate was
selected long before.

### `JobClaimsProofs`

`NoTurnHasTwoClaims` proves `Fenced` of the abstract module.

### `JobLimitsProofs`

- `HandlersExcludeEachOther`, `ExecutorIsRecorded`, `HistoryFitsAttempts` under
  `KeepsLeases`: executions are prompt, and there is no admin call and no database
  fault; workers may stop and crash. The invariant `Kept` adds to `Inv` that an
  execution in its worker's hands still has its row, with its claim and a live lease
  (`Attends`), and that the history has room for its entry (`HasRoom`).
- `DoneStaysDone` under `KeepsLeases`: no step changes status, attempts, executor,
  result or history of a done row, on either dialect, and so `DoneIsNotTakenBack`
  (`DoneUntilRetried`). `job_late_nack` is the counterexample without Prompt. An ack or
  nack writes only a row that its execution `Attends`, which is running
  (`OneRowWritten`, `RunOneFrozen`); claims and the sweep ask for the status themselves.
- `AttemptsAreBounded` under `CountsAttempts`: as before, and max_attempts is at least 1.
  `Counted` counts a claim, a pending row and the crashes and stops left against
  max_attempts: a stop leaves its rows running to be reclaimed, as a crash does. As the
  property, it speaks of SQLite.
- `SemaphoreHolds` (`ConcurrencyBound`), with no assumption on leases, faults or admin
  calls. `SlotsHold` counts a worker's executions in two sets: those in a slot of its present
  loop (`Running`, at most concurrency) and those that outlived one (`Outlived`). Of the
  first at most concurrency - 1 are not named by `_in_flight` (`Displaced`): a launch finds
  a free slot and names the execution that takes it, and a sweep forgets only entries
  whose task is finished. A stop moves exactly the displaced ones to the second set, so
  each stop adds concurrency - 1 to its bound. Sets of executions are counted by their
  `Ids`, which no step changes and `AttemptHasOneOwner` makes unique.

### `AsyncTasksProofs`

They hold on both versions of `asyncio.wait_for`. `TypeCorrectness`, `PermitsStayBalanced`,
`FuturesTellTheEnd`, `TerminalStatusIsFinal`, `EndsAreReceived`, `WaitersMissNothing` and
`DependenciesAreHonoured` prove every invariant of the run and that an end is final, and that a future that
is done tells a terminal status (`FutureMeansTerminal`).

`FutureMeansTerminal` is not inductive: a task that goes on to run sets its
status back to RUNNING, which is sound only because its future cannot be done
then. `TaskOK` says why: while a coroutine lives and its future is done, a
cancellation is pending for it, except where the old `wait_for` may have dropped
it (a dependency wait, after which the status test of `Enter` stops the task)
or the task is in its callback with its end recorded. `Balanced` counts the
coroutines inside the semaphore against `permits`; `BalanceStep` counts once for
all steps. Each step of a coroutine changes its own task only (`Frame`), so the
lemmas per action establish `Good(t)` and `GoodStep` lifts it to the invariant.
`Good(t)` also carries `Final(t)`, from which `StatusFinal` follows.

`Handed` relates what calls took to what the agent received and what waits for the
completion event; a step of a task hands nothing out and wakes every waiter
(`TasksHandNothing`). `Served` says of a task how far its loop over the dependencies
has come and that those behind it have completed: a dependency met stays met because
COMPLETED is never left (`Kept`).

`ManagerImplementsExecutor`: the manager implements `TaskExecutor`. A step of a
coroutine is one of three (`RunMaps`, `ProceedMaps`, `BackgroundMaps`): quiet, where neither the
ends nor the work nor what is announced changes (`QuietMaps`, a stutter); a `Conclude`
(`ConcludeMaps`, `SettleMaps`); or the entry into the semaphore, a `Begin`, whose `Ready` follows
from `Served` and whose bound on the work from `Balanced` with a free permit. A task is not
begun with its end known since `Enter` tests the status. Of the calls, `Spawn` is an
`Accept`, `Cancel` a `Conclude`, and what returns results a `Tell`: what it returns has ended.

### `SceneChatProofs`

`TypesHold`, `ForeignPollsDropped`, `SpinnerEnds`, `EchoReplacesOwn`, `PollingFlagReal` prove
every invariant of `scene_chat`; `StreamsExclusive` that two streams never feed the
view at once. The invariant is the conjunction of TypeOK, PollingIsReal and four
predicates: `Addressed` (a request in flight and a live stream are about some
conversation), `LastStream` (only the last message's stream lives, which gives the
spinner its stream), `OptimisticOwned` (the optimistic message is the one the ref
holds, or its stream is gone) and `ViewOwned` (a view entry of another conversation than
the rendered one came by a stream, or there is none rendered, or the effects that clear
the view have still to run).

### `CronServiceProofs`

`CronTypes`, `JobRunsOnce`, `MarkIsHonest`, `TimersMatchTable` prove every invariant of
`cron`, with `MissingIdle` (a row that is not stored says nothing) and `RunsHaveJobs` as
strengthening.

### `StepRuntimeProofs`

`TypesHold`, `ReplaysInOrder`, `EndsAreFinal`, `GrantsAreHonoured`, `DoneStepsAskNothing`,
`KeptStateIsRecent` prove every property of `step_runtime`. `Core` is TypeOK with
`HeadOK` (there is a call where one is dealt with) and `LogOK`: order and finality of
the log follow from `Ahead` - a run's seq is beyond every event of its step, and the
step is not done while it runs. What `Resume` needs, an event of the highest seq, is
carried as an invariant (`HasLatest`), since the existence of a maximum is a fact by
induction. On top stand `Permitted` (what is cached was granted for the session; between
a grant and its use nothing takes it back), `Questions` (an open question is that of
the run, or the step was run again) and `Recent` (`StateIsRecent` with the fact that what is
being stored is the last event of its step: every run stores before it goes on, so
the lag grows by crashes only).

`RecoveryResumesUnfinished` says what remains true where `step_recovery` finds that
recovery may take an earlier step for the last one: the step it takes up has no done
event, and the seq it goes on with is beyond all that is logged. It follows from `Core`: a
step that is done has its done event at its highest seq.

### `StreamPushProofs`

For any agents, messages, converter, channel and bounds, with stops, failures and
clients that leave:

- `PushTypesHold`, `PendingIsFlushed` (`TimerServes`: something is pending exactly when the
  handle names a timer, and one that has fired has its flush task to come);
- `FramesDoNotMix`. A frame is made in the collector, waits in a coroutine or a flush
  task, and ends in the channel; `FramesOK` says of all four places that frames are
  `WellMade` - one message, each coroutine's increments ascending - and made of what was
  pushed;
- `ShownAtMostOnce`. Seen from the channel alone nothing says that a frame still to come
  is new, so `OnePlace` says of every increment that it is in one place. A step moves
  increments from place to place or adds one that is new (`Moves`), which is shown once
  for each way a step touches the places;
- `OrderIsKept`, where views need no thread: no frame is ever on its way then, and what
  is pending is behind all that was shown (`Ordered`);
- `DoneIsLast`, under the same assumption, until the turn is stopped or its cache
  cleared: a stop sets the flag the property excepts, and behind the clearing nobody
  sees the channel. `complete` comes when every coroutine has ended and flushes what is
  pending first; `Tight` says that from then on nothing can follow its [DONE];
- `NothingIsLost`: for one message, no threads, no reports, and fewer pushes than the channel
  has places, a turn that ended well was shown whole, for any number of coroutines and
  however slowly the client reads; `NothingIsLostWithRoom` for any number of pushes while
  the channel of a turn that goes well is not full (`HasRoom`). While the turn goes
  well, every increment was shown, is pending, or waits in a push for the frame before it
  (`Intact`, with `Somewhere`); merging keeps it, and a push that waits for a flush is not
  coalesced when it resumes, so it overwrites nothing. When the turn has ended well,
  nothing is left pending or waiting before [DONE], and the client has read up to it
  (`ReadThrough`, with `Sealed`, which carries `DoneIsLast`). That
  there is room is counted: the channel never holds more frames than there were
  pushes (`FewPushes`).

`push_order` shows that `OrderIsKept` and `DoneIsLast` need their assumption about threads. TLC
finds `NothingLost` violated when any one of its four assumptions is dropped: with threads,
with two messages, with reports (§7), and with a channel of one place.

### Only model-checked

Liveness (`Settles`, `StalledReclaimed`, `EveryTaskEnds`, `StayedCatchesUp`, `RunsEnd`,
`EnabledKeepsRunning`, `LeaseReleased`, `StreamEnds`, `StopSettles`): under fairness it is
out of the prover's reach. And the four violations, which are counterexamples, of which
`DoneUntilRetried` is a theorem under `KeepsLeases` and `OrderKept` without threads. Every
safety property of the passing runs is proved, some under the assumptions named above.

## 9. Not modelled

- *Subagent coordinator.* Within one process the reads and writes of the pending list
  have no suspension between them, so they are atomic. The interesting part, resuming
  the main conversation, awaits an async generator (`subagent_coordinator.py:333`) and
  raises TypeError, which is logged; the pending list is cleared before that, so the
  main conversation is not resumed. A model would show that one fact and nothing else.
- *Heartbeat, lease and recovery daemon.* The retry awaits the same generator with
  arguments missing (`recovery_daemon.py:204`), so no recovered conversation is ever run
  and it stays RETRYING, which the scan for running ones does not find again.
- *Intervention.* One transaction per call without a test of the status: approving
  twice runs the tool twice, which needs no model to see.
- *Leases of the v2 runtime, v2 sub-agents.* No code runs a lease together with a
  runtime. Sub-agents are close to what `AsyncTasks` models.
- *Interaction gateway and its front end.* The front end is mounted with autoConnect
  off, nothing calls connect(), and no back end serves its endpoints.
- *Task service, tool authorization.* A transition table under a row lock; a pure
  decision over rules with a cache.
- *Background turn stream* (`agent_chat_background.py`). Its loop waits for an event that
  is set behind the loop (`:121`), so the response does not end by itself; a model would
  show that and nothing else. *Shutdown* of GptsMemory clears under a lock that clearing
  takes again (`gpts_memory.py:505`), likewise.
- *The rest.* HTTP and streaming, MCP and channel adapters, sandboxes, SQL guard, vault,
  storage and model drivers, CRUD services and AWEL are I/O, parsing or
  one-transaction CRUD. Most lines of the web client are pages, forms, renderers,
  translations and styles over one request each; the chat above is where its order of
  events decides anything. PROJECT.json lists each part with its reason.

## 10. What is left

1. `SubagentCoordinator` with recovery and intervention, when their resume paths run: the
   yardstick would be a rendezvous that resumes the main conversation once, after all
   parts have ended.
2. The leases of the v2 runtime with two processes on one conversation, when a caller
   acquires them; sub-agents waiting and cancelled.
3. The incremental mode of the event stream hook, with its frame scheduling.
4. A candidate window smaller than the jobs, to show starvation by an unserved worker
   tag (`models.py:269`).
