------------------------- MODULE AsyncTasksProofs -------------------------
(***************************************************************************)
(* The safety of AsyncTasks for any tasks, dependencies, callers, limit    *)
(* and callbacks.  TaskOK ties the four things the code keeps apart for a  *)
(* task - status, coroutine, cancellation request and future - and is      *)
(* inductive; Balanced gives permits its range.                            *)
(***************************************************************************)
EXTENDS AsyncTasks, TLAPS, FiniteSetTheorems

\* What TypeOK says of everything but permits.
Typed ==
  /\ keepsResult \in BOOLEAN
  /\ spawned \in Seq(Tasks)
  /\ status \in [Tasks -> {"PENDING", "RUNNING"} \cup Terminal]
  /\ phase \in [Tasks -> Phases]
  /\ at \in [Tasks -> Nat]
  /\ requested \subseteq Tasks
  /\ resolved \subseteq Tasks
  /\ consumed \subseteq Tasks
  /\ received \subseteq Tasks
  /\ unfinished \subseteq Tasks
  /\ calls \in [Callers -> Call]

\* A done future and a pending cancellation request explain each other while
\* the coroutine lives; only the old wait_for drops a request, in a
\* dependency wait or with the result.
TaskOK(t) ==
  /\ t \in resolved => status[t] \in Terminal
  /\ phase[t] = "ended" => t \in resolved
  /\ t \in Known <=> phase[t] # "none"
  /\ t \in resolved => phase[t] # "none"
  /\ t \in requested => /\ t \in resolved /\ status[t] = "CANCELLED"
                        /\ phase[t] \notin {"none", "callback", "ended"}
  /\ t \in resolved /\ phase[t] \in {"created", "sem", "delegating", "returned"}
       => t \in requested
  /\ t \in resolved /\ phase[t] = "dep"
       => status[t] = "CANCELLED" /\ (keepsResult \/ t \in requested)
  /\ phase[t] = "callback" => status[t] \in Terminal
  /\ status[t] \in Terminal => phase[t] \in {"callback", "ended"} \/ t \in resolved

Holders == {t \in Tasks : phase[t] \in Holding}
Balanced == permits \in Nat /\ permits + Cardinality(Holders) = MaxConcurrent

Inv == Typed /\ Balanced /\ \A t \in Tasks : TaskOK(t)

\* Nothing but t has moved.
Frame(t) ==
  /\ UNCHANGED <<spawned, keepsResult>>
  /\ \A u \in Tasks \ {t} :
       /\ status'[u] = status[u] /\ phase'[u] = phase[u]
       /\ u \in requested' <=> u \in requested
       /\ u \in resolved' <=> u \in resolved

\* A terminal status stays, unless wait_for has dropped a cancellation.
Final(t) == ~keepsResult /\ status[t] \in Terminal => status'[t] = status[t]

\* What every step of the coroutine of t does.
Good(t) == Typed' /\ Balanced' /\ Frame(t) /\ TaskOK(t)' /\ Final(t)

-----------------------------------------------------------------------------
\* Moving one coroutine keeps the balance if permits moves with it.
LEMMA BalanceStep ==
  ASSUME Typed, Balanced, NEW t \in Tasks, NEW p \in Phases,
         phase' = [phase EXCEPT ![t] = p], permits' \in Nat,
         permits' = permits + (IF phase[t] \in Holding THEN 1 ELSE 0)
                            - (IF p \in Holding THEN 1 ELSE 0)
  PROVE  Balanced'
<1>1. IsFiniteSet(Holders)
  BY ManagerAssumption, FS_Subset DEF Holders
<1>2. Cardinality(Holders) \in Nat
  BY <1>1, FS_CardinalityType
<1>3. Holders' = IF p \in Holding THEN Holders \cup {t} ELSE Holders \ {t}
  BY DEF Holders, Typed
<1>4. t \in Holders <=> phase[t] \in Holding
  BY DEF Holders
<1>5. /\ Cardinality(Holders \cup {t}) =
           IF t \in Holders THEN Cardinality(Holders) ELSE Cardinality(Holders) + 1
      /\ Cardinality(Holders \ {t}) =
           IF t \in Holders THEN Cardinality(Holders) - 1 ELSE Cardinality(Holders)
  BY <1>1, FS_AddElement, FS_RemoveElement
<1> QED BY <1>2, <1>3, <1>4, <1>5, ManagerAssumption DEF Balanced

\* The invariant is that of each task, so a good step of one task keeps it.
LEMMA GoodStep ==
  ASSUME Inv, NEW t \in Tasks, Good(t)
  PROVE  Inv' /\ \A u \in Tasks : Final(u)
<1>1. ASSUME NEW u \in Tasks, u # t PROVE TaskOK(u)' /\ Final(u)
  <2>1. /\ status'[u] = status[u] /\ phase'[u] = phase[u]
        /\ u \in requested' <=> u \in requested
        /\ u \in resolved' <=> u \in resolved
        /\ keepsResult' = keepsResult
        /\ Known' = Known
    BY <1>1 DEF Good, Frame, Known
  <2> QED BY <2>1 DEF Inv, TaskOK, Final
<1> QED BY <1>1 DEF Inv, Good

\* Waking the waiters keeps the calls typed.
LEMMA WokenType ==
  ASSUME Typed
  PROVE  Woken \in [Callers -> Call]
BY DEF Typed, Woken, Call

-----------------------------------------------------------------------------
(* Settle and Goto *)

\* A coroutine that ends with a terminal status, one that does not differ from
\* a status already final.
LEMMA SettleGood ==
  ASSUME Inv, NEW t \in Tasks, NEW st \in Terminal, Settle(t, st), keepsResult' = keepsResult,
         phase[t] # "none", ~keepsResult /\ status[t] \in Terminal => st = status[t]
  PROVE  Good(t)
<1>1. Typed'
  BY WokenType DEF Inv, Typed, Settle, Resolve, results, Phases
<1>2. Balanced'
  <2>1. permits' = permits + (IF phase[t] \in Holding THEN 1 ELSE 0)
                           - (IF "ended" \in Holding THEN 1 ELSE 0)
    BY DEF Settle, Freed, Holding, Inv, Balanced
  <2>2. permits' \in Nat
    BY <2>1 DEF Inv, Balanced, Holding
  <2>3. phase' = [phase EXCEPT ![t] = "ended"] /\ "ended" \in Phases
    BY DEF Settle, Phases
  <2> QED BY <2>1, <2>2, <2>3, BalanceStep DEF Inv
<1>3. Frame(t)
  BY DEF Settle, Resolve, Frame, Inv, Typed
<1>4. /\ status'[t] = st /\ phase'[t] = "ended" /\ t \notin requested' /\ t \in resolved'
      /\ Known' = Known
  BY DEF Settle, Resolve, Inv, Typed, Known
<1>5. TaskOK(t)'
  BY <1>4 DEF TaskOK, Inv
<1> QED BY <1>1, <1>2, <1>3, <1>4, <1>5 DEF Good, Final

\* What Goto does to the variables, TypeOK of permits apart.
LEMMA GotoEffect ==
  ASSUME Inv, NEW t \in Tasks, NEW p \in Phases, NEW i \in Nat, Goto(t, p, i),
         keepsResult' = keepsResult,
         NEW st, status' = [status EXCEPT ![t] = st],
         st \in {"PENDING", "RUNNING"} \cup Terminal
  PROVE  /\ Typed' /\ Frame(t)
         /\ status'[t] = st /\ phase'[t] = p /\ phase' = [phase EXCEPT ![t] = p]
         /\ t \notin requested'
         /\ t \in resolved' <=> t \in resolved
         /\ Known' = Known
BY DEF Inv, Typed, Goto, Frame, results, Known

\* Taking a permit.
LEMMA RunGood ==
  ASSUME Inv, NEW t \in Tasks, Run(t), keepsResult' = keepsResult,
         phase[t] \in {"created", "dep", "sem"}, t \notin resolved
  PROVE  Good(t)
<1>1. Goto(t, "delegating", 0) /\ status' = [status EXCEPT ![t] = "RUNNING"]
  BY DEF Run
<1>2. "delegating" \in Phases
  BY DEF Phases
<1>3. /\ Typed' /\ Frame(t)
      /\ status'[t] = "RUNNING" /\ phase'[t] = "delegating"
      /\ phase' = [phase EXCEPT ![t] = "delegating"]
      /\ t \notin requested' /\ t \notin resolved' /\ Known' = Known
  BY <1>1, <1>2, GotoEffect
<1>4. /\ permits' \in Nat
      /\ permits' = permits + (IF phase[t] \in Holding THEN 1 ELSE 0)
                            - (IF "delegating" \in Holding THEN 1 ELSE 0)
  BY DEF Run, SlotFree, Inv, Balanced, Holding
<1>5. Balanced'
  BY <1>2, <1>3, <1>4, BalanceStep DEF Inv
<1>6. TaskOK(t)'
  BY <1>3 DEF TaskOK, Inv, Terminal
<1>7. status[t] \notin Terminal
  BY DEF Inv, TaskOK
<1> QED BY <1>3, <1>5, <1>6, <1>7 DEF Good, Final

\* Going on to another await without touching permits.
LEMMA GotoGood ==
  ASSUME Inv, NEW t \in Tasks, NEW p \in Phases, NEW i \in Nat, Goto(t, p, i),
         keepsResult' = keepsResult, UNCHANGED permits,
         phase[t] \in Holding <=> p \in Holding,
         NEW st, status' = [status EXCEPT ![t] = st],
         st \in {"PENDING", "RUNNING"} \cup Terminal,
         ~keepsResult /\ status[t] \in Terminal => st = status[t],
         phase[t] # "none",
         \* what TaskOK asks of the new place
         \/ p \in {"sem", "dep"} /\ t \notin resolved /\ st \notin Terminal
         \/ p = "dep" /\ keepsResult /\ st = "CANCELLED" /\ t \in resolved
         \/ p = "ended" /\ st \in Terminal /\ t \in resolved
         \/ p = "callback" /\ st \in Terminal
  PROVE  Good(t)
<1>1. /\ Typed' /\ Frame(t)
      /\ status'[t] = st /\ phase'[t] = p /\ phase' = [phase EXCEPT ![t] = p]
      /\ t \notin requested' /\ (t \in resolved' <=> t \in resolved) /\ Known' = Known
  BY GotoEffect
<1>2. Balanced'
  <2>1. /\ permits' \in Nat
        /\ permits' = permits + (IF phase[t] \in Holding THEN 1 ELSE 0)
                              - (IF p \in Holding THEN 1 ELSE 0)
    BY DEF Inv, Balanced
  <2> QED BY <2>1, <1>1, BalanceStep DEF Inv
<1>3. TaskOK(t)'
  BY <1>1 DEF TaskOK, Inv, Terminal
<1> QED BY <1>1, <1>2, <1>3 DEF Good, Final

-----------------------------------------------------------------------------
(* The background coroutine *)

\* Up to the semaphore.  The status of a task on its way is not terminal
\* unless it was cancelled and the old wait_for dropped the request.
LEMMA EnterGood ==
  ASSUME Inv, NEW t \in Tasks, Enter(t), keepsResult' = keepsResult,
         \/ phase[t] = "created" /\ t \notin requested
         \/ phase[t] = "dep" /\ (t \in requested => keepsResult)
  PROVE  Good(t)
<1>1. t \notin resolved \/ (phase[t] = "dep" /\ keepsResult /\ status[t] = "CANCELLED")
  BY DEF Inv, TaskOK
<1>2. phase[t] # "none" /\ phase[t] \notin Holding /\ status[t] \in {"PENDING", "RUNNING"} \cup Terminal
  BY DEF Inv, Typed, Holding
<1>3. CASE status[t] = "CANCELLED" /\ Settle(t, "CANCELLED")
  BY <1>2, <1>3, SettleGood DEF Terminal
<1>4. CASE status[t] # "CANCELLED" /\ Run(t)
  BY <1>1, <1>4, RunGood
<1>5. CASE status[t] # "CANCELLED" /\ Goto(t, "sem", 0) /\ UNCHANGED <<status, permits>>
  <2>1. t \notin resolved /\ status[t] \notin Terminal
    BY <1>1, <1>5 DEF Inv, TaskOK
  <2>2. status' = [status EXCEPT ![t] = status[t]]
    BY <1>5 DEF Inv, Typed
  <2>3. "sem" \in Phases /\ "sem" \notin Holding
    BY DEF Phases, Holding
  <2> QED BY <1>2, <1>5, <2>1, <2>2, <2>3, GotoGood
<1> QED BY <1>3, <1>4, <1>5 DEF Enter

\* The loop over the dependencies, from its start or after a wait.
LEMMA ProceedGood ==
  ASSUME Inv, NEW t \in Tasks, NEW k \in Nat, Proceed(t, k), keepsResult' = keepsResult,
         \/ phase[t] = "created" /\ t \notin requested
         \/ phase[t] = "dep" /\ (t \in requested => keepsResult)
  PROVE  Good(t)
<1>1. t \notin resolved \/ (phase[t] = "dep" /\ keepsResult /\ status[t] = "CANCELLED")
  BY DEF Inv, TaskOK
<1>2. phase[t] # "none" /\ phase[t] \notin Holding /\ status[t] \in {"PENDING", "RUNNING"} \cup Terminal
  BY DEF Inv, Typed, Holding
<1>3. ~keepsResult => status[t] \notin Terminal
  BY <1>1 DEF Inv, TaskOK
<1>4. CASE Enter(t)
  BY <1>4, EnterGood
<1>5. CASE Settle(t, "FAILED")
  BY <1>2, <1>3, <1>5, SettleGood DEF Terminal
<1>6. ASSUME NEW i \in k .. Len(Deps[t]), Goto(t, "dep", i), UNCHANGED <<status, permits>>
      PROVE  Good(t)
  <2>1. i \in Nat
    OBVIOUS
  <2>2. status' = [status EXCEPT ![t] = status[t]]
    BY <1>6 DEF Inv, Typed
  <2>3. "dep" \in Phases /\ "dep" \notin Holding
    BY DEF Phases, Holding
  <2>4. t \notin resolved => status[t] \notin Terminal
    BY <1>1, <1>2 DEF Inv, TaskOK
  <2> QED BY <1>1, <1>2, <1>6, <2>1, <2>2, <2>3, <2>4, GotoGood
<1> QED BY <1>4, <1>5, <1>6 DEF Proceed

\* delegate() has ended: only the coroutine's place changes.
LEMMA DelegateEndsGood ==
  ASSUME Inv, NEW t \in Tasks, DelegateEnds(t), keepsResult' = keepsResult
  PROVE  Good(t)
<1>1. /\ phase[t] = "delegating"
      /\ phase' = [phase EXCEPT ![t] = "returned"]
      /\ UNCHANGED <<spawned, status, at, requested, resolved, permits, consumed,
                     received, unfinished, calls>>
  BY DEF DelegateEnds, results
<1>2. Typed'
  BY <1>1 DEF Inv, Typed, Phases
<1>3. Balanced'
  <2>1. /\ permits' \in Nat
        /\ permits' = permits + (IF phase[t] \in Holding THEN 1 ELSE 0)
                              - (IF "returned" \in Holding THEN 1 ELSE 0)
    BY <1>1 DEF Inv, Balanced, Holding
  <2>2. "returned" \in Phases
    BY DEF Phases
  <2> QED BY <1>1, <2>1, <2>2, BalanceStep DEF Inv
<1>4. Frame(t) /\ phase'[t] = "returned" /\ status'[t] = status[t] /\ Known' = Known
  BY <1>1 DEF Inv, Typed, Frame, Known
<1>5. TaskOK(t)'
  BY <1>1, <1>4 DEF Inv, TaskOK
<1> QED BY <1>2, <1>3, <1>4, <1>5 DEF Good, Final

\* A result, its callback or an exception.
LEMMA ResumeGood ==
  ASSUME Inv, NEW t \in Tasks, Resume(t), keepsResult' = keepsResult
  PROVE  Good(t)
<1>1. phase[t] = "returned" /\ (t \in requested => keepsResult)
  BY DEF Resume
<1>2. ~keepsResult => status[t] \notin Terminal
  BY <1>1 DEF Inv, TaskOK
<1>3. ASSUME NEW st \in Terminal, Settle(t, st) PROVE Good(t)
  BY <1>1, <1>2, <1>3, SettleGood
<1>4. ASSUME NEW st \in {"COMPLETED", "FAILED"}, status' = [status EXCEPT ![t] = st],
             Goto(t, "callback", 0), UNCHANGED permits
      PROVE  Good(t)
  <2>1. /\ "callback" \in Phases /\ "callback" \in Holding /\ phase[t] \in Holding
        /\ st \in Terminal
    BY <1>1 DEF Phases, Holding, Terminal
  <2> QED BY <1>1, <1>2, <1>4, <2>1, GotoGood
<1> QED BY <1>3, <1>4 DEF Resume, Terminal

\* CancelledError, whose end cancel() has recorded before.
LEMMA DeliverCancelGood ==
  ASSUME Inv, NEW t \in Tasks, DeliverCancel(t), keepsResult' = keepsResult
  PROVE  Good(t)
<1>1. t \in requested /\ t \in resolved /\ status[t] = "CANCELLED" /\ phase[t] # "none"
  BY DEF DeliverCancel, Inv, TaskOK
<1>2. CASE Settle(t, "CANCELLED")
  BY <1>1, <1>2, SettleGood DEF Terminal
<1>3. CASE /\ phase[t] \in {"created", "sem"} /\ Goto(t, "ended", 0)
           /\ UNCHANGED <<status, permits>>
  <2>1. "ended" \in Phases /\ "ended" \notin Holding /\ phase[t] \notin Holding
    BY <1>3 DEF Phases, Holding
  <2>2. status' = [status EXCEPT ![t] = status[t]] /\ status[t] \in Terminal
    BY <1>1, <1>3 DEF Inv, Typed, Terminal
  <2> QED BY <1>1, <1>3, <2>1, <2>2, GotoGood
<1> QED BY <1>2, <1>3 DEF DeliverCancel

LEMMA BackgroundGood ==
  ASSUME Inv, NEW t \in Tasks, Background(t), keepsResult' = keepsResult
  PROVE  Good(t)
<1>1. CASE Start(t)
  BY <1>1, ProceedGood DEF Start
<1>2. CASE DepDone(t)
  <2>1. at[t] \in Nat
    BY DEF Inv, Typed
  <2> QED BY <1>2, <2>1, ProceedGood DEF DepDone
<1>3. CASE DepTimeout(t) \/ RunTimeout(t)
  <2>1. /\ phase[t] \in {"dep", "delegating"} /\ t \notin requested
        /\ Settle(t, "TIMEOUT")
    BY <1>3 DEF DepTimeout, RunTimeout
  <2>2. ~keepsResult => status[t] \notin Terminal
    BY <2>1 DEF Inv, TaskOK
  <2> QED BY <2>1, <2>2, SettleGood DEF Terminal
<1>4. CASE Acquire(t)
  <2>1. phase[t] = "sem" /\ t \notin resolved /\ Run(t)
    BY <1>4 DEF Acquire, Inv, TaskOK
  <2> QED BY <2>1, RunGood
<1>5. CASE DelegateEnds(t)
  BY <1>5, DelegateEndsGood
<1>6. CASE Resume(t)
  BY <1>6, ResumeGood
<1>7. CASE CallbackEnds(t)
  <2>1. phase[t] = "callback" /\ status[t] \in Terminal /\ Settle(t, status[t])
    BY <1>7 DEF CallbackEnds, Inv, TaskOK
  <2> QED BY <2>1, SettleGood
<1>8. CASE DeliverCancel(t)
  BY <1>8, DeliverCancelGood
<1> QED BY <1>1, <1>2, <1>3, <1>4, <1>5, <1>6, <1>7, <1>8 DEF Background

-----------------------------------------------------------------------------
(* The agent's calls *)

LEMMA SpawnStep ==
  ASSUME Inv, NEW t \in Tasks, Spawn(t), keepsResult' = keepsResult
  PROVE  Inv' /\ \A u \in Tasks : Final(u)
<1>1. /\ t \notin Known /\ spawned' = Append(spawned, t)
      /\ phase' = [phase EXCEPT ![t] = "created"]
      /\ UNCHANGED <<status, at, requested, resolved, permits, consumed, received,
                     unfinished, calls>>
  BY DEF Spawn, results
<1>2. Typed'
  BY <1>1 DEF Inv, Typed, Phases
<1>3. phase[t] = "none"
  BY <1>1 DEF Inv, TaskOK
<1>4. Balanced'
  <2>1. /\ permits' \in Nat
        /\ permits' = permits + (IF phase[t] \in Holding THEN 1 ELSE 0)
                              - (IF "created" \in Holding THEN 1 ELSE 0)
    BY <1>1, <1>3 DEF Inv, Balanced, Holding
  <2>2. "created" \in Phases
    BY DEF Phases
  <2> QED BY <1>1, <2>1, <2>2, BalanceStep DEF Inv
<1>5. Known' = Known \cup {t}
  <2>1. spawned \in Seq(Tasks)
    BY DEF Inv, Typed
  <2>2. /\ DOMAIN spawned' = 1 .. Len(spawned) + 1 /\ DOMAIN spawned = 1 .. Len(spawned)
        /\ \A i \in 1 .. Len(spawned) : spawned'[i] = spawned[i]
        /\ spawned'[Len(spawned) + 1] = t /\ Len(spawned) \in Nat
    BY <1>1, <2>1
  <2> QED BY <2>2 DEF Known
<1>6. ASSUME NEW u \in Tasks PROVE TaskOK(u)' /\ Final(u)
  <2>1. phase'[u] = IF u = t THEN "created" ELSE phase[u]
    BY <1>1 DEF Inv, Typed
  <2> QED BY <1>1, <1>3, <1>5, <2>1 DEF Inv, TaskOK, Final
<1> QED BY <1>2, <1>4, <1>6 DEF Inv

LEMMA CancelGood ==
  ASSUME Inv, NEW t \in Tasks, Cancel(t), keepsResult' = keepsResult
  PROVE  Good(t)
<1>1. /\ t \in Known /\ status[t] \notin Terminal
      /\ status' = [status EXCEPT ![t] = "CANCELLED"]
      /\ requested' = requested \cup {t}
      /\ resolved' = resolved \cup {t} /\ calls' = Woken
      /\ UNCHANGED <<spawned, phase, at, permits, consumed, received, unfinished>>
  BY DEF Cancel, Cancellable, Resolve, results
<1>2. Typed' /\ Known' = Known
  BY <1>1, WokenType DEF Inv, Typed, Terminal, Known
<1>3. Balanced'
  BY <1>1 DEF Inv, Balanced, Holders
<1>4. Frame(t) /\ status'[t] = "CANCELLED"
  BY <1>1 DEF Inv, Typed, Frame
<1>5. phase[t] \notin {"none", "callback", "ended"}
  BY <1>1 DEF Inv, TaskOK
<1>6. TaskOK(t)'
  BY <1>1, <1>2, <1>4, <1>5 DEF Inv, TaskOK, Terminal
<1> QED BY <1>1, <1>2, <1>3, <1>4, <1>6 DEF Good, Final

\* Waiting and collecting leave the tasks alone.
LEMMA ToolStep ==
  ASSUME Inv, NEW c \in Callers, Tool(c), keepsResult' = keepsResult
  PROVE  Inv' /\ \A u \in Tasks : Final(u)
<1>1. UNCHANGED tasks
  BY DEF Tool, Collect, WaitAny, WaitAnyReturns, WaitAll, WaitAllReturns, Abort
<1>2. /\ consumed' \subseteq Tasks /\ received' \subseteq Tasks
      /\ unfinished' \subseteq Tasks /\ calls' \in [Callers -> Call]
  <2>1. Known \subseteq Tasks /\ Fresh \subseteq Tasks
    BY DEF Inv, Typed, Known, Fresh
  <2>2. Idle \in Call /\ \A d \in Callers : calls[d].ids \subseteq Tasks
    BY DEF Idle, Call, Inv, Typed
  <2>3. ASSUME NEW set \in SUBSET Tasks, Receive(c, set)
        PROVE  /\ consumed' \subseteq Tasks /\ received' \subseteq Tasks
               /\ calls' \in [Callers -> Call]
    BY <2>2, <2>3 DEF Receive, Inv, Typed
  <2>4. CASE Collect(c) \/ WaitAnyReturns(c)
    BY <2>1, <2>3, <2>4 DEF Collect, WaitAnyReturns, Inv, Typed
  <2>5. CASE WaitAny(c)
    BY <2>5 DEF WaitAny, results, Inv, Typed, Idle, Call
  <2>6. CASE WaitAll(c)
    <3>1. PICK ids \in (SUBSET Known) \ {{}} :
            \/ Receive(c, ids) /\ UNCHANGED unfinished
            \/ /\ calls' = [calls EXCEPT ![c] = [Idle EXCEPT !.op = "all", !.ids = ids]]
               /\ UNCHANGED results
      BY <2>6 DEF WaitAll
    <3>2. ids \in SUBSET Tasks
      BY <2>1
    <3>3. [Idle EXCEPT !.op = "all", !.ids = ids] \in Call
      BY <3>2 DEF Idle, Call
    <3> QED BY <2>3, <3>1, <3>2, <3>3 DEF results, Inv, Typed
  <2>7. CASE WaitAllReturns(c)
    BY <2>2, <2>3, <2>7 DEF WaitAllReturns, Inv, Typed
  <2>8. CASE Abort(c)
    BY <2>2, <2>8 DEF Abort, results, Inv, Typed
  <2> QED BY <2>4, <2>5, <2>6, <2>7, <2>8 DEF Tool
<1>3. Typed'
  BY <1>1, <1>2 DEF Inv, Typed, tasks
<1>4. Balanced'
  BY <1>1 DEF Inv, Balanced, Holders, tasks
<1>5. ASSUME NEW u \in Tasks PROVE TaskOK(u)' /\ Final(u)
  <2>1. Known' = Known
    BY <1>1 DEF tasks, Known
  <2> QED BY <1>1, <2>1 DEF Inv, TaskOK, Final, tasks
<1> QED BY <1>3, <1>4, <1>5 DEF Inv

-----------------------------------------------------------------------------
LEMMA InitInv == Init => Inv
<1> SUFFICES ASSUME Init PROVE Inv
  OBVIOUS
<1>1. Typed
  BY DEF Init, Typed, Phases, Idle, Call
<1>2. Balanced
  <2>1. Holders = {}
    BY DEF Init, Holders, Holding
  <2> QED BY <2>1, FS_EmptySet, ManagerAssumption DEF Init, Balanced
<1>3. ASSUME NEW t \in Tasks PROVE TaskOK(t)
  BY DEF Init, TaskOK, Known, Terminal
<1> QED BY <1>1, <1>2, <1>3 DEF Inv

LEMMA NextStep ==
  ASSUME Inv, [Next]_vars
  PROVE  Inv' /\ \A u \in Tasks : Final(u)
<1>1. CASE UNCHANGED vars
  <2>1. UNCHANGED <<keepsResult, spawned, status, phase, at, requested, resolved, permits,
                    consumed, received, unfinished, calls>>
    BY <1>1 DEF vars, tasks, results
  <2>2. Known' = Known /\ Holders' = Holders
    BY <2>1 DEF Known, Holders
  <2>3. \A t \in Tasks : TaskOK(t)' /\ Final(t)
    BY <2>1, <2>2 DEF Inv, TaskOK, Final
  <2>4. Typed' /\ Balanced'
    BY <2>1, <2>2 DEF Inv, Typed, Balanced
  <2> QED BY <2>3, <2>4 DEF Inv
<1>2. ASSUME NEW t \in Tasks, Spawn(t), keepsResult' = keepsResult
      PROVE  Inv' /\ \A u \in Tasks : Final(u)
  BY <1>2, SpawnStep
<1>3. ASSUME NEW t \in Tasks, Cancel(t), keepsResult' = keepsResult
      PROVE  Inv' /\ \A u \in Tasks : Final(u)
  BY <1>3, CancelGood, GoodStep
<1>4. ASSUME NEW t \in Tasks, Background(t), keepsResult' = keepsResult
      PROVE  Inv' /\ \A u \in Tasks : Final(u)
  BY <1>4, BackgroundGood, GoodStep
<1>5. ASSUME NEW c \in Callers, Tool(c), keepsResult' = keepsResult
      PROVE  Inv' /\ \A u \in Tasks : Final(u)
  BY <1>5, ToolStep
<1> QED BY <1>1, <1>2, <1>3, <1>4, <1>5 DEF Next

\* The inductive invariant holds throughout.
THEOREM Invariance == Spec => []Inv
<1>1. Init => Inv
  BY InitInv
<1>2. Inv /\ [Next]_vars => Inv'
  BY NextStep
<1> QED BY <1>1, <1>2, PTL DEF Spec

\* Every variable keeps its type; the semaphore never has more permits than
\* max_concurrent.
THEOREM TypeCorrectness == Spec => []TypeOK
<1>1. Inv => TypeOK
  <2> SUFFICES ASSUME Inv PROVE TypeOK
    OBVIOUS
  <2>1. Cardinality(Holders) \in Nat
    BY ManagerAssumption, FS_Subset, FS_CardinalityType DEF Holders
  <2>2. permits \in 0 .. MaxConcurrent
    BY <2>1, ManagerAssumption DEF Inv, Balanced
  <2> QED BY <2>2 DEF Inv, Typed, TypeOK
<1> QED BY <1>1, Invariance, PTL

\* The semaphore leaks no permit: on every path a task gives back what it took.
THEOREM PermitsStayBalanced == Spec => []PermitsBalanced
<1>1. Inv => PermitsBalanced
  BY DEF Inv, Balanced, Holders, PermitsBalanced
<1> QED BY <1>1, Invariance, PTL

\* Whoever waits for a future reads a terminal status, and every coroutine that
\* is gone has left its future done.
THEOREM FuturesTellTheEnd == Spec => []FutureMeansTerminal
<1>1. Inv => FutureMeansTerminal
  BY DEF Inv, TaskOK, FutureMeansTerminal
<1> QED BY <1>1, Invariance, PTL

\* From Python 3.12 on a terminal status never changes.
THEOREM TerminalStatusIsFinal == Spec => StatusFinal
<1>1. Inv /\ [Next]_vars =>
        [~keepsResult => \A t \in Tasks :
           status[t] \in Terminal => status'[t] = status[t]]_vars
  BY NextStep DEF Final
<1> QED BY <1>1, Invariance, PTL DEF Spec, StatusFinal

-----------------------------------------------------------------------------
(* What the agent is given *)

\* Nothing is consumed and lost, and no waiter sleeps through an end.
Handed ==
  /\ consumed \ unfinished \subseteq received
  /\ \A c \in Callers : calls[c].op = "any" /\ ~calls[c].woken => resolved \subseteq consumed

\* The tasks move without touching what was handed out, and wake the waiters
\* when they resolve a future.
LEMMA TasksHandNothing ==
  ASSUME NEW t \in Tasks, Spawn(t) \/ Cancel(t) \/ Background(t)
  PROVE  /\ UNCHANGED results
         /\ calls' = Woken \/ UNCHANGED <<resolved, calls>>
<1>1. CASE Spawn(t)
  BY <1>1 DEF Spawn
<1>2. CASE Cancel(t)
  BY <1>2 DEF Cancel, Resolve
<1>3. ASSUME NEW st, Settle(t, st)
      PROVE  UNCHANGED results /\ calls' = Woken
  BY <1>3 DEF Settle, Resolve
<1>4. ASSUME NEW p, NEW i, Goto(t, p, i)
      PROVE  UNCHANGED results /\ UNCHANGED <<resolved, calls>>
  BY <1>4 DEF Goto
<1>5. CASE Enter(t)
  BY <1>3, <1>4, <1>5 DEF Enter, Run
<1>6. ASSUME NEW k, Proceed(t, k)
      PROVE  Enter(t) \/ Settle(t, "FAILED") \/ \E i \in k .. Len(Deps[t]) : Goto(t, "dep", i)
  BY <1>6 DEF Proceed
<1>7. CASE Start(t) \/ DepDone(t)
  BY <1>3, <1>4, <1>5, <1>6, <1>7 DEF Start, DepDone
<1>8. CASE DepTimeout(t) \/ RunTimeout(t) \/ CallbackEnds(t)
  BY <1>3, <1>8 DEF DepTimeout, RunTimeout, CallbackEnds
<1>9. CASE Acquire(t)
  BY <1>4, <1>9 DEF Acquire, Run
<1>10. CASE DelegateEnds(t)
  BY <1>10 DEF DelegateEnds
<1>11. CASE Resume(t)
  BY <1>3, <1>4, <1>11 DEF Resume
<1>12. CASE DeliverCancel(t)
  BY <1>3, <1>4, <1>12 DEF DeliverCancel
<1> QED BY <1>1, <1>2, <1>7, <1>8, <1>9, <1>10, <1>11, <1>12 DEF Background

\* What is consumed anew was terminal, or is in unfinished; and a waiter goes
\* to sleep only when nothing is left to collect.
LEMMA ToolHands ==
  ASSUME Inv, Handed, NEW c \in Callers, Tool(c)
  PROVE  Handed'
<1>1. UNCHANGED tasks
  BY DEF Tool, Collect, WaitAny, WaitAnyReturns, WaitAll, WaitAllReturns, Abort
<1>2. resolved' = resolved /\ resolved \subseteq Known /\ Known \subseteq Tasks
  BY <1>1 DEF tasks, Inv, TaskOK, Typed, Known
<1>3. \A t \in resolved : status[t] \in Terminal
  BY DEF Inv, Typed, TaskOK
<1>4. Idle.op = "idle" /\ calls \in [Callers -> Call]
  BY DEF Idle, Inv, Typed
<1>5. ASSUME NEW set, Receive(c, set), unfinished \subseteq unfinished',
             \A t \in set \ unfinished' : status[t] \in Terminal
      PROVE  Handed'
  BY <1>2, <1>4, <1>5 DEF Receive, Handed
<1>6. CASE Collect(c) \/ WaitAnyReturns(c)
  BY <1>5, <1>6 DEF Collect, WaitAnyReturns, Fresh
<1>7. CASE WaitAny(c)
  <2>1. resolved \subseteq consumed
    BY <1>2, <1>3, <1>7 DEF WaitAny, Fresh
  <2> QED BY <1>2, <1>4, <1>7, <2>1 DEF WaitAny, results, Handed
<1>8. CASE WaitAll(c)
  <2>1. PICK ids \in (SUBSET Known) \ {{}} :
          IF ids \subseteq resolved
          THEN Receive(c, ids) /\ UNCHANGED unfinished
          ELSE /\ calls' = [calls EXCEPT ![c] = [Idle EXCEPT !.op = "all", !.ids = ids]]
               /\ UNCHANGED results
    BY <1>8 DEF WaitAll
  <2>2. CASE ids \subseteq resolved
    BY <1>3, <1>5, <2>1, <2>2
  <2>3. CASE ~(ids \subseteq resolved)
    <3>1. calls'[c].op = "all" /\ \A d \in Callers \ {c} : calls'[d] = calls[d]
      BY <1>4, <2>1, <2>3 DEF Idle
    <3> QED BY <1>2, <2>1, <2>3, <3>1 DEF results, Handed
  <2> QED BY <2>2, <2>3
<1>9. CASE WaitAllReturns(c)
  BY <1>3, <1>5, <1>9 DEF WaitAllReturns
<1>10. CASE Abort(c)
  BY <1>2, <1>4, <1>10 DEF Abort, results, Handed
<1> QED BY <1>6, <1>7, <1>8, <1>9, <1>10 DEF Tool

LEMMA HandedStep ==
  ASSUME Inv, Handed, [Next]_vars
  PROVE  Handed'
<1>1. CASE UNCHANGED vars
  BY <1>1 DEF vars, tasks, results, Handed
<1>2. ASSUME NEW t \in Tasks, Spawn(t) \/ Cancel(t) \/ Background(t)
      PROVE  Handed'
  <2>1. UNCHANGED results
    BY <1>2, TasksHandNothing
  <2>2. CASE calls' = Woken
    <3>1. \A c \in Callers : calls'[c].op = "any" => calls'[c].woken
      BY <2>2 DEF Woken, Inv, Typed, Call
    <3> QED BY <2>1, <3>1 DEF results, Handed
  <2>3. CASE UNCHANGED <<resolved, calls>>
    BY <2>1, <2>3 DEF results, Handed
  <2> QED BY <1>2, <2>2, <2>3, TasksHandNothing
<1> QED BY <1>1, <1>2, ToolHands DEF Next

THEOREM HandedInvariance == Spec => []Handed
<1>1. Init => Handed
  BY DEF Init, Handed, Idle
<1> QED BY <1>1, HandedStep, Invariance, PTL DEF Spec

\* No end is marked consumed without being handed to the agent, a wait_all that
\* timed out apart, whatever calls overlap.
THEOREM EndsAreReceived == Spec => []EndIsReceived
<1>1. Handed => EndIsReceived
  BY DEF Handed, EndIsReceived
<1> QED BY <1>1, HandedInvariance, PTL

\* A wait_any asleep has missed nothing.
THEOREM WaitersMissNothing == Spec => []NoMissedWakeup
<1>1. Handed => NoMissedWakeup
  BY DEF Handed, NoMissedWakeup
<1> QED BY <1>1, HandedInvariance, PTL

-----------------------------------------------------------------------------
(* Dependencies *)

\* The tasks spawned before t.
Earlier(t) == {spawned[i] : i \in {i \in DOMAIN spawned :
                 \E j \in DOMAIN spawned : i < j /\ spawned[j] = t}}

Met(t, k) == Deps[t][k] \in Earlier(t) => status[Deps[t][k]] = "COMPLETED"

\* The dependencies before the one t waits for have been met; a task that has
\* COMPLETED does nothing more than end.
Served(t) ==
  /\ phase[t] \in Holding \cup {"sem"} => \A k \in DOMAIN Deps[t] : Met(t, k)
  /\ phase[t] = "dep" => \A k \in DOMAIN Deps[t] : k < at[t] => Met(t, k)
  /\ status[t] = "COMPLETED" => phase[t] \in {"callback", "ended"}

AllServed == \A t \in Tasks : Served(t)

Kept(t) == status[t] = "COMPLETED" => status'[t] = "COMPLETED"

LEMMA EarlierKnown ==
  ASSUME Inv, NEW t \in Tasks
  PROVE  Earlier(t) \subseteq Known /\ Known \subseteq Tasks
BY DEF Earlier, Known, Inv, Typed

LEMMA DepsTyped ==
  ASSUME NEW t \in Tasks
  PROVE  /\ DOMAIN Deps[t] = 1 .. Len(Deps[t]) /\ Len(Deps[t]) \in Nat
         /\ \A k \in DOMAIN Deps[t] : k \in Nat /\ Deps[t][k] \in Tasks
<1>1. Deps[t] \in Seq(Tasks)
  BY ManagerAssumption
<1> QED BY <1>1

\* What has been met stays met.
LEMMA MetKept ==
  ASSUME NEW t \in Tasks, NEW k \in DOMAIN Deps[t], Met(t, k),
         \A u \in Tasks : Kept(u), Earlier(t)' = Earlier(t)
  PROVE  Met(t, k)'
BY DepsTyped DEF Met, Kept

\* A step of the coroutine of t, as the others and its own dependencies see it.
Serves(t) == /\ \A u \in Tasks \ {t} : at'[u] = at[u]
             /\ Kept(t) /\ Served(t)'

LEMMA ServeStep ==
  ASSUME Inv, AllServed, NEW t \in Tasks, Frame(t), Serves(t)
  PROVE  AllServed'
<1>1. \A u \in Tasks : Kept(u) /\ Earlier(u)' = Earlier(u)
  BY DEF Frame, Serves, Kept, Earlier
<1>2. ASSUME NEW u \in Tasks, u # t PROVE Served(u)'
  <2>1. phase'[u] = phase[u] /\ at'[u] = at[u] /\ status'[u] = status[u] /\ Served(u)
    BY <1>2 DEF Frame, Serves, AllServed
  <2>2. \A k \in DOMAIN Deps[u] : Met(u, k) => Met(u, k)'
    BY <1>1, MetKept
  <2> QED BY <2>1, <2>2 DEF Served
<1> QED BY <1>2 DEF Serves, AllServed

\* A coroutine that ends.
LEMMA SettleServes ==
  ASSUME Inv, AllServed, NEW t \in Tasks, NEW st, Settle(t, st),
         status[t] = "COMPLETED" => st = "COMPLETED"
  PROVE  Serves(t)
<1>1. /\ status'[t] = st /\ phase'[t] = "ended"
      /\ \A u \in Tasks \ {t} : at'[u] = at[u]
  BY DEF Settle, Inv, Typed
<1> QED BY <1>1 DEF Serves, Kept, Served, Holding

\* A coroutine that goes on to p, having met what p asks for.
LEMMA GotoServes ==
  ASSUME Inv, AllServed, NEW t \in Tasks, NEW p \in Phases, NEW i \in Nat, Goto(t, p, i),
         NEW st, status' = [status EXCEPT ![t] = st],
         status[t] # "COMPLETED", st = "COMPLETED" => p = "callback",
         p \in Holding \cup {"sem"} => \A k \in DOMAIN Deps[t] : Met(t, k),
         p = "dep" => \A k \in DOMAIN Deps[t] : k < i => Met(t, k)
  PROVE  Serves(t)
<1>1. /\ status'[t] = st /\ phase'[t] = p /\ at'[t] = i
      /\ \A u \in Tasks \ {t} : at'[u] = at[u] /\ status'[u] = status[u]
      /\ spawned' = spawned
  BY DEF Goto, Inv, Typed
<1>2. \A u \in Tasks : Kept(u)
  BY <1>1 DEF Kept
<1>3. \A k \in DOMAIN Deps[t] : Met(t, k) => Met(t, k)'
  BY <1>1, <1>2, MetKept DEF Earlier
<1> QED BY <1>1, <1>2, <1>3 DEF Serves, Served

\* The way to the semaphore, with every dependency met.
LEMMA EnterServes ==
  ASSUME Inv, AllServed, NEW t \in Tasks, Enter(t), status[t] # "COMPLETED",
         \A k \in DOMAIN Deps[t] : Met(t, k)
  PROVE  Serves(t)
<1>1. CASE Settle(t, "CANCELLED")
  BY <1>1, SettleServes
<1>2. CASE Run(t)
  BY <1>2, GotoServes DEF Run, Phases
<1>3. CASE Goto(t, "sem", 0) /\ UNCHANGED <<status, permits>>
  <2>1. status' = [status EXCEPT ![t] = status[t]]
    BY <1>3 DEF Inv, Typed
  <2> QED BY <1>3, <2>1, GotoServes DEF Phases
<1> QED BY <1>1, <1>2, <1>3 DEF Enter

\* The loop over the dependencies meets those it goes past.
LEMMA ProceedServes ==
  ASSUME Inv, AllServed, NEW t \in Tasks, NEW k \in Nat, Proceed(t, k),
         status[t] # "COMPLETED", \A h \in DOMAIN Deps[t] : h < k => Met(t, h)
  PROVE  Serves(t)
<1>1. \A h \in DOMAIN Deps[t] : h \in Nat /\ (~HoldsUp(Deps[t][h]) => Met(t, h))
  BY EarlierKnown, DepsTyped DEF HoldsUp, Met
<1>2. CASE {i \in k .. Len(Deps[t]) : HoldsUp(Deps[t][i])} = {} /\ Enter(t)
  <2>1. \A h \in DOMAIN Deps[t] : Met(t, h)
    BY <1>1, <1>2, DepsTyped
  <2> QED BY <1>2, <2>1, EnterServes
<1>3. ASSUME NEW i \in k .. Len(Deps[t]),
             \A h \in {h \in k .. Len(Deps[t]) : HoldsUp(Deps[t][h])} : i <= h,
             Settle(t, "FAILED") \/ (Goto(t, "dep", i) /\ UNCHANGED <<status, permits>>)
      PROVE  Serves(t)
  <2>1. CASE Settle(t, "FAILED")
    BY <2>1, SettleServes
  <2>2. CASE Goto(t, "dep", i) /\ UNCHANGED <<status, permits>>
    <3>1. \A h \in DOMAIN Deps[t] : h < i => Met(t, h)
      BY <1>1, <1>3, DepsTyped
    <3>2. status' = [status EXCEPT ![t] = status[t]]
      BY <2>2 DEF Inv, Typed
    <3>3. i \in Nat /\ "dep" \in Phases /\ "dep" \notin Holding \cup {"sem"}
      BY DEF Phases, Holding
    <3> HIDE DEF Phases, Holding
    <3> QED BY <2>2, <3>1, <3>2, <3>3, GotoServes
  <2> QED BY <1>3, <2>1, <2>2
<1> QED BY <1>2, <1>3 DEF Proceed

LEMMA BackgroundServes ==
  ASSUME Inv, AllServed, NEW t \in Tasks, Background(t)
  PROVE  Serves(t)
<1>1. Served(t)
  BY DEF AllServed
<1>2. CASE Start(t)
  <2>1. status[t] # "COMPLETED" /\ \A h \in DOMAIN Deps[t] : ~(h < 1)
    BY <1>1, <1>2, DepsTyped DEF Start, Served
  <2> QED BY <1>2, <2>1, ProceedServes DEF Start
<1>3. CASE DepDone(t)
  <2>1. /\ status[t] # "COMPLETED" /\ at[t] \in Nat
        /\ \A h \in DOMAIN Deps[t] : h < at[t] => Met(t, h)
    BY <1>1, <1>3 DEF DepDone, Served, Inv, Typed
  <2> QED BY <1>3, <2>1, ProceedServes DEF DepDone
<1>4. CASE DepTimeout(t) \/ RunTimeout(t)
  BY <1>1, <1>4, SettleServes DEF DepTimeout, RunTimeout, Served
<1>5. CASE Acquire(t)
  BY <1>1, <1>5, GotoServes DEF Acquire, Run, Served, Phases
<1>6. CASE DelegateEnds(t)
  <2>1. /\ phase[t] = "delegating" /\ phase'[t] = "returned"
        /\ UNCHANGED <<spawned, status, at>>
    BY <1>6 DEF DelegateEnds, Inv, Typed
  <2>2. \A k \in DOMAIN Deps[t] : Met(t, k)'
    BY <1>1, <2>1 DEF Served, Holding, Met, Earlier
  <2> QED BY <1>1, <2>1, <2>2 DEF Serves, Served, Kept
<1>7. CASE Resume(t)
  <2>1. phase[t] = "returned" /\ status[t] # "COMPLETED" /\ \A k \in DOMAIN Deps[t] : Met(t, k)
    BY <1>1, <1>7 DEF Resume, Served, Holding
  <2>2. ASSUME NEW st, Settle(t, st) PROVE Serves(t)
    BY <2>1, <2>2, SettleServes
  <2>3. ASSUME NEW st, status' = [status EXCEPT ![t] = st], Goto(t, "callback", 0)
        PROVE  Serves(t)
    BY <2>1, <2>3, GotoServes DEF Phases
  <2> QED BY <1>7, <2>2, <2>3 DEF Resume
<1>8. CASE CallbackEnds(t)
  BY <1>8, SettleServes DEF CallbackEnds
<1>9. CASE DeliverCancel(t)
  <2>1. status[t] = "CANCELLED"
    BY <1>9 DEF DeliverCancel, Inv, TaskOK
  <2>2. CASE Settle(t, "CANCELLED")
    BY <2>1, <2>2, SettleServes
  <2>3. CASE Goto(t, "ended", 0) /\ UNCHANGED <<status, permits>>
    <3>1. status' = [status EXCEPT ![t] = status[t]]
      BY <2>3 DEF Inv, Typed
    <3> QED BY <2>1, <2>3, <3>1, GotoServes DEF Phases, Holding
  <2> QED BY <1>9, <2>2, <2>3 DEF DeliverCancel
<1> QED BY <1>2, <1>3, <1>4, <1>5, <1>6, <1>7, <1>8, <1>9 DEF Background

\* A new task is not waiting yet, and comes after all the others.
LEMMA SpawnServed ==
  ASSUME Inv, AllServed, NEW t \in Tasks, Spawn(t)
  PROVE  AllServed'
<1>1. /\ t \notin Known /\ spawned' = Append(spawned, t) /\ UNCHANGED <<status, at>>
      /\ phase'[t] = "created" /\ \A u \in Tasks \ {t} : phase'[u] = phase[u]
  BY DEF Spawn, Inv, Typed
<1>2. ASSUME NEW u \in Tasks, u # t PROVE Earlier(u)' = Earlier(u)
  <2>1. spawned \in Seq(Tasks)
    BY DEF Inv, Typed
  <2>2. /\ DOMAIN spawned' = 1 .. Len(spawned) + 1 /\ DOMAIN spawned = 1 .. Len(spawned)
        /\ \A i \in 1 .. Len(spawned) : spawned'[i] = spawned[i]
        /\ spawned'[Len(spawned) + 1] = t /\ Len(spawned) \in Nat
    BY <1>1, <2>1
  <2> QED BY <1>2, <2>2 DEF Earlier
<1>3. ASSUME NEW u \in Tasks, u # t PROVE Served(u)'
  <2>1. \A k \in DOMAIN Deps[u] : Met(u, k) => Met(u, k)'
    BY <1>1, <1>2, <1>3 DEF Met
  <2> QED BY <1>1, <1>3, <2>1 DEF AllServed, Served
<1>4. Served(t)'
  <2>1. status[t] # "COMPLETED"
    <3>1. phase[t] = "none"
      BY <1>1 DEF Inv, TaskOK
    <3> QED BY <3>1 DEF AllServed, Served
  <2> QED BY <1>1, <2>1 DEF Served, Holding
<1> QED BY <1>3, <1>4 DEF AllServed

LEMMA AllServedStep ==
  ASSUME Inv, AllServed, [Next]_vars
  PROVE  AllServed'
<1>1. ASSUME UNCHANGED <<spawned, status, phase, at>> PROVE AllServed'
  BY <1>1 DEF AllServed, Served, Met, Earlier
<1>2. CASE UNCHANGED vars
  BY <1>1, <1>2 DEF vars, tasks
<1>3. ASSUME NEW t \in Tasks, Spawn(t) PROVE AllServed'
  BY <1>3, SpawnServed
<1>4. ASSUME NEW t \in Tasks, Cancel(t), keepsResult' = keepsResult PROVE AllServed'
  <2>1. Frame(t)
    BY <1>4, CancelGood DEF Good
  <2>2. /\ status[t] # "COMPLETED" /\ status'[t] = "CANCELLED"
        /\ phase' = phase /\ at' = at /\ spawned' = spawned
    BY <1>4 DEF Cancel, Cancellable, Terminal, Inv, Typed
  <2>3. \A u \in Tasks : Kept(u)
    BY <2>1, <2>2 DEF Frame, Kept
  <2>4. \A k \in DOMAIN Deps[t] : Met(t, k) => Met(t, k)'
    BY <2>2, <2>3, MetKept DEF Earlier
  <2>5. Served(t)'
    BY <2>2, <2>4 DEF AllServed, Served
  <2> QED BY <2>1, <2>2, <2>3, <2>5, ServeStep DEF Serves
<1>5. ASSUME NEW t \in Tasks, Background(t), keepsResult' = keepsResult PROVE AllServed'
  BY <1>5, BackgroundGood, BackgroundServes, ServeStep DEF Good
<1>6. ASSUME NEW c \in Callers, Tool(c) PROVE AllServed'
  <2>1. UNCHANGED tasks
    BY <1>6 DEF Tool, Collect, WaitAny, WaitAnyReturns, WaitAll, WaitAllReturns, Abort
  <2> QED BY <1>1, <2>1 DEF tasks
<1> QED BY <1>2, <1>3, <1>4, <1>5, <1>6 DEF Next

\* No task comes to the semaphore before what it depends on has completed, and
\* nothing undoes a completed dependency.
THEOREM DependenciesAreHonoured == Spec => []DepsHonoured
<1>1. Init => AllServed
  BY DEF Init, AllServed, Served, Holding
<1>2. AllServed => DepsHonoured
  <2> SUFFICES ASSUME AllServed, NEW t \in Tasks, phase[t] \in Holding \cup {"sem"},
                      NEW i \in DOMAIN spawned, NEW j \in DOMAIN spawned,
                      i < j, spawned[j] = t, NEW k \in DOMAIN Deps[t], Deps[t][k] = spawned[i]
               PROVE  status[spawned[i]] = "COMPLETED"
    BY DEF DepsHonoured
  <2>1. spawned[i] \in Earlier(t)
    BY DEF Earlier
  <2>2. Met(t, k)
    BY DEF AllServed, Served
  <2> QED BY <2>1, <2>2 DEF Met
<1> QED BY <1>1, <1>2, AllServedStep, Invariance, PTL DEF Spec

-----------------------------------------------------------------------------
(***************************************************************************)
(* The manager implements TaskExecutor, on both versions of wait_for.  A   *)
(* step of a coroutine is quiet, concludes its task, or takes a permit.    *)
(***************************************************************************)

\* A step that shows nothing: no end, no announcement, no work begun or over.
LEMMA QuietMaps ==
  ASSUME NEW t \in Tasks, Frame(t), UNCHANGED <<resolved, received>>,
         status'[t] = status[t], phase'[t] \in Holding <=> phase[t] \in Holding
  PROVE  UNCHANGED Executor!xvars
<1>1. EndOf' = EndOf /\ WorkingOf' = WorkingOf
  BY DEF Frame, EndOf, WorkingOf
<1> QED BY <1>1 DEF Frame, Executor!xvars

\* A step that gives t the end st, or announces it, or leaves the work.
LEMMA ConcludeMaps ==
  ASSUME Inv, Typed', NEW t \in Tasks, Frame(t), UNCHANGED received, phase[t] # "none",
         NEW st \in Terminal, status'[t] = st,
         st = "COMPLETED" => phase[t] \in Holding,
         status[t] \in Terminal => st = status[t] \/ (keepsResult /\ status[t] = "CANCELLED"),
         t \in resolved => t \in resolved',
         phase'[t] \in Holding => phase[t] \in Holding,
         phase[t] \in Holding => phase'[t] \in Holding \/ t \in resolved'
  PROVE  Executor!Conclude(t, st)
<1>1. t \in Executor!Accepted
  BY DEF Inv, TaskOK, Known, Executor!Accepted
<1>2. EndOf[t] \in {"OPEN", st} \/ (keepsResult /\ EndOf[t] = "CANCELLED")
  BY DEF EndOf
<1>3. EndOf' = [EndOf EXCEPT ![t] = st]
  BY DEF EndOf, Frame
<1>4. resolved' \in {resolved, resolved \cup {t}}
  <2>1. \A u : u \in resolved' \/ u \in resolved => u \in Tasks
    BY DEF Inv, Typed
  <2>2. CASE t \in resolved'
    <3>1. resolved' = resolved \cup {t}
      BY <2>1, <2>2 DEF Frame
    <3> QED BY <3>1
  <2>3. CASE t \notin resolved'
    <3>1. resolved' = resolved
      BY <2>1, <2>3 DEF Frame
    <3> QED BY <3>1
  <2> QED BY <2>2, <2>3
<1>5. WorkingOf' = IF phase'[t] \in Holding THEN WorkingOf ELSE WorkingOf \ {t}
  BY DEF WorkingOf, Frame
<1>6. t \in WorkingOf <=> phase[t] \in Holding
  BY DEF WorkingOf
<1>7. t \in WorkingOf \ WorkingOf' => t \in resolved'
  BY <1>5, <1>6
<1>8. st = "COMPLETED" => t \in WorkingOf
  BY <1>6
<1> QED BY <1>1, <1>2, <1>3, <1>4, <1>5, <1>7, <1>8 DEF Frame, Executor!Conclude, Executor!Open

\* A coroutine that ends.
LEMMA SettleMaps ==
  ASSUME NEW t \in Tasks, Inv, Good(t), NEW st \in Terminal, Settle(t, st), phase[t] # "none",
         st = "COMPLETED" => phase[t] \in Holding,
         status[t] \in Terminal => st = status[t] \/ (keepsResult /\ status[t] = "CANCELLED")
  PROVE  Executor!Conclude(t, st)
<1>1. /\ status'[t] = st /\ phase'[t] = "ended" /\ t \in resolved' /\ UNCHANGED received
  BY DEF Settle, Resolve, results, Inv, Typed
<1> QED BY <1>1, ConcludeMaps DEF Good, Holding

\* Taking a permit begins the work: there is room, and every dependency is met.
LEMMA RunMaps ==
  ASSUME NEW t \in Tasks, Inv, AllServed', Good(t), Run(t), t \notin resolved,
         phase[t] \in {"created", "dep", "sem"}
  PROVE  Executor!Begin(t)
<1>1. /\ status'[t] = "RUNNING" /\ phase'[t] = "delegating" /\ UNCHANGED <<resolved, received>>
      /\ permits > 0
  BY DEF Run, Goto, SlotFree, results, Inv, Typed
<1>2. t \in Executor!Accepted
  BY DEF Inv, TaskOK, Known, Executor!Accepted
<1>3. t \notin WorkingOf /\ status[t] \notin Terminal
  BY DEF WorkingOf, Holding, Inv, TaskOK
<1>4. EndOf[t] = "OPEN" /\ EndOf' = EndOf
  BY <1>1, <1>3 DEF EndOf, Frame, Good, Terminal
<1>5. WorkingOf' = WorkingOf \cup {t}
  BY <1>1 DEF WorkingOf, Holding, Frame, Good
<1>6. Executor!Cardinality(WorkingOf) < MaxConcurrent
  <2>1. WorkingOf = Holders
    BY DEF WorkingOf, Holders
  <2>2. Cardinality(Holders) \in Nat
    BY ManagerAssumption, FS_Subset, FS_CardinalityType DEF Holders
  <2>3. Executor!Cardinality(WorkingOf) = Cardinality(WorkingOf)
    BY DEF Executor!Cardinality, Cardinality
  <2> QED BY <1>1, <2>1, <2>2, <2>3, ManagerAssumption DEF Inv, Balanced
<1>7. Executor!Ready(t)
  <2> SUFFICES ASSUME NEW i \in DOMAIN spawned, NEW j \in DOMAIN spawned, i < j,
                      spawned[j] = t, NEW k \in DOMAIN Deps[t], Deps[t][k] = spawned[i]
               PROVE  EndOf[spawned[i]] = "COMPLETED"
    BY DEF Executor!Ready
  <2>1. Met(t, k)' /\ spawned' = spawned
    BY <1>1 DEF AllServed, Served, Holding, Good, Frame
  <2>2. spawned[i] \in Earlier(t)'
    BY <2>1 DEF Earlier
  <2>3. status'[spawned[i]] = "COMPLETED"
    BY <2>1, <2>2 DEF Met
  <2>4. spawned[i] \in Tasks
    BY DEF Inv, Typed
  <2>5. EndOf'[spawned[i]] = "COMPLETED"
    BY <2>3, <2>4 DEF EndOf, Terminal
  <2> QED BY <1>4, <2>5
<1> QED BY <1>1, <1>2, <1>3, <1>4, <1>5, <1>6, <1>7 DEF Good, Frame, Executor!Begin, Executor!Open

\* The loop over the dependencies: it stops at one, fails with one, or comes
\* to the semaphore.
LEMMA ProceedMaps ==
  ASSUME NEW t \in Tasks, Inv, AllServed', Good(t), NEW k \in Nat, Proceed(t, k),
         \/ phase[t] = "created" /\ t \notin requested
         \/ phase[t] = "dep" /\ (t \in requested => keepsResult)
  PROVE  \/ UNCHANGED Executor!xvars \/ Executor!Begin(t)
         \/ \E e \in Terminal : Executor!Conclude(t, e)
<1>1. /\ t \notin resolved \/ (keepsResult /\ status[t] = "CANCELLED")
      /\ phase[t] # "none" /\ phase[t] \notin Holding
      /\ status[t] \in Terminal => t \in resolved
  BY DEF Inv, TaskOK, Holding
<1>2. ASSUME NEW st \in {"CANCELLED", "FAILED"}, Settle(t, st)
      PROVE  Executor!Conclude(t, st)
  BY <1>1, <1>2, SettleMaps DEF Terminal
<1>3. ASSUME status[t] # "CANCELLED", Run(t)
      PROVE  Executor!Begin(t)
  BY <1>1, <1>3, RunMaps
<1>4. ASSUME NEW p \in {"sem", "dep"}, NEW i, Goto(t, p, i), UNCHANGED status
      PROVE  UNCHANGED Executor!xvars
  <2>1. phase'[t] = p /\ UNCHANGED <<resolved, received>>
    BY <1>4 DEF Goto, results, Inv, Typed
  <2> QED BY <1>1, <1>4, <2>1, QuietMaps DEF Good, Holding
<1> QED BY <1>2, <1>3, <1>4 DEF Proceed, Enter, Terminal

LEMMA BackgroundMaps ==
  ASSUME Inv, AllServed', NEW t \in Tasks, Background(t), keepsResult' = keepsResult
  PROVE  \/ UNCHANGED Executor!xvars \/ Executor!Begin(t)
         \/ \E e \in Terminal : Executor!Conclude(t, e)
<1>1. Good(t)
  BY BackgroundGood
<1>2. CASE Start(t)
  BY <1>1, <1>2, ProceedMaps DEF Start
<1>3. CASE DepDone(t)
  <2>1. at[t] \in Nat
    BY DEF Inv, Typed
  <2> QED BY <1>1, <1>3, <2>1, ProceedMaps DEF DepDone
<1>4. CASE DepTimeout(t) \/ RunTimeout(t)
  <2>1. /\ phase[t] \in {"dep", "delegating"} /\ t \notin requested /\ Settle(t, "TIMEOUT")
    BY <1>4 DEF DepTimeout, RunTimeout
  <2>2. status[t] \in Terminal => keepsResult /\ status[t] = "CANCELLED"
    BY <2>1 DEF Inv, TaskOK
  <2> QED BY <1>1, <2>1, <2>2, SettleMaps DEF Terminal
<1>5. CASE Acquire(t)
  <2>1. phase[t] = "sem" /\ t \notin resolved /\ Run(t)
    BY <1>5 DEF Acquire, Inv, TaskOK
  <2> QED BY <1>1, <2>1, RunMaps
<1>6. CASE DelegateEnds(t)
  <2>1. /\ phase[t] = "delegating" /\ phase'[t] = "returned"
        /\ UNCHANGED <<status, resolved, received>>
    BY <1>6 DEF DelegateEnds, results, Inv, Typed
  <2> QED BY <1>1, <2>1, QuietMaps DEF Good, Holding
<1>7. CASE Resume(t)
  <2>1. /\ phase[t] = "returned" /\ phase[t] \in Holding
        /\ status[t] \in Terminal => keepsResult /\ status[t] = "CANCELLED"
    BY <1>7 DEF Resume, Holding, Inv, TaskOK
  <2>2. ASSUME NEW st \in Terminal, Settle(t, st)
        PROVE  Executor!Conclude(t, st)
    BY <1>1, <2>1, <2>2, SettleMaps
  <2>3. ASSUME NEW st \in Terminal, status' = [status EXCEPT ![t] = st], Goto(t, "callback", 0)
        PROVE  Executor!Conclude(t, st)
    <3>1. /\ status'[t] = st /\ phase'[t] = "callback" /\ UNCHANGED <<resolved, received>>
      BY <2>3 DEF Goto, results, Inv, Typed
    <3> QED BY <1>1, <2>1, <3>1, ConcludeMaps DEF Good, Holding
  <2>4. {"COMPLETED", "FAILED", "CANCELLED"} \subseteq Terminal
    BY DEF Terminal
  <2> QED BY <1>7, <2>2, <2>3, <2>4 DEF Resume
<1>8. CASE CallbackEnds(t)
  <2>1. phase[t] = "callback" /\ status[t] \in Terminal /\ Settle(t, status[t])
    BY <1>8 DEF CallbackEnds, Inv, TaskOK
  <2> QED BY <1>1, <2>1, SettleMaps DEF Holding
<1>9. CASE DeliverCancel(t)
  <2>1. /\ status[t] = "CANCELLED" /\ phase[t] # "none" /\ "CANCELLED" \in Terminal
    BY <1>9 DEF DeliverCancel, Inv, TaskOK, Terminal
  <2>2. CASE Settle(t, "CANCELLED")
    BY <1>1, <2>1, <2>2, SettleMaps
  <2>3. CASE /\ phase[t] \in {"created", "sem"} /\ Goto(t, "ended", 0)
             /\ UNCHANGED <<status, permits>>
    <3>1. phase'[t] = "ended" /\ UNCHANGED <<resolved, received>>
      BY <2>3 DEF Goto, results, Inv, Typed
    <3> QED BY <1>1, <2>3, <3>1, QuietMaps DEF Good, Holding
  <2> QED BY <1>9, <2>1, <2>2, <2>3 DEF DeliverCancel
<1> QED BY <1>2, <1>3, <1>4, <1>5, <1>6, <1>7, <1>8, <1>9 DEF Background

\* cancel() gives a task its end, which the coroutine learns of later.
LEMMA CancelMaps ==
  ASSUME Inv, NEW t \in Tasks, Cancel(t), keepsResult' = keepsResult
  PROVE  Executor!Conclude(t, "CANCELLED")
<1>1. Good(t) /\ "CANCELLED" \in Terminal
  BY CancelGood DEF Terminal
<1>2. /\ status'[t] = "CANCELLED" /\ UNCHANGED <<phase, received>> /\ t \in resolved'
      /\ status[t] \notin Terminal
  BY DEF Cancel, Cancellable, Resolve, results, Inv, Typed
<1>3. phase[t] # "none"
  BY DEF Cancel, Cancellable, Inv, TaskOK
<1> QED BY <1>1, <1>2, <1>3, ConcludeMaps DEF Good

LEMMA SpawnMaps ==
  ASSUME Inv, NEW t \in Tasks, Spawn(t)
  PROVE  Executor!Accept(t)
<1>1. /\ t \notin Known /\ spawned' = Append(spawned, t)
      /\ phase' = [phase EXCEPT ![t] = "created"] /\ UNCHANGED <<status, resolved, received>>
  BY DEF Spawn, results
<1>2. phase[t] = "none"
  BY <1>1 DEF Inv, TaskOK
<1>3. EndOf' = EndOf /\ WorkingOf' = WorkingOf
  BY <1>1, <1>2 DEF EndOf, WorkingOf, Holding, Inv, Typed
<1> QED BY <1>1, <1>3 DEF Executor!Accept, Executor!Accepted, Known

\* A call gives the agent ends, or nothing.
LEMMA ToolMaps ==
  ASSUME Inv, NEW c \in Callers, Tool(c)
  PROVE  \E some \in SUBSET Tasks : Executor!Tell(some)
<1>1. UNCHANGED tasks
  BY DEF Tool, Collect, WaitAny, WaitAnyReturns, WaitAll, WaitAllReturns, Abort
<1>2. EndOf' = EndOf /\ WorkingOf' = WorkingOf /\ UNCHANGED <<spawned, resolved>>
  BY <1>1 DEF tasks, EndOf, WorkingOf
<1>3. CASE UNCHANGED received
  <2>1. {} \in SUBSET Tasks /\ received' = received \cup {}
    BY <1>3
  <2>2. Executor!Tell({})
    BY <1>2, <2>1 DEF Executor!Tell
  <2> QED BY <2>1, <2>2
<1>4. ASSUME NEW set \in SUBSET Tasks, Receive(c, set)
      PROVE  \E some \in SUBSET Tasks : Executor!Tell(some)
  <2> DEFINE some == {t \in set : status[t] \in Terminal}
  <2>1. some \in SUBSET Tasks /\ received' = received \cup some
    BY <1>4 DEF Receive
  <2>2. \A t \in some : EndOf[t] # "OPEN"
    BY DEF EndOf, Terminal
  <2> HIDE DEF some
  <2> QED BY <1>2, <2>1, <2>2 DEF Executor!Tell, Executor!Open
<1>5. Known \subseteq Tasks /\ Fresh \subseteq Tasks /\ calls[c].ids \subseteq Tasks
  BY DEF Inv, Typed, Known, Fresh, Call
<1>6. \/ UNCHANGED received
      \/ \E set \in SUBSET Tasks : Receive(c, set)
  BY <1>5 DEF Tool, Collect, WaitAny, WaitAnyReturns, WaitAll, WaitAllReturns, Abort, results
<1> QED BY <1>3, <1>4, <1>6

LEMMA StepMaps ==
  ASSUME Inv, AllServed', [Next]_vars
  PROVE  [Executor!Next]_(Executor!xvars)
<1>1. CASE UNCHANGED vars
  BY <1>1 DEF vars, tasks, results, EndOf, WorkingOf, Executor!xvars
<1>2. ASSUME NEW t \in Tasks, Spawn(t), keepsResult' = keepsResult
      PROVE  Executor!Next
  BY <1>2, SpawnMaps DEF Executor!Next
<1>3. ASSUME NEW t \in Tasks, keepsResult' = keepsResult, Cancel(t) \/ Background(t)
      PROVE  [Executor!Next]_(Executor!xvars)
  <2>1. Terminal = Executor!Ends
    BY DEF Terminal, Executor!Ends
  <2>2. \/ UNCHANGED Executor!xvars \/ Executor!Begin(t)
        \/ \E e \in Terminal : Executor!Conclude(t, e)
    BY <1>3, CancelMaps, BackgroundMaps DEF Terminal
  <2> QED BY <1>3, <2>1, <2>2 DEF Executor!Next
<1>4. ASSUME NEW c \in Callers, Tool(c), keepsResult' = keepsResult
      PROVE  Executor!Next
  BY <1>4, ToolMaps DEF Executor!Next
<1> QED BY <1>1, <1>2, <1>3, <1>4 DEF Next

\* The task manager keeps what an executor promises: each task is worked on
\* once and after its dependencies, at most MaxConcurrent at a time; what is
\* announced is known; and an end changes only where a late result overrules
\* CANCELLED.
THEOREM ManagerImplementsExecutor == Spec => ImplementsExecutor
<1>1. Init => Executor!Init
  BY DEF Init, Executor!Init, Executor!Open, EndOf, WorkingOf, Holding, Terminal
<1>2. Init => AllServed
  BY DEF Init, AllServed, Served, Holding
<1>3. Inv /\ AllServed /\ [Next]_vars => AllServed'
  BY AllServedStep
<1>4. Inv /\ AllServed' /\ [Next]_vars => [Executor!Next]_(Executor!xvars)
  BY StepMaps
<1> QED BY <1>1, <1>2, <1>3, <1>4, Invariance, PTL DEF Spec, Executor!Spec, ImplementsExecutor
=============================================================================
