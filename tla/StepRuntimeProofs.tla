------------------------- MODULE StepRuntimeProofs -------------------------
(***************************************************************************)
(* Theorems about the step runtime, for any calls, rules and bounds.       *)
(***************************************************************************)
EXTENDS StepRuntime, FiniteSetTheorems, TLAPS

\* Waits at which the call the run deals with is the first of todo.
Dealing == {"saved", "waiting", "granted", "cleared", "refused", "acting", "subagent"}

\* Latest is well defined.
IsLatest(i) == \A k \in DOMAIN log :
  log[k].seq < log[i].seq \/ (log[k].seq = log[i].seq /\ k <= i)
HasLatest == log # <<>> => \E i \in DOMAIN log : IsLatest(i)

\* The run that goes on adds to the end of its step.
Ahead == pc # "idle" =>
  /\ step \in 1 .. started
  /\ \A i \in Rows(step) : log[i].seq < seq /\ (pc # "round" => log[i].state # "done")

KnownSteps == \A i \in DOMAIN log : log[i].step <= started

LogOK == KnownSteps /\ ReplayInOrder /\ DoneIsFinal /\ HasLatest /\ Ahead

HeadOK == pc \in Dealing => todo # <<>>

Core == TypeOK /\ HeadOK /\ LogOK

-----------------------------------------------------------------------------
(* The log *)

\* A row appended behind all rows of its step keeps the order of the log.
LEMMA Appended ==
  ASSUME log \in Seq(Event), NEW r \in Event, log' = Append(log, r),
         ReplayInOrder, DoneIsFinal, HasLatest,
         \A i \in Rows(r.step) : log[i].seq < r.seq /\ log[i].state # "done"
  PROVE  ReplayInOrder' /\ DoneIsFinal' /\ HasLatest'
<1> DEFINE n == Len(log) + 1
<1>1. n \in Nat /\ DOMAIN log = 1 .. Len(log) /\ Len(log) \in Nat
  OBVIOUS
<1>2. DOMAIN log' = 1 .. n /\ log'[n] = r /\ \A i \in DOMAIN log : log'[i] = log[i]
  OBVIOUS
<1>3. \A i \in DOMAIN log : log[i] \in Event
  OBVIOUS
<1>4. \A i, k \in DOMAIN log' : i < k => i \in DOMAIN log /\ (k \in DOMAIN log \/ k = n)
  BY <1>1, <1>2
<1> HIDE DEF n
<1>5. ReplayInOrder'
  BY <1>2, <1>4 DEF ReplayInOrder, Rows
<1>6. DoneIsFinal'
  BY <1>2, <1>4 DEF DoneIsFinal, Rows
<1>7. HasLatest'
  <2>1. n \in DOMAIN log' /\ (\A i \in DOMAIN log : i \in DOMAIN log' /\ i <= n)
    BY <1>1, <1>2 DEF n
  <2>2. \A i \in DOMAIN log' : i \in DOMAIN log \/ i = n
    BY <1>1, <1>2 DEF n
  <2>3. \A i \in DOMAIN log : log[i].seq \in Nat
    BY <1>3 DEF Event
  <2>4. r.seq \in Nat
    BY DEF Event
  <2>5. CASE log = <<>>
    <3>1. \A i \in DOMAIN log' : i = n
      BY <1>1, <2>2, <2>5
    <3> QED BY <1>1, <1>2, <2>1, <2>4, <3>1 DEF HasLatest, IsLatest
  <2>6. CASE log # <<>>
    <3>1. PICK m \in DOMAIN log : IsLatest(m)
      BY <2>6 DEF HasLatest
    <3>2. CASE log[m].seq <= r.seq
      <4>1. \A k \in DOMAIN log' : log'[k].seq < log'[n].seq \/ (log'[k].seq = log'[n].seq /\ k <= n)
        BY <1>1, <1>2, <2>1, <2>2, <2>3, <2>4, <3>1, <3>2 DEF IsLatest
      <4> QED BY <2>1, <4>1 DEF HasLatest, IsLatest
    <3>3. CASE ~(log[m].seq <= r.seq)
      <4>1. \A k \in DOMAIN log' : log'[k].seq < log'[m].seq \/ (log'[k].seq = log'[m].seq /\ k <= m)
        BY <1>1, <1>2, <2>1, <2>2, <2>3, <2>4, <3>1, <3>3 DEF IsLatest
      <4> QED BY <2>1, <4>1 DEF HasLatest, IsLatest
    <3> QED BY <3>2, <3>3
  <2> QED BY <2>5, <2>6
<1> QED BY <1>5, <1>6, <1>7

\* What the rows say of a step is untouched by rows of another.
LEMMA OtherRows ==
  ASSUME log \in Seq(Event), NEW r \in Event, log' = Append(log, r), NEW s
  PROVE  /\ DOMAIN log' = DOMAIN log \cup {Len(log) + 1}
         /\ log'[Len(log) + 1] = r
         /\ \A i \in DOMAIN log : log'[i] = log[i]
         /\ Rows(s)' = IF s = r.step THEN Rows(s) \cup {Len(log) + 1} ELSE Rows(s)
<1>1. Len(log) \in Nat /\ DOMAIN log = 1 .. Len(log) /\ DOMAIN log' = 1 .. Len(log) + 1
  OBVIOUS
<1>2. DOMAIN log' = DOMAIN log \cup {Len(log) + 1}
  BY <1>1
<1>3. log'[Len(log) + 1] = r /\ \A i \in DOMAIN log : log'[i] = log[i]
  OBVIOUS
<1> QED BY <1>2, <1>3 DEF Rows

\* The latest row of the log is behind all others of its step.
LEMMA LatestIsLast ==
  ASSUME Core, log # <<>>
  PROVE  /\ Latest \in DOMAIN log
         /\ \A k \in DOMAIN log : log[k].seq <= log[Latest].seq
         /\ log[Latest].state # "done" => \A k \in Rows(log[Latest].step) : log[k].state # "done"
<1>1. Latest \in DOMAIN log /\ IsLatest(Latest)
  BY DEF Core, LogOK, HasLatest, IsLatest, Latest
<1>2. DOMAIN log = 1 .. Len(log) /\ Len(log) \in Nat /\ \A k \in DOMAIN log : log[k] \in Event
  BY DEF Core, TypeOK
<1>3. \A k \in DOMAIN log : log[k].seq \in Nat
  BY <1>2 DEF Event
<1>4. \A k \in DOMAIN log : log[k].seq <= log[Latest].seq
  BY <1>1, <1>3 DEF IsLatest
<1>5. ASSUME log[Latest].state # "done", NEW k \in Rows(log[Latest].step), log[k].state = "done"
      PROVE  FALSE
  <2>1. k \in DOMAIN log /\ log[k].step = log[Latest].step /\ k # Latest
    BY <1>5 DEF Rows
  <2>2. ~(k < Latest)
    BY <1>1, <1>5, <2>1 DEF Core, LogOK, DoneIsFinal
  <2>3. Latest < k
    BY <1>1, <1>2, <2>1, <2>2
  <2> QED BY <1>1, <1>3, <1>4, <2>1, <2>3 DEF Core, LogOK, ReplayInOrder
<1> QED BY <1>1, <1>4, <1>5

\* emit() keeps the log in order and its own count ahead.
LEMMA EmitKeepsLog ==
  ASSUME Core, NEW st \in States, NEW then \in Waits, Emit(st, then),
         pc \notin {"idle", "round"}, st = "done" => then = "round"
  PROVE  log' \in Seq(Event) /\ seq' \in Nat /\ LogOK'
<1> DEFINE r == [step |-> step, state |-> st, seq |-> seq]
<1>1. step \in 1 .. started /\ step \in Steps /\ seq \in Nat /\ started \in Nat
  BY RuntimeAssumption DEF Core, TypeOK, LogOK, Ahead, Steps
<1>2. r \in Event
  BY <1>1 DEF Event
<1>3. log' = Append(log, r) /\ step' = step /\ started' = started /\ seq' = seq + 1 /\ pc' = then
  BY DEF Emit
<1>4. r.step = step /\ r.state = st /\ r.seq = seq
  OBVIOUS
<1>5. log \in Seq(Event)
  BY DEF Core, TypeOK
<1> HIDE DEF r
<1>6. \A i \in Rows(r.step) : log[i].seq < r.seq /\ log[i].state # "done"
  BY <1>4 DEF Core, LogOK, Ahead
<1>7. ReplayInOrder' /\ DoneIsFinal' /\ HasLatest'
  BY <1>2, <1>3, <1>5, <1>6, Appended DEF Core, LogOK
<1>8. log' \in Seq(Event)
  BY <1>2, <1>3, <1>5
<1>9. /\ DOMAIN log' = DOMAIN log \cup {Len(log) + 1}
      /\ log'[Len(log) + 1] = r
      /\ \A i \in DOMAIN log : log'[i] = log[i]
  BY <1>2, <1>3, <1>5, OtherRows
<1>10. KnownSteps'
  BY <1>1, <1>3, <1>4, <1>9 DEF Core, LogOK, KnownSteps
<1>11. Ahead'
  <2>1. \A i \in DOMAIN log : log[i].seq \in Nat
    <3>1. \A i \in DOMAIN log : log[i] \in Event
      BY <1>5
    <3> QED BY <3>1 DEF Event
  <2>2. ASSUME NEW i \in Rows(step)'
        PROVE  log'[i].seq < seq + 1 /\ (then # "round" => log'[i].state # "done")
    <3>1. i \in Rows(step) \/ i = Len(log) + 1
      BY <1>3, <1>9, <2>2 DEF Rows
    <3>2. CASE i \in Rows(step)
      <4>1. i \in DOMAIN log /\ log[i].seq < seq /\ log[i].state # "done"
        BY <3>2 DEF Core, LogOK, Ahead, Rows
      <4> QED BY <1>1, <1>9, <2>1, <4>1
    <3>3. CASE i = Len(log) + 1
      BY <1>1, <1>4, <1>9, <3>3
    <3> QED BY <3>1, <3>2, <3>3
  <2> QED BY <1>1, <1>3, <2>2 DEF Ahead, Rows
<1> QED BY <1>1, <1>3, <1>7, <1>8, <1>10, <1>11 DEF LogOK
\* So does the first event of a run.
LEMMA BeginKeepsLog ==
  ASSUME Core, NEW d, NEW s \in Steps, NEW n \in Nat, NEW count,
         NEW st \in States, NEW then \in Waits,
         Begin(d, s, n, count, st, then),
         started' \in Nat, started <= started', s <= started', st # "done", then # "round",
         \A i \in Rows(s) : log[i].seq < n /\ log[i].state # "done"
  PROVE  log' \in Seq(Event) /\ seq' \in Nat /\ LogOK'
<1> DEFINE r == [step |-> s, state |-> st, seq |-> n]
<1>1. s \in 1 .. started' /\ started \in Nat /\ s \in Nat
  BY RuntimeAssumption DEF Core, TypeOK, Steps
<1>2. r \in Event
  BY DEF Event
<1>3. log' = Append(log, r) /\ step' = s /\ seq' = n + 1 /\ pc' = then
  BY DEF Begin
<1>4. r.step = s /\ r.state = st /\ r.seq = n
  OBVIOUS
<1>5. log \in Seq(Event)
  BY DEF Core, TypeOK
<1> HIDE DEF r
<1>6. \A i \in Rows(r.step) : log[i].seq < r.seq /\ log[i].state # "done"
  BY <1>4
<1>7. ReplayInOrder' /\ DoneIsFinal' /\ HasLatest'
  BY <1>2, <1>3, <1>5, <1>6, Appended DEF Core, LogOK
<1>8. log' \in Seq(Event)
  BY <1>2, <1>3, <1>5
<1>9. /\ DOMAIN log' = DOMAIN log \cup {Len(log) + 1}
      /\ log'[Len(log) + 1] = r
      /\ \A i \in DOMAIN log : log'[i] = log[i]
  BY <1>2, <1>3, <1>5, OtherRows
<1>10. \A i \in DOMAIN log : log[i].seq \in Nat /\ log[i].step \in Nat
  <2>1. \A i \in DOMAIN log : log[i] \in Event
    BY <1>5
  <2> QED BY <2>1, RuntimeAssumption DEF Event, Steps
<1>11. KnownSteps'
  BY <1>1, <1>3, <1>4, <1>9, <1>10 DEF Core, LogOK, KnownSteps
<1>12. Ahead'
  <2>1. ASSUME NEW i \in Rows(s)'
        PROVE  log'[i].seq < n + 1 /\ log'[i].state # "done"
    <3>1. i \in Rows(s) \/ i = Len(log) + 1
      BY <1>3, <1>9, <2>1 DEF Rows
    <3>2. CASE i \in Rows(s)
      <4>1. i \in DOMAIN log /\ log[i].seq < n /\ log[i].state # "done"
        BY <3>2 DEF Rows
      <4> QED BY <1>1, <1>9, <1>10, <4>1
    <3>3. CASE i = Len(log) + 1
      BY <1>1, <1>4, <1>9, <3>3
    <3> QED BY <3>1, <3>2, <3>3
  <2> QED BY <1>1, <1>3, <2>1 DEF Ahead, Rows
<1> QED BY <1>3, <1>7, <1>8, <1>11, <1>12 DEF LogOK

\* A step that leaves the log alone may leave the run, or go on with it.
LEMMA QuietKeepsLog ==
  ASSUME Core, UNCHANGED <<log, started, step, seq>>,
         pc' = "idle" \/ (pc # "idle" /\ (pc = "round" => pc' = "round"))
  PROVE  LogOK'
<1>1. KnownSteps' /\ ReplayInOrder' /\ DoneIsFinal' /\ HasLatest'
  BY DEF Core, LogOK, KnownSteps, ReplayInOrder, DoneIsFinal, HasLatest, IsLatest
<1>2. Ahead'
  BY DEF Core, LogOK, Ahead, Rows
<1> QED BY <1>1, <1>2 DEF LogOK

-----------------------------------------------------------------------------
(* Every step keeps the core of the invariant *)

LEMMA CoreInit == Init => Core
<1> SUFFICES ASSUME Init PROVE Core
  OBVIOUS
<1>1. TypeOK
  <2>1. log \in Seq(Event) /\ todo \in Seq(Calls)
    BY DEF Init
  <2>2. /\ snap \in [Steps -> States \cup {"none"}]
        /\ said \in [Calls -> Answers \cup {"none"}]
    BY DEF Init
  <2>3. pc \in Waits
    BY DEF Init, Waits
  <2>4. adapter \in BOOLEAN /\ behind \in BOOLEAN
    BY Zenon DEF Init
  <2>5. /\ started \in 0 .. MaxSteps /\ crashes \in 0 .. MaxCrashes /\ step \in 0 .. MaxSteps
        /\ asked \in Nat /\ rounds \in Nat /\ seq \in Nat
    BY RuntimeAssumption DEF Init
  <2>6. /\ asks \subseteq Steps \X Nat /\ cache \subseteq Calls
        /\ driver \in {"loop", "host"} /\ tracked \in States \cup {"none"}
    BY DEF Init
  <2> QED BY <2>1, <2>2, <2>3, <2>4, <2>5, <2>6 DEF TypeOK
<1>2. HeadOK
  BY DEF Init, HeadOK, Dealing
<1>3. LogOK
  BY DEF Init, LogOK, KnownSteps, ReplayInOrder, DoneIsFinal, HasLatest, Ahead, Rows
<1> QED BY <1>1, <1>2, <1>3 DEF Core

\* The parts of the type invariant that neither the log nor the place of the
\* run is about.
Others ==
  /\ adapter \in BOOLEAN
  /\ snap \in [Steps -> States \cup {"none"}]
  /\ asks \subseteq Steps \X Nat
  /\ started \in 0 .. MaxSteps /\ asked \in Nat /\ crashes \in 0 .. MaxCrashes
  /\ driver \in {"loop", "host"}
  /\ step \in 0 .. MaxSteps /\ rounds \in Nat
  /\ cache \subseteq Calls
  /\ said \in [Calls -> Answers \cup {"none"}]

Place ==
  /\ pc \in Waits
  /\ tracked \in States \cup {"none"} /\ behind \in BOOLEAN
  /\ todo \in Seq(Calls)
  /\ HeadOK

LEMMA CoreParts == Core <=> Others /\ Place /\ log \in Seq(Event) /\ seq \in Nat /\ LogOK
BY DEF Core, TypeOK, Others, Place

LEMMA EmitKeepsCore ==
  ASSUME Core, NEW st \in States, NEW then \in Waits, Emit(st, then),
         pc \notin {"idle", "round"}, st = "done" => then = "round",
         todo' \in Seq(Calls), then \in Dealing => todo' # <<>>,
         said' \in [Calls -> Answers \cup {"none"}],
         UNCHANGED <<adapter, crashes, asks, asked, cache>>
  PROVE  Core'
<1>1. log' \in Seq(Event) /\ seq' \in Nat /\ LogOK'
  BY EmitKeepsLog
<1>2. Others'
  BY CoreParts DEF Emit, Others
<1>3. Place'
  BY CoreParts DEF Emit, Place, HeadOK
<1> QED BY <1>1, <1>2, <1>3, CoreParts DEF Core, TypeOK, Others, Place

LEMMA QuietKeepsCore ==
  ASSUME Core, Others', Place', UNCHANGED <<log, started, step, seq>>,
         pc' = "idle" \/ (pc # "idle" /\ (pc = "round" => pc' = "round"))
  PROVE  Core'
<1>1. LogOK'
  BY QuietKeepsLog
<1>2. log' \in Seq(Event) /\ seq' \in Nat
  BY DEF Core, TypeOK
<1> QED BY <1>1, <1>2 DEF Core, TypeOK, Others, Place

LEMMA StartsKeepCore ==
  ASSUME Core, UNCHANGED <<adapter, crashes>>,
         Resume \/ NextRound \/ \E d \in {"loop", "host"} : StartTurn(d)
  PROVE  Core'
<1> USE RuntimeAssumption
<1>1. ASSUME NEW d \in {"loop", "host"}, NEW s \in Steps, NEW n \in Nat, NEW count \in Nat,
             NEW st \in States, NEW then \in Waits \ Dealing,
             Begin(d, s, n, count, st, then), UNCHANGED <<adapter, crashes>>,
             started' \in 0 .. MaxSteps, started <= started', s <= started',
             st # "done", then # "round",
             \A i \in Rows(s) : log[i].seq < n /\ log[i].state # "done"
      PROVE  Core'
  <2>1. started' \in Nat
    BY <1>1
  <2>2. log' \in Seq(Event) /\ seq' \in Nat /\ LogOK'
    BY <1>1, <2>1, BeginKeepsLog
  <2>3. s \in 0 .. MaxSteps
    BY <1>1 DEF Steps
  <2>4. Others'
    BY <1>1, <2>3 DEF Core, TypeOK, Others, Begin
  <2>5. Place'
    BY <1>1 DEF Place, Begin, HeadOK
  <2> QED BY <2>2, <2>4, <2>5 DEF Core, TypeOK, Others, Place
<1>2. "think" \in Waits \ Dealing /\ "idle" \in Waits \ Dealing /\ "init" \in States
  BY DEF Waits, Dealing, States
<1>3. started \in 0 .. MaxSteps /\ rounds \in Nat /\ log \in Seq(Event)
  BY DEF Core, TypeOK
<1>4. ASSUME NEW d \in {"loop", "host"}, NEW count \in Nat, NewStep(d, count)
      PROVE  Core'
  <2>1. started' = started + 1 /\ started < MaxSteps /\ Begin(d, started', 0, count, "init", "think")
    BY <1>4 DEF NewStep
  <2>2. started' \in Steps /\ started' \in 0 .. MaxSteps /\ started <= started' /\ started' <= started'
    BY <1>3, <2>1 DEF Steps
  <2>3. Rows(started + 1) = {}
    <3>1. \A i \in DOMAIN log : log[i] \in Event
      BY <1>3
    <3>2. \A i \in DOMAIN log : log[i].step \in Nat /\ log[i].step <= started
      BY <3>1 DEF Event, Steps, Core, LogOK, KnownSteps
    <3> QED BY <1>3, <3>2 DEF Rows
  <2>4. \A i \in Rows(started') : FALSE
    BY <2>1, <2>3
  <2>5. PICK s \in Steps : s = started'
    BY <2>2
  <2>6. Begin(d, s, 0, count, "init", "think")
    BY <2>1, <2>5
  <2>7. \A i \in Rows(s) : FALSE
    BY <2>4, <2>5
  <2> QED BY <1>1, <1>2, <2>2, <2>5, <2>6, <2>7
<1>5. CASE Resume
  <2> DEFINE s == log[Latest].step
  <2>1. log # <<>> /\ log[Latest].state # "done" /\ started' = started
    BY <1>5 DEF Resume
  <2>2. /\ Latest \in DOMAIN log
        /\ \A k \in DOMAIN log : log[k].seq <= log[Latest].seq
        /\ \A k \in Rows(s) : log[k].state # "done"
    BY <2>1, LatestIsLast
  <2>3. \A k \in DOMAIN log : log[k] \in Event
    BY <1>3
  <2>4. \A k \in DOMAIN log : log[k].seq \in Nat /\ log[k].step \in Steps
    BY <2>3 DEF Event
  <2>5. ResumeSeq \in Nat /\ s \in Steps /\ s <= started'
    BY <2>1, <2>2, <2>4 DEF ResumeSeq, Core, LogOK, KnownSteps
  <2>6. \A k \in Rows(s) : log[k].seq < ResumeSeq /\ log[k].state # "done"
    BY <2>2, <2>4 DEF ResumeSeq, Rows
  <2>7. CASE snap[s] \in Awaiting
    <3>1. Begin("host", s, ResumeSeq, 0, snap[s], "idle")
      BY <1>5, <2>7 DEF Resume
    <3>2. snap[s] \in States /\ snap[s] # "done"
      BY <2>7 DEF States, Awaiting
    <3> HIDE DEF s
    <3> QED BY <1>1, <1>2, <1>3, <2>1, <2>5, <2>6, <3>1, <3>2
  <2>8. CASE snap[s] \notin Awaiting
    <3>1. Begin("host", s, ResumeSeq, 0, "init", "think")
      BY <1>5, <2>8 DEF Resume
    <3> HIDE DEF s
    <3> QED BY <1>1, <1>2, <1>3, <2>1, <2>5, <2>6, <3>1
  <2> QED BY <2>7, <2>8
<1>6. CASE NextRound
  <2>1. NewStep("loop", rounds + 1) /\ rounds + 1 \in Nat
    BY <1>3, <1>6 DEF NextRound
  <2> QED BY <1>4, <2>1
<1>7. CASE \E d \in {"loop", "host"} : StartTurn(d)
  BY <1>4, <1>7 DEF StartTurn
<1> QED BY <1>5, <1>6, <1>7

LEMMA RuntimeKeepsCore ==
  ASSUME Core, Runtime, UNCHANGED <<adapter, crashes>>
  PROVE  Core'
<1> USE RuntimeAssumption
<1>1. /\ todo \in Seq(Calls)
      /\ said \in [Calls -> Answers \cup {"none"}]
      /\ pc \in Dealing => todo # <<>>
      /\ Others /\ Place
  <2>1. Others /\ Place
    BY CoreParts
  <2> QED BY <2>1 DEF Others, Place, HeadOK
<1>2. {"acting", "observing", "done", "thinking"} \cup Awaiting \subseteq States
  BY DEF States
<1>3. \A p \in {"idle", "think", "calls", "round"} : p \in Waits /\ p \notin Dealing
  BY DEF Waits, Dealing
<1>4. Dealing \subseteq Waits /\ "idle" \notin Dealing /\ "round" \notin Dealing
      /\ "calls" \notin Dealing /\ "think" \notin Dealing
  BY DEF Waits, Dealing
<1>5. todo # <<>> => Tail(todo) \in Seq(Calls) /\ Head(todo) \in Calls
  BY <1>1
<1>6. <<>> \in Seq(Calls)
  OBVIOUS
<1>7. UseGrant \in [Calls -> Answers \cup {"none"}]
  BY <1>1 DEF UseGrant, Answers
\* Steps after which the run has ended.
<1>8. ASSUME Leave, UNCHANGED <<log, started, step, seq>>, Others',
             tracked' \in States \cup {"none"}, behind' \in BOOLEAN
      PROVE  Core'
  <2>1. Place'
    BY <1>3, <1>6, <1>8 DEF Place, HeadOK, Leave
  <2> QED BY <1>8, <2>1, QuietKeepsCore DEF Leave
<1>9. ASSUME NEW st, EmitRaises(st) PROVE Core'
  <2>1. Others' /\ UNCHANGED <<log, started, step, seq, tracked, behind>>
    BY <1>1, <1>9 DEF EmitRaises, store, run, Others
  <2> QED BY <1>1, <1>8, <1>9, <2>1 DEF EmitRaises, Place
<1>10. CASE StoreState
  <2>1. Others' /\ UNCHANGED <<log, started, step, seq, tracked>> /\ behind' = FALSE
    BY <1>1, <1>10 DEF StoreState, Others, Place
  <2>2. CASE driver = "loop" /\ tracked \in Awaiting
    BY <1>1, <1>8, <1>10, <2>1, <2>2 DEF StoreState, Place
  <2>3. CASE ~(driver = "loop" /\ tracked \in Awaiting)
    <3>1. Place' /\ pc' = pc
      BY <1>1, <1>10, <2>1, <2>3 DEF StoreState, Place, HeadOK
    <3> QED BY <2>1, <3>1, QuietKeepsCore
  <2> QED BY <2>2, <2>3
<1>11. CASE NextRound
  BY <1>11, StartsKeepCore
<1>12. CASE TurnEnds
  <2>1. Others' /\ UNCHANGED <<log, started, step, seq, tracked, behind>>
    BY <1>1, <1>12 DEF TurnEnds, store, run, Others
  <2> QED BY <1>1, <1>8, <1>12, <2>1 DEF TurnEnds, Place
<1>13. CASE Think
  <2>1. todo' \in Seq(Calls)
    BY <1>1, <1>13 DEF Think
  <2>2. pc = "think" /\ Emit("thinking", "think")
    BY <1>13 DEF Think, At
  <2> QED BY <1>1, <1>2, <1>3, <1>13, <2>1, <2>2, EmitKeepsCore DEF Think
<1>14. CASE AwaitUser
  BY <1>1, <1>2, <1>3, <1>6, <1>14, EmitKeepsCore DEF AwaitUser, At, Awaiting
<1>15. CASE ThinkingEnds
  <2>1. Others' /\ UNCHANGED <<log, started, step, seq>>
    BY <1>1, <1>15 DEF ThinkingEnds, store, run, Others
  <2>2. Place'
    BY <1>1, <1>3, <1>15 DEF ThinkingEnds, run, Place, HeadOK
  <2> QED BY <1>15, <2>1, <2>2, QuietKeepsCore DEF ThinkingEnds, At
<1>16. CASE Raises
  <2>1. said' \in [Calls -> Answers \cup {"none"}]
    BY <1>1, <1>7, <1>16 DEF Raises
  <2>2. Others' /\ UNCHANGED <<log, started, step, seq, tracked, behind>>
    BY <1>1, <1>16, <2>1 DEF Raises, store, run, Others
  <2> QED BY <1>1, <1>8, <1>16, <2>2 DEF Raises, Place
<1>17. CASE StepDone
  BY <1>1, <1>2, <1>3, <1>9, <1>17, EmitKeepsCore DEF StepDone, At
<1>18. CASE SpawnSubAgent
  BY <1>1, <1>2, <1>4, <1>9, <1>18, EmitKeepsCore DEF SpawnSubAgent, AtCall, At, Awaiting, Dealing
<1>19. CASE SubAgentSpawned
  BY <1>1, <1>2, <1>3, <1>5, <1>19, EmitKeepsCore DEF SubAgentSpawned, At, Next1, Dealing
<1>20. CASE Pass
  <2>1. todo # <<>> /\ pc \notin {"idle", "round"} /\ "acting" \in Waits
    BY <1>1, <1>20 DEF Pass, AtCall, At, Dealing, Waits
  <2> QED BY <1>1, <1>2, <1>20, <2>1, EmitKeepsCore DEF Pass
<1>21. CASE Refuse
  <2>1. todo # <<>> /\ pc \notin {"idle", "round"}
    BY <1>1, <1>21 DEF Refuse, AtCall, At, Dealing
  <2> QED BY <1>1, <1>2, <1>3, <1>5, <1>21, <2>1, EmitKeepsCore DEF Refuse, Next1
<1>22. CASE Ask
  <2>1. UNCHANGED <<adapter, log, snap, driver, step, rounds, seq, tracked, behind, started, crashes, cache, said>>
    BY <1>22 DEF Ask, run
  <2>2. pc = "calls" /\ todo # <<>>
    BY <1>22 DEF Ask, AtCall, At
  <2>3. CASE adapter
    <3>1. asked' = asked + 1 /\ asks' = asks \cup {<<step, asked'>>} /\ pc' = "saved" /\ todo' = todo
      BY <1>22, <2>3 DEF Ask
    <3>2. step \in Steps
      BY <2>2 DEF Core, TypeOK, LogOK, Ahead, Steps
    <3>3. Others'
      BY <1>1, <2>1, <3>1, <3>2 DEF Others
    <3>4. Place'
      BY <1>1, <2>1, <2>2, <3>1 DEF Place, HeadOK, Waits
    <3> QED BY <2>1, <2>2, <3>1, <3>3, <3>4, QuietKeepsCore
  <2>4. CASE ~adapter
    <3>1. Leave /\ UNCHANGED <<asks, asked>>
      BY <1>22, <2>4 DEF Ask
    <3>2. Others'
      BY <1>1, <2>1, <3>1 DEF Others
    <3> QED BY <1>1, <1>8, <2>1, <3>1, <3>2 DEF Place
  <2> QED BY <2>3, <2>4
<1>23. CASE Question
  BY <1>1, <1>2, <1>4, <1>9, <1>23, EmitKeepsCore DEF Question, At, Awaiting, Dealing
<1>24. CASE DeleteCheckpoint
  <2>1. Others' /\ UNCHANGED <<log, started, step, seq>>
    BY <1>1, <1>24 DEF DeleteCheckpoint, run, Others
  <2>2. Place'
    BY <1>1, <1>24 DEF DeleteCheckpoint, At, run, Place, HeadOK, Dealing, Waits
  <2> QED BY <1>24, <2>1, <2>2, QuietKeepsCore DEF DeleteCheckpoint, At
<1>25. CASE Executed
  BY <1>1, <1>2, <1>3, <1>5, <1>7, <1>25, EmitKeepsCore DEF Executed, At, Next1, Dealing
<1>26. ASSUME NEW answer \in Answers, Answer(answer) PROVE Core'
  <2>1. pc = "waiting" /\ Call \in Calls /\ todo # <<>>
    BY <1>1, <1>5, <1>26 DEF Answer, At, Dealing, Call
  <2>2. said' \in [Calls -> Answers \cup {"none"}] /\ cache' \subseteq Calls
    BY <1>1, <1>26, <2>1 DEF Answer, CacheAfter, Others
  <2>3. asks' \subseteq asks /\ pc' \in {"refused", "granted"}
    BY <1>26 DEF Answer
  <2>4. UNCHANGED <<adapter, log, snap, driver, step, rounds, seq, tracked, behind, started, asked, crashes, todo>>
    BY <1>26 DEF Answer, run
  <2>5. Others'
    BY <1>1, <2>2, <2>3, <2>4 DEF Others
  <2>6. Place'
    BY <1>1, <2>1, <2>3, <2>4 DEF Place, HeadOK, Dealing, Waits
  <2> QED BY <2>1, <2>4, <2>5, <2>6, QuietKeepsCore
<1> QED BY <1>10, <1>11, <1>12, <1>13, <1>14, <1>15, <1>16, <1>17, <1>18, <1>19, <1>20,
           <1>21, <1>22, <1>23, <1>24, <1>25, <1>26 DEF Runtime

LEMMA CoreNext == Core /\ [Next]_vars => Core'
<1> SUFFICES ASSUME Core, [Next]_vars PROVE Core'
  OBVIOUS
<1>1. CASE Crash
  <2>1. Others'
    BY <1>1, CoreParts, RuntimeAssumption DEF Crash, store, Others
  <2>2. Place'
    <3>1. tracked' = "none" /\ behind' \in BOOLEAN
      BY <1>1 DEF Crash
    <3>2. pc' \in Waits /\ pc' \notin Dealing
      BY <1>1 DEF Crash, Leave, Waits, Dealing
    <3>3. todo' \in Seq(Calls)
      BY <1>1 DEF Crash, Leave
    <3> QED BY <3>1, <3>2, <3>3 DEF Place, HeadOK
  <2>3. UNCHANGED <<log, started, step, seq>> /\ pc' = "idle"
    BY <1>1 DEF Crash, Leave, store
  <2> QED BY <2>1, <2>2, <2>3, QuietKeepsCore
<1>2. CASE UNCHANGED vars
  <2>1. LogOK'
    BY <1>2, QuietKeepsLog DEF vars, store, run
  <2> QED BY <1>2, <2>1 DEF vars, store, run, Core, TypeOK, HeadOK
<1> QED BY <1>1, <1>2, RuntimeKeepsCore, StartsKeepCore DEF Next

LEMMA CoreHolds == Spec => []Core
<1> QED BY CoreInit, CoreNext, PTL DEF Spec

\* The state of the runtime, its store included, is always well formed.
THEOREM TypesHold == Spec => []TypeOK
<1>1. Core => TypeOK
  BY DEF Core
<1> QED BY <1>1, CoreHolds, PTL

\* Nothing is logged of a step behind its done event: recovery never runs
\* again what has ended.
THEOREM EndsAreFinal == Spec => []DoneIsFinal
<1>1. Core => DoneIsFinal
  BY DEF Core, LogOK
<1> QED BY <1>1, CoreHolds, PTL

\* Sorting the events of a step by seq replays it as it happened.
THEOREM ReplaysInOrder == Spec => []ReplayInOrder
<1>1. Core => ReplayInOrder
  BY DEF Core, LogOK
<1> QED BY <1>1, CoreHolds, PTL

\* The step recovery takes up, which need not be the last one (see
\* RecoveryFindsLastStep), is one that has not ended, and what it adds to the
\* log comes behind every event that is there.
RecoveryIsSafe ==
  log # <<>> /\ log[Latest].state # "done" =>
    /\ \A k \in Rows(log[Latest].step) : log[k].state # "done"
    /\ \A k \in DOMAIN log : log[k].seq < ResumeSeq

\* Recovery never runs again a step that has ended.
THEOREM RecoveryResumesUnfinished == Spec => []RecoveryIsSafe
<1>1. Core => RecoveryIsSafe
  <2> SUFFICES ASSUME Core, log # <<>>, log[Latest].state # "done"
               PROVE  /\ \A k \in Rows(log[Latest].step) : log[k].state # "done"
                      /\ \A k \in DOMAIN log : log[k].seq < ResumeSeq
    BY DEF RecoveryIsSafe
  <2>1. \A k \in DOMAIN log : log[k].seq \in Nat
    <3>1. \A k \in DOMAIN log : log[k] \in Event
      BY DEF Core, TypeOK
    <3> QED BY <3>1 DEF Event
  <2>2. /\ Latest \in DOMAIN log /\ \A k \in DOMAIN log : log[k].seq <= log[Latest].seq
        /\ \A k \in Rows(log[Latest].step) : log[k].state # "done"
    BY LatestIsLast
  <2>3. \A k \in DOMAIN log : log[k].seq < log[Latest].seq + 1
    BY <2>1, <2>2
  <2> QED BY <2>2, <2>3 DEF ResumeSeq
<1> QED BY <1>1, CoreHolds, PTL

-----------------------------------------------------------------------------
(* Permissions *)

\* What is cached the user has granted for the session, and a question is
\* only about a call that is not.
CacheHonest ==
  /\ \A c \in cache : said[c] = "allow_session"
  /\ pc \in {"saved", "waiting"} => Rule[Call] = "ask" /\ Call \notin cache

Granted == pc \in {"granted", "cleared", "acting"} /\ Rule[Call] = "ask" =>
  said[Call] \in {"allow_once", "allow_session"}

Permitted == CacheHonest /\ Granted

\* A step that changes neither the calls nor what was said of them.
LEMMA SameGrants ==
  ASSUME Permitted, UNCHANGED <<todo, cache, said>>,
         pc' \in {"saved", "waiting"} => pc \in {"saved", "waiting"},
         pc' \in {"granted", "cleared", "acting"} => pc \in {"granted", "cleared", "acting"}
  PROVE  Permitted'
BY DEF Permitted, CacheHonest, Granted, Call

\* A step after which no call is dealt with.
LEMMA NoCallNow ==
  ASSUME Core, Permitted, cache' = cache, said' = said \/ said' = UseGrant,
         pc' \notin {"saved", "waiting", "granted", "cleared", "acting"}
  PROVE  Permitted'
<1>1. \A c \in cache : c \in Calls /\ said[c] = "allow_session"
  BY DEF Core, TypeOK, Permitted, CacheHonest
<1>2. said \in [Calls -> Answers \cup {"none"}]
  BY DEF Core, TypeOK
<1>3. \A c \in cache : said'[c] = "allow_session"
  BY <1>1, <1>2 DEF UseGrant
<1> QED BY <1>3 DEF Permitted, CacheHonest, Granted

LEMMA RuntimeKeepsGrants ==
  ASSUME Core, Permitted, Runtime
  PROVE  Permitted'
<1>1. CASE StoreState
  <2>1. CASE driver = "loop" /\ tracked \in Awaiting
    BY <1>1, <2>1, NoCallNow DEF StoreState, Leave
  <2>2. CASE ~(driver = "loop" /\ tracked \in Awaiting)
    BY <1>1, <2>2, SameGrants DEF StoreState
  <2> QED BY <2>1, <2>2
<1>2. CASE NextRound
  BY <1>2, NoCallNow DEF NextRound, NewStep, Begin
<1>3. CASE TurnEnds
  BY <1>3, NoCallNow DEF TurnEnds, Leave
<1>4. CASE Think \/ AwaitUser
  BY <1>4, NoCallNow DEF Think, AwaitUser, Emit
<1>5. CASE ThinkingEnds
  BY <1>5, NoCallNow DEF ThinkingEnds
<1>6. CASE Raises
  BY <1>6, NoCallNow DEF Raises, Leave
<1>7. CASE StepDone
  BY <1>7, NoCallNow DEF StepDone, Emit, EmitRaises, Leave
<1>8. CASE SpawnSubAgent
  BY <1>8, NoCallNow DEF SpawnSubAgent, Emit, EmitRaises, Leave
<1>9. CASE SubAgentSpawned
  BY <1>9, NoCallNow DEF SubAgentSpawned, Emit
<1>10. CASE Pass
  <2>1. UNCHANGED <<todo, cache, said>> /\ pc' = "acting"
    BY <1>10 DEF Pass, Emit
  <2>2. Rule[Call] = "ask" => said[Call] \in {"allow_once", "allow_session"}
    BY <1>10 DEF Pass, AtCall, At, Passes, Permitted, CacheHonest, Granted
  <2> QED BY <2>1, <2>2 DEF Permitted, CacheHonest, Granted, Call
<1>11. CASE Refuse
  BY <1>11, NoCallNow DEF Refuse, Emit
<1>12. CASE Ask
  <2>1. cache' = cache /\ said' = said
    BY <1>12 DEF Ask
  <2>2. CASE adapter
    <3>1. pc' = "saved" /\ todo' = todo /\ Rule[Call] = "ask" /\ Call \notin cache
      BY <1>12, <2>2 DEF Ask, Passes
    <3> QED BY <2>1, <3>1 DEF Permitted, CacheHonest, Granted, Call
  <2>3. CASE ~adapter
    BY <1>12, <2>1, <2>3, NoCallNow DEF Ask, Leave
  <2> QED BY <2>2, <2>3
<1>13. CASE Question
  <2>1. CASE EmitRaises("awaiting_permission")
    BY <2>1, NoCallNow DEF EmitRaises, Leave
  <2>2. CASE ~EmitRaises("awaiting_permission")
    BY <1>13, <2>2, SameGrants DEF Question, At, Emit
  <2> QED BY <2>1, <2>2
<1>14. CASE DeleteCheckpoint
  BY <1>14, SameGrants DEF DeleteCheckpoint, At
<1>15. CASE Executed
  BY <1>15, NoCallNow DEF Executed, Emit
<1>16. ASSUME NEW answer \in Answers, Answer(answer) PROVE Permitted'
  <2>1. pc = "waiting" /\ todo' = todo /\ said' = [said EXCEPT ![Call] = answer]
        /\ cache' = CacheAfter(answer)
    BY <1>16 DEF Answer, At
  <2>2. Call \in Calls /\ said \in [Calls -> Answers \cup {"none"}] /\ cache \subseteq Calls
    BY <2>1 DEF Core, TypeOK, HeadOK, Dealing, Call
  <2>3. Rule[Call] = "ask" /\ Call \notin cache /\ \A c \in cache : said[c] = "allow_session"
    BY <2>1 DEF Permitted, CacheHonest
  <2>4. said'[Call] = answer /\ \A c \in cache : said'[c] = "allow_session"
    BY <2>1, <2>2, <2>3
  <2>5. \A c \in cache' : said'[c] = "allow_session"
    BY <2>1, <2>3, <2>4 DEF CacheAfter
  <2>6. pc' = IF answer = "deny" THEN "refused" ELSE "granted"
    BY <1>16 DEF Answer
  <2>7. Call' = Call
    BY <2>1 DEF Call
  <2> QED BY <2>4, <2>5, <2>6, <2>7 DEF Permitted, CacheHonest, Granted, Answers
<1> QED BY <1>1, <1>2, <1>3, <1>4, <1>5, <1>6, <1>7, <1>8, <1>9, <1>10, <1>11,
           <1>12, <1>13, <1>14, <1>15, <1>16 DEF Runtime

LEMMA PermittedNext == Core /\ Permitted /\ [Next]_vars => Permitted'
<1> SUFFICES ASSUME Core, Permitted, [Next]_vars PROVE Permitted'
  OBVIOUS
<1>1. CASE Resume
  BY <1>1, NoCallNow DEF Resume, Begin
<1>2. CASE \E d \in {"loop", "host"} : StartTurn(d)
  BY <1>2, NoCallNow DEF StartTurn, NewStep, Begin
<1>3. CASE Crash
  BY <1>3 DEF Crash, Leave, Permitted, CacheHonest, Granted
<1>4. CASE UNCHANGED vars
  BY <1>4, SameGrants DEF vars
<1> QED BY <1>1, <1>2, <1>3, <1>4, RuntimeKeepsGrants DEF Next

\* A call the rules leave to the user runs only on what the user said of it,
\* whatever was cached, crashed or redone in between.
THEOREM GrantsAreHonoured == Spec => []RunsAsGranted
<1>1. Init => Permitted
  BY DEF Init, Permitted, CacheHonest, Granted
<1>2. Permitted => RunsAsGranted
  BY DEF Permitted, Granted, RunsAsGranted
<1> QED BY <1>1, <1>2, CoreHolds, PermittedNext, PTL DEF Spec

-----------------------------------------------------------------------------
(* Questions *)

Inits(s) == {i \in Rows(s) : log[i].state = "init"}
Redone(s) == \E i, k \in Inits(s) : i # k
Ended(s) == \E i \in Rows(s) : log[i].state = "done"

\* The step the question is about has an init event; it is open while the run
\* is about it, and left over only by a run that did not come to its end.
AskOK(a) ==
  /\ a[1] \in 1 .. started /\ a[2] \in 0 .. asked
  /\ Inits(a[1]) # {}
  /\ \/ Redone(a[1])
     \/ /\ ~Ended(a[1])
        /\ \/ pc = "idle" \/ step # a[1]
           \/ pc \in {"saved", "waiting", "granted"} /\ a = <<step, asked>>

\* Every step began with an init event.
Begun == \A i \in DOMAIN log : Inits(log[i].step) # {}

Questions ==
  /\ Begun
  /\ pc # "idle" => Inits(step) # {}
  /\ \A a \in asks : AskOK(a)

\* What a new row changes of that.
LEMMA RowAdded ==
  ASSUME log \in Seq(Event), NEW r \in Event, log' = Append(log, r), NEW s
  PROVE  /\ Inits(s)' = IF s = r.step /\ r.state = "init"
                        THEN Inits(s) \cup {Len(log) + 1} ELSE Inits(s)
         /\ Redone(s) => Redone(s)'
         /\ Ended(s)' <=> Ended(s) \/ (s = r.step /\ r.state = "done")
         /\ Len(log) + 1 \notin DOMAIN log
<1>1. /\ DOMAIN log' = DOMAIN log \cup {Len(log) + 1}
      /\ log'[Len(log) + 1] = r
      /\ \A i \in DOMAIN log : log'[i] = log[i]
      /\ Rows(s)' = IF s = r.step THEN Rows(s) \cup {Len(log) + 1} ELSE Rows(s)
  BY OtherRows
<1>2. Rows(s) \subseteq DOMAIN log
  BY DEF Rows
<1>3. Inits(s)' = IF s = r.step /\ r.state = "init"
                  THEN Inits(s) \cup {Len(log) + 1} ELSE Inits(s)
  BY <1>1, <1>2 DEF Inits
<1>4. Redone(s) => Redone(s)'
  BY <1>3 DEF Redone
<1>5. Ended(s)' <=> Ended(s) \/ (s = r.step /\ r.state = "done")
  BY <1>1, <1>2 DEF Ended
<1>6. Len(log) + 1 \notin DOMAIN log
  OBVIOUS
<1> QED BY <1>3, <1>4, <1>5, <1>6

LEMMA BegunKept ==
  ASSUME log \in Seq(Event), Begun, NEW r \in Event, log' = Append(log, r),
         r.state = "init" \/ Inits(r.step) # {}
  PROVE  Begun' /\ Inits(r.step)' # {}
<1>1. \A s : Inits(s) \subseteq Inits(s)' /\ (s = r.step => Inits(s)' # {})
  BY RowAdded
<1>2. /\ DOMAIN log' = DOMAIN log \cup {Len(log) + 1}
      /\ log'[Len(log) + 1] = r
      /\ \A i \in DOMAIN log : log'[i] = log[i]
  BY OtherRows
<1>3. ASSUME NEW i \in DOMAIN log' PROVE (Inits(log[i].step) # {})'
  <2>1. CASE i \in DOMAIN log
    <3>1. Inits(log[i].step) # {}
      BY <2>1 DEF Begun
    <3>2. PICK s : s = log[i].step
      OBVIOUS
    <3>3. Inits(s)' # {} /\ s = log'[i].step
      BY <1>1, <1>2, <2>1, <3>1, <3>2
    <3> QED BY <3>3 DEF Inits, Rows
  <2>2. CASE i = Len(log) + 1
    BY <1>1, <1>2, <2>2 DEF Inits, Rows
  <2> QED BY <1>2, <2>1, <2>2
<1> QED BY <1>1, <1>3 DEF Begun, Inits, Rows

\* A step that leaves the log alone.
LEMMA QuietAsks ==
  ASSUME Questions, UNCHANGED <<log, started, asked, step>>, asks' \subseteq asks,
         \/ pc' = "idle"
         \/ /\ pc # "idle"
            /\ \/ pc \notin {"saved", "waiting", "granted"}
               \/ pc' \in {"saved", "waiting", "granted"}
               \/ <<step, asked>> \notin asks'
  PROVE  Questions'
<1>1. \A s : Rows(s)' = Rows(s)
  BY DEF Rows
<1>2. \A s : Inits(s)' = Inits(s)
  BY <1>1 DEF Inits
<1>3. \A s : (Redone(s)' <=> Redone(s)) /\ (Ended(s)' <=> Ended(s))
  BY <1>1, <1>2 DEF Redone, Ended
<1>4. Begun' /\ (pc' # "idle" => Inits(step)' # {})
  <2>1. Begun /\ (pc' # "idle" => Inits(step) # {})
    BY DEF Questions
  <2> QED BY <2>1 DEF Begun, Inits, Rows
<1>5. ASSUME NEW a \in asks' PROVE AskOK(a)'
  <2>1. AskOK(a) /\ a \in asks
    BY <1>5 DEF Questions
  <2>2. PICK s : s = a[1]
    OBVIOUS
  <2>3. a[1] \in 1 .. started' /\ a[2] \in 0 .. asked' /\ Inits(s)' # {}
    BY <1>2, <2>1, <2>2 DEF AskOK
  <2>4. Redone(s)' \/ (/\ ~Ended(s)'
                       /\ \/ pc' = "idle" \/ step' # s
                          \/ pc' \in {"saved", "waiting", "granted"} /\ a = <<step', asked'>>)
    BY <1>3, <1>5, <2>1, <2>2 DEF AskOK
  <2> QED BY <2>2, <2>3, <2>4 DEF AskOK, Redone, Ended, Inits, Rows
<1> QED BY <1>4, <1>5 DEF Questions, Inits, Rows

LEMMA EmitAsks ==
  ASSUME Core, Questions, NEW st \in States, NEW then \in Waits, Emit(st, then),
         pc \notin {"idle", "round", "granted"}, UNCHANGED <<asks, asked>>,
         st = "done" => pc = "calls",
         pc \in {"saved", "waiting"} => then \in {"idle", "waiting"}
  PROVE  Questions'
<1> DEFINE r == [step |-> step, state |-> st, seq |-> seq]
<1>1. step \in 1 .. started /\ step \in Steps
  BY RuntimeAssumption DEF Core, TypeOK, LogOK, Ahead, Steps
<1>2. r \in Event /\ log \in Seq(Event)
  BY <1>1 DEF Event, Core, TypeOK
<1>3. log' = Append(log, r) /\ UNCHANGED <<step, started, asks, asked>> /\ pc' = then
  BY DEF Emit
<1>4. r.step = step /\ r.state = st
  OBVIOUS
<1> HIDE DEF r
<1>5. Begun' /\ Inits(step)' # {}
  BY <1>2, <1>3, <1>4, BegunKept DEF Questions
<1>6. ASSUME NEW a \in asks PROVE AskOK(a)'
  <2>1. AskOK(a)
    BY <1>6 DEF Questions
  <2> DEFINE s == a[1]
  <2>2. /\ Inits(s) \subseteq Inits(s)'
        /\ Redone(s) => Redone(s)'
        /\ Ended(s)' <=> Ended(s) \/ (s = step /\ st = "done")
    BY <1>2, <1>3, <1>4, RowAdded
  <2> HIDE DEF s
  <2>3. a[1] \in 1 .. started /\ a[2] \in 0 .. asked /\ Inits(s)' # {}
    BY <2>1, <2>2 DEF AskOK, s
  <2>4. CASE Redone(s)
    BY <1>3, <2>2, <2>3, <2>4 DEF AskOK, s
  <2>5. CASE ~Redone(s)
    <3>1. ~Ended(s) /\ (step # s \/ (pc \in {"saved", "waiting"} /\ a = <<step, asked>>))
      BY <2>1, <2>5 DEF AskOK, s
    <3>2. ~Ended(s)'
      BY <2>2, <3>1
    <3> QED BY <1>3, <2>3, <3>1, <3>2 DEF AskOK, s
  <2> QED BY <2>4, <2>5
<1> QED BY <1>3, <1>5, <1>6 DEF Questions, Inits, Rows

\* A new step, or the restart or the wait of one that has not ended.
LEMMA BeginAsks ==
  ASSUME Core, Questions, NEW d, NEW s \in Steps, NEW n \in Nat, NEW count,
         NEW st \in States, NEW then \in {"think", "idle"},
         Begin(d, s, n, count, st, then), started' \in Nat, st # "done",
         \/ s = started + 1 /\ started' = started + 1 /\ st = "init"
         \/ /\ started' = started /\ Inits(s) # {}
            /\ then = "think" => st = "init"
  PROVE  Questions'
<1> DEFINE r == [step |-> s, state |-> st, seq |-> n]
<1>1. r \in Event /\ log \in Seq(Event) /\ started \in Nat /\ s \in Nat
  BY RuntimeAssumption DEF Event, Core, TypeOK, Steps
<1>2. log' = Append(log, r) /\ step' = s /\ UNCHANGED <<asks, asked>> /\ pc' = then
  BY DEF Begin
<1>3. r.step = s /\ r.state = st
  OBVIOUS
<1> HIDE DEF r
<1>4. Begun' /\ Inits(s)' # {}
  BY <1>1, <1>2, <1>3, BegunKept DEF Questions
<1>5. ASSUME NEW a \in asks PROVE AskOK(a)'
  <2>1. AskOK(a)
    BY <1>5 DEF Questions
  <2>2. PICK b : b = a[1]
    OBVIOUS
  <2>3. /\ Inits(b)' = IF b = s /\ st = "init" THEN Inits(b) \cup {Len(log) + 1} ELSE Inits(b)
        /\ Redone(b) => Redone(b)'
        /\ Ended(b)' <=> Ended(b)
        /\ Len(log) + 1 \notin DOMAIN log
    BY <1>1, <1>2, <1>3, RowAdded
  <2>4. b \in 1 .. started /\ a[2] \in 0 .. asked /\ Inits(b) # {}
    BY <2>1, <2>2 DEF AskOK
  <2>5. b \in 1 .. started' /\ a[2] \in 0 .. asked' /\ Inits(b)' # {}
    BY <1>1, <1>2, <2>3, <2>4
  <2>6. Redone(b)' \/ (~Ended(b)' /\ (then = "idle" \/ s # b))
    <3>1. CASE b = s /\ then = "think"
      <4>1. st = "init" /\ started' = started
        BY <1>1, <2>4, <3>1
      <4>2. Inits(b)' = Inits(b) \cup {Len(log) + 1} /\ Inits(b) \subseteq DOMAIN log
        BY <2>3, <3>1, <4>1 DEF Inits, Rows
      <4>3. PICK i \in Inits(b) : i # Len(log) + 1
        BY <2>3, <2>4, <4>2
      <4>4. i \in Inits(b)' /\ Len(log) + 1 \in Inits(b)'
        BY <4>2
      <4>5. (\E h, k \in Inits(b) : h # k)'
        BY <4>3, <4>4
      <4> QED BY <4>5 DEF Redone
    <3>2. CASE ~(b = s /\ then = "think")
      BY <2>1, <2>2, <2>3, <3>2 DEF AskOK
    <3> QED BY <3>1, <3>2
  <2>7. Redone(b)' \/ (~Ended(b)' /\ (pc' = "idle" \/ step' # b))
    BY <1>2, <2>6
  <2> QED BY <2>2, <2>5, <2>7 DEF AskOK, Redone, Ended, Inits, Rows
<1> QED BY <1>2, <1>4, <1>5 DEF Questions, Inits, Rows

LEMMA StartsKeepAsks ==
  ASSUME Core, Questions,
         Resume \/ NextRound \/ \E d \in {"loop", "host"} : StartTurn(d)
  PROVE  Questions'
<1>1. started \in 0 .. MaxSteps /\ rounds \in Nat /\ log \in Seq(Event)
  BY DEF Core, TypeOK
<1>2. ASSUME NEW d, NEW count, NewStep(d, count)
      PROVE  Questions'
  <2>1. started' = started + 1 /\ started < MaxSteps /\ Begin(d, started', 0, count, "init", "think")
    BY <1>2 DEF NewStep
  <2>2. started + 1 \in Steps /\ "init" \in States
    BY <1>1, <2>1, RuntimeAssumption DEF Steps, States
  <2>3. PICK s \in Steps : s = started + 1
    BY <2>2
  <2>4. Begin(d, s, 0, count, "init", "think")
    BY <2>1, <2>3
  <2> QED BY <1>1, <2>1, <2>2, <2>3, <2>4, BeginAsks
<1>3. CASE Resume
  <2> DEFINE s == log[Latest].step
  <2>1. log # <<>> /\ started' = started
    BY <1>3 DEF Resume
  <2>2. Latest \in DOMAIN log
    BY <2>1, LatestIsLast
  <2>3. log[Latest] \in Event
    BY <1>1, <2>2
  <2>4. s \in Steps /\ ResumeSeq \in Nat /\ Inits(s) # {} /\ started' \in Nat
    BY <1>1, <2>1, <2>2, <2>3, RuntimeAssumption DEF Event, ResumeSeq, Questions, Begun
  <2>5. CASE snap[s] \in Awaiting
    <3>1. Begin("host", s, ResumeSeq, 0, snap[s], "idle")
      BY <1>3, <2>5 DEF Resume
    <3>2. snap[s] \in States /\ snap[s] # "done"
      BY <2>5 DEF States, Awaiting
    <3> HIDE DEF s
    <3> QED BY <2>1, <2>4, <3>1, <3>2, BeginAsks
  <2>6. CASE snap[s] \notin Awaiting
    <3>1. Begin("host", s, ResumeSeq, 0, "init", "think") /\ "init" \in States
      BY <1>3, <2>6 DEF Resume, States
    <3> HIDE DEF s
    <3> QED BY <2>1, <2>4, <3>1, BeginAsks
  <2> QED BY <2>5, <2>6
<1> QED BY <1>2, <1>3 DEF NextRound, StartTurn

LEMMA RuntimeKeepsAsks ==
  ASSUME Core, Questions, Runtime
  PROVE  Questions'
<1>1. {"acting", "observing", "done", "thinking"} \cup Awaiting \subseteq States
  BY DEF States
<1>2. {"idle", "think", "calls", "round", "waiting", "acting", "subagent"} \subseteq Waits
  BY DEF Waits
<1>3. CASE StoreState
  BY <1>3, QuietAsks DEF StoreState, Leave
<1>4. CASE NextRound
  BY <1>4, StartsKeepAsks
<1>5. CASE TurnEnds
  BY <1>5, QuietAsks DEF TurnEnds, Leave, store, run
<1>6. CASE Think \/ AwaitUser
  BY <1>1, <1>2, <1>6, EmitAsks DEF Think, AwaitUser, At, Awaiting
<1>7. CASE ThinkingEnds
  BY <1>7, QuietAsks DEF ThinkingEnds, At, store, run
<1>8. CASE Raises
  BY <1>8, QuietAsks DEF Raises, Leave, store, run
<1>9. ASSUME NEW st, EmitRaises(st) PROVE Questions'
  BY <1>9, QuietAsks DEF EmitRaises, Leave, store, run
<1>10. CASE StepDone
  BY <1>1, <1>2, <1>9, <1>10, EmitAsks DEF StepDone, At
<1>11. CASE SpawnSubAgent
  BY <1>1, <1>2, <1>9, <1>11, EmitAsks DEF SpawnSubAgent, AtCall, At, Awaiting
<1>12. CASE SubAgentSpawned
  BY <1>1, <1>2, <1>12, EmitAsks DEF SubAgentSpawned, At
<1>13. CASE Pass
  BY <1>1, <1>2, <1>13, EmitAsks DEF Pass, AtCall, At
<1>14. CASE Refuse
  BY <1>1, <1>2, <1>14, EmitAsks DEF Refuse, AtCall, At
<1>15. CASE Ask
  <2>1. UNCHANGED <<log, started, step>> /\ pc = "calls" /\ asked \in Nat
    BY <1>15 DEF Ask, AtCall, At, run, Core, TypeOK
  <2>2. CASE adapter
    <3>1. asked' = asked + 1 /\ asks' = asks \cup {<<step, asked'>>} /\ pc' = "saved"
      BY <1>15, <2>2 DEF Ask
    <3>2. step \in 1 .. started /\ \A i \in Rows(step) : log[i].state # "done"
      BY <2>1 DEF Core, LogOK, Ahead
    <3>3. Inits(step) # {} /\ ~Ended(step)
      BY <2>1, <3>2 DEF Questions, Ended
    <3>4. ASSUME NEW a \in asks' PROVE AskOK(a)'
      <4>1. CASE a = <<step, asked'>>
        BY <2>1, <3>1, <3>2, <3>3, <4>1 DEF AskOK, Redone, Ended, Inits, Rows
      <4>2. CASE a \in asks
        <5>1. AskOK(a) /\ (Redone(a[1]) \/ (~Ended(a[1]) /\ step # a[1]))
          BY <2>1, <4>2 DEF Questions, AskOK
        <5> QED BY <2>1, <3>1, <5>1 DEF AskOK, Redone, Ended, Inits, Rows
      <4> QED BY <3>1, <4>1, <4>2
    <3> QED BY <2>1, <3>3, <3>4 DEF Questions, Begun, Inits, Rows
  <2>3. CASE ~adapter
    BY <1>15, <2>1, <2>3, QuietAsks DEF Ask, Leave
  <2> QED BY <2>2, <2>3
<1>16. CASE Question
  BY <1>1, <1>2, <1>9, <1>16, EmitAsks DEF Question, At, Awaiting
<1>17. CASE DeleteCheckpoint
  BY <1>17, QuietAsks DEF DeleteCheckpoint, ThisAsk, At, run
<1>18. CASE Executed
  BY <1>1, <1>2, <1>18, EmitAsks DEF Executed, At
<1>19. ASSUME NEW answer \in Answers, Answer(answer) PROVE Questions'
  BY <1>19, QuietAsks DEF Answer, ThisAsk, At, run
<1> QED BY <1>3, <1>4, <1>5, <1>6, <1>7, <1>8, <1>10, <1>11, <1>12, <1>13, <1>14,
           <1>15, <1>16, <1>17, <1>18, <1>19 DEF Runtime

LEMMA QuestionsNext == Core /\ Questions /\ [Next]_vars => Questions'
<1> SUFFICES ASSUME Core, Questions, [Next]_vars PROVE Questions'
  OBVIOUS
<1>1. CASE Crash
  BY <1>1, QuietAsks DEF Crash, Leave, store
<1>2. CASE UNCHANGED vars
  BY <1>2, QuietAsks DEF vars, store, run
<1> QED BY <1>1, <1>2, RuntimeKeepsAsks, StartsKeepAsks DEF Next

\* A step that went to its end in one run leaves no question to the user open.
THEOREM DoneStepsAskNothing == Spec => []DoneLeavesNoAsk
<1>1. Init => Questions
  BY DEF Init, Questions, Begun
<1>2. Questions => DoneLeavesNoAsk
  BY DEF Questions, AskOK, Redone, Ended, Inits, DoneLeavesNoAsk
<1> QED BY <1>1, <1>2, CoreHolds, QuestionsNext, PTL DEF Spec

-----------------------------------------------------------------------------
(* The state kept of a step *)

Lag(s) ==
  \/ snap[s] = "none" /\ Cardinality(Rows(s)) <= Storing(s) + crashes
  \/ \E i \in Rows(s) : /\ snap[s] = log[i].state
                        /\ Cardinality(After(i)) <= Storing(s) + crashes

\* The event being stored is the last of the log.
StoresLast == behind =>
  /\ step \in Steps /\ log # <<>>
  /\ log[Len(log)].step = step /\ log[Len(log)].state = tracked

Recent == StateIsRecent /\ StoresLast

LEMMA RecentIsLag == StateIsRecent <=> \A s \in Steps : Lag(s)
BY DEF StateIsRecent, Lag

LEMMA RowsFinite ==
  ASSUME log \in Seq(Event)
  PROVE  \A S \in SUBSET (DOMAIN log) : IsFiniteSet(S) /\ Cardinality(S) \in Nat
<1>1. IsFiniteSet(DOMAIN log)
  <2>1. DOMAIN log = 1 .. Len(log) /\ Len(log) \in Nat
    OBVIOUS
  <2> QED BY <2>1, FS_Interval
<1> QED BY <1>1, FS_Subset, FS_CardinalityType

\* An event in the log and not yet in step_state.
LEMMA AppendKeepsRecent ==
  ASSUME Core, Recent, ~behind, NEW r \in Event, log' = Append(log, r), r.step = step',
         r.state = tracked', behind' = TRUE, snap' = snap, crashes' = crashes
  PROVE  Recent'
<1> DEFINE n == Len(log) + 1
<1>1. log \in Seq(Event) /\ crashes \in Nat /\ n \in Nat
  BY RuntimeAssumption DEF Core, TypeOK
<1>2. /\ DOMAIN log' = DOMAIN log \cup {n}
      /\ log'[n] = r
      /\ \A i \in DOMAIN log : log'[i] = log[i] /\ i < n
      /\ n \notin DOMAIN log
  <2>1. Len(log) \in Nat /\ DOMAIN log = 1 .. Len(log) /\ n = Len(log) + 1
    BY <1>1
  <2> HIDE DEF n
  <2> QED BY <1>1, <2>1, OtherRows
<1>3. \A S \in SUBSET (DOMAIN log) : Cardinality(S \cup {n}) = Cardinality(S) + 1 /\ Cardinality(S) \in Nat
  BY <1>1, <1>2, RowsFinite, FS_AddElement
<1>4. r.step \in Steps /\ Len(log') = n
  BY <1>1 DEF Event
<1> HIDE DEF n
<1>5. ASSUME NEW s \in Steps PROVE Lag(s)'
  <2>1. Lag(s) /\ Storing(s) = 0
    BY RecentIsLag DEF Recent, Storing
  <2>2. Storing(s)' = IF s = r.step THEN 1 ELSE 0
    BY DEF Storing
  <2>3. Rows(s)' = IF s = r.step THEN Rows(s) \cup {n} ELSE Rows(s)
    BY <1>2 DEF Rows
  <2>4. Rows(s) \subseteq DOMAIN log
    BY DEF Rows
  <2>5. CASE snap[s] = "none" /\ Cardinality(Rows(s)) <= crashes
    <3>1. Cardinality(Rows(s)') <= Storing(s)' + crashes
      BY <1>1, <1>3, <2>2, <2>3, <2>4, <2>5
    <3>2. snap'[s] = "none"
      BY <2>5
    <3> QED BY <3>1, <3>2 DEF Lag
  <2>6. ASSUME NEW i \in Rows(s), snap[s] = log[i].state, Cardinality(After(i)) <= crashes
        PROVE  Lag(s)'
    <3>1. i \in DOMAIN log /\ log[i].step = s /\ log'[i] = log[i] /\ i < n /\ i \in Rows(s)'
      BY <1>2, <2>3, <2>4 DEF Rows
    <3>2. After(i) \subseteq DOMAIN log /\ After(i) = {k \in Rows(s) : i < k}
      BY <3>1 DEF After, Rows
    <3>3. After(i)' = {k \in Rows(s)' : i < k}
      BY <3>1 DEF After, Rows
    <3>4. After(i)' = IF s = r.step THEN After(i) \cup {n} ELSE After(i)
      BY <2>3, <3>1, <3>2, <3>3
    <3>5. Cardinality(After(i)') <= Storing(s)' + crashes
      BY <1>1, <1>3, <2>2, <2>6, <3>2, <3>4
    <3>6. snap'[s] = log'[i].state
      BY <2>6, <3>1
    <3> QED BY <3>1, <3>5, <3>6 DEF Lag
  <2>7. crashes + 0 = crashes /\ 0 + crashes = crashes
    BY <1>1
  <2> QED BY <2>1, <2>5, <2>6, <2>7 DEF Lag
<1>6. StoresLast'
  BY <1>1, <1>2, <1>4 DEF StoresLast
<1>7. StateIsRecent'
  BY <1>5 DEF StateIsRecent, Lag
<1> QED BY <1>6, <1>7 DEF Recent

LEMMA QuietKeepsRecent ==
  ASSUME Recent, UNCHANGED <<log, snap, crashes>>,
         \/ UNCHANGED <<behind, step, tracked>>
         \/ ~behind /\ ~behind'
  PROVE  Recent'
<1>1. \A s \in Steps : Storing(s)' = Storing(s)
  BY DEF Storing
<1>2. StateIsRecent'
  BY <1>1 DEF Recent, StateIsRecent, Rows, After
<1> QED BY <1>2 DEF Recent, StoresLast

LEMMA CrashKeepsRecent ==
  ASSUME Core, Recent, Crash
  PROVE  Recent'
<1>1. UNCHANGED <<log, snap, step>> /\ crashes' = crashes + 1 /\ behind' = FALSE
  BY DEF Crash, store
<1>2. crashes \in Nat /\ log \in Seq(Event)
  BY RuntimeAssumption DEF Core, TypeOK
<1>3. ASSUME NEW s \in Steps PROVE Lag(s)'
  <2>1. Lag(s) /\ Storing(s) \in {0, 1} /\ Storing(s)' = 0
    BY <1>1, RecentIsLag DEF Recent, Storing
  <2>2. Rows(s)' = Rows(s) /\ Rows(s) \subseteq DOMAIN log
    BY <1>1 DEF Rows
  <2>3. Cardinality(Rows(s)) \in Nat
    BY <1>2, <2>2, RowsFinite
  <2>4. CASE snap[s] = "none" /\ Cardinality(Rows(s)) <= Storing(s) + crashes
    BY <1>1, <1>2, <2>1, <2>2, <2>3, <2>4 DEF Lag
  <2>5. ASSUME NEW i \in Rows(s), snap[s] = log[i].state, Cardinality(After(i)) <= Storing(s) + crashes
        PROVE  Lag(s)'
    <3>1. After(i)' = After(i) /\ After(i) \subseteq DOMAIN log
      BY <1>1 DEF After, Rows
    <3>2. Cardinality(After(i)) \in Nat
      BY <1>2, <3>1, RowsFinite
    <3> QED BY <1>1, <1>2, <2>1, <2>2, <2>5, <3>1, <3>2 DEF Lag
  <2> QED BY <2>1, <2>4, <2>5 DEF Lag
<1>4. StateIsRecent'
  BY <1>3 DEF StateIsRecent, Lag
<1> QED BY <1>1, <1>4 DEF Recent, StoresLast

LEMMA StoreKeepsRecent ==
  ASSUME Core, Recent, StoreState, crashes' = crashes
  PROVE  Recent'
<1>1. UNCHANGED <<log, step>> /\ snap' = [snap EXCEPT ![step] = tracked] /\ behind' = FALSE /\ behind
  BY DEF StoreState
<1>2. /\ crashes \in Nat /\ log \in Seq(Event)
      /\ snap \in [Steps -> States \cup {"none"}]
  BY RuntimeAssumption DEF Core, TypeOK
<1>3. /\ step \in Steps /\ log # <<>>
      /\ log[Len(log)].step = step /\ log[Len(log)].state = tracked
  BY <1>1 DEF Recent, StoresLast
<1>4. ASSUME NEW s \in Steps PROVE Lag(s)'
  <2>1. CASE s # step
    <3>1. Lag(s) /\ Storing(s) = 0 /\ Storing(s)' = 0 /\ snap'[s] = snap[s]
      BY <1>1, <1>2, <2>1, RecentIsLag DEF Recent, Storing
    <3> QED BY <1>1, <3>1 DEF Lag, Rows, After
  <2>2. CASE s = step
    <3>1. Len(log) \in DOMAIN log /\ \A k \in DOMAIN log : ~(Len(log) < k)
      BY <1>2, <1>3
    <3>2. PICK i : i = Len(log)
      OBVIOUS
    <3>3. After(i)' = {} /\ i \in Rows(s)'
      BY <1>1, <1>3, <2>2, <3>1, <3>2 DEF After, Rows
    <3>4. Cardinality(After(i)') = 0 /\ Storing(s)' = 0
      BY <1>1, <3>3, FS_EmptySet DEF Storing
    <3>5. snap'[s] = log'[i].state
      BY <1>1, <1>2, <1>3, <2>2, <3>2
    <3>6. Cardinality(After(i)') <= Storing(s)' + crashes'
      BY <1>2, <3>4
    <3> QED BY <3>3, <3>5, <3>6 DEF Lag
  <2> QED BY <2>1, <2>2
<1>5. StateIsRecent'
  BY <1>4 DEF StateIsRecent, Lag
<1> QED BY <1>1, <1>5 DEF Recent, StoresLast

LEMMA RecentNext == Core /\ Recent /\ [Next]_vars => Recent'
<1> SUFFICES ASSUME Core, Recent, [Next]_vars PROVE Recent'
  OBVIOUS
<1>1. step \in Nat /\ seq \in Nat /\ log \in Seq(Event)
  BY RuntimeAssumption DEF Core, TypeOK
<1>2. ASSUME NEW st \in States, NEW then, Emit(st, then), pc # "idle", ~behind, crashes' = crashes
      PROVE  Recent'
  <2> DEFINE r == [step |-> step, state |-> st, seq |-> seq]
  <2>1. r \in Event
    BY <1>1, <1>2, RuntimeAssumption DEF Event, Core, LogOK, Ahead, TypeOK, Steps
  <2>2. log' = Append(log, r) /\ r.step = step' /\ r.state = tracked' /\ behind' = TRUE /\ snap' = snap
    BY <1>2 DEF Emit
  <2> HIDE DEF r
  <2> QED BY <1>2, <2>1, <2>2, AppendKeepsRecent
<1>3. ASSUME NEW d, NEW s \in Steps, NEW n \in Nat, NEW count, NEW st \in States, NEW then,
             Begin(d, s, n, count, st, then), ~behind, crashes' = crashes
      PROVE  Recent'
  <2> DEFINE r == [step |-> s, state |-> st, seq |-> n]
  <2>1. r \in Event
    BY <1>3 DEF Event
  <2>2. log' = Append(log, r) /\ r.step = step' /\ r.state = tracked' /\ behind' = TRUE /\ snap' = snap
    BY <1>3 DEF Begin
  <2> HIDE DEF r
  <2> QED BY <1>3, <2>1, <2>2, AppendKeepsRecent
<1>4. {"acting", "observing", "done", "thinking", "init"} \cup Awaiting \subseteq States
      /\ {"awaiting_user", "awaiting_permission", "awaiting_sub_agent"} \subseteq States
  BY DEF States, Awaiting
<1>5. ASSUME NEW d, NEW count, NewStep(d, count), ~behind, crashes' = crashes PROVE Recent'
  <2>1. started' = started + 1 /\ started < MaxSteps /\ Begin(d, started', 0, count, "init", "think")
    BY <1>5 DEF NewStep
  <2>2. PICK s \in Steps : s = started'
    BY <2>1, RuntimeAssumption DEF Core, TypeOK, Steps
  <2>3. Begin(d, s, 0, count, "init", "think")
    BY <2>1, <2>2
  <2> QED BY <1>3, <1>4, <1>5, <2>3
<1>6. CASE StoreState /\ crashes' = crashes
  BY <1>6, StoreKeepsRecent
<1>7. CASE crashes' = crashes /\ (NextRound \/ \E d \in {"loop", "host"} : StartTurn(d))
  BY <1>5, <1>7 DEF NextRound, StartTurn, At
<1>8. CASE crashes' = crashes /\ Resume
  <2>1. log # <<>> /\ ~behind
    BY <1>8 DEF Resume, At
  <2>2. Latest \in DOMAIN log
    BY <2>1, LatestIsLast
  <2>3. log[Latest] \in Event
    BY <1>1, <2>2
  <2>4. PICK s \in Steps : s = log[Latest].step
    BY <2>3 DEF Event
  <2>5. PICK n \in Nat : n = ResumeSeq
    BY <2>3 DEF Event, ResumeSeq
  <2>6. CASE snap[s] \in Awaiting
    <3>1. Begin("host", s, n, 0, snap[s], "idle")
      BY <1>8, <2>4, <2>5, <2>6 DEF Resume
    <3> QED BY <1>3, <1>4, <1>8, <2>1, <2>6, <3>1
  <2>7. CASE snap[s] \notin Awaiting
    <3>1. Begin("host", s, n, 0, "init", "think")
      BY <1>8, <2>4, <2>5, <2>7 DEF Resume
    <3> QED BY <1>3, <1>4, <1>8, <2>1, <3>1
  <2> QED BY <2>6, <2>7
<1>9. CASE crashes' = crashes /\ (Think \/ AwaitUser \/ SubAgentSpawned \/ Pass \/ Refuse \/ Executed)
  BY <1>2, <1>4, <1>9 DEF Think, AwaitUser, SubAgentSpawned, Pass, Refuse, Executed, At, AtCall
<1>10. ASSUME NEW st, EmitRaises(st), crashes' = crashes PROVE Recent'
  BY <1>10, QuietKeepsRecent DEF EmitRaises, store, run
<1>11. CASE crashes' = crashes /\ (StepDone \/ SpawnSubAgent \/ Question)
  BY <1>2, <1>4, <1>10, <1>11 DEF StepDone, SpawnSubAgent, Question, At, AtCall
<1>12. CASE crashes' = crashes /\ (TurnEnds \/ ThinkingEnds \/ Raises)
  BY <1>12, QuietKeepsRecent DEF TurnEnds, ThinkingEnds, Raises, store, run
<1>13. CASE crashes' = crashes /\ (Ask \/ DeleteCheckpoint \/ \E answer \in Answers : Answer(answer))
  BY <1>13, QuietKeepsRecent DEF Ask, DeleteCheckpoint, Answer, run
<1>14. CASE Crash
  BY <1>14, CrashKeepsRecent
<1>15. CASE UNCHANGED vars
  BY <1>15, QuietKeepsRecent DEF vars, store, run
<1> QED BY <1>6, <1>7, <1>8, <1>9, <1>11, <1>12, <1>13, <1>14, <1>15 DEF Next, Runtime

\* The kept state of a step, which resuming goes by, is behind its events by
\* the one being stored and at most one for every crash.
THEOREM KeptStateIsRecent == Spec => []StateIsRecent
<1>1. Init => Recent
  <2> SUFFICES ASSUME Init PROVE Recent
    OBVIOUS
  <2>1. \A s : Rows(s) = {}
    BY DEF Init, Rows
  <2>2. crashes = 0 /\ ~behind /\ \A s \in Steps : snap[s] = "none" /\ Storing(s) = 0
    BY DEF Init, Storing
  <2>3. \A s \in Steps : Cardinality(Rows(s)) <= Storing(s) + crashes
    BY <2>1, <2>2, FS_EmptySet
  <2> QED BY <2>2, <2>3 DEF Recent, StoresLast, StateIsRecent
<1>2. Recent => StateIsRecent
  BY DEF Recent
<1> QED BY <1>1, <1>2, CoreHolds, RecentNext, PTL DEF Spec
=============================================================================
