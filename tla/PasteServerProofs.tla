-------------------------- MODULE PasteServerProofs --------------------------
(***************************************************************************)
(* Theorems about PasteServer: the composition implements both its parts,  *)
(* so that what is proved of the pastes and of the process holds of the    *)
(* pastes inside the process, and what ties the two together.              *)
(***************************************************************************)
EXTENDS PasteServer, PasteLifecycleProofs

CountingType == counting \in [Requests -> Ids \cup {None}]
-----------------------------------------------------------------------------
\* The process of the composition is a Server.
LEMMA ServerAssumed ==
  Order \in Seq(STRING) /\ S!IsInjective(Order) /\ PoolSize \in Nat \ {0}
  BY ComposedAssumption

\* Handlers, view counts and sweeps are tasks of the process, each of its kind.
LEMMA Tasks ==
  /\ \A r \in Requests : Handler(r) \in S!Handlers /\ View(r) \in S!Views
  /\ Sweeps \subseteq S!Task /\ S!CronRuns \subseteq Sweeps
  /\ S!Handlers \subseteq S!Task /\ S!Views \subseteq S!Task
  /\ \A r \in Requests : Handler(r) \notin Sweeps /\ View(r) \notin Sweeps
  /\ \A r, q \in Requests : /\ Handler(r) # View(q)
                            /\ Handler(r) = Handler(q) => r = q
  BY ComposedAssumption DEF Handler, View, S!Handlers, S!Views, S!Task, S!CronRuns, S!FirstRuns

\* The composition starts as its parts do.
LEMMA InitParts == StartUp => Init /\ S!Init /\ CountingType
  BY DEF StartUp, CountingType

\* A view is counted for an id.
LEMMA CountingStep == CountingType /\ [Run]_allvars => CountingType'
<1> SUFFICES ASSUME CountingType, [Run]_allvars PROVE CountingType'
  OBVIOUS
<1> USE DEF CountingType
<1>1. ASSUME NEW r \in Requests, HandlerStep(r)
      PROVE  CountingType'
  BY <1>1 DEF HandlerStep, Accept, Draw, CallStore, Insert, Read, ReadFails, Answer, CountView,
     ViewCounted, Did, own
<1>2. ASSUME NEW s \in Sweeps, RunStep(s)
      PROVE  CountingType'
  BY <1>2 DEF RunStep, CronRun, ListExpired, ReadFails, CleanStep, RunEnds, Did, own
<1>3. CASE MainGoesOn \/ Dies \/ (Tick /\ UNCHANGED <<svars, own>>)
  BY <1>3 DEF MainGoesOn, Dies, own
<1>4. ASSUME NEW t \in S!Task, Acquire(t)
      PROVE  CountingType'
  BY <1>4 DEF Acquire, own
<1>5. CASE UNCHANGED allvars
  BY <1>5 DEF allvars, own
<1> QED
  BY <1>1, <1>2, <1>3, <1>4, <1>5 DEF Run

\* What a step of the composition is for the pastes.
LEMMA LifecycleStep == CountingType /\ [Run]_allvars => [Next]_vars
<1> SUFFICES ASSUME CountingType, [Run]_allvars PROVE [Next]_vars
  OBVIOUS
<1>1. ASSUME NEW r \in Requests, HandlerStep(r)
      PROVE  [Next]_vars
  <2>1. CASE Draw(r)
    BY <2>1 DEF Draw, Next, Create
  <2>2. CASE CallStore(r) \/ Insert(r)
    BY <2>2 DEF CallStore, Insert, Next, Create
  <2>3. CASE Read(r)
    BY <2>3 DEF Read, Next
  <2>4. CASE CountView(r)
    BY <2>4 DEF CountView, CountingType, Next
  <2>5. CASE Accept(r) \/ ReadFails(Handler(r)) \/ Answer(r) \/ ViewCounted(r)
    BY <2>5 DEF Accept, ReadFails, Answer, ViewCounted
  <2> QED
    BY <1>1, <2>1, <2>2, <2>3, <2>4, <2>5 DEF HandlerStep
<1>2. ASSUME NEW s \in Sweeps, RunStep(s)
      PROVE  [Next]_vars
  <2>1. CASE CleanStep(s)
    BY <2>1 DEF CleanStep, Next, Sweep
  <2>2. CASE ListExpired(s)
    BY <2>2 DEF ListExpired, Next, Sweep
  <2>3. CASE CronRun(s) \/ ReadFails(s) \/ RunEnds(s)
    BY <2>3 DEF CronRun, ReadFails, RunEnds
  <2> QED
    BY <1>2, <2>1, <2>2, <2>3 DEF RunStep
<1>3. CASE MainGoesOn \/ Dies \/ (Tick /\ UNCHANGED <<svars, own>>)
  BY <1>3 DEF MainGoesOn, Dies, Next
<1>4. ASSUME NEW t \in S!Task, Acquire(t)
      PROVE  [Next]_vars
  BY <1>4 DEF Acquire
<1>5. CASE UNCHANGED allvars
  BY <1>5 DEF allvars
<1> QED
  BY <1>1, <1>2, <1>3, <1>4, <1>5 DEF Run

\* What a step of the composition is for the process.
LEMMA ServerStep == [Run]_allvars => [S!Next]_(S!svars)
<1> SUFFICES ASSUME [Run]_allvars PROVE [S!Next]_svars
  BY DEF svars, S!svars
<1> USE Tasks
<1>1. ASSUME NEW r \in Requests, HandlerStep(r)
      PROVE  [S!Next]_svars
  <2>1. CASE Accept(r) \/ Draw(r) \/ Answer(r) \/ ViewCounted(r)
    BY <2>1 DEF Accept, Draw, Answer, ViewCounted, S!Next
  <2>2. CASE CallStore(r)
    BY <2>2 DEF CallStore
  <2>3. CASE Insert(r) \/ ReadFails(Handler(r)) \/ CountView(r)
    BY <2>3 DEF Insert, ReadFails, CountView, S!AcquireFails, S!Next, S!svars, svars
  <2>4. CASE Read(r)
    BY <2>4 DEF Read, S!Next
  <2> QED
    BY <1>1, <2>1, <2>2, <2>3, <2>4 DEF HandlerStep
<1>2. ASSUME NEW s \in Sweeps, RunStep(s)
      PROVE  [S!Next]_svars
  <2>1. s \in S!Task
    BY ComposedAssumption DEF S!Task
  <2>2. CASE CronRun(s) \/ ListExpired(s) \/ RunEnds(s)
    BY <2>1, <2>2 DEF CronRun, ListExpired, RunEnds, S!Next
  <2>3. CASE ReadFails(s) \/ CleanStep(s)
    BY <2>1, <2>3 DEF ReadFails, CleanStep, S!AcquireFails, S!Next, S!svars, svars
  <2> QED
    BY <1>2, <2>2, <2>3 DEF RunStep
<1>3. CASE MainGoesOn \/ Dies
  BY <1>3 DEF MainGoesOn, Dies, MainStep, S!Next
<1>4. ASSUME NEW t \in S!Task, Acquire(t)
      PROVE  [S!Next]_svars
  BY <1>4 DEF Acquire, S!Next
<1>5. CASE (Tick /\ UNCHANGED <<svars, own>>) \/ UNCHANGED allvars
  BY <1>5 DEF allvars
<1> QED
  BY <1>1, <1>2, <1>3, <1>4, <1>5 DEF Run

\* Inside the process that serves them, the pastes behave as PasteLifecycle says
\* and the process as Server says, whatever the two do to each other.
THEOREM ImplementsParts == Served => Spec /\ S!Spec
<1>1. StartUp => Init /\ S!Init /\ CountingType
  BY InitParts
<1>2. CountingType /\ [Run]_allvars => CountingType'
  BY CountingStep
<1>3. CountingType /\ [Run]_allvars => [Next]_vars
  BY LifecycleStep
<1>4. [Run]_allvars => [S!Next]_(S!svars)
  BY ServerStep
<1> QED
  BY <1>1, <1>2, <1>3, <1>4, PTL DEF Served, Spec, S!Spec

\* A creation or a sweep in progress is the work of a task that has begun it.
Tied ==
  /\ done \subseteq S!Task
  /\ \A r \in Requests : req[r] # Idle => Handler(r) \in S!Active \cap done
  /\ \A s \in Sweeps : sweep[s] # AtRest => s \in S!Active \cap done

\* A task goes on as long as its creation or its sweep.
LEMMA TiedStep ==
  TypeOK /\ S!TypeOK /\ CountingType /\ Tied /\ [Run]_allvars => Tied'
<1> SUFFICES ASSUME TypeOK, S!TypeOK, CountingType, Tied, [Run]_allvars PROVE Tied'
  OBVIOUS
<1> USE Tasks DEF Tied, S!Active
<1>0. /\ req \in [Requests -> Request] /\ DOMAIN sweep = Sweeps
      /\ task \in [S!Task -> {"none", "running", "querying"}]
  BY DEF TypeOK, S!TypeOK
<1>1. ASSUME NEW r \in Requests, HandlerStep(r)
      PROVE  Tied'
  <2>1. CASE Accept(r)
    BY <1>0, <2>1 DEF Accept, S!Accept, S!Become, vars, own
  <2>2. CASE Draw(r)
    <3>1. /\ task' = [task EXCEPT ![Handler(r)] = "running"] /\ UNCHANGED sweep
          /\ done' = done \cup {Handler(r)} /\ \A q \in Requests \ {r} : req'[q] = req[q]
      BY <1>0, <2>2 DEF Draw, S!Release, S!Become, Did, CreatePaste, CreateArchivePaste
    <3> QED
      BY <1>0, <3>1
  <2>3. CASE CallStore(r)
    <3>1. /\ UNCHANGED <<task, sweep, done>> /\ req[r] # Idle
          /\ \A q \in Requests \ {r} : req'[q] = req[q]
      BY <1>0, <2>3 DEF CallStore, PutFails, UndoUpload, PutOk, svars, own, Idle
    <3> QED
      BY <1>0, <3>1
  <2>4. CASE Insert(r)
    <3>1. /\ UNCHANGED <<sweep, done>> /\ req[r] # Idle
          /\ UNCHANGED task \/ task' = [task EXCEPT ![Handler(r)] = "running"]
          /\ \A q \in Requests \ {r} : req'[q] = req[q]
      BY <1>0, <2>4 DEF Insert, InsertOk, InsertFails, S!Release, S!Become, S!AcquireFails,
         S!svars, own, Idle
    <3> QED
      BY <1>0, <3>1
  <2>5. CASE Read(r)
    <3>1. /\ UNCHANGED <<req, sweep>> /\ done' = done \cup {Handler(r)}
          /\ task' = [task EXCEPT ![Handler(r)] = "running", ![View(r)] = "running"]
      BY <2>5 DEF Read, GetPaste, S!ReleaseAndCount, Handler, View
    <3> QED
      BY <1>0, <3>1
  <2>6. CASE ReadFails(Handler(r))
    <3>1. /\ UNCHANGED <<req, sweep>> /\ done' = done \cup {Handler(r)}
          /\ UNCHANGED task \/ task' = [task EXCEPT ![Handler(r)] = "running"]
      BY <2>6 DEF ReadFails, Did, S!Release, S!Become, S!AcquireFails, S!svars, vars
    <3> QED
      BY <1>0, <3>1
  <2>7. CASE Answer(r)
    BY <1>0, <2>7 DEF Answer, S!Finish, S!Become, vars
  <2>8. CASE CountView(r)
    <3>1. /\ UNCHANGED <<req, sweep, done>>
          /\ UNCHANGED task \/ task' = [task EXCEPT ![View(r)] = "running"]
      BY <2>8 DEF CountView, IncrementViewCount, S!Release, S!Become, S!AcquireFails, S!svars
    <3> QED
      BY <1>0, <3>1
  <2>9. CASE ViewCounted(r)
    BY <1>0, <2>9 DEF ViewCounted, S!Finish, S!Become, vars, own
  <2> QED
    BY <1>1, <2>1, <2>2, <2>3, <2>4, <2>5, <2>6, <2>7, <2>8, <2>9 DEF HandlerStep
<1>2. ASSUME NEW s \in Sweeps, RunStep(s)
      PROVE  Tied'
  <2>1. CASE CronRun(s)
    BY <1>0, <2>1 DEF CronRun, S!CronRun, S!Become, vars, own
  <2>2. CASE ListExpired(s)
    <3>1. /\ task' = [task EXCEPT ![s] = "running"] /\ UNCHANGED req
          /\ done' = done \cup {s} /\ \A t \in Sweeps \ {s} : sweep'[t] = sweep[t]
      BY <1>0, <2>2 DEF ListExpired, S!Release, S!Become, Did, SweepStart
    <3> QED
      BY <1>0, <3>1
  <2>3. CASE ReadFails(s)
    <3>1. /\ UNCHANGED <<req, sweep>> /\ done' = done \cup {s}
          /\ UNCHANGED task \/ task' = [task EXCEPT ![s] = "running"]
      BY <2>3 DEF ReadFails, Did, S!Release, S!Become, S!AcquireFails, S!svars, vars
    <3> QED
      BY <1>0, <3>1
  <2>4. CASE CleanStep(s)
    <3>1. /\ UNCHANGED <<req, done>> /\ sweep[s] # AtRest
          /\ UNCHANGED task \/ task' = [task EXCEPT ![s] = "running"]
          /\ \A t \in Sweeps \ {s} : sweep'[t] = sweep[t]
      BY <1>0, <2>4 DEF CleanStep, SweepObject, SweepKeep, SweepRow, SweepRowFails, S!Release,
         S!Become, S!AcquireFails, S!svars, svars, own, AtRest
    <3> QED
      BY <1>0, <3>1
  <2>5. CASE RunEnds(s)
    BY <1>0, <2>5 DEF RunEnds, S!Finish, S!Become, vars
  <2> QED
    BY <1>2, <2>1, <2>2, <2>3, <2>4, <2>5 DEF RunStep
<1>3. CASE MainGoesOn
  <2>1. \A t \in S!Task : task[t] # "none" => task'[t] # "none"
    BY <1>0, <1>3 DEF MainGoesOn, MainStep, S!Starting, S!Connect, S!StartScheduler, S!Launch,
       S!Notify, S!Listen, S!Leaving, S!StopCron, S!StopReturns, S!Shutdown, S!Drained,
       S!ClosePool, S!Ending, S!StartFails, S!ListenFails, S!Kill, S!DrainTimeout, S!Exit,
       S!Signal, S!End, S!Restart
  <2> QED
    BY <1>0, <1>3, <2>1 DEF MainGoesOn, vars, own
<1>4. CASE Dies
  BY <1>4 DEF Dies, Crash
<1>5. ASSUME NEW t \in S!Task, Acquire(t)
      PROVE  Tied'
  BY <1>0, <1>5 DEF Acquire, S!Acquire, S!Become, vars, own
<1>6. CASE Tick /\ UNCHANGED <<svars, own>>
  BY <1>6 DEF Tick, svars, own
<1>7. CASE UNCHANGED allvars
  BY <1>7 DEF allvars, vars, svars, own
<1> QED
  BY <1>1, <1>2, <1>3, <1>4, <1>5, <1>6, <1>7 DEF Run

\* The process ends in no step of a task or of the clock.
LEMMA EndsByDying ==
  ASSUME [Run]_allvars, ending' # ending, main' = "ended"
  PROVE  Dies
<1> USE DEF S!Accept, S!Become, S!Release, S!Finish, S!AcquireFails, S!svars, svars
<1>1. ASSUME NEW r \in Requests, HandlerStep(r)
      PROVE  FALSE
  BY <1>1 DEF HandlerStep, Accept, Draw, CallStore, Insert, Read, ReadFails, Answer, CountView,
     ViewCounted, S!ReleaseAndCount
<1>2. ASSUME NEW s \in Sweeps, RunStep(s)
      PROVE  FALSE
  BY <1>2 DEF RunStep, CronRun, ListExpired, ReadFails, CleanStep, RunEnds, S!CronRun
<1>3. ASSUME NEW t \in S!Task, Acquire(t)
      PROVE  FALSE
  BY <1>3 DEF Acquire, S!Acquire
<1> QED
  BY <1>1, <1>2, <1>3 DEF Run, MainGoesOn, allvars

\* When the process ends with code 0, main has waited for every handler and every
\* run of cron.
LEMMA GracefulStep ==
  ASSUME S!IInv, Tied, [Run]_allvars, ending = "none", ending' = "graceful"
  PROVE  abandoned' = abandoned /\ \A s \in S!CronRuns : sweep[s] = AtRest
<1>1. [S!Next]_(S!svars)
  BY ServerStep
<1>2. S!Exit
  BY <1>1 DEF S!Next, S!svars, S!Starting, S!Connect, S!StartScheduler, S!Launch, S!Notify,
     S!Listen, S!Leaving, S!StopCron, S!StopReturns, S!Shutdown, S!Drained, S!ClosePool, S!Ending,
     S!StartFails, S!ListenFails, S!Kill, S!DrainTimeout, S!Signal, S!End, S!Restart, S!Accept,
     S!CronRun, S!Acquire, S!Release, S!Finish, S!Become, S!ReleaseAndCount
<1>3. (S!Handlers \cup S!CronRuns) \cap S!Active = {}
  BY <1>2, S!Outlives, ServerAssumed DEF S!Exit, S!PoolOutlivesWork
<1>4. /\ \A r \in Requests : req[r] = Idle
      /\ \A s \in S!CronRuns : sweep[s] = AtRest
  BY <1>3, Tasks DEF Tied
<1>5. abandoned' = abandoned
  <2>1. Dies
    BY <1>2, EndsByDying DEF S!Exit, S!End
  <2>2. {req[r].file : r \in Requests} \ {None} = {}
    BY <1>4 DEF Idle
  <2> QED
    BY <2>1, <2>2 DEF Dies, Crash
<1> QED
  BY <1>4, <1>5

\* What is proved of the two parts holds in the composition, with what ties them.
LEMMA ComposedInv == Served => [](TypeOK /\ S!IInv /\ CountingType /\ Tied)
<1>1. Spec => []TypeOK
  BY TypeCorrect
<1>2. S!Spec => []S!IInv
  BY S!Invariance, ServerAssumed
<1>3. S!IInv => S!TypeOK
  BY DEF S!IInv
<1>4. StartUp => CountingType /\ Tied
  BY InitParts DEF StartUp, Tied, Init
<1>5. CountingType /\ [Run]_allvars => CountingType'
  BY CountingStep
<1>6. TypeOK /\ S!TypeOK /\ CountingType /\ Tied /\ [Run]_allvars => Tied'
  BY TiedStep
<1> QED
  BY <1>1, <1>2, <1>3, <1>4, <1>5, <1>6, ImplementsParts, PTL DEF Served
-----------------------------------------------------------------------------
(* The theorems. *)

\* The types of both parts, and that creations, sweeps and view counts exist only
\* as tasks of the process.
THEOREM ComposedTypes == Served => []ComposedTypeOK
<1>1. TypeOK /\ S!IInv /\ CountingType /\ Tied => ComposedTypeOK
  BY DEF ComposedTypeOK, CountingType, Tied, S!IInv
<1> QED
  BY <1>1, ComposedInv, PTL

\* An exit with code 0 abandons no archive between its upload and its row, and
\* leaves no run that cron started half done, with any number of requests,
\* overlapping runs and connections.
THEOREM GracefulKeepsAll == Served => GracefulLosesNothing
<1>1. S!IInv /\ Tied /\ [Run]_allvars =>
        [ending = "none" /\ ending' = "graceful" =>
           /\ abandoned' = abandoned
           /\ \A s \in S!CronRuns : sweep[s] = AtRest]_allvars
  BY GracefulStep
<1> QED
  BY <1>1, ComposedInv, PTL DEF Served, GracefulLosesNothing

\* What is promised of pastes is kept inside the process too, however it is
\* started, stopped, killed or starved of connections.
THEOREM PastesServed ==
  ASSUME ~IdRaces
  PROVE  Served => [](ReceiptHonoured /\ NoOrphan /\ ViewsSound)
<1>1. Spec => []ReceiptHonoured
  BY ReceiptsHonoured DEF Undisturbed
<1>2. Spec => []NoOrphan
  BY NoOrphans DEF Undisturbed
<1>3. Spec => []ViewsSound
  BY ViewsBounded
<1> QED
  BY <1>1, <1>2, <1>3, ImplementsParts, PTL
=============================================================================
