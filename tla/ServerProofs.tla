---------------------------- MODULE ServerProofs ----------------------------
(***************************************************************************)
(* Theorems about Server for every list of schedulers, any number of       *)
(* requests and overlapping runs, and any size of the pool.                *)
(***************************************************************************)
EXTENDS Server, TLAPS

\* What Stop has been through: no further runs, and none of cron's left.
Stopped(s) == ~cron[s] /\ RunsDone(s)

\* How far main() has got says what the rest of the process can be doing.
PhaseInv ==
  /\ pool = "closed" => main = "close"
  /\ main \in {"connect", "ended"} =>
       Active = {} /\ server = "off" /\ \A s \in Schedulers : ~cron[s]
  /\ server \in {"opening", "open"} => main \in {"launched", "serve", "stop"}
  /\ main \in {"stop", "drain", "close"} => \A k \in 1 .. next - 1 : Stopped(Order[k])
  /\ main \in {"drain", "close"} => next > Len(Order)
  /\ main = "close" => Handlers \cap Active = {}
  /\ ending # "none" => main = "ended"

IInv == TypeOK /\ PhaseInv /\ GracefulCutsNothing
-----------------------------------------------------------------------------
\* The kinds of tasks are told apart.
LEMMA TaskKinds ==
  /\ Handlers \cap (Views \cup CronRuns \cup FirstRuns) = {}
  /\ Views \cap (CronRuns \cup FirstRuns) = {} /\ CronRuns \cap FirstRuns = {}
  BY DEF Handlers, Views, CronRuns, FirstRuns

\* Every scheduler has a place in the order.
LEMMA OrderSound ==
  /\ Len(Order) \in Nat
  /\ \A k \in 1 .. Len(Order) : Order[k] \in Schedulers
  /\ \A s \in Schedulers : \E k \in 1 .. Len(Order) : s = Order[k]
  BY ServerAssumption DEF Schedulers, ToSet

\* The initial states are well typed.
LEMMA InitType == Init => TypeOK
  BY OrderSound DEF Init, TypeOK

\* A task changes its state and nothing else.
LEMMA BecomeType ==
  ASSUME TypeOK, NEW t \in Task, NEW s \in {"none", "running", "querying"}, Become(t, s)
  PROVE  TypeOK'
  BY DEF TypeOK, Become

\* The end of the process leaves it well typed.
LEMMA EndType ==
  ASSUME TypeOK, NEW how \in {"graceful", "failed", "killed"}, End(how)
  PROVE  TypeOK'
<1>1. cut' \subseteq Task \X {"running", "querying"}
  BY DEF TypeOK, End, Active
<1> QED
  BY <1>1, OrderSound DEF TypeOK, End

\* Every action keeps the types.
LEMMA TypeStep == TypeOK /\ [Next]_svars => TypeOK'
<1> SUFFICES ASSUME TypeOK, [Next]_svars PROVE TypeOK'
  OBVIOUS
<1>1. CASE Starting
  <2>1. CASE StartScheduler
    <3>1. Order[next] \in Schedulers /\ <<"first", Order[next]>> \in Task
      BY <2>1, OrderSound DEF StartScheduler, TypeOK, Task, FirstRuns
    <3>2. task' \in [Task -> {"none", "running", "querying"}]
      BY <2>1, <3>1 DEF StartScheduler, TypeOK
    <3> QED
      BY <2>1, <3>1, <3>2, OrderSound DEF StartScheduler, TypeOK
  <2>2. CASE Connect \/ Launch \/ Notify \/ Listen
    BY <2>2 DEF Connect, Launch, Notify, Listen, TypeOK
  <2> QED
    BY <1>1, <2>1, <2>2 DEF Starting
<1>2. CASE Leaving
  <2>1. CASE StopCron
    BY <2>1, OrderSound DEF StopCron, Stopping, TypeOK
  <2>2. CASE StopReturns
    BY <2>2, OrderSound DEF StopReturns, Stopping, TypeOK
  <2>3. CASE Shutdown \/ Drained \/ ClosePool
    BY <2>3 DEF Shutdown, Drained, ClosePool, TypeOK
  <2> QED
    BY <1>2, <2>1, <2>2, <2>3 DEF Leaving
<1>3. CASE Ending
  BY <1>3, EndType DEF Ending, StartFails, ListenFails, Kill, DrainTimeout, Exit
<1>4. CASE Signal
  <2>1. CASE End("killed")
    BY <2>1, EndType
  <2>2. CASE main = "serve" /\ main' = "stop" /\ next' = 1
              /\ UNCHANGED <<server, cron, task, pool, ending, cut>>
    BY <2>2, OrderSound DEF TypeOK
  <2> QED
    BY <1>4, <2>1, <2>2 DEF Signal
<1>5. CASE Restart
  BY <1>5 DEF Restart, TypeOK
<1>6. ASSUME NEW t \in Task, Accept(t) \/ CronRun(t) \/ Acquire(t) \/ Release(t) \/ Finish(t)
      PROVE  TypeOK'
  BY <1>6, BecomeType DEF Accept, CronRun, Acquire, Release, Finish
<1>7. ASSUME NEW r \in Requests, ReleaseAndCount(r)
      PROVE  TypeOK'
  BY <1>7 DEF ReleaseAndCount, TypeOK
<1>8. CASE UNCHANGED svars
  BY <1>8 DEF svars, TypeOK
<1> QED
  BY <1>1, <1>2, <1>3, <1>4, <1>5, <1>6, <1>7, <1>8 DEF Next
-----------------------------------------------------------------------------
\* The initial states satisfy the invariant.
LEMMA InitIInv == Init => IInv
  BY InitType DEF Init, IInv, PhaseInv, GracefulCutsNothing, Active

\* After the end nothing is left, whatever was under way.
LEMMA EndPhase ==
  ASSUME NEW how \in {"graceful", "failed", "killed"}, End(how)
  PROVE  PhaseInv'
  BY DEF End, PhaseInv, Active

\* A task that goes on, or ends, or that nobody waits for disturbs no phase.
LEMMA BecomePhase ==
  ASSUME IInv, NEW t \in Task, NEW s \in {"none", "running", "querying"}, Become(t, s),
         task[t] # "none" \/ t \notin Handlers \cup CronRuns, task[t] # "none"
  PROVE  PhaseInv'
<1>1. Active' \subseteq Active
  BY DEF Become, Active, IInv, TypeOK
<1>2. \A c \in Schedulers : Stopped(c) => Stopped(c)'
  BY <1>1 DEF Stopped, RunsDone, Become, Active, IInv, TypeOK, Task, CronRuns
<1> QED
  BY <1>1, <1>2, OrderSound DEF PhaseInv, IInv, TypeOK, Become

\* Every action respects the phases.
LEMMA PhaseStep == IInv /\ [Next]_svars => PhaseInv'
<1> SUFFICES ASSUME IInv, [Next]_svars PROVE PhaseInv'
  OBVIOUS
<1> USE DEF IInv
<1>1. CASE Starting
  <2>1. CASE StartScheduler
    BY <2>1 DEF StartScheduler, PhaseInv
  <2>2. CASE Connect \/ Launch \/ Notify \/ Listen
    BY <2>2 DEF Connect, Launch, Notify, Listen, PhaseInv, Active, Stopped, RunsDone
  <2> QED
    BY <1>1, <2>1, <2>2 DEF Starting
<1>2. CASE Leaving
  <2>1. CASE StopCron
    BY <2>1, OrderSound DEF StopCron, Stopping, TypeOK, PhaseInv, Stopped, RunsDone
  <2>2. CASE StopReturns
    BY <2>2, OrderSound DEF StopReturns, Stopping, TypeOK, PhaseInv, Stopped, RunsDone
  <2>3. CASE Shutdown \/ Drained \/ ClosePool
    BY <2>3 DEF Shutdown, Drained, ClosePool, TypeOK, PhaseInv, Stopped, RunsDone, Active
  <2> QED
    BY <1>2, <2>1, <2>2, <2>3 DEF Leaving
<1>3. CASE Ending
  BY <1>3, EndPhase DEF Ending, StartFails, ListenFails, Kill, DrainTimeout, Exit
<1>4. CASE Signal
  <2>1. CASE End("killed")
    BY <2>1, EndPhase
  <2>2. CASE main = "serve" /\ main' = "stop" /\ next' = 1
              /\ UNCHANGED <<server, cron, task, pool, ending, cut>>
    BY <2>2 DEF PhaseInv
  <2> QED
    BY <1>4, <2>1, <2>2 DEF Signal
<1>5. CASE Restart
  BY <1>5 DEF Restart, PhaseInv, Active
<1>6. ASSUME NEW t \in Task, Accept(t)
      PROVE  PhaseInv'
  <2>1. server = "open" /\ t \notin CronRuns /\ task' = [task EXCEPT ![t] = "running"]
        /\ UNCHANGED <<main, next, server, cron, pool, ending, cut>>
    BY <1>6, TaskKinds DEF Accept, Become
  <2>2. \A s \in Schedulers : Stopped(s) => Stopped(s)'
    BY <2>1 DEF Stopped, RunsDone, TypeOK, CronRuns
  <2> QED
    BY <2>1, <2>2, OrderSound DEF PhaseInv, TypeOK
<1>7. ASSUME NEW t \in Task, CronRun(t)
      PROVE  PhaseInv'
  BY <1>7, TaskKinds DEF CronRun, Become, PhaseInv, Active, Stopped, RunsDone, TypeOK, CronRuns
<1>8. ASSUME NEW t \in Task, Acquire(t) \/ Release(t) \/ Finish(t)
      PROVE  PhaseInv'
  BY <1>8, BecomePhase DEF Acquire, Release, Finish
<1>9. ASSUME NEW r \in Requests, ReleaseAndCount(r)
      PROVE  PhaseInv'
  <2>1. <<"handler", r>> \in Handlers /\ <<"view", r>> \in Views
    BY DEF Handlers, Views
  <2>2. /\ <<"handler", r>> \in Handlers \cap Active
        /\ \A t \in Task : t \notin Views => (task'[t] = "none" <=> task[t] = "none")
        /\ UNCHANGED <<main, next, server, cron, pool, ending, cut>>
    BY <1>9, <2>1 DEF ReleaseAndCount, TypeOK, Task, Active
  <2>3. \A s \in Schedulers : Stopped(s) => Stopped(s)'
    BY <2>2, TaskKinds DEF Stopped, RunsDone, Task, CronRuns
  <2> QED
    BY <2>2, <2>3, OrderSound DEF PhaseInv, TypeOK
<1>10. CASE UNCHANGED svars
  BY <1>10 DEF svars, PhaseInv, Active, Stopped, RunsDone
<1> QED
  BY <1>1, <1>2, <1>3, <1>4, <1>5, <1>6, <1>7, <1>8, <1>9, <1>10 DEF Next

\* The phases say that a closed pool has no handler and no run of cron left.
LEMMA Outlives == IInv => PoolOutlivesWork
<1> SUFFICES ASSUME IInv, pool = "closed" PROVE (Handlers \cup CronRuns) \cap Active = {}
  BY DEF PoolOutlivesWork
<1>1. \A s \in Schedulers : Stopped(s)
  BY OrderSound DEF IInv, PhaseInv, TypeOK
<1>2. CronRuns \cap Active = {}
  BY <1>1 DEF Stopped, RunsDone, CronRuns, Active
<1> QED
  BY <1>2 DEF IInv, PhaseInv

\* A graceful end cuts off only what nobody waits for.
LEMMA CutStep == IInv /\ [Next]_svars => GracefulCutsNothing'
<1> SUFFICES ASSUME IInv, [Next]_svars PROVE GracefulCutsNothing'
  OBVIOUS
<1> USE DEF IInv, GracefulCutsNothing
<1>1. ASSUME NEW how \in {"failed", "killed"}, End(how)
      PROVE  GracefulCutsNothing'
  BY <1>1 DEF End
<1>2. CASE Exit
  <2>1. \A t \in Active : t \in Views \cup FirstRuns
    <3>1. (Handlers \cup CronRuns) \cap Active = {}
      BY <1>2, Outlives DEF Exit, PoolOutlivesWork
    <3> QED
      BY <3>1 DEF Active, Task
  <2>2. \A t \in Active : task[t] = "running"
    BY <1>2 DEF Exit, Conns, Active, TypeOK
  <2> QED
    BY <1>2, <2>1, <2>2 DEF Exit, End
<1>3. CASE StartFails \/ ListenFails \/ Kill \/ DrainTimeout
  BY <1>1, <1>3 DEF StartFails, ListenFails, Kill, DrainTimeout
<1>4. CASE Signal
  BY <1>1, <1>4 DEF Signal
<1>5. CASE Starting \/ Leaving
  BY <1>5 DEF Starting, Connect, StartScheduler, Launch, Notify, Listen, Leaving, StopCron,
     StopReturns, Shutdown, Drained, ClosePool
<1>6. CASE Restart
  BY <1>6 DEF Restart
<1>7. ASSUME NEW t \in Task, Accept(t) \/ CronRun(t) \/ Acquire(t) \/ Release(t) \/ Finish(t)
      PROVE  GracefulCutsNothing'
  BY <1>7 DEF Accept, CronRun, Acquire, Release, Finish, Become
<1>8. ASSUME NEW r \in Requests, ReleaseAndCount(r)
      PROVE  GracefulCutsNothing'
  BY <1>8 DEF ReleaseAndCount
<1>9. CASE UNCHANGED svars
  BY <1>9 DEF svars
<1> QED
  BY <1>2, <1>3, <1>4, <1>5, <1>6, <1>7, <1>8, <1>9 DEF Next, Ending
-----------------------------------------------------------------------------
(* The theorems. *)

\* Every reachable state is well typed.
THEOREM TypeCorrect == Spec => []TypeOK
<1>1. Init => TypeOK
  BY InitType
<1>2. TypeOK /\ [Next]_svars => TypeOK'
  BY TypeStep
<1> QED
  BY <1>1, <1>2, PTL DEF Spec

\* The inductive invariant holds in every reachable state.
LEMMA Invariance == Spec => []IInv
<1>1. Init => IInv
  BY InitIInv
<1>2. IInv /\ [Next]_svars => IInv'
  BY TypeStep, PhaseStep, CutStep DEF IInv
<1> QED
  BY <1>1, <1>2, PTL DEF Spec

\* No handler and no run started by cron meets a closed pool, for any number of
\* schedulers, requests and overlapping runs.
THEOREM PoolLast == Spec => []PoolOutlivesWork
<1>1. IInv => PoolOutlivesWork
  BY Outlives
<1> QED
  BY <1>1, Invariance, PTL

\* An exit with code 0 cuts off no request, no scheduled run and no statement.
THEOREM GracefulEnd == Spec => []GracefulCutsNothing
<1>1. IInv => GracefulCutsNothing
  BY DEF IInv
<1> QED
  BY <1>1, Invariance, PTL
=============================================================================
