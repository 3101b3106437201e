------------------------------- MODULE Server -------------------------------
(***************************************************************************)
(* The process: main starts the pool, the schedulers and the HTTP server,  *)
(* waits for a signal and takes them down in order, while request          *)
(* handlers, scheduled runs and detached goroutines use the pool.          *)
(* cmd/server/main.go, Start and Stop of the three schedulers,             *)
(* database/postgres.go.  What a task does with the database is left to    *)
(* the module that composes it with this one (PasteServer).                *)
(***************************************************************************)
EXTENDS Naturals, FiniteSets, Sequences, SequencesExt

CONSTANTS
  Order,     \* the schedulers, in the order main starts and stops them
  Requests,  \* requests served at the same time
  Slots,     \* runs that the cron of one scheduler has under way at the same time
  PoolSize   \* MaxConns

Schedulers == ToSet(Order)

\* The goroutines: handlers, the view counts they leave behind, the runs cron
\* starts (and waits for in Stop) and the run each Start adds on its own.
Handlers  == {"handler"} \X Requests
Views     == {"view"} \X Requests
CronRuns  == {"cron"} \X (Schedulers \X Slots)
FirstRuns == {"first"} \X Schedulers
Task      == Handlers \cup Views \cup CronRuns \cup FirstRuns

ASSUME ServerAssumption ==
  /\ Order \in Seq(STRING) /\ IsInjective(Order) /\ PoolSize \in Nat \ {0}

VARIABLES
  main,    \* where main() is
  next,    \* index of the scheduler to start or stop next
  server,  \* the goroutine of ListenAndServe
  cron,    \* scheduler -> whether its cron starts runs
  task,    \* task -> "none", "running", or "querying": it holds a connection
  pool,
  ending,  \* how the process ended, "none" while it lives
  cut      \* history: <<task, state>> of the tasks under way when it ended

svars == <<main, next, server, cron, task, pool, ending, cut>>

Active == {t \in Task : task[t] # "none"}
Conns  == {t \in Task : task[t] = "querying"}

Init ==
  /\ main = "connect" /\ next = 1 /\ server = "off" /\ pool = "none"
  /\ cron = [s \in Schedulers |-> FALSE] /\ task = [t \in Task |-> "none"]
  /\ ending = "none" /\ cut = {}

\* The process is gone, with all that it had under way.
End(how) ==
  /\ main' = "ended" /\ next' = 1 /\ server' = "off" /\ pool' = "none"
  /\ cron' = [s \in Schedulers |-> FALSE] /\ task' = [t \in Task |-> "none"]
  /\ ending' = how /\ cut' = {<<t, task[t]>> : t \in Active}
-----------------------------------------------------------------------------
(* main: starting.                                                          *)

\* database.New returns no pool when it fails.
Connect_ErrorIgnored ==
  /\ main = "connect"
  /\ main' = "start" /\ pool' \in {"open", "nil"}
  /\ UNCHANGED <<next, server, cron, task, ending, cut>>
Connect ==
  /\ main = "connect"
  /\ main' = "start" /\ pool' = "open"
  /\ UNCHANGED <<next, server, cron, task, ending, cut>>

\* Every error of the set-up ends in os.Exit(1).
StartFails == main \in {"connect", "start"} /\ End("failed")

\* AddFunc, cron.Start and `go c.run()`, which cron does not know of.
StartScheduler ==
  /\ main = "start" /\ next <= Len(Order)
  /\ cron' = [cron EXCEPT ![Order[next]] = TRUE]
  /\ task' = [task EXCEPT ![<<"first", Order[next]>>] = "running"]
  /\ next' = next + 1
  /\ UNCHANGED <<main, server, pool, ending, cut>>

\* `go ListenAndServe`, then signal.Notify.
Launch ==
  /\ main = "start" /\ next > Len(Order)
  /\ main' = "launched" /\ server' = "opening"
  /\ UNCHANGED <<next, cron, task, pool, ending, cut>>

Notify ==
  /\ main = "launched"
  /\ main' = "serve"
  /\ UNCHANGED <<next, server, cron, task, pool, ending, cut>>

Listen ==
  /\ server = "opening"
  /\ server' = "open"
  /\ UNCHANGED <<main, next, cron, task, pool, ending, cut>>

ListenFails == server \in {"opening", "open"} /\ End("failed")

\* SIGINT or SIGTERM.  Before Notify it kills; a second one is never read.
Signal ==
  \/ main \in {"connect", "start", "launched"} /\ End("killed")
  \/ /\ main = "serve"
     /\ main' = "stop" /\ next' = 1
     /\ UNCHANGED <<server, cron, task, pool, ending, cut>>

Kill == main # "ended" /\ End("killed")
-----------------------------------------------------------------------------
(* main: stopping.                                                          *)

Stopping == main = "stop" /\ next <= Len(Order)

\* Stop, first half: no further run is started.
StopCron ==
  /\ Stopping /\ cron[Order[next]]
  /\ cron' = [cron EXCEPT ![Order[next]] = FALSE]
  /\ UNCHANGED <<main, next, server, task, pool, ending, cut>>

\* Stop, second half: <-ctx.Done() waits for the runs cron started.
RunsDone_NotAwaited(s) == TRUE
RunsDone(s) == \A i \in Slots : task[<<"cron", <<s, i>>>>] = "none"

StopReturns ==
  /\ Stopping /\ ~cron[Order[next]] /\ RunsDone(Order[next])
  /\ next' = next + 1
  /\ UNCHANGED <<main, server, cron, task, pool, ending, cut>>

\* srv.Shutdown: the listener is closed, then it waits for the handlers.
Shutdown ==
  /\ main = "stop" /\ next > Len(Order)
  /\ main' = "drain" /\ server' = "shut"
  /\ UNCHANGED <<next, cron, task, pool, ending, cut>>

Drained ==
  /\ main = "drain" /\ Handlers \cap Active = {}
  /\ main' = "close"
  /\ UNCHANGED <<next, server, cron, task, pool, ending, cut>>

\* 30 seconds have passed (Shutdown looks at the handlers at intervals only):
\* os.Exit(1), without the deferred pool.Close.
DrainTimeout_Returns ==
  /\ main = "drain" /\ main' = "close"
  /\ UNCHANGED <<next, server, cron, task, pool, ending, cut>>
DrainTimeout_NoDeadline == main = "drain" /\ Handlers \cap Active = {} /\ End("failed")
DrainTimeout == main = "drain" /\ End("failed")

\* The deferred pool.Close: nobody gets a connection any more, then it waits
\* for those in use; then the process exits with 0.
ClosePool ==
  /\ main = "close" /\ pool = "open"
  /\ pool' = "closed"
  /\ UNCHANGED <<main, next, server, cron, task, ending, cut>>

Exit_NotAwaited == main = "close" /\ pool = "closed" /\ End("graceful")
Exit == main = "close" /\ pool = "closed" /\ Conns = {} /\ End("graceful")

\* docker: restart: unless-stopped, or the next deployment.
Restart ==
  /\ main = "ended"
  /\ main' = "connect" /\ ending' = "none" /\ cut' = {}
  /\ UNCHANGED <<next, server, cron, task, pool>>
-----------------------------------------------------------------------------
(* Tasks. *)

Become(t, s) ==
  /\ task' = [task EXCEPT ![t] = s]
  /\ UNCHANGED <<main, next, server, cron, pool, ending, cut>>

Accept(h)  == server = "open" /\ h \in Handlers /\ task[h] = "none" /\ Become(h, "running")

\* cron.New() lets a run start while an earlier one of the same job goes on.
CronRun(t) == /\ t \in CronRuns /\ cron[t[2][1]]
              /\ task[t] = "none" /\ Become(t, "running")

Acquire(t) == /\ task[t] = "running" /\ pool = "open" /\ Cardinality(Conns) < PoolSize
              /\ Become(t, "querying")

\* The task gets no connection: its context ended, or the pool is closed.
AcquireFails(t) == task[t] = "running" /\ UNCHANGED svars

Release(t) == task[t] = "querying" /\ Become(t, "running")

\* A handler that has read a paste leaves a goroutine behind to count the view.
ReleaseAndCount(r) ==
  /\ task[<<"handler", r>>] = "querying" /\ task[<<"view", r>>] = "none"
  /\ task' = [task EXCEPT ![<<"handler", r>>] = "running", ![<<"view", r>>] = "running"]
  /\ UNCHANGED <<main, next, server, cron, pool, ending, cut>>

Finish(t) == task[t] = "running" /\ Become(t, "none")

Starting == Connect \/ StartScheduler \/ Launch \/ Notify \/ Listen
Ending   == StartFails \/ ListenFails \/ Kill \/ DrainTimeout \/ Exit
Leaving  == StopCron \/ StopReturns \/ Shutdown \/ Drained \/ ClosePool

Next ==
  \/ Starting \/ Leaving \/ Ending \/ Signal \/ Restart
  \/ \E t \in Task : Accept(t) \/ CronRun(t) \/ Acquire(t) \/ Release(t) \/ Finish(t)
  \/ \E r \in Requests : ReleaseAndCount(r)

Spec == Init /\ [][Next]_svars

\* main goes on; the queries of scheduled runs and the runs themselves end, as
\* their contexts have deadlines (30 s, 45 s, 2 min), and when the 30 seconds of
\* Shutdown have passed it does return.  Nothing is assumed of handlers, whose
\* tools have no deadline, nor of view counts, whose context has none.
Fairness ==
  /\ WF_svars(Leaving) /\ WF_svars(DrainTimeout) /\ WF_svars(Exit)
  /\ \A t \in CronRuns \cup FirstRuns : WF_svars(Release(t)) /\ SF_svars(Finish(t))

FairSpec == Spec /\ Fairness
-----------------------------------------------------------------------------
(* Properties.                                                              *)

\* Every variable has its type.
TypeOK ==
  /\ main \in {"connect", "start", "launched", "serve", "stop", "drain", "close", "ended"}
  /\ next \in 1 .. Len(Order) + 1
  /\ server \in {"off", "opening", "open", "shut"} /\ pool \in {"none", "open", "closed"}
  /\ cron \in [Schedulers -> BOOLEAN] /\ task \in [Task -> {"none", "running", "querying"}]
  /\ ending \in {"none", "graceful", "failed", "killed"}
  /\ cut \subseteq Task \X {"running", "querying"}

\* A handler or a run that cron started never meets a closed pool, however the
\* phases of the shutdown interleave with requests and overlapping runs.
PoolOutlivesWork == pool = "closed" => (Handlers \cup CronRuns) \cap Active = {}

\* "server stopped gracefully" (main.go): when the process ends with code 0 no
\* request and no scheduled run is cut off, and of the goroutines nobody waits
\* for (the runs at start, view counts) none in the middle of a statement.
GracefulCutsNothing ==
  ending = "graceful" =>
    \A c \in cut : c[1] \in Views \cup FirstRuns /\ c[2] = "running"

\* After a signal the process ends, although requests may hang and cron runs
\* overlap - unless a view count's statement, which has no deadline, never returns.
Stops ==
  []<>(Views \cap Conns = {}) => (main = "stop" ~> main = "ended")
=============================================================================
