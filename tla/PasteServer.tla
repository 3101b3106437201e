----------------------------- MODULE PasteServer -----------------------------
(***************************************************************************)
(* Pastes inside the process that serves them: PasteLifecycle composed     *)
(* with Server.  Creations and reads are work of request handlers, sweeps  *)
(* are runs of a scheduler, view counts are goroutines nobody waits for;   *)
(* each SQL statement needs a connection of the pool, and what ends the    *)
(* process is the only crash there is.                                     *)
(***************************************************************************)
EXTENDS PasteLifecycle, Sequences

CONSTANTS Order, Slots, PoolSize

VARIABLES main, next, server, cron, task, pool, ending, cut,  \* of Server
          counting,  \* request -> the paste whose view its goroutine counts, or None
          done       \* tasks that have done what they were started for

S == INSTANCE ServerProofs   \* Server, with what is proved of it

\* The only scheduler here is the one of PasteCleanup; its runs are the sweeps.
ASSUME ComposedAssumption ==
  /\ Order \in Seq(STRING) /\ S!IsInjective(Order) /\ PoolSize \in Nat \ {0}
  /\ Sweeps = S!CronRuns \cup S!FirstRuns

svars == <<main, next, server, cron, task, pool, ending, cut>>
own   == <<counting, done>>
allvars == <<vars, svars, own>>

Handler(r) == <<"handler", r>>
View(r)    == <<"view", r>>

StartUp ==
  /\ Init /\ S!Init
  /\ counting = [r \in Requests |-> None] /\ done = {}

\* Between statements a task holds no connection: not while it talks to the
\* object store, and not when it has nothing left to ask.
WantsDatabase ==
  {Handler(r) : r \in {q \in Requests : req[q].pc = "insert" \/ Handler(q) \notin done}}
    \cup {View(r) : r \in {q \in Requests : counting[q] # None}}
    \cup {s \in Sweeps : sweep[s].cur # None \/ s \notin done}

Acquire(t) == t \in WantsDatabase /\ S!Acquire(t) /\ UNCHANGED <<vars, own>>

Did(t) == done' = done \cup {t} /\ UNCHANGED counting
-----------------------------------------------------------------------------
(* A handler serves one request: a creation or a read.                      *)

Accept(r) == S!Accept(Handler(r)) /\ UNCHANGED <<vars, own>>

\* The id is looked up (IDExists), and found free.
Draw(r) ==
  /\ Handler(r) \notin done /\ S!Release(Handler(r)) /\ Did(Handler(r))
  /\ \/ \E id \in Ids, ttl \in TextTTLs : CreatePaste(r, id, ttl)
     \/ \E id \in Ids : CreateArchivePaste(r, id)

CallStore(r) ==
  /\ task[Handler(r)] = "running"
  /\ PutFails(r) \/ UndoUpload(r) \/ \E f \in Files : PutOk(r, f)
  /\ UNCHANGED <<svars, own>>

Insert(r) ==
  /\ \/ S!Release(Handler(r)) /\ (InsertOk(r) \/ InsertFails(r))
     \/ S!AcquireFails(Handler(r)) /\ InsertFails(r) /\ rows' = rows
  /\ UNCHANGED own

Read(r) ==
  /\ Handler(r) \notin done /\ S!ReleaseAndCount(r)
  /\ \E id \in Ids : GetPaste(id) /\ counting' = [counting EXCEPT ![r] = id]
  /\ done' = done \cup {Handler(r)}

\* The first statement fails, finds nothing or an expired paste: an error answer.
ReadFails(t) ==
  /\ t \notin done /\ Did(t)
  /\ S!Release(t) \/ S!AcquireFails(t)
  /\ UNCHANGED vars

Answer_BeforeStored(r) ==
  /\ Handler(r) \in done /\ S!Finish(Handler(r))
  /\ done' = done \ {Handler(r)} /\ UNCHANGED <<vars, counting>>

Answer(r) ==
  /\ Handler(r) \in done /\ req[r] = Idle /\ S!Finish(Handler(r))
  /\ done' = done \ {Handler(r)} /\ UNCHANGED <<vars, counting>>

\* The detached goroutine of GetPaste.
CountView(r) ==
  /\ counting[r] # None /\ IncrementViewCount(counting[r])
  /\ S!Release(View(r)) \/ (S!AcquireFails(View(r)) /\ rows' = rows)
  /\ counting' = [counting EXCEPT ![r] = None] /\ UNCHANGED done

ViewCounted(r) == counting[r] = None /\ S!Finish(View(r)) /\ UNCHANGED <<vars, own>>
-----------------------------------------------------------------------------
(* A run of the paste cleanup.                                              *)

CronRun(s) == S!CronRun(s) /\ UNCHANGED <<vars, own>>

ListExpired(s) == s \notin done /\ S!Release(s) /\ SweepStart(s) /\ Did(s)

CleanStep(s) ==
  /\ \/ /\ task[s] = "running"
        /\ \E e \in sweep[s].todo : SweepObject(s, e) \/ SweepKeep(s, e)
        /\ UNCHANGED svars
     \/ S!Release(s) /\ (SweepRow(s) \/ SweepRowFails(s))
     \/ S!AcquireFails(s) /\ SweepRowFails(s)
  /\ UNCHANGED own

RunEnds(s) ==
  /\ s \in done /\ sweep[s] = AtRest /\ S!Finish(s)
  /\ done' = done \ {s} /\ UNCHANGED <<vars, counting>>
-----------------------------------------------------------------------------
MainStep ==
  \/ S!Starting \/ S!Leaving \/ S!Ending \/ S!Signal
  \/ S!Restart /\ crashes < MaxCrashes

MainGoesOn == MainStep /\ main' # "ended" /\ UNCHANGED <<vars, own>>

\* Whatever ends the process, a graceful exit included, drops what is in memory.
Dies ==
  /\ MainStep /\ main' = "ended"
  /\ Crash
  /\ counting' = [r \in Requests |-> None] /\ done' = {}

HandlerStep(r) ==
  \/ Accept(r) \/ Draw(r) \/ CallStore(r) \/ Insert(r) \/ Read(r)
  \/ ReadFails(Handler(r)) \/ Answer(r) \/ CountView(r) \/ ViewCounted(r)

RunStep(s) == CronRun(s) \/ ListExpired(s) \/ ReadFails(s) \/ CleanStep(s) \/ RunEnds(s)

Run ==
  \/ MainGoesOn \/ Dies
  \/ \E t \in S!Task : Acquire(t)
  \/ \E r \in Requests : HandlerStep(r)
  \/ \E s \in Sweeps : RunStep(s)
  \/ Tick /\ UNCHANGED <<svars, own>>

Served == StartUp /\ [][Run]_allvars
-----------------------------------------------------------------------------
(* Properties.                                                              *)

\* The types of both parts, and what ties them: creations, sweeps and view
\* counts exist only as tasks of the process.
ComposedTypeOK ==
  /\ TypeOK /\ S!TypeOK
  /\ counting \in [Requests -> Ids \cup {None}] /\ done \subseteq S!Task
  /\ \A r \in Requests : req[r] # Idle => Handler(r) \in S!Active \cap done
  /\ \A s \in Sweeps : sweep[s] # AtRest => s \in S!Active \cap done

\* An exit with code 0 abandons no archive: it falls into no creation between
\* its upload and its row, and no run that cron started is left half done.
GracefulLosesNothing ==
  [][ending = "none" /\ ending' = "graceful" =>
       /\ abandoned' = abandoned
       /\ \A s \in S!CronRuns : sweep[s] = AtRest]_allvars
=============================================================================
