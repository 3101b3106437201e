--------------------------- MODULE PasteLifecycle ---------------------------
(***************************************************************************)
(* Pastes: the service that creates and reads them, the pastes table, the  *)
(* object store behind archive uploads, and the sweeps that remove expired *)
(* pastes.  One action per step that other goroutines can interleave with: *)
(* each SQL statement and each call of the object store is one step, with  *)
(* its failures.  paste_service.go, repository/paste.go,                   *)
(* scheduler/paste_cleanup.go, storage/imagekit.go.                        *)
(***************************************************************************)
EXTENDS Naturals

CONSTANTS
  Ids,         \* what generatePasteID can return
  Files,       \* FileIDs the object store can issue; it never reissues one
  Requests,    \* creations in flight at the same time
  Sweeps,      \* sweeps in flight at the same time (cron.New() lets runs overlap)
  None, Never, \* absent id, file, row or receipt; expires_at IS NULL
  ArchiveTTL,  \* archiveTTL
  TextTTLs,    \* the lifetimes parseTTL can return, Never included
  StoreModes,  \* whether a (re)started process may have an IMAGEKIT_PRIVATE_KEY
  IdRaces,     \* can a random id hit one that an unfinished operation still holds?
  MaxTime, MaxReads, MaxCrashes \* bounds on the clock, on reads per paste, on crashes

ASSUME PasteAssumption ==
  /\ ArchiveTTL \in Nat /\ TextTTLs \subseteq Nat \cup {Never} /\ Never \notin Nat
  /\ None \notin Files \cup Ids
  /\ None \notin [id : Ids, file : Files \cup {None}]
  /\ None \notin [expires : Nat \cup {Never}, file : Files \cup {None}, views : Nat]
  /\ StoreModes \subseteq BOOLEAN /\ IdRaces \in BOOLEAN
  /\ MaxTime \in Nat /\ MaxReads \in Nat /\ MaxCrashes \in Nat

VARIABLES
  now,       \* the clock that the application and the database share
  storeOn,   \* PasteService.store # nil in the running process
  rows,      \* table pastes: id -> row or None
  stored,    \* the objects the store holds
  name,      \* FileID -> the id that starts the object's name; None: not issued
  req,       \* the creations in progress
  sweep,     \* the sweeps in progress: entries still to do, entry being done
  pending,   \* id -> view-count goroutines not finished
  receipts,  \* history: the creations answered with success
  abandoned, \* history: objects that a fault (a lost reply, a failed
             \* compensating delete, a crash) left without an owner
  reads,     \* history: id -> how often the current row was served
  crashes

vars == <<now, storeOn, rows, stored, name, req, sweep, pending, receipts,
          abandoned, reads, crashes>>

Expiry   == Nat \cup {Never}
Row      == [expires : Expiry, file : Files \cup {None}, views : Nat]
Entry    == [id : Ids, file : Files \cup {None}]
Receipt  == [id : Ids, expires : Expiry, file : Files \cup {None}]
Request  == [pc : {"idle", "upload", "insert", "undo"}, id : Ids \cup {None},
             file : Files \cup {None}, expires : Expiry]

Idle     == [pc |-> "idle", id |-> None, file |-> None, expires |-> Never]
AtRest   == [todo |-> {}, cur |-> None]

\* Both comparisons of the code are strict: ExpiresAt.Before(now), expires_at < NOW().
Expired(e) == e # Never /\ e < now

ParseTTL(ttl) == IF ttl = Never THEN Never ELSE now + ttl

Entries(s)  == sweep[s].todo \cup ({sweep[s].cur} \ {None})
Drawn(r)    == req[r].pc \in {"upload", "insert"}
Held(id)    == \/ \E r \in Requests : Drawn(r) /\ req[r].id = id
               \/ \E s \in Sweeps : \E e \in Entries(s) : e.id = id
               \/ pending[id] > 0

Init ==
  /\ now = 0 /\ storeOn \in StoreModes /\ crashes = 0
  /\ rows = [i \in Ids |-> None] /\ receipts = {}
  /\ pending = [i \in Ids |-> 0] /\ reads = [i \in Ids |-> 0]
  /\ stored = {} /\ abandoned = {} /\ name = [f \in Files |-> None]
  /\ req = [r \in Requests |-> Idle] /\ sweep = [s \in Sweeps |-> AtRest]
-----------------------------------------------------------------------------
(* Creation.  The id is checked against the table when it is drawn; the     *)
(* primary key checks it again when the row is inserted.                    *)

GenerateUniqueID(id) == rows[id] = None /\ (IdRaces \/ ~Held(id))

\* The expiry of a text paste is fixed before the insert, that of an archive
\* only after the upload (PutOk).
CreatePaste(r, id, ttl) ==
  /\ req[r].pc = "idle" /\ GenerateUniqueID(id)
  /\ req' = [req EXCEPT ![r] = [pc |-> "insert", id |-> id, file |-> None,
                                expires |-> ParseTTL(ttl)]]
  /\ UNCHANGED <<now, storeOn, rows, stored, name, sweep, pending, receipts,
                 abandoned, reads, crashes>>

CreateArchivePaste(r, id) ==
  /\ storeOn /\ req[r].pc = "idle" /\ GenerateUniqueID(id)
  /\ req' = [req EXCEPT ![r] = [Idle EXCEPT !.pc = "upload", !.id = id]]
  /\ UNCHANGED <<now, storeOn, rows, stored, name, sweep, pending, receipts,
                 abandoned, reads, crashes>>

\* store.Delete: the object is gone, whether it was there or not (ErrNotFound).
DeleteObject_Forgotten(f) == UNCHANGED stored
DeleteObject(f) == stored' = stored \ {f}

PutOk(r, f) ==
  /\ req[r].pc = "upload" /\ name[f] = None
  /\ name' = [name EXCEPT ![f] = req[r].id]
  /\ stored' = stored \cup {f}
  /\ req' = [req EXCEPT ![r] = [pc |-> "insert", id |-> req[r].id, file |-> f,
                                expires |-> now + ArchiveTTL]]
  /\ UNCHANGED <<now, storeOn, rows, sweep, pending, receipts, abandoned, reads, crashes>>

\* An upload error: nothing was stored, or the object was and only the reply is lost.
PutFails(r) ==
  /\ req[r].pc = "upload"
  /\ req' = [req EXCEPT ![r] = Idle]
  /\ \/ UNCHANGED <<name, stored, abandoned>>
     \/ \E f \in Files :
          /\ name[f] = None
          /\ name' = [name EXCEPT ![f] = req[r].id]
          /\ stored' = stored \cup {f}
          /\ abandoned' = abandoned \cup {f}
  /\ UNCHANGED <<now, storeOn, rows, sweep, pending, receipts, reads, crashes>>

\* The unique-violation check of the primary key of pastes.
PrimaryKeyFree_Upsert(id) == TRUE
PrimaryKeyFree(id) == rows[id] = None

\* INSERT INTO pastes.
InsertRow(r) ==
  LET id == req[r].id IN
  /\ PrimaryKeyFree(id)
  /\ rows' = [rows EXCEPT ![id] = [expires |-> req[r].expires, file |-> req[r].file,
                                   views |-> 0]]
  /\ reads' = [reads EXCEPT ![id] = 0]

InsertOk(r) ==
  /\ req[r].pc = "insert"
  /\ InsertRow(r)
  /\ receipts' = receipts \cup {[id |-> req[r].id, expires |-> req[r].expires,
                                 file |-> req[r].file]}
  /\ req' = [req EXCEPT ![r] = Idle]
  /\ UNCHANGED <<now, storeOn, stored, name, sweep, pending, abandoned, crashes>>

AfterFailedInsert_Leaves(r) == Idle
AfterFailedInsert_Always(r) == [req[r] EXCEPT !.pc = "undo"]
AfterFailedInsert(r) ==
  IF req[r].file = None THEN Idle ELSE [req[r] EXCEPT !.pc = "undo"]

\* An insert error: no row (the primary key's refusal is one reason), or the
\* row is there and only the reply is lost.
InsertFails(r) ==
  /\ req[r].pc = "insert"
  /\ req' = [req EXCEPT ![r] = AfterFailedInsert(r)]
  /\ InsertRow(r) \/ UNCHANGED <<rows, reads>>
  /\ UNCHANGED <<now, storeOn, stored, name, sweep, pending, receipts, abandoned, crashes>>

\* The compensating delete; its failure is only logged.
UndoUpload(r) ==
  /\ req[r].pc = "undo"
  /\ req' = [req EXCEPT ![r] = Idle]
  /\ \/ DeleteObject(req[r].file) /\ UNCHANGED abandoned
     \/ abandoned' = abandoned \cup {req[r].file} /\ UNCHANGED stored
  /\ UNCHANGED <<now, storeOn, rows, name, sweep, pending, receipts, reads, crashes>>
-----------------------------------------------------------------------------
(* Reading.  The view is counted by a detached goroutine.                   *)

GetPaste_CountsFirst(id) ==
  /\ rows[id] # None /\ reads[id] < MaxReads /\ pending[id] < MaxReads
  /\ reads' = IF Expired(rows[id].expires) THEN reads ELSE [reads EXCEPT ![id] = @ + 1]
  /\ pending' = [pending EXCEPT ![id] = @ + 1]
  /\ UNCHANGED <<now, storeOn, rows, stored, name, req, sweep, receipts, abandoned, crashes>>

GetPaste(id) ==
  /\ rows[id] # None
  /\ ~Expired(rows[id].expires)
  /\ reads[id] < MaxReads
  /\ reads' = [reads EXCEPT ![id] = @ + 1]
  /\ pending' = [pending EXCEPT ![id] = @ + 1]
  /\ UNCHANGED <<now, storeOn, rows, stored, name, req, sweep, receipts, abandoned, crashes>>

\* The UPDATE names the id only; it fails or finds no row without effect.
IncrementViewCount(id) ==
  /\ pending[id] > 0
  /\ pending' = [pending EXCEPT ![id] = @ - 1]
  /\ \/ rows[id] # None /\ rows' = [rows EXCEPT ![id].views = @ + 1]
     \/ UNCHANGED rows
  /\ UNCHANGED <<now, storeOn, stored, name, req, sweep, receipts, abandoned, reads, crashes>>
-----------------------------------------------------------------------------
(* A sweep: one query, then per entry the object and after it the row.      *)

ExpiredRows == {j \in Ids : rows[j] # None /\ Expired(rows[j].expires)}
GetExpired_Inclusive == {[id |-> i, file |-> rows[i].file] :
                           i \in {j \in Ids : /\ rows[j] # None /\ rows[j].expires # Never
                                              /\ rows[j].expires <= now}}
GetExpired_OnlyText == {[id |-> i, file |-> rows[i].file] :
                          i \in {j \in ExpiredRows : rows[j].file = None}}
GetExpired == {[id |-> i, file |-> rows[i].file] : i \in ExpiredRows}

SweepStart(s) ==
  /\ sweep[s] = AtRest
  /\ sweep' = [sweep EXCEPT ![s] = [todo |-> GetExpired, cur |-> None]]
  /\ UNCHANGED <<now, storeOn, rows, stored, name, req, pending, receipts,
                 abandoned, reads, crashes>>

\* Past the storage step; a text paste has no object.
SweepObject(s, e) ==
  /\ sweep[s].cur = None /\ e \in sweep[s].todo
  /\ e.file # None => storeOn
  /\ DeleteObject(e.file)
  /\ sweep' = [sweep EXCEPT ![s] = [todo |-> @.todo \ {e}, cur |-> e]]
  /\ UNCHANGED <<now, storeOn, rows, name, req, pending, receipts, abandoned, reads, crashes>>

\* Archive storage is disabled or its delete failed (with or without effect):
\* the row is kept for a later sweep.
SweepKeep_Proceeds(s, e) ==
  /\ sweep[s].cur = None /\ e \in sweep[s].todo
  /\ sweep' = [sweep EXCEPT ![s] = [todo |-> @.todo \ {e}, cur |-> e]]
  /\ UNCHANGED <<now, storeOn, rows, stored, name, req, pending, receipts, abandoned,
                 reads, crashes>>

SweepKeep(s, e) ==
  /\ sweep[s].cur = None /\ e \in sweep[s].todo
  /\ e.file # None
  /\ UNCHANGED stored \/ (storeOn /\ DeleteObject(e.file))
  /\ sweep' = [sweep EXCEPT ![s].todo = @ \ {e}]
  /\ UNCHANGED <<now, storeOn, rows, name, req, pending, receipts, abandoned, reads, crashes>>

\* DELETE FROM pastes WHERE id = $1, whatever row has that id by now.
SweepRow(s) ==
  /\ sweep[s].cur # None
  /\ rows' = [rows EXCEPT ![sweep[s].cur.id] = None]
  /\ sweep' = [sweep EXCEPT ![s].cur = None]
  /\ UNCHANGED <<now, storeOn, stored, name, req, pending, receipts, abandoned, reads, crashes>>

SweepRowFails(s) ==
  /\ sweep[s].cur # None
  /\ sweep' = [sweep EXCEPT ![s].cur = None]
  /\ UNCHANGED <<now, storeOn, rows, stored, name, req, pending, receipts,
                 abandoned, reads, crashes>>
-----------------------------------------------------------------------------
\* The process dies (or a shutdown is forced) and starts again: everything in
\* memory is gone, a view-count goroutine included.
Crash ==
  /\ crashes < MaxCrashes
  /\ crashes' = crashes + 1
  /\ storeOn' \in StoreModes
  /\ abandoned' = abandoned \cup ({req[r].file : r \in Requests} \ {None})
  /\ req' = [r \in Requests |-> Idle]
  /\ sweep' = [s \in Sweeps |-> AtRest]
  /\ pending' = [i \in Ids |-> 0]
  /\ UNCHANGED <<now, rows, stored, name, receipts, reads>>

Tick ==
  /\ now < MaxTime
  /\ now' = now + 1
  /\ UNCHANGED <<storeOn, rows, stored, name, req, sweep, pending, receipts,
                 abandoned, reads, crashes>>

Create(r) ==
  \/ \E id \in Ids, ttl \in TextTTLs : CreatePaste(r, id, ttl)
  \/ \E id \in Ids : CreateArchivePaste(r, id)
  \/ \E f \in Files : PutOk(r, f)
  \/ PutFails(r) \/ InsertOk(r) \/ InsertFails(r) \/ UndoUpload(r)

Sweep(s) ==
  \/ SweepStart(s) \/ SweepRow(s) \/ SweepRowFails(s)
  \/ \E e \in sweep[s].todo : SweepObject(s, e) \/ SweepKeep(s, e)

Next ==
  \/ \E r \in Requests : Create(r)
  \/ \E id \in Ids : GetPaste(id) \/ IncrementViewCount(id)
  \/ \E s \in Sweeps : Sweep(s)
  \/ Crash \/ Tick

Spec == Init /\ [][Next]_vars

\* cron starts a sweep again and again and a started sweep runs on; the store
\* and the database do not refuse the same paste's removal for ever.
Fairness ==
  /\ \A s \in Sweeps : WF_vars(Sweep(s))
  /\ \A i \in Ids :
       /\ SF_vars(\E s \in Sweeps : \E e \in sweep[s].todo : e.id = i /\ SweepObject(s, e))
       /\ SF_vars(\E s \in Sweeps : sweep[s].cur # None /\ sweep[s].cur.id = i /\ SweepRow(s))

FairSpec == Spec /\ Fairness
-----------------------------------------------------------------------------
(* Properties.                                                              *)

\* Every variable has its type (the clock and the counters included).
TypeOK ==
  /\ now \in Nat /\ storeOn \in BOOLEAN /\ crashes \in Nat
  /\ rows \in [Ids -> Row \cup {None}]
  /\ stored \subseteq Files /\ abandoned \subseteq Files
  /\ name \in [Files -> Ids \cup {None}]
  /\ req \in [Requests -> Request]
  /\ \A r \in Requests : /\ req[r].pc # "idle" => req[r].id \in Ids
                         /\ req[r].pc = "undo" => req[r].file \in Files
  /\ sweep \in [Sweeps -> [todo : SUBSET Entry, cur : Entry \cup {None}]]
  /\ pending \in [Ids -> Nat] /\ reads \in [Ids -> Nat]
  /\ receipts \subseteq Receipt

\* A creation that was answered with success (201, id, expires_at) keeps its
\* promise until that time, whatever creations, sweeps, failures and restarts
\* happen meanwhile: the row is there with that expiry and that archive, and
\* the store holds the archive.
ReceiptHonoured ==
  \A c \in receipts : ~Expired(c.expires) =>
     /\ rows[c.id] # None
     /\ rows[c.id].expires = c.expires /\ rows[c.id].file = c.file
     /\ c.file # None => c.file \in stored

\* "a failure never orphans a file whose row is already gone"
\* (scheduler/paste_cleanup.go): every stored object belongs to a row or to a
\* creation in progress, unless a fault of the store or a crash abandoned it.
NoOrphan ==
  \A f \in stored : \/ \E i \in Ids : rows[i] # None /\ rows[i].file = f
                    \/ \E r \in Requests : req[r].file = f
                    \/ f \in abandoned

\* The view count shown for a paste never exceeds the times it was served, the
\* counts still under way included (view_count is incremented later, by a
\* goroutine that knows only the id).
ViewsSound ==
  \A i \in Ids : rows[i] # None => rows[i].views + pending[i] <= reads[i]

\* What the users of the service can see of it.
Posting(i) ==
  IF rows[i] = None THEN None
  ELSE [expires |-> rows[i].expires,
        body |-> IF rows[i].file = None THEN "text"
                 ELSE IF rows[i].file \in stored THEN "archive" ELSE "lost",
        told |-> IF [id |-> i, expires |-> rows[i].expires, file |-> rows[i].file]
                      \in receipts THEN "created" ELSE "failed"]
posted == [i \in Ids |-> Posting(i)]

ASSUME PostingAssumption ==
  None \notin [expires : Nat \cup {Never}, body : {"text", "archive", "lost"},
              told : {"created", "failed"}]

Board == INSTANCE PasteBoard WITH Vacant <- None, board <- posted

\* The service implements PasteBoard: its sweeps remove nothing but expired
\* pastes, the object before the row, and its compensating deletes hit nothing
\* but creations that were reported as failed.
BoardSpec == Board!Spec

\* Every expired paste is eventually removed although deletes fail, sweeps are cut
\* short and the process restarts; an archive paste only if archive storage is
\* enabled again for good.
ExpiredRemoved ==
  \A i \in Ids :
    LET Overdue == rows[i] # None /\ Expired(rows[i].expires) IN
    /\ (Overdue /\ rows[i].file = None) ~> (rows[i] = None)
    /\ <>[]storeOn => (Overdue ~> (rows[i] = None))
=============================================================================
