------------------------------ MODULE FileJobs ------------------------------
(***************************************************************************)
(* PDF jobs: the five handlers that save uploads, record a job, run the    *)
(* tools and answer; the download handler; the file_records table; the two *)
(* directories; and the cleanup that removes files by age and archives     *)
(* expired records.  handler/pdf.go, service/pdf_service.go,               *)
(* repository/file_record.go, scheduler/cleanup.go.                        *)
(* A job is one request; names on disk and record ids are fresh UUIDs, so  *)
(* jobs never share a file or a record.                                    *)
(***************************************************************************)
EXTENDS Naturals

CONSTANTS
  Jobs, Downloads, Cleaners,
  Operations,          \* the operations requested, a subset of AllOperations
  None,
  Retention,           \* FILE_RETENTION, for files (by mtime) and for records
  MaxTime, MaxCrashes  \* bounds on the clock and on crashes

\* What sets the handlers apart: the uploads they save and the intermediate
\* files their tool leaves in the generated directory while it runs.
LockPDF     == [op |-> "lock_pdf",     inputs |-> {"in1"}, pieces |-> {}]
UnlockPDF   == [op |-> "unlock_pdf",   inputs |-> {"in1"}, pieces |-> {}]
CompressPDF == [op |-> "compress_pdf", inputs |-> {"in1"}, pieces |-> {}]
MergePDF    == [op |-> "merge_pdf",    inputs |-> {"in1", "in2"}, pieces |-> {}]
SplitPDF    == [op |-> "split_pdf",    inputs |-> {"in1"}, pieces |-> {"page1", "page2"}]

AllOperations == {LockPDF, UnlockPDF, CompressPDF, MergePDF, SplitPDF}

ASSUME JobsAssumption ==
  /\ Operations \subseteq AllOperations /\ Retention \in Nat
  /\ MaxTime \in Nat /\ MaxCrashes \in Nat
  /\ None \notin Nat \cup Jobs /\ None \notin AllOperations
  /\ None \notin [status : {"pending", "completed", "failed"}, path : BOOLEAN,
                  expires : Nat, archived : BOOLEAN]

VARIABLES
  now,
  disk,    \* <<job, name>> -> modification time, or None: not on disk
  whole,   \* the jobs whose output was written to its end
  unflushed, \* history: splits whose ZIP failed to close, which nobody was told
  job,     \* the requests in progress: step, operation, files to write, expiry
  rec,     \* table file_records: job -> row or None
  clean,   \* the cleanup runs
  dl,      \* the downloads in progress and how they ended
  crashes

vars == <<now, disk, whole, unflushed, job, rec, clean, dl, crashes>>

Uploads == {"in1", "in2"}
Pieces  == {"page1", "page2"}
File    == Jobs \X (Uploads \cup Pieces \cup {"out"})
Record  == [status : {"pending", "completed", "failed"}, path : BOOLEAN,
            expires : Nat, archived : BOOLEAN]
Steps   == {"idle", "saving", "prepared", "working", "writing", "done", "broken",
            "told_ok", "told_error", "lost"}

Job     == [pc : Steps, op : AllOperations \cup {None}, todo : SUBSET (Uploads \cup Pieces),
            expires : Nat]
Run     == [pc : {"rest", "dirs", "db"}, start : Nat, victim : File \cup {None},
            todo : SUBSET Jobs]
Fetch   == [pc : {"idle", "cleared", "verified", "served", "gone", "torn", "bare404"},
            job : Jobs \cup {None}]

Resting == [pc |-> "rest", start |-> 0, victim |-> None, todo |-> {}]

Init ==
  /\ now = 0 /\ crashes = 0 /\ whole = {} /\ unflushed = {}
  /\ disk = [f \in File |-> None] /\ rec = [j \in Jobs |-> None]
  /\ job = [j \in Jobs |-> [pc |-> "idle", op |-> None, todo |-> {}, expires |-> 0]]
  /\ clean = [c \in Cleaners |-> Resting]
  /\ dl = [d \in Downloads |-> [pc |-> "idle", job |-> None]]

OnDisk(j, n) == disk[<<j, n>>] # None

\* os.Remove of a job's files; a file that is not there is no matter.
Removed_FirstOnly(j, names) ==
  [f \in File |-> IF f[1] = j /\ f[2] \in names \ {"in2", "page2"} THEN None ELSE disk[f]]
Removed(j, names) == [f \in File |-> IF f[1] = j /\ f[2] \in names THEN None ELSE disk[f]]
-----------------------------------------------------------------------------
(* A job, up to its record. *)

Upload(j, o) ==
  /\ job[j].pc = "idle"
  /\ job' = [job EXCEPT ![j] = [pc |-> "saving", op |-> o, todo |-> o.inputs, expires |-> 0]]
  /\ UNCHANGED <<now, disk, whole, unflushed, rec, clean, dl, crashes>>

SaveUploadedFile(j, n) ==
  /\ job[j].pc = "saving" /\ n \in job[j].todo
  /\ disk' = [disk EXCEPT ![<<j, n>>] = now]
  /\ job' = [job EXCEPT ![j].todo = @ \ {n}]
  /\ UNCHANGED <<now, whole, unflushed, rec, clean, dl, crashes>>

\* The record is filled in, with its expiry, before the last checks (unlock
\* runs qpdf --is-encrypted in between) and before the insert.
Prepare(j) ==
  /\ job[j].pc = "saving" /\ job[j].todo = {}
  /\ job' = [job EXCEPT ![j].pc = "prepared", ![j].expires = now + Retention]
  /\ UNCHANGED <<now, disk, whole, unflushed, rec, clean, dl, crashes>>

NewRecord_NoStatus(j) == [status |-> "", path |-> FALSE, expires |-> job[j].expires,
                          archived |-> FALSE]
NewRecord(j) == [status |-> "pending", path |-> FALSE, expires |-> job[j].expires,
                 archived |-> FALSE]

\* An upload that cannot be saved, a parameter or file that is refused, or a
\* failed insert (the row may be there all the same): what was saved is removed.
Refuse(j) ==
  /\ job[j].pc \in {"saving", "prepared"}
  /\ disk' = Removed(j, job[j].op.inputs)
  /\ job' = [job EXCEPT ![j].pc = "told_error", ![j].todo = {}]
  /\ \/ UNCHANGED rec
     \/ job[j].pc = "prepared" /\ rec' = [rec EXCEPT ![j] = NewRecord(j)]
  /\ UNCHANGED <<now, whole, unflushed, clean, dl, crashes>>

CreateRecord(j) ==
  /\ job[j].pc = "prepared"
  /\ rec' = [rec EXCEPT ![j] = NewRecord(j)]
  /\ job' = [job EXCEPT ![j].pc = "working", ![j].todo = job[j].op.pieces]
  /\ UNCHANGED <<now, disk, whole, unflushed, clean, dl, crashes>>
-----------------------------------------------------------------------------
(* The tools.  No step has a deadline: exec.Command runs without a context. *)

\* split: qpdf reads the upload again for every page or range.
WritePiece(j, n) ==
  /\ job[j].pc = "working" /\ n \in job[j].todo /\ OnDisk(j, "in1")
  /\ disk' = [disk EXCEPT ![<<j, n>>] = now]
  /\ job' = [job EXCEPT ![j].todo = @ \ {n}]
  /\ UNCHANGED <<now, whole, unflushed, rec, clean, dl, crashes>>

\* qpdf, Ghostscript or the ZIP writer creates the output, not complete yet.
StartOutput(j) ==
  /\ job[j].pc = "working" /\ job[j].todo = {}
  /\ job[j].op.pieces = {} => \A n \in job[j].op.inputs : OnDisk(j, n)
  /\ disk' = [disk EXCEPT ![<<j, "out">>] = now]
  /\ job' = [job EXCEPT ![j].pc = "writing"]
  /\ UNCHANGED <<now, whole, unflushed, rec, clean, dl, crashes>>

\* The ZIP needs every piece; the pieces are removed afterwards.  An output
\* that was unlinked meanwhile does not come back; compress looks for it.  The
\* ZIP's directory is written by the deferred w.Close(), whose error is dropped.
FinishOutput(j) ==
  /\ job[j].pc = "writing"
  /\ \A n \in job[j].op.pieces : OnDisk(j, n)
  /\ job[j].op = CompressPDF => OnDisk(j, "out")
  /\ disk' = [Removed(j, job[j].op.pieces) EXCEPT
                ![<<j, "out">>] = IF @ = None THEN None ELSE now]
  /\ \/ whole' = whole \cup {j} /\ UNCHANGED unflushed
     \/ job[j].op = SplitPDF /\ unflushed' = unflushed \cup {j} /\ UNCHANGED whole
  /\ job' = [job EXCEPT ![j].pc = "done"]
  /\ UNCHANGED <<now, rec, clean, dl, crashes>>

\* compress: no smaller than the upload, so the upload is copied over it.
CopyOriginal(j) ==
  /\ job[j].pc = "writing" /\ job[j].op = CompressPDF /\ OnDisk(j, "in1")
  /\ disk' = [disk EXCEPT ![<<j, "out">>] = now]
  /\ whole' = whole \cup {j}
  /\ job' = [job EXCEPT ![j].pc = "done"]
  /\ UNCHANGED <<now, unflushed, rec, clean, dl, crashes>>

\* Pieces are removed, the uploads and an incomplete output stay.
ToolFails_Ignored(j) ==
  /\ job[j].pc \in {"working", "writing"}
  /\ job' = [job EXCEPT ![j].pc = "done", ![j].todo = {}]
  /\ UNCHANGED <<now, disk, whole, unflushed, rec, clean, dl, crashes>>

ToolFails(j) ==
  /\ job[j].pc \in {"working", "writing"}
  /\ disk' = Removed(j, job[j].op.pieces)
  /\ job' = [job EXCEPT ![j].pc = "broken", ![j].todo = {}]
  /\ UNCHANGED <<now, whole, unflushed, rec, clean, dl, crashes>>

\* UPDATE file_records SET status, output_path, archived or not; the handlers
\* ignore its error and answer as if it had worked.
UpdateStatus_Renews(j, status, path) ==
  rec' = [rec EXCEPT ![j] = [@ EXCEPT !.status = status, !.path = path,
                                      !.expires = now + Retention]]
UpdateStatus(j, status, path) ==
  \/ rec' = [rec EXCEPT ![j] = [@ EXCEPT !.status = status, !.path = path]]
  \/ UNCHANGED rec

AnswerSuccess(j) ==
  /\ job[j].pc = "done"
  /\ UpdateStatus(j, "completed", TRUE)
  /\ job' = [job EXCEPT ![j].pc = "told_ok"]
  /\ UNCHANGED <<now, disk, whole, unflushed, clean, dl, crashes>>

AnswerFailure(j) ==
  /\ job[j].pc = "broken"
  /\ UpdateStatus(j, "failed", FALSE)
  /\ job' = [job EXCEPT ![j].pc = "told_error"]
  /\ UNCHANGED <<now, disk, whole, unflushed, clean, dl, crashes>>
-----------------------------------------------------------------------------
(* Download: the row and its expiry, then os.Stat, then http.ServeFile.     *)

Downloadable(r) == r # None /\ r.status = "completed" /\ r.path

Download(d, j) ==
  /\ dl[d].pc \notin {"cleared", "verified"}
  /\ Downloadable(rec[j]) /\ ~(now > rec[j].expires)
  /\ dl' = [dl EXCEPT ![d] = [pc |-> "cleared", job |-> j]]
  /\ UNCHANGED <<now, disk, whole, unflushed, job, rec, clean, crashes>>

Stat(d) ==
  /\ dl[d].pc = "cleared"
  /\ dl' = [dl EXCEPT ![d].pc = IF OnDisk(dl[d].job, "out") THEN "verified" ELSE "gone"]
  /\ UNCHANGED <<now, disk, whole, unflushed, job, rec, clean, crashes>>

ServeFile(d) ==
  /\ dl[d].pc = "verified"
  /\ dl' = [dl EXCEPT ![d].pc = IF ~OnDisk(dl[d].job, "out") THEN "bare404"
                                ELSE IF dl[d].job \in whole THEN "served" ELSE "torn"]
  /\ UNCHANGED <<now, disk, whole, unflushed, job, rec, clean, crashes>>
-----------------------------------------------------------------------------
(* Cleanup: files older than the cutoff of the run's start, then records.   *)

Aged_Early(f, t) == disk[f] # None /\ disk[f] + Retention <= t
Aged(f, t) == disk[f] # None /\ disk[f] + Retention < t

CleanStart(c) ==
  /\ clean[c].pc = "rest"
  /\ clean' = [clean EXCEPT ![c] = [Resting EXCEPT !.pc = "dirs", !.start = now]]
  /\ UNCHANGED <<now, disk, whole, unflushed, job, rec, dl, crashes>>

\* entry.Info, then os.Remove, which may hit a file written anew in between.
SeeFile_UploadsOnly(c, f) ==
  /\ clean[c].pc = "dirs" /\ clean[c].victim = None /\ Aged(f, clean[c].start) /\ f[2] \in Uploads
  /\ clean' = [clean EXCEPT ![c].victim = f]
  /\ UNCHANGED <<now, disk, whole, unflushed, job, rec, dl, crashes>>

SeeFile(c, f) ==
  /\ clean[c].pc = "dirs" /\ clean[c].victim = None /\ Aged(f, clean[c].start)
  /\ clean' = [clean EXCEPT ![c].victim = f]
  /\ UNCHANGED <<now, disk, whole, unflushed, job, rec, dl, crashes>>

RemoveFile(c) ==
  /\ clean[c].victim # None
  /\ disk' = [disk EXCEPT ![clean[c].victim] = None]
  /\ clean' = [clean EXCEPT ![c].victim = None]
  /\ UNCHANGED <<now, whole, unflushed, job, rec, dl, crashes>>

RemoveFails(c) ==
  /\ clean[c].victim # None
  /\ clean' = [clean EXCEPT ![c].victim = None]
  /\ UNCHANGED <<now, disk, whole, unflushed, job, rec, dl, crashes>>

\* WHERE expires_at < NOW() AND archived_at IS NULL.
GetExpired_OnlyCompleted == {j \in Jobs : /\ rec[j] # None /\ rec[j].expires < now
                                          /\ ~rec[j].archived /\ rec[j].status = "completed"}
GetExpired == {j \in Jobs : rec[j] # None /\ rec[j].expires < now /\ ~rec[j].archived}

\* The scan is over, complete or not (errors only skip files).
CleanDB(c) ==
  /\ clean[c].pc = "dirs" /\ clean[c].victim = None
  /\ clean' = [clean EXCEPT ![c].pc = "db", ![c].todo = GetExpired]
  /\ UNCHANGED <<now, disk, whole, unflushed, job, rec, dl, crashes>>

QueryFails(c) ==
  /\ clean[c].pc = "dirs" /\ clean[c].victim = None
  /\ clean' = [clean EXCEPT ![c].pc = "rest"]
  /\ UNCHANGED <<now, disk, whole, unflushed, job, rec, dl, crashes>>

ArchiveByID(c, j) ==
  /\ clean[c].pc = "db" /\ j \in clean[c].todo
  /\ rec' = [rec EXCEPT ![j] = [@ EXCEPT !.archived = TRUE, !.path = FALSE]]
  /\ clean' = [clean EXCEPT ![c].todo = @ \ {j}]
  /\ UNCHANGED <<now, disk, whole, unflushed, job, dl, crashes>>

ArchiveFails(c, j) ==
  /\ clean[c].pc = "db" /\ j \in clean[c].todo
  /\ clean' = [clean EXCEPT ![c].todo = @ \ {j}]
  /\ UNCHANGED <<now, disk, whole, unflushed, job, rec, dl, crashes>>

CleanDone(c) ==
  /\ clean[c].pc = "db" /\ clean[c].todo = {}
  /\ clean' = [clean EXCEPT ![c].pc = "rest"]
  /\ UNCHANGED <<now, disk, whole, unflushed, job, rec, dl, crashes>>
-----------------------------------------------------------------------------
\* The process dies and starts again on the same volume and database.
Crash ==
  /\ crashes < MaxCrashes
  /\ crashes' = crashes + 1
  /\ job' = [j \in Jobs |-> IF job[j].pc \in {"idle", "told_ok", "told_error", "lost"}
                            THEN job[j] ELSE [job[j] EXCEPT !.pc = "lost", !.todo = {}]]
  /\ clean' = [c \in Cleaners |-> Resting]
  /\ dl' = [d \in Downloads |-> [pc |-> "idle", job |-> None]]
  /\ UNCHANGED <<now, disk, whole, unflushed, rec>>

Tick ==
  /\ now < MaxTime
  /\ now' = now + 1
  /\ UNCHANGED <<disk, whole, unflushed, job, rec, clean, dl, crashes>>

Handle(j) ==
  \/ \E o \in Operations : Upload(j, o)
  \/ \E n \in Uploads : SaveUploadedFile(j, n)
  \/ Prepare(j) \/ Refuse(j) \/ CreateRecord(j)
  \/ \E n \in Pieces : WritePiece(j, n)
  \/ StartOutput(j) \/ FinishOutput(j) \/ CopyOriginal(j) \/ ToolFails(j)
  \/ AnswerSuccess(j) \/ AnswerFailure(j)

Clean(c) ==
  \/ CleanStart(c) \/ CleanDB(c) \/ QueryFails(c) \/ CleanDone(c)
  \/ RemoveFile(c) \/ RemoveFails(c) \/ \E f \in File : SeeFile(c, f)
  \/ \E j \in clean[c].todo : ArchiveByID(c, j) \/ ArchiveFails(c, j)

Next ==
  \/ \E j \in Jobs : Handle(j)
  \/ \E d \in Downloads : Stat(d) \/ ServeFile(d) \/ \E j \in Jobs : Download(d, j)
  \/ \E c \in Cleaners : Clean(c)
  \/ Crash \/ Tick

Spec == Init /\ [][Next]_vars

\* cron starts a run again and again; neither the query, nor reading one file's
\* times, nor os.Remove, nor archiving one record fails for ever.
Fairness ==
  /\ \A c \in Cleaners : WF_vars(Clean(c))
  /\ SF_vars(\E c \in Cleaners : CleanDB(c))
  /\ \A f \in File : SF_vars(\E c \in Cleaners : SeeFile(c, f))
  /\ SF_vars(\E c \in Cleaners : RemoveFile(c))
  /\ \A j \in Jobs : SF_vars(\E c \in Cleaners : j \in clean[c].todo /\ ArchiveByID(c, j))

FairSpec == Spec /\ Fairness
-----------------------------------------------------------------------------
(* Properties.                                                              *)

\* Every variable has its type.
TypeOK ==
  /\ now \in Nat /\ crashes \in Nat
  /\ whole \subseteq Jobs /\ unflushed \subseteq Jobs
  /\ disk \in [File -> Nat \cup {None}]
  /\ rec \in [Jobs -> Record \cup {None}]
  /\ job \in [Jobs -> Job] /\ clean \in [Cleaners -> Run] /\ dl \in [Downloads -> Fetch]

\* What a record offers for download is there, complete, until the record
\* expires: cleanup goes by the files' modification times and with a cutoff of
\* its own, the record by a time fixed before the job ran.
KeptUntilExpiry ==
  \A j \in Jobs : Downloadable(rec[j]) /\ now <= rec[j].expires =>
                     OnDisk(j, "out") /\ j \in whole \cup unflushed

\* A download never delivers an output that a tool did not finish, whatever
\* failed, crashed or was cleaned up between its three looks at the job; only a
\* ZIP whose closing error was dropped can be delivered incomplete.
NeverTorn == \A d \in Downloads : dl[d].pc = "torn" => dl[d].job \in unflushed

\* What the users of the service can see of it.
Offered(j) ==
  IF Downloadable(rec[j]) /\ now <= rec[j].expires
  THEN [until |-> rec[j].expires, complete |-> j \in whole] ELSE None
Got(pc) == CASE pc = "idle" -> "nothing" [] pc \in {"cleared", "verified"} -> "waiting"
             [] pc = "served" -> "all of it" [] pc = "torn" -> "a part"
             [] pc \in {"gone", "bare404"} -> "missing"

ASSUME OfferAssumption == None \notin [until : Nat, complete : BOOLEAN]

Seen(d) == [result |-> dl[d].job, complete |-> dl[d].job \in whole, got |-> Got(dl[d].pc)]

shelf  == [j \in Jobs |-> Offered(j)]
reader == [d \in Downloads |-> Seen(d)]

Shelf == INSTANCE ResultShelf WITH
  Results <- Jobs, Readers <- Downloads, Empty <- None, Nobody <- None

\* The service implements ResultShelf: neither cleanup, a slow tool, a second
\* update of a record nor a restart takes a result off before its time or puts
\* it back afterwards, and a download that found one is served unless its time
\* ran out under way.
ShelfSpec == Shelf!Spec

\* A request that was refused before the insert leaves no upload behind, nor
\* does any finished job leave intermediate files of a split.
NothingLeftBehind ==
  \A j \in Jobs :
    /\ job[j].pc = "told_error" /\ rec[j] = None => \A n \in Uploads : ~OnDisk(j, n)
    /\ job[j].pc \in {"told_ok", "told_error"} => \A n \in Pieces : ~OnDisk(j, n)

\* Cleanup catches up with what failed jobs, refused updates and crashes left:
\* every file older than the retention is removed, whatever record it had.
AgedRemoved == \A f \in File : Aged(f, now) ~> ~Aged(f, now)

\* Every expired record, finished or not, is eventually archived.
ExpiredArchived ==
  \A j \in Jobs : (rec[j] # None /\ rec[j].expires < now) ~> (rec[j] # None /\ rec[j].archived)
=============================================================================
