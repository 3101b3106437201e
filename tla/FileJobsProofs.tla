--------------------------- MODULE FileJobsProofs ---------------------------
(***************************************************************************)
(* Theorems about FileJobs for any number of jobs, downloads and cleanups, *)
(* any retention, and any number of failures and restarts.                 *)
(***************************************************************************)
EXTENDS FileJobs, TLAPS

Early     == {"idle", "saving", "prepared"}   \* the steps before the record
Out(j)    == disk[<<j, "out">>]
Offers(j) == rec[j] # None /\ rec[j].status = "completed"

\* A job has a record from its insert on, with the expiry fixed before; only an
\* answered job's record says completed.
RecordOK(j) ==
  /\ job[j].pc # "idle" => job[j].op \in AllOperations
  /\ job[j].pc \in Early => rec[j] = None
  /\ job[j].pc \in {"working", "writing", "done", "broken", "told_ok"} => rec[j] # None
  /\ rec[j] # None => rec[j].expires = job[j].expires
  /\ Offers(j) => job[j].pc = "told_ok"

\* A job's uploads are those of its operation, and its pieces live while the
\* tool runs, or are left behind by a crash.
FilesOK(j) ==
  /\ \A n \in Uploads : OnDisk(j, n) => job[j].pc # "idle" /\ n \in job[j].op.inputs
  /\ \A n \in Pieces : OnDisk(j, n) => /\ job[j].pc \in {"working", "writing", "lost"}
                                       /\ n \in job[j].op.pieces
  /\ job[j].pc = "saving" => job[j].todo \subseteq job[j].op.inputs
  /\ job[j].pc = "working" => job[j].todo \subseteq job[j].op.pieces
  /\ job[j].pc = "told_error" /\ rec[j] = None => \A n \in Uploads : ~OnDisk(j, n)

\* The output is never too old before the record expires, so it is there, or the
\* time of the record is over.
OutputOK(j) ==
  /\ job[j].expires <= now + Retention
  /\ Out(j) # None => job[j].pc \notin Early /\ job[j].expires <= Out(j) + Retention
  /\ job[j].pc \in {"writing", "done", "told_ok"} => Out(j) # None \/ job[j].expires < now
  /\ job[j].pc \in {"done", "told_ok"} => j \in whole \cup unflushed

\* Cleanup is about to remove only outputs, and to archive only records, whose
\* time is over.
CleanOK(c) ==
  /\ clean[c].start <= now
  /\ clean[c].victim # None =>
       \A j \in Jobs : clean[c].victim = <<j, "out">> => /\ job[j].pc \notin Early
                                                         /\ job[j].expires < now
  /\ \A j \in clean[c].todo : rec[j] # None /\ rec[j].expires < now

\* A download is about a job whose request was answered.
FetchOK(d) ==
  /\ dl[d].job # None => job[dl[d].job].pc = "told_ok"
  /\ dl[d].pc \in {"cleared", "verified", "served", "gone", "torn", "bare404"} => dl[d].job # None
  /\ dl[d].pc = "torn" => dl[d].job \in unflushed

JobsInv == \A j \in Jobs : RecordOK(j) /\ FilesOK(j) /\ OutputOK(j)
IInv    == /\ TypeOK /\ JobsInv
           /\ \A c \in Cleaners : CleanOK(c)
           /\ \A d \in Downloads : FetchOK(d)
-----------------------------------------------------------------------------
(* What a step does to a job, to a row and to the files, without EXCEPT.    *)

JobIs(j, s, o, t, e) ==
  /\ job' \in [Jobs -> Job] /\ \A i \in Jobs \ {j} : job'[i] = job[i]
  /\ job'[j].pc = s /\ job'[j].op = o /\ job'[j].todo = t /\ job'[j].expires = e

RowIs(j, s, p, a, e) ==
  /\ rec' \in [Jobs -> Record \cup {None}] /\ \A i \in Jobs \ {j} : rec'[i] = rec[i]
  /\ rec'[j] # None /\ rec'[j].status = s /\ rec'[j].path = p
  /\ rec'[j].archived = a /\ rec'[j].expires = e

\* Nothing of the job i changes.
SameJob(i) ==
  /\ job'[i] = job[i] /\ rec'[i] = rec[i] /\ \A f \in File : f[1] = i => disk'[f] = disk[f]
  /\ (i \in whole' <=> i \in whole) /\ (i \in unflushed' <=> i \in unflushed)

\* A step of the request of j: no other job, cleanup or download moves, and what
\* cleanup has noted about the job remains true.
Advances(j) ==
  /\ UNCHANGED <<now, clean, dl, crashes>>
  /\ \A i \in Jobs \ {j} : SameJob(i)
  /\ job[j].pc # "told_ok"
  /\ rec[j] # None => rec'[j] # None /\ rec'[j].expires = rec[j].expires
  /\ job[j].pc \notin Early => job'[j].pc \notin Early /\ job'[j].expires = job[j].expires

\* What the operations have in common.
LEMMA Operation ==
  /\ \A o \in AllOperations : o.inputs \subseteq Uploads /\ o.pieces \subseteq Pieces
  /\ Operations \subseteq AllOperations
  /\ CompressPDF \in AllOperations /\ CompressPDF.pieces = {}
  BY JobsAssumption
  DEF AllOperations, LockPDF, UnlockPDF, CompressPDF, MergePDF, SplitPDF, Uploads, Pieces

\* A job that moves on stays a job.
LEMMA JobMoves ==
  ASSUME TypeOK, NEW j \in Jobs, NEW s \in Steps, NEW t \in SUBSET (Uploads \cup Pieces),
         NEW e \in Nat
  PROVE  /\ job' = [job EXCEPT ![j].pc = s]
              => JobIs(j, s, job[j].op, job[j].todo, job[j].expires)
         /\ job' = [job EXCEPT ![j].todo = t]
              => JobIs(j, job[j].pc, job[j].op, t, job[j].expires)
         /\ job' = [job EXCEPT ![j].pc = s, ![j].todo = t]
              => JobIs(j, s, job[j].op, t, job[j].expires)
         /\ job' = [job EXCEPT ![j].pc = s, ![j].expires = e]
              => JobIs(j, s, job[j].op, job[j].todo, e)
<1>1. job[j] \in Job /\ job \in [Jobs -> Job]
  BY DEF TypeOK
<1>2. /\ [job[j] EXCEPT !.pc = s] \in Job /\ [job[j] EXCEPT !.todo = t] \in Job
      /\ [[job[j] EXCEPT !.pc = s] EXCEPT !.todo = t] \in Job
      /\ [[job[j] EXCEPT !.pc = s] EXCEPT !.expires = e] \in Job
  BY <1>1 DEF Job
<1> QED
  BY <1>1, <1>2 DEF JobIs, Job

\* A row that is inserted, updated or archived is a row.
LEMMA RowMoves ==
  ASSUME TypeOK, NEW j \in Jobs, NEW s \in {"pending", "completed", "failed"}, NEW p \in BOOLEAN
  PROVE  /\ rec' = [rec EXCEPT ![j] = NewRecord(j)]
              => RowIs(j, "pending", FALSE, FALSE, job[j].expires)
         /\ rec[j] # None /\ rec' = [rec EXCEPT ![j] = [@ EXCEPT !.status = s, !.path = p]]
              => RowIs(j, s, p, rec[j].archived, rec[j].expires)
         /\ rec[j] # None /\ rec' = [rec EXCEPT ![j] = [@ EXCEPT !.archived = TRUE, !.path = FALSE]]
              => RowIs(j, rec[j].status, FALSE, TRUE, rec[j].expires)
<1>1. rec \in [Jobs -> Record \cup {None}] /\ None \notin Record /\ job[j].expires \in Nat
  BY JobsAssumption DEF TypeOK, Record, Job
<1>2. NewRecord(j) \in Record
  BY <1>1 DEF NewRecord, Record
<1>3. CASE rec' = [rec EXCEPT ![j] = NewRecord(j)]
  BY <1>1, <1>2, <1>3 DEF RowIs, NewRecord
<1>4. ASSUME rec[j] # None PROVE rec[j] \in Record
  BY <1>1, <1>4
<1>5. ASSUME rec[j] # None, rec' = [rec EXCEPT ![j] = [@ EXCEPT !.status = s, !.path = p]]
      PROVE  RowIs(j, s, p, rec[j].archived, rec[j].expires)
  <2> DEFINE x == [rec[j] EXCEPT !.status = s, !.path = p]
  <2>1. /\ x \in Record /\ x.status = s /\ x.path = p
        /\ x.archived = rec[j].archived /\ x.expires = rec[j].expires
    BY <1>4, <1>5 DEF Record
  <2>2. rec' = [rec EXCEPT ![j] = x]
    BY <1>5
  <2> HIDE DEF x
  <2> QED
    BY <1>1, <2>1, <2>2 DEF RowIs
<1>6. ASSUME rec[j] # None,
             rec' = [rec EXCEPT ![j] = [@ EXCEPT !.archived = TRUE, !.path = FALSE]]
      PROVE  RowIs(j, rec[j].status, FALSE, TRUE, rec[j].expires)
  <2> DEFINE x == [rec[j] EXCEPT !.archived = TRUE, !.path = FALSE]
  <2>1. /\ x \in Record /\ x.status = rec[j].status /\ x.path = FALSE
        /\ x.archived = TRUE /\ x.expires = rec[j].expires
    BY <1>4, <1>6 DEF Record
  <2>2. rec' = [rec EXCEPT ![j] = x]
    BY <1>6
  <2> HIDE DEF x
  <2> QED
    BY <1>1, <2>1, <2>2 DEF RowIs
<1> QED
  BY <1>3, <1>5, <1>6

\* A file that is written, and files that are removed.
LEMMA FileWritten ==
  ASSUME TypeOK, NEW j \in Jobs, NEW n \in Uploads \cup Pieces \cup {"out"},
         disk' = [disk EXCEPT ![<<j, n>>] = now]
  PROVE  /\ disk' \in [File -> Nat \cup {None}] /\ \A f \in File : f[1] # j => disk'[f] = disk[f]
         /\ disk'[<<j, n>>] = now /\ now # None
         /\ \A m \in (Uploads \cup Pieces \cup {"out"}) \ {n} : disk'[<<j, m>>] = disk[<<j, m>>]
  BY JobsAssumption DEF TypeOK, File

LEMMA OutputWritten ==
  ASSUME TypeOK, NEW j \in Jobs, disk' = [disk EXCEPT ![<<j, "out">>] = now]
  PROVE  /\ disk' \in [File -> Nat \cup {None}] /\ \A f \in File : f[1] # j => disk'[f] = disk[f]
         /\ disk'[<<j, "out">>] = now /\ now # None
         /\ \A m \in Uploads \cup Pieces : disk'[<<j, m>>] = disk[<<j, m>>]
<1>1. "out" \notin Uploads \cup Pieces
  BY DEF Uploads, Pieces
<1> QED
  BY <1>1, FileWritten

LEMMA FilesRemoved ==
  ASSUME TypeOK, NEW j \in Jobs, NEW names, disk' = Removed(j, names)
  PROVE  /\ disk' \in [File -> Nat \cup {None}] /\ \A f \in File : f[1] # j => disk'[f] = disk[f]
         /\ \A n \in Uploads \cup Pieces \cup {"out"} :
              disk'[<<j, n>>] = IF n \in names THEN None ELSE disk[<<j, n>>]
<1>1. disk' \in [File -> Nat \cup {None}]
  BY DEF TypeOK, Removed
<1>2. ASSUME NEW f \in File, f[1] # j PROVE disk'[f] = disk[f]
  BY <1>2 DEF Removed
<1>3. ASSUME NEW n \in Uploads \cup Pieces \cup {"out"}
      PROVE  disk'[<<j, n>>] = IF n \in names THEN None ELSE disk[<<j, n>>]
  <2>1. <<j, n>> \in File /\ <<j, n>>[1] = j /\ <<j, n>>[2] = n
    BY <1>3 DEF File
  <2> QED
    BY <2>1 DEF Removed
<1> QED
  BY <1>1, <1>2, <1>3

LEMMA InitIInv == Init => IInv
<1> SUFFICES ASSUME Init PROVE IInv
  OBVIOUS
<1>1. [pc |-> "idle", op |-> None, todo |-> {}, expires |-> 0] \in Job
  BY DEF Job, Steps
<1>2. Resting \in Run
  BY DEF Resting, Run
<1>3. [pc |-> "idle", job |-> None] \in Fetch
  BY DEF Fetch
<1>4. TypeOK
  BY <1>1, <1>2, <1>3 DEF Init, TypeOK
<1>5. \A j \in Jobs : \A n \in Uploads \cup Pieces \cup {"out"} : disk[<<j, n>>] = None
  BY DEF Init, File
<1>6. ASSUME NEW j \in Jobs PROVE RecordOK(j) /\ FilesOK(j) /\ OutputOK(j)
  <2>1. job[j].pc = "idle" /\ job[j].expires = 0 /\ rec[j] = None /\ now = 0 /\ Retention \in Nat
    BY JobsAssumption DEF Init
  <2>2. RecordOK(j)
    BY <2>1 DEF RecordOK, Offers
  <2>3. FilesOK(j)
    BY <1>5, <2>1 DEF FilesOK, OnDisk
  <2>4. OutputOK(j)
    BY <1>5, <2>1 DEF OutputOK, Out
  <2> QED
    BY <2>2, <2>3, <2>4
<1>7. \A c \in Cleaners : CleanOK(c)
  BY DEF Init, CleanOK, Resting
<1>8. \A d \in Downloads : FetchOK(d)
  BY DEF Init, FetchOK
<1> QED
  BY <1>4, <1>6, <1>7, <1>8 DEF IInv, JobsInv

\* It is enough to look at the job that moves.
LEMMA Frame ==
  ASSUME IInv, TypeOK', NEW j \in Jobs, Advances(j), RecordOK(j)', FilesOK(j)', OutputOK(j)'
  PROVE  IInv'
<1>1. ASSUME NEW i \in Jobs, SameJob(i), now' = now
      PROVE  RecordOK(i)' /\ FilesOK(i)' /\ OutputOK(i)'
  <2>1. \A n \in Uploads \cup Pieces \cup {"out"} : disk'[<<i, n>>] = disk[<<i, n>>]
    BY <1>1 DEF SameJob, File
  <2>2. RecordOK(i)'
    BY <1>1 DEF SameJob, IInv, JobsInv, RecordOK, Offers
  <2>3. FilesOK(i)'
    BY <1>1, <2>1 DEF SameJob, IInv, JobsInv, FilesOK, OnDisk
  <2>4. OutputOK(i)'
    BY <1>1, <2>1 DEF SameJob, IInv, JobsInv, OutputOK, Out
  <2> QED
    BY <2>2, <2>3, <2>4
<1>2. JobsInv'
  BY <1>1 DEF JobsInv, Advances
<1>3. ASSUME NEW c \in Cleaners PROVE CleanOK(c)'
  <2>1. CleanOK(c) /\ clean' = clean /\ now' = now /\ clean[c].todo \subseteq Jobs
    BY DEF IInv, Advances, TypeOK, Run
  <2>2. \A i \in Jobs : /\ rec[i] # None => rec'[i] # None /\ rec'[i].expires = rec[i].expires
                        /\ job[i].pc \notin Early => /\ job'[i].pc \notin Early
                                                     /\ job'[i].expires = job[i].expires
    BY DEF Advances, SameJob
  <2> QED
    BY <2>1, <2>2 DEF CleanOK
<1>4. ASSUME NEW d \in Downloads PROVE FetchOK(d)'
  <2>1. FetchOK(d) /\ dl' = dl /\ dl[d].job \in Jobs \cup {None}
    BY DEF IInv, Advances, TypeOK, Fetch
  <2>2. \A i \in Jobs : job[i].pc = "told_ok" => SameJob(i)
    BY DEF Advances
  <2> QED
    BY <2>1, <2>2 DEF FetchOK, SameJob
<1> QED
  BY <1>2, <1>3, <1>4 DEF IInv
-----------------------------------------------------------------------------
(* The steps of a request.                                                  *)

LEMMA UploadStep == ASSUME IInv, NEW j \in Jobs, NEW o \in Operations, Upload(j, o) PROVE IInv' /\ Advances(j)
<1>1. o \in AllOperations /\ o.inputs \in SUBSET (Uploads \cup Pieces)
  BY Operation
<1>2. [pc |-> "saving", op |-> o, todo |-> o.inputs, expires |-> 0] \in Job
  BY <1>1 DEF Job, Steps
<1>3. JobIs(j, "saving", o, o.inputs, 0)
  BY <1>2 DEF Upload, IInv, TypeOK, JobIs
<1>4. job[j].pc = "idle" /\ UNCHANGED <<now, disk, whole, unflushed, rec, clean, dl, crashes>>
  BY DEF Upload
<1>5. TypeOK'
  BY <1>3, <1>4 DEF IInv, TypeOK, JobIs
<1>6. RecordOK(j) /\ FilesOK(j) /\ OutputOK(j) /\ now \in Nat /\ Retention \in Nat
  BY JobsAssumption DEF IInv, JobsInv, TypeOK
<1>7. Advances(j)
  BY <1>3, <1>4 DEF Advances, SameJob, JobIs, Early
<1>8. RecordOK(j)'
  BY <1>1, <1>3, <1>4, <1>6 DEF RecordOK, JobIs, Early, Offers
<1>9. FilesOK(j)'
  BY <1>3, <1>4, <1>6 DEF FilesOK, JobIs, OnDisk
<1>10. OutputOK(j)'
  BY <1>3, <1>4, <1>6 DEF OutputOK, JobIs, Early, Out
<1> QED
  BY <1>5, <1>7, <1>8, <1>9, <1>10, Frame

LEMMA SaveStep ==
  ASSUME IInv, NEW j \in Jobs, NEW n \in Uploads, SaveUploadedFile(j, n) PROVE IInv' /\ Advances(j)
<1>1. TypeOK /\ job[j] \in Job /\ job[j].todo \ {n} \in SUBSET (Uploads \cup Pieces)
  BY DEF IInv, TypeOK, Job
<1>2. JobIs(j, "saving", job[j].op, job[j].todo \ {n}, job[j].expires)
  BY <1>1, JobMoves DEF SaveUploadedFile, Job
<1>3. /\ job[j].pc = "saving" /\ n \in job[j].todo
      /\ disk' = [disk EXCEPT ![<<j, n>>] = now]
      /\ UNCHANGED <<now, whole, unflushed, rec, clean, dl, crashes>>
  BY DEF SaveUploadedFile
<1>4. TypeOK'
  BY <1>1, <1>2, <1>3 DEF TypeOK, JobIs
<1>5. RecordOK(j) /\ FilesOK(j) /\ OutputOK(j) /\ now \in Nat /\ now # None
  BY JobsAssumption DEF IInv, JobsInv, TypeOK
<1>6. /\ \A f \in File : f[1] # j => disk'[f] = disk[f]
      /\ \A m \in (Uploads \cup Pieces \cup {"out"}) \ {n} : disk'[<<j, m>>] = disk[<<j, m>>]
  BY <1>1, <1>3, FileWritten
<1>7. Advances(j)
  BY <1>2, <1>3, <1>6 DEF Advances, SameJob, JobIs, Early
<1>8. RecordOK(j)'
  BY <1>2, <1>3, <1>5 DEF RecordOK, JobIs, Early, Offers
<1>9. FilesOK(j)'
  BY <1>2, <1>3, <1>5, <1>6 DEF FilesOK, JobIs, OnDisk, Uploads, Pieces
<1>10. OutputOK(j)'
  BY <1>2, <1>3, <1>5, <1>6 DEF OutputOK, JobIs, Early, Out, Uploads
<1> QED
  BY <1>4, <1>7, <1>8, <1>9, <1>10, Frame

LEMMA PrepareStep == ASSUME IInv, NEW j \in Jobs, Prepare(j) PROVE IInv' /\ Advances(j)
<1>1. TypeOK /\ job[j] \in Job /\ now \in Nat /\ now + Retention \in Nat
  BY JobsAssumption DEF IInv, TypeOK
<1>2. JobIs(j, "prepared", job[j].op, job[j].todo, now + Retention)
  BY <1>1, JobMoves DEF Prepare, Job, Steps
<1>3. job[j].pc = "saving" /\ UNCHANGED <<now, disk, whole, unflushed, rec, clean, dl, crashes>>
  BY DEF Prepare
<1>4. TypeOK'
  BY <1>1, <1>2, <1>3 DEF TypeOK, JobIs
<1>5. RecordOK(j) /\ FilesOK(j) /\ OutputOK(j)
  BY DEF IInv, JobsInv
<1>6. Advances(j)
  BY <1>2, <1>3 DEF Advances, SameJob, JobIs, Early
<1>7. RecordOK(j)'
  BY <1>2, <1>3, <1>5 DEF RecordOK, JobIs, Early, Offers
<1>8. FilesOK(j)'
  BY <1>2, <1>3, <1>5 DEF FilesOK, JobIs, OnDisk
<1>9. OutputOK(j)'
  BY <1>1, <1>2, <1>3, <1>5 DEF OutputOK, JobIs, Early, Out
<1> QED
  BY <1>4, <1>6, <1>7, <1>8, <1>9, Frame

LEMMA RefuseStep == ASSUME IInv, NEW j \in Jobs, Refuse(j) PROVE IInv' /\ Advances(j)
<1>1. TypeOK /\ job[j] \in Job /\ now \in Nat
  BY DEF IInv, TypeOK
<1>2. JobIs(j, "told_error", job[j].op, {}, job[j].expires)
  BY <1>1, JobMoves DEF Refuse, Job, Steps
<1>3. /\ job[j].pc \in {"saving", "prepared"} /\ disk' = Removed(j, job[j].op.inputs)
      /\ UNCHANGED <<now, whole, unflushed, clean, dl, crashes>>
      /\ rec' = rec \/ (job[j].pc = "prepared" /\ RowIs(j, "pending", FALSE, FALSE, job[j].expires))
  BY <1>1, RowMoves DEF Refuse
<1>4. /\ disk' \in [File -> Nat \cup {None}] /\ \A f \in File : f[1] # j => disk'[f] = disk[f]
      /\ \A n \in Uploads \cup Pieces \cup {"out"} :
           disk'[<<j, n>>] = IF n \in job[j].op.inputs THEN None ELSE disk[<<j, n>>]
  BY <1>1, <1>3, FilesRemoved
<1>5. TypeOK'
  BY <1>1, <1>2, <1>3, <1>4 DEF TypeOK, JobIs, RowIs
<1>6. RecordOK(j) /\ FilesOK(j) /\ OutputOK(j)
  BY DEF IInv, JobsInv
<1>7. rec[j] = None
  BY <1>3, <1>6 DEF RecordOK, Early
<1>8. Advances(j)
  BY <1>2, <1>3, <1>4, <1>7 DEF Advances, SameJob, JobIs, RowIs, Early
<1>9. RecordOK(j)'
  BY <1>2, <1>3, <1>6, <1>7 DEF RecordOK, JobIs, RowIs, Early, Offers
<1>10. FilesOK(j)'
  BY <1>2, <1>3, <1>4, <1>6 DEF FilesOK, JobIs, OnDisk
<1>11. OutputOK(j)'
  BY <1>2, <1>3, <1>4, <1>6 DEF OutputOK, JobIs, Early, Out
<1> QED
  BY <1>5, <1>8, <1>9, <1>10, <1>11, Frame

LEMMA CreateStep == ASSUME IInv, NEW j \in Jobs, CreateRecord(j) PROVE IInv' /\ Advances(j)
<1>1. TypeOK /\ job[j] \in Job /\ now \in Nat /\ RecordOK(j) /\ FilesOK(j) /\ OutputOK(j)
  BY DEF IInv, TypeOK, JobsInv
<1>2. job[j].op \in AllOperations /\ job[j].op.pieces \in SUBSET (Uploads \cup Pieces)
  BY <1>1, Operation DEF CreateRecord, RecordOK
<1>3. JobIs(j, "working", job[j].op, job[j].op.pieces, job[j].expires)
  BY <1>1, <1>2, JobMoves DEF CreateRecord, Job, Steps
<1>4. /\ job[j].pc = "prepared" /\ RowIs(j, "pending", FALSE, FALSE, job[j].expires)
      /\ UNCHANGED <<now, disk, whole, unflushed, clean, dl, crashes>>
  BY <1>1, RowMoves DEF CreateRecord
<1>5. TypeOK'
  BY <1>1, <1>3, <1>4 DEF TypeOK, JobIs, RowIs
<1>6. rec[j] = None
  BY <1>1, <1>4 DEF RecordOK, Early
<1>7. Advances(j)
  BY <1>3, <1>4, <1>6 DEF Advances, SameJob, JobIs, RowIs, Early
<1>8. RecordOK(j)'
  BY <1>2, <1>3, <1>4 DEF RecordOK, JobIs, RowIs, Early, Offers
<1>9. FilesOK(j)'
  BY <1>1, <1>3, <1>4 DEF FilesOK, JobIs, OnDisk
<1>10. OutputOK(j)'
  BY <1>1, <1>3, <1>4 DEF OutputOK, JobIs, Early, Out
<1> QED
  BY <1>5, <1>7, <1>8, <1>9, <1>10, Frame

LEMMA PieceStep == ASSUME IInv, NEW j \in Jobs, NEW n \in Pieces, WritePiece(j, n) PROVE IInv' /\ Advances(j)
<1>1. /\ TypeOK /\ job[j] \in Job /\ job[j].todo \ {n} \in SUBSET (Uploads \cup Pieces)
      /\ RecordOK(j) /\ FilesOK(j) /\ OutputOK(j)
  BY DEF IInv, TypeOK, Job, JobsInv
<1>2. JobIs(j, "working", job[j].op, job[j].todo \ {n}, job[j].expires)
  BY <1>1, JobMoves DEF WritePiece, Job
<1>3. /\ job[j].pc = "working" /\ n \in job[j].todo
      /\ disk' = [disk EXCEPT ![<<j, n>>] = now]
      /\ UNCHANGED <<now, whole, unflushed, rec, clean, dl, crashes>>
  BY DEF WritePiece
<1>4. /\ disk' \in [File -> Nat \cup {None}] /\ \A f \in File : f[1] # j => disk'[f] = disk[f]
      /\ \A m \in (Uploads \cup Pieces \cup {"out"}) \ {n} : disk'[<<j, m>>] = disk[<<j, m>>]
  BY <1>1, <1>3, FileWritten
<1>5. TypeOK'
  BY <1>1, <1>2, <1>3, <1>4 DEF TypeOK, JobIs
<1>6. Advances(j)
  BY <1>2, <1>3, <1>4 DEF Advances, SameJob, JobIs, Early
<1>7. RecordOK(j)'
  BY <1>1, <1>2, <1>3 DEF RecordOK, JobIs, Early, Offers
<1>8. FilesOK(j)'
  BY <1>1, <1>2, <1>3, <1>4 DEF FilesOK, JobIs, OnDisk, Uploads, Pieces
<1>9. OutputOK(j)'
  BY <1>1, <1>2, <1>3, <1>4 DEF OutputOK, JobIs, Early, Out, Pieces
<1> QED
  BY <1>5, <1>6, <1>7, <1>8, <1>9, Frame

LEMMA StartStep == ASSUME IInv, NEW j \in Jobs, StartOutput(j) PROVE IInv' /\ Advances(j)
<1>1. /\ TypeOK /\ job[j] \in Job /\ now \in Nat /\ RecordOK(j) /\ FilesOK(j) /\ OutputOK(j)
  BY DEF IInv, TypeOK, JobsInv
<1>2. JobIs(j, "writing", job[j].op, job[j].todo, job[j].expires)
  BY <1>1, JobMoves DEF StartOutput, Job, Steps
<1>3. /\ job[j].pc = "working" /\ disk' = [disk EXCEPT ![<<j, "out">>] = now]
      /\ UNCHANGED <<now, whole, unflushed, rec, clean, dl, crashes>>
  BY DEF StartOutput
<1>4. /\ disk' \in [File -> Nat \cup {None}] /\ \A f \in File : f[1] # j => disk'[f] = disk[f]
      /\ disk'[<<j, "out">>] = now /\ now # None
      /\ \A m \in Uploads \cup Pieces : disk'[<<j, m>>] = disk[<<j, m>>]
  BY <1>1, <1>3, OutputWritten
<1>5. TypeOK'
  BY <1>1, <1>2, <1>3, <1>4 DEF TypeOK, JobIs
<1>6. Advances(j)
  BY <1>2, <1>3, <1>4 DEF Advances, SameJob, JobIs, Early
<1>7. RecordOK(j)'
  BY <1>1, <1>2, <1>3 DEF RecordOK, JobIs, Early, Offers
<1>8. FilesOK(j)'
  BY <1>1, <1>2, <1>3, <1>4 DEF FilesOK, JobIs, OnDisk
<1>9. OutputOK(j)'
  BY <1>1, <1>2, <1>3, <1>4 DEF OutputOK, JobIs, Early, Out
<1> QED
  BY <1>5, <1>6, <1>7, <1>8, <1>9, Frame

LEMMA FinishStep == ASSUME IInv, NEW j \in Jobs, FinishOutput(j) PROVE IInv' /\ Advances(j)
<1>1. /\ TypeOK /\ job[j] \in Job /\ now \in Nat /\ now # None
      /\ RecordOK(j) /\ FilesOK(j) /\ OutputOK(j)
  BY JobsAssumption DEF IInv, TypeOK, JobsInv
<1>2. JobIs(j, "done", job[j].op, job[j].todo, job[j].expires)
  BY <1>1, JobMoves DEF FinishOutput, Job, Steps
<1>3. /\ job[j].pc = "writing" /\ UNCHANGED <<now, rec, clean, dl, crashes>>
      /\ whole' \in SUBSET Jobs /\ unflushed' \in SUBSET Jobs /\ j \in whole' \cup unflushed'
      /\ \A i \in Jobs \ {j} : (i \in whole' <=> i \in whole) /\ (i \in unflushed' <=> i \in unflushed)
  BY <1>1 DEF FinishOutput, TypeOK
<1>4. /\ disk' \in [File -> Nat \cup {None}] /\ \A f \in File : f[1] # j => disk'[f] = disk[f]
      /\ disk'[<<j, "out">>] = IF disk[<<j, "out">>] = None THEN None ELSE now
      /\ \A n \in Uploads \cup Pieces :
           disk'[<<j, n>>] = IF n \in job[j].op.pieces THEN None ELSE disk[<<j, n>>]
  <2> DEFINE R == Removed(j, job[j].op.pieces)
  <2>1. R \in [File -> Nat \cup {None}] /\ \A f \in File : f[1] # j => R[f] = disk[f]
    BY <1>1 DEF Removed, TypeOK
  <2>2. \A n \in Uploads \cup Pieces \cup {"out"} :
          <<j, n>> \in File /\ <<j, n>>[1] = j /\ <<j, n>>[2] = n
    BY DEF File
  <2>3. \A n \in Uploads \cup Pieces \cup {"out"} :
          R[<<j, n>>] = IF n \in job[j].op.pieces THEN None ELSE disk[<<j, n>>]
    BY <2>2 DEF Removed
  <2>4. "out" \notin job[j].op.pieces /\ "out" \notin Uploads \cup Pieces
    BY <1>1, <1>3, Operation DEF RecordOK, Uploads, Pieces
  <2>5. disk' = [R EXCEPT ![<<j, "out">>] = IF @ = None THEN None ELSE now]
    BY DEF FinishOutput
  <2> HIDE DEF R
  <2> QED
    BY <1>1, <2>1, <2>2, <2>3, <2>4, <2>5
<1>5. TypeOK'
  BY <1>1, <1>2, <1>3, <1>4 DEF TypeOK, JobIs
<1>6. Advances(j)
  BY <1>2, <1>3, <1>4 DEF Advances, SameJob, JobIs, Early
<1>7. RecordOK(j)'
  BY <1>1, <1>2, <1>3 DEF RecordOK, JobIs, Early, Offers
<1>8. FilesOK(j)'
  BY <1>1, <1>2, <1>3, <1>4 DEF FilesOK, JobIs, OnDisk
<1>9. OutputOK(j)'
  BY <1>1, <1>2, <1>3, <1>4 DEF OutputOK, JobIs, Early, Out
<1> QED
  BY <1>5, <1>6, <1>7, <1>8, <1>9, Frame

LEMMA CopyStep == ASSUME IInv, NEW j \in Jobs, CopyOriginal(j) PROVE IInv' /\ Advances(j)
<1>1. /\ TypeOK /\ job[j] \in Job /\ now \in Nat /\ RecordOK(j) /\ FilesOK(j) /\ OutputOK(j)
  BY DEF IInv, TypeOK, JobsInv
<1>2. JobIs(j, "done", job[j].op, job[j].todo, job[j].expires)
  BY <1>1, JobMoves DEF CopyOriginal, Job, Steps
<1>3. /\ job[j].pc = "writing" /\ job[j].op = CompressPDF /\ whole' = whole \cup {j}
      /\ disk' = [disk EXCEPT ![<<j, "out">>] = now]
      /\ UNCHANGED <<now, unflushed, rec, clean, dl, crashes>>
  BY DEF CopyOriginal
<1>4. /\ disk' \in [File -> Nat \cup {None}] /\ \A f \in File : f[1] # j => disk'[f] = disk[f]
      /\ disk'[<<j, "out">>] = now /\ now # None
      /\ \A m \in Uploads \cup Pieces : disk'[<<j, m>>] = disk[<<j, m>>]
  BY <1>1, <1>3, OutputWritten
<1>5. TypeOK'
  BY <1>1, <1>2, <1>3, <1>4 DEF TypeOK, JobIs
<1>6. Advances(j)
  BY <1>2, <1>3, <1>4 DEF Advances, SameJob, JobIs, Early
<1>7. RecordOK(j)'
  BY <1>1, <1>2, <1>3 DEF RecordOK, JobIs, Early, Offers
<1>8. FilesOK(j)'
  <2>1. \A n \in Pieces : ~OnDisk(j, n)
    BY <1>1, <1>3, Operation DEF FilesOK
  <2> QED
    BY <1>1, <1>2, <1>3, <1>4, <2>1 DEF FilesOK, JobIs, OnDisk
<1>9. OutputOK(j)'
  BY <1>1, <1>2, <1>3, <1>4 DEF OutputOK, JobIs, Early, Out
<1> QED
  BY <1>5, <1>6, <1>7, <1>8, <1>9, Frame

LEMMA FailStep == ASSUME IInv, NEW j \in Jobs, ToolFails(j) PROVE IInv' /\ Advances(j)
<1>1. /\ TypeOK /\ job[j] \in Job /\ now \in Nat /\ RecordOK(j) /\ FilesOK(j) /\ OutputOK(j)
  BY DEF IInv, TypeOK, JobsInv
<1>2. JobIs(j, "broken", job[j].op, {}, job[j].expires)
  BY <1>1, JobMoves DEF ToolFails, Job, Steps
<1>3. /\ job[j].pc \in {"working", "writing"} /\ disk' = Removed(j, job[j].op.pieces)
      /\ UNCHANGED <<now, whole, unflushed, rec, clean, dl, crashes>>
  BY DEF ToolFails
<1>4. /\ disk' \in [File -> Nat \cup {None}] /\ \A f \in File : f[1] # j => disk'[f] = disk[f]
      /\ \A n \in Uploads \cup Pieces \cup {"out"} :
           disk'[<<j, n>>] = IF n \in job[j].op.pieces THEN None ELSE disk[<<j, n>>]
  BY <1>1, <1>3, FilesRemoved
<1>5. TypeOK'
  BY <1>1, <1>2, <1>3, <1>4 DEF TypeOK, JobIs
<1>6. Advances(j)
  BY <1>2, <1>3, <1>4 DEF Advances, SameJob, JobIs, Early
<1>7. RecordOK(j)'
  BY <1>1, <1>2, <1>3 DEF RecordOK, JobIs, Early, Offers
<1>8. FilesOK(j)'
  BY <1>1, <1>2, <1>3, <1>4 DEF FilesOK, JobIs, OnDisk
<1>9. OutputOK(j)'
  BY <1>1, <1>2, <1>3, <1>4 DEF OutputOK, JobIs, Early, Out
<1> QED
  BY <1>5, <1>6, <1>7, <1>8, <1>9, Frame

LEMMA AnswerStep ==
  ASSUME IInv, NEW j \in Jobs, AnswerSuccess(j) \/ AnswerFailure(j) PROVE IInv' /\ Advances(j)
<1>1. /\ TypeOK /\ job[j] \in Job /\ now \in Nat /\ RecordOK(j) /\ FilesOK(j) /\ OutputOK(j)
  BY DEF IInv, TypeOK, JobsInv
<1>2. \/ job[j].pc = "done" /\ JobIs(j, "told_ok", job[j].op, job[j].todo, job[j].expires)
      \/ job[j].pc = "broken" /\ JobIs(j, "told_error", job[j].op, job[j].todo, job[j].expires)
  BY <1>1, JobMoves DEF AnswerSuccess, AnswerFailure, Job, Steps
<1>3. UNCHANGED <<now, disk, whole, unflushed, clean, dl, crashes>> /\ rec[j] # None
  BY <1>1 DEF AnswerSuccess, AnswerFailure, RecordOK
<1>4. \/ rec' = rec
      \/ AnswerSuccess(j) /\ RowIs(j, "completed", TRUE, rec[j].archived, rec[j].expires)
      \/ AnswerFailure(j) /\ RowIs(j, "failed", FALSE, rec[j].archived, rec[j].expires)
  BY <1>1, <1>3, RowMoves DEF AnswerSuccess, AnswerFailure, UpdateStatus
<1>5. TypeOK'
  BY <1>1, <1>2, <1>3, <1>4 DEF TypeOK, JobIs, RowIs
<1>6. Advances(j)
  BY <1>2, <1>3, <1>4 DEF Advances, SameJob, JobIs, RowIs, Early
<1>7. RecordOK(j)'
  <2>1. CASE rec' = rec
    BY <1>1, <1>2, <1>3, <2>1 DEF RecordOK, JobIs, Early, Offers
  <2>2. CASE AnswerSuccess(j) /\ RowIs(j, "completed", TRUE, rec[j].archived, rec[j].expires)
    <3>1. JobIs(j, "told_ok", job[j].op, job[j].todo, job[j].expires) /\ job[j].pc = "done"
      BY <1>2, <2>2 DEF AnswerSuccess
    <3> QED
      BY <1>1, <1>3, <2>2, <3>1 DEF RecordOK, JobIs, RowIs, Early, Offers
  <2>3. CASE AnswerFailure(j) /\ RowIs(j, "failed", FALSE, rec[j].archived, rec[j].expires)
    BY <1>1, <1>2, <1>3, <2>3 DEF RecordOK, JobIs, RowIs, Early, Offers
  <2> QED
    BY <1>4, <2>1, <2>2, <2>3
<1>8. FilesOK(j)'
  BY <1>1, <1>2, <1>3, <1>4 DEF FilesOK, JobIs, RowIs, OnDisk
<1>9. OutputOK(j)'
  BY <1>1, <1>2, <1>3 DEF OutputOK, JobIs, Early, Out
<1> QED
  BY <1>5, <1>6, <1>7, <1>8, <1>9, Frame

\* Every step of a request keeps the invariant.
LEMMA HandleStep == ASSUME IInv, NEW j \in Jobs, Handle(j) PROVE IInv' /\ Advances(j)
  BY UploadStep, SaveStep, PrepareStep, RefuseStep, CreateStep, PieceStep, StartStep, FinishStep,
     CopyStep, FailStep, AnswerStep DEF Handle
-----------------------------------------------------------------------------
(* The steps of downloads, of cleanup, a crash and the clock.               *)

\* Where neither time, jobs, rows nor outputs change, the jobs are as good as before.
LEMMA JobsStay ==
  ASSUME JobsInv, UNCHANGED <<now, disk, whole, unflushed, job, rec>>
  PROVE  JobsInv'
<1>1. ASSUME NEW j \in Jobs, RecordOK(j) PROVE RecordOK(j)'
  BY <1>1 DEF RecordOK, OnDisk, Out, Offers
<1>2. ASSUME NEW j \in Jobs, FilesOK(j) PROVE FilesOK(j)'
  BY <1>2 DEF FilesOK, OnDisk, Out, Offers
<1>3. ASSUME NEW j \in Jobs, OutputOK(j) PROVE OutputOK(j)'
  BY <1>3 DEF OutputOK, OnDisk, Out, Offers
<1> QED
  BY <1>1, <1>2, <1>3 DEF JobsInv

LEMMA CleanersStay ==
  ASSUME \A c \in Cleaners : CleanOK(c), UNCHANGED <<now, job, rec, clean>>
  PROVE  \A c \in Cleaners : CleanOK(c)'
  BY DEF CleanOK

LEMMA FetchesStay ==
  ASSUME \A d \in Downloads : FetchOK(d), UNCHANGED <<job, unflushed, dl>>
  PROVE  \A d \in Downloads : FetchOK(d)'
  BY DEF FetchOK

LEMMA FetchStep ==
  ASSUME IInv, NEW d \in Downloads,
         Stat(d) \/ ServeFile(d) \/ \E j \in Jobs : Download(d, j)
  PROVE  IInv'
<1>1. /\ TypeOK /\ dl \in [Downloads -> Fetch] /\ dl[d] \in Fetch /\ None \notin Jobs
      /\ \A e \in Downloads : FetchOK(e)
  BY JobsAssumption DEF IInv, TypeOK
<1>2. UNCHANGED <<now, disk, whole, unflushed, job, rec, clean, crashes>>
  BY DEF Stat, ServeFile, Download
<1>3. PICK x \in Fetch :
        /\ dl' = [dl EXCEPT ![d] = x] /\ x.pc # "idle"
        /\ x.job # None /\ job[x.job].pc = "told_ok" /\ (x.pc = "torn" => x.job \in unflushed)
  <2>1. CASE Stat(d)
    <3> DEFINE x == [dl[d] EXCEPT !.pc = IF OnDisk(dl[d].job, "out") THEN "verified" ELSE "gone"]
    <3>1. x \in Fetch /\ x.job = dl[d].job /\ x.pc \in {"verified", "gone"} /\ dl' = [dl EXCEPT ![d] = x]
      BY <1>1, <2>1 DEF Stat, Fetch
    <3>2. x.job # None /\ job[x.job].pc = "told_ok"
      BY <1>1, <2>1, <3>1 DEF Stat, FetchOK
    <3> QED
      BY <3>1, <3>2
  <2>2. CASE ServeFile(d)
    <3> DEFINE x == [dl[d] EXCEPT !.pc =
                       IF ~OnDisk(dl[d].job, "out") THEN "bare404"
                       ELSE IF dl[d].job \in whole THEN "served" ELSE "torn"]
    <3>1. /\ x \in Fetch /\ x.job = dl[d].job /\ x.pc # "idle" /\ dl' = [dl EXCEPT ![d] = x]
          /\ x.pc = "torn" => dl[d].job \notin whole
      BY <1>1, <2>2 DEF ServeFile, Fetch
    <3>2. x.job # None /\ job[x.job].pc = "told_ok" /\ x.job \in Jobs
      BY <1>1, <2>2, <3>1 DEF ServeFile, FetchOK, Fetch
    <3>3. x.job \in whole \cup unflushed
      BY <3>2 DEF IInv, JobsInv, OutputOK
    <3> QED
      BY <3>1, <3>2, <3>3
  <2>3. ASSUME NEW j \in Jobs, Download(d, j)
        PROVE  /\ [pc |-> "cleared", job |-> j] \in Fetch /\ j # None /\ job[j].pc = "told_ok"
               /\ dl' = [dl EXCEPT ![d] = [pc |-> "cleared", job |-> j]]
    BY <1>1, <2>3 DEF Download, Downloadable, Fetch, IInv, JobsInv, RecordOK, Offers
  <2> QED
    BY <2>1, <2>2, <2>3
<1>4. TypeOK'
  BY <1>1, <1>2, <1>3 DEF TypeOK
<1>5. \A e \in Downloads : FetchOK(e)'
  BY <1>1, <1>2, <1>3 DEF FetchOK
<1> QED
  BY <1>2, <1>4, <1>5, JobsStay, CleanersStay DEF IInv

\* A cleanup that only looks, or fails: nothing but its own note changes.
LEMMA LookStep ==
  ASSUME IInv, NEW c \in Cleaners,
         \/ CleanStart(c) \/ CleanDB(c) \/ QueryFails(c) \/ CleanDone(c) \/ RemoveFails(c)
         \/ \E f \in File : SeeFile(c, f)
         \/ \E j \in clean[c].todo : ArchiveFails(c, j)
  PROVE  IInv'
<1>1. /\ TypeOK /\ clean \in [Cleaners -> Run] /\ clean[c] \in Run /\ CleanOK(c) /\ JobsInv
      /\ now \in Nat /\ Retention \in Nat /\ \A b \in Cleaners : CleanOK(b)
  BY JobsAssumption DEF IInv, TypeOK
<1>2. UNCHANGED <<now, disk, whole, unflushed, job, rec, dl, crashes>>
  BY DEF CleanStart, CleanDB, QueryFails, CleanDone, RemoveFails, SeeFile, ArchiveFails
<1> DEFINE Good(r) == /\ r.start <= now
                      /\ r.victim # None =>
                           \A j \in Jobs : r.victim = <<j, "out">> => /\ job[j].pc \notin Early
                                                                     /\ job[j].expires < now
                      /\ \A j \in r.todo : rec[j] # None /\ rec[j].expires < now
<1>3. Good(clean[c])
  BY <1>1 DEF CleanOK
<1>4. \E r \in Run : clean' = [clean EXCEPT ![c] = r] /\ Good(r)
  <2>1. CASE CleanStart(c)
    <3> DEFINE r == [Resting EXCEPT !.pc = "dirs", !.start = now]
    <3>1. r \in Run /\ r.start = now /\ r.victim = None /\ r.todo = {}
      BY <1>1 DEF Resting, Run
    <3>2. clean' = [clean EXCEPT ![c] = r]
      BY <2>1 DEF CleanStart
    <3> HIDE DEF r
    <3>3. now <= now
      BY <1>1
    <3>4. Good(r)
      BY <3>1, <3>3
    <3> QED
      BY <3>1, <3>2, <3>4
  <2>2. CASE CleanDB(c)
    <3> DEFINE r == [clean[c] EXCEPT !.pc = "db", !.todo = GetExpired]
    <3>1. /\ r \in Run /\ r.start = clean[c].start /\ r.victim = clean[c].victim
          /\ r.todo = GetExpired
      BY <1>1 DEF Run, GetExpired
    <3>2. clean' = [clean EXCEPT ![c] = r]
      BY <2>2 DEF CleanDB
    <3> HIDE DEF r
    <3> QED
      BY <1>3, <3>1, <3>2 DEF GetExpired
  <2>3. CASE QueryFails(c) \/ CleanDone(c)
    <3> DEFINE r == [clean[c] EXCEPT !.pc = "rest"]
    <3>1. /\ r \in Run /\ r.start = clean[c].start /\ r.victim = clean[c].victim
          /\ r.todo = clean[c].todo
      BY <1>1 DEF Run
    <3>2. clean' = [clean EXCEPT ![c] = r]
      BY <2>3 DEF QueryFails, CleanDone
    <3> HIDE DEF r
    <3> QED
      BY <1>3, <3>1, <3>2
  <2>4. CASE RemoveFails(c)
    <3> DEFINE r == [clean[c] EXCEPT !.victim = None]
    <3>1. r \in Run /\ r.start = clean[c].start /\ r.victim = None /\ r.todo = clean[c].todo
      BY <1>1 DEF Run
    <3>2. clean' = [clean EXCEPT ![c] = r]
      BY <2>4 DEF RemoveFails
    <3> HIDE DEF r
    <3> QED
      BY <1>3, <3>1, <3>2
  <2>5. ASSUME NEW f \in File, SeeFile(c, f)
        PROVE  \E r \in Run : clean' = [clean EXCEPT ![c] = r] /\ Good(r)
    <3> DEFINE r == [clean[c] EXCEPT !.victim = f]
    <3>1. r \in Run /\ r.start = clean[c].start /\ r.victim = f /\ r.todo = clean[c].todo
      BY <1>1 DEF Run
    <3>2. clean' = [clean EXCEPT ![c] = r] /\ disk[f] # None /\ disk[f] + Retention < clean[c].start
      BY <2>5 DEF SeeFile, Aged
    <3>3. ASSUME NEW j \in Jobs, f = <<j, "out">>
          PROVE  job[j].pc \notin Early /\ job[j].expires < now
      <4>1. Out(j) = disk[f] /\ Out(j) \in Nat /\ OutputOK(j) /\ job[j].expires \in Nat
        BY <1>1, <3>2, <3>3 DEF Out, JobsInv, TypeOK, Job
      <4> QED
        BY <1>1, <1>3, <3>2, <4>1 DEF OutputOK, Run
    <3> HIDE DEF r
    <3> QED
      BY <1>3, <3>1, <3>2, <3>3
  <2>6. ASSUME NEW j \in clean[c].todo, ArchiveFails(c, j)
        PROVE  \E r \in Run : clean' = [clean EXCEPT ![c] = r] /\ Good(r)
    <3> DEFINE r == [clean[c] EXCEPT !.todo = @ \ {j}]
    <3>1. /\ r \in Run /\ r.start = clean[c].start /\ r.victim = clean[c].victim
          /\ r.todo = clean[c].todo \ {j}
      BY <1>1 DEF Run
    <3>2. clean' = [clean EXCEPT ![c] = r]
      BY <2>6 DEF ArchiveFails
    <3> HIDE DEF r
    <3> QED
      BY <1>3, <3>1, <3>2
  <2> HIDE DEF Good
  <2> QED
    BY <2>1, <2>2, <2>3, <2>4, <2>5, <2>6
<1>5. TypeOK'
  BY <1>1, <1>2, <1>4 DEF TypeOK
<1>6. \A b \in Cleaners : CleanOK(b)'
  BY <1>1, <1>2, <1>4 DEF CleanOK
<1>7. \A d \in Downloads : FetchOK(d)'
  BY <1>2, FetchesStay DEF IInv
<1> QED
  BY <1>1, <1>2, <1>5, <1>6, <1>7, JobsStay DEF IInv

LEMMA RemoveStep == ASSUME IInv, NEW c \in Cleaners, RemoveFile(c) PROVE IInv'
<1> DEFINE f == clean[c].victim
<1>1. /\ TypeOK /\ clean[c] \in Run /\ CleanOK(c) /\ JobsInv /\ f # None /\ f \in File
      /\ now \in Nat /\ Retention \in Nat
  BY JobsAssumption DEF IInv, TypeOK, RemoveFile, Run
<1>2. /\ UNCHANGED <<now, whole, unflushed, job, rec, dl, crashes>>
      /\ disk' = [disk EXCEPT ![f] = None] /\ clean' = [clean EXCEPT ![c].victim = None]
  BY DEF RemoveFile
<1>3. /\ [clean[c] EXCEPT !.victim = None] \in Run
      /\ [clean[c] EXCEPT !.victim = None].start = clean[c].start
      /\ [clean[c] EXCEPT !.victim = None].victim = None
      /\ [clean[c] EXCEPT !.victim = None].todo = clean[c].todo
  BY <1>1 DEF Run
<1>4. TypeOK'
  BY <1>1, <1>2, <1>3 DEF TypeOK
<1>5. \A b \in Cleaners : CleanOK(b)'
  BY <1>1, <1>2, <1>3 DEF CleanOK, IInv, TypeOK
<1>6. \A d \in Downloads : FetchOK(d)'
  BY <1>2, FetchesStay DEF IInv
<1>7. ASSUME NEW j \in Jobs PROVE RecordOK(j)' /\ FilesOK(j)' /\ OutputOK(j)'
  <2>1. RecordOK(j) /\ FilesOK(j) /\ OutputOK(j)
    BY <1>1 DEF JobsInv
  <2>2. \A n \in Uploads \cup Pieces \cup {"out"} :
          /\ <<j, n>> \in File
          /\ disk'[<<j, n>>] = IF f = <<j, n>> THEN None ELSE disk[<<j, n>>]
    BY <1>1, <1>2 DEF TypeOK, File
  <2>3. RecordOK(j)'
    BY <1>2, <2>1 DEF RecordOK, Offers
  <2>4. FilesOK(j)'
    BY <1>2, <2>1, <2>2 DEF FilesOK, OnDisk
  <2>5. f = <<j, "out">> => job[j].expires < now
    BY <1>1 DEF CleanOK
  <2>6. OutputOK(j)'
    BY <1>2, <2>1, <2>2, <2>5 DEF OutputOK, Out
  <2> QED
    BY <2>3, <2>4, <2>6
<1> QED
  BY <1>4, <1>5, <1>6, <1>7 DEF IInv, JobsInv

LEMMA ArchiveStep ==
  ASSUME IInv, NEW c \in Cleaners, NEW j \in clean[c].todo, ArchiveByID(c, j) PROVE IInv'
<1>1. /\ TypeOK /\ clean[c] \in Run /\ CleanOK(c) /\ JobsInv /\ j \in Jobs /\ rec[j] # None
  BY DEF IInv, TypeOK, Run, CleanOK
<1>2. /\ UNCHANGED <<now, disk, whole, unflushed, job, dl, crashes>>
      /\ clean' = [clean EXCEPT ![c].todo = @ \ {j}]
      /\ RowIs(j, rec[j].status, FALSE, TRUE, rec[j].expires)
  BY <1>1, RowMoves DEF ArchiveByID
<1>3. /\ [clean[c] EXCEPT !.todo = @ \ {j}] \in Run
      /\ [clean[c] EXCEPT !.todo = @ \ {j}].start = clean[c].start
      /\ [clean[c] EXCEPT !.todo = @ \ {j}].victim = clean[c].victim
      /\ [clean[c] EXCEPT !.todo = @ \ {j}].todo = clean[c].todo \ {j}
  BY <1>1 DEF Run
<1>4. TypeOK'
  BY <1>1, <1>2, <1>3 DEF TypeOK, RowIs
<1>5. ASSUME NEW b \in Cleaners PROVE CleanOK(b)'
  <2>1. /\ CleanOK(b) /\ clean'[b].start = clean[b].start /\ clean'[b].victim = clean[b].victim
        /\ clean'[b].todo \subseteq clean[b].todo /\ clean[b].todo \subseteq Jobs
    BY <1>1, <1>2, <1>3 DEF IInv, TypeOK, Run
  <2>2. \A i \in Jobs : rec[i] # None => rec'[i] # None /\ rec'[i].expires = rec[i].expires
    BY <1>1, <1>2 DEF RowIs
  <2> QED
    BY <1>2, <2>1, <2>2 DEF CleanOK
<1>6. \A d \in Downloads : FetchOK(d)'
  BY <1>2, FetchesStay DEF IInv
<1>7. ASSUME NEW i \in Jobs PROVE RecordOK(i)' /\ FilesOK(i)' /\ OutputOK(i)'
  <2>1. RecordOK(i) /\ FilesOK(i) /\ OutputOK(i)
    BY <1>1 DEF JobsInv
  <2>2. /\ rec'[i] = None <=> rec[i] = None
        /\ rec[i] # None => rec'[i].status = rec[i].status /\ rec'[i].expires = rec[i].expires
    BY <1>1, <1>2 DEF RowIs
  <2>3. RecordOK(i)'
    BY <1>2, <2>1, <2>2 DEF RecordOK, Offers
  <2>4. FilesOK(i)'
    BY <1>2, <2>1, <2>2 DEF FilesOK, OnDisk
  <2>5. OutputOK(i)'
    BY <1>2, <2>1 DEF OutputOK, Out
  <2> QED
    BY <2>3, <2>4, <2>5
<1> QED
  BY <1>4, <1>5, <1>6, <1>7 DEF IInv, JobsInv

LEMMA CleanStep == ASSUME IInv, NEW c \in Cleaners, Clean(c) PROVE IInv'
  BY LookStep, RemoveStep, ArchiveStep DEF Clean

LEMMA CrashStep == ASSUME IInv, Crash PROVE IInv'
<1>1. /\ TypeOK /\ JobsInv /\ now \in Nat /\ Retention \in Nat
      /\ UNCHANGED <<now, disk, whole, unflushed, rec>> /\ crashes' = crashes + 1
      /\ clean' = [c \in Cleaners |-> Resting]
      /\ dl' = [d \in Downloads |-> [pc |-> "idle", job |-> None]]
  BY JobsAssumption DEF IInv, Crash, TypeOK
<1>2. ASSUME NEW j \in Jobs
      PROVE  /\ job'[j] \in Job /\ job'[j].op = job[j].op /\ job'[j].expires = job[j].expires
             /\ \/ job'[j].pc = job[j].pc /\ job'[j].todo = job[j].todo
                   /\ job[j].pc \in {"idle", "told_ok", "told_error", "lost"}
                \/ job'[j].pc = "lost" /\ job[j].pc \notin {"idle", "told_ok"}
  <2>1. job[j] \in Job
    BY <1>1 DEF TypeOK
  <2>2. job'[j] = IF job[j].pc \in {"idle", "told_ok", "told_error", "lost"}
                  THEN job[j] ELSE [job[j] EXCEPT !.pc = "lost", !.todo = {}]
    BY DEF Crash
  <2> QED
    BY <2>1, <2>2 DEF Job, Steps
<1>3. job' = [j \in Jobs |-> job'[j]]
  BY DEF Crash
<1>4. Resting \in Run /\ [pc |-> "idle", job |-> None] \in Fetch
  BY DEF Resting, Run, Fetch
<1>5. TypeOK'
  BY <1>1, <1>2, <1>3, <1>4 DEF TypeOK
<1>6. ASSUME NEW j \in Jobs PROVE RecordOK(j)' /\ FilesOK(j)' /\ OutputOK(j)'
  <2>1. RecordOK(j) /\ FilesOK(j) /\ OutputOK(j)
    BY <1>1 DEF JobsInv
  <2>2. RecordOK(j)'
    BY <1>1, <1>2, <2>1 DEF RecordOK, Early, Offers
  <2>3. FilesOK(j)'
    BY <1>1, <1>2, <2>1 DEF FilesOK, OnDisk
  <2>4. OutputOK(j)'
    BY <1>1, <1>2, <2>1 DEF OutputOK, Out, Early
  <2> QED
    BY <2>2, <2>3, <2>4
<1>7. \A c \in Cleaners : CleanOK(c)'
  BY <1>1 DEF CleanOK, Resting
<1>8. \A d \in Downloads : FetchOK(d)'
  BY <1>1 DEF FetchOK
<1> QED
  BY <1>5, <1>6, <1>7, <1>8 DEF IInv, JobsInv

LEMMA TickStep == ASSUME IInv, Tick PROVE IInv'
<1>1. /\ TypeOK /\ JobsInv /\ now \in Nat /\ Retention \in Nat /\ now' = now + 1
      /\ UNCHANGED <<disk, whole, unflushed, job, rec, clean, dl, crashes>>
  BY JobsAssumption DEF IInv, Tick, TypeOK
<1>2. TypeOK'
  BY <1>1 DEF TypeOK
<1>3. ASSUME NEW j \in Jobs PROVE RecordOK(j)' /\ FilesOK(j)' /\ OutputOK(j)'
  <2>1. RecordOK(j) /\ FilesOK(j) /\ OutputOK(j) /\ job[j].expires \in Nat
    BY <1>1 DEF JobsInv, TypeOK, Job
  <2>2. OutputOK(j)'
    BY <1>1, <2>1 DEF OutputOK, Out
  <2> QED
    BY <1>1, <2>1, <2>2 DEF RecordOK, FilesOK, OnDisk, Offers
<1>4. ASSUME NEW c \in Cleaners PROVE CleanOK(c)'
  <2>1. CleanOK(c) /\ clean[c] \in Run /\ rec \in [Jobs -> Record \cup {None}] /\ job \in [Jobs -> Job]
    BY <1>1 DEF IInv, TypeOK
  <2>2. \A j \in Jobs : job[j].expires \in Nat /\ (rec[j] # None => rec[j].expires \in Nat)
    BY <2>1 DEF Job, Record
  <2>3. clean[c].start \in Nat /\ clean[c].todo \subseteq Jobs
    BY <2>1 DEF Run
  <2> QED
    BY <1>1, <2>1, <2>2, <2>3 DEF CleanOK
<1>5. \A d \in Downloads : FetchOK(d)'
  BY <1>1, FetchesStay DEF IInv
<1> QED
  BY <1>2, <1>3, <1>4, <1>5 DEF IInv, JobsInv

LEMMA Step == IInv /\ [Next]_vars => IInv'
<1> SUFFICES ASSUME IInv, [Next]_vars PROVE IInv'
  OBVIOUS
<1>1. CASE UNCHANGED vars
  <2>1. UNCHANGED <<now, disk, whole, unflushed, job, rec, clean, dl, crashes>>
    BY <1>1 DEF vars
  <2>2. TypeOK'
    BY <2>1 DEF IInv, TypeOK
  <2> QED
    BY <2>1, <2>2, JobsStay, CleanersStay, FetchesStay DEF IInv
<1> QED
  BY <1>1, HandleStep, FetchStep, CleanStep, CrashStep, TickStep DEF Next

LEMMA Invariance == Spec => []IInv
  BY InitIInv, Step, PTL DEF Spec
-----------------------------------------------------------------------------
(* Theorems.                                                                *)

\* Every variable has its type in every reachable state.
THEOREM TypeCorrect == Spec => []TypeOK
<1>1. IInv => TypeOK
  BY DEF IInv
<1> QED
  BY <1>1, Invariance, PTL

\* What a state that meets the invariant offers is on disk, and complete.
LEMMA OfferedIsThere ==
  ASSUME IInv, NEW j \in Jobs, Downloadable(rec[j]), now <= rec[j].expires
  PROVE  OnDisk(j, "out") /\ j \in whole \cup unflushed /\ job[j].pc = "told_ok"
<1>1. RecordOK(j) /\ OutputOK(j) /\ rec[j] # None /\ rec[j].status = "completed"
  BY DEF IInv, JobsInv, Downloadable
<1>2. now \in Nat /\ job[j].expires \in Nat /\ rec[j].expires = job[j].expires
  BY <1>1 DEF IInv, TypeOK, Job, RecordOK
<1> QED
  BY <1>1, <1>2 DEF RecordOK, OutputOK, OnDisk, Out, Offers

\* A result that a record offers (handler/pdf.go, Download) is on disk and was
\* written to its end until the record expires, for any retention, and however
\* the cleanup's runs interleave with the tools, the requests and restarts.
THEOREM ResultsKept == Spec => []KeptUntilExpiry
<1>1. IInv => KeptUntilExpiry
  BY OfferedIsThere DEF KeptUntilExpiry
<1> QED
  BY <1>1, Invariance, PTL

\* A download delivers an incomplete file only if closing the ZIP of a split
\* failed and CreateZip dropped the error.
THEOREM DownloadsWhole == Spec => []NeverTorn
<1>1. IInv => NeverTorn
  BY DEF IInv, FetchOK, NeverTorn
<1> QED
  BY <1>1, Invariance, PTL

\* A request refused before its insert has removed its uploads, and an answered
\* request its intermediate files, in whichever order its steps and cleanup ran.
THEOREM CleansUp == Spec => []NothingLeftBehind
<1>1. IInv => NothingLeftBehind
  BY DEF IInv, JobsInv, FilesOK, NothingLeftBehind
<1> QED
  BY <1>1, Invariance, PTL
-----------------------------------------------------------------------------
(* The service implements ResultShelf.                                      *)

\* A job is offered, until a time that is not over and as complete as it is, or not.
LEMMA OfferedIs ==
  ASSUME IInv, NEW j \in Jobs
  PROVE  /\ Offered(j) # None <=> Downloadable(rec[j]) /\ now <= rec[j].expires
         /\ Offered(j) # None => /\ Offered(j) \in Shelf!Item
                                 /\ Offered(j).until = rec[j].expires
                                 /\ Offered(j).complete = (j \in whole)
                                 /\ job[j].pc = "told_ok" /\ OnDisk(j, "out")
<1>1. rec[j] # None => rec[j].expires \in Nat
  BY DEF IInv, TypeOK, Record
<1>2. CASE Downloadable(rec[j]) /\ now <= rec[j].expires
  <2>1. Offered(j) = [until |-> rec[j].expires, complete |-> j \in whole]
    BY <1>2 DEF Offered
  <2>2. Offered(j) \in Shelf!Item
    BY <1>1, <1>2, <2>1 DEF Shelf!Item, Downloadable
  <2>3. Offered(j) # None
    BY <2>2, OfferAssumption DEF Shelf!Item
  <2> QED
    BY <1>2, <2>1, <2>2, <2>3, OfferedIsThere
<1>3. CASE ~(Downloadable(rec[j]) /\ now <= rec[j].expires)
  BY <1>3 DEF Offered
<1> QED
  BY <1>2, <1>3

\* Whoever sees neither time, results nor readers change, sees no step.
LEMMA SameShelf ==
  ASSUME now' = now, \A j \in Jobs : Offered(j)' = Offered(j),
         \A d \in Downloads : Seen(d)' = Seen(d)
  PROVE  UNCHANGED Shelf!svars
  BY DEF Shelf!svars, shelf, reader

LEMMA ShelfInit == Init => Shelf!Init
<1> SUFFICES ASSUME Init PROVE Shelf!Init
  OBVIOUS
<1>1. \A j \in Jobs : Offered(j) = None
  BY DEF Init, Offered, Downloadable
<1>2. \A d \in Downloads : dl[d].pc = "idle" /\ dl[d].job = None /\ None \notin whole
  BY DEF Init
<1>3. \A d \in Downloads : Got(dl[d].pc) = "nothing"
  BY <1>2 DEF Got
<1>4. ASSUME NEW d \in Downloads PROVE Seen(d) = Shelf!Unseen
  <2>1. (dl[d].job \in whole) = FALSE
    BY <1>2
  <2> QED
    BY <1>2, <1>3, <2>1 DEF Seen, Shelf!Unseen
<1>5. reader = [d \in Downloads |-> Shelf!Unseen]
  BY <1>4 DEF reader
<1>6. shelf = [j \in Jobs |-> None]
  BY <1>1 DEF shelf
<1>7. now = 0
  BY DEF Init
<1> QED
  BY <1>5, <1>6, <1>7 DEF Shelf!Init

\* Until its answer, nobody sees what a request does.
LEMMA Unseen ==
  ASSUME IInv, IInv', NEW j \in Jobs, Advances(j), job'[j].pc # "told_ok"
  PROVE  UNCHANGED Shelf!svars
<1>1. now' = now /\ dl' = dl /\ job[j].pc # "told_ok"
  BY DEF Advances
<1>2. ASSUME NEW i \in Jobs PROVE Offered(i)' = Offered(i)
  <2>1. CASE i = j
    <3>1. ~Downloadable(rec[j]) /\ ~Downloadable(rec[j])'
      BY <1>1 DEF IInv, JobsInv, RecordOK, Offers, Downloadable
    <3> QED
      BY <2>1, <3>1 DEF Offered
  <2>2. CASE i # j
    <3>1. rec'[i] = rec[i] /\ (i \in whole' <=> i \in whole)
      BY <2>2 DEF Advances, SameJob
    <3> QED
      BY <1>1, <3>1 DEF Offered
  <2> QED
    BY <2>1, <2>2
<1>3. ASSUME NEW d \in Downloads PROVE Seen(d)' = Seen(d)
  <2>1. dl[d].job \in Jobs \cup {None} /\ dl[d].job # j /\ None \notin whole /\ None \notin whole'
    BY <1>1, JobsAssumption DEF IInv, TypeOK, Fetch, FetchOK
  <2>2. dl[d].job \in whole' <=> dl[d].job \in whole
    BY <2>1 DEF Advances, SameJob
  <2> QED
    BY <1>1, <2>2 DEF Seen
<1> QED
  BY <1>1, <1>2, <1>3, SameShelf

\* The answer puts the result on the shelf, unless the update of its record is
\* lost or comes too late.
LEMMA AnswerShelf ==
  ASSUME IInv, IInv', NEW j \in Jobs, AnswerSuccess(j)
  PROVE  [Shelf!Next]_(Shelf!svars)
<1>1. /\ job[j].pc = "done" /\ rec[j] # None /\ ~Downloadable(rec[j])
      /\ UNCHANGED <<now, whole, dl>> /\ now \in Nat
  BY DEF AnswerSuccess, IInv, JobsInv, RecordOK, Offers, Downloadable, TypeOK
<1>2. \A d \in Downloads : Seen(d)' = Seen(d)
  BY <1>1 DEF Seen
<1>3. CASE rec' = rec
  <2>1. \A i \in Jobs : Offered(i)' = Offered(i)
    BY <1>1, <1>3 DEF Offered
  <2> QED
    BY <1>1, <1>2, <2>1, SameShelf
<1>4. CASE RowIs(j, "completed", TRUE, rec[j].archived, rec[j].expires)
  <2>1. ASSUME NEW i \in Jobs \ {j} PROVE Offered(i)' = Offered(i)
    BY <1>1, <1>4 DEF Offered, RowIs
  <2>2. Offered(j) = None
    BY <1>1 DEF Offered
  <2>3. CASE Offered(j)' = None
    <3>1. \A i \in Jobs : Offered(i)' = Offered(i)
      BY <2>1, <2>2, <2>3
    <3> QED
      BY <1>1, <1>2, <3>1, SameShelf
  <2>4. CASE Offered(j)' # None
    <3>1. Offered(j)' \in Shelf!Item /\ Offered(j)'.until >= now
      <4>1. /\ Offered(j)' = [until |-> rec'[j].expires, complete |-> j \in whole']
            /\ now' <= rec'[j].expires
        BY <2>4 DEF Offered
      <4>2. rec'[j].expires \in Nat
        BY <1>4 DEF RowIs, IInv, TypeOK, Record
      <4> QED
        BY <1>1, <4>1, <4>2 DEF Shelf!Item
    <3>2. shelf' = [shelf EXCEPT ![j] = Offered(j)'] /\ shelf'[j] = Offered(j)'
      BY <2>1 DEF shelf
    <3>3. shelf[j] = None /\ reader' = reader
      BY <1>2, <2>2 DEF shelf, reader
    <3> QED
      BY <1>1, <3>1, <3>2, <3>3 DEF Shelf!Next, Shelf!Put
  <2> QED
    BY <2>3, <2>4
<1>5. rec \in [Jobs -> Record \cup {None}] /\ TypeOK
  BY DEF IInv, TypeOK
<1> QED
  BY <1>1, <1>3, <1>4, <1>5, RowMoves DEF AnswerSuccess, UpdateStatus

\* A download asks, waits, and is served, or sent away from what is off the shelf.
LEMMA FetchShelf ==
  ASSUME IInv, NEW d \in Downloads, Stat(d) \/ ServeFile(d) \/ \E j \in Jobs : Download(d, j)
  PROVE  [Shelf!Next]_(Shelf!svars)
<1>1. /\ UNCHANGED <<now, disk, whole, unflushed, job, rec>> /\ dl[d] \in Fetch
      /\ dl \in [Downloads -> Fetch] /\ None \notin Jobs
  BY JobsAssumption DEF Stat, ServeFile, Download, IInv, TypeOK
<1>2. \A j \in Jobs : Offered(j)' = Offered(j)
  BY <1>1 DEF Offered
<1>3. shelf' = shelf
  BY <1>2 DEF shelf
<1>4. \A e \in Downloads : reader[e] = Seen(e)
  BY DEF reader
<1>a. reader[d].got = Got(dl[d].pc) /\ reader[d].result = dl[d].job
  <2>1. Seen(d).got = Got(dl[d].pc) /\ Seen(d).result = dl[d].job
    BY DEF Seen
  <2> QED
    BY <1>4, <2>1
<1>b. reader[d].complete = (dl[d].job \in whole)
  <2>1. Seen(d).complete = (dl[d].job \in whole)
    BY DEF Seen
  <2> QED
    BY <1>4, <2>1
<1>5. ASSUME NEW x \in Fetch, dl' = [dl EXCEPT ![d] = x]
      PROVE  reader' = [reader EXCEPT ![d] = [result |-> x.job, complete |-> x.job \in whole,
                                              got |-> Got(x.pc)]]
  BY <1>1, <1>5 DEF reader, Seen
<1>6. ASSUME dl[d].pc \in {"cleared", "verified"}
      PROVE  /\ dl[d].job \in Jobs /\ reader[d].got = "waiting"
             /\ ~OnDisk(dl[d].job, "out") => shelf[reader[d].result] = None
  <2>1. dl[d].job \in Jobs
    BY <1>1, <1>6 DEF IInv, FetchOK, Fetch
  <2>2. ~OnDisk(dl[d].job, "out") => Offered(dl[d].job) = None
    BY <2>1, OfferedIs
  <2>3. reader[d].got = "waiting" /\ reader[d].result = dl[d].job
    BY <1>6, <1>a DEF Got
  <2> QED
    BY <2>1, <2>2, <2>3 DEF shelf
<1>7. CASE Stat(d)
  <2> DEFINE x == [dl[d] EXCEPT !.pc = IF OnDisk(dl[d].job, "out") THEN "verified" ELSE "gone"]
  <2>1. /\ x \in Fetch /\ x.job = dl[d].job /\ dl' = [dl EXCEPT ![d] = x]
        /\ x.pc = IF OnDisk(dl[d].job, "out") THEN "verified" ELSE "gone"
    BY <1>1, <1>7 DEF Stat, Fetch
  <2> HIDE DEF x
  <2>2. reader' = [reader EXCEPT ![d] = [result |-> x.job, complete |-> x.job \in whole,
                                         got |-> Got(x.pc)]]
    BY <1>5, <2>1
  <2>3. dl[d].pc = "cleared"
    BY <1>7 DEF Stat
  <2>4. CASE OnDisk(dl[d].job, "out")
    <3>1. Got(x.pc) = Got(dl[d].pc)
      BY <2>1, <2>3, <2>4 DEF Got
    <3>2. reader' = reader
      BY <1>4, <2>1, <2>2, <3>1 DEF Seen, reader
    <3> QED
      BY <1>1, <1>3, <3>2 DEF Shelf!svars
  <2>5. CASE ~OnDisk(dl[d].job, "out")
    <3>1. Got(x.pc) = "missing"
      BY <2>1, <2>5 DEF Got
    <3>2. reader' = [reader EXCEPT ![d].got = "missing"]
      BY <1>4, <2>1, <2>2, <3>1 DEF Seen, reader
    <3> QED
      BY <1>1, <1>3, <1>6, <2>3, <2>5, <3>2 DEF Shelf!Next, Shelf!SendAway
  <2> QED
    BY <2>4, <2>5
<1>8. CASE ServeFile(d)
  <2> DEFINE x == [dl[d] EXCEPT !.pc = IF ~OnDisk(dl[d].job, "out") THEN "bare404"
                                       ELSE IF dl[d].job \in whole THEN "served" ELSE "torn"]
  <2>1. /\ x \in Fetch /\ x.job = dl[d].job /\ dl' = [dl EXCEPT ![d] = x]
        /\ x.pc = IF ~OnDisk(dl[d].job, "out") THEN "bare404"
                  ELSE IF dl[d].job \in whole THEN "served" ELSE "torn"
    BY <1>1, <1>8 DEF ServeFile, Fetch
  <2> HIDE DEF x
  <2>2. reader' = [reader EXCEPT ![d] = [result |-> x.job, complete |-> x.job \in whole,
                                         got |-> Got(x.pc)]]
    BY <1>5, <2>1
  <2>3. dl[d].pc = "verified"
    BY <1>8 DEF ServeFile
  <2>4. CASE ~OnDisk(dl[d].job, "out")
    <3>1. Got(x.pc) = "missing"
      BY <2>1, <2>4 DEF Got
    <3>2. reader' = [reader EXCEPT ![d].got = "missing"]
      BY <1>4, <2>1, <2>2, <3>1 DEF Seen, reader
    <3> QED
      BY <1>1, <1>3, <1>6, <2>3, <2>4, <3>2 DEF Shelf!Next, Shelf!SendAway
  <2>5. CASE OnDisk(dl[d].job, "out")
    <3>1. Got(x.pc) = IF dl[d].job \in whole THEN "all of it" ELSE "a part"
      BY <2>1, <2>5 DEF Got
    <3>2. Got(x.pc) = IF reader[d].complete THEN "all of it" ELSE "a part"
      BY <1>b, <3>1
    <3>3. reader' = [reader EXCEPT ![d].got = Got(x.pc)]
      BY <1>4, <2>1, <2>2 DEF Seen, reader
    <3> QED
      BY <1>1, <1>3, <1>6, <2>3, <3>2, <3>3 DEF Shelf!Next, Shelf!Serve
  <2> QED
    BY <2>4, <2>5
<1>9. ASSUME NEW j \in Jobs, Download(d, j)
      PROVE  [Shelf!Next]_(Shelf!svars)
  <2> DEFINE x == [pc |-> "cleared", job |-> j]
  <2>1. x \in Fetch /\ x.job = j /\ dl' = [dl EXCEPT ![d] = x] /\ Got(x.pc) = "waiting"
    BY <1>9 DEF Download, Fetch, Got
  <2>2. reader' = [reader EXCEPT ![d] = [result |-> j, complete |-> j \in whole,
                                         got |-> "waiting"]]
    BY <1>5, <2>1
  <2>3. Offered(j) # None /\ Offered(j).complete = (j \in whole)
    <3>1. rec[j].expires \in Nat /\ now \in Nat /\ rec[j] # None
      BY <1>9 DEF Download, Downloadable, IInv, TypeOK, Record
    <3>2. Downloadable(rec[j]) /\ now <= rec[j].expires
      BY <1>9, <3>1 DEF Download
    <3> QED
      BY <3>2, OfferedIs
  <2>4. shelf[j] # None /\ shelf[j].complete = (j \in whole)
    BY <2>3 DEF shelf
  <2>5. Got(dl[d].pc) # "waiting"
    <3>1. dl[d].pc \in {"idle", "served", "gone", "torn", "bare404"}
      BY <1>1, <1>9 DEF Download, Fetch
    <3> QED
      BY <3>1 DEF Got
  <2>6. reader[d].got # "waiting"
    BY <1>a, <2>5
  <2> QED
    BY <1>1, <1>3, <2>2, <2>4, <2>6 DEF Shelf!Next, Shelf!Ask
<1> QED
  BY <1>7, <1>8, <1>9

\* Cleanup takes nothing off the shelf: the rows it archives have expired.
LEMMA CleanShelf ==
  ASSUME IInv, NEW c \in Cleaners, Clean(c)
  PROVE  [Shelf!Next]_(Shelf!svars)
<1>1. UNCHANGED <<now, whole, dl>>
  BY DEF Clean, CleanStart, CleanDB, QueryFails, CleanDone, RemoveFile, RemoveFails, SeeFile,
         ArchiveByID, ArchiveFails
<1>2. \A d \in Downloads : Seen(d)' = Seen(d)
  BY <1>1 DEF Seen
<1>3. CASE rec' = rec
  <2>1. \A i \in Jobs : Offered(i)' = Offered(i)
    BY <1>1, <1>3 DEF Offered
  <2> QED
    BY <1>1, <1>2, <2>1, SameShelf
<1>4. ASSUME NEW j \in clean[c].todo, ArchiveByID(c, j)
      PROVE  [Shelf!Next]_(Shelf!svars)
  <2>1. /\ j \in Jobs /\ rec[j] # None /\ rec[j].expires < now
        /\ now \in Nat /\ rec[j].expires \in Nat /\ TypeOK
    BY DEF IInv, TypeOK, Run, CleanOK, Record
  <2>2. RowIs(j, rec[j].status, FALSE, TRUE, rec[j].expires)
    BY <1>4, <2>1, RowMoves DEF ArchiveByID
  <2>3. Offered(j) = None
    BY <2>1 DEF Offered
  <2>4. Offered(j)' = None
    BY <2>2 DEF Offered, Downloadable, RowIs
  <2>5. \A i \in Jobs \ {j} : Offered(i)' = Offered(i)
    BY <1>1, <2>2 DEF Offered, RowIs
  <2>6. \A i \in Jobs : Offered(i)' = Offered(i)
    BY <2>3, <2>4, <2>5
  <2> QED
    BY <1>1, <1>2, <2>6, SameShelf
<1> QED
  BY <1>3, <1>4
  DEF Clean, CleanStart, CleanDB, QueryFails, CleanDone, RemoveFile, RemoveFails, SeeFile,
      ArchiveFails

LEMMA CrashShelf == ASSUME IInv, Crash PROVE [Shelf!Next]_(Shelf!svars)
<1>1. /\ UNCHANGED <<now, whole, rec>> /\ dl' = [d \in Downloads |-> [pc |-> "idle", job |-> None]]
      /\ None \notin whole
  BY JobsAssumption DEF Crash, IInv, TypeOK
<1>2. \A j \in Jobs : Offered(j)' = Offered(j)
  BY <1>1 DEF Offered
<1>3. ASSUME NEW d \in Downloads PROVE Seen(d)' = Shelf!Unseen
  <2>1. dl'[d].job = None /\ dl'[d].pc = "idle"
    BY <1>1
  <2>2. (dl'[d].job \in whole') = FALSE
    BY <1>1, <2>1
  <2>3. Got(dl'[d].pc) = "nothing"
    BY <2>1 DEF Got
  <2> QED
    BY <2>1, <2>2, <2>3 DEF Seen, Shelf!Unseen
<1>4. reader' = [d \in Downloads |-> Shelf!Unseen] /\ shelf' = shelf
  BY <1>2, <1>3 DEF reader, shelf
<1> QED
  BY <1>1, <1>4 DEF Shelf!Next, Shelf!HangUp

\* Only time takes a result off the shelf.
LEMMA TickShelf == ASSUME IInv, Tick PROVE [Shelf!Next]_(Shelf!svars)
<1>1. UNCHANGED <<whole, rec, dl>> /\ now' = now + 1 /\ now \in Nat
  BY DEF Tick, IInv, TypeOK
<1>2. \A d \in Downloads : Seen(d)' = Seen(d)
  BY <1>1 DEF Seen
<1>3. ASSUME NEW j \in Jobs
      PROVE  Offered(j)' = IF Offered(j) # None /\ Offered(j).until < now' THEN None ELSE Offered(j)
  <2>1. rec[j] # None => rec[j].expires \in Nat
    BY DEF IInv, TypeOK, Record
  <2>2. CASE ~Downloadable(rec[j])
    BY <1>1, <2>2 DEF Offered
  <2>3. CASE Downloadable(rec[j]) /\ ~(now <= rec[j].expires)
    <3>1. ~(now' <= rec'[j].expires)
      BY <1>1, <2>1, <2>3 DEF Downloadable
    <3> QED
      BY <2>3, <3>1 DEF Offered
  <2>4. CASE Downloadable(rec[j]) /\ now <= rec[j].expires
    <3>1. Offered(j) # None /\ Offered(j).until = rec[j].expires
      BY <2>4, OfferedIs
    <3>2. Offered(j).until < now' <=> ~(now' <= rec'[j].expires)
      BY <1>1, <2>1, <2>4, <3>1 DEF Downloadable
    <3> QED
      BY <1>1, <2>4, <3>1, <3>2 DEF Offered
  <2> QED
    BY <2>2, <2>3, <2>4
<1>4. shelf' = [j \in Jobs |-> IF shelf[j] # None /\ shelf[j].until < now' THEN None ELSE shelf[j]]
  BY <1>3 DEF shelf
<1>5. reader' = reader
  BY <1>2 DEF reader
<1> QED
  BY <1>1, <1>4, <1>5 DEF Shelf!Next, Shelf!Tick

\* Every step of the service is a step of the shelf or leaves it unchanged.
LEMMA ShelfStep == IInv /\ IInv' /\ [Next]_vars => [Shelf!Next]_(Shelf!svars)
<1> SUFFICES ASSUME IInv, IInv', [Next]_vars PROVE [Shelf!Next]_(Shelf!svars)
  OBVIOUS
<1>1. ASSUME NEW j \in Jobs, Handle(j) PROVE [Shelf!Next]_(Shelf!svars)
  <2>1. CASE AnswerSuccess(j)
    BY <2>1, AnswerShelf
  <2>2. CASE ~AnswerSuccess(j)
    <3>1. Advances(j) /\ job[j].pc # "told_ok" /\ job[j] \in Job /\ job \in [Jobs -> Job]
      BY <1>1, HandleStep DEF Advances, IInv, TypeOK
    <3>2. job'[j].pc # "told_ok"
      <4>1. CASE \E o \in Operations : Upload(j, o)
        BY <3>1, <4>1 DEF Upload
      <4>2. CASE \/ \E n \in Uploads : SaveUploadedFile(j, n)
                 \/ \E n \in Pieces : WritePiece(j, n)
        <5>1. CASE \E n \in Uploads : SaveUploadedFile(j, n)
          BY <3>1, <5>1 DEF SaveUploadedFile, Job
        <5>2. CASE \E n \in Pieces : WritePiece(j, n)
          BY <3>1, <5>2 DEF WritePiece, Job
        <5> QED
          BY <4>2, <5>1, <5>2
      <4>3. CASE Prepare(j) \/ Refuse(j) \/ CreateRecord(j)
        BY <3>1, <4>3 DEF Prepare, Refuse, CreateRecord, Job
      <4>4. CASE \/ StartOutput(j) \/ FinishOutput(j) \/ CopyOriginal(j)
                 \/ ToolFails(j) \/ AnswerFailure(j)
        <5>1. CASE StartOutput(j) \/ FinishOutput(j)
          BY <3>1, <5>1 DEF StartOutput, FinishOutput, Job
        <5>2. CASE CopyOriginal(j) \/ ToolFails(j) \/ AnswerFailure(j)
          BY <3>1, <5>2 DEF CopyOriginal, ToolFails, AnswerFailure, Job
        <5> QED
          BY <4>4, <5>1, <5>2
      <4> QED
        BY <1>1, <2>2, <4>1, <4>2, <4>3, <4>4 DEF Handle
    <3> QED
      BY <3>1, <3>2, Unseen
  <2> QED
    BY <2>1, <2>2
<1>2. CASE UNCHANGED vars
  <2>1. /\ now' = now /\ \A j \in Jobs : Offered(j)' = Offered(j)
        /\ \A d \in Downloads : Seen(d)' = Seen(d)
    BY <1>2 DEF vars, Offered, Seen
  <2> QED
    BY <2>1, SameShelf
<1> QED
  BY <1>1, <1>2, FetchShelf, CleanShelf, CrashShelf, TickShelf DEF Next

\* The PDF service implements the shelf: every behaviour of FileJobs, with its
\* failing tools and updates, cleanups and restarts, is one of ResultShelf.
THEOREM ImplementsShelf == Spec => ShelfSpec
<1>1. Init => Shelf!Init
  BY ShelfInit
<1>2. IInv /\ IInv' /\ [Next]_vars => [Shelf!Next]_(Shelf!svars)
  BY ShelfStep
<1> QED
  BY <1>1, <1>2, Invariance, PTL DEF Spec, ShelfSpec, Shelf!Spec
=============================================================================
