----------------------------- MODULE MergeUpload -----------------------------
(***************************************************************************)
(* The upload of POST /api/v1/pdf/merge: the parts of the form are         *)
(* collected by field name, saved one after the other, counted and merged. *)
(* handler/pdf.go (MergePDF, saveMultipleUploadedFiles), and MergePDFs of  *)
(* service/pdf_service.go.  Part i of the form is the i-th file uploaded.  *)
(***************************************************************************)
EXTENDS Naturals, Sequences, FiniteSets, SequencesExt

CONSTANTS
  Fields,         \* the field names that match: "files", "files[0]", ...
  OtherFields,    \* and some that do not
  MaxMergeFiles,
  MaxParts        \* bound on the form

ASSUME UploadAssumption ==
  /\ Fields \cap OtherFields = {}
  /\ MaxMergeFiles \in Nat /\ MaxParts \in Nat

VARIABLES
  form,      \* the parts: field name, and whether the file name ends in .pdf
  headers,   \* the parts collected, in the order they will be saved
  paths,     \* the parts saved so far
  disk,      \* the parts in the upload directory
  pc, merged

vars == <<form, headers, paths, disk, pc, merged>>

Part == [key : Fields \cup OtherFields, pdf : BOOLEAN]

Init ==
  /\ form \in SeqOf(Part, MaxParts)
  /\ headers = <<>> /\ paths = <<>> /\ disk = {} /\ pc = "parse" /\ merged = <<>>

\* MultipartForm.File[key]: the parts of one field, in the order they came.
PartsOf_Last(key) ==
  {i \in DOMAIN form : form[i].key = key /\ \A k \in DOMAIN form : form[k].key = key => k <= i}
PartsOf(key) == {i \in DOMAIN form : form[i].key = key}

Ascending(S) == CHOOSE s \in SetToSeqs(S) : \A i, j \in DOMAIN s : i < j => s[i] < s[j]

\* range over a map: the fields come in any order.
Collect ==
  /\ pc = "parse"
  /\ \E keys \in SetToSeqs({k \in Fields : PartsOf(k) # {}}) :
       headers' = FlattenSeq([i \in DOMAIN keys |-> Ascending(PartsOf(keys[i]))])
  /\ pc' = IF headers' = <<>> THEN "refused" ELSE "save"
  /\ UNCHANGED <<form, paths, disk, merged>>

Current == headers[Len(paths) + 1]

SaveUploadedFile ==
  /\ pc = "save" /\ Len(paths) < Len(headers) /\ form[Current].pdf
  /\ paths' = Append(paths, Current) /\ disk' = disk \cup {Current}
  /\ UNCHANGED <<form, headers, pc, merged>>

\* Not a PDF, or an error of the disk: what was saved before is removed.
SaveFails_LeavesPaths ==
  /\ pc = "save" /\ Len(paths) < Len(headers)
  /\ pc' = "refused"
  /\ UNCHANGED <<form, headers, paths, disk, merged>>

SaveFails ==
  /\ pc = "save" /\ Len(paths) < Len(headers)
  /\ disk' = disk \ Range(paths) /\ pc' = "refused"
  /\ UNCHANGED <<form, headers, paths, merged>>

RefuseCount ==
  /\ pc = "save" /\ Len(paths) = Len(headers)
  /\ Len(paths) < 2 \/ Len(paths) > MaxMergeFiles
  /\ disk' = disk \ Range(paths) /\ pc' = "refused"
  /\ UNCHANGED <<form, headers, paths, merged>>

\* qpdf takes the pages of the files in the order it is given them.
MergePDFs ==
  /\ pc = "save" /\ Len(paths) = Len(headers)
  /\ Len(paths) >= 2 /\ Len(paths) <= MaxMergeFiles
  /\ merged' = paths /\ pc' = "merged"
  /\ UNCHANGED <<form, headers, paths, disk>>

Next == Collect \/ SaveUploadedFile \/ SaveFails \/ RefuseCount \/ MergePDFs

Spec == Init /\ [][Next]_vars
-----------------------------------------------------------------------------
(* Properties.                                                              *)

\* Every part sent under a matching field is in the document, once, and those
\* of one field in the order they were sent, however the fields were mixed.
MergedAll ==
  pc = "merged" =>
    /\ Range(merged) = {i \in DOMAIN form : form[i].key \in Fields}
    /\ \A i, j \in DOMAIN merged :
         i < j => merged[i] # merged[j]
                  /\ (form[merged[i]].key = form[merged[j]].key => merged[i] < merged[j])

\* A form refused at any of its files, or for their number, leaves none behind.
RefusedLeavesNothing == pc = "refused" => disk = {}

\* "Files are combined in upload order" (README.md).
UploadOrder == \A i, j \in DOMAIN merged : i < j => merged[i] < merged[j]
=============================================================================
