------------------------ MODULE PasteLifecycleProofs ------------------------
(***************************************************************************)
(* Theorems about PasteLifecycle for every value of its constants.         *)
(***************************************************************************)
EXTENDS PasteLifecycle, TLAPS

\* Nothing that deletes by id alone can hit a newcomer: either an id is not
\* drawn while an unfinished operation still holds it, or sweeps never overlap.
Undisturbed == ~IdRaces \/ \A s, t \in Sweeps : s = t

Inserting(r) == req[r].pc = "insert"
Owns(r, f)   == req[r].file = f /\ f # None

\* The name of an object says which paste it was uploaded for.
NamesInv ==
  /\ \A f \in stored : name[f] # None
  /\ \A i \in Ids : rows[i] # None /\ rows[i].file # None => name[rows[i].file] = i
  /\ \A c \in receipts : c.file # None => name[c.file] = c.id
  /\ \A s \in Sweeps : \A e \in Entries(s) : e.file # None => name[e.file] = e.id
  /\ \A r \in Requests : req[r].file # None => name[req[r].file] = req[r].id

\* An upload's object is held by that upload alone until the row is inserted;
\* the object of a failed creation is in no receipt.
UploadInv ==
  /\ \A r \in Requests : req[r].pc \in {"idle", "upload"} => req[r].file = None
  /\ \A r, q \in Requests : r # q /\ req[r].file # None => req[r].file # req[q].file
  /\ \A r \in Requests : req[r].file # None =>
       \A c \in receipts : c.file # req[r].file
  /\ \A r \in Requests : Inserting(r) /\ req[r].file # None =>
       /\ req[r].file \in stored
       /\ \A i \in Ids : rows[i] # None => rows[i].file # req[r].file
       /\ \A s \in Sweeps : \A e \in Entries(s) : e.file # req[r].file

\* What a sweep read stays true of the table until the sweep is done with it:
\* the row, if still there, is the expired one, and no creation can put
\* another in its place.
SweepInv ==
  /\ \A s \in Sweeps : \A e \in Entries(s) : rows[e.id] # None =>
       rows[e.id].file = e.file /\ Expired(rows[e.id].expires)
  /\ \A s \in Sweeps : \A e \in Entries(s), d \in Entries(s) : e.id = d.id => e = d
  /\ \A s \in Sweeps : sweep[s].cur \notin sweep[s].todo
  /\ \A s \in Sweeps : sweep[s].cur # None => sweep[s].cur.file \notin stored
  /\ IdRaces => \A s \in Sweeps : \A e \in Entries(s) : rows[e.id] # None
  /\ ~IdRaces => \A s \in Sweeps : \A e \in Entries(s) : \A r \in Requests :
                    Drawn(r) => req[r].id # e.id

\* Without id races an id drawn for a creation is that creation's alone.
DrawInv ==
  ~IdRaces =>
    /\ \A r \in Requests : Drawn(r) => rows[req[r].id] = None /\ pending[req[r].id] = 0
    /\ \A r, q \in Requests : r # q /\ Drawn(r) /\ Drawn(q) => req[r].id # req[q].id

IInv == TypeOK /\ NamesInv /\ UploadInv /\ SweepInv /\ DrawInv /\ ReceiptHonoured
-----------------------------------------------------------------------------
\* The initial states are well typed.
LEMMA InitType == Init => TypeOK
  BY PasteAssumption DEF Init, TypeOK, Idle, AtRest, Request, Expiry

\* Every action keeps the types.
LEMMA TypeStep == TypeOK /\ [Next]_vars => TypeOK'
<1> SUFFICES ASSUME TypeOK, [Next]_vars PROVE TypeOK'
  OBVIOUS
<1> USE PasteAssumption DEF TypeOK
<1>1. ASSUME NEW r \in Requests, NEW id \in Ids, NEW ttl \in TextTTLs, CreatePaste(r, id, ttl)
      PROVE  TypeOK'
  <2>1. ParseTTL(ttl) \in Expiry
    BY DEF ParseTTL, Expiry
  <2> QED BY <1>1, <2>1 DEF CreatePaste, Request, Row, Entry, Receipt
<1>2. ASSUME NEW r \in Requests, NEW id \in Ids, CreateArchivePaste(r, id)
      PROVE  TypeOK'
  BY <1>2 DEF CreateArchivePaste, Request, Idle, Expiry
<1>3. ASSUME NEW r \in Requests, NEW f \in Files, PutOk(r, f)
      PROVE  TypeOK'
  BY <1>3 DEF PutOk, Request, Expiry
<1>4. ASSUME NEW r \in Requests, PutFails(r)
      PROVE  TypeOK'
  BY <1>4 DEF PutFails, Request, Idle, Expiry
<1>5. ASSUME NEW r \in Requests, InsertOk(r)
      PROVE  TypeOK'
  BY <1>5 DEF InsertOk, InsertRow, Request, Idle, Expiry, Row, Receipt
<1>6. ASSUME NEW r \in Requests, InsertFails(r)
      PROVE  TypeOK'
  BY <1>6 DEF InsertFails, InsertRow, AfterFailedInsert, Request, Idle, Expiry, Row
<1>7. ASSUME NEW r \in Requests, UndoUpload(r)
      PROVE  TypeOK'
  BY <1>7 DEF UndoUpload, DeleteObject, Request, Idle, Expiry
<1>8. ASSUME NEW id \in Ids, GetPaste(id)
      PROVE  TypeOK'
  BY <1>8 DEF GetPaste
<1>9. ASSUME NEW id \in Ids, IncrementViewCount(id)
      PROVE  TypeOK'
  BY <1>9 DEF IncrementViewCount, Row
<1>10. ASSUME NEW s \in Sweeps, SweepStart(s)
      PROVE  TypeOK'
  BY <1>10 DEF SweepStart, GetExpired, ExpiredRows, Row, Entry
<1>11. ASSUME NEW s \in Sweeps, NEW e \in sweep[s].todo, SweepObject(s, e)
      PROVE  TypeOK'
  BY <1>11 DEF SweepObject, DeleteObject
<1>12. ASSUME NEW s \in Sweeps, NEW e \in sweep[s].todo, SweepKeep(s, e)
      PROVE  TypeOK'
  BY <1>12 DEF SweepKeep, DeleteObject
<1>13. ASSUME NEW s \in Sweeps, SweepRow(s)
      PROVE  TypeOK'
  BY <1>13 DEF SweepRow
<1>14. ASSUME NEW s \in Sweeps, SweepRowFails(s)
      PROVE  TypeOK'
  BY <1>14 DEF SweepRowFails
<1>15. CASE Crash
  BY <1>15 DEF Crash, Idle, AtRest, Request, Expiry
<1>16. CASE Tick
  BY <1>16 DEF Tick
<1>17. CASE UNCHANGED vars
  BY <1>17 DEF vars
<1> QED
  BY <1>1, <1>2, <1>3, <1>4, <1>5, <1>6, <1>7, <1>8, <1>9, <1>10, <1>11, <1>12,
     <1>13, <1>14, <1>15, <1>16, <1>17 DEF Next, Create, Sweep

\* Counting a view changes nothing but the count.
LEMMA ViewOnly ==
  ASSUME TypeOK, NEW id \in Ids, IncrementViewCount(id), NEW i \in Ids
  PROVE  /\ rows'[i] = None <=> rows[i] = None
         /\ rows[i] # None => rows'[i].file = rows[i].file /\ rows'[i].expires = rows[i].expires
<1>1. CASE UNCHANGED rows
  BY <1>1
<1>2. CASE rows[id] # None /\ rows' = [rows EXCEPT ![id].views = @ + 1]
  <2>1. rows[id] \in Row
    BY <1>2 DEF TypeOK
  <2>2. rows'[id] = [rows[id] EXCEPT !.views = @ + 1]
    BY <1>2 DEF TypeOK
  <2>3. rows'[id] \in Row /\ rows'[id].file = rows[id].file
                        /\ rows'[id].expires = rows[id].expires
    BY <2>1, <2>2 DEF Row
  <2>4. i # id => rows'[i] = rows[i]
    BY <1>2 DEF TypeOK
  <2>5. None \notin Row
    BY PasteAssumption DEF Row, Expiry
  <2> QED
    BY <1>2, <2>3, <2>4, <2>5
<1> QED
  BY <1>1, <1>2 DEF IncrementViewCount

\* What a failed insert leaves of its creation.
LEMMA AfterFailed ==
  ASSUME TypeOK, NEW r \in Requests
  PROVE  IF req[r].file = None THEN AfterFailedInsert(r) = Idle
         ELSE /\ AfterFailedInsert(r) \in Request
              /\ AfterFailedInsert(r).pc = "undo"
              /\ AfterFailedInsert(r).id = req[r].id
              /\ AfterFailedInsert(r).file = req[r].file
<1>1. req[r] \in Request
  BY DEF TypeOK
<1> QED
  BY <1>1 DEF AfterFailedInsert, Request

\* Objects keep the id they were named for.
LEMMA NamesStep == IInv /\ [Next]_vars => NamesInv'
<1> SUFFICES ASSUME IInv, [Next]_vars PROVE NamesInv'
  OBVIOUS
<1> USE PasteAssumption DEF IInv, TypeOK, NamesInv, UploadInv
<1>1. ASSUME NEW r \in Requests, NEW id \in Ids, NEW ttl \in TextTTLs, CreatePaste(r, id, ttl)
      PROVE  NamesInv'
  BY <1>1 DEF CreatePaste, Entries, Request, Row, Entry, Receipt
<1>2. ASSUME NEW r \in Requests, NEW id \in Ids, CreateArchivePaste(r, id)
      PROVE  NamesInv'
  BY <1>2 DEF CreateArchivePaste, Idle, Entries, Request, Row, Entry, Receipt
<1>3. ASSUME NEW r \in Requests, NEW f \in Files, PutOk(r, f)
      PROVE  NamesInv'
  BY <1>3 DEF PutOk, Entries, Request, Row, Entry, Receipt
<1>4. ASSUME NEW r \in Requests, PutFails(r)
      PROVE  NamesInv'
  BY <1>4 DEF PutFails, Idle, Entries, Request, Row, Entry, Receipt
<1>5. ASSUME NEW r \in Requests, InsertOk(r)
      PROVE  NamesInv'
  BY <1>5 DEF InsertOk, InsertRow, PrimaryKeyFree, Idle, Entries, Request, Row, Entry, Receipt
<1>6. ASSUME NEW r \in Requests, InsertFails(r)
      PROVE  NamesInv'
  BY <1>6 DEF InsertFails, InsertRow, PrimaryKeyFree, AfterFailedInsert, Idle, Entries, Request,
     Row, Entry, Receipt
<1>7. ASSUME NEW r \in Requests, UndoUpload(r)
      PROVE  NamesInv'
  BY <1>7 DEF UndoUpload, DeleteObject, Idle, Entries, Request, Row, Entry, Receipt
<1>8. ASSUME NEW id \in Ids, GetPaste(id)
      PROVE  NamesInv'
  BY <1>8 DEF GetPaste, Entries, Request, Row, Entry, Receipt
<1>9. ASSUME NEW id \in Ids, IncrementViewCount(id)
      PROVE  NamesInv'
  BY <1>9 DEF IncrementViewCount, Entries, Request, Row, Entry, Receipt
<1>10. ASSUME NEW s \in Sweeps, SweepStart(s)
      PROVE  NamesInv'
  BY <1>10 DEF SweepStart, AtRest, GetExpired, ExpiredRows, Entries, Request, Row, Entry, Receipt
<1>11. ASSUME NEW s \in Sweeps, NEW e \in sweep[s].todo, SweepObject(s, e)
      PROVE  NamesInv'
  BY <1>11 DEF SweepObject, DeleteObject, Entries, Request, Row, Entry, Receipt
<1>12. ASSUME NEW s \in Sweeps, NEW e \in sweep[s].todo, SweepKeep(s, e)
      PROVE  NamesInv'
  BY <1>12 DEF SweepKeep, DeleteObject, Entries, Request, Row, Entry, Receipt
<1>13. ASSUME NEW s \in Sweeps, SweepRow(s)
      PROVE  NamesInv'
  BY <1>13 DEF SweepRow, Entries, Request, Row, Entry, Receipt
<1>14. ASSUME NEW s \in Sweeps, SweepRowFails(s)
      PROVE  NamesInv'
  BY <1>14 DEF SweepRowFails, Entries, Request, Row, Entry, Receipt
<1>15. CASE Crash
  BY <1>15 DEF Crash, Idle, AtRest, Entries, Request, Row, Entry, Receipt
<1>16. CASE Tick
  BY <1>16 DEF Tick, Entries, Request, Row, Entry, Receipt
<1>17. CASE UNCHANGED vars
  BY <1>17 DEF vars, Entries, Request, Row, Entry, Receipt
<1> QED
  BY <1>1, <1>2, <1>3, <1>4, <1>5, <1>6, <1>7, <1>8, <1>9, <1>10, <1>11, <1>12, <1>13, <1>14,
     <1>15, <1>16, <1>17 DEF Next, Create, Sweep

\* Uploaded objects stay their uploads' own.
LEMMA UploadStep == Undisturbed /\ IInv /\ [Next]_vars => UploadInv'
<1> SUFFICES ASSUME Undisturbed, IInv, [Next]_vars PROVE UploadInv'
  OBVIOUS
<1> USE PasteAssumption DEF IInv, TypeOK, NamesInv, UploadInv, SweepInv, Inserting
<1>1. ASSUME NEW r \in Requests, NEW id \in Ids, NEW ttl \in TextTTLs, CreatePaste(r, id, ttl)
      PROVE  UploadInv'
  BY <1>1 DEF CreatePaste, Entries, Request, Row, Entry, Receipt
<1>2. ASSUME NEW r \in Requests, NEW id \in Ids, CreateArchivePaste(r, id)
      PROVE  UploadInv'
  BY <1>2 DEF CreateArchivePaste, Idle, Entries, Request, Row, Entry, Receipt
<1>3. ASSUME NEW r \in Requests, NEW f \in Files, PutOk(r, f)
      PROVE  UploadInv'
  BY <1>3 DEF PutOk, Entries, Request, Row, Entry, Receipt
<1>4. ASSUME NEW r \in Requests, PutFails(r)
      PROVE  UploadInv'
  BY <1>4 DEF PutFails, Idle, Entries, Request, Row, Entry, Receipt
<1>5. ASSUME NEW r \in Requests, InsertOk(r)
      PROVE  UploadInv'
  BY <1>5 DEF InsertOk, InsertRow, PrimaryKeyFree, Idle, Entries, Request, Row, Entry, Receipt
<1>6. ASSUME NEW r \in Requests, InsertFails(r)
      PROVE  UploadInv'
  BY <1>6, AfterFailed DEF InsertFails, InsertRow, PrimaryKeyFree, Idle, Entries, Request, Row,
     Entry, Receipt
<1>7. ASSUME NEW r \in Requests, UndoUpload(r)
      PROVE  UploadInv'
  BY <1>7 DEF UndoUpload, DeleteObject, Idle, Entries, Request, Row, Entry, Receipt
<1>8. ASSUME NEW id \in Ids, GetPaste(id)
      PROVE  UploadInv'
  BY <1>8 DEF GetPaste, Entries, Request, Row, Entry, Receipt
<1>9. ASSUME NEW id \in Ids, IncrementViewCount(id)
      PROVE  UploadInv'
  BY <1>9, ViewOnly DEF IncrementViewCount, Entries, Request, Row, Entry, Receipt
<1>10. ASSUME NEW s \in Sweeps, SweepStart(s)
      PROVE  UploadInv'
  BY <1>10 DEF SweepStart, AtRest, GetExpired, ExpiredRows, Entries, Request, Row, Entry, Receipt
<1>11. ASSUME NEW s \in Sweeps, NEW e \in sweep[s].todo, SweepObject(s, e)
      PROVE  UploadInv'
  BY <1>11 DEF SweepObject, DeleteObject, Entries, Request, Row, Entry, Receipt
<1>12. ASSUME NEW s \in Sweeps, NEW e \in sweep[s].todo, SweepKeep(s, e)
      PROVE  UploadInv'
  BY <1>12 DEF SweepKeep, DeleteObject, Entries, Request, Row, Entry, Receipt
<1>13. ASSUME NEW s \in Sweeps, SweepRow(s)
      PROVE  UploadInv'
  BY <1>13 DEF SweepRow, Entries, Request, Row, Entry, Receipt
<1>14. ASSUME NEW s \in Sweeps, SweepRowFails(s)
      PROVE  UploadInv'
  BY <1>14 DEF SweepRowFails, Entries, Request, Row, Entry, Receipt
<1>15. CASE Crash
  BY <1>15 DEF Crash, Idle, AtRest, Entries, Request, Row, Entry, Receipt
<1>16. CASE Tick
  BY <1>16 DEF Tick, Expiry, Entries, Request, Row, Entry, Receipt
<1>17. CASE UNCHANGED vars
  BY <1>17 DEF vars, Entries, Request, Row, Entry, Receipt
<1> QED
  BY <1>1, <1>2, <1>3, <1>4, <1>5, <1>6, <1>7, <1>8, <1>9, <1>10, <1>11, <1>12, <1>13, <1>14,
     <1>15, <1>16, <1>17 DEF Next, Create, Sweep

\* Drawn ids stay exclusive.
LEMMA DrawStep == Undisturbed /\ IInv /\ [Next]_vars => DrawInv'
<1> SUFFICES ASSUME Undisturbed, IInv, [Next]_vars PROVE DrawInv'
  OBVIOUS
<1> USE PasteAssumption DEF IInv, TypeOK, DrawInv, Drawn
<1>1. ASSUME NEW r \in Requests, NEW id \in Ids, NEW ttl \in TextTTLs, CreatePaste(r, id, ttl)
      PROVE  DrawInv'
  BY <1>1 DEF CreatePaste, Entries, Request, Row, Entry, Receipt, GenerateUniqueID, Held,
     Undisturbed
<1>2. ASSUME NEW r \in Requests, NEW id \in Ids, CreateArchivePaste(r, id)
      PROVE  DrawInv'
  BY <1>2 DEF CreateArchivePaste, Idle, Entries, Request, Row, Entry, Receipt, GenerateUniqueID,
     Held, Undisturbed
<1>3. ASSUME NEW r \in Requests, NEW f \in Files, PutOk(r, f)
      PROVE  DrawInv'
  BY <1>3 DEF PutOk, Entries, Request, Row, Entry, Receipt
<1>4. ASSUME NEW r \in Requests, PutFails(r)
      PROVE  DrawInv'
  BY <1>4 DEF PutFails, Idle, Entries, Request, Row, Entry, Receipt
<1>5. ASSUME NEW r \in Requests, InsertOk(r)
      PROVE  DrawInv'
  BY <1>5 DEF InsertOk, InsertRow, PrimaryKeyFree, Idle, Entries, Request, Row, Entry, Receipt,
     GenerateUniqueID, Held, Undisturbed
<1>6. ASSUME NEW r \in Requests, InsertFails(r)
      PROVE  DrawInv'
  BY <1>6 DEF InsertFails, InsertRow, PrimaryKeyFree, AfterFailedInsert, Idle, Entries, Request,
     Row, Entry, Receipt, GenerateUniqueID, Held, Undisturbed
<1>7. ASSUME NEW r \in Requests, UndoUpload(r)
      PROVE  DrawInv'
  BY <1>7 DEF UndoUpload, DeleteObject, Idle, Entries, Request, Row, Entry, Receipt
<1>8. ASSUME NEW id \in Ids, GetPaste(id)
      PROVE  DrawInv'
  BY <1>8 DEF GetPaste, Entries, Request, Row, Entry, Receipt
<1>9. ASSUME NEW id \in Ids, IncrementViewCount(id)
      PROVE  DrawInv'
  BY <1>9, ViewOnly DEF IncrementViewCount, Entries, Request, Row, Entry, Receipt
<1>10. ASSUME NEW s \in Sweeps, SweepStart(s)
      PROVE  DrawInv'
  BY <1>10 DEF SweepStart, AtRest, GetExpired, ExpiredRows, Entries, Request, Row, Entry, Receipt
<1>11. ASSUME NEW s \in Sweeps, NEW e \in sweep[s].todo, SweepObject(s, e)
      PROVE  DrawInv'
  BY <1>11 DEF SweepObject, DeleteObject, Entries, Request, Row, Entry, Receipt
<1>12. ASSUME NEW s \in Sweeps, NEW e \in sweep[s].todo, SweepKeep(s, e)
      PROVE  DrawInv'
  BY <1>12 DEF SweepKeep, DeleteObject, Entries, Request, Row, Entry, Receipt
<1>13. ASSUME NEW s \in Sweeps, SweepRow(s)
      PROVE  DrawInv'
  BY <1>13 DEF SweepRow, Entries, Request, Row, Entry, Receipt, GenerateUniqueID, Held,
     Undisturbed
<1>14. ASSUME NEW s \in Sweeps, SweepRowFails(s)
      PROVE  DrawInv'
  BY <1>14 DEF SweepRowFails, Entries, Request, Row, Entry, Receipt
<1>15. CASE Crash
  BY <1>15 DEF Crash, Idle, AtRest, Entries, Request, Row, Entry, Receipt
<1>16. CASE Tick
  BY <1>16 DEF Tick, Expiry, Entries, Request, Row, Entry, Receipt
<1>17. CASE UNCHANGED vars
  BY <1>17 DEF vars, Entries, Request, Row, Entry, Receipt
<1> QED
  BY <1>1, <1>2, <1>3, <1>4, <1>5, <1>6, <1>7, <1>8, <1>9, <1>10, <1>11, <1>12, <1>13, <1>14,
     <1>15, <1>16, <1>17 DEF Next, Create, Sweep

\* What sweeps hold stays true.
LEMMA SweepStep == Undisturbed /\ IInv /\ [Next]_vars => SweepInv'
<1> SUFFICES ASSUME Undisturbed, IInv, [Next]_vars PROVE SweepInv'
  OBVIOUS
<1> USE PasteAssumption DEF IInv, TypeOK, NamesInv, UploadInv, SweepInv, DrawInv, Drawn, Inserting, Expired
<1>1. ASSUME NEW r \in Requests, NEW id \in Ids, NEW ttl \in TextTTLs, CreatePaste(r, id, ttl)
      PROVE  SweepInv'
  BY <1>1 DEF CreatePaste, Entries, Request, Row, Entry, Receipt, GenerateUniqueID, Held,
     Undisturbed
<1>2. ASSUME NEW r \in Requests, NEW id \in Ids, CreateArchivePaste(r, id)
      PROVE  SweepInv'
  BY <1>2 DEF CreateArchivePaste, Idle, Entries, Request, Row, Entry, Receipt, GenerateUniqueID,
     Held, Undisturbed
<1>3. ASSUME NEW r \in Requests, NEW f \in Files, PutOk(r, f)
      PROVE  SweepInv'
  BY <1>3 DEF PutOk, Entries, Request, Row, Entry, Receipt
<1>4. ASSUME NEW r \in Requests, PutFails(r)
      PROVE  SweepInv'
  BY <1>4 DEF PutFails, Idle, Entries, Request, Row, Entry, Receipt
<1>5. ASSUME NEW r \in Requests, InsertOk(r)
      PROVE  SweepInv'
  BY <1>5 DEF InsertOk, InsertRow, PrimaryKeyFree, Idle, Entries, Request, Row, Entry, Receipt,
     GenerateUniqueID, Held, Undisturbed
<1>6. ASSUME NEW r \in Requests, InsertFails(r)
      PROVE  SweepInv'
  BY <1>6 DEF InsertFails, InsertRow, PrimaryKeyFree, AfterFailedInsert, Idle, Entries, Request,
     Row, Entry, Receipt, GenerateUniqueID, Held, Undisturbed
<1>7. ASSUME NEW r \in Requests, UndoUpload(r)
      PROVE  SweepInv'
  BY <1>7 DEF UndoUpload, DeleteObject, Idle, Entries, Request, Row, Entry, Receipt
<1>8. ASSUME NEW id \in Ids, GetPaste(id)
      PROVE  SweepInv'
  BY <1>8 DEF GetPaste, Entries, Request, Row, Entry, Receipt
<1>9. ASSUME NEW id \in Ids, IncrementViewCount(id)
      PROVE  SweepInv'
  <2>1. \A i \in Ids : /\ rows'[i] = None <=> rows[i] = None
                       /\ rows[i] # None => /\ rows'[i].file = rows[i].file
                                            /\ rows'[i].expires = rows[i].expires
    BY <1>9, ViewOnly
  <2>2. UNCHANGED <<now, stored, req, sweep, receipts>>
    BY <1>9 DEF IncrementViewCount
  <2> QED
    BY <2>1, <2>2 DEF Entries, Entry
<1>10. ASSUME NEW s \in Sweeps, SweepStart(s)
      PROVE  SweepInv'
  BY <1>10 DEF SweepStart, AtRest, GetExpired, ExpiredRows, Entries, Request, Row, Entry, Receipt
<1>11. ASSUME NEW s \in Sweeps, NEW e \in sweep[s].todo, SweepObject(s, e)
      PROVE  SweepInv'
  BY <1>11 DEF SweepObject, DeleteObject, Entries, Request, Row, Entry, Receipt
<1>12. ASSUME NEW s \in Sweeps, NEW e \in sweep[s].todo, SweepKeep(s, e)
      PROVE  SweepInv'
  BY <1>12 DEF SweepKeep, DeleteObject, Entries, Request, Row, Entry, Receipt
<1>13. ASSUME NEW s \in Sweeps, SweepRow(s)
      PROVE  SweepInv'
  BY <1>13 DEF SweepRow, Entries, Request, Row, Entry, Receipt, GenerateUniqueID, Held,
     Undisturbed
<1>14. ASSUME NEW s \in Sweeps, SweepRowFails(s)
      PROVE  SweepInv'
  BY <1>14 DEF SweepRowFails, Entries, Request, Row, Entry, Receipt
<1>15. CASE Crash
  BY <1>15 DEF Crash, Idle, AtRest, Entries, Request, Row, Entry, Receipt
<1>16. CASE Tick
  BY <1>16 DEF Tick, Expiry, Entries, Request, Row, Entry, Receipt
<1>17. CASE UNCHANGED vars
  BY <1>17 DEF vars, Entries, Request, Row, Entry, Receipt
<1> QED
  BY <1>1, <1>2, <1>3, <1>4, <1>5, <1>6, <1>7, <1>8, <1>9, <1>10, <1>11, <1>12, <1>13, <1>14,
     <1>15, <1>16, <1>17 DEF Next, Create, Sweep

\* Receipts stay honoured.
LEMMA ReceiptStep == Undisturbed /\ IInv /\ [Next]_vars => ReceiptHonoured'
<1> SUFFICES ASSUME Undisturbed, IInv, [Next]_vars PROVE ReceiptHonoured'
  OBVIOUS
<1> USE PasteAssumption DEF IInv, TypeOK, NamesInv, UploadInv, SweepInv, ReceiptHonoured, Inserting, Expired
<1>1. ASSUME NEW r \in Requests, NEW id \in Ids, NEW ttl \in TextTTLs, CreatePaste(r, id, ttl)
      PROVE  ReceiptHonoured'
  BY <1>1 DEF CreatePaste, Entries, Request, Row, Entry, Receipt, GenerateUniqueID, Held,
     Undisturbed
<1>2. ASSUME NEW r \in Requests, NEW id \in Ids, CreateArchivePaste(r, id)
      PROVE  ReceiptHonoured'
  BY <1>2 DEF CreateArchivePaste, Idle, Entries, Request, Row, Entry, Receipt, GenerateUniqueID,
     Held, Undisturbed
<1>3. ASSUME NEW r \in Requests, NEW f \in Files, PutOk(r, f)
      PROVE  ReceiptHonoured'
  BY <1>3 DEF PutOk, Entries, Request, Row, Entry, Receipt
<1>4. ASSUME NEW r \in Requests, PutFails(r)
      PROVE  ReceiptHonoured'
  BY <1>4 DEF PutFails, Idle, Entries, Request, Row, Entry, Receipt
<1>5. ASSUME NEW r \in Requests, InsertOk(r)
      PROVE  ReceiptHonoured'
  <2>1. SUFFICES ASSUME NEW c \in receipts', ~Expired(c.expires)'
                 PROVE  /\ rows'[c.id] # None
                        /\ rows'[c.id].expires = c.expires /\ rows'[c.id].file = c.file
                        /\ c.file # None => c.file \in stored'
    BY DEF ReceiptHonoured
  <2>2. UNCHANGED <<now, stored>> /\ Inserting(r) /\ req[r].id \in Ids
    BY <1>5 DEF InsertOk
  <2>3. CASE c \in receipts
    <3>1. c.id \in Ids /\ rows[c.id] # None /\ rows[c.id].expires = c.expires
          /\ rows[c.id].file = c.file /\ (c.file # None => c.file \in stored)
      BY <2>1, <2>2, <2>3 DEF Receipt
    <3>2. c.id # req[r].id
      BY <1>5, <3>1 DEF InsertOk, InsertRow, PrimaryKeyFree
    <3> QED
      BY <1>5, <2>2, <3>1, <3>2 DEF InsertOk, InsertRow
  <2>4. CASE c = [id |-> req[r].id, expires |-> req[r].expires, file |-> req[r].file]
    <3>1. rows'[c.id] = [expires |-> c.expires, file |-> c.file, views |-> 0]
      BY <1>5, <2>2, <2>4 DEF InsertOk, InsertRow
    <3>2. c.file \in Files \cup {None} /\ c.expires \in Nat \cup {Never}
      BY <2>4 DEF Request, Expiry
    <3>3. rows'[c.id] # None
      BY <3>1, <3>2
    <3> QED
      BY <2>2, <2>4, <3>1, <3>3
  <2> QED
    BY <1>5, <2>3, <2>4 DEF InsertOk
<1>6. ASSUME NEW r \in Requests, InsertFails(r)
      PROVE  ReceiptHonoured'
  BY <1>6 DEF InsertFails, InsertRow, PrimaryKeyFree, AfterFailedInsert, Idle, Entries, Request,
     Row, Entry, Receipt, GenerateUniqueID, Held, Undisturbed
<1>7. ASSUME NEW r \in Requests, UndoUpload(r)
      PROVE  ReceiptHonoured'
  BY <1>7 DEF UndoUpload, DeleteObject, Idle, Entries, Request, Row, Entry, Receipt
<1>8. ASSUME NEW id \in Ids, GetPaste(id)
      PROVE  ReceiptHonoured'
  BY <1>8 DEF GetPaste, Entries, Request, Row, Entry, Receipt
<1>9. ASSUME NEW id \in Ids, IncrementViewCount(id)
      PROVE  ReceiptHonoured'
  <2>1. \A i \in Ids : /\ rows'[i] = None <=> rows[i] = None
                       /\ rows[i] # None => /\ rows'[i].file = rows[i].file
                                            /\ rows'[i].expires = rows[i].expires
    BY <1>9, ViewOnly
  <2>2. UNCHANGED <<now, stored, req, sweep, receipts>>
    BY <1>9 DEF IncrementViewCount
  <2> QED
    BY <2>1, <2>2 DEF Receipt
<1>10. ASSUME NEW s \in Sweeps, SweepStart(s)
      PROVE  ReceiptHonoured'
  BY <1>10 DEF SweepStart, AtRest, GetExpired, ExpiredRows, Entries, Request, Row, Entry, Receipt
<1>11. ASSUME NEW s \in Sweeps, NEW e \in sweep[s].todo, SweepObject(s, e)
      PROVE  ReceiptHonoured'
  BY <1>11 DEF SweepObject, DeleteObject, Entries, Request, Row, Entry, Receipt
<1>12. ASSUME NEW s \in Sweeps, NEW e \in sweep[s].todo, SweepKeep(s, e)
      PROVE  ReceiptHonoured'
  BY <1>12 DEF SweepKeep, DeleteObject, Entries, Request, Row, Entry, Receipt
<1>13. ASSUME NEW s \in Sweeps, SweepRow(s)
      PROVE  ReceiptHonoured'
  BY <1>13 DEF SweepRow, Entries, Request, Row, Entry, Receipt, GenerateUniqueID, Held,
     Undisturbed
<1>14. ASSUME NEW s \in Sweeps, SweepRowFails(s)
      PROVE  ReceiptHonoured'
  BY <1>14 DEF SweepRowFails, Entries, Request, Row, Entry, Receipt
<1>15. CASE Crash
  BY <1>15 DEF Crash, Idle, AtRest, Entries, Request, Row, Entry, Receipt
<1>16. CASE Tick
  BY <1>16 DEF Tick, Expiry, Entries, Request, Row, Entry, Receipt
<1>17. CASE UNCHANGED vars
  BY <1>17 DEF vars, Entries, Request, Row, Entry, Receipt
<1> QED
  BY <1>1, <1>2, <1>3, <1>4, <1>5, <1>6, <1>7, <1>8, <1>9, <1>10, <1>11, <1>12, <1>13, <1>14,
     <1>15, <1>16, <1>17 DEF Next, Create, Sweep

LEMMA InitIInv == Init => IInv /\ NoOrphan /\ ViewsSound
  BY InitType DEF Init, IInv, NamesInv, UploadInv, SweepInv, DrawInv, ReceiptHonoured,
     NoOrphan, ViewsSound, Entries, AtRest, Idle, Drawn, Inserting

LEMMA IInvStep == Undisturbed /\ IInv /\ [Next]_vars => IInv'
  BY TypeStep, NamesStep, UploadStep, SweepStep, DrawStep, ReceiptStep DEF IInv

\* Stored objects stay owned.
LEMMA OrphanStep == IInv /\ NoOrphan /\ [Next]_vars => NoOrphan'
<1> SUFFICES ASSUME IInv, NoOrphan, [Next]_vars PROVE NoOrphan'
  OBVIOUS
<1> DEFINE Owned(f) == \/ \E i \in Ids : rows[i] # None /\ rows[i].file = f
                       \/ \E r \in Requests : req[r].file = f
                       \/ f \in abandoned
<1>a. (\A f \in stored' : Owned(f)') => NoOrphan'
  BY DEF NoOrphan
<1>b. \A f \in stored : f \in Files /\ f # None /\ Owned(f)
  BY PasteAssumption DEF IInv, TypeOK, NoOrphan
<1> USE PasteAssumption DEF IInv, TypeOK, NamesInv, UploadInv, SweepInv, NoOrphan
<1>1. ASSUME NEW r \in Requests, NEW id \in Ids, NEW ttl \in TextTTLs, CreatePaste(r, id, ttl)
      PROVE  NoOrphan'
  BY <1>1 DEF CreatePaste, Entries, Request, Row, Entry, Receipt
<1>2. ASSUME NEW r \in Requests, NEW id \in Ids, CreateArchivePaste(r, id)
      PROVE  NoOrphan'
  BY <1>2 DEF CreateArchivePaste, Idle, Entries, Request, Row, Entry, Receipt
<1>3. ASSUME NEW r \in Requests, NEW f \in Files, PutOk(r, f)
      PROVE  NoOrphan'
  BY <1>3 DEF PutOk, Entries, Request, Row, Entry, Receipt
<1>4. ASSUME NEW r \in Requests, PutFails(r)
      PROVE  NoOrphan'
  <2>1. SUFFICES ASSUME NEW f \in stored' PROVE Owned(f)'
    BY <1>a
  <2>2. /\ UNCHANGED rows /\ abandoned \subseteq abandoned'
        /\ req' = [req EXCEPT ![r] = Idle] /\ req[r].file = None
    BY <1>4 DEF PutFails
  <2>3. CASE f \in stored
    <3>1. \A q \in Requests : req[q].file = f => req'[q].file = f
      BY <1>b, <2>2, <2>3
    <3> QED
      BY <1>b, <2>2, <2>3, <3>1
  <2>4. f \in stored \/ f \in abandoned'
    BY <1>4, <2>1 DEF PutFails
  <2> QED
    BY <2>3, <2>4
<1>5. ASSUME NEW r \in Requests, InsertOk(r)
      PROVE  NoOrphan'
  <2>1. SUFFICES ASSUME NEW f \in stored' PROVE Owned(f)'
    BY <1>a
  <2>2. /\ UNCHANGED <<stored, abandoned>> /\ req' = [req EXCEPT ![r] = Idle]
        /\ req[r].id \in Ids /\ rows[req[r].id] = None
        /\ rows' = [rows EXCEPT ![req[r].id] = [expires |-> req[r].expires,
                                 file |-> req[r].file, views |-> 0]]
    BY <1>5 DEF InsertOk, InsertRow, PrimaryKeyFree
  <2>3. rows'[req[r].id] # None /\ rows'[req[r].id].file = req[r].file
    <3>1. req[r] \in Request
      OBVIOUS
    <3> QED
      BY <2>2, <3>1 DEF Request, Expiry
  <2>4. \A i \in Ids : rows[i] # None => rows'[i] = rows[i]
    BY <2>2
  <2>5. \A q \in Requests : q # r => req'[q] = req[q]
    BY <2>2
  <2>6. f \in stored
    BY <2>1, <2>2
  <2>7. CASE \E i \in Ids : rows[i] # None /\ rows[i].file = f
    BY <2>4, <2>7
  <2>8. CASE \E q \in Requests : req[q].file = f
    BY <2>2, <2>3, <2>5, <2>8
  <2>9. CASE f \in abandoned
    BY <2>2, <2>9
  <2> QED
    BY <1>b, <2>6, <2>7, <2>8, <2>9
<1>6. ASSUME NEW r \in Requests, InsertFails(r)
      PROVE  NoOrphan'
  BY <1>6 DEF InsertFails, InsertRow, PrimaryKeyFree, AfterFailedInsert, Idle, Entries, Request,
     Row, Entry, Receipt
<1>7. ASSUME NEW r \in Requests, UndoUpload(r)
      PROVE  NoOrphan'
  <2>1. SUFFICES ASSUME NEW f \in stored' PROVE Owned(f)'
    BY <1>a
  <2>2. /\ UNCHANGED rows /\ abandoned \subseteq abandoned'
        /\ req' = [req EXCEPT ![r] = Idle] /\ f \in stored
        /\ f = req[r].file => f \in abandoned'
    BY <1>7, <2>1 DEF UndoUpload, DeleteObject
  <2>3. \A q \in Requests : q # r => req'[q] = req[q]
    BY <2>2
  <2> QED
    BY <1>b, <2>2, <2>3
<1>8. ASSUME NEW id \in Ids, GetPaste(id)
      PROVE  NoOrphan'
  BY <1>8 DEF GetPaste, Entries, Request, Row, Entry, Receipt
<1>9. ASSUME NEW id \in Ids, IncrementViewCount(id)
      PROVE  NoOrphan'
  <2>1. \A i \in Ids : rows[i] # None => rows'[i] # None /\ rows'[i].file = rows[i].file
    BY <1>9, ViewOnly
  <2> QED
    BY <1>9, <2>1 DEF IncrementViewCount
<1>10. ASSUME NEW s \in Sweeps, SweepStart(s)
      PROVE  NoOrphan'
  BY <1>10 DEF SweepStart, AtRest, GetExpired, ExpiredRows, Entries, Request, Row, Entry, Receipt
<1>11. ASSUME NEW s \in Sweeps, NEW e \in sweep[s].todo, SweepObject(s, e)
      PROVE  NoOrphan'
  BY <1>11 DEF SweepObject, DeleteObject, Entries, Request, Row, Entry, Receipt
<1>12. ASSUME NEW s \in Sweeps, NEW e \in sweep[s].todo, SweepKeep(s, e)
      PROVE  NoOrphan'
  BY <1>12 DEF SweepKeep, DeleteObject, Entries, Request, Row, Entry, Receipt
<1>13. ASSUME NEW s \in Sweeps, SweepRow(s)
      PROVE  NoOrphan'
  BY <1>13 DEF SweepRow, Entries, Request, Row, Entry, Receipt
<1>14. ASSUME NEW s \in Sweeps, SweepRowFails(s)
      PROVE  NoOrphan'
  BY <1>14 DEF SweepRowFails, Entries, Request, Row, Entry, Receipt
<1>15. CASE Crash
  BY <1>15 DEF Crash, Idle, AtRest, Entries, Request, Row, Entry, Receipt
<1>16. CASE Tick
  BY <1>16 DEF Tick, Entries, Request, Row, Entry, Receipt
<1>17. CASE UNCHANGED vars
  BY <1>17 DEF vars, Entries, Request, Row, Entry, Receipt
<1> QED
  BY <1>1, <1>2, <1>3, <1>4, <1>5, <1>6, <1>7, <1>8, <1>9, <1>10, <1>11, <1>12, <1>13, <1>14,
     <1>15, <1>16, <1>17 DEF Next, Create, Sweep

\* View counts stay covered by reads.
LEMMA ViewsStep == ~IdRaces /\ IInv /\ ViewsSound /\ [Next]_vars => ViewsSound'
<1> SUFFICES ASSUME ~IdRaces, IInv, ViewsSound, [Next]_vars PROVE ViewsSound'
  OBVIOUS
<1> USE PasteAssumption DEF IInv, TypeOK, DrawInv, Drawn, ViewsSound
<1>1. ASSUME NEW r \in Requests, NEW id \in Ids, NEW ttl \in TextTTLs, CreatePaste(r, id, ttl)
      PROVE  ViewsSound'
  BY <1>1 DEF CreatePaste, Entries, Request, Row, Entry, Receipt
<1>2. ASSUME NEW r \in Requests, NEW id \in Ids, CreateArchivePaste(r, id)
      PROVE  ViewsSound'
  BY <1>2 DEF CreateArchivePaste, Idle, Entries, Request, Row, Entry, Receipt
<1>3. ASSUME NEW r \in Requests, NEW f \in Files, PutOk(r, f)
      PROVE  ViewsSound'
  BY <1>3 DEF PutOk, Entries, Request, Row, Entry, Receipt
<1>4. ASSUME NEW r \in Requests, PutFails(r)
      PROVE  ViewsSound'
  BY <1>4 DEF PutFails, Idle, Entries, Request, Row, Entry, Receipt
<1>5. ASSUME NEW r \in Requests, InsertOk(r)
      PROVE  ViewsSound'
  BY <1>5 DEF InsertOk, InsertRow, PrimaryKeyFree, Idle, Entries, Request, Row, Entry, Receipt
<1>6. ASSUME NEW r \in Requests, InsertFails(r)
      PROVE  ViewsSound'
  BY <1>6 DEF InsertFails, InsertRow, PrimaryKeyFree, AfterFailedInsert, Idle, Entries, Request,
     Row, Entry, Receipt
<1>7. ASSUME NEW r \in Requests, UndoUpload(r)
      PROVE  ViewsSound'
  BY <1>7 DEF UndoUpload, DeleteObject, Idle, Entries, Request, Row, Entry, Receipt
<1>8. ASSUME NEW id \in Ids, GetPaste(id)
      PROVE  ViewsSound'
  BY <1>8 DEF GetPaste, Entries, Request, Row, Entry, Receipt
<1>9. ASSUME NEW id \in Ids, IncrementViewCount(id)
      PROVE  ViewsSound'
  BY <1>9 DEF IncrementViewCount, Entries, Request, Row, Entry, Receipt
<1>10. ASSUME NEW s \in Sweeps, SweepStart(s)
      PROVE  ViewsSound'
  BY <1>10 DEF SweepStart, AtRest, GetExpired, ExpiredRows, Entries, Request, Row, Entry, Receipt
<1>11. ASSUME NEW s \in Sweeps, NEW e \in sweep[s].todo, SweepObject(s, e)
      PROVE  ViewsSound'
  BY <1>11 DEF SweepObject, DeleteObject, Entries, Request, Row, Entry, Receipt
<1>12. ASSUME NEW s \in Sweeps, NEW e \in sweep[s].todo, SweepKeep(s, e)
      PROVE  ViewsSound'
  BY <1>12 DEF SweepKeep, DeleteObject, Entries, Request, Row, Entry, Receipt
<1>13. ASSUME NEW s \in Sweeps, SweepRow(s)
      PROVE  ViewsSound'
  BY <1>13 DEF SweepRow, Entries, Request, Row, Entry, Receipt
<1>14. ASSUME NEW s \in Sweeps, SweepRowFails(s)
      PROVE  ViewsSound'
  BY <1>14 DEF SweepRowFails, Entries, Request, Row, Entry, Receipt
<1>15. CASE Crash
  BY <1>15 DEF Crash, Idle, AtRest, Entries, Request, Row, Entry, Receipt
<1>16. CASE Tick
  BY <1>16 DEF Tick, Entries, Request, Row, Entry, Receipt
<1>17. CASE UNCHANGED vars
  BY <1>17 DEF vars, Entries, Request, Row, Entry, Receipt
<1> QED
  BY <1>1, <1>2, <1>3, <1>4, <1>5, <1>6, <1>7, <1>8, <1>9, <1>10, <1>11, <1>12, <1>13, <1>14,
     <1>15, <1>16, <1>17 DEF Next, Create, Sweep

-----------------------------------------------------------------------------
(* The theorems. *)

\* Every reachable state is well typed.
THEOREM TypeCorrect == Spec => []TypeOK
<1>1. Init => TypeOK
  BY InitType
<1>2. TypeOK /\ [Next]_vars => TypeOK'
  BY TypeStep
<1> QED
  BY <1>1, <1>2, PTL DEF Spec

\* The inductive invariant holds in every reachable state.
LEMMA Invariance == ASSUME Undisturbed PROVE Spec => []IInv
<1>1. Init => IInv
  BY InitIInv
<1>2. IInv /\ [Next]_vars => IInv'
  BY IInvStep
<1> QED
  BY <1>1, <1>2, PTL DEF Spec

\* A confirmed creation stays whole until it expires, for any number of ids,
\* requests, sweeps, failures and restarts, provided that ids are not redrawn
\* while an unfinished operation holds them or that sweeps do not overlap.
THEOREM ReceiptsHonoured == ASSUME Undisturbed PROVE Spec => []ReceiptHonoured
<1>1. IInv => ReceiptHonoured
  BY DEF IInv
<1> QED
  BY <1>1, Invariance, PTL

\* No sweep and no failed creation loses track of a stored object; only a fault
\* of the store, a failed compensating delete or a crash does.
THEOREM NoOrphans == ASSUME Undisturbed PROVE Spec => []NoOrphan
<1>1. Init => NoOrphan
  BY InitIInv
<1>2. IInv /\ NoOrphan /\ [Next]_vars => NoOrphan'
  BY OrphanStep
<1> QED
  BY <1>1, <1>2, Invariance, PTL DEF Spec

\* A view count never exceeds the reads of the row it belongs to, as long as ids
\* are not redrawn while a view-count goroutine still holds them.
THEOREM ViewsBounded == ASSUME ~IdRaces PROVE Spec => []ViewsSound
<1>1. Init => ViewsSound
  BY InitIInv
<1>2. IInv /\ ViewsSound /\ [Next]_vars => ViewsSound'
  BY ViewsStep
<1>3. Spec => []IInv
  BY Invariance DEF Undisturbed
<1> QED
  BY <1>1, <1>2, <1>3, PTL DEF Spec

\* The initial states of the service are initial states of the board.
LEMMA BoardInit == Init => Board!Init
  BY DEF Init, Board!Init, posted, Posting

\* When a posting does not change.
LEMMA SamePosting ==
  ASSUME NEW i \in Ids,
         rows'[i] = None <=> rows[i] = None,
         rows[i] # None => /\ rows'[i].file = rows[i].file
                           /\ rows'[i].expires = rows[i].expires
                           /\ rows[i].file # None => (rows[i].file \in stored <=> rows[i].file \in stored'),
         \A c : c.id = i => (c \in receipts <=> c \in receipts')
  PROVE  Posting(i)' = Posting(i)
  BY DEF Posting

LEMMA SameBoard ==
  ASSUME \A i \in Ids : Posting(i)' = Posting(i)
  PROVE  posted' = posted
  BY DEF posted

LEMMA OnePosting ==
  ASSUME NEW i \in Ids, NEW p, Posting(i)' = p,
         \A j \in Ids \ {i} : Posting(j)' = Posting(j)
  PROVE  posted' = [posted EXCEPT ![i] = p]
  BY DEF posted

\* A posting is a paste, never mistaken for a vacant place.
LEMMA PostingType ==
  ASSUME TypeOK, NEW i \in Ids, rows[i] # None
  PROVE  Posting(i) \in Board!Paste /\ Posting(i) # None
<1>1. rows[i] \in Row
  BY DEF TypeOK
<1>2. Posting(i) \in Board!Paste
  BY <1>1 DEF Posting, Row, Expiry, Board!Paste
<1> QED
  BY <1>2, PostingAssumption DEF Board!Paste

\* Deleting the object of an expired row, or one that no receipt names.
LEMMA DeleteStep ==
  ASSUME IInv, NEW f, stored' = stored \ {f}, UNCHANGED <<now, rows, receipts>>,
         \A i \in Ids : rows[i] # None /\ rows[i].file = f /\ f # None =>
            Expired(rows[i].expires) \/ \A c \in receipts : c.file # f
  PROVE  [Board!Next]_(Board!bvars)
<1>1. CASE \E i \in Ids : rows[i] # None /\ rows[i].file = f /\ f # None
  <2>1. PICK i \in Ids : rows[i] # None /\ rows[i].file = f /\ f # None
    BY <1>1
  <2>2. \A j \in Ids \ {i} : rows[j] # None => rows[j].file # f
    BY <2>1 DEF IInv, NamesInv
  <2>3. \A j \in Ids \ {i} : Posting(j)' = Posting(j)
    BY <2>2 DEF Posting
  <2>4. CASE f \in stored
    <3>1. posted[i] = Posting(i) /\ posted[i] # None
      BY <2>1, PostingType DEF posted, IInv
    <3>2. Posting(i).expires = rows[i].expires /\ Posting(i).body = "archive"
      BY <2>1, <2>4 DEF Posting
    <3>3. Expired(rows[i].expires) \/ Posting(i).told = "failed"
      BY <2>1 DEF Posting
    <3>4. Posting(i)' = [expires |-> Posting(i).expires, body |-> "lost",
                         told |-> Posting(i).told]
      BY <2>1 DEF Posting
    <3>5. posted' = [posted EXCEPT ![i] = [expires |-> Posting(i).expires, body |-> "lost",
                                          told |-> Posting(i).told]]
      BY <2>3, <3>4, OnePosting
    <3> QED
      BY <3>1, <3>2, <3>3, <3>5 DEF Board!Next, Board!LoseArchive, Board!Overdue, Expired
  <2>5. CASE f \notin stored
    BY <2>5, SameBoard DEF Board!bvars, Posting
  <2> QED
    BY <2>4, <2>5
<1>2. CASE ~ \E i \in Ids : rows[i] # None /\ rows[i].file = f /\ f # None
  <2>1. \A i \in Ids : Posting(i)' = Posting(i)
    BY <1>2 DEF Posting
  <2> QED
    BY <2>1, SameBoard DEF Board!bvars
<1> QED
  BY <1>1, <1>2

\* A row inserted for a creation in progress is a post.
LEMMA InsertStep ==
  ASSUME IInv, IInv', NEW r \in Requests, Inserting(r), InsertRow(r),
         UNCHANGED <<now, stored>>, receipts \subseteq receipts',
         \A c \in receipts' : c \in receipts \/ c.id = req[r].id
  PROVE  [Board!Next]_(Board!bvars)
<1>a. PICK i \in Ids : i = req[r].id
  BY DEF IInv, TypeOK, Inserting
<1>1. /\ rows[i] = None
      /\ rows' = [rows EXCEPT ![i] = [expires |-> req[r].expires, file |-> req[r].file,
                                      views |-> 0]]
  BY <1>a DEF InsertRow, PrimaryKeyFree
<1>2. rows'[i] # None /\ rows'[i].file = req[r].file
  <2>1. req[r] \in Request
    BY DEF IInv, TypeOK
  <2> QED
    BY <1>1, <2>1, PasteAssumption DEF Request, Expiry, IInv, TypeOK
<1>3. posted[i] = None /\ posted'[i] = Posting(i)'
  BY <1>1 DEF posted, Posting
<1>4. Posting(i)' \in Board!Paste
  <2>1. rows'[i] \in Row
    BY <1>1, <1>2 DEF IInv, TypeOK
  <2> QED
    BY <1>2, <2>1 DEF Posting, Row, Expiry, Board!Paste
<1>5. Posting(i)'.body # "lost"
  BY <1>2 DEF Posting, IInv, UploadInv
<1>6. \A j \in Ids \ {i} : Posting(j)' = Posting(j)
  BY <1>a, <1>1 DEF Posting, IInv, TypeOK
<1>7. posted' = [posted EXCEPT ![i] = Posting(i)']
  BY <1>1, <1>6 DEF posted
<1> QED
  BY <1>1, <1>3, <1>4, <1>5, <1>7 DEF Board!Next, Board!Post

\* Every step of the service is a step of the board or leaves it unchanged.
LEMMA BoardStep == IInv /\ IInv' /\ [Next]_vars => [Board!Next]_(Board!bvars)
<1> SUFFICES ASSUME IInv, IInv', [Next]_vars PROVE [Board!Next]_(Board!bvars)
  OBVIOUS
<1>1. ASSUME NEW r \in Requests, NEW id \in Ids, NEW ttl \in TextTTLs, CreatePaste(r, id, ttl)
      PROVE  [Board!Next]_(Board!bvars)
  BY <1>1 DEF CreatePaste, posted, Posting, Board!bvars
<1>2. ASSUME NEW r \in Requests, NEW id \in Ids, CreateArchivePaste(r, id)
      PROVE  [Board!Next]_(Board!bvars)
  BY <1>2 DEF CreateArchivePaste, posted, Posting, Board!bvars
<1>3. ASSUME NEW r \in Requests, NEW f \in Files, PutOk(r, f)
      PROVE  [Board!Next]_(Board!bvars)
  <2>1. UNCHANGED <<now, rows, receipts>>
        /\ \A g \in Files : name[g] # None => (g \in stored <=> g \in stored')
    BY <1>3 DEF PutOk
  <2>2. \A i \in Ids : rows[i] # None /\ rows[i].file # None =>
          rows[i].file \in Files /\ name[rows[i].file] # None
    BY PasteAssumption DEF IInv, TypeOK, NamesInv, Row
  <2>3. \A i \in Ids : Posting(i)' = Posting(i)
    BY <2>1, <2>2 DEF Posting
  <2> QED
    BY <2>1, <2>3, SameBoard DEF Board!bvars
<1>4. ASSUME NEW r \in Requests, PutFails(r)
      PROVE  [Board!Next]_(Board!bvars)
  <2>1. UNCHANGED <<now, rows, receipts>>
        /\ \A f \in Files : name[f] # None => (f \in stored <=> f \in stored')
    BY <1>4 DEF PutFails
  <2>2. \A i \in Ids : rows[i] # None /\ rows[i].file # None =>
          rows[i].file \in Files /\ name[rows[i].file] # None
    BY PasteAssumption DEF IInv, TypeOK, NamesInv, Row
  <2>3. \A i \in Ids : Posting(i)' = Posting(i)
    BY <2>1, <2>2 DEF Posting
  <2> QED
    BY <2>1, <2>3, SameBoard DEF Board!bvars
<1>5. ASSUME NEW r \in Requests, InsertOk(r)
      PROVE  [Board!Next]_(Board!bvars)
  BY <1>5, InsertStep DEF InsertOk, Inserting
<1>6. ASSUME NEW r \in Requests, InsertFails(r)
      PROVE  [Board!Next]_(Board!bvars)
  <2>1. CASE InsertRow(r)
    BY <1>6, <2>1, InsertStep DEF InsertFails, Inserting
  <2>2. CASE UNCHANGED rows
    BY <1>6, <2>2 DEF InsertFails, posted, Posting, Board!bvars
  <2> QED
    BY <1>6, <2>1, <2>2 DEF InsertFails
<1>7. ASSUME NEW r \in Requests, UndoUpload(r)
      PROVE  [Board!Next]_(Board!bvars)
  <2>1. CASE UNCHANGED stored
    BY <1>7, <2>1 DEF UndoUpload, posted, Posting, Board!bvars
  <2>2. CASE stored' = stored \ {req[r].file}
    <3>1. \A c \in receipts : req[r].file # None => c.file # req[r].file
      BY DEF IInv, UploadInv
    <3> QED
      BY <1>7, <2>2, <3>1, DeleteStep DEF UndoUpload
  <2> QED
    BY <1>7, <2>1, <2>2 DEF UndoUpload, DeleteObject
<1>8. ASSUME NEW id \in Ids, GetPaste(id)
      PROVE  [Board!Next]_(Board!bvars)
  BY <1>8 DEF GetPaste, posted, Posting, Board!bvars
<1>9. ASSUME NEW id \in Ids, IncrementViewCount(id)
      PROVE  [Board!Next]_(Board!bvars)
  <2>1. \A i \in Ids : Posting(i)' = Posting(i)
    BY <1>9, ViewOnly DEF IncrementViewCount, Posting, IInv
  <2> QED
    BY <1>9, <2>1, SameBoard DEF IncrementViewCount, Board!bvars
<1>10. ASSUME NEW s \in Sweeps, SweepStart(s)
      PROVE  [Board!Next]_(Board!bvars)
  BY <1>10 DEF SweepStart, posted, Posting, Board!bvars
<1>11. ASSUME NEW s \in Sweeps, NEW e \in sweep[s].todo, SweepObject(s, e)
      PROVE  [Board!Next]_(Board!bvars)
  <2>1. \A i \in Ids : rows[i] # None /\ rows[i].file = e.file /\ e.file # None =>
          Expired(rows[i].expires)
    BY DEF IInv, NamesInv, SweepInv, Entries
  <2>2. CASE stored' = stored \ {e.file}
    BY <1>11, <2>1, <2>2, DeleteStep DEF SweepObject
  <2> QED
    BY <1>11, <2>2 DEF SweepObject, DeleteObject
<1>12. ASSUME NEW s \in Sweeps, NEW e \in sweep[s].todo, SweepKeep(s, e)
      PROVE  [Board!Next]_(Board!bvars)
  <2>a. CASE UNCHANGED stored
    BY <1>12, <2>a DEF SweepKeep, posted, Posting, Board!bvars
  <2>1. \A i \in Ids : rows[i] # None /\ rows[i].file = e.file /\ e.file # None =>
          Expired(rows[i].expires)
    BY DEF IInv, NamesInv, SweepInv, Entries
  <2>2. CASE stored' = stored \ {e.file}
    BY <1>12, <2>1, <2>2, DeleteStep DEF SweepKeep
  <2> QED
    BY <1>12, <2>2, <2>a DEF SweepKeep, DeleteObject
<1>13. ASSUME NEW s \in Sweeps, SweepRow(s)
      PROVE  [Board!Next]_(Board!bvars)
  <2>a. PICK e \in Entry : e = sweep[s].cur
    BY <1>13 DEF SweepRow, IInv, TypeOK
  <2>1. /\ e \in Entries(s) /\ UNCHANGED <<now, stored, receipts>>
        /\ rows' = [rows EXCEPT ![e.id] = None]
    BY <1>13, <2>a DEF SweepRow, Entries
  <2>2. e.id \in Ids
    BY <2>1 DEF Entry
  <2>3. \A j \in Ids \ {e.id} : Posting(j)' = Posting(j)
    BY <2>1, <2>2 DEF Posting, IInv, TypeOK
  <2>4. Posting(e.id)' = None
    BY <2>1, <2>2 DEF Posting, IInv, TypeOK
  <2>5. CASE rows[e.id] = None
    BY <2>1, <2>2, <2>3, <2>4, <2>5, SameBoard DEF Posting, Board!bvars
  <2>6. CASE rows[e.id] # None
    <3>1. Expired(rows[e.id].expires) /\ rows[e.id].file \notin stored
      BY <1>13, <2>a, <2>1, <2>2, <2>6 DEF IInv, SweepInv, SweepRow
    <3>2. posted[e.id] = Posting(e.id) /\ posted[e.id] # None
      BY <2>2, <2>6, PostingType DEF posted, IInv
    <3>3. Posting(e.id).expires = rows[e.id].expires /\ Posting(e.id).body # "archive"
      BY <2>6, <3>1 DEF Posting
    <3>4. posted' = [posted EXCEPT ![e.id] = None]
      BY <2>2, <2>3, <2>4, OnePosting
    <3> QED
      BY <2>1, <2>2, <3>1, <3>2, <3>3, <3>4
      DEF Board!Next, Board!Remove, Board!Overdue, Expired
  <2> QED
    BY <2>5, <2>6
<1>14. ASSUME NEW s \in Sweeps, SweepRowFails(s)
      PROVE  [Board!Next]_(Board!bvars)
  BY <1>14 DEF SweepRowFails, posted, Posting, Board!bvars
<1>15. CASE Crash
  BY <1>15 DEF Crash, posted, Posting, Board!bvars
<1>16. CASE Tick
  BY <1>16 DEF Tick, posted, Posting, Board!Next, Board!Tick
<1>17. CASE UNCHANGED vars
  BY <1>17 DEF vars, posted, Posting, Board!bvars
<1> QED
  BY <1>1, <1>2, <1>3, <1>4, <1>5, <1>6, <1>7, <1>8, <1>9, <1>10, <1>11, <1>12, <1>13, <1>14,
     <1>15, <1>16, <1>17 DEF Next, Create, Sweep

\* The service implements the board: every behaviour of PasteLifecycle, with its
\* failures and restarts, is one of PasteBoard.
THEOREM ImplementsBoard == ASSUME Undisturbed PROVE Spec => BoardSpec
<1>1. Init => Board!Init
  BY BoardInit
<1>2. IInv /\ IInv' /\ [Next]_vars => [Board!Next]_(Board!bvars)
  BY BoardStep
<1> QED
  BY <1>1, <1>2, Invariance, PTL DEF Spec, BoardSpec, Board!Spec
=============================================================================
