--------------------------- MODULE FileVaultProofs ---------------------------
(***************************************************************************)
(* FileStore implements FileVault, for any number of files, users, folders *)
(* and running handlers: the handlers start where the vault starts, and    *)
(* each of their steps is a step of the vault or leaves it as it is.       *)
(***************************************************************************)
EXTENDS FileStoreProofs

\* What the vault sees of file f.
Status(f) == IF HasRow(f) THEN row[f].status ELSE IF f \in purged THEN "gone" ELSE "unborn"
Content(f) == IF HasRow(f) THEN blob[f] ELSE Absent

VaultStep == [Vault!Next]_(Vault!vvars)

\* The vault's view of every file but f stays.
Elsewhere(f) ==
    \A g \in Files \ {f} : Status(g)' = Status(g) /\ Content(g)' = Content(g)

-----------------------------------------------------------------------------
(* The vault's actions, in terms of Status and Content. *)

LEMMA Unseen ==
    ASSUME \A f \in Files : Status(f)' = Status(f) /\ Content(f)' = Content(f),
           UNCHANGED <<purged, rewritten>>
    PROVE  VaultStep
BY DEF VaultStep, Vault!vvars, Status, Content

LEMMA Created ==
    ASSUME NEW f \in Files, Elsewhere(f), UNCHANGED <<purged, rewritten>>,
           Status(f) = "unborn", Status(f)' = "live", Content(f)' \in Bytes
    PROVE  VaultStep
<1>1. Vault!Create(f) BY DEF Vault!Create, Elsewhere, Status, Content
<1> QED BY <1>1 DEF VaultStep, Vault!Next

LEMMA SentToTrash ==
    ASSUME NEW f \in Files, Elsewhere(f), UNCHANGED <<purged, rewritten>>,
           Status(f) = "live", Status(f)' = "trash", Content(f)' = Content(f)
    PROVE  VaultStep
<1>1. Vault!Trash(f) BY DEF Vault!Trash, Elsewhere, Status, Content
<1> QED BY <1>1 DEF VaultStep, Vault!Next

LEMMA Restored ==
    ASSUME NEW f \in Files, Elsewhere(f), UNCHANGED <<purged, rewritten>>,
           Status(f) = "trash", Status(f)' = "live", Content(f)' = Content(f)
    PROVE  VaultStep
<1>1. Vault!Restore(f) BY DEF Vault!Restore, Elsewhere, Status, Content
<1> QED BY <1>1 DEF VaultStep, Vault!Next

LEMMA Condemned ==
    ASSUME NEW S \in SUBSET Files, \A f \in S : Trashed(f),
           purged' = purged \cup S, UNCHANGED <<row, blob, rewritten>>
    PROVE  VaultStep
<1>1. \A f \in S : HasRow(f) /\ Status(f) = "trash"
    BY LiveHasRow DEF Trashed, Status
<1>2. \A f \in Files : Status(f)' = Status(f) /\ Content(f)' = Content(f)
    BY <1>1 DEF Status, Content, HasRow
<1>3. Vault!Condemn(S) BY <1>1, <1>2 DEF Vault!Condemn, Status, Content
<1> QED BY <1>3 DEF VaultStep, Vault!Next

LEMMA Destroyed ==
    ASSUME TypeOK, NEW f \in purged, HasRow(f), row' = [row EXCEPT ![f] = NoRow],
           UNCHANGED <<blob, purged, rewritten>>
    PROVE  VaultStep
<1>1. f \in Files /\ ~HasRow(f)' BY DEF TypeOK, HasRow
<1>2. Elsewhere(f) BY DEF Elsewhere, Status, Content, HasRow, TypeOK
<1>3. Status(f) \in {"live", "trash"} /\ Status(f)' = "gone" /\ Content(f)' = Absent
    BY <1>1, RowShape DEF Status, Content, HasRow, TypeOK
<1>4. Vault!Exists(f) BY <1>1, <1>3 DEF Vault!Exists, Status
<1>5. Vault!Destroy(f)
    BY <1>1, <1>2, <1>3, <1>4 DEF Vault!Destroy, Elsewhere, Status, Content
<1> QED BY <1>1, <1>5 DEF VaultStep, Vault!Next

\* Bytes go: of a file without a row nobody sees it, of another it was condemned.
LEMMA BytesLost ==
    ASSUME TypeOK, NEW f \in Files, blob' = [blob EXCEPT ![f] = Absent],
           f \in purged \/ ~HasRow(f), UNCHANGED <<row, purged, rewritten>>
    PROVE  VaultStep
<1>1. Elsewhere(f) BY DEF Elsewhere, Status, Content, HasRow, TypeOK
<1>2. Status(f)' = Status(f) /\ Content(f)' = Absent BY DEF Status, Content, HasRow, TypeOK
<1>3. CASE ~HasRow(f)
  <2>1. Content(f)' = Content(f) BY <1>2, <1>3 DEF Content
  <2> QED BY <1>1, <1>2, <2>1, Unseen DEF Elsewhere
<1>4. CASE HasRow(f)
  <2>1. Status(f) \in {"live", "trash"} BY <1>4, RowShape DEF Status, HasRow, TypeOK
  <2>2. Vault!Exists(f) BY <2>1 DEF Vault!Exists, Status
  <2>3. Vault!LoseBytes(f)
      BY <1>1, <1>2, <1>4, <2>2 DEF Vault!LoseBytes, Elsewhere, Status, Content
  <2> QED BY <2>3 DEF VaultStep, Vault!Next
<1> QED BY <1>3, <1>4

\* Blobs change under rows that were written in place.
LEMMA Rewritten ==
    ASSUME TypeOK, NEW S \in SUBSET Files, rewritten' = rewritten \cup S,
           UNCHANGED <<row, purged>>, TypeOK',
           \A f \in Files : HasRow(f) /\ blob'[f] # blob[f] =>
               f \in rewritten' /\ blob'[f] \in Bytes
    PROVE  VaultStep
<1>1. \A f \in Files : Status(f)' = Status(f) BY DEF Status, HasRow
<1>2. \A f \in Files : Content(f)' \in Bytes \cup {Absent} BY DEF Content, TypeOK
<1>3. ASSUME NEW f \in Files, Content(f)' # Content(f)
      PROVE  f \in rewritten' /\ Status(f) \in {"live", "trash"} /\ Content(f)' # Absent
  <2>1. HasRow(f) /\ HasRow(f)' /\ blob'[f] # blob[f] BY <1>3 DEF Content, HasRow
  <2>2. Status(f) \in {"live", "trash"} BY <2>1, RowShape DEF Status, HasRow, TypeOK
  <2> QED BY <2>1, <2>2, BytesAreThere DEF Content
<1>4. Vault!Rewrite(S)
    BY <1>1, <1>2, <1>3 DEF Vault!Rewrite, Vault!Exists, Status, Content
<1> QED BY <1>4 DEF VaultStep, Vault!Next

-----------------------------------------------------------------------------
(* The handlers' steps. *)

LEMMA UnseenSame ==
    ASSUME UNCHANGED <<row, blob, purged, rewritten>>
    PROVE  VaultStep
BY Unseen DEF Status, Content, HasRow

LEMMA BeginRefines ==
    ASSUME IndInv, NEW r \in Requests, NEW u \in Users, Begin(r, u)
    PROVE  VaultStep
<1>1. CASE UNCHANGED <<row, blob, purged, rewritten>> BY <1>1, UnseenSame
<1>2. ASSUME NEW f \in Files, PurgeSelect(r, u, f) PROVE VaultStep
  <2>1. {f} \in SUBSET Files /\ \A g \in {f} : Trashed(g) BY <1>2 DEF PurgeSelect
  <2>2. purged' = purged \cup {f} /\ UNCHANGED <<row, blob, rewritten>>
      BY <1>2 DEF PurgeSelect
  <2> QED BY <2>1, <2>2, Condemned
<1>3. CASE EmptySelect(r, u)
  <2> DEFINE trash == {f \in Files : Trashed(f) /\ row[f].owner = u}
  <2>1. purged' = purged \cup trash /\ UNCHANGED <<row, blob, rewritten>>
      BY <1>3 DEF EmptySelect
  <2>2. trash \in SUBSET Files /\ \A f \in trash : Trashed(f) OBVIOUS
  <2> HIDE DEF trash
  <2> QED BY <2>1, <2>2, Condemned
<1> QED BY <1>1, <1>2, <1>3 DEF Begin, CreateText, UploadCreate, UploadOverwrite, Copy,
                                SaveContent, SoftDeleteRead, Start

LEMMA StatementRefines ==
    ASSUME IndInv, NEW u \in Users, Statement(u)
    PROVE  VaultStep
<1>1. PICK f \in Files :
         \/ Restore(u, f)
         \/ \E n \in Names : Rename(u, f, n)
         \/ \E d \in Folders : Move(u, f, d)
    BY DEF Statement
<1>2. UNCHANGED <<blob, purged, rewritten>> /\ HasRow(f) /\ row[f] \in Rows
    BY <1>1, LiveHasRow, RowShape DEF Restore, Rename, Move, HasRow, IndInv, TypeOK
<1>3. \A g \in Files \ {f} : row'[g] = row[g]
    BY <1>1 DEF Restore, Rename, Move, IndInv, TypeOK
<1>4. Elsewhere(f) BY <1>2, <1>3 DEF Elsewhere, Status, Content, HasRow
<1>5. CASE Restore(u, f)
  <2>1. row'[f] = [row[f] EXCEPT !.status = "live"] BY <1>5 DEF Restore, IndInv, TypeOK
  <2>2. row'[f].status = "live" BY <1>2, <2>1 DEF Rows
  <2>3. HasRow(f)' BY <2>2 DEF HasRow, NoRow
  <2>4. Status(f) = "trash" BY <1>2, <1>5 DEF Restore, Trashed, Status
  <2>5. Status(f)' = "live" /\ Content(f)' = Content(f)
      BY <1>2, <2>2, <2>3 DEF Status, Content
  <2> QED BY <1>2, <1>4, <2>4, <2>5, Restored
<1>6. CASE (\E n \in Names : Rename(u, f, n)) \/ (\E d \in Folders : Move(u, f, d))
  <2>1. row'[f].status = row[f].status
      BY <1>2, <1>6 DEF Rename, Move, Rows, IndInv, TypeOK
  <2>2. HasRow(f)' BY <1>2, <2>1, RowShape DEF HasRow, NoRow
  <2>3. Status(f)' = Status(f) /\ Content(f)' = Content(f)
      BY <1>2, <2>1, <2>2 DEF Status, Content
  <2> QED BY <1>2, <1>4, <2>3, Unseen DEF Elsewhere
<1> QED BY <1>1, <1>5, <1>6

\* A file that is being inserted has no row; one that is updated is marked from the
\* moment its blob is opened.
LEMMA WriterMarks ==
    ASSUME IndInv, NEW r \in Requests, req[r].pc \in WritePc, HasRow(req[r].file)
    PROVE  /\ req[r].op = "update"
           /\ req[r].pc \in {"stream", "commit"} => req[r].file \in rewritten
<1>1. Inserting(r) \/ Updating(r)
    BY JobShape DEF Inserting, Updating, IndInv, TypeOK
<1>2. ~Inserting(r) BY DEF IndInv, NewbornInv
<1> QED BY <1>1, <1>2 DEF Updating, IndInv, KnownInv

LEMMA WriteRefines ==
    ASSUME IndInv, NEW r \in Requests, WriteOpen(r) \/ WriteDone(r) \/ WriteFail(r)
    PROVE  VaultStep
<1> DEFINE f == req[r].file
<1>1. TypeOK /\ TypeOK' BY ProceedType DEF IndInv, Proceed
<1>2. req[r].pc \in WritePc /\ req[r] \in Jobs
    BY <1>1 DEF WriteOpen, WriteDone, WriteFail, Streaming, WritePc, TypeOK
<1>3. req[r] \in InsertJobs \cup UpdateJobs /\ f \in Files
    BY <1>2, JobShape DEF InsertJobs, UpdateJobs
<1>4. CASE WriteOpen(r)
  <2> DEFINE S == IF req[r].op = "update" THEN {f} ELSE {}
  <2>1. rewritten' = rewritten \cup S BY <1>4 DEF WriteOpen
  <2>2. blob' = [blob EXCEPT ![f] = Torn] /\ UNCHANGED <<row, purged>> BY <1>4 DEF WriteOpen
  <2>3. S \in SUBSET Files BY <1>3
  <2>4. ASSUME NEW g \in Files, HasRow(g), blob'[g] # blob[g]
        PROVE  g \in rewritten' /\ blob'[g] \in Bytes
    <3>1. g = f /\ blob'[g] = Torn BY <1>1, <2>2, <2>4 DEF TypeOK
    <3>2. req[r].op = "update" BY <1>2, <2>4, <3>1, WriterMarks
    <3> QED BY <2>1, <3>1, <3>2 DEF Bytes
  <2> HIDE DEF S
  <2> QED BY <1>1, <2>1, <2>2, <2>3, <2>4, Rewritten
<1>5. CASE WriteDone(r) \/ WriteFail(r)
  <2>1. PICK c \in Bytes : \E b \in Landed(r, c) : blob' = [blob EXCEPT ![f] = b]
    <3>1. Received(r) \subseteq Bytes BY <1>3 DEF Received, Bytes, InsertJobs, UpdateJobs
    <3>2. Torn \in Bytes BY DEF Bytes
    <3> QED BY <1>5, <3>1, <3>2 DEF WriteDone, WriteFail
  <2>2. PICK b \in Landed(r, c) : blob' = [blob EXCEPT ![f] = b] BY <2>1
  <2>3. b = blob[f] \/ b \in Bytes
      BY <1>3 DEF Landed, Bytes, Fd, InsertJobs, UpdateJobs
  <2>4. UNCHANGED <<row, purged, rewritten>> /\ req[r].pc = "stream"
      BY <1>5 DEF WriteDone, WriteFail, Streaming
  <2>5. ASSUME NEW g \in Files, HasRow(g), blob'[g] # blob[g]
        PROVE  g \in rewritten' /\ blob'[g] \in Bytes
    <3>1. g = f /\ blob'[g] = b BY <1>1, <2>2, <2>5 DEF TypeOK
    <3>2. f \in rewritten BY <1>2, <2>4, <2>5, <3>1, WriterMarks
    <3> QED BY <2>3, <2>4, <2>5, <3>1, <3>2
  <2>6. {} \in SUBSET Files /\ rewritten' = rewritten \cup {} BY <2>4
  <2> QED BY <1>1, <2>4, <2>5, <2>6, Rewritten
<1> QED BY <1>4, <1>5

LEMMA RowRefines ==
    ASSUME IndInv, NEW r \in Requests,
           InsertRow(r) \/ UpdateRow(r) \/ SoftDeleteRow(r) \/ PurgeRow(r) \/ EmptyRow(r)
    PROVE  VaultStep
<1> DEFINE j == req[r]
<1>1. TypeOK /\ j \in Jobs BY DEF IndInv, TypeOK
<1>2. UNCHANGED <<blob, purged, rewritten>>
    BY DEF InsertRow, UpdateRow, SoftDeleteRow, PurgeRow, EmptyRow
<1>3. CASE row' = row BY <1>2, <1>3, UnseenSame
<1>4. ASSUME NEW f, f = j.file, InsertRow(r) PROVE VaultStep
  <2>1. Inserting(r) /\ j.pc = "commit"
      BY <1>4 DEF InsertRow, Committing, Inserting, WritePc
  <2>2. ~HasRow(f) /\ f \notin purged /\ f \in Files
        /\ blob[f] = j.content /\ j.content \in Bytes
      BY <1>1, <1>4, <2>1, JobShape DEF IndInv, NewbornInv, InsertJobs, UpdateJobs, WritePc
  <2>3. row' = [row EXCEPT ![f] =
                   [status |-> "live", owner |-> j.owner, folder |-> j.folder,
                    name |-> j.name, content |-> j.content]]
      BY <1>4 DEF InsertRow
  <2>4. row'[f].status = "live" BY <1>1, <2>2, <2>3 DEF TypeOK
  <2>5. HasRow(f)' BY <2>4 DEF HasRow, NoRow
  <2>6. Status(f) = "unborn" BY <2>2 DEF Status
  <2>7. Status(f)' = "live" /\ Content(f)' \in Bytes
      BY <1>2, <2>2, <2>4, <2>5 DEF Status, Content
  <2>8. Elsewhere(f)
      BY <1>1, <1>2, <2>2, <2>3 DEF Elsewhere, Status, Content, HasRow, TypeOK
  <2> QED BY <1>2, <2>2, <2>6, <2>7, <2>8, Created
<1>5. ASSUME NEW f, f = j.file, UpdateRow(r) /\ HasRow(f) PROVE VaultStep
  <2>1. f \in Files /\ row[f] \in Rows
      BY <1>1, <1>5, JobShape, RowShape
      DEF UpdateRow, Committing, WritePc, InsertJobs, UpdateJobs, HasRow, TypeOK
  <2>2. row' = [row EXCEPT ![f].content = j.content] BY <1>5 DEF UpdateRow
  <2>3. row'[f].status = row[f].status BY <1>1, <2>1, <2>2 DEF TypeOK, Rows
  <2>4. \A g \in Files : /\ HasRow(g)' = HasRow(g)
                         /\ HasRow(g) => row'[g].status = row[g].status
    <3>1. HasRow(f)' BY <2>1, <2>3, RowShape DEF HasRow, NoRow
    <3> QED BY <1>1, <1>5, <2>1, <2>2, <2>3, <3>1 DEF HasRow, TypeOK
  <2>5. \A g \in Files : Status(g)' = Status(g) /\ Content(g)' = Content(g)
      BY <1>2, <2>4 DEF Status, Content
  <2> QED BY <1>2, <2>5, Unseen
<1>6. ASSUME NEW f, f = j.file, SoftDeleteRow(r) /\ Live(f) /\ MayDelete(j.user, f)
      PROVE  VaultStep
  <2>1. f \in Files /\ row[f] \in Rows /\ HasRow(f)
      BY <1>1, <1>6, JobShape, RowShape, LiveHasRow
      DEF SoftDeleteRow, TrashJobs, Live, TypeOK
  <2>2. row' = [row EXCEPT ![f].status = "trash", ![f].owner = j.owner]
      BY <1>6 DEF SoftDeleteRow
  <2>3. row'[f].status = "trash" BY <1>1, <2>1, <2>2 DEF TypeOK, Rows
  <2>4. HasRow(f)' BY <2>3 DEF HasRow, NoRow
  <2>5. Status(f) = "live" BY <1>6, <2>1 DEF Status, Live
  <2>6. Status(f)' = "trash" /\ Content(f)' = Content(f)
      BY <1>2, <2>1, <2>3, <2>4 DEF Status, Content
  <2>7. Elsewhere(f)
      BY <1>1, <1>2, <2>1, <2>2 DEF Elsewhere, Status, Content, HasRow, TypeOK
  <2> QED BY <1>2, <2>1, <2>5, <2>6, <2>7, SentToTrash
<1>7. CASE PurgeRow(r) /\ HasRow(j.file) /\ row[j.file].owner = j.user
  <2>1. j.file \in purged BY <1>7 DEF PurgeRow, IndInv, SelectedInv
  <2>2. row' = [row EXCEPT ![j.file] = NoRow] BY <1>7 DEF PurgeRow
  <2> QED BY <1>1, <1>2, <1>7, <2>1, <2>2, Destroyed
<1>8. CASE EmptyRow(r)
  <2>1. PICK f \in j.todo : row' = [row EXCEPT ![f] = NoRow] BY <1>8 DEF EmptyRow
  <2>2. f \in purged /\ f \in Files
      BY <1>1, <1>8 DEF EmptyRow, IndInv, SelectedInv, TypeOK
  <2>3. CASE HasRow(f) BY <1>1, <1>2, <2>1, <2>2, <2>3, Destroyed
  <2>4. CASE ~HasRow(f)
    <3>1. row' = row BY <1>1, <2>1, <2>2, <2>4 DEF HasRow, TypeOK
    <3> QED BY <1>3, <3>1
  <2> QED BY <2>3, <2>4
<1> QED BY <1>3, <1>4, <1>5, <1>6, <1>7, <1>8 DEF UpdateRow, SoftDeleteRow, PurgeRow

LEMMA UnlinkRefines ==
    ASSUME IndInv, NEW r \in Requests, InsertFail(r) \/ PurgeBlob(r) \/ EmptyBlob(r)
    PROVE  VaultStep
<1> DEFINE f == req[r].file
<1>1. blob' = [blob EXCEPT ![f] = Absent] /\ UNCHANGED <<row, purged, rewritten>>
    BY DEF InsertFail, PurgeBlob, EmptyBlob, Unlink
<1>2. req[r] \in Jobs BY DEF IndInv, TypeOK
<1>3. f \in Files
    BY <1>2, JobShape
    DEF InsertFail, Committing, PurgeBlob, EmptyBlob, WritePc, InsertJobs, UpdateJobs, PurgeJobs
<1>4. CASE InsertFail(r)
  <2>1. ~HasRow(f)
      BY <1>4 DEF InsertFail, Committing, Inserting, WritePc, IndInv, NewbornInv
  <2> QED BY <1>1, <1>3, <2>1, BytesLost DEF IndInv
<1>5. CASE PurgeBlob(r) \/ EmptyBlob(r)
  <2>1. f \in purged BY <1>5 DEF PurgeBlob, EmptyBlob, IndInv, SelectedInv
  <2> QED BY <1>1, <1>3, <2>1, BytesLost DEF IndInv
<1> QED BY <1>4, <1>5

LEMMA CrashRefines ==
    ASSUME IndInv, Crash
    PROVE  VaultStep
<1>1. TypeOK /\ TypeOK' BY CrashType DEF IndInv
<1>2. UNCHANGED <<row, purged, rewritten>> BY DEF Crash
<1>3. ASSUME NEW f \in Files, HasRow(f), blob'[f] # blob[f]
      PROVE  f \in rewritten /\ blob'[f] \in Bytes
  <2>1. PICK q \in Requests : Streaming(q) /\ req[q].file = f
      BY <1>3 DEF Crash
  <2>2. f \in rewritten BY <1>3, <2>1, WriterMarks DEF Streaming, WritePc
  <2>3. blob'[f] = Torn BY <1>3 DEF Crash
  <2> QED BY <2>2, <2>3 DEF Bytes
<1>4. {} \in SUBSET Files /\ rewritten' = rewritten \cup {} BY <1>2
<1> QED BY <1>1, <1>2, <1>3, <1>4, Rewritten

LEMMA StepRefines == IndInv /\ [Next]_vars => VaultStep
<1> SUFFICES ASSUME IndInv, [Next]_vars PROVE VaultStep
    OBVIOUS
<1>1. CASE UNCHANGED vars BY <1>1, UnseenSame DEF vars
<1>2. ASSUME NEW r \in Requests, Proceed(r) PROVE VaultStep
  <2>1. CASE UpdateFail(r) \/ EmptySkip(r) \/ GiveUp(r) \/ UnlinkFails(r)
      BY <2>1, UnseenSame DEF UpdateFail, EmptySkip, GiveUp, UnlinkFails
  <2> QED BY <1>2, <2>1, WriteRefines, RowRefines, UnlinkRefines DEF Proceed
<1>3. CASE Serve BY <1>2, <1>3, BeginRefines, StatementRefines DEF Serve
<1>4. CASE Crash BY <1>4, CrashRefines
<1> QED BY <1>1, <1>3, <1>4 DEF Next

-----------------------------------------------------------------------------
\* Every behaviour of the handlers, failures and crashes included, is one the vault
\* allows: a file appears with its bytes in place, is destroyed only after somebody
\* condemned it while it was in the trash, never returns, and its bytes change only
\* once it was opened for an in-place write.
THEOREM StoreImplementsVault == Spec => ImplementsVault
<1>1. Init => Vault!Init
  <2> SUFFICES ASSUME Init PROVE Vault!Init
      OBVIOUS
  <2>1. \A f \in Files : ~HasRow(f) BY DEF Init, HasRow
  <2> QED BY <2>1 DEF Init, Vault!Init
<1>2. IndInv /\ [Next]_vars => [Vault!Next]_(Vault!vvars)
    BY StepRefines DEF VaultStep
<1> QED BY <1>1, <1>2, Invariance, PTL DEF Spec, ImplementsVault, Vault!Spec

\* No row ever appears again under the id of a file that was deleted for good: a step
\* of the vault leaves a file that is gone where it is, and so does every handler, those
\* included that still hold the file's id in a job begun before it went.
THEOREM GoneForGood ==
    Spec => [][\A f \in Files : Status(f) = "gone" => Status(f)' = "gone"]_vars
<1> DEFINE Gone == \A f \in Files : Status(f) = "gone" => Status(f)' = "gone"
<1>1. VaultStep => Gone
  <2> SUFFICES ASSUME VaultStep, NEW f \in Files, Status(f) = "gone" PROVE Status(f)' = "gone"
      OBVIOUS
  <2>1. CASE UNCHANGED Vault!vvars BY <2>1 DEF Vault!vvars, Status
  <2>2. ASSUME NEW S \in SUBSET Files, Vault!Rewrite(S) \/ Vault!Condemn(S)
        PROVE  Status(f)' = "gone"
      BY <2>2 DEF Vault!Rewrite, Vault!Condemn, Status
  <2>3. ASSUME NEW g \in Files, Vault!Create(g) \/ Vault!Trash(g) \/ Vault!Restore(g)
        PROVE  Status(f)' = "gone"
      BY <2>3 DEF Vault!Create, Vault!Trash, Vault!Restore, Status
  <2>4. ASSUME NEW g \in Files, Vault!Destroy(g) \/ Vault!LoseBytes(g)
        PROVE  Status(f)' = "gone"
      BY <2>4 DEF Vault!Destroy, Vault!LoseBytes, Status
  <2> QED BY <2>1, <2>2, <2>3, <2>4 DEF VaultStep, Vault!Next
<1>2. IndInv /\ [Next]_vars => [Gone]_vars BY <1>1, StepRefines
<1> QED BY <1>2, Invariance, PTL DEF Spec
=============================================================================
