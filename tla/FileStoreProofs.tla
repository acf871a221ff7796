--------------------------- MODULE FileStoreProofs ---------------------------
(***************************************************************************)
(* Theorems about FileStore, for any number of files, users, folders and   *)
(* running handlers.                                                       *)
(***************************************************************************)
EXTENDS FileStore, TLAPS

-----------------------------------------------------------------------------
(* The shape of a job follows from where it stands. *)

LEMMA JobShape ==
    ASSUME NEW j \in Jobs
    PROVE  /\ j.pc \in WritePc => j \in InsertJobs \/ j \in UpdateJobs
           /\ j \in InsertJobs => j.pc \in WritePc /\ j.op = "insert"
           /\ j \in UpdateJobs => j.pc \in WritePc /\ j.op = "update"
           /\ j.pc = "trash" => j \in TrashJobs
           /\ j.pc \in {"purgeRow", "purgeBlob"} => j \in PurgeJobs
           /\ j.pc \in {"emptyRow", "emptyBlob"} => j \in EmptyJobs
           /\ j.pc = "emptyBlob" => j.file \in Files
           /\ j.pc \in {"emptyRow", "emptyBlob"} => j.todo \in SUBSET Files
BY DEF Jobs, Idle, InsertJobs, UpdateJobs, TrashJobs, PurgeJobs, EmptyJobs, WritePc

\* Steps that other requests make on a running write leave a write of the same kind.
LEMMA Disturbed ==
    ASSUME NEW j \in InsertJobs \cup UpdateJobs, NEW fd \in Fd, NEW c \in Bytes
    PROVE  /\ [j EXCEPT !.fd = fd] \in Jobs
           /\ [j EXCEPT !.content = c] \in Jobs
           /\ [j EXCEPT !.pc = "stream", !.fd = fd] \in Jobs
           /\ [j EXCEPT !.pc = "commit", !.content = c, !.fd = fd] \in Jobs
BY DEF Jobs, InsertJobs, UpdateJobs, WritePc

LEMMA IdleJob == Idle \in Jobs
BY DEF Jobs

\* A row is told from no row by its status.
LEMMA RowShape ==
    ASSUME NEW x \in Rows \cup {NoRow}
    PROVE  /\ x.status \in {"live", "trash"} => x \in Rows
           /\ x # NoRow => x \in Rows
           /\ x \in Rows => x # NoRow /\ x.status \in {"live", "trash"}
BY DEF Rows, NoRow

-----------------------------------------------------------------------------
(* Type correctness. *)

LEMMA CutType ==
    ASSUME TypeOK, NEW f \in Files
    PROVE  CutWriters(f) \in [Requests -> Jobs]
<1> SUFFICES ASSUME NEW q \in Requests
             PROVE  CutWriters(f)[q] \in Jobs
    BY DEF CutWriters
<1>1. req[q] \in Jobs BY DEF TypeOK
<1>2. CASE Streaming(q) /\ req[q].file = f
  <2>1. req[q] \in InsertJobs \cup UpdateJobs BY <1>1, <1>2, JobShape DEF Streaming, WritePc
  <2>2. "lost" \in Fd /\ Torn \in Bytes BY DEF Fd, Bytes
  <2>3. [req[q] EXCEPT !.fd = "lost"] \in Jobs BY <2>1, <2>2, Disturbed
  <2> QED BY <2>3, <1>2 DEF CutWriters
<1>3. CASE ~(Streaming(q) /\ req[q].file = f)
    BY <1>1, <1>3 DEF CutWriters
<1> QED BY <1>2, <1>3

LEMMA StartType ==
    ASSUME TypeOK, NEW r \in Requests, NEW j \in Jobs, Start(r, j), issued' \subseteq Files,
           from' \in [Files -> SUBSET Files]
    PROVE  TypeOK'
BY DEF TypeOK, Start

LEMMA UnlinkType ==
    ASSUME TypeOK, NEW r \in Requests, NEW f \in Files, NEW then \in Jobs,
           Unlink(r, f, then), UNCHANGED <<row, issued, from, purged, rewritten>>
    PROVE  TypeOK'
<1>1. CutWriters(f) \in [Requests -> Jobs] BY CutType
<1>2. req' \in [Requests -> Jobs] BY <1>1 DEF Unlink
<1>3. blob' \in [Files -> Bytes \cup {Absent}] BY DEF Unlink, TypeOK
<1> QED BY <1>2, <1>3 DEF TypeOK

\* A handler starts: the job it starts with is well-formed.
LEMMA BeginType ==
    ASSUME TypeOK, NEW r \in Requests, NEW u \in Users, Begin(r, u)
    PROVE  TypeOK'
<1>1. ASSUME NEW d \in Folders, NEW n \in Names, CreateText(r, u, d, n) PROVE TypeOK'
  <2>1. PICK f \in Files \ issued :
           /\ Start(r, InsertJob(f, Blank, {},
                              IF FolderOwner[d] = Nobody THEN u ELSE FolderOwner[d], d, n))
           /\ issued' = issued \cup {f}
      BY <1>1 DEF CreateText
  <2>2. InsertJob(f, Blank, {}, IF FolderOwner[d] = Nobody THEN u ELSE FolderOwner[d], d, n)
          \in Jobs
      BY ContentsAssumption, FoldersAssumption
      DEF InsertJob, Jobs, InsertJobs, WritePc, Fd, Bytes
  <2> QED BY <1>1, <2>1, <2>2, StartType DEF TypeOK, CreateText
<1>2. ASSUME NEW d \in Folders, NEW n \in Names, NEW c \in Contents,
             UploadCreate(r, u, d, n, c)
      PROVE  TypeOK'
  <2>1. PICK f \in Files \ issued : /\ Start(r, InsertJob(f, c, {}, u, d, n))
                                    /\ issued' = issued \cup {f}
      BY <1>2 DEF UploadCreate
  <2>2. InsertJob(f, c, {}, u, d, n) \in Jobs
      BY DEF InsertJob, Jobs, InsertJobs, WritePc, Fd, Bytes
  <2> QED BY <1>2, <2>1, <2>2, StartType DEF TypeOK, UploadCreate
<1>3. ASSUME NEW d \in Folders, NEW n \in Names, NEW c \in Contents,
             UploadOverwrite(r, u, d, n, c)
      PROVE  TypeOK'
  <2>1. PICK f \in Conflicts(d, n) : Start(r, UpdateJob(f, c))
      BY <1>3 DEF UploadOverwrite
  <2>2. UpdateJob(f, c) \in Jobs
      BY DEF Conflicts, UpdateJob, Jobs, UpdateJobs, WritePc, Fd, Bytes
  <2> QED BY <1>3, <2>1, <2>2, StartType DEF TypeOK, UploadOverwrite
<1>4. ASSUME NEW d \in Folders, NEW n \in Names, NEW src \in Files, Copy(r, u, src, d, n)
      PROVE  TypeOK'
  <2>1. PICK f \in Files \ issued : /\ Start(r, InsertJob(f, blob[src], {src}, u, d, n))
                                    /\ issued' = issued \cup {f}
                                    /\ from' = [from EXCEPT ![f] = {src} \cup from[src]]
      BY <1>4 DEF Copy
  <2>2. blob[src] \in Bytes BY <1>4 DEF Copy, TypeOK
  <2>3. InsertJob(f, blob[src], {src}, u, d, n) \in Jobs
      BY <2>2 DEF InsertJob, Jobs, InsertJobs, WritePc, Fd
  <2> QED BY <2>1, <2>3, StartType DEF TypeOK
<1>5. ASSUME NEW f \in Files, NEW c \in Contents, SaveContent(r, u, f, c) PROVE TypeOK'
  <2>1. UpdateJob(f, c) \in Jobs
      BY DEF UpdateJob, Jobs, UpdateJobs, WritePc, Fd, Bytes
  <2> QED BY <1>5, <2>1, StartType DEF TypeOK, SaveContent
<1>6. ASSUME NEW f \in Files, SoftDeleteRead(r, u, f) PROVE TypeOK'
  <2>1. row[f] \in Rows BY <1>6, RowShape DEF SoftDeleteRead, Live, TypeOK
  <2>2. TrashOwner(f) \in Users BY <2>1, FoldersAssumption DEF TrashOwner, Rows
  <2>3. [pc |-> "trash", user |-> u, file |-> f, owner |-> TrashOwner(f)] \in Jobs
      BY <2>2 DEF Jobs, TrashJobs
  <2> QED BY <1>6, <2>3, StartType DEF TypeOK, SoftDeleteRead
<1>7. ASSUME NEW f \in Files, PurgeSelect(r, u, f) PROVE TypeOK'
  <2>1. [pc |-> "purgeRow", user |-> u, file |-> f] \in Jobs BY DEF Jobs, PurgeJobs
  <2> QED BY <1>7, <2>1 DEF TypeOK, PurgeSelect
<1>8. CASE EmptySelect(r, u)
  <2> DEFINE trash == {f \in Files : Trashed(f) /\ row[f].owner = u}
  <2>1. EmptyJob(trash) \in Jobs BY DEF EmptyJob, Jobs, EmptyJobs
  <2> QED BY <1>8, <2>1 DEF TypeOK, EmptySelect
<1> QED BY <1>1, <1>2, <1>3, <1>4, <1>5, <1>6, <1>7, <1>8 DEF Begin

\* A running handler takes a step.
LEMMA ProceedType ==
    ASSUME TypeOK, NEW r \in Requests, Proceed(r)
    PROVE  TypeOK'
<1> DEFINE j == req[r]
<1>j. j \in Jobs BY DEF TypeOK
<1>t. Torn \in Bytes BY DEF Bytes
<1>w. j.pc \in WritePc => j.file \in Files /\ j.content \in Bytes /\ j.fd \in Fd
    BY <1>j, JobShape DEF InsertJobs, UpdateJobs
<1>1. CASE WriteOpen(r)
  <2>1. PICK disturbed \in SUBSET (Readers(j.file) \ (OtherWriters(r, j.file) \cup {r})) :
          req' = [q \in Requests |->
                    CASE q = r -> [req[q] EXCEPT !.pc = "stream",
                            !.fd = IF OtherWriters(r, j.file) = {} THEN "whole" ELSE "mixed"]
                      [] q \in OtherWriters(r, j.file) -> [req[q] EXCEPT !.fd = "mixed"]
                      [] q \in disturbed -> [req[q] EXCEPT !.content = Torn]
                      [] OTHER -> req[q]]
      BY <1>1 DEF WriteOpen
  <2>2. ASSUME NEW q \in Requests PROVE req'[q] \in Jobs
    <3>1. req[q] \in Jobs BY DEF TypeOK
    <3>2. "whole" \in Fd /\ "mixed" \in Fd BY DEF Fd
    <3>3. CASE q = r
      <4>1. req[q] \in InsertJobs \cup UpdateJobs
          BY <1>1, <3>1, <3>3, JobShape DEF WriteOpen, WritePc
      <4> DEFINE fd == IF OtherWriters(r, j.file) = {} THEN "whole" ELSE "mixed"
      <4>2. fd \in Fd BY <3>2
      <4>3. [req[q] EXCEPT !.pc = "stream", !.fd = fd] \in Jobs
          BY <1>t, <4>1, <4>2, Disturbed
      <4>4. q \notin OtherWriters(r, j.file) /\ q \notin disturbed
          BY <3>3 DEF OtherWriters
      <4>5. req'[q] = [req[q] EXCEPT !.pc = "stream", !.fd = fd] BY <2>1, <3>3, <4>4
      <4> QED BY <4>3, <4>5
    <3>4. CASE q # r /\ q \in OtherWriters(r, j.file) /\ q \notin disturbed
      <4>1. req[q] \in InsertJobs \cup UpdateJobs
          BY <3>1, <3>4, JobShape DEF OtherWriters, Streaming, WritePc
      <4>2. [req[q] EXCEPT !.fd = "mixed"] \in Jobs BY <1>t, <3>2, <4>1, Disturbed
      <4>3. req'[q] = [req[q] EXCEPT !.fd = "mixed"] BY <2>1, <3>4
      <4> QED BY <4>2, <4>3
    <3>5. CASE q # r /\ q \notin OtherWriters(r, j.file) /\ q \in disturbed
      <4>1. req[q] \in InsertJobs \cup UpdateJobs
          BY <3>1, <3>5, JobShape DEF Readers, WritePc
      <4>2. [req[q] EXCEPT !.content = Torn] \in Jobs BY <1>t, <3>2, <4>1, Disturbed
      <4> QED BY <2>1, <3>5, <4>2
    <3>6. CASE q # r /\ q \notin OtherWriters(r, j.file) /\ q \notin disturbed
      BY <2>1, <3>1, <3>6
    <3> QED BY <2>1, <3>3, <3>4, <3>5, <3>6
  <2>3. req' \in [Requests -> Jobs] BY <2>1, <2>2
  <2>4. j.file \in Files BY <1>1, <1>w DEF WriteOpen, WritePc
  <2>5. blob' \in [Files -> Bytes \cup {Absent}] /\ rewritten' \subseteq Files
      BY <1>1, <1>t, <2>4 DEF TypeOK, WriteOpen
  <2> QED BY <1>1, <2>3, <2>5 DEF TypeOK, WriteOpen
<1>2. CASE WriteDone(r)
  <2>1. PICK c \in Received(r) :
          /\ \E b \in Landed(r, c) : blob' = [blob EXCEPT ![j.file] = b]
          /\ req' = [req EXCEPT ![r].pc = "commit", ![r].content = c, ![r].fd = "whole"]
      BY <1>2 DEF WriteDone
  <2>2. j \in InsertJobs \cup UpdateJobs
      BY <1>2, <1>j, JobShape DEF WriteDone, Streaming, WritePc
  <2>3. j.file \in Files /\ j.content \in Bytes /\ j.fd \in Fd
      BY <2>2 DEF InsertJobs, UpdateJobs
  <2>4. c \in Bytes BY <2>1, <2>3 DEF Received, Bytes
  <2>5. \A b \in Landed(r, c) : b \in Bytes \cup {Absent}
      BY <1>t, <2>3, <2>4 DEF Landed, Fd, TypeOK
  <2>6. "whole" \in Fd BY DEF Fd
  <2>7. [j EXCEPT !.pc = "commit", !.content = c, !.fd = "whole"] \in Jobs
      BY <2>2, <2>4, <2>6, Disturbed
  <2> QED BY <1>2, <2>1, <2>3, <2>5, <2>7 DEF TypeOK, WriteDone
<1>3. CASE WriteFail(r)
  <2>1. j.file \in Files /\ j.fd \in Fd BY <1>3, <1>w DEF WriteFail, Streaming, WritePc
  <2>2. \A b \in Landed(r, Torn) : b \in Bytes \cup {Absent}
      BY <1>t, <2>1 DEF Landed, Fd, TypeOK
  <2> QED BY <1>3, <2>1, <2>2, IdleJob DEF TypeOK, WriteFail
<1>4. CASE InsertRow(r)
  <2>1. j \in InsertJobs BY <1>4, <1>j, JobShape DEF InsertRow, Committing, WritePc, UpdateJobs
  <2>2. [status |-> "live", owner |-> j.owner, folder |-> j.folder,
         name |-> j.name, content |-> j.content] \in Rows
      BY <2>1 DEF InsertJobs, Rows
  <2> QED BY <1>4, <2>2, IdleJob DEF TypeOK, InsertRow
<1>5. CASE InsertFail(r)
  <2>1. j.file \in Files BY <1>5, <1>w DEF InsertFail, Committing, WritePc
  <2> QED BY <1>5, <2>1, IdleJob, UnlinkType DEF InsertFail
<1>6. CASE UpdateRow(r)
  <2>1. j.file \in Files /\ j.content \in Bytes
      BY <1>6, <1>w DEF UpdateRow, Committing, WritePc
  <2>2. HasRow(j.file) => [row[j.file] EXCEPT !.content = j.content] \in Rows
      BY <2>1, RowShape DEF HasRow, TypeOK, Rows
  <2> QED BY <1>6, <2>1, <2>2, IdleJob DEF TypeOK, UpdateRow
<1>7. CASE UpdateFail(r)
  BY <1>7, IdleJob DEF TypeOK, UpdateFail
<1>8. CASE SoftDeleteRow(r)
  <2>1. j.file \in Files /\ j.owner \in Users
      BY <1>8, <1>j, JobShape DEF SoftDeleteRow, TrashJobs
  <2>2. Live(j.file) => [row[j.file] EXCEPT !.status = "trash", !.owner = j.owner] \in Rows
      BY <2>1, RowShape DEF Live, TypeOK, Rows
  <2> QED BY <1>8, <2>1, <2>2, IdleJob DEF TypeOK, SoftDeleteRow
<1>9. CASE PurgeRow(r)
  <2>1. j \in PurgeJobs BY <1>9, <1>j, JobShape DEF PurgeRow
  <2>2. [j EXCEPT !.pc = "purgeBlob"] \in Jobs BY <2>1 DEF PurgeJobs, Jobs
  <2> QED BY <1>9, <2>2 DEF TypeOK, PurgeRow
<1>10. CASE PurgeBlob(r)
  <2>1. j.file \in Files BY <1>10, <1>j, JobShape DEF PurgeBlob, PurgeJobs
  <2> QED BY <1>10, <2>1, IdleJob, UnlinkType DEF PurgeBlob
<1>11. CASE EmptyRow(r)
  <2>1. PICK f \in j.todo :
          /\ row' = [row EXCEPT ![f] = NoRow]
          /\ req' = [req EXCEPT ![r] = [pc |-> "emptyBlob", file |-> f,
                                        todo |-> j.todo \ {f}]]
      BY <1>11 DEF EmptyRow
  <2>2. j.todo \in SUBSET Files BY <1>11, <1>j, JobShape DEF EmptyRow
  <2>3. [pc |-> "emptyBlob", file |-> f, todo |-> j.todo \ {f}] \in Jobs
      BY <2>2 DEF Jobs, EmptyJobs
  <2> QED BY <1>11, <2>1, <2>3 DEF TypeOK, EmptyRow
<1>12. CASE EmptySkip(r)
  <2>1. PICK f \in j.todo : req' = [req EXCEPT ![r] = EmptyJob(j.todo \ {f})]
      BY <1>12 DEF EmptySkip
  <2>2. j.todo \in SUBSET Files BY <1>12, <1>j, JobShape DEF EmptySkip
  <2>3. EmptyJob(j.todo \ {f}) \in Jobs BY <2>2 DEF EmptyJob, Jobs, EmptyJobs
  <2> QED BY <1>12, <2>1, <2>3 DEF TypeOK, EmptySkip
<1>13. CASE EmptyBlob(r)
  <2>1. j.file \in Files /\ j.todo \in SUBSET Files
      BY <1>13, <1>j, JobShape DEF EmptyBlob
  <2>2. EmptyJob(j.todo) \in Jobs BY <2>1 DEF EmptyJob, Jobs, EmptyJobs
  <2> QED BY <1>13, <2>1, <2>2, UnlinkType DEF EmptyBlob
<1>14. CASE GiveUp(r)
  BY <1>14, IdleJob DEF TypeOK, GiveUp
<1>15. CASE UnlinkFails(r)
  <2>1. j.pc = "emptyBlob" => EmptyJob(j.todo) \in Jobs
      BY <1>j, JobShape DEF EmptyJob, Jobs, EmptyJobs
  <2> QED BY <1>15, <2>1, IdleJob DEF TypeOK, UnlinkFails
<1> QED BY <1>1, <1>2, <1>3, <1>4, <1>5, <1>6, <1>7, <1>8, <1>9, <1>10, <1>11, <1>12,
           <1>13, <1>14, <1>15 DEF Proceed

\* One statement of a user.
LEMMA StatementType ==
    ASSUME TypeOK, NEW u \in Users, Statement(u)
    PROVE  TypeOK'
<1>1. ASSUME NEW f \in Files, Restore(u, f) PROVE TypeOK'
  <2>1. [row[f] EXCEPT !.status = "live"] \in Rows
      BY <1>1, RowShape DEF Restore, Trashed, TypeOK, Rows
  <2> QED BY <1>1, <2>1 DEF TypeOK, Restore
<1>2. ASSUME NEW f \in Files, NEW n \in Names, Rename(u, f, n) PROVE TypeOK'
  <2>1. [row[f] EXCEPT !.name = n] \in Rows
      BY <1>2, RowShape DEF Rename, Live, TypeOK, Rows
  <2> QED BY <1>2, <2>1 DEF TypeOK, Rename
<1>3. ASSUME NEW f \in Files, NEW d \in Folders, Move(u, f, d) PROVE TypeOK'
  <2>1. [row[f] EXCEPT !.folder = d] \in Rows
      BY <1>3, RowShape DEF Move, Live, TypeOK, Rows
  <2> QED BY <1>3, <2>1 DEF TypeOK, Move
<1> QED BY <1>1, <1>2, <1>3 DEF Statement

LEMMA CrashType == TypeOK /\ Crash => TypeOK'
BY IdleJob DEF TypeOK, Crash, Bytes

\* Rows, blobs and jobs keep their shape in every state of every behaviour.
THEOREM TypeCorrect == Spec => []TypeOK
<1>1. Init => TypeOK
    BY IdleJob DEF Init, TypeOK
<1>2. TypeOK /\ [Next]_vars => TypeOK'
  <2> SUFFICES ASSUME TypeOK, [Next]_vars PROVE TypeOK'
      OBVIOUS
  <2>1. CASE UNCHANGED vars BY <2>1 DEF TypeOK, vars
  <2>2. CASE Serve BY <2>2, BeginType, ProceedType, StatementType DEF Serve
  <2>3. CASE Crash BY <2>3, CrashType
  <2> QED BY <2>1, <2>2, <2>3 DEF Next
<1> QED BY <1>1, <1>2, PTL DEF Spec

-----------------------------------------------------------------------------
(* Rows and bytes: IndInv is inductive. *)

\* Bytes that are there are not Absent.
LEMMA BytesAreThere == \A b \in Bytes : b # Absent
BY ContentsAssumption DEF Bytes, Absent, Torn

\* A step that opens, fills and removes no blob and starts no write keeps IndInv, if
\* it makes no row, changes no content but of a rewritten file, and condemns only
\* files that have a row.
LEMMA QuietStep ==
    ASSUME IndInv, TypeOK', SelectedInv',
           UNCHANGED <<blob, issued, from, rewritten>>,
           \A q \in Requests : req'[q] = req[q] \/ req'[q].pc \notin WritePc,
           \A f \in purged : f \in purged',
           \A f \in purged' : f \in purged \/ HasRow(f),
           \A f \in Files : row'[f] # NoRow => /\ HasRow(f)
                                              /\ \/ row'[f].content = row[f].content
                                                 \/ f \in rewritten
    PROVE  IndInv'
<1>1. Intact' BY DEF IndInv, Intact, HasRow
<1>2. BytesKept' BY DEF IndInv, BytesKept, HasRow
<1>3. NewbornInv'
  <2> SUFFICES ASSUME NEW r \in Requests, Inserting(r)'
               PROVE  /\ req[r].file \in issued /\ row'[req[r].file] = NoRow
                      /\ req[r].file \notin purged' \cup rewritten
                      /\ req[r].pc \in {"open", "stream"} => req[r].fd = "whole"
                      /\ req[r].pc = "commit" => blob[req[r].file] = req[r].content
                      /\ req'[r] = req[r]
      BY DEF NewbornInv, HasRow
  <2>1. req'[r] = req[r] /\ Inserting(r) BY DEF Inserting
  <2>2. req[r].file \in issued /\ ~HasRow(req[r].file) /\ req[r].file \in Files
      BY <2>1 DEF IndInv, NewbornInv, TypeOK
  <2> QED BY <2>1, <2>2 DEF IndInv, NewbornInv, HasRow
<1>4. AloneInv' BY DEF IndInv, AloneInv, Inserting
<1>5. KnownInv'
  <2>1. \A r \in Requests : Updating(r)' => req'[r] = req[r] /\ Updating(r) BY DEF Updating
  <2>2. \A f \in purged' : f \in Files BY DEF TypeOK
  <2> QED BY <2>1, <2>2 DEF IndInv, KnownInv, HasRow
<1> QED BY <1>1, <1>2, <1>3, <1>4, <1>5 DEF IndInv

\* The last step of a handler that removes blob f.
LEMMA UnlinkStep ==
    ASSUME IndInv, TypeOK', NEW r \in Requests, NEW f \in Files, NEW then \in Jobs,
           Unlink(r, f, then), UNCHANGED <<row, issued, from, purged, rewritten>>,
           f \in purged \/ ~HasRow(f),
           \A q \in Requests \ {r} : Inserting(q) => req[q].file # f,
           then.pc \notin WritePc,
           then.pc \notin {"purgeRow", "purgeBlob", "emptyBlob"},
           then.pc = "emptyRow" => then.todo \subseteq purged
    PROVE  IndInv'
<1>1. blob' = [blob EXCEPT ![f] = Absent] BY DEF Unlink
<1>2. \A q \in Requests \ {r} :
         \/ req'[q] = req[q]
         \/ Streaming(q) /\ req[q].file = f /\ req'[q] = [req[q] EXCEPT !.fd = "lost"]
    BY DEF Unlink, CutWriters
<1>3. req'[r] = then BY DEF Unlink, CutWriters
<1>4. \A q \in Requests \ {r} : Streaming(q) => req[q] \in InsertJobs \cup UpdateJobs
    BY JobShape DEF IndInv, TypeOK, Streaming, WritePc
<1>5. \A q \in Requests \ {r} :
         /\ req'[q].pc = req[q].pc
         /\ req[q].pc \in WritePc => req'[q].op = req[q].op /\ req'[q].file = req[q].file
    BY <1>2, <1>4 DEF InsertJobs, UpdateJobs
<1>6. \A q \in Requests \ {r} : Inserting(q) => req'[q] = req[q]
    BY <1>2
<1>7. \A q \in Requests : Inserting(q)' => q # r /\ Inserting(q) /\ req'[q] = req[q]
    BY <1>3, <1>5, <1>6 DEF Inserting
<1>8. Intact' BY <1>1 DEF IndInv, Intact, HasRow, TypeOK
<1>9. BytesKept' BY <1>1 DEF IndInv, BytesKept, HasRow, TypeOK
<1>10. NewbornInv' BY <1>1, <1>7 DEF IndInv, NewbornInv, HasRow, TypeOK
<1>11. AloneInv'
  <2>1. \A q \in Requests : req'[q].pc \in WritePc =>
           req[q].pc \in WritePc /\ req'[q].file = req[q].file
      BY <1>3, <1>5
  <2> QED BY <1>7, <2>1 DEF IndInv, AloneInv
<1>12. KnownInv'
  <2>1. \A q \in Requests : Updating(q)' =>
           Updating(q) /\ req'[q].file = req[q].file /\ req'[q].pc = req[q].pc
      BY <1>3, <1>5 DEF Updating
  <2> QED BY <2>1 DEF IndInv, KnownInv, HasRow
<1>13. SelectedInv'
  <2>1. \A q \in Requests \ {r} : req[q].pc \notin WritePc => req'[q] = req[q]
      BY <1>2 DEF Streaming, WritePc
  <2>2. \A q \in Requests \ {r} : req[q].pc \in WritePc => req'[q].pc \in WritePc
      BY <1>5
  <2> QED BY <1>3, <2>1, <2>2 DEF IndInv, SelectedInv, WritePc
<1> QED BY <1>8, <1>9, <1>10, <1>11, <1>12, <1>13 DEF IndInv

\* Handlers that begin.
LEMMA StartInsert ==
    ASSUME IndInv, TypeOK', NEW r \in Requests, NEW f \in Files \ issued, NEW j,
           Start(r, j), issued' = issued \cup {f},
           j.pc = "open", j.op = "insert", j.file = f, j.fd = "whole"
    PROVE  IndInv'
<1>1. req' = [req EXCEPT ![r] = j] /\ req[r] = Idle
      /\ UNCHANGED <<row, blob, purged, rewritten>>
    BY DEF Start
<1>2. \A q \in Requests \ {r} : req'[q] = req[q] BY <1>1
<1>3. req'[r] = j BY <1>1 DEF IndInv, TypeOK
<1>4. ~HasRow(f) /\ f \notin purged \cup rewritten
    BY DEF IndInv, KnownInv
<1>5. \A q \in Requests : req[q].pc \in WritePc => req[q].file \in issued
    BY JobShape DEF IndInv, TypeOK, NewbornInv, KnownInv, Inserting, Updating
<1>6. NewbornInv'
    BY <1>1, <1>2, <1>3, <1>4 DEF IndInv, NewbornInv, Inserting, HasRow
<1>7. AloneInv'
    BY <1>2, <1>3, <1>5 DEF IndInv, AloneInv, Inserting
<1>8. KnownInv'
    BY <1>1, <1>2, <1>3 DEF IndInv, KnownInv, Updating, HasRow
<1>9. SelectedInv' BY <1>1, <1>2, <1>3 DEF IndInv, SelectedInv
<1>10. Intact' /\ BytesKept' BY <1>1 DEF IndInv, Intact, BytesKept, HasRow
<1> QED BY <1>6, <1>7, <1>8, <1>9, <1>10 DEF IndInv

LEMMA StartUpdate ==
    ASSUME IndInv, TypeOK', NEW r \in Requests, NEW f \in Files, NEW j,
           Start(r, j), UNCHANGED <<issued, from>>, HasRow(f),
           j.pc = "open", j.op = "update", j.file = f
    PROVE  IndInv'
<1>1. req' = [req EXCEPT ![r] = j] /\ req[r] = Idle
      /\ UNCHANGED <<row, blob, purged, rewritten>>
    BY DEF Start
<1>2. \A q \in Requests \ {r} : req'[q] = req[q] BY <1>1
<1>3. req'[r] = j BY <1>1 DEF IndInv, TypeOK
<1>4. NewbornInv'
    BY <1>1, <1>2, <1>3 DEF IndInv, NewbornInv, Inserting, HasRow
<1>5. \A q \in Requests : Inserting(q) => req[q].file # f
    BY DEF IndInv, NewbornInv
<1>6. AloneInv'
    BY <1>2, <1>3, <1>5 DEF IndInv, AloneInv, Inserting
<1>7. KnownInv'
    BY <1>1, <1>2, <1>3 DEF IndInv, KnownInv, Updating, HasRow
<1>8. SelectedInv' BY <1>1, <1>2, <1>3 DEF IndInv, SelectedInv
<1>9. Intact' /\ BytesKept' BY <1>1 DEF IndInv, Intact, BytesKept, HasRow
<1> QED BY <1>4, <1>6, <1>7, <1>8, <1>9 DEF IndInv

LEMMA LiveHasRow == \A f : Live(f) \/ Trashed(f) => HasRow(f)
BY DEF Live, Trashed, HasRow, NoRow

LEMMA BeginInv ==
    ASSUME IndInv, NEW r \in Requests, NEW u \in Users, Begin(r, u)
    PROVE  IndInv'
<1>t. TypeOK' BY BeginType DEF IndInv
<1>1. ASSUME NEW d \in Folders, NEW n \in Names, CreateText(r, u, d, n) PROVE IndInv'
    BY <1>1, <1>t, StartInsert DEF CreateText, InsertJob
<1>2. ASSUME NEW d \in Folders, NEW n \in Names, NEW c \in Contents,
             UploadCreate(r, u, d, n, c)
      PROVE  IndInv'
    BY <1>2, <1>t, StartInsert DEF UploadCreate, InsertJob
<1>3. ASSUME NEW d \in Folders, NEW n \in Names, NEW c \in Contents,
             UploadOverwrite(r, u, d, n, c)
      PROVE  IndInv'
    BY <1>3, <1>t, StartUpdate, LiveHasRow DEF UploadOverwrite, UpdateJob, Conflicts
<1>4. ASSUME NEW d \in Folders, NEW n \in Names, NEW src \in Files, Copy(r, u, src, d, n)
      PROVE  IndInv'
    BY <1>4, <1>t, StartInsert DEF Copy, InsertJob
<1>5. ASSUME NEW f \in Files, NEW c \in Contents, SaveContent(r, u, f, c) PROVE IndInv'
    BY <1>5, <1>t, StartUpdate, LiveHasRow DEF SaveContent, UpdateJob
<1>6. ASSUME NEW f \in Files, SoftDeleteRead(r, u, f) PROVE IndInv'
  <2> DEFINE j == [pc |-> "trash", user |-> u, file |-> f, owner |-> TrashOwner(f)]
  <2>1. req' = [req EXCEPT ![r] = j] /\ UNCHANGED <<row, blob, issued, from, purged, rewritten>>
      BY <1>6 DEF SoftDeleteRead, Start
  <2>2. \A q \in Requests : req'[q] = req[q] \/ (q = r /\ req'[q] = j)
      BY <2>1 DEF IndInv, TypeOK
  <2>3. SelectedInv' BY <2>1, <2>2 DEF IndInv, SelectedInv
  <2> QED BY <1>t, <2>1, <2>2, <2>3, QuietStep DEF WritePc, HasRow
<1>7. ASSUME NEW f \in Files, PurgeSelect(r, u, f) PROVE IndInv'
  <2> DEFINE j == [pc |-> "purgeRow", user |-> u, file |-> f]
  <2>1. req' = [req EXCEPT ![r] = j] /\ UNCHANGED <<row, blob, issued, from, rewritten>>
        /\ purged' = purged \cup {f} /\ HasRow(f)
      BY <1>7, LiveHasRow DEF PurgeSelect
  <2>2. \A q \in Requests : req'[q] = req[q] \/ (q = r /\ req'[q] = j)
      BY <2>1 DEF IndInv, TypeOK
  <2>3. SelectedInv' BY <2>1, <2>2 DEF IndInv, SelectedInv
  <2> QED BY <1>t, <2>1, <2>2, <2>3, QuietStep DEF WritePc, HasRow
<1>8. CASE EmptySelect(r, u)
  <2> DEFINE trash == {f \in Files : Trashed(f) /\ row[f].owner = u}
  <2>1. /\ req' = [req EXCEPT ![r] = EmptyJob(trash)]
        /\ trash # {} /\ purged' = purged \cup trash
        /\ UNCHANGED <<row, blob, issued, from, rewritten>>
      BY <1>8 DEF EmptySelect
  <2>2. EmptyJob(trash) = [pc |-> "emptyRow", todo |-> trash] BY <2>1 DEF EmptyJob
  <2>3. \A f \in trash : HasRow(f) BY LiveHasRow
  <2> HIDE DEF trash
  <2>4. \A q \in Requests : \/ req'[q] = req[q]
                            \/ q = r /\ req'[q] = [pc |-> "emptyRow", todo |-> trash]
      BY <2>1, <2>2 DEF IndInv, TypeOK
  <2>5. SelectedInv' BY <2>1, <2>4 DEF IndInv, SelectedInv
  <2> QED BY <1>t, <2>1, <2>3, <2>4, <2>5, QuietStep DEF WritePc, HasRow
<1> QED BY <1>1, <1>2, <1>3, <1>4, <1>5, <1>6, <1>7, <1>8 DEF Begin

\* One statement of a user changes no content and no blob.
LEMMA StatementRows ==
    ASSUME TypeOK, NEW u \in Users, Statement(u)
    PROVE  /\ UNCHANGED <<blob, req, issued, from, purged, rewritten>>
           /\ \A g \in Files : row'[g] # NoRow => HasRow(g) /\ row'[g].content = row[g].content
<1>1. PICK f \in Files :
         \/ Restore(u, f)
         \/ \E n \in Names : Rename(u, f, n)
         \/ \E d \in Folders : Move(u, f, d)
    BY DEF Statement
<1>2. UNCHANGED <<blob, req, issued, from, purged, rewritten>> /\ HasRow(f)
    BY <1>1, LiveHasRow DEF Restore, Rename, Move
<1>3. row[f] \in Rows BY <1>2, RowShape DEF TypeOK, HasRow
<1>4. \A g \in Files : g # f => row'[g] = row[g]
    BY <1>1 DEF Restore, Rename, Move, TypeOK
<1>5. row'[f].content = row[f].content
    BY <1>1, <1>3 DEF Restore, Rename, Move, Rows, TypeOK
<1> QED BY <1>2, <1>4, <1>5 DEF HasRow

LEMMA StatementInv ==
    ASSUME IndInv, NEW u \in Users, Statement(u)
    PROVE  IndInv'
<1>1. TypeOK' BY StatementType DEF IndInv
<1>2. UNCHANGED <<blob, req, issued, from, purged, rewritten>>
      /\ \A g \in Files : row'[g] # NoRow => HasRow(g) /\ row'[g].content = row[g].content
    BY StatementRows DEF IndInv
<1>3. SelectedInv' BY <1>2 DEF IndInv, SelectedInv
<1> QED BY <1>1, <1>2, <1>3, QuietStep

\* Opening a blob: the writer of a new file is alone with it; an update is marked.
LEMMA WriteOpenInv ==
    ASSUME IndInv, TypeOK', NEW r \in Requests, WriteOpen(r)
    PROVE  IndInv'
<1> DEFINE f == req[r].file
<1>1. /\ req[r].pc = "open"
      /\ blob' = [blob EXCEPT ![f] = Torn]
      /\ rewritten' = IF req[r].op = "update" THEN rewritten \cup {f} ELSE rewritten
      /\ UNCHANGED <<row, issued, from, purged>>
    BY DEF WriteOpen
<1>2. PICK disturbed \in SUBSET (Readers(f) \ (OtherWriters(r, f) \cup {r})) :
        req' = [q \in Requests |->
                  CASE q = r -> [req[q] EXCEPT !.pc = "stream",
                          !.fd = IF OtherWriters(r, f) = {} THEN "whole" ELSE "mixed"]
                    [] q \in OtherWriters(r, f) -> [req[q] EXCEPT !.fd = "mixed"]
                    [] q \in disturbed -> [req[q] EXCEPT !.content = Torn]
                    [] OTHER -> req[q]]
    BY DEF WriteOpen
<1>3. req[r] \in InsertJobs \cup UpdateJobs /\ f \in Files
    BY <1>1, JobShape DEF IndInv, TypeOK, WritePc, InsertJobs, UpdateJobs
<1>4. r \notin OtherWriters(r, f) BY DEF OtherWriters
<1>5. req'[r] = [req[r] EXCEPT !.pc = "stream",
                     !.fd = IF OtherWriters(r, f) = {} THEN "whole" ELSE "mixed"]
    BY <1>2, <1>4
<1>6. /\ req'[r].pc = "stream" /\ req'[r].op = req[r].op /\ req'[r].file = f
      /\ OtherWriters(r, f) = {} => req'[r].fd = "whole"
    BY <1>3, <1>5 DEF InsertJobs, UpdateJobs
<1>7. ASSUME NEW q \in Requests, q # r
      PROVE  \/ req'[q] = req[q]
             \/ q \in OtherWriters(r, f) /\ req'[q] = [req[q] EXCEPT !.fd = "mixed"]
             \/ q \in Readers(f) /\ req'[q] = [req[q] EXCEPT !.content = Torn]
  <2>1. CASE q \in OtherWriters(r, f) /\ q \notin disturbed BY <1>2, <1>7, <2>1
  <2>2. CASE q \notin OtherWriters(r, f) /\ q \in disturbed BY <1>2, <1>7, <2>2
  <2>3. CASE q \notin OtherWriters(r, f) /\ q \notin disturbed BY <1>2, <1>7, <2>3
  <2> QED BY <2>1, <2>2, <2>3
<1>8. \A q \in OtherWriters(r, f) \cup Readers(f) :
          req[q] \in InsertJobs \cup UpdateJobs
    BY JobShape DEF IndInv, TypeOK, OtherWriters, Readers, Streaming, WritePc
<1>9. \A q \in Requests : q # r =>
         /\ req'[q].pc = req[q].pc
         /\ req[q].pc \in WritePc => req'[q].op = req[q].op /\ req'[q].file = req[q].file
         /\ req[q].pc \notin WritePc => req'[q] = req[q]
    BY <1>7, <1>8, JobShape DEF IndInv, TypeOK, InsertJobs, UpdateJobs
\* Whoever inserts another file than f keeps its descriptor, and its content once
\* it has been received.
<1>10. \A q \in Requests : q # r /\ Inserting(q) =>
         /\ req[q].file # f
         /\ req'[q].fd = req[q].fd
         /\ req[q].pc = "commit" => req'[q] = req[q]
  <2>1. \A q \in Requests : q # r /\ Inserting(q) => req[q].file # f
      BY <1>1 DEF IndInv, AloneInv, WritePc
  <2>2. \A q \in Requests : q # r /\ Inserting(q) => q \notin OtherWriters(r, f)
      BY <2>1 DEF OtherWriters
  <2>3. ASSUME NEW q \in Requests, q # r, q \in Readers(f),
               req'[q] = [req[q] EXCEPT !.content = Torn]
        PROVE  req'[q].fd = req[q].fd /\ req[q].pc # "commit"
    <3>1. req[q].pc # "commit" BY <2>3 DEF Readers
    <3>2. req[q] \in InsertJobs \cup UpdateJobs BY <1>8, <2>3
    <3> QED BY <2>3, <3>1, <3>2 DEF InsertJobs, UpdateJobs
  <2> QED BY <1>7, <2>1, <2>2, <2>3
<1>11. Inserting(r) => OtherWriters(r, f) = {}
    BY DEF IndInv, AloneInv, OtherWriters, Streaming, WritePc
<1>12. \A q \in Requests : Inserting(q)' => Inserting(q)
    BY <1>1, <1>6, <1>9 DEF Inserting, WritePc
<1>13. Inserting(r) \/ Updating(r)
    BY <1>3, <1>1 DEF Inserting, Updating, InsertJobs, UpdateJobs, WritePc
<1>14. NewbornInv'
  <2> SUFFICES ASSUME NEW q \in Requests, Inserting(q)'
               PROVE  LET g == req'[q].file
                      IN  /\ g \in issued /\ row[g] = NoRow /\ g \notin purged \cup rewritten'
                          /\ req'[q].pc \in {"open", "stream"} => req'[q].fd = "whole"
                          /\ req'[q].pc = "commit" => blob'[g] = req'[q].content
      BY <1>1 DEF NewbornInv, HasRow
  <2>1. Inserting(q) BY <1>12
  <2>2. req'[q].file = req[q].file BY <1>6, <1>9, <2>1 DEF Inserting
  <2>3. req[q].file \in issued /\ row[req[q].file] = NoRow
        /\ req[q].file \notin purged \cup rewritten
      BY <2>1 DEF IndInv, NewbornInv, HasRow
  <2>4. CASE q = r
      BY <1>1, <1>6, <1>11, <2>1, <2>2, <2>3, <2>4 DEF Inserting
  <2>5. CASE q # r
    <3>1. req[q].file # f BY <1>10, <2>1, <2>5
    <3>2. req[q].file \notin rewritten' BY <1>1, <2>3, <3>1
    <3>3. req'[q].pc = req[q].pc /\ req'[q].fd = req[q].fd
        BY <1>9, <1>10, <2>1, <2>5
    <3>4. req[q].pc \in {"open", "stream"} => req[q].fd = "whole"
        BY <2>1 DEF IndInv, NewbornInv
    <3>5. req[q].pc = "commit" => blob'[req[q].file] = req'[q].content
        BY <1>1, <1>3, <1>10, <2>1, <2>5, <3>1 DEF IndInv, NewbornInv, TypeOK
    <3> QED BY <2>2, <2>3, <3>2, <3>3, <3>4, <3>5
  <2> QED BY <2>4, <2>5
<1>15. AloneInv'
  <2>1. \A q \in Requests : req'[q].pc \in WritePc =>
           req[q].pc \in WritePc /\ req'[q].file = req[q].file
      BY <1>1, <1>6, <1>9 DEF WritePc
  <2>2. \A q \in Requests : Inserting(q)' => req'[q].file = req[q].file
      BY <2>1 DEF Inserting
  <2> QED BY <1>12, <2>1, <2>2 DEF IndInv, AloneInv
<1>16. KnownInv'
  <2>1. f \in issued
      BY <1>13 DEF IndInv, NewbornInv, KnownInv
  <2>2. \A q \in Requests : Updating(q)' =>
           Updating(q) /\ req'[q].file = req[q].file
           /\ (q # r => req'[q].pc = req[q].pc)
      BY <1>1, <1>6, <1>9 DEF Updating, WritePc
  <2>3. Updating(r) => f \in rewritten' BY <1>1 DEF Updating
  <2>4. \A g \in Files : HasRow(g)' \/ g \in purged' \cup rewritten' => g \in issued'
      BY <1>1, <2>1 DEF IndInv, KnownInv, HasRow
  <2>5. ASSUME NEW q \in Requests, Updating(q)'
        PROVE  /\ req'[q].file \in issued
               /\ req'[q].pc \in {"stream", "commit"} => req'[q].file \in rewritten'
    <3>1. Updating(q) /\ req'[q].file = req[q].file BY <2>2, <2>5
    <3>2. req[q].file \in issued BY <3>1 DEF IndInv, KnownInv
    <3>3. CASE q = r BY <2>1, <2>3, <3>1, <3>3
    <3>4. CASE q # r
        BY <1>1, <2>2, <2>5, <3>1, <3>2, <3>4 DEF IndInv, KnownInv
    <3> QED BY <3>3, <3>4
  <2> QED BY <1>1, <2>4, <2>5 DEF KnownInv
<1>17. SelectedInv'
    BY <1>1, <1>6, <1>9 DEF IndInv, SelectedInv, WritePc
<1>18. Intact'
  <2>1. Inserting(r) => row[f] = NoRow BY DEF IndInv, NewbornInv, HasRow
  <2>2. Updating(r) => f \in rewritten' BY <1>1 DEF Updating
  <2> QED BY <1>1, <1>3, <1>13, <2>1, <2>2 DEF IndInv, Intact, HasRow, TypeOK
<1>19. BytesKept'
    BY <1>1, <1>3, BytesAreThere DEF IndInv, BytesKept, HasRow, TypeOK, Bytes
<1> QED BY <1>14, <1>15, <1>16, <1>17, <1>18, <1>19 DEF IndInv

\* The stream ends.
LEMMA WriteEndInv ==
    ASSUME IndInv, TypeOK', NEW r \in Requests, NEW c \in Bytes,
           NEW b \in Landed(r, c),
           Streaming(r),
           blob' = [blob EXCEPT ![req[r].file] = b],
           \/ req' = [req EXCEPT ![r] = Idle]
           \/ req' = [req EXCEPT ![r].pc = "commit", ![r].content = c, ![r].fd = "whole"],
           UNCHANGED <<row, issued, from, purged, rewritten>>
    PROVE  IndInv'
<1> DEFINE f == req[r].file
<1>1. req[r].pc = "stream" BY DEF Streaming
<1>2. req[r] \in InsertJobs \cup UpdateJobs
    BY <1>1, JobShape DEF IndInv, TypeOK, WritePc
<1>3. f \in Files /\ req[r].fd \in Fd BY <1>2 DEF InsertJobs, UpdateJobs
<1>4. Inserting(r) \/ Updating(r)
    BY <1>1, <1>2 DEF Inserting, Updating, InsertJobs, UpdateJobs, WritePc
<1>5. \A q \in Requests : q # r => req'[q] = req[q] BY DEF IndInv, TypeOK
<1>6. \/ req'[r] = Idle
      \/ req'[r] = [req[r] EXCEPT !.pc = "commit", !.content = c, !.fd = "whole"]
    BY DEF IndInv, TypeOK
<1>7. \/ req'[r].pc = "idle"
      \/ /\ req'[r].pc = "commit" /\ req'[r].content = c
         /\ req'[r].op = req[r].op /\ req'[r].file = f
  <2>1. CASE req'[r] = Idle BY <2>1 DEF Idle
  <2>2. CASE req'[r] = [req[r] EXCEPT !.pc = "commit", !.content = c, !.fd = "whole"]
    <3>1. CASE req[r] \in InsertJobs BY <2>2, <3>1 DEF InsertJobs
    <3>2. CASE req[r] \in UpdateJobs BY <2>2, <3>2 DEF UpdateJobs
    <3> QED BY <1>2, <3>1, <3>2
  <2> QED BY <1>6, <2>1, <2>2
<1>8. Inserting(r) => b = c
    BY <1>1, <1>3 DEF IndInv, NewbornInv, Landed
<1>9. b \in {blob[f], c, Torn} BY <1>3 DEF Landed, Fd
<1>10. \A q \in Requests : q # r /\ Inserting(q) => req[q].file # f
    BY <1>1 DEF IndInv, AloneInv, WritePc
<1>11. NewbornInv'
  <2> SUFFICES ASSUME NEW q \in Requests, Inserting(q)'
               PROVE  LET g == req'[q].file
                      IN  /\ g \in issued /\ row[g] = NoRow /\ g \notin purged \cup rewritten
                          /\ req'[q].pc \in {"open", "stream"} => req'[q].fd = "whole"
                          /\ req'[q].pc = "commit" => blob'[g] = req'[q].content
      BY DEF NewbornInv, HasRow
  <2>1. CASE q = r
    <3>1. req'[r].pc = "commit" /\ req'[r].content = c /\ req'[r].op = req[r].op
          /\ req'[r].file = f
        BY <1>7, <2>1 DEF Inserting, WritePc
    <3>2. Inserting(r) BY <1>1, <2>1, <3>1 DEF Inserting, WritePc
    <3> QED BY <1>3, <1>8, <2>1, <3>1, <3>2 DEF IndInv, NewbornInv, HasRow, TypeOK
  <2>2. CASE q # r
    <3>1. Inserting(q) /\ req'[q] = req[q] BY <1>5, <2>2 DEF Inserting
    <3>2. req[q].file # f BY <1>10, <2>2, <3>1
    <3>3. blob'[req[q].file] = blob[req[q].file]
      <4>1. req[q].file \in Files
          BY <3>1, JobShape DEF IndInv, TypeOK, Inserting, InsertJobs, UpdateJobs
      <4> QED BY <3>2, <4>1 DEF IndInv, TypeOK
    <3> QED BY <3>1, <3>3 DEF IndInv, NewbornInv, HasRow
  <2> QED BY <2>1, <2>2
<1>12. \A q \in Requests : req'[q].pc \in WritePc =>
          /\ req[q].pc \in WritePc
          /\ req'[q].file = req[q].file /\ req'[q].op = req[q].op
          /\ q # r => req'[q].pc = req[q].pc
    BY <1>1, <1>5, <1>7 DEF WritePc
<1>13. AloneInv' BY <1>12 DEF IndInv, AloneInv, Inserting
<1>14. KnownInv'
  <2>1. ASSUME NEW q \in Requests, Updating(q)'
        PROVE  /\ req'[q].file \in issued
               /\ req'[q].pc \in {"stream", "commit"} => req'[q].file \in rewritten
    <3>1. Updating(q) /\ req'[q].file = req[q].file BY <1>12, <2>1 DEF Updating
    <3>2. q = r => req[q].pc = "stream" BY <1>1
    <3> QED BY <1>12, <2>1, <3>1, <3>2 DEF IndInv, KnownInv, Updating
  <2> QED BY <2>1 DEF IndInv, KnownInv, HasRow
<1>15. SelectedInv' BY <1>5, <1>7 DEF IndInv, SelectedInv
<1>16. Intact'
  <2>1. Inserting(r) => row[f] = NoRow BY DEF IndInv, NewbornInv, HasRow
  <2>2. Updating(r) => f \in rewritten BY <1>1 DEF IndInv, KnownInv
  <2> QED BY <1>3, <1>4, <2>1, <2>2 DEF IndInv, Intact, HasRow, TypeOK
<1>17. BytesKept'
  <2>1. c # Absent /\ Torn # Absent BY BytesAreThere DEF Bytes
  <2> QED BY <1>3, <1>9, <2>1 DEF IndInv, BytesKept, HasRow, TypeOK
<1> QED BY <1>11, <1>13, <1>14, <1>15, <1>16, <1>17 DEF IndInv

\* The row of a new file appears, over bytes that are whole.
LEMMA InsertRowInv ==
    ASSUME IndInv, TypeOK', NEW r \in Requests, InsertRow(r)
    PROVE  IndInv'
<1> DEFINE f == req[r].file
<1>1. /\ req[r].pc = "commit" /\ req[r].op = "insert" /\ req' = [req EXCEPT ![r] = Idle]
      /\ row' = [row EXCEPT ![f] =
                   [status |-> "live", owner |-> req[r].owner, folder |-> req[r].folder,
                    name |-> req[r].name, content |-> req[r].content]]
      /\ UNCHANGED <<blob, issued, from, purged, rewritten>>
    BY DEF InsertRow, Committing
<1>2. Inserting(r) BY <1>1 DEF Inserting, WritePc
<1>3. f \in issued /\ f \in Files /\ f \notin purged \cup rewritten
      /\ blob[f] = req[r].content
    BY <1>1, <1>2 DEF IndInv, NewbornInv, TypeOK
<1>4. req[r].content \in Bytes
    BY <1>2, JobShape DEF IndInv, TypeOK, Inserting, InsertJobs, UpdateJobs
<1>5. row'[f].content = req[r].content /\ (\A g \in Files : g # f => row'[g] = row[g])
    BY <1>1, <1>3 DEF IndInv, TypeOK
<1>6. \A q \in Requests : q # r => req'[q] = req[q] BY <1>1 DEF IndInv, TypeOK
<1>7. req'[r].pc = "idle" BY <1>1 DEF IndInv, TypeOK, Idle
<1>8. \A q \in Requests : req'[q].pc \in WritePc => q # r /\ req'[q] = req[q]
    BY <1>6, <1>7 DEF WritePc
<1>9. \A q \in Requests : Inserting(q)' => req'[q] = req[q] /\ Inserting(q) /\ req[q].file # f
    BY <1>1, <1>2, <1>8 DEF IndInv, AloneInv, Inserting
<1>10. NewbornInv' BY <1>1, <1>5, <1>9 DEF IndInv, NewbornInv, HasRow, TypeOK
<1>11. AloneInv' BY <1>8 DEF IndInv, AloneInv, Inserting
<1>12. KnownInv' BY <1>1, <1>3, <1>5, <1>8 DEF IndInv, KnownInv, Updating, HasRow
<1>13. SelectedInv' BY <1>1, <1>6, <1>7 DEF IndInv, SelectedInv
<1>14. Intact' BY <1>1, <1>3, <1>5 DEF IndInv, Intact, HasRow
<1>15. BytesKept' BY <1>1, <1>3, <1>4, <1>5, BytesAreThere DEF IndInv, BytesKept, HasRow
<1> QED BY <1>10, <1>11, <1>12, <1>13, <1>14, <1>15 DEF IndInv

\* The process dies: only blobs with several writers may change.
LEMMA CrashInv ==
    ASSUME IndInv, TypeOK', Crash
    PROVE  IndInv'
<1>1. /\ req' = [r \in Requests |-> Idle]
      /\ UNCHANGED <<row, issued, from, purged, rewritten>>
    BY DEF Crash
<1>2. \A q \in Requests : req'[q].pc = "idle" BY <1>1 DEF Idle
<1>3. ASSUME NEW q \in Requests, Streaming(q), req[q].fd = "mixed"
      PROVE  req[q].file \in rewritten
  <2>1. ~Inserting(q) BY <1>3 DEF IndInv, NewbornInv, Streaming
  <2>2. req[q] \in InsertJobs \cup UpdateJobs
      BY <1>3, JobShape DEF IndInv, TypeOK, Streaming, WritePc
  <2>3. Updating(q)
      BY <2>1, <2>2 DEF Inserting, Updating, InsertJobs, UpdateJobs
  <2> QED BY <1>3, <2>3 DEF IndInv, KnownInv, Streaming
<1>4. \A f \in Files : blob'[f] = blob[f] \/ (blob'[f] = Torn /\ f \in rewritten)
    BY <1>3 DEF Crash
<1>5. Intact' BY <1>1, <1>4 DEF IndInv, Intact, HasRow
<1>6. BytesKept' BY <1>1, <1>4, BytesAreThere DEF IndInv, BytesKept, HasRow, Bytes
<1>7. NewbornInv' /\ AloneInv' /\ SelectedInv'
    BY <1>2 DEF NewbornInv, AloneInv, SelectedInv, Inserting, WritePc
<1>8. KnownInv' BY <1>1, <1>2 DEF IndInv, KnownInv, HasRow, Updating, WritePc
<1> QED BY <1>5, <1>6, <1>7, <1>8 DEF IndInv

\* A running handler takes a step.
LEMMA ProceedInv ==
    ASSUME IndInv, NEW r \in Requests, Proceed(r)
    PROVE  IndInv'
<1> DEFINE j == req[r]
<1>t. TypeOK' BY ProceedType DEF IndInv
<1>j. j \in Jobs BY DEF IndInv, TypeOK
\* The form QuietStep asks for when r ends and nothing is purged.
<1>q. ASSUME UNCHANGED <<blob, issued, from, purged, rewritten>>,
             NEW k \in Jobs, req' = [req EXCEPT ![r] = k], k.pc \notin WritePc,
             k.pc \in {"purgeRow", "purgeBlob", "emptyBlob"} => k.file \in purged,
             k.pc \in {"emptyRow", "emptyBlob"} => k.todo \subseteq purged,
             \A f \in Files : row'[f] # NoRow => /\ HasRow(f)
                                                /\ \/ row'[f].content = row[f].content
                                                   \/ f \in rewritten
      PROVE  IndInv'
  <2>1. \A q \in Requests : req'[q] = req[q] \/ (q = r /\ req'[q] = k)
      BY <1>q DEF IndInv, TypeOK
  <2>2. SelectedInv' BY <1>q, <2>1 DEF IndInv, SelectedInv
  <2> QED BY <1>t, <1>q, <2>1, <2>2, QuietStep
<1>i. Idle \in Jobs /\ Idle.pc = "idle" BY IdleJob DEF Idle
<1>1. CASE WriteOpen(r) BY <1>1, <1>t, WriteOpenInv
<1>2. CASE WriteDone(r)
  <2>0. PICK c \in Received(r) :
          /\ \E b \in Landed(r, c) : blob' = [blob EXCEPT ![j.file] = b]
          /\ req' = [req EXCEPT ![r].pc = "commit", ![r].content = c, ![r].fd = "whole"]
      BY <1>2 DEF WriteDone
  <2>1. PICK b \in Landed(r, c) : blob' = [blob EXCEPT ![j.file] = b]
      BY <2>0
  <2>2. j \in InsertJobs \cup UpdateJobs
      BY <1>2, <1>j, JobShape DEF WriteDone, Streaming, WritePc
  <2>3. c \in Bytes BY <2>2 DEF Received, Bytes, InsertJobs, UpdateJobs
  <2> QED BY <1>2, <1>t, <2>0, <2>1, <2>3, WriteEndInv DEF WriteDone
<1>3. CASE WriteFail(r)
  <2>1. PICK b \in Landed(r, Torn) : blob' = [blob EXCEPT ![j.file] = b]
      BY <1>3 DEF WriteFail
  <2>2. Torn \in Bytes BY DEF Bytes
  <2> QED BY <1>3, <1>t, <2>1, <2>2, WriteEndInv DEF WriteFail
<1>4. CASE InsertRow(r) BY <1>4, <1>t, InsertRowInv
<1>5. CASE InsertFail(r)
  <2>1. Inserting(r) /\ j.pc = "commit"
      BY <1>5 DEF InsertFail, Committing, Inserting, WritePc
  <2>2. j.file \in issued /\ j.file \in Files /\ ~HasRow(j.file)
      BY <2>1 DEF IndInv, NewbornInv, TypeOK
  <2>3. \A q \in Requests \ {r} : Inserting(q) => req[q].file # j.file
      BY <2>1 DEF IndInv, AloneInv, WritePc
  <2> QED BY <1>5, <1>t, <1>i, <2>2, <2>3, UnlinkStep DEF InsertFail, WritePc
<1>6. CASE UpdateRow(r)
  <2>1. Updating(r) /\ j.pc = "commit" /\ j \in UpdateJobs
      BY <1>6, <1>j, JobShape DEF UpdateRow, Committing, Updating, WritePc, InsertJobs
  <2>2. j.file \in rewritten /\ j.file \in Files
      BY <2>1 DEF IndInv, KnownInv, UpdateJobs
  <2>3. \A f \in Files : row'[f] # NoRow => HasRow(f) /\ (row'[f] = row[f] \/ f \in rewritten)
      BY <1>6, <2>2 DEF UpdateRow, HasRow, IndInv, TypeOK
  <2> QED BY <1>6, <1>q, <1>i, <2>3 DEF UpdateRow, WritePc
<1>7. CASE UpdateFail(r)
  BY <1>7, <1>q, <1>i DEF UpdateFail, WritePc, HasRow
<1>8. CASE SoftDeleteRow(r)
  <2>1. j.file \in Files BY <1>8, <1>j, JobShape DEF SoftDeleteRow, TrashJobs
  <2>2. \A f \in Files : row'[f] # NoRow => HasRow(f) /\ row'[f].content = row[f].content
    <3>1. CASE Live(j.file) /\ MayDelete(j.user, j.file)
      <4>1. row[j.file] \in Rows
          BY <2>1, <3>1, RowShape DEF Live, IndInv, TypeOK
      <4>2. row' = [row EXCEPT ![j.file].status = "trash", ![j.file].owner = j.owner]
          BY <1>8, <3>1 DEF SoftDeleteRow
      <4> QED BY <2>1, <3>1, <4>1, <4>2, LiveHasRow DEF Rows, IndInv, TypeOK, HasRow
    <3>2. CASE ~(Live(j.file) /\ MayDelete(j.user, j.file))
      <4>1. row' = row BY <1>8, <3>2 DEF SoftDeleteRow
      <4> QED BY <4>1 DEF HasRow
    <3> QED BY <3>1, <3>2
  <2> QED BY <1>8, <1>q, <1>i, <2>2 DEF SoftDeleteRow, WritePc
<1>9. CASE PurgeRow(r)
  <2>1. j \in PurgeJobs /\ j.file \in purged /\ j.file \in Files
      BY <1>9, <1>j, JobShape DEF PurgeRow, IndInv, SelectedInv, PurgeJobs
  <2> DEFINE k == [j EXCEPT !.pc = "purgeBlob"]
  <2>2. k \in Jobs /\ k.pc = "purgeBlob" /\ k.file \in purged
      BY <2>1 DEF PurgeJobs, Jobs
  <2>3. req' = [req EXCEPT ![r] = k] BY <1>9 DEF PurgeRow
  <2>4. \A f \in Files : row'[f] # NoRow => row'[f] = row[f]
      BY <1>9, <2>1 DEF PurgeRow, IndInv, TypeOK
  <2> HIDE DEF k
  <2> QED BY <1>9, <1>q, <2>2, <2>3, <2>4 DEF PurgeRow, WritePc, HasRow
<1>10. CASE PurgeBlob(r)
  <2>1. j.file \in purged /\ j.file \in Files
      BY <1>10, <1>j, JobShape DEF PurgeBlob, IndInv, SelectedInv, PurgeJobs
  <2>2. \A q \in Requests \ {r} : Inserting(q) => req[q].file # j.file
      BY <2>1 DEF IndInv, NewbornInv
  <2> QED BY <1>10, <1>t, <1>i, <2>1, <2>2, UnlinkStep DEF PurgeBlob, WritePc
<1>11. CASE EmptyRow(r)
  <2>1. PICK f \in j.todo :
          /\ row' = [row EXCEPT ![f] = NoRow]
          /\ req' = [req EXCEPT ![r] = [pc |-> "emptyBlob", file |-> f,
                                        todo |-> j.todo \ {f}]]
      BY <1>11 DEF EmptyRow
  <2>2. j.todo \in SUBSET Files /\ j.todo \subseteq purged
      BY <1>11, <1>j, JobShape DEF EmptyRow, IndInv, SelectedInv
  <2> DEFINE k == [pc |-> "emptyBlob", file |-> f, todo |-> j.todo \ {f}]
  <2>3. k \in Jobs /\ k.pc = "emptyBlob" /\ k.file \in purged /\ k.todo \subseteq purged
      BY <2>2 DEF Jobs, EmptyJobs
  <2>4. req' = [req EXCEPT ![r] = k] BY <2>1
  <2>5. \A g \in Files : row'[g] # NoRow => row'[g] = row[g]
      BY <2>1, <2>2 DEF IndInv, TypeOK
  <2> HIDE DEF k
  <2> QED BY <1>11, <1>q, <2>3, <2>4, <2>5 DEF EmptyRow, WritePc, HasRow
<1>12. CASE EmptySkip(r)
  <2>1. PICK f \in j.todo : req' = [req EXCEPT ![r] = EmptyJob(j.todo \ {f})]
      BY <1>12 DEF EmptySkip
  <2>2. j.todo \in SUBSET Files /\ j.todo \subseteq purged
      BY <1>12, <1>j, JobShape DEF EmptySkip, IndInv, SelectedInv
  <2> DEFINE k == EmptyJob(j.todo \ {f})
  <2>3. k \in Jobs /\ k.pc \in {"idle", "emptyRow"}
        /\ (k.pc = "emptyRow" => k.todo \subseteq purged)
      BY <2>2 DEF Jobs, EmptyJobs, EmptyJob, Idle
  <2>4. req' = [req EXCEPT ![r] = k] BY <2>1
  <2> HIDE DEF k
  <2> QED BY <1>12, <1>q, <2>3, <2>4 DEF EmptySkip, WritePc, HasRow
<1>13. CASE EmptyBlob(r)
  <2>1. j.file \in purged /\ j.file \in Files /\ j.todo \in SUBSET Files
        /\ j.todo \subseteq purged
      BY <1>13, <1>j, JobShape DEF EmptyBlob, IndInv, SelectedInv
  <2>2. \A q \in Requests \ {r} : Inserting(q) => req[q].file # j.file
      BY <2>1 DEF IndInv, NewbornInv
  <2> DEFINE k == EmptyJob(j.todo)
  <2>3. k \in Jobs /\ k.pc \in {"idle", "emptyRow"}
        /\ (k.pc = "emptyRow" => k.todo \subseteq purged)
      BY <2>1 DEF Jobs, EmptyJobs, EmptyJob, Idle
  <2>4. Unlink(r, j.file, k) /\ UNCHANGED <<row, issued, from, purged, rewritten>>
      BY <1>13 DEF EmptyBlob
  <2> HIDE DEF k
  <2> QED BY <1>t, <2>1, <2>2, <2>3, <2>4, UnlinkStep DEF WritePc
<1>14. CASE GiveUp(r)
  BY <1>14, <1>q, <1>i DEF GiveUp, WritePc, HasRow
<1>15. CASE UnlinkFails(r)
  <2>1. CASE j.pc = "emptyBlob"
    <3>1. j.todo \in SUBSET Files /\ j.todo \subseteq purged
        BY <2>1, <1>j, JobShape DEF IndInv, SelectedInv
    <3> DEFINE k == EmptyJob(j.todo)
    <3>2. k \in Jobs /\ k.pc \in {"idle", "emptyRow"}
          /\ (k.pc = "emptyRow" => k.todo \subseteq purged)
        BY <3>1 DEF Jobs, EmptyJobs, EmptyJob, Idle
    <3>3. req' = [req EXCEPT ![r] = k] BY <1>15, <2>1 DEF UnlinkFails
    <3> HIDE DEF k
    <3> QED BY <1>15, <1>q, <3>2, <3>3 DEF UnlinkFails, WritePc, HasRow
  <2>2. CASE j.pc # "emptyBlob"
    <3>1. req' = [req EXCEPT ![r] = Idle] BY <1>15, <2>2 DEF UnlinkFails
    <3> QED BY <1>15, <1>q, <1>i, <3>1 DEF UnlinkFails, WritePc, HasRow
  <2> QED BY <2>1, <2>2
<1> QED BY <1>1, <1>2, <1>3, <1>4, <1>5, <1>6, <1>7, <1>8, <1>9, <1>10, <1>11, <1>12,
           <1>13, <1>14, <1>15 DEF Proceed

LEMMA InitInv == Init => IndInv
<1> SUFFICES ASSUME Init PROVE IndInv
    OBVIOUS
<1>1. TypeOK BY IdleJob DEF Init, TypeOK
<1>2. \A r \in Requests : req[r].pc = "idle" BY DEF Init, Idle
<1>3. \A f \in Files : ~HasRow(f) BY DEF Init, HasRow
<1> QED BY <1>1, <1>2, <1>3 DEF Init, IndInv, Intact, BytesKept, NewbornInv, AloneInv,
           KnownInv, SelectedInv, Inserting, Updating, WritePc

LEMMA StepInv == IndInv /\ [Next]_vars => IndInv'
<1> SUFFICES ASSUME IndInv, [Next]_vars PROVE IndInv'
    OBVIOUS
<1>1. CASE UNCHANGED vars
    BY <1>1 DEF vars, IndInv, TypeOK, Intact, BytesKept, NewbornInv, AloneInv, KnownInv,
                SelectedInv, HasRow, Inserting, Updating
<1>2. CASE Serve BY <1>2, BeginInv, ProceedInv, StatementInv DEF Serve
<1>3. CASE Crash BY <1>3, CrashInv, CrashType DEF IndInv
<1> QED BY <1>1, <1>2, <1>3 DEF Next

THEOREM Invariance == Spec => []IndInv
BY InitInv, StepInv, PTL DEF Spec

\* A row agrees with the bytes on disk unless its file was purged or written in place.
THEOREM RowsAreIntact == Spec => []Intact
<1>1. IndInv => Intact BY DEF IndInv
<1> QED BY <1>1, Invariance, PTL

\* Only a permanent delete that had selected a file can leave its row without bytes.
THEOREM BytesAreKept == Spec => []BytesKept
<1>1. IndInv => BytesKept BY DEF IndInv
<1> QED BY <1>1, Invariance, PTL

-----------------------------------------------------------------------------
(* Torn bytes: TornInv is inductive. *)

\* What TornOnlyByRewrite says of one file.
RowWhole(f) ==
    HasRow(f) => /\ blob[f] = Torn => (f \in rewritten \/ from[f] \cap rewritten # {})
                 /\ row[f].content = Torn => from[f] \cap rewritten # {}

\* Every step that starts no insert keeps TornInv, if inserts that go on read and write
\* the same files and tear only what copies a rewritten one, and updates receive nothing
\* torn.
LEMMA TornStep ==
    ASSUME TornInv, IndInv', issued' = issued, from' = from, rewritten \subseteq rewritten',
           \A q \in Requests : Inserting(q)' =>
               /\ Inserting(q) /\ req'[q].reads = req[q].reads /\ req'[q].file = req[q].file
               /\ \/ req'[q].content \in {req[q].content} \cup Contents
                  \/ from[req[q].file] \cap rewritten' # {},
           \A q \in Requests : Updating(q)' =>
               \/ Updating(q) /\ req'[q].content = req[q].content
               \/ req'[q].content # Torn,
           \A f \in Files : RowWhole(f)'
    PROVE  TornInv'
<1>1. SourcesInv' BY DEF TornInv, SourcesInv
<1>2. TornOnlyByRewrite' BY DEF RowWhole, TornOnlyByRewrite
<1>3. \A q \in Requests : Inserting(q)' /\ req'[q].content = Torn
                            => from[req[q].file] \cap rewritten' # {}
    BY ContentsAssumption DEF TornInv, WholeInv
<1>4. WholeInv' BY <1>2, <1>3 DEF TornInv, WholeInv
<1> QED BY <1>1, <1>4 DEF TornInv

\* A file whose row has the content it had, or has gone, and whose blob is what it was or
\* has gone.
LEMMA StaysWhole ==
    ASSUME TornInv, NEW f \in Files, from' = from, rewritten \subseteq rewritten',
           HasRow(f)' => /\ HasRow(f)
                         /\ row'[f].content = row[f].content \/ row'[f].content # Torn
                         /\ blob'[f] = blob[f] \/ blob'[f] # Torn \/ f \in rewritten'
    PROVE  RowWhole(f)'
BY DEF TornInv, WholeInv, TornOnlyByRewrite, RowWhole

\* A handler starts to insert a fresh file from sources that have a row.
LEMMA TornStart ==
    ASSUME TornInv, IndInv', NEW r \in Requests, NEW f \in Files \ issued, NEW j,
           Start(r, j), issued' = issued \cup {f}, j.file = f, j.op = "insert",
           from' = from \/ \E S \in SUBSET Files : from' = [from EXCEPT ![f] = S],
           j.reads \subseteq from'[f],
           \A s \in j.reads : s \in Files /\ HasRow(s),
           j.content = Torn => from'[f] \cap rewritten # {}
    PROVE  TornInv'
<1>1. /\ UNCHANGED <<row, blob, purged, rewritten>>
      /\ \A q \in Requests : q # r => req'[q] = req[q]
      /\ req'[r] = j
    BY DEF Start, TornInv, IndInv, TypeOK
<1>2. \A q \in Requests : Inserting(q) => f \notin req[q].reads
    BY DEF TornInv, SourcesInv
<1>3. \A q \in Requests : Inserting(q) => req[q].file \notin j.reads
    BY DEF TornInv, IndInv, NewbornInv
<1>4. j.reads \subseteq issued /\ f \notin j.reads
    BY DEF TornInv, IndInv, KnownInv
<1>f. /\ \A g \in Files : g # f => from'[g] = from[g]
      /\ \A q \in Requests : Inserting(q) => req[q].file # f /\ req[q].file \in Files
      /\ ~HasRow(f)
    BY DEF TornInv, IndInv, TypeOK, NewbornInv, KnownInv
<1>5. SourcesInv'
  <2> SUFFICES ASSUME NEW p \in Requests, Inserting(p)'
               PROVE  /\ req'[p].reads \subseteq issued' \cap from'[req'[p].file]
                      /\ \A q \in Requests : Inserting(q)' => req'[q].file \notin req'[p].reads
      BY DEF SourcesInv
  <2>1. CASE p = r
      BY <1>1, <1>3, <1>4, <2>1 DEF Inserting
  <2>2. CASE p # r
    <3>1. Inserting(p) /\ req'[p] = req[p] BY <1>1, <2>2 DEF Inserting
    <3>2. \A q \in Requests : q # r /\ Inserting(q)' => Inserting(q) /\ req'[q] = req[q]
        BY <1>1 DEF Inserting
    <3>3. req'[r].file \notin req[p].reads BY <1>1, <1>2, <3>1
    <3> QED BY <1>f, <3>1, <3>2, <3>3 DEF TornInv, SourcesInv
  <2> QED BY <2>1, <2>2
<1>6. TornOnlyByRewrite'
    BY <1>1, <1>f DEF TornInv, WholeInv, TornOnlyByRewrite, HasRow
<1>7. \A q \in Requests : /\ Inserting(q)' /\ req'[q].content = Torn
                              => from'[req'[q].file] \cap rewritten # {}
                          /\ Updating(q)' => req'[q].content # Torn
  <2> SUFFICES ASSUME NEW q \in Requests, q # r
               PROVE  /\ Inserting(q)' /\ req'[q].content = Torn
                              => from'[req'[q].file] \cap rewritten # {}
                      /\ Updating(q)' => req'[q].content # Torn
      BY <1>1 DEF Updating
  <2>1. req'[q] = req[q] BY <1>1
  <2>2. /\ Inserting(q)' => Inserting(q) /\ from'[req[q].file] = from[req[q].file]
        /\ Updating(q)' => Updating(q)
      BY <1>f, <2>1 DEF Inserting, Updating
  <2> QED BY <2>1, <2>2 DEF TornInv, WholeInv
<1>8. WholeInv' BY <1>1, <1>6, <1>7 DEF WholeInv
<1> QED BY <1>5, <1>8 DEF TornInv

LEMMA BeginTorn ==
    ASSUME TornInv, NEW r \in Requests, NEW u \in Users, Begin(r, u)
    PROVE  TornInv'
<1>i. IndInv' BY BeginInv DEF TornInv
<1>t. \A c \in Contents : c # Torn BY ContentsAssumption
\* The form TornStep asks for when the new job is no insert.
<1>q. ASSUME NEW j, j.pc \notin WritePc \/ (j.op = "update" /\ j.content # Torn),
             req' = [req EXCEPT ![r] = j], UNCHANGED <<row, blob, issued, from, rewritten>>
      PROVE  TornInv'
  <2>1. \A q \in Requests : /\ Inserting(q)' => Inserting(q) /\ req'[q] = req[q]
                            /\ Updating(q)' => \/ Updating(q) /\ req'[q] = req[q]
                                               \/ req'[q].content # Torn
      BY <1>q DEF Inserting, Updating, TornInv, IndInv, TypeOK
  <2>2. \A f \in Files : RowWhole(f)' BY <1>q, StaysWhole DEF HasRow
  <2> QED BY <1>i, <1>q, <2>1, <2>2, TornStep
<1>1. ASSUME NEW d \in Folders, NEW n \in Names, CreateText(r, u, d, n) PROVE TornInv'
    BY <1>1, <1>i, <1>t, TornStart, ContentsAssumption DEF CreateText, InsertJob
<1>2. ASSUME NEW d \in Folders, NEW n \in Names, NEW c \in Contents,
             UploadCreate(r, u, d, n, c)
      PROVE  TornInv'
    BY <1>2, <1>i, <1>t, TornStart DEF UploadCreate, InsertJob
<1>3. ASSUME NEW d \in Folders, NEW n \in Names, NEW c \in Contents,
             UploadOverwrite(r, u, d, n, c)
      PROVE  TornInv'
    BY <1>3, <1>q, <1>t DEF UploadOverwrite, UpdateJob, Start
<1>4. ASSUME NEW d \in Folders, NEW n \in Names, NEW src \in Files, Copy(r, u, src, d, n)
      PROVE  TornInv'
  <2>1. HasRow(src) BY <1>4, LiveHasRow DEF Copy
  <2>2. blob[src] = Torn => src \in rewritten \/ from[src] \cap rewritten # {}
      BY <2>1 DEF TornInv, WholeInv, TornOnlyByRewrite
  <2>3. PICK f \in Files \ issued : /\ Start(r, InsertJob(f, blob[src], {src}, u, d, n))
                                    /\ issued' = issued \cup {f}
                                    /\ from' = [from EXCEPT ![f] = {src} \cup from[src]]
      BY <1>4 DEF Copy
  <2>4. from'[f] = {src} \cup from[src] /\ {src} \cup from[src] \in SUBSET Files
      BY <2>3 DEF TornInv, IndInv, TypeOK
  <2> QED BY <1>i, <2>1, <2>2, <2>3, <2>4, TornStart DEF InsertJob
<1>5. ASSUME NEW f \in Files, NEW c \in Contents, SaveContent(r, u, f, c) PROVE TornInv'
    BY <1>5, <1>q, <1>t DEF SaveContent, UpdateJob, Start
<1>6. ASSUME NEW f \in Files, SoftDeleteRead(r, u, f) PROVE TornInv'
    BY <1>6, <1>q DEF SoftDeleteRead, Start, WritePc
<1>7. ASSUME NEW f \in Files, PurgeSelect(r, u, f) PROVE TornInv'
    BY <1>7, <1>q DEF PurgeSelect, WritePc
<1>8. CASE EmptySelect(r, u)
    BY <1>8, <1>q DEF EmptySelect, EmptyJob, Idle, WritePc
<1> QED BY <1>1, <1>2, <1>3, <1>4, <1>5, <1>6, <1>7, <1>8 DEF Begin

LEMMA StatementTorn ==
    ASSUME TornInv, NEW u \in Users, Statement(u)
    PROVE  TornInv'
<1>1. IndInv' BY StatementInv DEF TornInv
<1>2. UNCHANGED <<blob, req, issued, from, purged, rewritten>>
      /\ \A g \in Files : row'[g] # NoRow => HasRow(g) /\ row'[g].content = row[g].content
    BY StatementRows DEF TornInv, IndInv
<1>3. \A q \in Requests : (Inserting(q)' => Inserting(q)) /\ (Updating(q)' => Updating(q))
    BY <1>2 DEF Inserting, Updating
<1>4. \A f \in Files : RowWhole(f)' BY <1>2, StaysWhole DEF HasRow
<1> QED BY <1>1, <1>2, <1>3, <1>4, TornStep

\* What opening a blob does to the jobs: its writer goes on to stream, the blob's other
\* writers are mixed with it, and some of those who read it receive something torn.
LEMMA WriteOpenJobs ==
    ASSUME NEW r \in Requests, WriteOpen(r)
    PROVE  LET f == req[r].file
           IN  \A q \in Requests :
                 \/ req'[q] = req[q]
                 \/ q = r /\ \E fd \in Fd : req'[q] = [req[q] EXCEPT !.pc = "stream", !.fd = fd]
                 \/ q \in OtherWriters(r, f) /\ req'[q] = [req[q] EXCEPT !.fd = "mixed"]
                 \/ q \in Readers(f) /\ req'[q] = [req[q] EXCEPT !.content = Torn]
<1> DEFINE f == req[r].file
<1>1. PICK disturbed \in SUBSET (Readers(f) \ (OtherWriters(r, f) \cup {r})) :
        req' = [q \in Requests |->
                  CASE q = r -> [req[q] EXCEPT !.pc = "stream",
                          !.fd = IF OtherWriters(r, f) = {} THEN "whole" ELSE "mixed"]
                    [] q \in OtherWriters(r, f) -> [req[q] EXCEPT !.fd = "mixed"]
                    [] q \in disturbed -> [req[q] EXCEPT !.content = Torn]
                    [] OTHER -> req[q]]
    BY DEF WriteOpen
<1> SUFFICES ASSUME NEW q \in Requests
             PROVE  \/ req'[q] = req[q]
                    \/ q = r /\ \E fd \in Fd : req'[q] = [req[q] EXCEPT !.pc = "stream", !.fd = fd]
                    \/ q \in OtherWriters(r, f) /\ req'[q] = [req[q] EXCEPT !.fd = "mixed"]
                    \/ q \in Readers(f) /\ req'[q] = [req[q] EXCEPT !.content = Torn]
    OBVIOUS
<1>2. CASE q = r
  <2>1. r \notin OtherWriters(r, f) BY DEF OtherWriters
  <2> QED BY <1>1, <1>2, <2>1 DEF Fd
<1>3. CASE q # r /\ q \in OtherWriters(r, f) /\ q \notin disturbed BY <1>1, <1>3
<1>4. CASE q # r /\ q \notin OtherWriters(r, f) /\ q \in disturbed BY <1>1, <1>4
<1>5. CASE q # r /\ q \notin OtherWriters(r, f) /\ q \notin disturbed BY <1>1, <1>5
<1> QED BY <1>1, <1>2, <1>3, <1>4, <1>5

LEMMA WriteOpenTorn ==
    ASSUME TornInv, NEW r \in Requests, WriteOpen(r)
    PROVE  TornInv'
<1> DEFINE f == req[r].file
<1>i. IndInv' BY WriteOpenInv, ProceedType DEF TornInv, IndInv, Proceed
<1>1. /\ req[r].pc = "open" /\ req[r] \in Jobs
      /\ blob' = [blob EXCEPT ![f] = Torn]
      /\ rewritten' = IF req[r].op = "update" THEN rewritten \cup {f} ELSE rewritten
      /\ UNCHANGED <<row, issued, from, purged>>
    BY DEF WriteOpen, TornInv, IndInv, TypeOK
<1>3. Inserting(r) \/ Updating(r)
    BY <1>1, JobShape DEF Inserting, Updating, WritePc
<1>4. \A q \in Requests :
         \/ req'[q] = req[q]
         \/ q = r /\ \E fd \in Fd : req'[q] = [req[q] EXCEPT !.pc = "stream", !.fd = fd]
         \/ q \in OtherWriters(r, f) /\ req'[q] = [req[q] EXCEPT !.fd = "mixed"]
         \/ q \in Readers(f) /\ req'[q] = [req[q] EXCEPT !.content = Torn]
    BY WriteOpenJobs
\* Nobody reads a file that is being inserted.
<1>5. Inserting(r) => Readers(f) = {}
  <2>1. \A q \in Readers(f) : Inserting(q) /\ f \in req[q].reads
      BY DEF Readers, Inserting, WritePc
  <2> QED BY <2>1 DEF TornInv, SourcesInv, Readers
<1>6. ASSUME NEW q \in Requests
      PROVE  /\ Inserting(q)' =>
                  /\ Inserting(q) /\ req'[q].reads = req[q].reads /\ req'[q].file = req[q].file
                  /\ \/ req'[q].content = req[q].content
                     \/ from[req[q].file] \cap rewritten' # {}
             /\ Updating(q)' => Updating(q) /\ req'[q].content = req[q].content
  <2>1. req[q] \in Jobs BY DEF TornInv, IndInv, TypeOK
  <2>2. CASE req'[q] = req[q] BY <2>2 DEF Inserting, Updating
  <2>3. CASE q = r /\ \E fd \in Fd : req'[q] = [req[q] EXCEPT !.pc = "stream", !.fd = fd]
    <3>1. req[q] \in InsertJobs \/ req[q] \in UpdateJobs
        BY <1>1, <2>1, <2>3, JobShape DEF WritePc
    <3> QED BY <2>3, <3>1 DEF InsertJobs, UpdateJobs, Inserting, Updating
  <2>4. CASE q \in OtherWriters(r, f) /\ req'[q] = [req[q] EXCEPT !.fd = "mixed"]
    <3>1. req[q] \in InsertJobs \/ req[q] \in UpdateJobs
        BY <2>1, <2>4, JobShape DEF OtherWriters, Streaming, WritePc
    <3> QED BY <2>4, <3>1 DEF InsertJobs, UpdateJobs, Inserting, Updating
  <2>5. CASE q \in Readers(f) /\ req'[q] = [req[q] EXCEPT !.content = Torn]
    <3>1. req[q] \in InsertJobs
        BY <2>1, <2>5, JobShape DEF Readers, WritePc, UpdateJobs
    <3>2. Inserting(q) /\ f \in req[q].reads
        BY <2>5 DEF Readers, Inserting, WritePc
    <3>3. f \in from[req[q].file] BY <3>2 DEF TornInv, SourcesInv
    <3>4. f \in rewritten' BY <1>1, <1>3, <1>5, <2>5 DEF Updating
    <3> QED BY <2>5, <3>1, <3>2, <3>3, <3>4 DEF InsertJobs, Inserting, Updating
  <2> QED BY <1>4, <2>2, <2>3, <2>4, <2>5
<1>7. ASSUME NEW g \in Files PROVE RowWhole(g)'
  <2>1. HasRow(g)' => HasRow(g) /\ row'[g].content = row[g].content BY <1>1 DEF HasRow
  <2>2. HasRow(g) => g # f \/ f \in rewritten'
      BY <1>1, <1>3 DEF Updating, TornInv, IndInv, NewbornInv
  <2>3. g # f => blob'[g] = blob[g] BY <1>1 DEF TornInv, IndInv, TypeOK
  <2> QED BY <1>1, <2>1, <2>2, <2>3, StaysWhole
<1> QED BY <1>i, <1>1, <1>6, <1>7, TornStep

LEMMA WriteEndTorn ==
    ASSUME TornInv, NEW r \in Requests, WriteDone(r) \/ WriteFail(r)
    PROVE  TornInv'
<1> DEFINE f == req[r].file
<1>i. IndInv' BY ProceedInv DEF TornInv, Proceed
<1>1. req[r].pc = "stream" /\ req[r] \in Jobs /\ UNCHANGED <<row, issued, from, rewritten>>
    BY DEF WriteDone, WriteFail, Streaming, TornInv, IndInv, TypeOK
<1>2. Inserting(r) \/ Updating(r)
    BY <1>1, JobShape DEF Inserting, Updating, WritePc
<1>3. Updating(r) => f \in rewritten BY <1>1 DEF TornInv, IndInv, KnownInv
<1>4. \A q \in Requests : q # r => req'[q] = req[q]
    BY DEF WriteDone, WriteFail, TornInv, IndInv, TypeOK
<1>5. /\ Inserting(r)' => /\ Inserting(r) /\ req'[r].reads = req[r].reads /\ req'[r].file = f
                           /\ req'[r].content \in {req[r].content} \cup Contents
      /\ Updating(r)' => Updating(r) /\ req'[r].content = req[r].content
  <2>1. CASE WriteDone(r)
    <3>1. PICK c \in Received(r) :
             req' = [req EXCEPT ![r].pc = "commit", ![r].content = c, ![r].fd = "whole"]
        BY <2>1 DEF WriteDone
    <3>2. req'[r] = [req[r] EXCEPT !.pc = "commit", !.content = c, !.fd = "whole"]
        BY <3>1 DEF TornInv, IndInv, TypeOK
    <3>3. CASE req[r] \in InsertJobs
      <4>1. Inserting(r) BY <3>3 DEF InsertJobs, Inserting
      <4>2. c \in {req[r].content} \cup Contents BY <3>1 DEF Received
      <4> QED BY <3>2, <3>3, <4>1, <4>2 DEF InsertJobs, Updating
    <3>4. CASE req[r] \in UpdateJobs
      <4>1. Updating(r) BY <3>4 DEF UpdateJobs, Updating
      <4>2. c = req[r].content BY <3>1, <3>4 DEF Received, UpdateJobs
      <4> QED BY <3>2, <3>4, <4>1, <4>2 DEF UpdateJobs, Inserting
    <3> QED BY <1>1, <3>3, <3>4, JobShape DEF WritePc
  <2>2. CASE WriteFail(r)
      BY <2>2 DEF WriteFail, Inserting, Updating, WritePc, Idle, TornInv, IndInv, TypeOK
  <2> QED BY <2>1, <2>2
<1>6. \A q \in Requests :
         /\ Inserting(q)' =>
              /\ Inserting(q) /\ req'[q].reads = req[q].reads /\ req'[q].file = req[q].file
              /\ req'[q].content \in {req[q].content} \cup Contents
         /\ Updating(q)' => Updating(q) /\ req'[q].content = req[q].content
    BY <1>4, <1>5 DEF Inserting, Updating
<1>7. ASSUME NEW g \in Files PROVE RowWhole(g)'
  <2>1. HasRow(g)' => HasRow(g) /\ row'[g].content = row[g].content BY <1>1 DEF HasRow
  <2>2. HasRow(g) => g # f \/ f \in rewritten
      BY <1>2, <1>3 DEF TornInv, IndInv, NewbornInv
  <2>3. g # f => blob'[g] = blob[g] BY DEF WriteDone, WriteFail, TornInv, IndInv, TypeOK
  <2> QED BY <1>1, <2>1, <2>2, <2>3, StaysWhole
<1> QED BY <1>i, <1>1, <1>6, <1>7, TornStep

\* What the steps that follow the bytes leave of r, and of the rows.
LEMMA RestEnds ==
    ASSUME TypeOK, NEW r \in Requests, Proceed(r),
           ~(WriteOpen(r) \/ WriteDone(r) \/ WriteFail(r))
    PROVE  req'[r].pc \notin WritePc
<1> DEFINE j == req[r]
<1>1. j \in Jobs /\ req \in [Requests -> Jobs] BY DEF TypeOK
<1>2. Idle.pc = "idle" BY DEF Idle
<1>3. \A todo : EmptyJob(todo).pc \in {"idle", "emptyRow"} BY DEF EmptyJob, Idle
<1>4. CASE InsertRow(r) \/ UpdateRow(r) \/ UpdateFail(r) \/ SoftDeleteRow(r) \/ GiveUp(r)
    BY <1>1, <1>2, <1>4
    DEF InsertRow, UpdateRow, UpdateFail, SoftDeleteRow, GiveUp, WritePc
<1>5. CASE InsertFail(r) \/ PurgeBlob(r) \/ EmptyBlob(r)
    BY <1>2, <1>3, <1>5 DEF InsertFail, PurgeBlob, EmptyBlob, Unlink, CutWriters, WritePc
<1>6. CASE PurgeRow(r)
  <2>1. j \in PurgeJobs BY <1>1, <1>6, JobShape DEF PurgeRow
  <2> QED BY <1>1, <1>6, <2>1 DEF PurgeRow, PurgeJobs, WritePc
<1>7. CASE EmptyRow(r)
    BY <1>1, <1>7 DEF EmptyRow, WritePc
<1>8. CASE EmptySkip(r) \/ UnlinkFails(r)
    BY <1>1, <1>2, <1>3, <1>8 DEF EmptySkip, UnlinkFails, WritePc
<1> QED BY <1>4, <1>5, <1>6, <1>7, <1>8 DEF Proceed

LEMMA RestRows ==
    ASSUME TornInv, NEW r \in Requests, Proceed(r), ~InsertRow(r)
    PROVE  \A f \in Files : row'[f] # NoRow =>
               HasRow(f) /\ (row'[f].content = row[f].content \/ row'[f].content # Torn)
<1> DEFINE j == req[r]
<1>1. j \in Jobs /\ row \in [Files -> Rows \cup {NoRow}] BY DEF TornInv, IndInv, TypeOK
<1>2. CASE row' = row BY <1>2 DEF HasRow
<1>3. CASE UpdateRow(r)
  <2>1. Updating(r) /\ j.pc = "commit"
      BY <1>3 DEF UpdateRow, Committing, Updating, WritePc
  <2>2. j.content # Torn BY <2>1 DEF TornInv, WholeInv
  <2>3. CASE ~HasRow(j.file) BY <1>2, <1>3, <2>3 DEF UpdateRow
  <2>4. CASE HasRow(j.file)
    <3>1. row[j.file] \in Rows /\ j.file \in Files
        BY <1>1, <2>1, <2>4, JobShape, RowShape DEF HasRow, Updating, WritePc, InsertJobs, UpdateJobs
    <3>2. row' = [row EXCEPT ![j.file].content = j.content] BY <1>3, <2>4 DEF UpdateRow
    <3> QED BY <1>1, <2>2, <2>4, <3>1, <3>2 DEF HasRow, Rows
  <2> QED BY <2>3, <2>4
<1>4. CASE SoftDeleteRow(r)
  <2>1. CASE Live(j.file) /\ MayDelete(j.user, j.file)
    <3>1. row[j.file] \in Rows /\ j.file \in Files
        BY <1>1, <1>4, <2>1, JobShape, RowShape DEF SoftDeleteRow, TrashJobs, Live
    <3>2. row' = [row EXCEPT ![j.file].status = "trash", ![j.file].owner = j.owner]
        BY <1>4, <2>1 DEF SoftDeleteRow
    <3> QED BY <1>1, <2>1, <3>1, <3>2, LiveHasRow DEF Rows, HasRow
  <2>2. CASE ~(Live(j.file) /\ MayDelete(j.user, j.file))
      BY <1>2, <1>4, <2>2 DEF SoftDeleteRow
  <2> QED BY <2>1, <2>2
<1>5. CASE PurgeRow(r) \/ EmptyRow(r)
    BY <1>1, <1>5 DEF PurgeRow, EmptyRow, HasRow
<1>6. CASE \/ WriteOpen(r) \/ WriteDone(r) \/ WriteFail(r) \/ InsertFail(r)
           \/ UpdateFail(r) \/ PurgeBlob(r) \/ EmptySkip(r) \/ EmptyBlob(r)
           \/ GiveUp(r) \/ UnlinkFails(r)
    BY <1>2, <1>6 DEF WriteOpen, WriteDone, WriteFail, InsertFail, UpdateFail, PurgeBlob,
                      EmptySkip, EmptyBlob, GiveUp, UnlinkFails
<1> QED BY <1>3, <1>4, <1>5, <1>6 DEF Proceed

\* Steps of r after which it inserts nothing: blobs only go, and a row's content is
\* that of before, or what an insert or an update received.
LEMMA RestTorn ==
    ASSUME TornInv, NEW r \in Requests, Proceed(r),
           ~(WriteOpen(r) \/ WriteDone(r) \/ WriteFail(r))
    PROVE  TornInv'
<1>i. IndInv' BY ProceedInv DEF TornInv
<1>1. UNCHANGED <<issued, from, rewritten>>
    BY DEF Proceed, InsertRow, InsertFail, UpdateRow, UpdateFail, SoftDeleteRow, PurgeRow,
           PurgeBlob, EmptyRow, EmptySkip, EmptyBlob, GiveUp, UnlinkFails
<1>2. \A g \in Files : blob'[g] = blob[g] \/ blob'[g] = Absent
    BY DEF Proceed, InsertRow, InsertFail, UpdateRow, UpdateFail, SoftDeleteRow, PurgeRow,
           PurgeBlob, EmptyRow, EmptySkip, EmptyBlob, GiveUp, UnlinkFails, Unlink,
           TornInv, IndInv, TypeOK
<1>3. req'[r].pc \notin WritePc
    BY RestEnds DEF TornInv, IndInv
<1>4. ASSUME NEW q \in Requests, q # r
      PROVE  req'[q] = req[q] \/ (Streaming(q) /\ req'[q] = [req[q] EXCEPT !.fd = "lost"])
    BY <1>4 DEF Proceed, InsertRow, InsertFail, UpdateRow, UpdateFail, SoftDeleteRow, PurgeRow,
           PurgeBlob, EmptyRow, EmptySkip, EmptyBlob, GiveUp, UnlinkFails, Unlink, CutWriters,
           TornInv, IndInv, TypeOK
<1>5. ASSUME NEW q \in Requests, Inserting(q)' \/ Updating(q)'
      PROVE  /\ Inserting(q)' => /\ Inserting(q) /\ req'[q].reads = req[q].reads
                                 /\ req'[q].file = req[q].file
             /\ Updating(q)' => Updating(q)
             /\ req'[q].content = req[q].content
  <2>1. q # r BY <1>3, <1>5 DEF Inserting, Updating
  <2>2. req[q] \in Jobs BY DEF TornInv, IndInv, TypeOK
  <2>3. CASE Streaming(q) /\ req'[q] = [req[q] EXCEPT !.fd = "lost"]
    <3>1. req[q] \in InsertJobs \/ req[q] \in UpdateJobs
        BY <2>2, <2>3, JobShape DEF Streaming, WritePc
    <3> QED BY <1>5, <2>3, <3>1 DEF InsertJobs, UpdateJobs, Inserting, Updating
  <2> QED BY <1>4, <1>5, <2>1, <2>3 DEF Inserting, Updating
<1>6. ASSUME NEW g \in Files PROVE RowWhole(g)'
  <2>1. CASE InsertRow(r)
    <3>1. /\ req[r].content = Torn => from[req[r].file] \cap rewritten # {}
          /\ blob[req[r].file] = req[r].content
        BY <1>1, <2>1
        DEF InsertRow, Committing, Inserting, WritePc, TornInv, WholeInv, IndInv, NewbornInv
    <3>2. blob' = blob
          /\ row' = [row EXCEPT ![req[r].file] =
                     [status |-> "live", owner |-> req[r].owner, folder |-> req[r].folder,
                      name |-> req[r].name, content |-> req[r].content]]
        BY <2>1 DEF InsertRow
    <3>3. CASE g = req[r].file
      <4>1. row'[g].content = req[r].content /\ blob'[g] = req[r].content
          BY <3>1, <3>2, <3>3 DEF TornInv, IndInv, TypeOK
      <4> QED BY <1>1, <3>1, <3>3, <4>1 DEF RowWhole
    <3>4. CASE g # req[r].file
      <4>1. row'[g] = row[g]
          BY <3>2, <3>4 DEF TornInv, IndInv, TypeOK
      <4> QED BY <1>1, <3>2, <4>1, StaysWhole DEF HasRow
    <3> QED BY <3>3, <3>4
  <2>2. CASE ~InsertRow(r)
    <3>1. HasRow(g)' => /\ HasRow(g)
                        /\ row'[g].content = row[g].content \/ row'[g].content # Torn
        BY <2>2, RestRows DEF TornInv, HasRow
    <3>2. Absent # Torn BY DEF Absent, Torn
    <3> QED BY <1>1, <1>2, <3>1, <3>2, StaysWhole
  <2> QED BY <2>1, <2>2
<1> QED BY <1>i, <1>1, <1>5, <1>6, TornStep

LEMMA CrashTorn == TornInv /\ Crash => TornInv'
<1> SUFFICES ASSUME TornInv, Crash PROVE TornInv'
    OBVIOUS
<1>1. IndInv' BY CrashInv, CrashType DEF TornInv, IndInv
<1>2. /\ req' = [r \in Requests |-> Idle]
      /\ UNCHANGED <<row, issued, from, purged, rewritten>>
    BY DEF Crash
<1>3. \A q \in Requests : ~Inserting(q)' /\ ~Updating(q)'
    BY <1>2 DEF Inserting, Updating, Idle, WritePc
\* Only an in-place writer shares its blob.
<1>4. ASSUME NEW q \in Requests, Streaming(q), req[q].fd = "mixed"
      PROVE  req[q].file \in rewritten
  <2>1. ~Inserting(q) BY <1>4 DEF TornInv, IndInv, NewbornInv, Streaming
  <2>2. Updating(q)
      BY <1>4, <2>1, JobShape
      DEF TornInv, IndInv, TypeOK, Streaming, WritePc, Inserting, Updating
  <2> QED BY <1>4, <2>2 DEF TornInv, IndInv, KnownInv, Streaming
<1>5. \A f \in Files : blob'[f] = blob[f] \/ f \in rewritten' BY <1>2, <1>4 DEF Crash
<1>6. \A f \in Files : RowWhole(f)' BY <1>2, <1>5, StaysWhole DEF HasRow
<1> QED BY <1>1, <1>2, <1>3, <1>6, TornStep

THEOREM TornInvariance == Spec => []TornInv
<1>1. Init => TornInv
    BY InitInv
    DEF Init, TornInv, SourcesInv, WholeInv, TornOnlyByRewrite, Inserting, Updating, HasRow,
        Idle, WritePc
<1>2. TornInv /\ [Next]_vars => TornInv'
  <2> SUFFICES ASSUME TornInv, [Next]_vars PROVE TornInv'
      OBVIOUS
  <2>1. CASE UNCHANGED vars
    <3>1. IndInv' BY <2>1, StepInv DEF TornInv
    <3> QED BY <2>1, <3>1
        DEF vars, TornInv, SourcesInv, WholeInv, TornOnlyByRewrite, HasRow, Inserting, Updating
  <2>2. CASE Serve
    BY <2>2, BeginTorn, StatementTorn, WriteOpenTorn, WriteEndTorn, RestTorn DEF Serve
  <2>3. CASE Crash BY <2>3, CrashTorn
  <2> QED BY <2>1, <2>2, <2>3 DEF Next
<1> QED BY <1>1, <1>2, PTL DEF Spec

\* Bytes nobody sent are found under a row, or recorded by one, only where the file or
\* one it was copied from was written in place: uploads, new text files, copies of what
\* nobody rewrites, the trash, failures and crashes alone never do it.
THEOREM RowsAreWhole == Spec => []TornOnlyByRewrite
<1>1. TornInv => TornOnlyByRewrite BY DEF TornInv, WholeInv
<1> QED BY <1>1, TornInvariance, PTL

=============================================================================
