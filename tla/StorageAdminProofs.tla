-------------------------- MODULE StorageAdminProofs --------------------------
(***************************************************************************)
(* Theorems about the storage root under maintenance: scrub, orphan and    *)
(* corrupt-file reports run beside FileStore's handlers, for any number of *)
(* files, users, folders and running handlers, with and without faults.    *)
(***************************************************************************)
EXTENDS StorageAdmin, FileStoreProofs

-----------------------------------------------------------------------------
(* Type correctness. *)

\* A blob removed under whatever is running.
LEMMA RemoveBlobType ==
    ASSUME TypeOK, NEW f \in Files, RemoveBlob(f),
           UNCHANGED <<row, issued, from, purged, rewritten>>
    PROVE  TypeOK'
<1>1. req' \in [Requests -> Jobs] BY CutType DEF RemoveBlob
<1>2. blob' \in [Files -> Bytes \cup {Absent}] BY DEF RemoveBlob, TypeOK
<1> QED BY <1>1, <1>2 DEF TypeOK

LEMMA ScrubPhaseType ==
    ASSUME NEW doomed \in SUBSET Files
    PROVE  ScrubPhase(doomed) \in Scrubs
BY DEF ScrubPhase, Scrubs

LEMMA ReportOfType ==
    ASSUME NEW kind \in {"orphans", "corrupt", "removing"}, NEW ids \in SUBSET Files
    PROVE  ReportOf(kind, ids) \in Reports
BY DEF ReportOf, Reports, NoReport

\* What a scrub or a report holds follows from where it stands.
LEMMA AdminShape ==
    ASSUME AdminTypeOK
    PROVE  /\ scrub.pc = "query" => scrub.listed \in SUBSET Files
           /\ scrub.pc = "remove" => scrub.doomed \in SUBSET Files
           /\ report.ids \in SUBSET Files
           /\ report.kind = "restoring" => report.file \in Files /\ report.content \in Bytes
           /\ report.ids # {} => report.kind \in {"orphans", "corrupt", "removing", "restoring"}
<1>1. scrub \in Scrubs /\ report \in Reports BY DEF AdminTypeOK
<1>2. /\ scrub.pc = "query" => scrub.listed \in SUBSET Files
      /\ scrub.pc = "remove" => scrub.doomed \in SUBSET Files
    BY <1>1 DEF Scrubs
<1>3. /\ report.ids \in SUBSET Files
      /\ report.kind = "restoring" => report.file \in Files /\ report.content \in Bytes
      /\ report.ids # {} => report.kind \in {"orphans", "corrupt", "removing", "restoring"}
    BY <1>1 DEF Reports, NoReport
<1> QED BY <1>2, <1>3

\* What a query leaves over: the ids without a row, and those it did not get to.
LEMMA CutsAre ==
    ASSUME NEW ids \in SUBSET Files, NEW cut \in Cuts(ids)
    PROVE  cut \subseteq ids /\ ids \ (Known(ids) \ cut) = {f \in ids : ~HasRow(f)} \cup cut
BY DEF Cuts, Known

LEMMA ScrubType ==
    ASSUME AdminTypeOK, ScrubStart \/ ScrubStep
    PROVE  AdminTypeOK'
<1>1. CASE ScrubRemove
  <2>1. PICK f \in scrub.doomed : RemoveBlob(f) /\ scrub' = ScrubPhase(scrub.doomed \ {f})
      BY <1>1 DEF ScrubRemove
  <2>2. f \in Files /\ scrub.doomed \ {f} \in SUBSET Files
      BY <1>1, AdminShape DEF ScrubRemove
  <2>3. TypeOK' BY <1>1, <2>1, <2>2, RemoveBlobType DEF AdminTypeOK, ScrubRemove
  <2>4. scrub' \in Scrubs BY <2>1, <2>2, ScrubPhaseType
  <2> QED BY <1>1, <2>3, <2>4 DEF AdminTypeOK, ScrubRemove
<1>2. CASE ScrubStart \/ ScrubList \/ ScrubListPart \/ ScrubQuery \/ ScrubFail \/ ScrubSkip
  <2>1. UNCHANGED <<vars, report, zapped>>
      BY <1>2 DEF ScrubStart, ScrubList, ScrubListPart, ScrubQuery, ScrubFail, ScrubSkip
  <2>2. OnDisk \in SUBSET Files BY DEF OnDisk
  <2>3. scrub' \in Scrubs
    <3>1. CASE ScrubStart \/ ScrubFail BY <3>1 DEF ScrubStart, ScrubFail, Scrubs
    <3>2. CASE ScrubList \/ ScrubListPart BY <2>2, <3>2 DEF ScrubList, ScrubListPart, Scrubs
    <3>3. CASE ScrubQuery
      <4>1. PICK cut \in Cuts(scrub.listed) :
               scrub' = ScrubPhase(scrub.listed \ (Known(scrub.listed) \ cut))
          BY <3>3 DEF ScrubQuery
      <4>2. scrub.listed \ (Known(scrub.listed) \ cut) \in SUBSET Files
          BY <3>3, AdminShape DEF ScrubQuery
      <4> QED BY <4>1, <4>2, ScrubPhaseType
    <3>4. CASE ScrubSkip
      <4>1. PICK f \in scrub.doomed : scrub' = ScrubPhase(scrub.doomed \ {f})
          BY <3>4 DEF ScrubSkip
      <4>2. scrub.doomed \ {f} \in SUBSET Files BY <3>4, AdminShape DEF ScrubSkip
      <4> QED BY <4>1, <4>2, ScrubPhaseType
    <3> QED BY <1>2, <3>1, <3>2, <3>3, <3>4
  <2>4. nameless' \subseteq Files
    <3>1. CASE ScrubQuery
      <4>1. scrub.listed \in SUBSET Files BY <3>1, AdminShape DEF ScrubQuery
      <4> QED BY <3>1, <4>1, CutsAre DEF ScrubQuery, AdminTypeOK
    <3> QED BY <1>2, <3>1
        DEF ScrubStart, ScrubList, ScrubListPart, ScrubFail, ScrubSkip, AdminTypeOK
  <2> QED BY <2>1, <2>3, <2>4 DEF AdminTypeOK, TypeOK, vars
<1> QED BY <1>1, <1>2 DEF ScrubStep

Orphans ==
    \/ StorageScanOrphans \/ StoragePurgeOrphans
    \/ RestoreOrphanStat \/ RestoreOrphanRow \/ RestoreOrphanSkip

Corrupt == StorageScan \/ StoragePurgeCorrupt \/ PurgeCorruptBlob \/ PurgeCorruptSkip

\* One id is worked off a report.
LEMMA ClearedType ==
    ASSUME AdminTypeOK, NEW kind \in {"orphans", "corrupt", "removing"}, NEW f \in Reported(kind)
    PROVE  f \in Files /\ Cleared(f) \in Reports /\ report.kind = kind
<1>1. report.kind = kind /\ f \in report.ids BY DEF Reported
<1>2. report.ids \ {f} \in SUBSET Files /\ f \in Files BY <1>1, AdminShape
<1> QED BY <1>1, <1>2, ReportOfType DEF Cleared

LEMMA OrphansType ==
    ASSUME AdminTypeOK, Orphans
    PROVE  AdminTypeOK'
<1>1. CASE StorageScanOrphans
  <2>1. PICK cut \in Cuts(OnDisk) :
           /\ report' = ReportOf("orphans", OnDisk \ (Known(OnDisk) \ cut))
           /\ nameless' = nameless \cup {f \in OnDisk : ~HasRow(f)} \cup cut
      BY <1>1 DEF StorageScanOrphans
  <2>2. report' \in Reports BY <2>1, ReportOfType DEF OnDisk
  <2>3. cut \subseteq Files BY CutsAre DEF OnDisk
  <2> QED BY <1>1, <2>1, <2>2, <2>3 DEF StorageScanOrphans, AdminTypeOK, TypeOK, vars, OnDisk
<1>2. CASE StoragePurgeOrphans
  <2>1. PICK f \in Reported("orphans") : RemoveBlob(f) /\ report' = Cleared(f)
      BY <1>2 DEF StoragePurgeOrphans
  <2>2. f \in Files /\ report' \in Reports BY <2>1, ClearedType
  <2>3. TypeOK' BY <1>2, <2>1, <2>2, RemoveBlobType DEF StoragePurgeOrphans, AdminTypeOK
  <2> QED BY <1>2, <2>2, <2>3 DEF StoragePurgeOrphans, AdminTypeOK
<1>3. CASE RestoreOrphanStat
  <2>1. PICK f \in Reported("orphans") : blob[f] # Absent /\ report' = Restoring(f)
      BY <1>3 DEF RestoreOrphanStat
  <2>2. f \in Files BY <2>1, ClearedType
  <2>3. blob[f] \in Bytes BY <2>1, <2>2 DEF AdminTypeOK, TypeOK
  <2>4. Restoring(f) \in Reports BY <2>2, <2>3, AdminShape DEF Restoring, Reports
  <2> QED BY <1>3, <2>1, <2>4 DEF RestoreOrphanStat, AdminTypeOK, TypeOK, vars
<1>4. CASE RestoreOrphanRow
  <2>1. report.file \in Files /\ report.content \in Bytes /\ report.ids \in SUBSET Files
      BY <1>4, AdminShape DEF RestoreOrphanRow
  <2>2. report' \in Reports BY <1>4, <2>1, ReportOfType DEF RestoreOrphanRow
  <2>3. [status |-> "live", owner |-> Admin, folder |-> CleanupFolder,
         name |-> OrphanName, content |-> report.content] \in Rows
      BY <2>1, AdminAssumption DEF Rows
  <2>4. row' \in [Files -> Rows \cup {NoRow}]
      BY <1>4, <2>1, <2>3 DEF RestoreOrphanRow, AdminTypeOK, TypeOK
  <2> QED BY <1>4, <2>2, <2>4 DEF RestoreOrphanRow, AdminTypeOK, TypeOK
<1>5. CASE RestoreOrphanSkip
  <2>1. report' \in Reports BY <1>5, AdminShape, ReportOfType DEF RestoreOrphanSkip
  <2> QED BY <1>5, <2>1 DEF RestoreOrphanSkip, AdminTypeOK, TypeOK, vars
<1> QED BY <1>1, <1>2, <1>3, <1>4, <1>5 DEF Orphans

LEMMA CorruptType ==
    ASSUME AdminTypeOK, Corrupt
    PROVE  AdminTypeOK'
<1>1. CASE StorageScan
  <2>1. PICK found \in SUBSET {f \in Files : Live(f) /\ LooksDamaged(f)} :
            report' = ReportOf("corrupt", found)
      BY <1>1 DEF StorageScan
  <2>2. found \in SUBSET Files BY <2>1
  <2>3. report' \in Reports BY <2>1, <2>2, ReportOfType
  <2> QED BY <1>1, <2>3 DEF StorageScan, AdminTypeOK, TypeOK, vars
<1>2. CASE StoragePurgeCorrupt
  <2>1. report.ids \in SUBSET Files BY AdminShape
  <2>2. report' \in Reports BY <1>2, <2>1, ReportOfType DEF StoragePurgeCorrupt
  <2>3. ASSUME NEW f \in Files, Live(f) PROVE [row[f] EXCEPT !.status = "trash"] \in Rows
      BY <2>3, RowShape DEF Live, Rows, AdminTypeOK, TypeOK
  <2>4. row' \in [Files -> Rows \cup {NoRow}]
      BY <1>2, <2>3 DEF StoragePurgeCorrupt, AdminTypeOK, TypeOK
  <2> QED BY <1>2, <2>1, <2>2, <2>4 DEF StoragePurgeCorrupt, AdminTypeOK, TypeOK
<1>3. CASE PurgeCorruptBlob
  <2>1. PICK f \in Reported("removing") : RemoveBlob(f) /\ report' = Cleared(f)
      BY <1>3 DEF PurgeCorruptBlob
  <2>2. f \in Files /\ report' \in Reports BY <2>1, ClearedType
  <2>3. TypeOK' BY <1>3, <2>1, <2>2, RemoveBlobType DEF PurgeCorruptBlob, AdminTypeOK
  <2> QED BY <1>3, <2>2, <2>3 DEF PurgeCorruptBlob, AdminTypeOK
<1>4. CASE PurgeCorruptSkip
  <2>1. PICK f \in Reported("removing") : report' = Cleared(f) BY <1>4 DEF PurgeCorruptSkip
  <2>2. report' \in Reports BY <2>1, ClearedType
  <2> QED BY <1>4, <2>2 DEF PurgeCorruptSkip, AdminTypeOK, TypeOK, vars
<1> QED BY <1>1, <1>2, <1>3, <1>4 DEF Corrupt

LEMMA RestartType == AdminTypeOK /\ Restart => AdminTypeOK'
<1> SUFFICES ASSUME AdminTypeOK, Restart PROVE AdminTypeOK'
    OBVIOUS
<1>1. TypeOK' BY CrashType DEF AdminTypeOK, Restart
<1>2. report' \in Reports
  <2>1. NoReport \in Reports BY DEF Reports
  <2>2. ReportOf("orphans", report.ids) \in Reports BY AdminShape, ReportOfType
  <2> QED BY <2>1, <2>2 DEF Restart, ReportKept, AdminTypeOK
<1>3. scrub' \in Scrubs BY DEF Restart, Scrubs
<1> QED BY <1>1, <1>2, <1>3 DEF AdminTypeOK, Restart

LEMMA ServeType == AdminTypeOK /\ Serve /\ UNCHANGED adminVars => AdminTypeOK'
BY BeginType, ProceedType, StatementType DEF Serve, AdminTypeOK, adminVars

LEMMA AdminInitType == AdminInit => AdminTypeOK
BY IdleJob DEF AdminInit, Init, AdminTypeOK, TypeOK, Scrubs, Reports

LEMMA AdminStepType == AdminTypeOK /\ [AdminNext]_avars => AdminTypeOK'
<1> SUFFICES ASSUME AdminTypeOK, [AdminNext]_avars PROVE AdminTypeOK'
    OBVIOUS
<1>1. CASE UNCHANGED avars BY <1>1 DEF avars, AdminTypeOK, TypeOK
<1>2. CASE AdminNext
    BY <1>2, ServeType, RestartType, ScrubType, OrphansType, CorruptType
    DEF AdminNext, Orphans, Corrupt
<1> QED BY <1>1, <1>2

\* Rows, blobs, jobs, the scrub and the reports keep their shape.
THEOREM AdminTypeCorrect == AdminSpec => []AdminTypeOK
BY AdminInitType, AdminStepType, PTL DEF AdminSpec

-----------------------------------------------------------------------------
(* MaintInv is inductive. *)

\* No handler inserts f any more.
Uninserted(f) == \A q \in Requests : Inserting(q) => req[q].file # f

\* Every step that starts no insert: jobs go on or end; a row appears for a file that is
\* excused, or over bytes that nobody inserts any more; a blob goes only from a file
\* that is excused, or that nobody shows or inserts any more.
LEMMA MaintStep ==
    ASSUME MaintInv, AdminTypeOK', SelectedInv', NotedInv',
           issued \subseteq issued', Excused \subseteq Excused', nameless' \subseteq issued',
           scrub'.pc = "query" => scrub'.listed \subseteq issued',
           \A q \in Requests : req'[q].pc \in WritePc =>
               /\ req[q].pc \in WritePc
               /\ req'[q].file = req[q].file /\ req'[q].op = req[q].op
               /\ req'[q].pc \in {"stream", "commit"}
                    => req[q].pc \in {"stream", "commit"} \/ blob'[req[q].file] # Absent,
           \A f \in Files : HasRow(f)' =>
               \/ HasRow(f)
               \/ /\ f \in issued'
                  /\ f \in Excused' \/ (blob'[f] # Absent /\ Uninserted(f)'),
           \A f \in Files : blob'[f] # Absent => f \in issued',
           \A f \in Files \ Excused' : blob[f] # Absent =>
               blob'[f] # Absent \/ (~HasRow(f)' /\ Uninserted(f)')
    PROVE  MaintInv'
<1>1. IssuedInv' BY DEF MaintInv, IssuedInv, HasRow
<1>2. \A q \in Requests : Inserting(q)' => Inserting(q) /\ req'[q].file = req[q].file
    BY DEF Inserting
<1>3. InsertersInv'
  <2> SUFFICES ASSUME NEW r \in Requests, Inserting(r)', NEW f, f = req'[r].file
               PROVE  /\ \A q \in Requests \ {r} : Inserting(q)' => req'[q].file # f
                      /\ HasRow(f)' => f \in Excused'
      BY DEF InsertersInv, HasRow
  <2>1. Inserting(r) /\ req[r].file = f BY <1>2
  <2>2. \A q \in Requests \ {r} : Inserting(q)' => req'[q].file # f
      BY <1>2, <2>1 DEF MaintInv, InsertersInv
  <2>3. f \in Files
      BY <2>1, JobShape
      DEF MaintInv, AdminTypeOK, TypeOK, Inserting, InsertJobs, UpdateJobs
  <2>4. HasRow(f)' => HasRow(f) \/ f \in Excused'
      BY <2>3 DEF Uninserted
  <2>5. HasRow(f) => f \in Excused BY <2>1 DEF MaintInv, InsertersInv
  <2> QED BY <2>2, <2>4, <2>5
<1>4. PresentInv'
  <2> SUFFICES ASSUME NEW f \in Files, f \notin Excused',
                      \/ HasRow(f)'
                      \/ \E r \in Requests : Inserting(r)' /\ req'[r].file = f
                                             /\ req'[r].pc \in {"stream", "commit"}
               PROVE  blob'[f] # Absent
      BY DEF PresentInv
  <2>1. f \notin Excused OBVIOUS
  <2>2. CASE HasRow(f)'
    <3>1. HasRow(f) \/ blob'[f] # Absent BY <2>2
    <3> QED BY <2>1, <2>2, <3>1 DEF MaintInv, PresentInv
  <2>3. CASE \E r \in Requests : Inserting(r)' /\ req'[r].file = f
                                 /\ req'[r].pc \in {"stream", "commit"}
    <3>1. PICK r \in Requests : Inserting(r)' /\ req'[r].file = f
                                /\ req'[r].pc \in {"stream", "commit"}
        BY <2>3
    <3>2. Inserting(r) /\ req[r].file = f BY <1>2, <3>1
    <3>3. req[r].pc \in {"stream", "commit"} \/ blob'[f] # Absent
        BY <3>1, <3>2 DEF Inserting
    <3>4. ~Uninserted(f)' BY <3>1 DEF Uninserted
    <3> QED BY <2>1, <3>2, <3>3, <3>4 DEF MaintInv, PresentInv
  <2> QED BY <2>2, <2>3
<1> QED BY <1>1, <1>3, <1>4 DEF MaintInv

\* A handler starts to insert a file whose id is fresh.
LEMMA MaintStart ==
    ASSUME MaintInv, AdminTypeOK', SelectedInv', UNCHANGED adminVars,
           NEW r \in Requests, NEW f \in Files \ issued, NEW j,
           Start(r, j), issued' = issued \cup {f}, j.file = f, j.pc = "open"
    PROVE  MaintInv'
<1>1. /\ UNCHANGED <<row, blob, purged, rewritten, scrub, report, nameless, zapped>>
      /\ \A q \in Requests \ {r} : req'[q] = req[q]
      /\ req'[r] = j
    BY DEF Start, adminVars, MaintInv, AdminTypeOK, TypeOK
<1>2. ~HasRow(f) /\ \A q \in Requests : req[q].pc \in WritePc => req[q].file # f
    BY DEF MaintInv, IssuedInv
<1>3. IssuedInv' BY <1>1 DEF MaintInv, IssuedInv, HasRow
<1>4. InsertersInv' BY <1>1, <1>2 DEF MaintInv, InsertersInv, Inserting, HasRow, Excused
<1>5. PresentInv' BY <1>1 DEF MaintInv, PresentInv, Inserting, HasRow, Excused
<1>6. NotedInv' BY <1>1 DEF MaintInv, NotedInv
<1> QED BY <1>3, <1>4, <1>5, <1>6 DEF MaintInv

-----------------------------------------------------------------------------
(* FileStore's handlers beside maintenance. *)

\* A permanent delete works on what it selected, whatever maintenance does.
LEMMA SelectedBegin ==
    ASSUME TypeOK, SelectedInv, NEW r \in Requests, NEW u \in Users, Begin(r, u)
    PROVE  SelectedInv'
<1>1. ASSUME NEW j, Start(r, j), j.pc \in WritePc \cup {"trash"} PROVE SelectedInv'
  <2>1. \A q \in Requests : req'[q] = req[q] \/ req'[q].pc \in WritePc \cup {"trash"}
      BY <1>1 DEF Start, TypeOK
  <2> QED BY <1>1, <2>1 DEF Start, SelectedInv, WritePc
<1>2. ASSUME NEW f \in Files, PurgeSelect(r, u, f) PROVE SelectedInv'
  <2>1. \A q \in Requests : req'[q] = req[q]
                            \/ req'[q] = [pc |-> "purgeRow", user |-> u, file |-> f]
      BY <1>2 DEF PurgeSelect, TypeOK
  <2> QED BY <1>2, <2>1 DEF PurgeSelect, SelectedInv
<1>3. CASE EmptySelect(r, u)
  <2> DEFINE trash == {f \in Files : Trashed(f) /\ row[f].owner = u}
             job == EmptyJob(trash)
  <2>1. purged' = purged \cup trash /\ req' = [req EXCEPT ![r] = job]
      BY <1>3 DEF EmptySelect
  <2>2. job.pc \in {"idle", "emptyRow"} /\ (job.pc = "emptyRow" => job.todo = trash)
      BY DEF EmptyJob, Idle
  <2> HIDE DEF trash, job
  <2>3. \A q \in Requests : req'[q] = req[q] \/ req'[q] = job
      BY <2>1 DEF TypeOK
  <2> QED BY <2>1, <2>2, <2>3 DEF SelectedInv
<1>4. ASSUME NEW f \in Files, SoftDeleteRead(r, u, f) PROVE SelectedInv'
    BY <1>1, <1>4 DEF SoftDeleteRead
<1>5. ASSUME NEW d \in Folders, NEW n \in Names,
             \/ CreateText(r, u, d, n)
             \/ \E c \in Contents : UploadCreate(r, u, d, n, c) \/ UploadOverwrite(r, u, d, n, c)
             \/ \E src \in Files : Copy(r, u, src, d, n)
      PROVE  SelectedInv'
  <2>1. PICK j : Start(r, j) /\ j.pc = "open"
    <3>1. CASE CreateText(r, u, d, n) BY <3>1 DEF CreateText, InsertJob
    <3>2. ASSUME NEW c \in Contents, UploadCreate(r, u, d, n, c)
          PROVE  \E j : Start(r, j) /\ j.pc = "open"
        BY <3>2 DEF UploadCreate, InsertJob
    <3>3. ASSUME NEW c \in Contents, UploadOverwrite(r, u, d, n, c)
          PROVE  \E j : Start(r, j) /\ j.pc = "open"
        BY <3>3 DEF UploadOverwrite, UpdateJob
    <3>4. ASSUME NEW src \in Files, Copy(r, u, src, d, n)
          PROVE  \E j : Start(r, j) /\ j.pc = "open"
        BY <3>4 DEF Copy, InsertJob
    <3> QED BY <1>5, <3>1, <3>2, <3>3, <3>4
  <2> QED BY <1>1, <2>1 DEF WritePc
<1>6. ASSUME NEW f \in Files, NEW c \in Contents, SaveContent(r, u, f, c) PROVE SelectedInv'
    BY <1>1, <1>6 DEF SaveContent, UpdateJob, WritePc
<1> QED BY <1>2, <1>3, <1>4, <1>5, <1>6 DEF Begin

\* Where a step of r leaves the jobs.
LEMMA ProceedJobs ==
    ASSUME TypeOK, NEW r \in Requests, Proceed(r), NEW q \in Requests
    PROVE  /\ req'[q].pc \in WritePc =>
                /\ req[q].pc \in WritePc
                /\ req'[q].file = req[q].file /\ req'[q].op = req[q].op
                /\ req'[q].pc \in {"stream", "commit"}
                     => req[q].pc \in {"stream", "commit"} \/ blob'[req[q].file] # Absent
           /\ q # r /\ req[q].pc \notin WritePc => req'[q] = req[q]
           /\ q # r /\ req[q].pc \in WritePc => req'[q].pc \in WritePc
<1>1. req \in [Requests -> Jobs] /\ req[q] \in Jobs /\ req[r] \in Jobs BY DEF TypeOK
<1>2. CASE WriteOpen(r)
  <2> DEFINE f == req[r].file
  <2>1. req[r].pc = "open" /\ req[r] \in InsertJobs \cup UpdateJobs /\ f \in Files
      BY <1>1, <1>2, JobShape DEF WriteOpen, WritePc, InsertJobs, UpdateJobs
  <2>2. blob'[f] # Absent BY <1>2, <2>1, BytesAreThere DEF WriteOpen, TypeOK, Bytes
  <2>3. CASE req'[q] = req[q] BY <2>3
  <2>4. CASE q = r /\ \E fd \in Fd : req'[q] = [req[q] EXCEPT !.pc = "stream", !.fd = fd]
      BY <2>1, <2>2, <2>4 DEF InsertJobs, UpdateJobs, WritePc
  <2>5. CASE q \in OtherWriters(r, f) /\ req'[q] = [req[q] EXCEPT !.fd = "mixed"]
    <3>1. req[q] \in InsertJobs \cup UpdateJobs
        BY <1>1, <2>5, JobShape DEF OtherWriters, Streaming, WritePc
    <3> QED BY <2>5, <3>1 DEF InsertJobs, UpdateJobs
  <2>6. CASE q \in Readers(f) /\ req'[q] = [req[q] EXCEPT !.content = Torn]
    <3>1. req[q] \in InsertJobs \cup UpdateJobs
        BY <1>1, <2>6, JobShape DEF Readers, WritePc
    <3> QED BY <2>6, <3>1 DEF InsertJobs, UpdateJobs
  <2> QED BY <1>2, <2>3, <2>4, <2>5, <2>6, WriteOpenJobs
<1>3. CASE WriteDone(r)
  <2>1. CASE q # r BY <1>1, <1>3, <2>1 DEF WriteDone
  <2>2. CASE q = r
    <3>1. req[r].pc = "stream" /\ req[r] \in InsertJobs \cup UpdateJobs
        BY <1>1, <1>3, JobShape DEF WriteDone, Streaming, WritePc
    <3>2. PICK c : req' = [req EXCEPT ![r].pc = "commit", ![r].content = c, ![r].fd = "whole"]
        BY <1>3 DEF WriteDone
    <3>3. req'[r] = [req[r] EXCEPT !.pc = "commit", !.content = c, !.fd = "whole"]
        BY <1>1, <3>2
    <3> QED BY <2>2, <3>1, <3>3 DEF InsertJobs, UpdateJobs, WritePc
  <2> QED BY <2>1, <2>2
<1>4. CASE WriteFail(r)
    BY <1>1, <1>4 DEF WriteFail, Idle, WritePc
<1>5. CASE ~(WriteOpen(r) \/ WriteDone(r) \/ WriteFail(r))
  <2>1. CASE q = r BY <1>5, <2>1, RestEnds
  <2>2. CASE q # r
    <3>1. req'[q] = req[q] \/ (Streaming(q) /\ req'[q] = [req[q] EXCEPT !.fd = "lost"])
        BY <1>1, <1>5, <2>2
        DEF Proceed, InsertRow, InsertFail, UpdateRow, UpdateFail, SoftDeleteRow, PurgeRow,
            PurgeBlob, EmptyRow, EmptySkip, EmptyBlob, GiveUp, UnlinkFails, Unlink, CutWriters
    <3>2. Streaming(q) => req[q] \in InsertJobs \cup UpdateJobs
        BY <1>1, JobShape DEF Streaming, WritePc
    <3> QED BY <2>2, <3>1, <3>2 DEF InsertJobs, UpdateJobs
  <2> QED BY <2>1, <2>2
<1> QED BY <1>2, <1>3, <1>4, <1>5

LEMMA SelectedProceed ==
    ASSUME TypeOK, SelectedInv, NEW r \in Requests, Proceed(r)
    PROVE  SelectedInv'
<1> DEFINE j == req[r]
<1>1. j \in Jobs /\ req \in [Requests -> Jobs] BY DEF TypeOK
<1>2. purged' = purged
    BY DEF Proceed, WriteOpen, WriteDone, WriteFail, InsertRow, InsertFail, UpdateRow,
           UpdateFail, SoftDeleteRow, PurgeRow, PurgeBlob, EmptyRow, EmptySkip, EmptyBlob,
           GiveUp, UnlinkFails
<1>3. ASSUME NEW q \in Requests, q # r
      PROVE  req'[q] = req[q] \/ req'[q].pc \in WritePc
    BY <1>3, ProceedJobs
<1> DEFINE Sound(k) ==
        /\ k.pc \in {"purgeRow", "purgeBlob", "emptyBlob"} => k.file \in purged
        /\ k.pc \in {"emptyRow", "emptyBlob"} => k.todo \subseteq purged
<1>4. Sound(j) BY DEF SelectedInv
<1>5. Sound(req'[r])
  <2>1. Sound(Idle) BY DEF Idle
  <2>2. ASSUME NEW todo, todo \subseteq purged PROVE Sound(EmptyJob(todo))
      BY <2>2 DEF EmptyJob, Idle
  <2>3. \A k : k.pc \in WritePc => Sound(k) BY DEF WritePc
  <2>4. CASE WriteOpen(r) \/ WriteDone(r) \/ WriteFail(r)
    <3>1. CASE WriteFail(r) BY <1>1, <2>1, <3>1 DEF WriteFail
    <3>2. CASE WriteOpen(r) \/ WriteDone(r)
      <4>1. j \in InsertJobs \cup UpdateJobs
          BY <1>1, <3>2, JobShape DEF WriteOpen, WriteDone, Streaming, WritePc
      <4>2. req'[r].pc \in WritePc
        <5>1. CASE WriteOpen(r)
          <6>1. r \notin OtherWriters(r, j.file) /\ r \notin Readers(j.file) \ {r}
              BY DEF OtherWriters
          <6>2. req'[r].pc = "stream"
              BY <4>1, <5>1, <6>1 DEF WriteOpen, InsertJobs, UpdateJobs
          <6> QED BY <6>2 DEF WritePc
        <5>2. CASE WriteDone(r)
          <6>1. PICK c : req' = [req EXCEPT ![r].pc = "commit", ![r].content = c,
                                            ![r].fd = "whole"]
              BY <5>2 DEF WriteDone
          <6>2. req'[r] = [j EXCEPT !.pc = "commit", !.content = c, !.fd = "whole"]
              BY <1>1, <6>1
          <6> QED BY <4>1, <6>2 DEF InsertJobs, UpdateJobs, WritePc
        <5> QED BY <3>2, <5>1, <5>2
      <4> QED BY <2>3, <4>2
    <3> QED BY <2>4, <3>1, <3>2
  <2>5. CASE \/ InsertRow(r) \/ UpdateRow(r) \/ UpdateFail(r) \/ SoftDeleteRow(r)
             \/ GiveUp(r)
      BY <1>1, <2>1, <2>5 DEF InsertRow, UpdateRow, UpdateFail, SoftDeleteRow, GiveUp
  <2>6. CASE InsertFail(r) \/ PurgeBlob(r)
      BY <2>1, <2>6 DEF InsertFail, PurgeBlob, Unlink, CutWriters
  <2>7. CASE PurgeRow(r)
    <3>1. j \in PurgeJobs BY <1>1, <2>7, JobShape DEF PurgeRow
    <3>2. req'[r] = [j EXCEPT !.pc = "purgeBlob"] BY <1>1, <2>7 DEF PurgeRow
    <3> QED BY <1>4, <2>7, <3>1, <3>2 DEF PurgeRow, PurgeJobs
  <2>8. CASE EmptyRow(r)
    <3>1. PICK f \in j.todo : req' = [req EXCEPT ![r] =
              [pc |-> "emptyBlob", file |-> f, todo |-> j.todo \ {f}]]
        BY <2>8 DEF EmptyRow
    <3> QED BY <1>1, <1>4, <2>8, <3>1 DEF EmptyRow
  <2>9. CASE EmptySkip(r)
    <3>1. PICK f \in j.todo : req' = [req EXCEPT ![r] = EmptyJob(j.todo \ {f})]
        BY <2>9 DEF EmptySkip
    <3>2. j.todo \ {f} \subseteq purged BY <1>4, <2>9 DEF EmptySkip
    <3> HIDE DEF Sound
    <3> QED BY <1>1, <2>2, <3>1, <3>2
  <2>10. CASE EmptyBlob(r)
    <3>1. j.todo \subseteq purged BY <1>4, <2>10 DEF EmptyBlob
    <3>2. req'[r] = EmptyJob(j.todo) BY <2>10 DEF EmptyBlob, Unlink, CutWriters
    <3> HIDE DEF Sound
    <3> QED BY <2>2, <3>1, <3>2
  <2>11. CASE UnlinkFails(r)
    <3>1. req'[r] = IF j.pc = "emptyBlob" THEN EmptyJob(j.todo) ELSE Idle
        BY <1>1, <2>11 DEF UnlinkFails
    <3>2. j.pc = "emptyBlob" => j.todo \subseteq purged BY <1>4
    <3> HIDE DEF Sound
    <3> QED BY <2>1, <2>2, <3>1, <3>2
  <2> QED BY <2>4, <2>5, <2>6, <2>7, <2>8, <2>9, <2>10, <2>11 DEF Proceed
<1>6. \A q \in Requests : Sound(req'[q])
  <2>1. ASSUME NEW q \in Requests, q # r PROVE Sound(req'[q])
    <3>1. CASE req'[q] = req[q] BY <3>1 DEF SelectedInv
    <3>2. CASE req'[q].pc \in WritePc BY <3>2 DEF WritePc
    <3> QED BY <1>3, <2>1, <3>1, <3>2
  <2> QED BY <1>5, <2>1
<1> QED BY <1>2, <1>6 DEF SelectedInv

\* What a step of r makes of the rows and the blobs.
LEMMA ProceedEffects ==
    ASSUME TypeOK, NEW r \in Requests, Proceed(r), NEW f \in Files
    PROVE  /\ UNCHANGED <<issued, from, purged>>
           /\ HasRow(f)' => HasRow(f) \/ (InsertRow(r) /\ f = req[r].file)
           /\ blob'[f] # Absent => blob[f] # Absent \/ (req[r].pc \in WritePc /\ f = req[r].file)
           /\ blob'[f] = Absent /\ blob[f] # Absent =>
                f = req[r].file /\ (InsertFail(r) \/ PurgeBlob(r) \/ EmptyBlob(r))
<1> DEFINE j == req[r]
<1>1. j \in Jobs /\ row \in [Files -> Rows \cup {NoRow}] /\ blob \in [Files -> Bytes \cup {Absent}]
    BY DEF TypeOK
<1>2. UNCHANGED <<issued, from, purged>>
    BY DEF Proceed, WriteOpen, WriteDone, WriteFail, InsertRow, InsertFail, UpdateRow,
           UpdateFail, SoftDeleteRow, PurgeRow, PurgeBlob, EmptyRow, EmptySkip, EmptyBlob,
           GiveUp, UnlinkFails
<1>3. HasRow(f)' => HasRow(f) \/ (InsertRow(r) /\ f = j.file)
  <2>1. CASE row' = row BY <2>1 DEF HasRow
  <2>2. CASE InsertRow(r) BY <1>1, <2>2 DEF InsertRow, HasRow
  <2>3. CASE UpdateRow(r) BY <1>1, <2>3 DEF UpdateRow, HasRow
  <2>4. CASE SoftDeleteRow(r) BY <1>1, <2>4, LiveHasRow DEF SoftDeleteRow, HasRow
  <2>5. CASE PurgeRow(r) \/ EmptyRow(r) BY <1>1, <2>5 DEF PurgeRow, EmptyRow, HasRow
  <2>6. CASE \/ WriteOpen(r) \/ WriteDone(r) \/ WriteFail(r) \/ InsertFail(r)
             \/ UpdateFail(r) \/ PurgeBlob(r) \/ EmptySkip(r) \/ EmptyBlob(r)
             \/ GiveUp(r) \/ UnlinkFails(r)
      BY <2>1, <2>6 DEF WriteOpen, WriteDone, WriteFail, InsertFail, UpdateFail, PurgeBlob,
                        EmptySkip, EmptyBlob, GiveUp, UnlinkFails
  <2> QED BY <2>2, <2>3, <2>4, <2>5, <2>6 DEF Proceed
<1>4. /\ blob'[f] # Absent => blob[f] # Absent \/ (j.pc \in WritePc /\ f = j.file)
      /\ blob'[f] = Absent /\ blob[f] # Absent =>
           f = j.file /\ (InsertFail(r) \/ PurgeBlob(r) \/ EmptyBlob(r))
  <2>1. CASE WriteOpen(r)
      BY <1>1, <2>1, BytesAreThere DEF WriteOpen, WritePc, Bytes
  <2>2. CASE WriteDone(r) \/ WriteFail(r)
    <3>1. j.pc = "stream" /\ j \in InsertJobs \cup UpdateJobs
        BY <1>1, <2>2, JobShape DEF WriteDone, WriteFail, Streaming, WritePc
    <3>2. PICK c \in Bytes : \E b \in Landed(r, c) : blob' = [blob EXCEPT ![j.file] = b]
      <4>1. Received(r) \subseteq Bytes BY <3>1 DEF Received, Bytes, InsertJobs, UpdateJobs
      <4>2. Torn \in Bytes BY DEF Bytes
      <4> QED BY <2>2, <4>1, <4>2 DEF WriteDone, WriteFail
    <3>3. PICK b \in Landed(r, c) : blob' = [blob EXCEPT ![j.file] = b] BY <3>2
    <3>4. b = blob[j.file] \/ b \in Bytes
        BY <3>1 DEF Landed, Fd, Bytes, InsertJobs, UpdateJobs
    <3> QED BY <1>1, <3>1, <3>3, <3>4, BytesAreThere DEF WritePc
  <2>3. CASE InsertFail(r) \/ PurgeBlob(r) \/ EmptyBlob(r)
      BY <1>1, <2>3 DEF InsertFail, PurgeBlob, EmptyBlob, Unlink
  <2>4. CASE blob' = blob BY <2>4
  <2>5. CASE \/ InsertRow(r) \/ UpdateRow(r) \/ UpdateFail(r) \/ SoftDeleteRow(r)
             \/ PurgeRow(r) \/ EmptyRow(r) \/ EmptySkip(r) \/ GiveUp(r) \/ UnlinkFails(r)
      BY <2>4, <2>5 DEF InsertRow, UpdateRow, UpdateFail, SoftDeleteRow, PurgeRow, EmptyRow,
                        EmptySkip, GiveUp, UnlinkFails
  <2> QED BY <2>1, <2>2, <2>3, <2>5 DEF Proceed
<1> QED BY <1>2, <1>3, <1>4

LEMMA ProceedMaint ==
    ASSUME MaintInv, NEW r \in Requests, Proceed(r), UNCHANGED adminVars
    PROVE  MaintInv'
<1>1. AdminTypeOK' BY ProceedType DEF MaintInv, AdminTypeOK, adminVars
<1>2. SelectedInv' BY SelectedProceed DEF MaintInv, AdminTypeOK
<1>3. NotedInv' BY DEF MaintInv, NotedInv, adminVars
<1>4. UNCHANGED <<issued, from, purged>>
    BY DEF Proceed, WriteOpen, WriteDone, WriteFail, InsertRow, InsertFail, UpdateRow,
           UpdateFail, SoftDeleteRow, PurgeRow, PurgeBlob, EmptyRow, EmptySkip, EmptyBlob,
           GiveUp, UnlinkFails
<1>5. UNCHANGED Excused BY <1>4 DEF Excused, adminVars
<1>6. /\ nameless' \subseteq issued' /\ (scrub'.pc = "query" => scrub'.listed \subseteq issued')
      /\ issued \subseteq issued' /\ Excused \subseteq Excused'
    BY <1>4, <1>5 DEF MaintInv, IssuedInv, AdminTypeOK, adminVars
<1>7. \A q \in Requests : req'[q].pc \in WritePc =>
          /\ req[q].pc \in WritePc
          /\ req'[q].file = req[q].file /\ req'[q].op = req[q].op
          /\ req'[q].pc \in {"stream", "commit"}
               => req[q].pc \in {"stream", "commit"} \/ blob'[req[q].file] # Absent
    BY ProceedJobs DEF MaintInv, AdminTypeOK
\* The step ends the only insert of its file.
<1>8. ASSUME NEW f, f = req[r].file, InsertRow(r) \/ InsertFail(r)
      PROVE  Inserting(r) /\ req[r].pc = "commit" /\ Uninserted(f)'
  <2>1. Inserting(r) /\ req[r].pc = "commit"
      BY <1>8 DEF InsertRow, InsertFail, Committing, Inserting, WritePc
  <2>2. req'[r].pc \notin WritePc
    <3>1. CASE InsertRow(r) BY <3>1 DEF InsertRow, Idle, WritePc, MaintInv, AdminTypeOK, TypeOK
    <3>2. CASE InsertFail(r) BY <3>2 DEF InsertFail, Unlink, CutWriters, Idle, WritePc
    <3> QED BY <1>8, <3>1, <3>2
  <2>3. \A q \in Requests : Inserting(q)' => q # r /\ Inserting(q) /\ req'[q].file = req[q].file
      BY <1>7, <2>2 DEF Inserting
  <2>4. \A q \in Requests \ {r} : Inserting(q) => req[q].file # f
      BY <1>8, <2>1 DEF MaintInv, InsertersInv
  <2> QED BY <2>1, <2>3, <2>4 DEF Uninserted
<1>9. ASSUME NEW f \in Files, HasRow(f)'
      PROVE  \/ HasRow(f)
             \/ f \in issued' /\ (f \in Excused' \/ (blob'[f] # Absent /\ Uninserted(f)'))
  <2>1. CASE InsertRow(r) /\ f = req[r].file
    <3>1. Inserting(r) /\ req[r].pc = "commit" /\ Uninserted(f)' BY <1>8, <2>1
    <3>2. blob' = blob BY <2>1 DEF InsertRow
    <3>3. f \notin Excused => blob[f] # Absent BY <2>1, <3>1 DEF MaintInv, PresentInv
    <3>4. f \in issued BY <2>1, <3>1 DEF MaintInv, IssuedInv, Inserting
    <3> QED BY <1>4, <1>5, <3>1, <3>2, <3>3, <3>4
  <2> QED BY <1>9, <2>1, ProceedEffects DEF MaintInv, AdminTypeOK
<1>10. ASSUME NEW f \in Files, blob'[f] # Absent PROVE f \in issued'
    BY <1>4, <1>10, ProceedEffects DEF MaintInv, IssuedInv, AdminTypeOK
<1>11. ASSUME NEW f \in Files, f \notin Excused', blob[f] # Absent, blob'[f] = Absent
       PROVE  ~HasRow(f)' /\ Uninserted(f)'
  <2>1. f = req[r].file /\ (InsertFail(r) \/ PurgeBlob(r) \/ EmptyBlob(r))
      BY <1>11, ProceedEffects DEF MaintInv, AdminTypeOK
  <2>2. ~(PurgeBlob(r) \/ EmptyBlob(r))
      BY <1>5, <1>11, <2>1 DEF PurgeBlob, EmptyBlob, MaintInv, SelectedInv, Excused
  <2>3. Inserting(r) /\ Uninserted(f)' BY <1>8, <2>1, <2>2
  <2>4. ~HasRow(f) BY <1>5, <1>11, <2>1, <2>3 DEF MaintInv, InsertersInv
  <2> QED BY <2>1, <2>2, <2>3, <2>4 DEF InsertFail, HasRow
<1> QED BY <1>1, <1>2, <1>3, <1>6, <1>7, <1>9, <1>10, <1>11, MaintStep

\* The form MaintStep takes when rows, blobs and the write jobs stay.
LEMMA MaintQuiet ==
    ASSUME MaintInv, AdminTypeOK', SelectedInv', NotedInv', UNCHANGED <<blob, issued, from>>,
           Excused \subseteq Excused', nameless' \subseteq issued,
           scrub'.pc = "query" => scrub'.listed \subseteq issued,
           \A f \in Files : HasRow(f)' => HasRow(f),
           \A q \in Requests : req'[q] = req[q] \/ req'[q].pc \notin WritePc
                               \/ (req'[q].pc = "open" /\ req'[q].op = "update"
                                   /\ HasRow(req'[q].file) /\ req'[q].file \in Files)
    PROVE  MaintInv'
<1>1. IssuedInv' BY DEF MaintInv, IssuedInv, HasRow
<1>2. \A q \in Requests : Inserting(q)' => Inserting(q) /\ req'[q] = req[q]
    BY DEF Inserting
<1>3. InsertersInv'
  <2> SUFFICES ASSUME NEW r \in Requests, Inserting(r)', NEW f, f = req'[r].file
               PROVE  /\ \A q \in Requests \ {r} : Inserting(q)' => req'[q].file # f
                      /\ HasRow(f)' => f \in Excused'
      BY DEF InsertersInv, HasRow
  <2>1. Inserting(r) /\ req[r].file = f BY <1>2
  <2>2. f \in Files
      BY <2>1, JobShape
      DEF MaintInv, AdminTypeOK, TypeOK, Inserting, InsertJobs, UpdateJobs
  <2> QED BY <1>2, <2>1, <2>2 DEF MaintInv, InsertersInv
<1>4. PresentInv'
  <2> SUFFICES ASSUME NEW f \in Files, f \notin Excused',
                      \/ HasRow(f)'
                      \/ \E r \in Requests : Inserting(r)' /\ req'[r].file = f
                                             /\ req'[r].pc \in {"stream", "commit"}
               PROVE  blob'[f] # Absent
      BY DEF PresentInv
  <2> QED BY <1>2 DEF MaintInv, PresentInv
<1> QED BY <1>1, <1>3, <1>4 DEF MaintInv

LEMMA BeginMaint ==
    ASSUME MaintInv, NEW r \in Requests, NEW u \in Users, Begin(r, u), UNCHANGED adminVars
    PROVE  MaintInv'
<1>1. AdminTypeOK' BY BeginType DEF MaintInv, AdminTypeOK, adminVars
<1>2. SelectedInv' BY SelectedBegin DEF MaintInv, AdminTypeOK
<1>3. NotedInv' BY DEF MaintInv, NotedInv, adminVars
<1>4. nameless' \subseteq issued /\ (scrub'.pc = "query" => scrub'.listed \subseteq issued)
    BY DEF MaintInv, IssuedInv, AdminTypeOK, adminVars
\* Handlers that insert nothing.
<1>q. ASSUME UNCHANGED <<row, blob, issued, from>>, purged \subseteq purged', NEW j,
             req' = [req EXCEPT ![r] = j],
             \/ j.pc \notin WritePc
             \/ j.pc = "open" /\ j.op = "update" /\ HasRow(j.file) /\ j.file \in Files
      PROVE  MaintInv'
  <2>1. Excused \subseteq Excused' BY <1>q DEF Excused, adminVars
  <2>2. \A q \in Requests : req'[q] = req[q] \/ req'[q] = j
      BY <1>q DEF MaintInv, AdminTypeOK, TypeOK
  <2>3. \A f \in Files : HasRow(f)' => HasRow(f) BY <1>q DEF HasRow
  <2> QED BY <1>1, <1>2, <1>3, <1>4, <1>q, <2>1, <2>2, <2>3, MaintQuiet
<1>5. ASSUME NEW d \in Folders, NEW n \in Names, CreateText(r, u, d, n) PROVE MaintInv'
    BY <1>1, <1>2, <1>5, MaintStart DEF CreateText, InsertJob
<1>6. ASSUME NEW d \in Folders, NEW n \in Names, NEW c \in Contents,
             UploadCreate(r, u, d, n, c)
      PROVE  MaintInv'
    BY <1>1, <1>2, <1>6, MaintStart DEF UploadCreate, InsertJob
<1>7. ASSUME NEW d \in Folders, NEW n \in Names, NEW c \in Contents,
             UploadOverwrite(r, u, d, n, c)
      PROVE  MaintInv'
  <2>1. PICK f \in Conflicts(d, n) : Start(r, UpdateJob(f, c)) /\ UNCHANGED <<issued, from>>
      BY <1>7 DEF UploadOverwrite
  <2>2. f \in Files /\ HasRow(f) BY LiveHasRow DEF Conflicts
  <2> QED BY <1>q, <2>1, <2>2 DEF Start, UpdateJob
<1>8. ASSUME NEW d \in Folders, NEW n \in Names, NEW src \in Files, Copy(r, u, src, d, n)
      PROVE  MaintInv'
    BY <1>1, <1>2, <1>8, MaintStart DEF Copy, InsertJob
<1>9. ASSUME NEW f \in Files, NEW c \in Contents, SaveContent(r, u, f, c) PROVE MaintInv'
    BY <1>9, <1>q, LiveHasRow DEF SaveContent, UpdateJob, Start
<1>10. ASSUME NEW f \in Files, SoftDeleteRead(r, u, f) PROVE MaintInv'
    BY <1>10, <1>q DEF SoftDeleteRead, Start, WritePc
<1>11. ASSUME NEW f \in Files, PurgeSelect(r, u, f) PROVE MaintInv'
    BY <1>11, <1>q DEF PurgeSelect, WritePc
<1>12. CASE EmptySelect(r, u)
    BY <1>12, <1>q DEF EmptySelect, EmptyJob, Idle, WritePc
<1> QED BY <1>5, <1>6, <1>7, <1>8, <1>9, <1>10, <1>11, <1>12 DEF Begin

LEMMA StatementMaint ==
    ASSUME MaintInv, NEW u \in Users, Statement(u), UNCHANGED adminVars
    PROVE  MaintInv'
<1>1. AdminTypeOK' BY StatementType DEF MaintInv, AdminTypeOK, adminVars
<1>2. UNCHANGED <<blob, req, issued, from, purged, rewritten>>
      /\ \A f \in Files : HasRow(f)' => HasRow(f)
    BY StatementRows DEF MaintInv, AdminTypeOK, HasRow
<1>3. SelectedInv' /\ NotedInv' BY <1>2 DEF MaintInv, SelectedInv, NotedInv, adminVars
<1>4. Excused \subseteq Excused' BY <1>2 DEF Excused, adminVars
<1>5. nameless' \subseteq issued /\ (scrub'.pc = "query" => scrub'.listed \subseteq issued)
    BY DEF MaintInv, IssuedInv, AdminTypeOK, adminVars
<1> QED BY <1>1, <1>2, <1>3, <1>4, <1>5, MaintQuiet

-----------------------------------------------------------------------------
(* Maintenance. *)

\* A blob that was noted is removed: writers lose it, and nothing else changes.
LEMMA RemoveMaint ==
    ASSUME MaintInv, AdminTypeOK', NotedInv', NEW f \in nameless \cup zapped, RemoveBlob(f),
           UNCHANGED <<row, issued, from, purged, rewritten, nameless, zapped>>,
           scrub'.pc # "query" \/ scrub' = scrub
    PROVE  MaintInv'
<1>1. TypeOK /\ f \in Files BY DEF MaintInv, AdminTypeOK
<1>2. \A q \in Requests :
         \/ req'[q] = req[q]
         \/ Streaming(q) /\ req'[q] = [req[q] EXCEPT !.fd = "lost"]
    BY DEF RemoveBlob, CutWriters
<1>3. \A q \in Requests : Streaming(q) => req[q] \in InsertJobs \cup UpdateJobs
    BY <1>1, JobShape DEF TypeOK, Streaming, WritePc
<1>4. ASSUME NEW q \in Requests
      PROVE  /\ req'[q].pc = req[q].pc
             /\ req[q].pc \in WritePc => req'[q].file = req[q].file /\ req'[q].op = req[q].op
             /\ req[q].pc \notin WritePc => req'[q] = req[q]
  <2>1. CASE req'[q] = req[q] BY <2>1
  <2>2. CASE Streaming(q) /\ req'[q] = [req[q] EXCEPT !.fd = "lost"]
      BY <1>3, <2>2 DEF InsertJobs, UpdateJobs, Streaming, WritePc
  <2> QED BY <1>2, <2>1, <2>2
<1>5. SelectedInv' BY <1>4 DEF MaintInv, SelectedInv, WritePc
<1>6. blob' = [blob EXCEPT ![f] = Absent] BY DEF RemoveBlob
<1>7. UNCHANGED Excused /\ f \in Excused BY DEF Excused
<1>8. \A g \in Files : blob'[g] # Absent => g \in issued'
    BY <1>1, <1>6 DEF TypeOK, MaintInv, IssuedInv
<1>9. \A g \in Files \ Excused' : blob[g] # Absent => blob'[g] # Absent
    BY <1>1, <1>6, <1>7 DEF TypeOK
<1>10. nameless' \subseteq issued' /\ (scrub'.pc = "query" => scrub'.listed \subseteq issued')
    BY DEF MaintInv, IssuedInv, AdminTypeOK
<1>11. \A g \in Files : HasRow(g)' => HasRow(g) BY DEF HasRow
<1> QED BY <1>4, <1>5, <1>7, <1>8, <1>9, <1>10, <1>11, MaintStep

LEMMA NamelessIssued ==
    ASSUME MaintInv, NEW S \in SUBSET Files, S \subseteq OnDisk \/ S \subseteq issued
    PROVE  nameless \cup S \subseteq issued
BY DEF MaintInv, IssuedInv, OnDisk, AdminTypeOK

LEMMA ScrubMaint ==
    ASSUME MaintInv, ScrubStart \/ ScrubStep
    PROVE  MaintInv'
<1>1. AdminTypeOK' BY ScrubType DEF MaintInv
<1>n. nameless \subseteq issued BY DEF MaintInv, IssuedInv, AdminTypeOK
<1>s. \A doomed : ScrubPhase(doomed).pc \in {"off", "remove"}
                   /\ (ScrubPhase(doomed).pc = "remove" => ScrubPhase(doomed).doomed = doomed)
    BY DEF ScrubPhase
<1>2. CASE ScrubRemove
  <2>1. PICK f \in scrub.doomed : RemoveBlob(f) /\ scrub' = ScrubPhase(scrub.doomed \ {f})
      BY <1>2 DEF ScrubRemove
  <2>2. scrub.doomed \subseteq nameless BY <1>2 DEF ScrubRemove, MaintInv, NotedInv
  <2>3. NotedInv'
      BY <1>2, <1>s, <2>1, <2>2 DEF ScrubRemove, MaintInv, NotedInv
  <2>4. scrub'.pc # "query" BY <1>s, <2>1
  <2> QED BY <1>1, <1>2, <2>1, <2>2, <2>3, <2>4, RemoveMaint DEF ScrubRemove
<1>3. CASE ScrubStart \/ ScrubList \/ ScrubListPart \/ ScrubQuery \/ ScrubFail \/ ScrubSkip
  <2>1. UNCHANGED <<vars, report, zapped>>
      BY <1>3 DEF ScrubStart, ScrubList, ScrubListPart, ScrubQuery, ScrubFail, ScrubSkip
  <2>2. /\ nameless \subseteq nameless' /\ nameless' \subseteq issued
        /\ scrub'.pc = "query" => scrub'.listed \subseteq issued
        /\ scrub'.pc = "remove" => scrub'.doomed \subseteq nameless'
    <3>1. CASE ScrubStart \/ ScrubFail
        BY <1>n, <3>1 DEF ScrubStart, ScrubFail
    <3>2. CASE ScrubList \/ ScrubListPart
      <4>1. scrub'.pc = "query" /\ scrub'.listed \subseteq OnDisk /\ nameless' = nameless
          BY <3>2 DEF ScrubList, ScrubListPart
      <4> QED BY <4>1, NamelessIssued DEF OnDisk
    <3>3. CASE ScrubQuery
      <4>1. scrub.listed \in SUBSET Files /\ scrub.listed \subseteq issued
          BY <3>3, AdminShape DEF ScrubQuery, MaintInv, IssuedInv
      <4>2. PICK cut \in Cuts(scrub.listed) :
               /\ scrub' = ScrubPhase(scrub.listed \ (Known(scrub.listed) \ cut))
               /\ nameless' = nameless \cup {f \in scrub.listed : ~HasRow(f)} \cup cut
          BY <3>3 DEF ScrubQuery
      <4>3. PICK gone \in SUBSET scrub.listed :
               scrub' = ScrubPhase(gone) /\ nameless' = nameless \cup gone
          BY <4>1, <4>2, CutsAre
      <4> QED BY <1>s, <3>3, <4>1, <4>3, NamelessIssued DEF ScrubQuery
    <3>4. CASE ScrubSkip
      <4>1. PICK f \in scrub.doomed : scrub' = ScrubPhase(scrub.doomed \ {f})
          BY <3>4 DEF ScrubSkip
      <4> QED BY <1>n, <1>s, <3>4, <4>1 DEF ScrubSkip, MaintInv, NotedInv
    <3> QED BY <1>3, <3>1, <3>2, <3>3, <3>4
  <2>3. NotedInv' /\ SelectedInv' BY <2>1, <2>2 DEF MaintInv, NotedInv, SelectedInv, vars
  <2>4. Excused \subseteq Excused' BY <2>1, <2>2 DEF Excused, vars
  <2>5. UNCHANGED <<row, blob, req, issued, from>> BY <2>1 DEF vars
  <2>6. \A f \in Files : HasRow(f)' => HasRow(f) BY <2>5 DEF HasRow
  <2> QED BY <1>1, <2>2, <2>3, <2>4, <2>5, <2>6, MaintQuiet
<1> QED BY <1>2, <1>3 DEF ScrubStep

\* What the next report may hold, given the notes.
LEMMA ReportNoted ==
    ASSUME MaintInv, NEW kind, NEW ids
    PROVE  /\ ReportOf(kind, ids).kind \in {"none", kind}
           /\ ReportOf(kind, ids).ids = ids
BY DEF ReportOf, NoReport

LEMMA OrphansMaint ==
    ASSUME MaintInv, Orphans
    PROVE  MaintInv'
<1>1. AdminTypeOK' BY OrphansType DEF MaintInv
<1>2. nameless \subseteq issued /\ (scrub.pc = "query" => scrub.listed \subseteq issued)
    BY DEF MaintInv, IssuedInv, AdminTypeOK
<1>3. CASE StoragePurgeOrphans
  <2>1. PICK f \in Reported("orphans") : RemoveBlob(f) /\ report' = Cleared(f)
      BY <1>3 DEF StoragePurgeOrphans
  <2>2. report.kind = "orphans" /\ f \in nameless /\ report.ids \subseteq nameless
      BY <2>1 DEF Reported, MaintInv, NotedInv
  <2>3. NotedInv'
      BY <1>3, <2>1, <2>2, ReportNoted DEF StoragePurgeOrphans, Cleared, MaintInv, NotedInv
  <2> QED BY <1>1, <1>3, <2>1, <2>2, <2>3, RemoveMaint DEF StoragePurgeOrphans
<1>4. CASE RestoreOrphanRow
  <2>1. report.file \in nameless /\ report.ids \subseteq nameless
      BY <1>4 DEF RestoreOrphanRow, MaintInv, NotedInv
  <2>2. UNCHANGED <<blob, req, issued, from, purged, scrub, nameless, zapped>>
        /\ report' = ReportOf("orphans", report.ids)
      BY <1>4 DEF RestoreOrphanRow
  <2>3. \A f \in Files : HasRow(f)' => HasRow(f) \/ f = report.file
      BY <1>4 DEF RestoreOrphanRow, HasRow, MaintInv, AdminTypeOK, TypeOK
  <2>4. NotedInv' /\ SelectedInv'
      BY <2>1, <2>2, ReportNoted DEF MaintInv, NotedInv, SelectedInv
  <2>5. UNCHANGED Excused /\ report.file \in Excused BY <2>1, <2>2 DEF Excused
  <2>6. \A f \in Files : HasRow(f)' => HasRow(f) \/ (f \in issued' /\ f \in Excused')
      BY <1>2, <2>1, <2>2, <2>3, <2>5
  <2>7. \A f \in Files : blob'[f] # Absent => f \in issued'
      BY <2>2 DEF MaintInv, IssuedInv
  <2> QED BY <1>1, <1>2, <2>2, <2>4, <2>5, <2>6, <2>7, MaintStep
<1>5. CASE StorageScanOrphans \/ RestoreOrphanStat \/ RestoreOrphanSkip
  <2>1. UNCHANGED <<vars, scrub, zapped>>
      BY <1>5 DEF StorageScanOrphans, RestoreOrphanStat, RestoreOrphanSkip
  <2>2. /\ nameless \subseteq nameless' /\ nameless' \subseteq issued
        /\ report'.kind \in {"orphans", "restoring"} => report'.ids \subseteq nameless'
        /\ report'.kind = "restoring" => report'.file \in nameless'
        /\ report'.kind # "removing"
    <3>1. CASE StorageScanOrphans
      <4>1. PICK cut \in Cuts(OnDisk) :
               /\ report' = ReportOf("orphans", OnDisk \ (Known(OnDisk) \ cut))
               /\ nameless' = nameless \cup {f \in OnDisk : ~HasRow(f)} \cup cut
          BY <3>1 DEF StorageScanOrphans
      <4>2. PICK found \in SUBSET OnDisk :
               report' = ReportOf("orphans", found) /\ nameless' = nameless \cup found
        <5>1. OnDisk \in SUBSET Files BY DEF OnDisk
        <5> QED BY <4>1, <5>1, CutsAre
      <4>3. found \in SUBSET Files BY DEF OnDisk
      <4>4. found \subseteq OnDisk OBVIOUS
      <4>5. nameless \cup found \subseteq issued BY <4>3, <4>4, NamelessIssued
      <4>6. report'.ids = found /\ report'.kind \in {"none", "orphans"} BY <4>2, ReportNoted
      <4> QED BY <4>2, <4>5, <4>6
    <3>2. CASE RestoreOrphanStat
      <4>1. PICK f \in Reported("orphans") : report' = Restoring(f)
          BY <3>2 DEF RestoreOrphanStat
      <4>2. f \in nameless /\ report.ids \subseteq nameless
          BY <4>1 DEF Reported, MaintInv, NotedInv
      <4> QED BY <1>2, <3>2, <4>1, <4>2 DEF Restoring, RestoreOrphanStat
    <3>3. CASE RestoreOrphanSkip
      BY <1>2, <3>3, ReportNoted DEF RestoreOrphanSkip, MaintInv, NotedInv
    <3> QED BY <1>5, <3>1, <3>2, <3>3
  <2>3. NotedInv' /\ SelectedInv' BY <2>1, <2>2 DEF MaintInv, NotedInv, SelectedInv, vars
  <2>4. Excused \subseteq Excused' BY <2>1, <2>2 DEF Excused, vars
  <2>5. UNCHANGED <<row, blob, req, issued, from, scrub>> BY <2>1 DEF vars
  <2>6. \A f \in Files : HasRow(f)' => HasRow(f) BY <2>5 DEF HasRow
  <2> QED BY <1>1, <1>2, <2>2, <2>3, <2>4, <2>5, <2>6, MaintQuiet
<1> QED BY <1>3, <1>4, <1>5 DEF Orphans

LEMMA CorruptMaint ==
    ASSUME MaintInv, Corrupt
    PROVE  MaintInv'
<1>1. AdminTypeOK' BY CorruptType DEF MaintInv
<1>2. nameless \subseteq issued /\ (scrub.pc = "query" => scrub.listed \subseteq issued)
    BY DEF MaintInv, IssuedInv, AdminTypeOK
<1>3. CASE PurgeCorruptBlob
  <2>1. PICK f \in Reported("removing") : RemoveBlob(f) /\ report' = Cleared(f)
      BY <1>3 DEF PurgeCorruptBlob
  <2>2. report.kind = "removing" /\ f \in zapped /\ report.ids \subseteq zapped
      BY <2>1 DEF Reported, MaintInv, NotedInv
  <2>3. NotedInv'
      BY <1>3, <2>1, <2>2, ReportNoted DEF PurgeCorruptBlob, Cleared, MaintInv, NotedInv
  <2> QED BY <1>1, <1>3, <2>1, <2>2, <2>3, RemoveMaint DEF PurgeCorruptBlob
<1>4. CASE StorageScan \/ StoragePurgeCorrupt \/ PurgeCorruptSkip
  <2>1. UNCHANGED <<blob, req, issued, from, purged, scrub, nameless>> /\ zapped \subseteq zapped'
      BY <1>4 DEF StorageScan, StoragePurgeCorrupt, PurgeCorruptSkip, vars
  <2>2. /\ report'.kind \in {"none", "corrupt", "removing"}
        /\ report'.kind = "removing" => report'.ids \subseteq zapped'
    <3>1. CASE StorageScan
      <4>1. PICK found : report' = ReportOf("corrupt", found) BY <3>1 DEF StorageScan
      <4> QED BY <4>1, ReportNoted
    <3>2. CASE StoragePurgeCorrupt BY <3>2, ReportNoted DEF StoragePurgeCorrupt
    <3>3. CASE PurgeCorruptSkip
      <4>1. PICK f \in Reported("removing") : report' = Cleared(f)
          BY <3>3 DEF PurgeCorruptSkip
      <4>2. report.kind = "removing" /\ report.ids \subseteq zapped
          BY <4>1 DEF Reported, MaintInv, NotedInv
      <4> QED BY <3>3, <4>1, <4>2, ReportNoted DEF PurgeCorruptSkip, Cleared
    <3> QED BY <1>4, <3>1, <3>2, <3>3
  <2>3. NotedInv' /\ SelectedInv' BY <2>1, <2>2 DEF MaintInv, NotedInv, SelectedInv
  <2>4. Excused \subseteq Excused' BY <2>1 DEF Excused
  <2>5. \A f \in Files : HasRow(f)' => HasRow(f)
    <3>1. CASE StoragePurgeCorrupt
        BY <3>1, LiveHasRow DEF StoragePurgeCorrupt, HasRow
    <3>2. CASE StorageScan \/ PurgeCorruptSkip
        BY <3>2 DEF StorageScan, PurgeCorruptSkip, vars, HasRow
    <3> QED BY <1>4, <3>1, <3>2
  <2> QED BY <1>1, <1>2, <2>1, <2>3, <2>4, <2>5, MaintQuiet
<1> QED BY <1>3, <1>4 DEF Corrupt

\* No handler survives, and only blobs with writers may have changed.
LEMMA RestartMaint == MaintInv /\ Restart => MaintInv'
<1> SUFFICES ASSUME MaintInv, Restart PROVE MaintInv'
    OBVIOUS
<1>1. AdminTypeOK' BY RestartType DEF MaintInv
<1>2. /\ req' = [r \in Requests |-> Idle]
      /\ UNCHANGED <<row, issued, from, purged, nameless, zapped>>
      /\ scrub' = [pc |-> "list"] /\ report' = ReportKept
    BY DEF Restart, Crash
<1>3. \A q \in Requests : req'[q].pc = "idle" BY <1>2 DEF Idle
<1>4. \A f \in Files : blob'[f] = blob[f] \/ blob'[f] = Torn BY DEF Restart, Crash
<1>5. ASSUME NEW f \in Files, blob'[f] # Absent PROVE f \in issued
  <2>1. CASE blob'[f] = blob[f] BY <1>5, <2>1 DEF MaintInv, IssuedInv
  <2>2. CASE blob'[f] # blob[f]
    <3>1. PICK q \in Requests : Streaming(q) /\ req[q].file = f
        BY <2>2 DEF Restart, Crash
    <3> QED BY <3>1 DEF Streaming, WritePc, MaintInv, IssuedInv
  <2> QED BY <2>1, <2>2
<1>6. IssuedInv' BY <1>2, <1>3, <1>5 DEF MaintInv, IssuedInv, HasRow, WritePc
<1>7. InsertersInv' /\ SelectedInv'
    BY <1>3 DEF InsertersInv, SelectedInv, Inserting, WritePc
<1>8. PresentInv'
    BY <1>2, <1>3, <1>4 DEF MaintInv, PresentInv, HasRow, Excused, Absent, Torn
<1>9. NotedInv'
  <2>1. /\ report'.kind \in {"none", "orphans", "corrupt"}
        /\ report'.kind = "orphans" => report'.ids \subseteq nameless
    <3>1. CASE report.kind \in {"restoring", "removing"}
        BY <1>2, <3>1, ReportNoted DEF ReportKept, NoReport, MaintInv, NotedInv
    <3>2. CASE report.kind \notin {"restoring", "removing"}
        BY <1>2, <3>2
        DEF ReportKept, Reports, NoReport, MaintInv, NotedInv, AdminTypeOK
    <3> QED BY <3>1, <3>2
  <2> QED BY <1>2, <2>1 DEF NotedInv
<1> QED BY <1>1, <1>6, <1>7, <1>8, <1>9 DEF MaintInv

THEOREM MaintInvariance == AdminSpec => []MaintInv
<1>1. AdminInit => MaintInv
  <2> SUFFICES ASSUME AdminInit PROVE MaintInv
      OBVIOUS
  <2>1. /\ \A f \in Files : ~HasRow(f) /\ blob[f] = Absent
        /\ \A r \in Requests : req[r].pc = "idle"
      BY DEF AdminInit, Init, HasRow, Idle
  <2> QED BY <2>1, AdminInitType
      DEF AdminInit, MaintInv, IssuedInv, InsertersInv, PresentInv, SelectedInv, NotedInv,
          Inserting, WritePc, NoReport
<1>2. MaintInv /\ [AdminNext]_avars => MaintInv'
  <2> SUFFICES ASSUME MaintInv, [AdminNext]_avars PROVE MaintInv'
      OBVIOUS
  <2>1. CASE UNCHANGED avars
      BY <2>1 DEF avars, MaintInv, AdminTypeOK, TypeOK, IssuedInv, InsertersInv, PresentInv,
                  SelectedInv, NotedInv, Inserting, HasRow, Excused
  <2>2. CASE Serve /\ UNCHANGED adminVars
      BY <2>2, BeginMaint, ProceedMaint, StatementMaint DEF Serve
  <2>3. CASE Restart BY <2>3, RestartMaint
  <2>4. CASE ScrubStart \/ ScrubStep BY <2>4, ScrubMaint
  <2>5. CASE Orphans BY <2>5, OrphansMaint
  <2>6. CASE Corrupt BY <2>6, CorruptMaint
  <2> QED BY <2>1, <2>2, <2>3, <2>4, <2>5, <2>6 DEF AdminNext, Orphans, Corrupt
<1> QED BY <1>1, <1>2, PTL DEF AdminSpec

\* Scrubs, reports and the handlers together take the bytes of no file that has a row,
\* but of one that was deleted for good, noted without its row, or purged as corrupt.
THEOREM MaintenanceKeeps == AdminSpec => []KeptByMaintenance
<1>1. MaintInv => KeptByMaintenance
    BY DEF MaintInv, PresentInv, KeptByMaintenance, Excused
<1> QED BY <1>1, MaintInvariance, PTL
=============================================================================
