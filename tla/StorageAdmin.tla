---------------------------- MODULE StorageAdmin ----------------------------
(***************************************************************************)
(* The storage root under maintenance: the scrub that runs at every start  *)
(* (and whenever an admin asks), the orphan scan with its purge and its    *)
(* restore, and the corrupt-file scan with its purge.  All of them compare *)
(* a picture of the disk with a later picture of table `files`, and act    *)
(* later still, while FileStore's handlers keep running.  There is one     *)
(* admin, who sends one request at a time; one scrub runs beside it.       *)
(*                                                                         *)
(* A listing is one step: what becomes of a blob does not depend on when   *)
(* the others were listed.  The storage root fits one batch of 500.        *)
(***************************************************************************)
EXTENDS FileStore

CONSTANTS
    Admin,        \* the admin who works through the reports
    CleanupFolder,\* "Restored from cleanup" in the admin's root
    OrphanName,   \* what a restored orphan is called (its id)
    Encrypted,    \* FILE_ENCRYPT_KEY is set
    Faults        \* calls of scrub and scan to the disk and to the database may fail

ASSUME AdminAssumption ==
    /\ Admin \in Users
    /\ CleanupFolder \in Folders
    /\ FolderOwner[CleanupFolder] = Admin
    /\ OrphanName \in Names
    /\ Encrypted \in BOOLEAN
    /\ Faults \in BOOLEAN

VARIABLES
    scrub,     \* the running scrub
    report,    \* the scan report the admin has, or the handler at work on it
    nameless,  \* history: ids whose blob a scan or scrub found, and no row for it
    zapped     \* history: ids given to StoragePurgeCorrupt

adminVars == <<scrub, report, nameless, zapped>>
avars == <<row, blob, req, issued, from, purged, rewritten,
           scrub, report, nameless, zapped>>

Scrubs == [pc: {"off", "list"}]
     \cup [pc: {"query"}, listed: SUBSET Files]
     \cup [pc: {"remove"}, doomed: SUBSET Files]

NoReport == [kind |-> "none", ids |-> {}]

Reports == {NoReport}
      \cup [kind: {"orphans", "corrupt", "removing"}, ids: (SUBSET Files) \ {{}}]
      \cup [kind: {"restoring"}, ids: SUBSET Files, file: Files, content: Bytes]

AdminTypeOK ==
    /\ TypeOK
    /\ scrub \in Scrubs
    /\ report \in Reports
    /\ nameless \subseteq Files
    /\ zapped \subseteq Files

OnDisk == {f \in Files : blob[f] # Absent}

\* Mutant: trashed rows are left out.
KnownLive(ids) == {f \in ids : Live(f)}

\* SELECT id FROM files WHERE id = ANY(ids): live or trashed, any row will do.
Known(ids) == {f \in ids : HasRow(f)}

\* The rows the loop over the answer may miss: one that does not scan is passed over, and
\* rows.Err() is never asked whether the loop ended because the connection broke.
Cuts(ids) == IF Faults THEN SUBSET {f \in ids : HasRow(f)} ELSE {{}}

\* os.Remove under whatever is running; no error if the blob is gone already.
RemoveBlob(f) ==
    /\ blob' = [blob EXCEPT ![f] = Absent]
    /\ req' = CutWriters(f)

-----------------------------------------------------------------------------
(* RunStorageScrub: list, ask which ids have a row, remove the others. *)

ScrubPhase(doomed) == IF doomed = {} THEN [pc |-> "off"]
                                     ELSE [pc |-> "remove", doomed |-> doomed]

\* POST /admin/storage/scrub
ScrubStart ==
    /\ scrub.pc = "off"
    /\ scrub' = [pc |-> "list"]
    /\ UNCHANGED <<vars, report, nameless, zapped>>

ScrubList ==
    /\ scrub.pc = "list"
    /\ scrub' = [pc |-> "query", listed |-> OnDisk]
    /\ UNCHANGED <<vars, report, nameless, zapped>>

\* A shard or an entry cannot be read: the listing leaves its blobs out.
ScrubListPart ==
    /\ Faults /\ scrub.pc = "list"
    /\ \E seen \in SUBSET OnDisk :
        /\ seen # OnDisk
        /\ scrub' = [pc |-> "query", listed |-> seen]
    /\ UNCHANGED <<vars, report, nameless, zapped>>

ScrubQuery ==
    /\ scrub.pc = "query"
    /\ \E cut \in Cuts(scrub.listed) :
        /\ scrub' = ScrubPhase(scrub.listed \ (Known(scrub.listed) \ cut))
        /\ nameless' = nameless \cup {f \in scrub.listed : ~HasRow(f)} \cup cut
    /\ UNCHANGED <<vars, report, zapped>>

\* The root cannot be read or the query does not start: the scrub ends there.
ScrubFail ==
    /\ Faults /\ scrub.pc \in {"list", "query"}
    /\ scrub' = [pc |-> "off"]
    /\ UNCHANGED <<vars, report, nameless, zapped>>

ScrubRemove ==
    /\ scrub.pc = "remove"
    /\ \E f \in scrub.doomed :
        /\ RemoveBlob(f)
        /\ scrub' = ScrubPhase(scrub.doomed \ {f})
    /\ UNCHANGED <<row, issued, from, purged, rewritten, report, nameless, zapped>>

\* os.Remove fails: the blob is logged and passed over.
ScrubSkip ==
    /\ Faults /\ scrub.pc = "remove"
    /\ \E f \in scrub.doomed : scrub' = ScrubPhase(scrub.doomed \ {f})
    /\ UNCHANGED <<vars, report, nameless, zapped>>

-----------------------------------------------------------------------------
(* The admin's orphan report. *)

Reported(kind) == IF report.kind = kind THEN report.ids ELSE {}

ReportOf(kind, ids) == IF ids = {} THEN NoReport ELSE [kind |-> kind, ids |-> ids]

\* The admin sends one request at a time.
AdminWaits == report.kind \in {"restoring", "removing"}

Cleared(f) == ReportOf(report.kind, report.ids \ {f})

StorageScanOrphans ==
    /\ ~AdminWaits
    /\ \E cut \in Cuts(OnDisk) :
        /\ report' = ReportOf("orphans", OnDisk \ (Known(OnDisk) \ cut))
        /\ nameless' = nameless \cup {f \in OnDisk : ~HasRow(f)} \cup cut
    /\ UNCHANGED <<vars, scrub, zapped>>

\* Any id of the report, however old the report is.
StoragePurgeOrphans ==
    /\ \E f \in Reported("orphans") :
        /\ RemoveBlob(f)
        /\ report' = Cleared(f)
    /\ UNCHANGED <<row, issued, from, purged, rewritten, scrub, nameless, zapped>>

Restoring(f) == [kind |-> "restoring", ids |-> report.ids \ {f},
                 file |-> f, content |-> blob[f]]

\* Mutant: the blob is not looked at before its row is made.
RestoreOrphanUnseen ==
    /\ \E f \in Reported("orphans") : report' = Restoring(f)
    /\ UNCHANGED <<vars, scrub, nameless, zapped>>

\* StorageRestoreOrphans takes up a blob that is there and measures it ...
RestoreOrphanStat ==
    /\ \E f \in Reported("orphans") : blob[f] # Absent /\ report' = Restoring(f)
    /\ UNCHANGED <<vars, scrub, nameless, zapped>>

\* ... and then gives it a row: INSERT ... ON CONFLICT DO NOTHING.
RestoreOrphanRow ==
    /\ report.kind = "restoring"
    /\ row' = IF HasRow(report.file) THEN row
              ELSE [row EXCEPT ![report.file] =
                     [status |-> "live", owner |-> Admin, folder |-> CleanupFolder,
                      name |-> OrphanName, content |-> report.content]]
    /\ report' = ReportOf("orphans", report.ids)
    /\ UNCHANGED <<blob, req, issued, from, purged, rewritten, scrub, nameless, zapped>>

\* The INSERT fails: the id is skipped.
RestoreOrphanSkip ==
    /\ report.kind = "restoring"
    /\ report' = ReportOf("orphans", report.ids)
    /\ UNCHANGED <<vars, scrub, nameless, zapped>>

-----------------------------------------------------------------------------
(* The admin's corrupt-file report. *)

\* runCorruptScan looks at the head of the blob as it is on disk.  Damage behind the
\* head goes unseen; behind encryption every image looks damaged.
LooksDamaged(f) == blob[f] = Torn \/ (Encrypted /\ blob[f] # Absent)

StorageScan ==
    /\ ~AdminWaits
    /\ \E found \in SUBSET {f \in Files : Live(f) /\ LooksDamaged(f)} :
        report' = ReportOf("corrupt", found)
    /\ UNCHANGED <<vars, scrub, nameless, zapped>>

\* Soft-delete what is live among the ids, then remove the blobs of all of them.
StoragePurgeCorrupt ==
    /\ Reported("corrupt") # {}
    /\ row' = [f \in Files |-> IF f \in report.ids /\ Live(f)
                               THEN [row[f] EXCEPT !.status = "trash"]
                               ELSE row[f]]
    /\ report' = ReportOf("removing", report.ids)
    /\ zapped' = zapped \cup report.ids
    /\ UNCHANGED <<blob, req, issued, from, purged, rewritten, scrub, nameless>>

PurgeCorruptBlob ==
    /\ \E f \in Reported("removing") :
        /\ RemoveBlob(f)
        /\ report' = Cleared(f)
    /\ UNCHANGED <<row, issued, from, purged, rewritten, scrub, nameless, zapped>>

\* os.Remove fails: the blob is logged and passed over.
PurgeCorruptSkip ==
    /\ \E f \in Reported("removing") : report' = Cleared(f)
    /\ UNCHANGED <<vars, scrub, nameless, zapped>>

-----------------------------------------------------------------------------
AdminInit ==
    /\ Init
    /\ scrub = [pc |-> "list"]   \* startStartupStorageScrub
    /\ report = NoReport
    /\ nameless = {} /\ zapped = {}

\* The admin still has the report; a handler that was at work on it is cut off.
ReportKept == CASE report.kind = "restoring" -> ReportOf("orphans", report.ids)
                [] report.kind = "removing"  -> NoReport
                [] OTHER                     -> report

\* Mutant: startup does not launch a scrub.
RestartUnswept ==
    /\ Crash
    /\ scrub' = [pc |-> "off"]
    /\ report' = ReportKept
    /\ UNCHANGED <<nameless, zapped>>

\* The process dies and starts again: no handler survives, a new scrub begins.
Restart ==
    /\ Crash
    /\ scrub' = [pc |-> "list"]
    /\ report' = ReportKept
    /\ UNCHANGED <<nameless, zapped>>

ScrubStep ==
    ScrubList \/ ScrubListPart \/ ScrubQuery \/ ScrubFail \/ ScrubRemove \/ ScrubSkip

AdminNext ==
    \/ Serve /\ UNCHANGED adminVars
    \/ Restart
    \/ ScrubStart \/ ScrubStep
    \/ StorageScanOrphans \/ StoragePurgeOrphans
    \/ RestoreOrphanStat \/ RestoreOrphanRow \/ RestoreOrphanSkip
    \/ StorageScan \/ StoragePurgeCorrupt \/ PurgeCorruptBlob \/ PurgeCorruptSkip

AdminSpec == AdminInit /\ [][AdminNext]_avars

\* The scrub is a goroutine of its own: it is never starved for ever.
FairAdminSpec == AdminSpec /\ WF_avars(ScrubStep)

-----------------------------------------------------------------------------
(* Properties. *)

\* Maintenance takes the bytes of no file whose row every scan and scrub saw: only a
\* permanent delete, a corrupt-file purge, a scan that overlapped the file's own
\* upload, or one whose answer was cut short before the file's row can leave a row
\* without a blob.
KeptByMaintenance ==
    \A f \in Files : HasRow(f) /\ f \notin purged \cup nameless \cup zapped
                       => blob[f] # Absent

\* Why it holds.  IndInv does not survive an orphan restore, which gives a row to
\* whatever blob it finds; what remains is said of the files maintenance never met.
Excused == purged \cup nameless \cup zapped

\* Whatever has a row, a blob or a writer carries an id that was issued, and so does
\* what a listing found.
IssuedInv ==
    /\ \A f \in Files : HasRow(f) \/ blob[f] # Absent \/ f \in nameless => f \in issued
    /\ \A r \in Requests : req[r].pc \in WritePc => req[r].file \in issued
    /\ scrub.pc = "query" => scrub.listed \subseteq issued

\* A file has one inserting handler, and until that is done no row.
InsertersInv ==
    \A r \in Requests : Inserting(r) =>
        /\ \A q \in Requests \ {r} : Inserting(q) => req[q].file # req[r].file
        /\ HasRow(req[r].file) => req[r].file \in Excused

\* The blob is there from the moment the inserting handler has opened it.
PresentInv ==
    \A f \in Files \ Excused :
        \/ HasRow(f)
        \/ \E r \in Requests : Inserting(r) /\ req[r].file = f
                               /\ req[r].pc \in {"stream", "commit"}
        => blob[f] # Absent

\* Maintenance works only on what it found and noted.
NotedInv ==
    /\ scrub.pc = "remove" => scrub.doomed \subseteq nameless
    /\ report.kind \in {"orphans", "restoring"} => report.ids \subseteq nameless
    /\ report.kind = "restoring" => report.file \in nameless
    /\ report.kind = "removing" => report.ids \subseteq zapped

MaintInv ==
    /\ AdminTypeOK
    /\ IssuedInv /\ InsertersInv /\ PresentInv /\ SelectedInv /\ NotedInv

\* A blob on disk that has no row and no handler about to give it one.
Leftover(f) ==
    /\ f \in OnDisk /\ ~HasRow(f)
    /\ \A r \in Requests : req[r].pc \in {"open", "stream", "commit"} => req[r].file # f

\* What a crash or a failed upload left on disk is swept by the scrub that starts
\* after it, once the process stays up and its scrub meets no Faults.
LeftoversSwept ==
    <>[][~Restart]_avars =>
        \A f \in Files : (scrub.pc = "list" /\ Leftover(f)) ~> ~Leftover(f)

\* handler.go, StorageScrub: it "finds blobs with no matching DB record, and deletes
\* them. Safe to call at any time" -- so it never takes a blob that has a row, or
\* that a running upload is about to insert one for.
ScrubSafeAtAnyTime ==
    [][ \A f \in Files : ScrubRemove /\ blob[f] # blob'[f]
          => /\ ~HasRow(f)
             /\ \A r \in Requests : Committing(r, "insert") => req[r].file # f ]_avars

\* storage_scan.go, StoragePurgeCorrupt: rows are soft-deleted "so the files are
\* invisible to users even if the disk removal below partially fails", "the DB record
\* is already gone" -- so a purged file is not live again.
PurgedStaysInvisible == \A f \in zapped : ~Live(f)

\* storage_scan.go, corruptFile "describes a file whose stored bytes do not match an
\* expected binary format" -- so nothing whole is reported.
OnlyDamagedReported ==
    [][ StorageScan => \A f \in report'.ids : blob[f] = Torn ]_avars
=============================================================================
