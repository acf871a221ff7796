--------------------------- MODULE BackupArchives ---------------------------
(***************************************************************************)
(* A user's own archives: those kept on the server's backup disk, stored   *)
(* from the page or by the automatic backup, which skips a tree it has     *)
(* stored already, and the one downloaded to a device and restored from    *)
(* it.  Files come and go meanwhile, and the server may die once.          *)
(* An archive lists the files it is of; a blob that cannot be opened or     *)
(* copied is left out with a warning.                                      *)
(***************************************************************************)
EXTENDS Naturals, FiniteSets, FiniteSetsExt

CONSTANTS Files,
          Keep,              \* archives the pruning leaves
          MaxSecond,         \* bound: seconds, each the name of an archive
          Restores           \* restores of the device's archive

ASSUME ArchivesAssumption ==
  Keep \in Nat \ {0} /\ MaxSecond \in Nat /\ "nothing" \notin Files

VARIABLES rows, bytes,       \* files with a row, files with a blob
          second,
          archives,          \* on the disk: name, what it holds, and how far it is written
          storing,           \* the exports under way of the page and of the scheduler
          last_hash, run,    \* the tree last backed up, and the automatic run
          device, restore,   \* the downloaded archive, and the restores of it
          removed,           \* ghost: an archive was deleted, or pushed out by the user's
          unrecorded,        \* ghost: the last automatic archive's hash was not recorded
          stuck,             \* ghost: rows a restore could not take back
          doubled, crashed,  \* ghosts: two archives of one second, a death of the server
          unlike             \* ghost: an automatic export found other files than were hashed

treeVars == <<rows, bytes>>
diskVars == <<second, archives, storing, last_hash, run, removed, doubled, unlike, unrecorded>>
restoreVars == <<device, restore, stuck>>
archiveVars == <<treeVars, diskVars, restoreVars, crashed>>

Nothing == {"nothing"}                        \* no hash yet, no file on the device
Idling == [at |-> "none"]
NoRestore == [at |-> "none", todo |-> {}, has |-> {}, half |-> {}, skipped |-> {}]
NoArchive == [of |-> Nothing, has |-> {}]

ArchivesInit ==
  /\ rows = Files /\ bytes = Files /\ second = 1
  /\ archives = {} /\ storing = [w \in {"page", "auto"} |-> Idling]
  /\ last_hash = Nothing /\ run = Idling
  /\ device = NoArchive /\ restore = [r \in Restores |-> NoRestore] /\ stuck = {}
  /\ removed = FALSE /\ unrecorded = FALSE /\ doubled = FALSE /\ crashed = FALSE /\ unlike = FALSE

\* The export reads the rows, and then the blobs: those it skips are the ones that are not
\* there, and any that cannot be opened or copied.
queryExportRecords == rows
addArchiveBlobs(of) == {skipped \in SUBSET of : of \ bytes \subseteq skipped}
Half == UNION {restore[r].half : r \in Restores}

---------------------------------------------------------------------------
\* The user's files.
Upload(f) ==
  /\ f \notin rows \cup bytes \cup Half /\ rows' = rows \cup {f} /\ bytes' = bytes \cup {f}
  /\ UNCHANGED <<diskVars, restoreVars, crashed>>

Purge(f) ==
  /\ f \in rows /\ rows' = rows \ {f} /\ bytes' = bytes \ {f} /\ stuck' = stuck \ {f}
  /\ UNCHANGED <<diskVars, device, restore, crashed>>

Tick ==
  /\ second < MaxSecond /\ second' = second + 1
  /\ UNCHANGED <<treeVars, archives, storing, last_hash, run, removed, doubled, unlike,
                 unrecorded, restoreVars, crashed>>

---------------------------------------------------------------------------
\* Store: a file named by the second, truncated if there; the export; the pruning.
Named(n) == {a \in archives : a.name = n}
Create(w) ==
  /\ storing' = [storing EXCEPT ![w] = [at |-> "writing", name |-> second,
                                        of |-> queryExportRecords]]
  /\ archives' = (archives \ Named(second)) \cup
                   {[name |-> second, of |-> queryExportRecords, skipped |-> {}, whole |-> FALSE,
                      mtime |-> second]}
  /\ doubled' = (doubled \/ Named(second) # {}
                 \/ \E v \in DOMAIN storing : storing[v].at = "writing" /\ storing[v].name = second)

\* The page's Save is off while its call is under way.
storeTertiaryArchive ==
  /\ storing["page"] = Idling /\ Create("page")
  /\ UNCHANGED <<treeVars, second, last_hash, run, removed, unlike, unrecorded, restoreVars,
                 crashed>>

Written(w, skipped) ==
  [name |-> storing[w].name, of |-> storing[w].of, skipped |-> skipped, whole |-> TRUE,
   mtime |-> second]
BeingWritten(a) == \E w \in DOMAIN storing : storing[w].at = "writing" /\ storing[w].name = a.name
ModTime(a) == IF BeingWritten(a) THEN second ELSE a.mtime

\* A failed export takes with it what it wrote.
RemovePartial(w) == archives' = archives \ Named(storing[w].name)

ExportFails(w) ==
  /\ storing[w].at = "writing" /\ RemovePartial(w)
  /\ storing' = [storing EXCEPT ![w] = Idling]
  /\ run' = IF w = "auto" THEN Idling ELSE run
  /\ UNCHANGED <<treeVars, second, last_hash, removed, doubled, unlike, unrecorded, restoreVars,
                 crashed>>

\* The newest stay, the one just written among them, if it was not deleted meanwhile.
Newest(all, own) ==
  {set \in SUBSET all : /\ own \in set \/ own \notin all
                       /\ Cardinality(set) = Min({Keep, Cardinality(all)})
                       /\ \A a \in set \ {own}, b \in all \ set : ModTime(a) >= ModTime(b)}

Store(w) ==
  /\ storing[w].at = "writing" /\ storing' = [storing EXCEPT ![w] = Idling]
  /\ \E skipped \in addArchiveBlobs(storing[w].of) :
       LET here == Named(storing[w].name)
           done == Written(w, skipped)
           all == (archives \ here) \cup (IF here = {} THEN {} ELSE {done}) IN
       \E left \in Newest(all, done) :
         archives' = left /\ removed' = (removed \/ (w = "page" /\ left # all))
  /\ run' = IF w = "auto" THEN [run EXCEPT !.at = "stored"] ELSE run
  /\ UNCHANGED <<treeVars, second, last_hash, doubled, unlike, unrecorded, restoreVars, crashed>>

\* From the page's list, which has those being written as well.
deleteTertiary(a) ==
  /\ a \in archives /\ archives' = archives \ {a} /\ removed' = TRUE
  /\ UNCHANGED <<treeVars, second, storing, last_hash, run, doubled, unlike, unrecorded,
                 restoreVars, crashed>>

---------------------------------------------------------------------------
\* The automatic run: the hash of the tree; nothing to do if it is the last one's.
computeFileHash == rows
RunForUser ==
  /\ run = Idling /\ computeFileHash # last_hash
  /\ run' = [at |-> "hashed", hash |-> computeFileHash, since |-> second]
  /\ UNCHANGED <<treeVars, second, archives, storing, last_hash, removed, doubled, unlike,
                 unrecorded, restoreVars, crashed>>

AutoStore ==
  /\ run.at = "hashed" /\ run' = [run EXCEPT !.at = "storing", !.since = second] /\ Create("auto")
  /\ unlike' = (unlike \/ queryExportRecords # run.hash)
  /\ UNCHANGED <<treeVars, second, last_hash, removed, unrecorded, restoreVars, crashed>>

\* The end of it: archives of days before may be past the retention and go; the hash
\* is recorded, unless that fails, which nobody hears of.
\* A mutant: the hash recorded is that of the tree by now.
RecordNow == last_hash' = computeFileHash
RecordHash == last_hash' = run.hash

PruneByAge ==
  /\ run.at = "stored" /\ run' = Idling
  /\ \/ RecordHash /\ unrecorded' = FALSE
     \/ UNCHANGED last_hash /\ unrecorded' = TRUE
  /\ \E cutoff \in 0..run.since : archives' = {a \in archives : ModTime(a) >= cutoff}
  /\ UNCHANGED <<treeVars, second, storing, removed, doubled, unlike, restoreVars, crashed>>

---------------------------------------------------------------------------
\* To the device and back.  Nothing keeps the user from a second click on Restore.
exportBackupArchive ==
  /\ \A r \in Restores : restore[r].at = "none"
  /\ \E skipped \in addArchiveBlobs(queryExportRecords) :
       device' = [of |-> queryExportRecords, has |-> queryExportRecords \ skipped]
  /\ UNCHANGED <<treeVars, diskVars, restore, stuck, crashed>>

restoreBackupArchive(r) ==
  /\ device # NoArchive /\ restore[r].at = "none"
  /\ restore' = [restore EXCEPT ![r] = [NoRestore EXCEPT !.at = "rows", !.todo = device.of,
                                                          !.has = device.has]]
  /\ UNCHANGED <<treeVars, diskVars, device, stuck, crashed>>

\* A row that is there already is skipped.
InsertRow(r, f) ==
  /\ f \in restore[r].todo /\ restore[r].half = {}
  /\ rows' = rows \cup {f}
  /\ restore' = [restore EXCEPT
       ![r].todo = @ \ {f}, ![r].half = IF f \in rows THEN {} ELSE {f},
       ![r].skipped = IF f \in rows THEN @ \cup {f} ELSE @]
  /\ UNCHANGED <<bytes, diskVars, device, stuck, crashed>>

\* The blob follows; when the archive has none, or it cannot be written, the row goes,
\* unless that fails too.
DropRow(r) ==
  \/ rows' = rows \ restore[r].half /\ UNCHANGED stuck
  \/ stuck' = stuck \cup restore[r].half /\ UNCHANGED rows
WriteBlob(r) ==
  /\ restore[r].half # {} /\ restore' = [restore EXCEPT ![r].half = {}]
  /\ \/ /\ restore[r].half \subseteq restore[r].has
        /\ bytes' = bytes \cup restore[r].half /\ UNCHANGED <<rows, stuck>>
     \/ DropRow(r) /\ UNCHANGED bytes
  /\ UNCHANGED <<diskVars, device, crashed>>

\* The answer; the page clears the form when nothing failed, or it stays for another try.
Restored(r) ==
  /\ restore[r].at = "rows" /\ restore[r].todo = {} /\ restore[r].half = {}
  /\ restore' = [restore EXCEPT ![r] = NoRestore] /\ device' \in {device, NoArchive}
  /\ UNCHANGED <<treeVars, diskVars, stuck, crashed>>

Dies ==
  /\ ~crashed /\ crashed' = TRUE
  /\ storing' = [w \in DOMAIN storing |-> Idling] /\ run' = Idling
  /\ restore' = [r \in Restores |-> NoRestore]
  /\ UNCHANGED <<treeVars, second, archives, last_hash, removed, doubled, unlike, unrecorded,
                 device, stuck>>

ArchivesNext ==
  \/ \E f \in Files : Upload(f) \/ Purge(f)
  \/ Tick \/ storeTertiaryArchive \/ RunForUser \/ AutoStore \/ PruneByAge
  \/ \E w \in {"page", "auto"} : Store(w) \/ ExportFails(w)
  \/ \E a \in archives : deleteTertiary(a)
  \/ exportBackupArchive \/ Dies
  \/ \E r \in Restores : \/ restoreBackupArchive(r) \/ WriteBlob(r) \/ Restored(r)
                         \/ \E f \in Files : InsertRow(r, f)

ArchivesSpec == ArchivesInit /\ [][ArchivesNext]_archiveVars

---------------------------------------------------------------------------
\* When the automatic backup would skip the tree, the disk has a finished archive that is
\* of every file of the tree, with the bytes of all but those it skipped, unless an archive
\* was deleted, pushed out by ones the user stored, or truncated by one of the same second,
\* the export met another tree than the hash, or the last hash was not recorded; and short
\* of a death of the server.
Holds(a) == a.of \ a.skipped
SkippedIsStored ==
  run = Idling /\ last_hash = rows /\ ~removed /\ ~doubled /\ ~unlike /\ ~unrecorded
    /\ ~crashed => \E a \in archives : a.whole /\ rows \subseteq Holds(a) \cup a.skipped

\* What the page lists and nobody is writing is whole, short of a death of the server.
ListedIsWhole ==
  ~crashed /\ ~doubled =>
    \A a \in archives : a.whole \/ BeingWritten(a)

\* A file that a restore brought back has its bytes, whatever the archive lacks, whatever
\* failed on the way and whatever was clicked or removed meanwhile, unless its row could
\* not be taken back; and short of a death of the server.
RestoredHasBytes == ~crashed => rows \ bytes \subseteq Half \cup stuck

\* What the backup answers for is there: the archives and what they brought back.
ArchivesHold == SkippedIsStored /\ ListedIsWhole /\ RestoredHasBytes

=============================================================================
