------------------------------ MODULE FileStore ------------------------------
(***************************************************************************)
(* The file store behind the REST handlers: the rows of table `files`      *)
(* (is_folder = false) and the blob that Storage keeps on disk under the   *)
(* same uuid.  The two are changed by separate steps with nothing that     *)
(* ties them together, so what this module studies is whether a row and    *)
(* its bytes stay in agreement while requests interleave, fail half way or *)
(* are cut off by a crash.                                                 *)
(*                                                                         *)
(* A multi-step handler is a job in `req`; a handler that is one SQL       *)
(* statement is one action of a user.  Folders are fixed and live here,    *)
(* and so are the shares on them.  Sizes and checksums are the content a   *)
(* row records.  Whether a quota check passes is left open.                *)
(***************************************************************************)
EXTENDS FiniteSets

CONSTANTS
    Files,        \* the ids uuid.New() can return; none is returned twice
    Users,
    Folders,      \* parent_id; a folder owned by Nobody is the root (NULL)
    Names,
    Contents,     \* what a client can send
    Blank,        \* the content of a new text file
    Requests,     \* the handlers that can be running at one moment
    FolderOwner,  \* [Folders -> Users \cup {Nobody}]
    Editors,      \* [Folders -> SUBSET Users]: can_edit shares on the folder
    Deleters      \* [Folders -> SUBSET Users]: can_delete shares

Nobody == "nobody"
Absent == "absent"   \* no blob on disk
Torn   == "torn"     \* bytes that nobody sent: cut short, mixed or still growing

ASSUME ContentsAssumption ==
    /\ Blank \in Contents
    /\ Absent \notin Contents
    /\ Torn \notin Contents

ASSUME FoldersAssumption ==
    /\ Nobody \notin Users
    /\ FolderOwner \in [Folders -> Users \cup {Nobody}]
    /\ Editors \in [Folders -> SUBSET Users]
    /\ Deleters \in [Folders -> SUBSET Users]

VARIABLES
    row,        \* table files
    blob,       \* the storage root
    req,        \* the running handlers
    issued,     \* ids uuid.New() has returned
    from,       \* history: the files whose bytes a copy took, at any remove
    purged,     \* history: ids a permanent delete has selected
    rewritten   \* history: ids an in-place write has been started on

vars == <<row, blob, req, issued, from, purged, rewritten>>

-----------------------------------------------------------------------------
(* Types. *)

Bytes == Contents \cup {Torn}

NoRow == [status |-> "none"]

Rows == [status: {"live", "trash"}, owner: Users, folder: Folders,
         name: Names, content: Bytes]

Idle == [pc |-> "idle"]

WritePc == {"open", "stream", "commit"}

\* What the descriptor of a running write still means: it alone wrote the blob,
\* another writer wrote through it too, or the blob was unlinked under it.
Fd == {"whole", "mixed", "lost"}

InsertJobs == [pc: WritePc, op: {"insert"}, file: Files, content: Bytes, fd: Fd,
               reads: SUBSET Files, owner: Users, folder: Folders, name: Names]

UpdateJobs == [pc: WritePc, op: {"update"}, file: Files, content: Bytes, fd: Fd]

TrashJobs == [pc: {"trash"}, user: Users, file: Files, owner: Users]

PurgeJobs == [pc: {"purgeRow", "purgeBlob"}, user: Users, file: Files]

EmptyJobs == [pc: {"emptyRow"}, todo: SUBSET Files]
    \cup [pc: {"emptyBlob"}, file: Files, todo: SUBSET Files]

Jobs == {Idle} \cup InsertJobs \cup UpdateJobs \cup TrashJobs \cup PurgeJobs \cup EmptyJobs

TypeOK ==
    /\ row \in [Files -> Rows \cup {NoRow}]
    /\ blob \in [Files -> Bytes \cup {Absent}]
    /\ req \in [Requests -> Jobs]
    /\ issued \subseteq Files
    /\ from \in [Files -> SUBSET Files]
    /\ purged \subseteq Files
    /\ rewritten \subseteq Files

-----------------------------------------------------------------------------
(* Rows and permissions. *)

HasRow(f) == row[f] # NoRow
Live(f) == row[f].status = "live"
Trashed(f) == row[f].status = "trash"

\* FindNameConflict looks at the rows of every owner.
Conflicts(d, n) == {f \in Files : Live(f) /\ row[f].folder = d /\ row[f].name = n}

\* AuthorizeParentWrite
MayWrite(u, d) == FolderOwner[d] \in {Nobody, u} \/ u \in Editors[d]

\* Owner of the row, or a can_edit share on the file or above it.
MayEdit(u, f) == row[f].owner = u \/ u \in Editors[row[f].folder]

\* Owner of the row, owner of the parent, or a can_delete share above it.
MayDelete(u, f) == \/ row[f].owner = u
                   \/ FolderOwner[row[f].folder] = u
                   \/ u \in Deleters[row[f].folder]

\* Mutant: the case of a file without a parent is forgotten.
TrashOwnerNoRoot(f) == FolderOwner[row[f].folder]

\* Where SoftDelete sends a file: its parent's owner, or its own if it has no parent.
TrashOwner(f) == IF FolderOwner[row[f].folder] = Nobody
                 THEN row[f].owner
                 ELSE FolderOwner[row[f].folder]

-----------------------------------------------------------------------------
(* The blob on disk. *)

Streaming(q) == req[q].pc = "stream"

\* The other open descriptors through which blob f is being written.
OtherWriters(r, f) ==
    {q \in Requests \ {r} : Streaming(q) /\ req[q].file = f /\ req[q].fd # "lost"}

\* The copies that have blob f open for reading.
Readers(f) ==
    {q \in Requests : req[q].pc \in {"open", "stream"} /\ req[q].op = "insert"
                      /\ f \in req[q].reads}

\* The jobs once blob f is unlinked: writes to it go on into a file without a name.
CutWriters(f) ==
    [q \in Requests |-> IF Streaming(q) /\ req[q].file = f
                        THEN [req[q] EXCEPT !.fd = "lost"]
                        ELSE req[q]]

\* storage.Delete(f) as the last step of r, which goes on as `then`.
Unlink(r, f, then) ==
    /\ blob' = [blob EXCEPT ![f] = Absent]
    /\ req' = [CutWriters(f) EXCEPT ![r] = then]

-----------------------------------------------------------------------------
(* Handlers that store bytes: they authorise, look up what to write to, and *)
(* only then open the blob.                                                  *)

InsertJob(f, c, src, u, d, n) ==
    [pc |-> "open", op |-> "insert", file |-> f, content |-> c, fd |-> "whole",
     reads |-> src, owner |-> u, folder |-> d, name |-> n]

UpdateJob(f, c) ==
    [pc |-> "open", op |-> "update", file |-> f, content |-> c, fd |-> "whole"]

\* Start r on job j; an insert takes an id that was never issued before.
Start(r, j) ==
    /\ req[r] = Idle
    /\ req' = [req EXCEPT ![r] = j]
    /\ UNCHANGED <<row, blob, purged, rewritten>>

\* Upload and FinalizeTusUpload into a free name.
UploadCreate(r, u, d, n, c) ==
    /\ MayWrite(u, d)
    /\ Conflicts(d, n) = {}
    /\ \E f \in Files \ issued :
        /\ Start(r, InsertJob(f, c, {}, u, d, n))
        /\ issued' = issued \cup {f}
    /\ UNCHANGED from

\* The same with overwrite = true onto a name that is taken.
UploadOverwrite(r, u, d, n, c) ==
    /\ MayWrite(u, d)
    /\ \E f \in Conflicts(d, n) : Start(r, UpdateJob(f, c))
    /\ UNCHANGED <<issued, from>>

\* CreateTextFile: no look at the name, and the folder's owner becomes the owner.
CreateText(r, u, d, n) ==
    /\ MayWrite(u, d)
    /\ \E f \in Files \ issued :
        /\ Start(r, InsertJob(f, Blank, {},
                              IF FolderOwner[d] = Nobody THEN u ELSE FolderOwner[d], d, n))
        /\ issued' = issued \cup {f}
    /\ UNCHANGED from

\* Copy: the source row and its blob are looked at once, before the stream.
Copy(r, u, src, d, n) ==
    /\ Live(src) /\ row[src].owner = u
    /\ MayWrite(u, d)
    /\ \A g \in Conflicts(d, n) : row[g].owner # u   \* uniqueNameInFolder
    /\ blob[src] # Absent
    /\ \E f \in Files \ issued :
        /\ Start(r, InsertJob(f, blob[src], {src}, u, d, n))
        /\ issued' = issued \cup {f}
        /\ from' = [from EXCEPT ![f] = {src} \cup from[src]]

\* SaveContent, and the playlist editor: ReplaceContent on an existing file.
SaveContent(r, u, f, c) ==
    /\ Live(f) /\ MayEdit(u, f)
    /\ Start(r, UpdateJob(f, c))
    /\ UNCHANGED <<issued, from>>

-----------------------------------------------------------------------------
(* Storage.Write, in place: open truncates, the stream grows, then it is whole. *)

WriteOpen(r) ==
    /\ req[r].pc = "open"
    /\ LET f == req[r].file
           others == OtherWriters(r, f)
       IN  /\ blob' = [blob EXCEPT ![f] = Torn]
           /\ \E disturbed \in SUBSET (Readers(f) \ (others \cup {r})) :
                req' = [q \in Requests |->
                    CASE q = r -> [req[q] EXCEPT !.pc = "stream",
                                     !.fd = IF others = {} THEN "whole" ELSE "mixed"]
                      [] q \in others -> [req[q] EXCEPT !.fd = "mixed"]
                      [] q \in disturbed -> [req[q] EXCEPT !.content = Torn]
                      [] OTHER -> req[q]]
           /\ rewritten' = IF req[r].op = "update" THEN rewritten \cup {f} ELSE rewritten
    /\ UNCHANGED <<row, issued, from, purged>>

\* What the stream delivered.  A copy whose source was rewritten under it may have
\* read a mixture, or by luck all of what the source holds by now.
Received(r) ==
    {req[r].content} \cup
    IF req[r].op = "insert" /\ req[r].content = Torn
    THEN {blob[s] : s \in req[r].reads} \cap Contents
    ELSE {}

\* What the blob may hold when r's stream ends having delivered c.
Landed(r, c) ==
    LET b == blob[req[r].file]
    IN  CASE req[r].fd = "whole" -> {c}
          [] req[r].fd = "mixed" -> {b, c, Torn}
          [] req[r].fd = "lost"  -> {b}

WriteDone(r) ==
    /\ Streaming(r)
    /\ \E c \in Received(r) :
        /\ \E b \in Landed(r, c) : blob' = [blob EXCEPT ![req[r].file] = b]
        /\ req' = [req EXCEPT ![r].pc = "commit", ![r].content = c, ![r].fd = "whole"]
    /\ UNCHANGED <<row, issued, from, purged, rewritten>>

\* Mutant: the error of the stream is dropped and the handler goes on.
WriteFailDropped(r) ==
    /\ Streaming(r)
    /\ \E b \in Landed(r, Torn) : blob' = [blob EXCEPT ![req[r].file] = b]
    /\ req' = [req EXCEPT ![r].pc = "commit", ![r].content = Torn, ![r].fd = "whole"]
    /\ UNCHANGED <<row, issued, from, purged, rewritten>>

\* The client goes away or the disk is full: the error returns, the bytes stay.
WriteFail(r) ==
    /\ Streaming(r)
    /\ \E b \in Landed(r, Torn) : blob' = [blob EXCEPT ![req[r].file] = b]
    /\ req' = [req EXCEPT ![r] = Idle]
    /\ UNCHANGED <<row, issued, from, purged, rewritten>>

-----------------------------------------------------------------------------
(* The row follows the bytes. *)

\* Mutant: the row is written while the bytes are still coming in.
CommittingEarly(r, op) == req[r].pc \in {"stream", "commit"} /\ req[r].op = op

Committing(r, op) == req[r].pc = "commit" /\ req[r].op = op

InsertRow(r) ==
    /\ Committing(r, "insert")
    /\ ~HasRow(req[r].file)   \* PRIMARY KEY
    /\ LET j == req[r]
       IN  row' = [row EXCEPT ![j.file] =
                     [status |-> "live", owner |-> j.owner, folder |-> j.folder,
                      name |-> j.name, content |-> j.content]]
    /\ req' = [req EXCEPT ![r] = Idle]
    /\ UNCHANGED <<blob, issued, from, purged, rewritten>>

\* The quota is refused after the write, or the INSERT fails: take the bytes back.
InsertFail(r) ==
    /\ Committing(r, "insert")
    /\ Unlink(r, req[r].file, Idle)
    /\ UNCHANGED <<row, issued, from, purged, rewritten>>

\* UPDATE by id, trashed or not; if the row is gone nothing is recorded.
UpdateRow(r) ==
    /\ Committing(r, "update")
    /\ LET j == req[r]
       IN  row' = IF HasRow(j.file) THEN [row EXCEPT ![j.file].content = j.content] ELSE row
    /\ req' = [req EXCEPT ![r] = Idle]
    /\ UNCHANGED <<blob, issued, from, purged, rewritten>>

\* Mutant: the failed overwrite takes the bytes back, as a failed insert does.
UpdateFailUnlinks(r) ==
    /\ Committing(r, "update")
    /\ Unlink(r, req[r].file, Idle)
    /\ UNCHANGED <<row, issued, from, purged, rewritten>>

\* The quota is refused after the write, or the UPDATE fails: the bytes stay.
UpdateFail(r) ==
    /\ Committing(r, "update")
    /\ req' = [req EXCEPT ![r] = Idle]
    /\ UNCHANGED <<row, blob, issued, from, purged, rewritten>>

-----------------------------------------------------------------------------
(* The trash. *)

\* SoftDelete's SELECT, which settles the owner, and its guarded UPDATE; the
\* transaction is READ COMMITTED, so the row may change between the two.
SoftDeleteRead(r, u, f) ==
    /\ Live(f)
    /\ Start(r, [pc |-> "trash", user |-> u, file |-> f, owner |-> TrashOwner(f)])
    /\ UNCHANGED <<issued, from>>

SoftDeleteRow(r) ==
    /\ req[r].pc = "trash"
    /\ LET j == req[r]
       IN  row' = IF Live(j.file) /\ MayDelete(j.user, j.file)
                  THEN [row EXCEPT ![j.file].status = "trash", ![j.file].owner = j.owner]
                  ELSE row
    /\ req' = [req EXCEPT ![r] = Idle]
    /\ UNCHANGED <<blob, issued, from, purged, rewritten>>

Restore(u, f) ==
    /\ Trashed(f) /\ row[f].owner = u
    /\ row' = [row EXCEPT ![f].status = "live"]
    /\ UNCHANGED <<blob, req, issued, from, purged, rewritten>>

\* PermanentDelete: SELECT, DELETE by id and owner whatever deleted_at is by then,
\* then remove the blob without a look at how many rows the DELETE matched.
PurgeSelect(r, u, f) ==
    /\ req[r] = Idle
    /\ Trashed(f) /\ row[f].owner = u
    /\ req' = [req EXCEPT ![r] = [pc |-> "purgeRow", user |-> u, file |-> f]]
    /\ purged' = purged \cup {f}
    /\ UNCHANGED <<row, blob, issued, from, rewritten>>

PurgeRow(r) ==
    /\ req[r].pc = "purgeRow"
    /\ LET j == req[r]
       IN  row' = IF HasRow(j.file) /\ row[j.file].owner = j.user
                  THEN [row EXCEPT ![j.file] = NoRow]
                  ELSE row
    /\ req' = [req EXCEPT ![r].pc = "purgeBlob"]
    /\ UNCHANGED <<blob, issued, from, purged, rewritten>>

PurgeBlob(r) ==
    /\ req[r].pc = "purgeBlob"
    /\ Unlink(r, req[r].file, Idle)
    /\ UNCHANGED <<row, issued, from, purged, rewritten>>

\* EmptyTrashAll: collect once, then DELETE each by id alone and remove its blob.
EmptyJob(todo) == IF todo = {} THEN Idle ELSE [pc |-> "emptyRow", todo |-> todo]

\* Mutant: `deleted_at IS NOT NULL` is missing from the query.
EmptySelectAll(r, u) ==
    LET all == {f \in Files : HasRow(f) /\ row[f].owner = u}
    IN  /\ req[r] = Idle
        /\ all # {}
        /\ req' = [req EXCEPT ![r] = EmptyJob(all)]
        /\ purged' = purged \cup all
        /\ UNCHANGED <<row, blob, issued, from, rewritten>>

EmptySelect(r, u) ==
    LET trash == {f \in Files : Trashed(f) /\ row[f].owner = u}
    IN  /\ req[r] = Idle
        /\ trash # {}
        /\ req' = [req EXCEPT ![r] = EmptyJob(trash)]
        /\ purged' = purged \cup trash
        /\ UNCHANGED <<row, blob, issued, from, rewritten>>

EmptyRow(r) ==
    /\ req[r].pc = "emptyRow"
    /\ \E f \in req[r].todo :
        /\ row' = [row EXCEPT ![f] = NoRow]
        /\ req' = [req EXCEPT ![r] = [pc |-> "emptyBlob", file |-> f,
                                      todo |-> req[r].todo \ {f}]]
    /\ UNCHANGED <<blob, issued, from, purged, rewritten>>

\* A DELETE that fails skips the item, blob and all.
EmptySkip(r) ==
    /\ req[r].pc = "emptyRow"
    /\ \E f \in req[r].todo : req' = [req EXCEPT ![r] = EmptyJob(req[r].todo \ {f})]
    /\ UNCHANGED <<row, blob, issued, from, purged, rewritten>>

EmptyBlob(r) ==
    /\ req[r].pc = "emptyBlob"
    /\ Unlink(r, req[r].file, EmptyJob(req[r].todo))
    /\ UNCHANGED <<row, issued, from, purged, rewritten>>

-----------------------------------------------------------------------------
(* Handlers that are one statement, failures before the first change, crashes. *)

Rename(u, f, n) ==
    /\ Live(f) /\ MayEdit(u, f)
    /\ row' = [row EXCEPT ![f].name = n]
    /\ UNCHANGED <<blob, req, issued, from, purged, rewritten>>

Move(u, f, d) ==
    /\ Live(f) /\ row[f].owner = u /\ MayWrite(u, d)
    /\ row' = [row EXCEPT ![f].folder = d]
    /\ UNCHANGED <<blob, req, issued, from, purged, rewritten>>

\* A statement or the open fails, or the quota is refused before the write.
GiveUp(r) ==
    /\ req[r].pc \in {"open", "trash", "purgeRow"}
    /\ req' = [req EXCEPT ![r] = Idle]
    /\ UNCHANGED <<row, blob, issued, from, purged, rewritten>>

\* os.Remove fails where a handler takes bytes away: the error is dropped, they stay.
UnlinkFails(r) ==
    /\ req[r].pc \in {"purgeBlob", "emptyBlob"} \/ Committing(r, "insert")
    /\ req' = [req EXCEPT ![r] = IF req[r].pc = "emptyBlob" THEN EmptyJob(req[r].todo)
                                                            ELSE Idle]
    /\ UNCHANGED <<row, blob, issued, from, purged, rewritten>>

\* The process dies.  A blob with several writers may be left mixed.
Crash ==
    /\ \E mixed \in SUBSET {req[q].file : q \in {p \in Requests : Streaming(p)
                                                    /\ req[p].fd = "mixed"}} :
        blob' = [f \in Files |-> IF f \in mixed THEN Torn ELSE blob[f]]
    /\ req' = [r \in Requests |-> Idle]
    /\ UNCHANGED <<row, issued, from, purged, rewritten>>

-----------------------------------------------------------------------------
Init ==
    /\ row = [f \in Files |-> NoRow]
    /\ blob = [f \in Files |-> Absent]
    /\ req = [r \in Requests |-> Idle]
    /\ issued = {} /\ from = [f \in Files |-> {}] /\ purged = {} /\ rewritten = {}

\* A user starts a handler.
Begin(r, u) ==
    \/ \E d \in Folders, n \in Names :
        \/ CreateText(r, u, d, n)
        \/ \E c \in Contents : UploadCreate(r, u, d, n, c) \/ UploadOverwrite(r, u, d, n, c)
        \/ \E src \in Files : Copy(r, u, src, d, n)
    \/ \E f \in Files, c \in Contents : SaveContent(r, u, f, c)
    \/ \E f \in Files : SoftDeleteRead(r, u, f) \/ PurgeSelect(r, u, f)
    \/ EmptySelect(r, u)

\* A running handler takes its next step.
Proceed(r) ==
    \/ WriteOpen(r) \/ WriteDone(r) \/ WriteFail(r)
    \/ InsertRow(r) \/ InsertFail(r) \/ UpdateRow(r) \/ UpdateFail(r)
    \/ SoftDeleteRow(r) \/ PurgeRow(r) \/ PurgeBlob(r)
    \/ EmptyRow(r) \/ EmptySkip(r) \/ EmptyBlob(r)
    \/ GiveUp(r) \/ UnlinkFails(r)

\* A user's single statement.
Statement(u) ==
    \E f \in Files : \/ Restore(u, f)
                     \/ \E n \in Names : Rename(u, f, n)
                     \/ \E d \in Folders : Move(u, f, d)

Serve ==
    \/ \E r \in Requests : Proceed(r) \/ \E u \in Users : Begin(r, u)
    \/ \E u \in Users : Statement(u)

Next == Serve \/ Crash

Spec == Init /\ [][Next]_vars

-----------------------------------------------------------------------------
(* Properties. *)

\* A file's row describes the bytes on disk, and they are there, unless somebody
\* deletes it for good or wrote it in place: no insert path shows a row before its
\* bytes are whole, and no other request touches an id that is being inserted.
Intact ==
    \A f \in Files : HasRow(f) /\ f \notin purged \cup rewritten => blob[f] = row[f].content

\* Whatever in-place writers do and fail to do, only a permanent delete that had
\* selected the file can leave its row without a blob.
BytesKept ==
    \A f \in Files : HasRow(f) /\ f \notin purged => blob[f] # Absent

\* Bytes nobody sent are found under a row only if that very file, or one it was copied
\* from, was written in place; and a row records such bytes only by the copy of a file
\* so written: no in-place write records them of its own file, however writers mix.
TornOnlyByRewrite ==
    \A f \in Files : HasRow(f) =>
        /\ blob[f] = Torn => f \in rewritten \/ from[f] \cap rewritten # {}
        /\ row[f].content = Torn => from[f] \cap rewritten # {}

\* The store implements FileVault: content is what a download of the row finds.
Vault == INSTANCE FileVault WITH
    status <- [f \in Files |-> IF HasRow(f) THEN row[f].status
                               ELSE IF f \in purged THEN "gone" ELSE "unborn"],
    content <- [f \in Files |-> IF HasRow(f) THEN blob[f] ELSE Absent],
    condemned <- purged,
    unsettled <- rewritten

\* Every behaviour of the handlers, crashes and failures included, is one FileVault
\* allows.
ImplementsVault == Vault!Spec

-----------------------------------------------------------------------------
(* Why the properties hold: an invariant that every step preserves. *)

Inserting(r) == req[r].pc \in WritePc /\ req[r].op = "insert"
Updating(r) == req[r].pc \in WritePc /\ req[r].op = "update"

\* A file that is being inserted has no row yet and nobody has had a chance to purge
\* or rewrite it; its blob is whole by the time its row is due.
NewbornInv ==
    \A r \in Requests : Inserting(r) =>
        LET f == req[r].file
        IN  /\ f \in issued /\ ~HasRow(f) /\ f \notin purged \cup rewritten
            /\ req[r].pc \in {"open", "stream"} => req[r].fd = "whole"
            /\ req[r].pc = "commit" => blob[f] = req[r].content

\* No other handler writes to a file that is being inserted.
AloneInv ==
    \A r, q \in Requests : r # q /\ Inserting(r) /\ req[q].pc \in WritePc
                             => req[q].file # req[r].file

\* Whatever has, had or touches a row carries an id that was issued.
KnownInv ==
    /\ \A f \in Files : HasRow(f) \/ f \in purged \cup rewritten => f \in issued
    /\ \A r \in Requests : Updating(r) =>
        /\ req[r].file \in issued
        /\ req[r].pc \in {"stream", "commit"} => req[r].file \in rewritten

\* A permanent delete works only on what it selected.
SelectedInv ==
    \A r \in Requests :
        /\ req[r].pc \in {"purgeRow", "purgeBlob", "emptyBlob"} => req[r].file \in purged
        /\ req[r].pc \in {"emptyRow", "emptyBlob"} => req[r].todo \subseteq purged

IndInv ==
    /\ TypeOK
    /\ Intact /\ BytesKept
    /\ NewbornInv /\ AloneInv /\ KnownInv /\ SelectedInv

\* A copy reads files that were there before it, never one that is being inserted, and
\* they are among those it is from.
SourcesInv ==
    \A r \in Requests : Inserting(r) =>
        /\ req[r].reads \subseteq issued \cap from[req[r].file]
        /\ \A q \in Requests : Inserting(q) => req[q].file \notin req[r].reads

\* What an insert has received is torn only if it copies what was written in place, and
\* what an in-place write received never is.
WholeInv ==
    /\ TornOnlyByRewrite
    /\ \A r \in Requests :
        /\ Inserting(r) /\ req[r].content = Torn => from[req[r].file] \cap rewritten # {}
        /\ Updating(r) => req[r].content # Torn

TornInv == IndInv /\ SourcesInv /\ WholeInv

-----------------------------------------------------------------------------
(* What comments in trash.go say of the program, where the code differs. *)

\* SoftDelete: "the deleted file always lands in the PARENT FOLDER owner's trash".
AlwaysInParentsTrash ==
    \A f \in Files : Trashed(f) => row[f].owner = TrashOwner(f)

\* PermanentDelete "removes the DB record and deletes bytes from disk": the one never
\* happens without the other, so no row is ever left without its bytes.
NoRowWithoutBytes == \A f \in Files : HasRow(f) => blob[f] # Absent
=============================================================================
