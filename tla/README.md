# Verification of ShareDrive

TLA+ models of ShareDrive - the server (Go, `src/backend`) and the pages and
service worker that use it (TypeScript, `src/frontend`) - checked with TLC on small
instances; every safety property is also proved with TLAPS, for all constants that
satisfy the assumptions their modules name.

ShareDrive is one server process in front of PostgreSQL, Redis and a directory of
blobs, and a single-page application with caches of its own. Nothing ties these
together: no transaction spans a row and its bytes, handlers run in parallel
without locks of their own, several goroutines (scrubs, scans, backups, pushes)
work on the same tables, and a page acts on copies that were true when they were
fetched, through requests that overlap. What can go wrong is a matter of order and
of partial failure, and that is what the models are about.

## 1. Inventory

Server paths are below `src/backend/internal/`, pages below `src/frontend/src/`.
"partly" means that some operations that change state are left out; which, is said
in `PROJECT.json` ("components") and in section 7.

| Component | State it keeps | Operations | What makes it correct | Here |
|---|---|---|---|---|
| File store, REST (`files/`) | table `files`, blobs `<root>/<xx>/<uuid>` | upload, tus finalise, copy, save, new text file, rename, move, soft-delete, restore, permanent delete, empty trash | a row describes its bytes; bytes go only when somebody purged the file; a file lands in the right trash | `FileStore` |
| Storage maintenance (`admin/`) and its page | a listing of the disk, the report the admin holds | scrub, orphan scan/purge/restore, corrupt scan/purge | takes no bytes that belong to a row; left-overs are reclaimed; buttons act on what is shown | `StorageAdmin`, `ScanReport` |
| Server start (`server/`) | - | scrub, orphan cascade, quota recount, push reset | what a crash left is repaired | scrub in `StorageAdmin`, push reset in `BackupPush`; cascade and recount not |
| Scan schedule and its panels | last run, schedules, the page's copy | tick, run, save a panel | no slot is passed over that a tick finds; a panel leaves the other alone | `ScanScheduler`, `ScanPlan` |
| Uploads in the browser (`UploadZone`, duplicate workflow, `sw.js`) | entries, tus map, dialogs, caches of the worker | drop, look up names, choose, upload, pause, fail over, share to the app | what was dropped goes where and as chosen; once, by one transport | `UploadChoice`, `UploadQueue`, `FolderUpload`, `ShareTarget` |
| Files page and preview | cached listings, selection, dialogs | walk, create, rename, move, copy, delete, bulk operations, preview | a listing that counts as fresh is true | `FilesPage` |
| Text editor | text, baseline, stamp | open, type, check, put, reload | no save replaces an unseen version but through known gaps | `TextEditor` (partly) |
| Music player | list, index, audio element, server's lists | open, play, add, remove, move, shuffle, create, persist | list, index and sound agree | `Playlist` |
| Shares (`shares/`, shares page, dialog) | table `shares`, drafts | create, update, revoke, reshare | one share per recipient; a draft is saved as drawn | `Sharing` |
| Trash page | rows, ticks | restore, delete, bulk, empty | only what is in the trash, or in a folder there, is deleted for ever | `TrashPage` (partly) |
| Login (`auth/`, `middleware/`, sign-in pages) | sessions, pending logins, reset tokens | login, second factor, change, reset, logout | a changed password ends what the old one began | `SignIn` |
| Second factors | methods, pending secret | enrol, confirm, delete, retire | the last method stays; no secret lost | `MFAMethods` |
| App passwords (`webdav/apppwd.go`, dialogs) | hashes, `credCache` | create, revoke, verify | a revoked password stops working | `AppPasswords` |
| Rooms (`rooms/`, room pages) | messages, attachments, hub, marker; a shared screen | post, attach, mark read, deliver; share, change, stop | nothing unseen is marked read; every message shown; the right screen shown | `Chat`, `MeetingScreen` |
| Notes (`notes/`, editor) | `notes`, drafts, items | type, save, poll; add and edit items | typing survives; saved in the end; a row is stored once | `NoteEditor`, `NoteRows` |
| Backups (`backup/`, backup page) | archives, tokens, flags, tunnels, configuration | store, prune, restore, push, receive, connect, choose folders | what is shown is archived; what is answered is kept; flags and tunnels tell the truth | `BackupArchives`, `BackupPush`, `BuddyStore`, `Tunnel`, `BackupPicker` |
| Accounts and groups (`user/`, users page) | `users`, product access, groups | role, lock, limits, delete, access, create with groups | an administrator remains; what is stored twice agrees | `AdminUsers`, `AdminGroups` |
| Quota, folder tree, WebDAV files, OnlyOffice, room membership and guests, previews, lockout, rate limiter, audit log, mail | | | | not modelled (section 7) |
| Texts, themes, route tree, renderers, settings forms, generated files | - | - | presentation | not modelled |

How they meet: every component that stores files goes through `files.Storage` and
table `files` (WebDAV, restore and OnlyOffice write to both on their own);
maintenance reads the directory behind everybody's back; the audit log and the
quota are called from most handlers; Redis holds what expires. Pages meet the
server in requests and meet each other in React Query's cache; React applies what a
handler sets after it has returned, so handlers that run before that read what the
screen showed. Errors of secondary statements are often ignored (`_ =` on a Redis or
SQL call, a row that does not scan): what such a statement should have done then
silently has not happened.

What is hard to test is listed line by line in `PROJECT.json` ("hazards").

## 2. Modules

| Module | Models |
|---|---|
| `FileVault` | abstract: what the store promises about one file, without rows, blobs or requests |
| `FileStore` | the handlers of `files/`, step by step; its properties; the inductive invariant; the refinement of `FileVault` |
| `StorageAdmin` | extends `FileStore` with scrub, scans, purges, restores and restart |
| `FileStoreProofs`, `FileVaultProofs`, `StorageAdminProofs` | theorems, checked by TLAPS: the handlers; that they implement the vault; maintenance beside them |
| `BrowsingProofs`, `PageProofs` | theorems about the pages: dropped files and folders, listings, the player; editor, shares, trash, sign-in, share target, shared screen |
| `BackgroundProofs` | theorems about uploads, a conversation, notes, the push and the tunnel |
| `BackupProofs`, `AdministrationProofs` | theorems about the backups; about accounts, groups, second factors, app passwords and scans |
| `UploadChoice` | dropped files, the look-up of namesakes, the two dialogs, what each file is uploaded as |
| `UploadQueue` | the upload loops, tus, multipart, going offline and coming back |
| `FolderUpload` | the folders of a dropped tree, found or made one at a time beside other users |
| `ShareTarget` | files shared from other applications, through the service worker's cache |
| `FilesPage` | the files page with its cached listings, its selection, its dialogs and the preview |
| `TextEditor` | one file edited here and elsewhere, the stamp check and the put |
| `Playlist` | the music player, its lists on the server, the state saved here and there |
| `Sharing` | the rows of the shares, the "my shares" tab, the share dialog of one file |
| `TrashPage` | the trash, its page, and the server's restore, delete and empty |
| `SignIn` | login, second factor, reset, forced and voluntary change, logout, in several browsers |
| `MeetingScreen` | a shared screen, its change of track, and what the watcher sees |
| `Chat` | one conversation, room or private, its form, events and marker |
| `NoteEditor`, `NoteRows` | the fields of a note and the rows of a checklist that save themselves |
| `BackupPush`, `Tunnel` | tokens and the push in the background; the reverse tunnel and its loop |
| `BackupPicker`, `BackupArchives`, `BuddyStore` | the choice of folders; own archives and restore; what a peer keeps |
| `AdminUsers`, `AdminGroups` | accounts, and groups with the new-user dialog, under several administrators |
| `MFAMethods`, `AppPasswords` | second factors in several tabs; app passwords and the server's memory of them |
| `ScanScheduler`, `ScanPlan`, `ScanReport` | when scans run; the panels that set it; the reports and their buttons |
| `MCFileStore`, `MCStorageAdmin` | values of the constants and symmetry for TLC |
| `MCBackground`, `MCPages`, `MCAdministration` | several components that share no state, one followed at a time |

### FileStore

State: `row` (table `files`, `NoRow` for an id without a row), `blob` (the
storage root), `req` (what each running handler holds in its local variables and
how far it is), `issued` (ids `uuid.New()` gave out). `purged`, `rewritten` and `from`
(the files a file's bytes were copied from, through any number of copies) are
history variables for stating properties; no guard reads them.

A handler is cut exactly where another can get between its steps: at each SQL
statement and each change of the disk.

| Code | Actions |
|---|---|
| `Upload`, `FinalizeTusUpload` | `UploadCreate` or `UploadOverwrite`, then the write steps, then `InsertRow`/`UpdateRow` |
| `CreateTextFile` (and `PublicCreateTextFile`, same shape), `Copy`, `SaveContent`, playlist save | `CreateText`, `Copy`, `SaveContent`, then the same |
| `Storage.Write` | `WriteOpen` (O_TRUNC), `WriteDone`, `WriteFail` |
| the end of an upload | `InsertRow`, `InsertFail` (takes the bytes back), `UpdateRow`, `UpdateFail` (does not) |
| `SoftDelete` | `SoftDeleteRead`, `SoftDeleteRow` (the transaction is READ COMMITTED and locks nothing in between) |
| `PermanentDelete` | `PurgeSelect`, `PurgeRow`, `PurgeBlob` |
| `EmptyTrashAll` | `EmptySelect`, then `EmptyRow`/`EmptySkip`, `EmptyBlob` per file |
| `Restore`, `Rename`, `Move` | one action each: one statement |
| errors before anything changed; `os.Remove` failing; process death | `GiveUp`; `UnlinkFails`; `Crash` |

Data is abstracted to what matters here. A content stands for bytes, size and
checksum; `Torn` is any bytes no client sent (a cut stream, a file still
growing, two writers mixed). The file descriptor of a writer is "whole", "mixed"
or "lost" (unlinked under it), which is what POSIX makes of two writers of one
inode and of unlink under a writer. Whether a quota check passes is left open:
both outcomes are always possible. Folders and shares are constants.

The properties speak of the REST handlers. WebDAV and backup restore write rows
and blobs in another order; restore has its own module (`BackupArchives`), WebDAV
none yet.

### StorageAdmin

`scrub` is the running `RunStorageScrub` (list, query, remove), `report` the
report the admin holds or the handler working on it. Scrub, scan and purge each
take a picture of the disk, later a picture of the table, and act later still;
the handlers of `FileStore` run in between. That picture of the table may be cut short:
`knownScrubBlobIDs` and `queryKnownOrphanIDs` skip rows that do not scan and never ask
`rows.Err()`, so any of the known ids may be missing from it without an error (`Cuts`).
A query that fails as such does end the scrub (`ScrubFail`). `nameless` (files that a
scan or scrub took for ones without a row, rightly or not) and `zapped` are history.
`Restart` is `Crash` followed by the scrub every start launches. One scrub runs
at a time and the admin sends one request at a time; the storage root fits one
batch of 500, so one listing has one query.

### The pages

All modules of pages are cut the same way. An action is what runs without
interruption: an event handler of React, the part of an asynchronous function
between two awaits, an effect, a callback of React Query. A request is a record
with a place (`"asked"`, `"served"`, ...): its page sends it, a server action does
what the handler does, possibly in several statements, and the answer is taken
later, in any order with other answers unless the code awaits it. A copy in React
Query's cache is a variable of its own; an invalidation starts a request only where
something is mounted that watches the key, as in the code - and none while the first
answer for that key is still awaited: React Query cancels and asks again only where it
has data already, so an invalidation during a first load is lost, and the answer that was
on its way counts as fresh (`Chat`, `FilesPage`, `BackupPicker`, `ScanPlan`).
A statement whose error the code ignores is a choice: it has done its work or has not, and
the handler goes on alike. Names of variables and operators are those of hooks, states and
handlers.

| Code | Module | Where it is cut |
|---|---|---|
| `useUploadDuplicateWorkflow`, `upload-duplicates.ts`, both dialogs | `UploadChoice` | at the look-up's answer and at each button |
| `startUpload`, `uploadWithTus`, `uploadWithMultipart`, `handleOffline`, `handleOnline` | `UploadQueue` | at each await, and between `uploadsRef` and the render that follows |
| `resolveFolder`, `prepareUploads` | `FolderUpload` | at each listing and each creation |
| `sw.js` `fetch`, `install`, `activate`; `useShareTarget` | `ShareTarget` | at each cache operation, which may fail; entries are keyed by the files' names |
| mutations of `_auth.files.index.tsx`, `PreviewModal` | `FilesPage` | at call, handler and callback |
| `TextEditor`; `Preview`, `SaveContent`, `ReplaceContent` | `TextEditor` | stamp check and put are two requests, the put writes blob and row in two steps |
| `playlist-context.tsx`; `PlaylistTracks`, `UpdatePlaylist` | `Playlist` | at fetch, edit, effect and timer; look-up of the tracks and write of the list are two steps |
| `shares/handler.go` `Create`, `Update`, `Delete`; acceptance of an invitation | `Sharing` | the look-ups of recipient and share, which may fail unseen, and the insert |
| `trash.go` `Restore`, `PermanentDelete`, `EmptyTrashAll` | `TrashPage` | as in `FileStore`, without blobs, with a folder, its rows and the cascade |
| `auth/handler.go`, `password_reset.go`, `user/handler.go` `ResetPassword` | `SignIn` | at the read, after the slow hash, at the write, and at the ending of the sessions |
| LiveKit and the signal channel in `RoomVoicePanel.tsx` | `MeetingScreen` | track events and signals arrive independently or, signals, not at all; each await of a click may fail |
| `RoomChatPanel`, `DirectConversationPage`, `websocket.go` | `Chat` | post, each attachment, each event |
| `NoteEditor.tsx`, `notes/service.go` | `NoteEditor`, `NoteRows` | timer, send, store, answer, poll |
| `backup/handler.go`, `auto_backup.go`, `buddy.go`, `restore.go`, `tunnel.go` | `BackupPush`, `BackupArchives`, `BuddyStore`, `Tunnel` | at each statement, file operation and goroutine hand-over |
| `user/handler.go`, `product_access.go`, `rooms/admin_access.go` | `AdminUsers` | admission, check, first and second statement |
| `auth/totp.go`, `mfa_cleanup.go` | `MFAMethods` | the deletion counts in a subquery and deletes after it; a set-up reads and stores, a wrong code takes out and puts back |
| `apppwd.go` `Verify` | `AppPasswords` | read, hash, remember |
| `scan_schedule.go` `isDue`, the loop | `ScanScheduler` | at each tick and each scan, of any length; time in hours; the server may be down |
| `_auth.admin.storage.index.tsx`; `storage_scan.go` scans, purges, restore | `ScanReport` | at each file of a call; other pages act on the same files |

Data is abstracted to what is told apart: a text is a token that says where it comes
from, an archive the set of its files, a password whether it is still the current
one, an expiry a number of hours, sizes a few units. Variables marked "ghost" in
the modules only record what happened; no guard reads them.

### Sums

The runs of pages take several components at once. `MCPages`, for example, extends
ten of them; a variable `part` names the one a behaviour follows, and the others
rest in one fixed initial state. As the components share no variable, the states of
such a run are the sum, not the product, of theirs, and a property of a component
holds of the run exactly if it holds of the component. A component that does
interact with another is not put in a sum: it is inside the module, the server's
handlers beside the page.

## 3. Runs

| Run | Instance | Shows |
|---|---|---|
| `files` | 2 handlers, 2 files, 2 users, root and a shared folder | `TypeOK`, `Intact`, `BytesKept`, `TornOnlyByRewrite`, `IndInv` (the invariant of the proofs), and that `FileStore` implements `FileVault`, over every interleaving with its failures |
| `maintenance` | 1 handler, 2 files, a scrub and an admin | `AdminTypeOK`, `KeptByMaintenance` |
| `sweep` | 1 handler, 1 file, fairness | `LeftoversSwept` |
| `background` | uploads, a conversation, a note, a checklist, a push, a tunnel | five invariants and six properties of liveness and of steps |
| `pages` | ten components a user clicks in | nine invariants, one property of steps |
| `administration` | backups, accounts, second factors, scans | ten invariants |

What the properties of the file store say:

- `Intact`: a row describes exactly what is on disk, unless the file was
  selected for permanent deletion or written in place. Insert paths are safe
  because the row comes last and nobody else knows the id.
- `BytesKept`: rewriting, however it fails, never leaves a row without a blob.
  This is why `UpdateFail` may not do what `InsertFail` does.
- `TornOnlyByRewrite`: bytes nobody sent are under a row only where that very file, or one
  it was copied from, was written in place; and no row records such bytes but by copying
  a file so written. A rewrite of one file never reaches another that was not copied from
  it, and never records a mixture as the file's own content.
- `ImplementsVault`: seen from outside, files are born whole, go to the trash
  and back, are destroyed only after somebody condemned them while they were in
  the trash, never come back after that, and change content only after a
  rewrite began.
- `KeptByMaintenance`: only a purge, or a scan that had not seen the file's row (there
  was none yet, or its list came short), can take a row's bytes.
- `LeftoversSwept`: once the process stays up, a blob nobody will give a row
  disappears (or the admin adopts it).

`background`:

- `TransportsAgree`: no file is on its way by tus and by multipart together, and
  what is shown as paused ("will resume automatically") can be resumed.
- `QueuedIsStarted`: every queued file gets its turn, however the files before it
  fare: the loop survives an upload that throws.
- `ConversationKept`: in a room, nothing is marked as read beyond what an answer
  brought to the screen; a file put on the draft is on it or in the conversation.
- `CaughtUp`: every message is shown in the end, unless its event was lost: it found no
  socket, a full channel, or a first load under way whose answer was older. A loss
  counts only until everything has been shown again.
- `UnsavedSurvives`: only typing changes a field with unsaved text.
- `SavedInTheEnd`: what was typed is saved, or the editor says that it is not.
- `StoredOnce`: a row added on screen becomes one row of the note, however often it
  is left before its answer comes.
- `FlagIsTrue`: the push flag is up exactly while a push runs, although each UPDATE of it
  may fail with a warning and the server may stop and start in between, but for four
  windows that each end again: a failed UPDATE until the next that succeeds, a start
  until its reset has run, two pushes at once until both end, a push that outlives its
  reset.
- `PushSeenToEnd`: a page that shows a push comes to see it end, also when the server
  died under it, unless the UPDATE at its end failed.
- `TunnelAgrees`, `TunnelComesBack`: an open connection is the one in the peer's
  table, however older ones are torn down; the client reports a tunnel exactly while it
  serves one, unless Connects crossed; a tunnel that is wanted and lost comes back.

`pages`:

- `ChoicesKept`: what is dropped is uploaded to the folder it was dropped on, or the one its
  tree made for it; a request may replace only with leave given for that file under the name
  it was shown with (a file found elsewhere keeps its leave through a renaming); and only what
  was refused, or has a namesake elsewhere, is left out.
- `SharesArrive`: a share is offered in full with its own bytes, also across a new service
  worker, while others wait, and with two files of one name in it (each time the last one's
  bytes), unless another share took something of it from the cache before it was read.
- `PathKept`: each file of a dropped tree goes to the folder of its own path.
- `FreshListingsTrue`: a listing that counts as fresh shows the folder as it is, unless one of
  the named disturbances happened; a first answer older than the page's own change is one.
- `OverwritesOnlyThroughGaps`: a put replaces an unseen version only through three
  gaps: the row was stamped between check and put, the blob was ahead of its row, or the text
  stood beside the stamp of another write; and what it puts is never cut short of what it
  was shown, unless the file was too large for the preview.
- `PlayerAgrees`: what is stored, shown and heard agree, after any order of answers to opens,
  edits and creations; where the server left tracks out, only until the next whole answer.
- `SharesAgree`: an account has one share of an item that counts, an address one invitation,
  unless that pair was raced, its look-up failed, or an invitation was accepted beside a
  share; and every share that the manage dialog shows has a draft, without which it cannot
  be drawn.
- `OnlyTrashDeleted`: what the page's calls delete for ever is in the trash then, or in a
  folder that is.
- `SignInHolds`: no session outlives the password it was begun with, unless it was there when
  a password was set by a step that ends no session or whose revocation failed, and nothing
  has ended it since; and a reset token sets one password.
- `ScreenIsShared`: when all has arrived, the watcher sees the track that is
  shared, not marked as being changed, or none; signals may be lost and every step of a
  click may fail.

`administration`:

- `ShownIsSaved`: when every call is answered, the boxes ticked are what the
  server archives, unless a first load was outrun by a save.
- `ArchivesHold`: when the automatic backup would skip a tree, an archive has every
  file of it but those whose blobs were skipped with a warning; what the page lists is whole;
  what a restore brought back has its bytes, whatever the archive lacks, unless its row could
  not be taken back.
- `AnsweredIsKept`: a push that was answered is kept whole until it is deleted.
- `AccountsAgree`: an active administrator remains although the server's count has
  the locked ones in it, and the two records of an account's Rooms access agree.
- `CreatedAsPicked`: a new user is in all the groups picked in the dialog or made there
  for it, while other administrators delete groups and lists are read again, or is not made;
  clicks while a group was being made are excepted.
- `MethodsKept`: the last active second factor stays, and the secret a tab shows can
  still be confirmed, unless it expired, was used, was written over or not put back.
- `RefusedInTime`: a revoked app password is refused once it is forgotten.
- `SlotsServed`: a tick that finds a slot in time, and not served since, serves it, however
  long the scans before it took, whatever failed, and in every zone.
- `OtherPanelKept`: saving one schedule leaves the other as it was last saved, by whomever,
  if the page had read that save back; first loads, failed reads and other administrators
  decide what it has read.
- `ReportHolds`: what is ticked is in the report, and a restored file keeps its
  bytes, but for files a scan misread or another page dealt with.

**Gaps.** Where the code lets something through that a property would forbid, the
property names the circumstance (a ghost such as `unrevoked`, `torn`, `crossing`) and
holds otherwise; section 6 lists these circumstances, since they are what a
maintainer should look at. In the sums, `CONSTRAINT Calm` does not follow a
behaviour beyond the state in which some of these circumstances have arisen; every
state up to and including that one is checked, and the theorems of section 5 are of the
unconstrained specifications, so they cover what comes after. Not followed further are:

- `pages`: another client in `FilesPage` or a folder's answer outrun (`disturbed`); an
  edit of the player that met another (`overtaken`), and, while the server has left
  tracks out, shuffling and other devices; raced or doubly known recipients (`loose`),
  a tab read under an open dialog (`behind`); a restoration that met a deletion
  (`crossing`); a login that a change overtook and two confirmations of a token
  (`overtakenLogins`, `tokenRaced`), and sessions left by a password that ended none
  (`unrevoked`), except while a change is between its two statements; an overtaken
  signal, a change abandoned, a stop told wrongly (`overtakenSignal`, `abandoned`,
  `mistold`), and more than three signals on their way;
- `administration`: calls of the picker that failed or overtook one another; a death of the
  server while it archives or restores, two archives of one second, files that change
  between hash and export (`crashed`, `doubled`, `unlike`); two administrators served
  at once (`torn`); clicks while a group is made (`unsure`); overlapping counts (`crossed`);
  what another page did to a report's files (`aside`);
- `background`: a draft changed while it is sent (`edited`) and a lost answer to a
  checklist row (`lost`).

`edited` is the one that a property of liveness (`CaughtUp`) does not mention, and a
constraint can hide a violation of such a property. So the conversation was also run alone
without the constraint: 189,320 states, no violation.

**Bounds** are constants named `Max...` with a comment "bound" or small sets.
`files` to `sweep`: every hazard listed for these parts needs at most two handlers
on one file, or one handler reading a second file (`Copy`). A third writer, a second
content and more files are left to the theorems, which have no bounds.
Two files are enough for one to be in a
list (trash, scrub, report) beside another. Two users and one shared folder give
every way a file changes owner: deletion by another, restore, move. Ids are
never reused, so two files also bound the number of creations; a run ends when
they are spent, while all other handlers go on.
`maintenance` has a VIEW: the histories `from` and `rewritten`, which nothing there reads,
do not tell states apart. `sweep` has one file: sweeping one blob does not depend on another.
The pages: two of everything that can be confused (files of one name, folders,
lists, recipients, tabs, browsers, administrators, pushes, connections), two or three
clicks or calls under way, because every hazard listed for them is between two
calls, or a call and a change from elsewhere; a third element only where it has a
role of its own (the third track of a list of two, the folder that is moved, the
weekly or monthly slot beside the daily one; the zones are one hour behind UTC and one
ahead, of days of two hours). Texts and writes of the editor are two each (`MaxText`,
`MaxWrites`): what the user typed and what another wrote. Some bounds are structural and said
in the modules: one mutation at a time in `FilesPage`, one dialog, no row clicked while a
change is under way; expiry dates are left out of `Sharing`. `SlotsServed` has two days in
the sum and was run alone with three (416,000 states).
The sums stop when their bounds are spent, hence `CHECK_DEADLOCK FALSE`; in
`files`, `maintenance` and `sweep` a deadlock is an error.

**Symmetry** is used for files and handlers of the file store (safety runs only), the items of
the files page other than the folder, the browsers of `SignIn`, and the files of a report; no
definition chooses among them, and these runs have no liveness.

**Fairness.** Nothing is assumed of users, the network or other clients.

- `FairAdminSpec`: weak fairness of `ScrubStep`. A scrub is a goroutine that waits for
  nobody. `LeftoversSwept` asks in addition that restarts cease and (`Faults = FALSE`)
  that the scrub's own calls succeed: a scrub that fails leaves its work to the
  next start. In `maintenance` they may fail at every step.
- `QueueFairness`: promises settle. An upload under way ends in success, error or
  pause; the browser's and tus's timeouts see to it.
- `ChatFairness`: requests are answered, the direct page's interval fires, the
  socket delivers what its channel holds. Posting is not fair.
- `NoteFairness`: the 700 ms timer fires, saves are answered or fail.
- `PushFairness`: pushes end (every client of the push has a timeout), the page's
  interval fires and its requests are served. The answer is taken under strong
  fairness: between asking and taking, other answers may disable it again and again,
  and React Query delivers each answer once it is there.
- `TunnelFairness`: goroutines run and the 30-second ticker ticks. Dials may fail
  `MaxFaults` times; after that the network holds.

## 4. Where code and comments differ

Six runs are expected to be violated; each states what a comment of the code
promises (the quotations are in `PROJECT.json`, "findings").

| Run | Promise | What happens |
|---|---|---|
| `lands_in_trash` | a deleted file "always lands in the PARENT FOLDER owner's trash" | a move between SELECT and UPDATE |
| `row_without_bytes` | `PermanentDelete` removes row and bytes | DELETE matches nothing, the blob goes anyway |
| `scrub_any_time` | the scrub is "Safe to call at any time" | it removes the blob of an upload in flight |
| `purged_invisible` | purged files are invisible, their record gone | the owner can restore the row, without bytes |
| `encrypted_scan` | a corrupt file is one whose bytes do not match | under encryption whole files are reported |
| `emptied_trash` | emptying "permanently deletes every trashed file" | it lists, and deletes, a file restored out of a folder still in the trash |

These are also why `Intact` and `BytesKept` except `purged`, why
`KeptByMaintenance` excepts `nameless` and `zapped`, and `OnlyTrashDeleted` excepts
`buried`: without the exceptions they are false of this code.

## 5. Proofs

Every invariant and action property the passing runs check is a theorem, for all values of the
constants that satisfy the named assumption of its module (a run shows it for one small
instance), and without the constraints of the runs. The theorems are stated of the
specifications without fairness: safety does not need it. Each rests on an inductive
invariant, most of them held against the runs' instances by TLC before they were proved; the
proofs go action by action.

### The file store

| Theorem | Says | By |
|---|---|---|
| `TypeCorrect` | `Spec => []TypeOK` | itself |
| `Invariance` | `Spec => []IndInv` | itself |
| `RowsAreIntact`, `BytesAreKept` | `Intact`, `BytesKept` | `IndInv` |
| `TornInvariance` | `Spec => []TornInv` | `IndInv` |
| `RowsAreWhole` | `TornOnlyByRewrite` | `TornInv` |
| `StoreImplementsVault` | `Spec => ImplementsVault` | `IndInv` |
| `GoneForGood` | `Spec => [][` a file that is gone stays gone `]_vars` | the refinement |
| `AdminTypeCorrect` | `AdminSpec => []AdminTypeOK` | itself |
| `MaintInvariance`, `MaintenanceKeeps` | `[]MaintInv`, `KeptByMaintenance` | `MaintInv` |

`Intact` is not inductive: in a state where two handlers hold the id of one file
that is being inserted, the other could write to the blob just before the
row appears. `IndInv` excludes such states. `NewbornInv`: a file being inserted
has no row and is neither purged nor rewritten, and its blob is whole when its
row is due. `AloneInv`: no other handler writes to it. Both rest on ids being
fresh, so `KnownInv` says that everything with a row, a purge or a rewrite
carries an issued id. `SelectedInv` keeps permanent deletes within what they
selected. The proof has one lemma per group of actions; the conjuncts an action
cannot disturb are settled by general lemmas about what it leaves alone.

`TornInv` follows where bytes came from: `from` is the set of files a file's bytes were
copied from, directly or not. A copy under way has all its sources in `from` and none of them
is itself being inserted; an insert has received torn bytes only if one of `from` was
rewritten; what an in-place writer records is never torn, since it takes it from the client.

The refinement maps a file's row and blob to the vault's status and content. Its proof
has one lemma per action of the vault (what a change of row and blob must be to count as
`Create`, `Condemn`, `Destroy`, ...), and one per group of handler steps that shows
which of them, or a stutter, each step is. `GoneForGood` follows: the vault has no step
out of `Gone`, so no handler, however late, gives a purged file a row.

Under maintenance `IndInv` fails: a scrub takes the blob of an upload in flight and a
corrupt purge takes rows. `MaintInv` keeps what survives: who may insert (`InsertersInv`),
which ids are known (`IssuedInv`), that scrub and orphan purge act only on what they
noted without its row, rightly or from a list that came short (`NotedInv`), and that a row
has its bytes unless excused.

### The other components

| Theorem | States | The inductive invariant says besides |
|---|---|---|
| `DropsGoAsChosen` | `ChoicesKept` | every request on its way knows the folder of its drop, may overwrite only by a leave given for its file, under another name only if the file was found elsewhere, a ticked dialog lists only files that were shown with the tick, and while batches do not overlap, what is neither started nor refused is on its way |
| `FilesGoToTheirPaths` | `PathKept` | every cached id and the folder reached so far are at the path they stand for, through rows that others only add to |
| `FreshListingsAreTrue` | `FreshListingsTrue` | a cached or answered listing is out of step only while the operation under way is about to tell its query, or while a first load that nothing asks anew is known as outrun |
| `PlayerShowsTheList` | `PlayerAgrees` | at most one edit is unsettled, and edits and answers under way fit the list on the server, which a look-up may have cut |
| `TransportsStayApart` | `TransportsAgree` | each file belongs to one loop, is in its list once, and multipart carries only the head of a list whose loop is posting |
| `SharedFilesArrive` | `SharesArrive` | what the cache, the manifest and the page hold of an unharmed share at each stage of stash, read and clean-up, the last file of each name counting |
| `PutsOverWhatWasSeen` | `OverwritesOnlyThroughGaps` (steps) | which write of the blob the editor's text stands for, and which the stamp its save carries, between blob write, row update and read-back of either writer |
| `SharesStayInOrder` | `SharesAgree` | a checked call's recipient has no share yet, unless known as loose |
| `DeletedFromTrash` | `OnlyTrashDeleted` | a file looked up by a deletion and neither in the trash nor under a folder there is in an overlap the page knows |
| `SessionsEndWithPasswords` | `SignInHolds` | a token that was spent is used, a confirmation that still holds a spent token or shares its token is known as raced, a browser is on one page at a time, and a session of an old password is known as overtaken or not revoked |
| `WatchersSeeWhatIsShared` | `ScreenIsShared` | what tracks and signals still to come will do to the watcher's screen, and what a lost or mistaken signal has left there |
| `ConversationIsKept` | `ConversationKept` | the marker never passes what an answer brought; what a send carries is on the draft or linked |
| `TypedSurvives` | `UnsavedSurvives` (steps) | the types of drafts, polls and saves; the rest is the step: only typing moves a field away from both what it was and what the server had |
| `RowsAreStoredOnce` | `StoredOnce` | one creation per row under way, none for a row stored |
| `FlagFollowsThePush` | `FlagIsTrue` | at most one push runs unless two are known to have met, and outside the four windows the flag is that of the pushes |
| `EndsAgree` | `TunnelAgrees` | which connections the client may still dial, serve or give up, and that the two callers do not both |
| `AnsweredStays` | `AnsweredIsKept` | a push that shares its second with no other owns its file from opening on |
| `BoxesShowTheBackup` | `ShownIsSaved` | the boxes are those of the latest save under way, or of the page's copy once none is; the copy follows the answers, and saves arrive in order, unless the first answer to come is known as outrun |
| `ArchivesAreThere` | `ArchivesHold` | what the hash under way stands for is in an archive or was skipped by it; a restore's rows have no bytes only while it works on them or could not take them back |
| `AnAdministratorRemains` | `AccountsAgree` | while no two calls were served at once: a call on the server is by an active administrator, one that passed its check still passes it, and one between its two writes has made the first |
| `UsersGetTheirGroups` | `CreatedAsPicked` | while no click came during the making of a group, picks shown are picks meant, and a creation under way carries both; ids are never given twice |
| `SecondFactorsKept` | `MethodsKept` | while counts do not overlap, at most one deletion has counted, and it saw another active method |
| `RevokedIsRefused` | `RefusedInTime` | what the cache remembers of a revoked password runs out in time |
| `EverySlotIsServed` | `SlotsServed` | a slot owed has come and is its schedule's, and the last run, and a scan under way that does not serve it, are of ticks before it |
| `SchedulesKept` | `OtherPanelKept` | the page's copy and each reading under way are the last-saved plans but for panels known as behind, and a save that is not at risk carries what is stored |
| `ReportsAreActedOn` | `ReportHolds` | the state of each file each call under way works on; two calls of different operations share only files known to be crossed; a live file in an orphan report, or found by a scan, is known to be crossed or is being restored |

**Assumptions.** All are named `...Assumption`, stand in the module that declares the constants,
and are evaluated by TLC in the runs. They say that sentinels (`NoFile`, `Absent`, `None`,
`Unknown`, ...) are no values, that bounds are natural numbers, that what a user drops and
what a drive's folder tree is are finite and well formed (`PickerAssumption`: above is a
tree; `QueueAssumption`: one dropped list names a file once), that a system has an
administrator and a group to pick when it starts (`AdminAssumption`, `GroupsAssumption`),
that days, weeks and months are not empty and no zone is a whole day off
(`SchedulerAssumption`). None restricts an order of events or how long anything takes.

**Recursion.** Two lemmas need induction, which the library's theorems state with an
operator as parameter. `BrowsingProofs` goes by the least counterexample instead (`LeastOf`,
from the well-foundedness of `<`): that `Kept` keeps of a list the requests in a set
(`FilterExists`, `KeptAre`). For this `UploadChoice` filters with a recursive function of
its own; the provers have no definition of `SelectSeq`.

**Model-checked only.** Liveness: `LeftoversSwept`, `QueuedIsStarted`, `CaughtUp`,
`SavedInTheEnd`, `PushSeenToEnd`, `TunnelComesBack` (fairness and `ENABLED` are out of the
prover's reach). And the six violations of section 4, which are counterexamples.

## 6. What the properties except

Circumstances met while modelling in which the code does not do what a user would
expect. Each is an exception named in a property, or lies outside what is modelled
and is stated from reading alone (marked *read*).

Files and trash
- A file restored while it is being deleted, or while the trash is emptied from a
  list collected earlier, is deleted all the same (`trash.go:178`, `:312`, although
  `trash.go:148` says that restoring cancels the deletion and `:273` that emptying
  deletes trashed files): `crossing` in `TrashPage`, `purged` in `FileStore`. Ticks
  survive a single restore. Emptying also takes what was restored out of a folder that is
  still in the trash, and deleting a folder's row takes the rows under it
  (`trash.go:277`, `0009_files.sql:4`): `buried`, run `emptied_trash`.
- The list of ids with a row may come short without an error (rows that do not scan,
  `rows.Err()` not asked: `admin/handler.go:1248`, `admin/storage_scan.go:370`): scrub and
  orphan scan then take files with rows for ones without, and remove their bytes
  (`nameless` in `StorageAdmin`, `crossedFiles` in `ScanReport`). A purge of orphans does
  not look at the rows again, so a report another page has made old does the same.
- A text file above 1 MB opens cut to its first megabyte (`files/handler.go:1208`, limit of
  the editor 5 MB: `file-types.ts:147`); saving it loses the rest. A put that fails after
  the blob is written leaves the old stamp on the new text, and the next check passes:
  `BlobAhead`. What a write that fails half way leaves in the blob is in `FileStore`.
- A stamp set between check and put, and a text mounted from a cached answer beside
  a fresher row, let the text editor replace an unseen version. Reopened within five
  minutes it shows the cached text; after a save overlapped by typing it may show
  "saved" with unsaved text.
- A folder opened for the first time whose answer is on its way when the page changes
  something there keeps the old answer as fresh (`Outrun`): nothing asks anew during a
  first load. The same leaves a room's message unseen until the next event (`missed`), the
  boxes of the backup page out of step until the next save (`outrun`), and the panels of
  the storage page with an old plan (`behind`).
- The selection of the files page is not pruned when rows go or the folder changes;
  no mutation invalidates the root's key after a move or copy into it. The preview
  stays on a deleted file after walking on and deleting back, and a playlist in it
  plays the file opened, not the one walked to. *read*
- Leave to overwrite survives a renaming of a file found elsewhere
  (`upload-duplicates.ts:82`), so the server may replace a file of the new name that
  nobody was asked about.
- A batch dropped while another is undecided shares its dialog; files with a namesake
  elsewhere are dropped from a batch that also has conflicts.
- Of two shared files with one name the first one's bytes are lost (`sw.js:165`), of two
  shares under way also across shares; a failing read of the cache shows nothing
  (`useShareTarget.ts:64`).
- The worker keeps any answer to a navigation as the shell, an error page too (`sw.js`).

Music
- The server leaves out tracks it may not or cannot look up, when it reads a list and when it
  writes one (`files/handler.go:1400`, `:1479`), and answers 200: the page shows what it sent
  (`partial`, `astray`). A write that fails half way may have emptied the list.
- Tracks of one list may be shown under another after late answers; an edit made on a
  list whose tracks could not be fetched overwrites it; removing an earlier track
  restarts the current one; a device without a cache saves "nothing" over the
  server's state; a folder's new list is made in the root after its older namesake
  has been put into the trash, even if the creation then fails.

Shares
- Two creations for one recipient at once make two shares (look-up and insert are two
  statements), and so does a look-up that fails, whose error is not looked at
  (`shares/handler.go:60-104`): a person not found is invited by address, and has two shares
  once the invitation is accepted (`loose`). Adding a folder for a recipient who is still an
  invitation is always refused (grantee type "pending", `shares/handler.go:51`) *read*; the
  dialog's dates drift by the time zone; an update sets the expiry whether or not one was
  sent, where the handler says "only update provided fields".

Rooms
- Messages whose event finds no socket or a full channel are not fetched again until
  the next event; a conversation reopened within 30 seconds asks for nothing. A private
  conversation marks its newest message although it may not be on the screen. Text
  typed while sending is wiped; a message whose attachment failed is posted again by
  the next send. A late "stopped" signal removes a newer screen; a sharer who leaves in
  the middle of a change leaves the mark on. Signals that come before the participant is
  known are dropped (`RoomVoicePanel.tsx:230`), and a stop is told before it is tried
  (`mistold`).

Notes
- A save writes all fields of the note whatever version it carries, and undoes what
  others did to fields not typed in. A field typed back to its saved value during a save
  counts as clean and is overwritten by that save's answer.

Backups
- A picker emptied by hand shows nothing, and the server archives everything; adding a
  folder from the files page to a backup of everything narrows it to that folder; a click
  before the configuration was read switches the automatic backup off; excluding a folder
  two levels below a ticked one has no effect.
- The hash that decides whether to skip ignores names, notes and archives deleted
  since; a file absent during the export only is not archived by later runs, and a blob that
  cannot be read is left out with a warning while the archive counts as done
  (`backup/service.go:221`). The DELETE that takes back a row of a failed restore and the
  UPDATE that records a hash may fail unseen (`restore.go:149`, `auto_backup.go:268`:
  `stuck`, `unrecorded`). A restore
  skips rows without bytes as existing (page: "safe to repeat"). Two archives of one
  second are one file, on the own disk and at the buddy; the push's body is a pipe, so the
  quota check adds 0 and an over-quota push is stored (`README.md:280`: "rejected
  with HTTP 507 ... before the file is written").
- A failed UPDATE at the end of a push leaves its flag up until the next push or start
  (`backup/handler.go:805`: `unwritten`); a failed one at its beginning lets the push run with
  the flag down; the reset at start (`server.go:293`) may take down the flag of a push that
  has just begun. A server that stops during a push leaves it up until its next start; a 403
  of an old token erases the new one; the list of pushed archives is not read again after a
  push in the background. Connects that cross leave two loops or an idle one; `Disconnect`
  cancels before it clears the preference, so the loop may dial once more.

Sign-in and accounts
- Two confirmations of one reset token both set a password (`README.md:973`:
  "single-use"); a login that compared the old hash may begin a session after the change;
  pending second factors and trusted devices survive a reset; a logout that fails leaves
  the session. A password set by an administrator or by accepting an invitation ends no
  session (`user/handler.go:598`, `auth/handler.go:566`), nor does a change whose second
  statement fails (`:875`): `unrevoked`.
- Two tabs may delete each other's remaining second factor (`README.md:311`);
  two set-ups that both find no secret store one over the other (`handler.go:937`, `:961`); a
  check of an old code writes the old secret back, and one whose write fails, or that dies
  before it, loses the secret (`handler.go:1002`).
- A revoked app password that was being checked is remembered for its full time; Enter in
  the dialog can make two passwords of which the last is shown.
- Two administrators who act on each other leave none, and a locked one counts as remaining
  (`user/handler.go:59`: "cannot demote the last admin"); clearing a limit is sent as null and
  changes nothing; access to Rooms is written by two statements. A group made in the new-user
  dialog comes with the picks of the moment it was asked for, so clicks meanwhile are undone
  (`_auth.admin.users.index.tsx:202`: `unsure`).
- A daily scan at one of the last hours of the day in UTC is never due when the server's
  clock is ahead (`docker-compose.yml:12`, against `scan_schedule.go:20`: "0-23 (UTC)"), and a
  daily slot that no tick sees on its own date, because a scan or a downtime lasted past
  midnight, is lost; `SlotsServed` speaks of slots that a tick does find. The
  storage page saves the other panel from a copy that may be out of date (`aged`), with the
  defaults if it has none, and may delete an orphan while it is being restored.

## 7. Not modelled

- **Quota**, **folder tree** (ownership by containment, cascade: deleting a folder's row
  leaves the blobs of its children to the scrub, `db/migrations/0009_files.sql:4`),
  **WebDAV file access**: next to be modelled, beside `FileStore`'s handlers.
- **OnlyOffice**, **mail**, **GIF library**, **previews** (`preview/converter.go:55` may
  serve a PDF older than its file), **audit log**: outside services, or no state others read.
- **Lockout** and **rate limiter**: their state is in Redis and expires there.
- **Rooms**: members, owners (`rooms/service.go:494` counts owners, then removes one),
  invitations, guests and their limits, digests (`rooms/notifications.go:173` sends mail
  before it commits), editing and reactions.
- **Notes**: sharing, labels, archive and trash.
- **Restore from a buddy** over the wire, and the check of the buddy's quota before the body
  (`backup/handler.go:920`) beyond what `BuddyStore` has.
- **Pages** with one form over one request: settings, tags, audit log, blocked addresses,
  set-up, invitations, public links; guests' pages.
- In modelled pages: double clicks on the buttons of a meeting, two share operations of one
  dialog at once, progress and wording.
- Texts, themes, generated tables, formatting: a third of the client's lines, without
  behaviour over time.

## 8. Plan

1. Proofs: step properties that say more than the invariants do (a blob once taken by
   maintenance was noted before; a token's spending is final), and the exceptions
   in `ArchivesHold` and `ReportHolds` narrowed as far as the proofs allow.
2. `Quota`: Check, Add and recount beside upload, overwrite, copy and purge.
3. `FileTree`: folders, moves, cascades, the ownership trigger (migration 0037).
4. WebDAV's writes over the state of `FileStore`.
5. Members, owners and guests of rooms.

Runs stay few: a new component joins the sum it belongs to, or the run whose state
it shares.

## 9. Running

    tlc -config files.cfg MCFileStore.tla
    tlc -config maintenance.cfg MCStorageAdmin.tla
    tlc -config sweep.cfg MCStorageAdmin.tla
    tlc -config background.cfg MCBackground.tla
    tlc -config pages.cfg MCPages.tla
    tlc -config administration.cfg MCAdministration.tla
    for m in FileStore FileVault StorageAdmin Browsing Page Background Backup Administration
    do tlapm ${m}Proofs.tla; done

`tlapm` takes up to ten minutes for a module when it starts from nothing.
The runs of section 4 take `lands_in_trash.cfg`, `row_without_bytes.cfg` with
`MCFileStore`, `emptied_trash.cfg` with `TrashPage`, the others with `MCStorageAdmin`.
Distinct states: `files` 1.46 million, `maintenance` 2.43 million, `sweep` 7,000, `background`
316,000, `pages` 940,000, `administration` 1.36 million; two to four minutes each.

The operators with the comment "mutant" in the modules are plausible bugs: put in
place of the definition `PROJECT.json` names beside them, each makes TLC find
the property named there violated.
