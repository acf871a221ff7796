----------------------------- MODULE FilesPage -----------------------------
(***************************************************************************)
(* The files page: cached folder listings (TanStack Query), mutations      *)
(* whose callbacks run with the folder the page shows when the answer      *)
(* comes, bulk operations that keep the folder and the selection they      *)
(* began with, and a selection that survives a walk to another folder.     *)
(* Items stand for rows, without their names (a rename changes no place);  *)
(* one of them is a folder of its own.                                     *)
(***************************************************************************)
EXTENDS Naturals, FiniteSets

CONSTANTS Items, SubFolder, Root,
          None, Trashed,
          MaxChanges    \* bound: changes the user asks for

ASSUME FilesAssumption ==
  /\ SubFolder \in Items /\ Root \notin Items /\ None \notin Items \cup {Root}
  /\ Trashed \notin Items \cup {Root, None}
  /\ \A S \in SUBSET Items : S # None     \* rows not read are no rows
  /\ MaxChanges \in Nat

Dirs == {Root, SubFolder}

VARIABLES place,       \* the folder an item is in on the server, Trashed or None
          listing,     \* per folder: cached rows, or None; and whether they are fresh
          fetching,    \* per folder: the request ("idle", "asked", "answered") and its answer
          folderId, selected,
          dialog,      \* the dialog on screen, the item it was opened for and, in the
                       \* preview, the file the user has walked to
          pending,     \* the mutation in flight
          bulk,        \* the bulk operation in flight
          changes,     \* how many changes were asked for
          disturbed    \* ghost: what no invalidation answers for has happened

filesVars == <<place, listing, fetching, folderId, selected, dialog, pending, bulk,
              changes, disturbed>>
cached == <<listing, fetching>>
shown == <<folderId, selected, dialog>>
asides == <<changes, disturbed>>

Truth(d) == {i \in Items : place[i] = d}
Quiet == [at |-> "idle", rows |-> {}]
Uncached == [rows |-> None, fresh |-> FALSE]
NoDialog == [kind |-> "none", item |-> None, current |-> None]
NoMutation == [kind |-> "none", item |-> None, dest |-> None, at |-> "idle"]
NoBulk == [todo |-> {}, dest |-> None, from |-> None, at |-> "idle"]
RowsShown == IF listing[folderId].rows = None THEN {} ELSE listing[folderId].rows

FilesInit ==
  /\ place \in [Items -> {Root, None}] /\ place[SubFolder] = Root
  /\ listing = [d \in Dirs |-> Uncached] /\ fetching = [d \in Dirs |-> Quiet]
  /\ folderId = Root /\ selected = {} /\ dialog = NoDialog
  /\ pending = NoMutation /\ bulk = NoBulk /\ changes = 0 /\ disturbed = FALSE

---------------------------------------------------------------------------
\* The query of the open folder asks when it has nothing fresh; the answer is
\* the folder as the server finds it, and counts as fresh when it arrives.
AskListing ==
  /\ ~listing[folderId].fresh /\ fetching[folderId] = Quiet
  /\ fetching' = [fetching EXCEPT ![folderId].at = "asked"]
  /\ UNCHANGED <<place, listing, shown, pending, bulk, asides>>

AnswerListing(d) ==
  /\ fetching[d].at = "asked"
  /\ fetching' = [fetching EXCEPT ![d] = [at |-> "answered", rows |-> Truth(d)]]
  /\ UNCHANGED <<place, listing, shown, pending, bulk, asides>>

TakeListing(d) ==
  /\ fetching[d].at = "answered"
  /\ listing' = [listing EXCEPT ![d] = [rows |-> fetching[d].rows, fresh |-> TRUE]]
  /\ fetching' = [fetching EXCEPT ![d] = Quiet]
  /\ UNCHANGED <<place, shown, pending, bulk, asides>>

\* invalidateQueries: the rows are stale, and a request under way is dropped and asks
\* again; but the first request for a folder is waited for, and its answer then counts
\* as fresh, though it may be the folder as it was before the change.
Restarts(d) == listing[d].rows # None
Outrun(d) == ~Restarts(d) /\ fetching[d].at = "answered" /\ fetching[d].rows # Truth(d)
Invalidate(keys) ==
  /\ listing' = [d \in Dirs |-> IF d \in keys THEN [listing[d] EXCEPT !.fresh = FALSE]
                                ELSE listing[d]]
  /\ fetching' = [d \in Dirs |-> IF d \in keys /\ Restarts(d) THEN Quiet ELSE fetching[d]]
  /\ disturbed' = (disturbed \/ \E d \in keys \cap Dirs : Outrun(d))

---------------------------------------------------------------------------
Busy == bulk # NoBulk \/ pending # NoMutation

\* A folder is opened by its row, a breadcrumb or the browser's back button, and
\* asked for again when its listing is more than thirty seconds old; a request for the
\* folder left is aborted; the selection and an open dialog stay.
handleOpen(d) ==
  /\ d = Root \/ d \in RowsShown
  /\ d # folderId /\ folderId' = d
  /\ disturbed' = (disturbed \/ Busy \/ selected # {} \/ dialog # NoDialog)
  /\ \E expired \in BOOLEAN :
       listing' = [listing EXCEPT ![d].fresh = @ /\ ~expired]
  /\ fetching' = [fetching EXCEPT ![folderId] = Quiet]
  /\ UNCHANGED <<place, selected, dialog, pending, bulk, changes>>

\* A click selects one row, or adds it to or takes it from the selection; dialogs
\* cover the page.  Bound: no clicks on rows while a change is under way.
handleSelect(i, additive) ==
  LET kept == IF additive THEN selected ELSE {}
  IN /\ ~Busy
     /\ selected' = IF i \in selected /\ (additive \/ Cardinality(selected) = 1)
                      THEN kept \ {i} ELSE kept \cup {i}
     /\ UNCHANGED <<place, cached, folderId, dialog, pending, bulk, asides>>

handleSelectAll ==
  /\ ~Busy
  /\ selected' = IF Cardinality(selected) = Cardinality(RowsShown) THEN {} ELSE RowsShown
  /\ UNCHANGED <<place, cached, folderId, dialog, pending, bulk, asides>>

\* A click opens a folder and selects a file; the checkbox adds either.
FileRow(i) == \/ i = SubFolder /\ handleOpen(i)
              \/ i # SubFolder /\ handleSelect(i, FALSE)
              \/ handleSelect(i, TRUE)
FileList == /\ dialog = NoDialog
            /\ handleSelectAll \/ \E i \in RowsShown : FileRow(i)

\* The grid has no checkboxes: a click with a key held down adds a file.
FileGrid == /\ dialog = NoDialog
            /\ \E i \in RowsShown :
                 IF i = SubFolder THEN handleOpen(i)
                 ELSE \E additive \in BOOLEAN : handleSelect(i, additive)

SetDialog(d) == /\ dialog' = d
                /\ UNCHANGED <<place, cached, folderId, selected, pending, bulk, asides>>

\* The context menu of a row; a folder is not copied here, and files are opened
\* in the preview.
FileContextMenu ==
  /\ dialog = NoDialog
  /\ \E i \in RowsShown, k \in {"rename", "move", "copy", "preview"} :
       /\ k \in {"copy", "preview"} => i # SubFolder
       /\ SetDialog([kind |-> k, item |-> i, current |-> i])

CloseDialog == dialog # NoDialog /\ SetDialog(NoDialog)

---------------------------------------------------------------------------
\* The user asks for a change of these rows, which may have left the folder on
\* screen by then.
AskFor(I) ==
  /\ changes < MaxChanges /\ changes' = changes + 1
  /\ disturbed' = (disturbed \/ \E i \in I : place[i] \notin {None, folderId})

\* Bound: one mutation or bulk operation at a time (the buttons allow several).
Mutate(k, i, d) ==
  /\ ~Busy /\ AskFor({i})
  /\ pending' = [kind |-> k, item |-> i, dest |-> d, at |-> "sent"]
  /\ UNCHANGED <<place, cached, folderId, selected, bulk>>

RenameDialog == /\ dialog.kind = "rename" /\ Mutate("rename", dialog.item, None)
                /\ UNCHANGED dialog
ConfirmTrash == /\ dialog = NoDialog /\ \E i \in RowsShown : Mutate("trash", i, None)
                /\ UNCHANGED dialog
NewItem == /\ dialog = NoDialog /\ UNCHANGED dialog
           /\ \E i \in Items, k \in {"folder", "document"} :
                place[i] = None /\ Mutate(k, i, folderId)
\* The picker offers every folder but the item itself.
PickerOffers(excluded) == Dirs \ {excluded}
MoveDialog == /\ dialog.kind = "move"
              /\ \E d \in PickerOffers(dialog.item) : Mutate("move", dialog.item, d)
              /\ UNCHANGED dialog
CopyDialog == /\ dialog.kind = "copy"
              /\ \E d \in PickerOffers(dialog.item), i \in Items :
                   place[i] = None /\ Mutate("copy", i, d)
              /\ UNCHANGED dialog

\* The preview walks over the files on screen: its arrows lead to another one.
PreviewItems == RowsShown \ {SubFolder}
PreviewNav ==
  /\ Cardinality(PreviewItems) > 1
  /\ \E i \in PreviewItems \ {dialog.current} : SetDialog([dialog EXCEPT !.current = i])

\* The file walked to is deleted, and the page sets a neighbour as the item, or closes
\* the preview; the preview goes there only if that is not the item it had.
PreviewDelete ==
  LET neighbours == IF dialog.current \in PreviewItems THEN PreviewItems \ {dialog.current} ELSE {}
  IN /\ Mutate("trash", dialog.current, None)
     /\ \/ \E i \in neighbours \ {dialog.item} : dialog' = [dialog EXCEPT !.item = i, !.current = i]
        \/ dialog.item \in neighbours /\ UNCHANGED dialog
        \/ neighbours = {} /\ dialog' = NoDialog

PreviewModal == dialog.kind = "preview" /\ (PreviewNav \/ PreviewDelete)

\* Trashing a folder takes what is in it along.
AfterTrash(i) == [j \in Items |-> IF j = i \/ (i = SubFolder /\ place[j] = i) THEN Trashed
                                  ELSE place[j]]
Alive(d) == IF d = Root THEN TRUE ELSE place[d] \notin {Trashed, None}

\* What the server does about a request, when it does it.
Apply(k, i, d) ==
  \/ k = "rename" /\ place[i] \in Dirs /\ UNCHANGED place
  \/ k = "trash" /\ place[i] \in Dirs /\ place' = AfterTrash(i)
  \/ /\ k \in {"folder", "document", "copy"} /\ place[i] = None /\ Alive(d)
     /\ place' = [place EXCEPT ![i] = d]
  \/ /\ k = "move" /\ place[i] \in Dirs /\ Alive(d) /\ d # i
     /\ place' = [place EXCEPT ![i] = d]

Serve ==
  /\ pending.at = "sent"
  /\ \/ pending' = [pending EXCEPT !.at = "failed"] /\ UNCHANGED place
     \/ /\ pending' = [pending EXCEPT !.at = "served"]
        /\ Apply(pending.kind, pending.item, pending.dest)
  /\ UNCHANGED <<cached, shown, bulk, asides>>

\* A mutant: a move tells only the folder on screen.
MovedHere(dest) == {folderId}
\* The listings a move tells: the folder on screen and the one picked, unless
\* that is the root.
MovedKeys(dest) == {folderId} \cup ({dest} \ {Root})
\* A copy tells the folder picked, or for the root the folder on screen.
CopiedKeys(dest) == {IF dest = Root THEN folderId ELSE dest}

\* onSuccess, with the folder the page shows by now.  A new folder is written
\* into the cached listing, what else is created invalidates it.
Succeed ==
  LET rows == listing[folderId].rows
      was == listing[folderId]
  IN /\ pending.at = "served" /\ pending' = NoMutation
     /\ dialog' = IF pending.kind = dialog.kind THEN NoDialog ELSE dialog
     /\ \/ /\ pending.kind \in {"rename", "trash", "document"}
           /\ Invalidate({folderId})
        \/ pending.kind = "move" /\ Invalidate(MovedKeys(pending.dest))
        \/ pending.kind = "copy" /\ Invalidate(CopiedKeys(pending.dest))
        \/ /\ pending.kind = "folder"
           /\ listing' = [listing EXCEPT ![folderId] =
                [rows |-> (IF rows = None THEN {} ELSE rows) \cup {pending.item},
                 fresh |-> TRUE]]
           /\ disturbed' = (disturbed \/ ~was.fresh \/ fetching[folderId] # Quiet)
           /\ UNCHANGED fetching
     /\ UNCHANGED <<place, folderId, selected, bulk, changes>>

\* onError tells no listing, not even when the server had done it.
Fail ==
  /\ pending.at \in {"failed", "served"}
  /\ disturbed' = (disturbed \/ pending.at = "served")
  /\ pending' = NoMutation
  /\ UNCHANGED <<place, cached, shown, bulk, changes>>

---------------------------------------------------------------------------
StartBulk(d) == /\ ~Busy /\ AskFor(selected)
                /\ bulk' = [todo |-> selected, dest |-> d, from |-> folderId, at |-> "running"]

\* The bulk bar, shown when anything is selected: clear, move, delete.
BulkBar ==
  /\ selected # {} /\ dialog = NoDialog
  /\ \/ StartBulk(Trashed) /\ UNCHANGED <<selected, dialog>>
     \/ /\ dialog' = [NoDialog EXCEPT !.kind = "bulk"]
        /\ UNCHANGED <<bulk, selected, asides>>
     \/ selected' = {} /\ UNCHANGED <<bulk, dialog, asides>>
  /\ UNCHANGED <<place, cached, folderId, pending>>

BulkMoveDialog ==
  /\ dialog.kind = "bulk" /\ dialog' = NoDialog
  /\ \E d \in PickerOffers(None) : StartBulk(d)
  /\ UNCHANGED <<place, cached, folderId, selected, pending>>

\* One item of the operation: done, or refused and only counted.
BulkStep(i) ==
  /\ i \in bulk.todo /\ bulk' = [bulk EXCEPT !.todo = @ \ {i}]
  /\ \/ UNCHANGED place
     \/ Apply(IF bulk.dest = Trashed THEN "trash" ELSE "move", i, bulk.dest)
  /\ UNCHANGED <<cached, shown, pending, asides>>

BulkSettled ==
  /\ bulk.at = "running" /\ bulk.todo = {} /\ bulk' = NoBulk
  /\ Invalidate({bulk.from} \cup ({bulk.dest} \ {Root, Trashed}))
  /\ selected' = {}
  /\ UNCHANGED <<place, folderId, dialog, pending, changes>>

\* The open folder itself is trashed from the toolbar, and left for its parent, whose
\* listing is stale; no request survives that.
TrashOpenFolder ==
  /\ folderId = SubFolder /\ selected = {} /\ ~Busy /\ dialog = NoDialog
  /\ place[SubFolder] = Root /\ AskFor({})
  /\ place' = AfterTrash(SubFolder) /\ folderId' = Root
  /\ listing' = [listing EXCEPT ![Root].fresh = FALSE]
  /\ fetching' = [d \in Dirs |-> Quiet]
  /\ UNCHANGED <<selected, dialog, pending, bulk>>

Toolbar == NewItem \/ TrashOpenFolder \/ handleOpen(Root)

\* Another client trashes something.
OtherActs ==
  /\ \E i \in Items : place[i] \in Dirs /\ place' = AfterTrash(i)
  /\ disturbed' = TRUE
  /\ UNCHANGED <<cached, shown, pending, bulk, changes>>

FilesNext ==
  \/ AskListing \/ \E d \in Dirs : AnswerListing(d) \/ TakeListing(d)
  \/ \E i \in Items : BulkStep(i)
  \/ FileList \/ FileGrid \/ FileContextMenu \/ CloseDialog
  \/ RenameDialog \/ ConfirmTrash \/ MoveDialog \/ CopyDialog \/ PreviewModal
  \/ Toolbar \/ Serve \/ Succeed \/ Fail
  \/ BulkBar \/ BulkMoveDialog \/ BulkSettled \/ OtherActs

FilesSpec == FilesInit /\ [][FilesNext]_filesVars

---------------------------------------------------------------------------
\* While nothing disturbs it, a listing that counts as fresh when the page is
\* at rest shows its folder as it is; the root's may lack what was moved or
\* copied there, because no mutation tells the root (MovedKeys, CopiedKeys).
\* What disturbs it: another client's change, a walk with something under way or
\* selected, a change done though its answer failed, a folder made while its parent's
\* listing was stale or asked for, and the first answer for a folder, sent before the
\* page's own change there and taken after the invalidation (Outrun).
FreshListingsTrue ==
  ~disturbed /\ ~Busy =>
    \A d \in {f \in Dirs : Alive(f) /\ listing[f].fresh} :
      /\ listing[d].rows \subseteq Truth(d)
      /\ d # Root => Truth(d) \subseteq listing[d].rows
=============================================================================
