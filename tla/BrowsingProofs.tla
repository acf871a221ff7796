--------------------------- MODULE BrowsingProofs ---------------------------
(***************************************************************************)
(* Theorems about what a browser keeps of the server's state while others  *)
(* change it: the files page's listings, the folders a dropped folder's    *)
(* upload has found, the music player's list, and what the look-ups of     *)
(* dropped files and their dialogs decide.                                 *)
(***************************************************************************)
EXTENDS FilesPage, FolderUpload, Playlist, UploadChoice, FiniteSetTheorems, SequenceTheorems,
        WellFoundedInduction, TLAPS

-----------------------------------------------------------------------------
(* FilesPage: a cached or answered listing is out of step with its folder   *)
(* only while the operation under way is about to tell that folder's query, *)
(* or is about to write its new folder into it.                             *)

Dialogs ==
  {g \in [kind : {"none", "bulk", "rename", "move", "copy", "preview"},
          item : Items \cup {None}, current : Items \cup {None}] :
     g.kind \in {"rename", "move", "copy", "preview"} => g.item \in Items /\ g.current \in Items}

Mutations ==
  {m \in [kind : {"rename", "trash", "folder", "document", "copy", "move"},
          item : Items, dest : Dirs \cup {None}, at : {"sent", "served", "failed"}] :
     m.kind \in {"folder", "document", "copy", "move"} => m.dest \in Dirs}

Bulks == [todo : SUBSET Items, dest : Dirs \cup {Trashed}, from : Dirs, at : {"running"}]

FilesTypeOK ==
  /\ place \in [Items -> Dirs \cup {None, Trashed}] /\ place[SubFolder] \in {Root, Trashed}
  /\ listing \in [Dirs -> [rows : (SUBSET Items) \cup {None}, fresh : BOOLEAN]]
  /\ fetching \in [Dirs -> [at : {"idle", "asked", "answered"}, rows : SUBSET Items]]
  /\ folderId \in Dirs /\ selected \in SUBSET Items /\ dialog \in Dialogs
  /\ pending \in Mutations \cup {NoMutation} /\ bulk \in Bulks \cup {NoBulk}
  /\ disturbed \in BOOLEAN

OneAtATime == bulk = NoBulk \/ pending = NoMutation

\* What an operation under way works on is in the folder it was asked for in.
InPlace ==
  /\ pending.at = "sent" => place[pending.item] \in {None, folderId}
  /\ pending.kind \in {"folder", "document"} =>
       pending.dest = folderId /\ (pending.at = "served" => place[pending.item] = folderId)
  /\ bulk.at = "running" => /\ bulk.from = folderId
                            /\ \A i \in bulk.todo : place[i] \in {None, folderId}

\* The folders whose listings the operation under way invalidates when it ends.
Told ==
  IF bulk.at = "running" THEN {bulk.from} \cup ({bulk.dest} \ {Root, Trashed})
  ELSE IF pending.at # "served" THEN {}
  ELSE IF pending.kind \in {"rename", "trash", "document"} THEN {folderId}
  ELSE IF pending.kind = "move" THEN MovedKeys(pending.dest)
  ELSE IF pending.kind = "copy" THEN CopiedKeys(pending.dest)
  ELSE {}

\* The folder that the operation under way adds to the listing when it ends.
Added(d) == IF pending.at = "served" /\ pending.kind = "folder" /\ d = folderId
              THEN {pending.item} ELSE {}

Shows(d, S) ==
  /\ S \in SUBSET Items /\ S \subseteq Truth(d)
  /\ d # Root => Truth(d) \subseteq S \cup Added(d)

Holds(d) ==
  /\ listing[d].fresh => Shows(d, listing[d].rows)
  /\ fetching[d].at = "answered" => Shows(d, fetching[d].rows)

ListingsHold == \A d \in Dirs : Alive(d) /\ d \notin Told => Holds(d)

FilesInv == FilesTypeOK /\ (~disturbed => OneAtATime /\ InPlace /\ ListingsHold)

\* While nothing is under way nobody is about to be told.
LEMMA NobodyTold ==
  ASSUME FilesTypeOK, ~Busy
  PROVE  Told = {} /\ \A d : Added(d) = {}
BY DEF FilesTypeOK, Busy, NoBulk, NoMutation, Told, Added

LEMMA TruthIs ==
  ASSUME NEW d PROVE Truth(d) \in SUBSET Items
BY DEF Truth

\* What the page shows of a folder, a selection and a dialog.
LEMMA RowsShownAre == FilesTypeOK => RowsShown \in SUBSET Items
BY FilesAssumption DEF FilesTypeOK, RowsShown

\* A folder that is gone stays gone, and places stay places.
LEMMA TrashPlace ==
  ASSUME FilesTypeOK, NEW i \in Items, place' = AfterTrash(i)
  PROVE  /\ place' \in [Items -> Dirs \cup {None, Trashed}] /\ place'[SubFolder] \in {Root, Trashed}
         /\ \A d \in Dirs : Alive(d)' => Alive(d)
         /\ \A d \in Dirs : Alive(d)' /\ d # place[i] => Truth(d)' = Truth(d)
BY FilesAssumption DEF FilesTypeOK, AfterTrash, Alive, Truth, Dirs

LEMMA PutPlace ==
  ASSUME FilesTypeOK, NEW i \in Items, NEW d \in Dirs, place' = [place EXCEPT ![i] = d],
         place[i] = None \/ (place[i] \in Dirs /\ d # i)
  PROVE  /\ place' \in [Items -> Dirs \cup {None, Trashed}] /\ place'[SubFolder] \in {Root, Trashed}
         /\ \A c \in Dirs : Alive(c)' => Alive(c)
         /\ \A c \in Dirs : Truth(c)' = IF c = d THEN Truth(c) \cup {i} ELSE Truth(c) \ {i}
<1>1. place'[SubFolder] \in {Root, Trashed} BY FilesAssumption DEF FilesTypeOK, Dirs
<1>2. \A c \in Dirs : Alive(c)' => Alive(c) BY FilesAssumption DEF FilesTypeOK, Dirs, Alive
<1>3. \A c \in Dirs : Truth(c)' = IF c = d THEN Truth(c) \cup {i} ELSE Truth(c) \ {i}
    BY DEF FilesTypeOK, Truth
<1> QED BY <1>1, <1>2, <1>3 DEF FilesTypeOK

LEMMA ApplyPlace ==
  ASSUME FilesTypeOK, NEW k, NEW i \in Items, NEW d, Apply(k, i, d),
         k \in {"folder", "document", "copy", "move"} => d \in Dirs
  PROVE  /\ place' \in [Items -> Dirs \cup {None, Trashed}] /\ place'[SubFolder] \in {Root, Trashed}
         /\ \A c \in Dirs : Alive(c)' => Alive(c)
         /\ k = "rename" => \A c \in Dirs : Truth(c)' = Truth(c)
         /\ k = "trash" => \A c \in Dirs : Alive(c)' /\ c # place[i] => Truth(c)' = Truth(c)
         /\ k \in {"folder", "document", "copy", "move"} =>
              /\ place' = [place EXCEPT ![i] = d]
              /\ \A c \in Dirs : Truth(c)' = IF c = d THEN Truth(c) \cup {i} ELSE Truth(c) \ {i}
         /\ k \in {"folder", "document", "copy"} => place[i] = None
<1>1. CASE k = "rename" /\ UNCHANGED place BY <1>1 DEF FilesTypeOK, Alive, Truth
<1>2. CASE k = "trash" /\ place' = AfterTrash(i) BY <1>2, TrashPlace
<1>3. CASE /\ k \in {"folder", "document", "copy", "move"} /\ d \in Dirs
           /\ place' = [place EXCEPT ![i] = d]
           /\ k # "move" => place[i] = None
           /\ k = "move" => place[i] \in Dirs /\ d # i
    BY <1>3, PutPlace
<1> QED BY <1>1, <1>2, <1>3 DEF Apply

\* What a step that touches neither places nor listings nor operations leaves true.
LEMMA FilesRestInv ==
  ASSUME FilesInv, selected' \in SUBSET Items, dialog' \in Dialogs,
         UNCHANGED <<place, listing, fetching, folderId, pending, bulk, disturbed>>
  PROVE  FilesInv'
<1>1. FilesTypeOK' BY DEF FilesInv, FilesTypeOK
<1>2. \A d : /\ (d \in Told)' <=> d \in Told
             /\ Alive(d)' <=> Alive(d)
             /\ Holds(d)' <=> Holds(d)
    BY DEF Told, Alive, Holds, Shows, Truth, Added, MovedKeys, CopiedKeys
<1>3. ~disturbed => OneAtATime' /\ InPlace' BY DEF FilesInv, OneAtATime, InPlace
<1>4. ~disturbed => ListingsHold' BY <1>2 DEF FilesInv, ListingsHold
<1> QED BY <1>1, <1>3, <1>4 DEF FilesInv

\* Clicks, and dialogs opened, walked through and closed.
LEMMA DialogIs ==
  ASSUME FilesTypeOK, NEW k \in {"rename", "move", "copy", "preview"}, NEW i \in Items, NEW j \in Items
  PROVE  [kind |-> k, item |-> i, current |-> j] \in Dialogs
BY DEF Dialogs

LEMMA NoDialogIs ==
  /\ NoDialog \in Dialogs /\ [NoDialog EXCEPT !.kind = "bulk"] \in Dialogs
  /\ \A g \in Dialogs : g.kind \in {"rename", "move", "copy", "preview"} =>
       /\ g.item \in Items /\ g.current \in Items
       /\ \A i, j \in Items : [g EXCEPT !.item = i, !.current = j] \in Dialogs
       /\ \A j \in Items : [g EXCEPT !.current = j] \in Dialogs
BY DEF Dialogs, NoDialog

LEMMA SelectInv ==
  ASSUME FilesInv,
         handleSelectAll \/ \E i \in RowsShown, additive \in BOOLEAN : handleSelect(i, additive)
  PROVE  FilesInv'
<1>1. UNCHANGED <<place, listing, fetching, folderId, dialog, pending, bulk, disturbed>>
    BY DEF handleSelectAll, handleSelect, cached, asides
<1>2. selected' \in SUBSET Items
    BY RowsShownAre DEF FilesInv, FilesTypeOK, handleSelectAll, handleSelect
<1> QED BY <1>1, <1>2, FilesRestInv DEF FilesInv, FilesTypeOK

LEMMA DialogInv ==
  ASSUME FilesInv, FileContextMenu \/ CloseDialog \/ (dialog.kind = "preview" /\ PreviewNav)
  PROVE  FilesInv'
<1>1. PICK g : SetDialog(g) /\ g \in Dialogs
  <2>1. CASE FileContextMenu
    <3>1. PICK i \in RowsShown, k \in {"rename", "move", "copy", "preview"} :
            SetDialog([kind |-> k, item |-> i, current |-> i])
        BY <2>1 DEF FileContextMenu
    <3> QED BY <3>1, RowsShownAre, DialogIs DEF FilesInv
  <2>2. CASE CloseDialog BY <2>2, NoDialogIs DEF CloseDialog
  <2>3. CASE dialog.kind = "preview" /\ PreviewNav
    <3>1. PICK i \in PreviewItems : SetDialog([dialog EXCEPT !.current = i])
        BY <2>3 DEF PreviewNav
    <3> QED BY <2>3, <3>1, RowsShownAre, NoDialogIs DEF FilesInv, FilesTypeOK, PreviewItems
  <2> QED BY <2>1, <2>2, <2>3
<1>2. UNCHANGED <<place, listing, fetching, folderId, selected, pending, bulk, disturbed>>
      /\ dialog' = g
    BY <1>1 DEF SetDialog, cached, asides
<1> QED BY <1>1, <1>2, FilesRestInv DEF FilesInv, FilesTypeOK

\* A change is asked for: nothing else is under way, so every listing holds by itself.
LEMMA MutateInv ==
  ASSUME FilesInv, NEW k \in {"rename", "trash", "folder", "document", "copy", "move"},
         NEW i \in Items, NEW d \in Dirs \cup {None}, Mutate(k, i, d), dialog' \in Dialogs,
         k \in {"folder", "document"} => d = folderId,
         k \in {"copy", "move"} => d \in Dirs
  PROVE  FilesInv'
<1>1. /\ ~Busy /\ UNCHANGED <<place, listing, fetching, folderId, selected, bulk>>
      /\ disturbed' = (disturbed \/ place[i] \notin {None, folderId})
      /\ pending' = [kind |-> k, item |-> i, dest |-> d, at |-> "sent"]
    BY DEF Mutate, AskFor, cached
<1>2. pending' \in Mutations BY <1>1 DEF Mutations, FilesInv, FilesTypeOK
<1>3. FilesTypeOK'
    BY <1>1, <1>2 DEF FilesInv, FilesTypeOK
<1> SUFFICES ASSUME ~disturbed' PROVE OneAtATime' /\ InPlace' /\ ListingsHold'
    BY <1>3 DEF FilesInv
<1>4. ~disturbed /\ place[i] \in {None, folderId} BY <1>1
<1>5. bulk = NoBulk /\ bulk' = NoBulk BY <1>1 DEF Busy
<1>6. InPlace' BY <1>1, <1>4, <1>5 DEF InPlace, NoBulk
<1>7. Told' = {} /\ \A c : Added(c)' = {} BY <1>1, <1>5 DEF Told, Added, NoBulk
<1>8. Told = {} /\ \A c : Added(c) = {} BY <1>1, NobodyTold DEF FilesInv
<1>9. ListingsHold'
    BY <1>1, <1>4, <1>7, <1>8 DEF FilesInv, ListingsHold, Holds, Shows, Truth, Alive
<1> QED BY <1>5, <1>6, <1>9 DEF OneAtATime

LEMMA MutationInv ==
  ASSUME FilesInv,
         \/ RenameDialog \/ ConfirmTrash \/ NewItem \/ MoveDialog \/ CopyDialog
         \/ (dialog.kind = "preview" /\ PreviewDelete)
  PROVE  FilesInv'
<1> USE DEF FilesInv
<1>1. dialog \in Dialogs /\ folderId \in Dirs BY DEF FilesTypeOK
<1>2. CASE RenameDialog
    BY <1>1, <1>2, MutateInv, NoDialogIs DEF RenameDialog
<1>3. CASE ConfirmTrash
    BY <1>1, <1>3, MutateInv, RowsShownAre DEF ConfirmTrash
<1>4. CASE NewItem BY <1>1, <1>4, MutateInv DEF NewItem
<1>5. CASE MoveDialog
    BY <1>1, <1>5, MutateInv, NoDialogIs DEF MoveDialog, PickerOffers
<1>6. CASE CopyDialog BY <1>1, <1>6, MutateInv DEF CopyDialog, PickerOffers
<1>7. CASE dialog.kind = "preview" /\ PreviewDelete
  <2>1. dialog.item \in Items /\ dialog.current \in Items BY <1>1, <1>7, NoDialogIs
  <2>2. PreviewItems \subseteq Items BY RowsShownAre DEF PreviewItems
  <2>3. \/ \E i \in Items : dialog' = [dialog EXCEPT !.item = i, !.current = i]
        \/ UNCHANGED dialog \/ dialog' = NoDialog
      BY <1>7, <2>2 DEF PreviewDelete
  <2>4. Mutate("trash", dialog.current, None) BY <1>7 DEF PreviewDelete
  <2>5. dialog' \in Dialogs
    <3>1. ASSUME NEW i \in Items PROVE [dialog EXCEPT !.item = i, !.current = i] \in Dialogs
        BY <1>1, <1>7, NoDialogIs
    <3> QED BY <1>1, <2>3, <3>1, NoDialogIs
  <2>6. None \in Dirs \cup {None} OBVIOUS
  <2> QED BY <2>1, <2>4, <2>5, <2>6, MutateInv
<1> QED BY <1>2, <1>3, <1>4, <1>5, <1>6, <1>7

\* Several rows are asked to be moved or trashed.
LEMMA BulkAskInv ==
  ASSUME FilesInv, NEW d \in Dirs \cup {Trashed}, StartBulk(d), dialog' \in Dialogs,
         UNCHANGED <<place, listing, fetching, folderId, selected, pending>>
  PROVE  FilesInv'
<1>1. /\ ~Busy /\ disturbed' = (disturbed \/ \E i \in selected : place[i] \notin {None, folderId})
      /\ bulk' = [todo |-> selected, dest |-> d, from |-> folderId, at |-> "running"]
    BY DEF StartBulk, AskFor
<1>2. bulk' \in Bulks BY <1>1 DEF Bulks, FilesInv, FilesTypeOK
<1>3. FilesTypeOK' BY <1>1, <1>2 DEF FilesInv, FilesTypeOK
<1> SUFFICES ASSUME ~disturbed' PROVE OneAtATime' /\ InPlace' /\ ListingsHold'
    BY <1>3 DEF FilesInv
<1>4. ~disturbed /\ \A i \in selected : place[i] \in {None, folderId} BY <1>1
<1>5. pending = NoMutation /\ pending' = NoMutation BY <1>1 DEF Busy
<1>6. InPlace' BY <1>1, <1>4, <1>5 DEF InPlace, NoMutation
<1>7. Told = {} /\ \A c : Added(c)' = {} /\ Added(c) = {}
    BY <1>1, <1>5, NobodyTold DEF FilesInv, Added, NoMutation
<1>8. ListingsHold'
    BY <1>1, <1>4, <1>7 DEF FilesInv, ListingsHold, Holds, Shows, Truth, Alive
<1> QED BY <1>5, <1>6, <1>8 DEF OneAtATime

LEMMA BulkBarInv ==
  ASSUME FilesInv, BulkBar \/ BulkMoveDialog
  PROVE  FilesInv'
<1>0. dialog \in Dialogs BY DEF FilesInv, FilesTypeOK
<1>1. CASE BulkMoveDialog
    BY <1>1, BulkAskInv, NoDialogIs DEF BulkMoveDialog, PickerOffers, cached
<1>2. CASE BulkBar /\ StartBulk(Trashed) /\ UNCHANGED <<selected, dialog>>
    BY <1>0, <1>2, BulkAskInv DEF BulkBar, cached
<1>3. CASE BulkBar /\ UNCHANGED <<bulk, asides>> /\ selected' \in {selected, {}}
           /\ dialog' \in {dialog, [NoDialog EXCEPT !.kind = "bulk"]}
    BY <1>0, <1>3, FilesRestInv, NoDialogIs DEF BulkBar, cached, asides, FilesInv, FilesTypeOK
<1> QED BY <1>1, <1>2, <1>3 DEF BulkBar

\* A folder is opened.  With something under way, selected or on screen it is disturbed.
LEMMA OpenInv ==
  ASSUME FilesInv, NEW d \in Dirs, handleOpen(d)
  PROVE  FilesInv'
<1>1. PICK expired \in BOOLEAN : listing' = [listing EXCEPT ![d].fresh = @ /\ ~expired]
    BY DEF handleOpen
<1>2. /\ folderId' = d /\ UNCHANGED <<place, selected, dialog, pending, bulk>>
      /\ fetching' = [fetching EXCEPT ![folderId] = Quiet]
      /\ disturbed' = (disturbed \/ Busy \/ selected # {} \/ dialog # NoDialog)
    BY DEF handleOpen
<1>0. Quiet \in [at : {"idle", "asked", "answered"}, rows : SUBSET Items] /\ Quiet.at = "idle"
    BY DEF Quiet
<1>9. fetching' \in [Dirs -> [at : {"idle", "asked", "answered"}, rows : SUBSET Items]]
    BY <1>0, <1>2 DEF FilesInv, FilesTypeOK
<1>11. listing' \in [Dirs -> [rows : (SUBSET Items) \cup {None}, fresh : BOOLEAN]]
  <2> DEFINE l == [listing[d] EXCEPT !.fresh = listing[d].fresh /\ ~expired]
  <2>1. listing \in [Dirs -> [rows : (SUBSET Items) \cup {None}, fresh : BOOLEAN]]
      BY DEF FilesInv, FilesTypeOK
  <2>2. listing' = [listing EXCEPT ![d] = l] BY <1>1
  <2>3. (listing[d].fresh /\ ~expired) \in BOOLEAN OBVIOUS
  <2>4. l \in [rows : (SUBSET Items) \cup {None}, fresh : BOOLEAN] BY <2>1, <2>3
  <2> HIDE DEF l
  <2> QED BY <2>1, <2>2, <2>4
<1>12. disturbed' \in BOOLEAN
  <2>1. disturbed' = (disturbed \/ Busy \/ selected # {} \/ dialog # NoDialog) BY <1>2
  <2> QED BY <2>1
<1>3. FilesTypeOK'
  <2>1. /\ folderId' \in Dirs /\ place' = place /\ selected' = selected /\ dialog' = dialog
        /\ pending' = pending /\ bulk' = bulk
      BY <1>2
  <2>2. FilesTypeOK BY DEF FilesInv
  <2> QED BY <1>9, <1>11, <1>12, <2>1, <2>2, Zenon DEF FilesTypeOK
<1> SUFFICES ASSUME ~disturbed' PROVE OneAtATime' /\ InPlace' /\ ListingsHold'
    BY <1>3 DEF FilesInv
<1>4. ~disturbed /\ bulk = NoBulk /\ pending = NoMutation BY <1>2 DEF Busy
<1>5. Told = {} /\ \A c : Added(c)' = {} /\ Added(c) = {}
    BY <1>2, <1>4, NobodyTold DEF FilesInv, Added, NoMutation, Busy
<1>6. OneAtATime' /\ InPlace' BY <1>2, <1>4 DEF OneAtATime, InPlace, NoMutation, NoBulk
<1>7. \A c \in Dirs : listing'[c].rows = listing[c].rows
                      /\ (listing'[c].fresh => listing[c].fresh)
    BY <1>1 DEF FilesInv, FilesTypeOK
<1>10. \A c \in Dirs : fetching'[c].at = "answered" => fetching'[c] = fetching[c]
    BY <1>0, <1>2 DEF FilesInv, FilesTypeOK
<1>8. ListingsHold'
  <2> SUFFICES ASSUME NEW c \in Dirs, Alive(c)' PROVE Holds(c)' BY DEF ListingsHold
  <2>1. Alive(c) /\ Truth(c)' = Truth(c) BY <1>2 DEF Alive, Truth
  <2>2. Holds(c) BY <1>4, <1>5, <2>1 DEF FilesInv, ListingsHold
  <2> QED BY <1>5, <1>7, <1>10, <2>1, <2>2 DEF Holds, Shows
<1> QED BY <1>6, <1>8

\* A listing is asked for, answered with the folder as it is, and taken.
LEMMA NewListingInv ==
  ASSUME FilesInv, NEW d \in Dirs,
         NEW l \in [rows : (SUBSET Items) \cup {None}, fresh : BOOLEAN],
         NEW f \in [at : {"idle", "asked", "answered"}, rows : SUBSET Items],
         listing' = [listing EXCEPT ![d] = l], fetching' = [fetching EXCEPT ![d] = f],
         UNCHANGED <<place, folderId, selected, dialog, pending, bulk, disturbed>>,
         Holds(d) => /\ l.fresh => Shows(d, l.rows)
                     /\ f.at = "answered" => Shows(d, f.rows)
  PROVE  FilesInv'
<1>1. FilesTypeOK' BY DEF FilesInv, FilesTypeOK
<1> SUFFICES ASSUME ~disturbed PROVE OneAtATime' /\ InPlace' /\ ListingsHold'
    BY <1>1 DEF FilesInv
<1>2. OneAtATime' /\ InPlace' BY DEF FilesInv, OneAtATime, InPlace
<1>3. ASSUME NEW c \in Dirs, Alive(c)', c \notin Told' PROVE Holds(c)'
  <2>1. Holds(c) /\ Truth(c)' = Truth(c) /\ Added(c)' = Added(c)
      BY <1>3 DEF FilesInv, ListingsHold, Told, Alive, Added, Truth, MovedKeys, CopiedKeys
  <2>2. CASE c = d
    <3>1. listing'[c] = l /\ fetching'[c] = f BY <2>2 DEF FilesInv, FilesTypeOK
    <3> QED BY <2>1, <2>2, <3>1 DEF Holds, Shows
  <2>3. CASE c # d
    <3>1. listing'[c] = listing[c] /\ fetching'[c] = fetching[c]
        BY <2>3 DEF FilesInv, FilesTypeOK
    <3> QED BY <2>1, <3>1 DEF Holds, Shows
  <2> QED BY <2>2, <2>3
<1> QED BY <1>2, <1>3 DEF ListingsHold

LEMMA ListingInv ==
  ASSUME FilesInv, AskListing \/ \E d \in Dirs : AnswerListing(d) \/ TakeListing(d)
  PROVE  FilesInv'
<1>1. UNCHANGED <<place, folderId, selected, dialog, pending, bulk, disturbed>>
    BY DEF AskListing, AnswerListing, TakeListing, shown, asides
<1>2. ASSUME NEW d \in Dirs
      PROVE  /\ listing[d] \in [rows : (SUBSET Items) \cup {None}, fresh : BOOLEAN]
             /\ fetching[d] \in [at : {"idle", "asked", "answered"}, rows : SUBSET Items]
             /\ listing = [listing EXCEPT ![d] = listing[d]]
    BY DEF FilesInv, FilesTypeOK
<1>3. CASE AskListing
  <2>1. PICK d \in Dirs : /\ fetching' = [fetching EXCEPT ![d] = [fetching[d] EXCEPT !.at = "asked"]]
                          /\ listing' = listing
      BY <1>3 DEF AskListing, FilesInv, FilesTypeOK
  <2> DEFINE f == [fetching[d] EXCEPT !.at = "asked"]
  <2>2. f \in [at : {"idle", "asked", "answered"}, rows : SUBSET Items] /\ f.at = "asked"
      BY <1>2
  <2> HIDE DEF f
  <2>3. fetching' = [fetching EXCEPT ![d] = f] BY <2>1 DEF f
  <2>4. listing' = [listing EXCEPT ![d] = listing[d]] BY <1>2, <2>1
  <2>5. Holds(d) => /\ listing[d].fresh => Shows(d, listing[d].rows)
                    /\ f.at = "answered" => Shows(d, f.rows)
      BY <2>2 DEF Holds
  <2> QED BY <1>1, <1>2, <2>2, <2>3, <2>4, <2>5, NewListingInv
<1>4. ASSUME NEW d \in Dirs, AnswerListing(d) PROVE FilesInv'
  <2> DEFINE f == [at |-> "answered", rows |-> Truth(d)]
  <2>1. fetching' = [fetching EXCEPT ![d] = f] /\ listing' = listing
      BY <1>4 DEF AnswerListing, cached
  <2>2. f \in [at : {"idle", "asked", "answered"}, rows : SUBSET Items] /\ Shows(d, f.rows)
      BY TruthIs DEF Shows
  <2> HIDE DEF f
  <2> QED BY <1>1, <1>2, <2>1, <2>2, NewListingInv DEF Holds
<1>5. ASSUME NEW d \in Dirs, TakeListing(d) PROVE FilesInv'
  <2> DEFINE l == [rows |-> fetching[d].rows, fresh |-> TRUE]
  <2>1. /\ listing' = [listing EXCEPT ![d] = l] /\ fetching' = [fetching EXCEPT ![d] = Quiet]
        /\ fetching[d].at = "answered"
      BY <1>5 DEF TakeListing
  <2>2. /\ l \in [rows : (SUBSET Items) \cup {None}, fresh : BOOLEAN]
        /\ l.rows = fetching[d].rows
      BY <1>2
  <2>3. Quiet \in [at : {"idle", "asked", "answered"}, rows : SUBSET Items] /\ Quiet.at = "idle"
      BY DEF Quiet
  <2> HIDE DEF l
  <2> QED BY <1>1, <2>1, <2>2, <2>3, NewListingInv DEF Holds
<1> QED BY <1>3, <1>4, <1>5

\* What is invalidated is not fresh, and what is on its way for it is the folder as it is,
\* unless the answer was outrun; the rest is as it was.
LEMMA InvalidateIs ==
  ASSUME FilesTypeOK, NEW K, Invalidate(K)
  PROVE  /\ listing' \in [Dirs -> [rows : (SUBSET Items) \cup {None}, fresh : BOOLEAN]]
         /\ fetching' \in [Dirs -> [at : {"idle", "asked", "answered"}, rows : SUBSET Items]]
         /\ \A c \in Dirs : IF c \in K THEN ~listing'[c].fresh
                            ELSE listing'[c] = listing[c] /\ fetching'[c] = fetching[c]
<1>1. ASSUME NEW c \in Dirs
      PROVE  /\ listing'[c] \in [rows : (SUBSET Items) \cup {None}, fresh : BOOLEAN]
             /\ IF c \in K THEN ~listing'[c].fresh ELSE listing'[c] = listing[c]
    BY DEF FilesTypeOK, Invalidate
<1>2. ASSUME NEW c \in Dirs
      PROVE  /\ fetching'[c] \in [at : {"idle", "asked", "answered"}, rows : SUBSET Items]
             /\ c \notin K => fetching'[c] = fetching[c]
    BY DEF FilesTypeOK, Invalidate, Quiet
<1>3. listing' = [c \in Dirs |-> listing'[c]] /\ fetching' = [c \in Dirs |-> fetching'[c]]
    BY DEF Invalidate
<1> QED BY <1>1, <1>2, <1>3

LEMMA NoneOutrun ==
  ASSUME FilesTypeOK, NEW K, Invalidate(K), ~disturbed',
         NEW c \in Dirs, c \in K, fetching'[c].at = "answered"
  PROVE  fetching'[c].rows = Truth(c)
<1>1. ~Outrun(c) BY DEF Invalidate
<1>2. fetching' = [d \in Dirs |-> IF d \in K /\ Restarts(d) THEN Quiet ELSE fetching[d]]
    BY DEF Invalidate
<1>3. Quiet.at # "answered" BY DEF Quiet
<1>4. ~Restarts(c) /\ fetching'[c] = fetching[c] BY <1>2, <1>3
<1> QED BY <1>1, <1>4 DEF Outrun

LEMMA StillDisturbed ==
  ASSUME FilesTypeOK, NEW K, Invalidate(K)
  PROVE  disturbed' \in BOOLEAN /\ (disturbed => disturbed')
BY Zenon DEF FilesTypeOK, Invalidate

\* An operation ends: it tells whom it has to, and what held but for it holds.
LEMMA ToldInv ==
  ASSUME FilesInv, Invalidate(Told), pending' = NoMutation, bulk' = NoBulk,
         selected' \in SUBSET Items, dialog' \in Dialogs, \A d \in Dirs : Added(d) = {},
         UNCHANGED <<place, folderId>>
  PROVE  FilesInv'
<1>0. /\ listing' \in [Dirs -> [rows : (SUBSET Items) \cup {None}, fresh : BOOLEAN]]
      /\ fetching' \in [Dirs -> [at : {"idle", "asked", "answered"}, rows : SUBSET Items]]
      /\ \A c \in Dirs : IF c \in Told THEN ~listing'[c].fresh
                         ELSE listing'[c] = listing[c] /\ fetching'[c] = fetching[c]
    BY InvalidateIs DEF FilesInv
<1>5. disturbed' \in BOOLEAN BY StillDisturbed DEF FilesInv
<1>1. FilesTypeOK' BY <1>0, <1>5 DEF FilesInv, FilesTypeOK
<1> SUFFICES ASSUME ~disturbed' PROVE OneAtATime' /\ InPlace' /\ ListingsHold'
    BY <1>1 DEF FilesInv
<1>4. ~disturbed BY StillDisturbed DEF FilesInv
<1>2. OneAtATime' /\ InPlace' BY DEF OneAtATime, InPlace, NoMutation, NoBulk
<1>3. ASSUME NEW c \in Dirs, Alive(c)' PROVE Holds(c)'
  <2>1. Alive(c) /\ Truth(c)' = Truth(c) /\ Added(c) = {} /\ Added(c)' = {}
      BY <1>3 DEF Alive, Truth, Added, NoMutation
  <2>2. CASE c \in Told
    <3>1. ~listing'[c].fresh BY <1>0, <2>2
    <3>2. fetching'[c].at = "answered" => fetching'[c].rows = Truth(c)'
        BY <2>1, <2>2, NoneOutrun DEF FilesInv
    <3>3. Truth(c)' \in SUBSET Items BY <2>1, TruthIs
    <3>4. fetching'[c].at = "answered" => Shows(c, fetching[c].rows)'
        BY <3>2, <3>3 DEF Shows
    <3> QED BY <3>1, <3>4 DEF Holds
  <2>3. CASE c \notin Told
    <3>1. listing'[c] = listing[c] /\ fetching'[c] = fetching[c] BY <1>0, <2>3
    <3>2. Holds(c) BY <1>4, <2>1, <2>3 DEF FilesInv, ListingsHold
    <3> QED BY <2>1, <3>1, <3>2 DEF Holds, Shows
  <2> QED BY <2>2, <2>3
<1> QED BY <1>2, <1>3 DEF ListingsHold

\* What a place gained is missing at most where it may be missing.
LEMMA GrownHolds ==
  ASSUME NEW c, Holds(c), Added(c) = {}, UNCHANGED <<listing, fetching>>,
         Truth(c) \subseteq Truth(c)',
         c # Root => Truth(c)' \subseteq Truth(c) \cup Added(c)'
  PROVE  Holds(c)'
<1>1. ASSUME listing[c].fresh PROVE Shows(c, listing[c].rows)'
    BY <1>1 DEF Holds, Shows
<1>2. ASSUME fetching[c].at = "answered" PROVE Shows(c, fetching[c].rows)'
    BY <1>2 DEF Holds, Shows
<1> QED BY <1>1, <1>2 DEF Holds

LEMMA ServeInv == ASSUME FilesInv, Serve PROVE FilesInv'
<1>1. /\ pending.at = "sent" /\ pending \in Mutations
      /\ UNCHANGED <<listing, fetching, folderId, selected, dialog, bulk, disturbed>>
    BY DEF Serve, cached, shown, asides, FilesInv, FilesTypeOK, NoMutation
<1>2. /\ pending.item \in Items
      /\ pending.kind \in {"rename", "trash", "folder", "document", "copy", "move"}
      /\ pending.kind \in {"folder", "document", "copy", "move"} => pending.dest \in Dirs
      /\ \A at \in {"served", "failed"} : [pending EXCEPT !.at = at] \in Mutations
    BY <1>1 DEF Mutations
<1>3. ~disturbed => bulk = NoBulk /\ Told = {} /\ \A c : Added(c) = {}
    BY <1>1 DEF FilesInv, OneAtATime, NoMutation, Told, Added, NoBulk
<1>4. CASE pending' = [pending EXCEPT !.at = "failed"] /\ UNCHANGED place
  <2>1. pending'.at = "failed" /\ pending'.kind = pending.kind /\ pending'.dest = pending.dest
        /\ pending' \in Mutations
      BY <1>1, <1>2, <1>4 DEF Mutations
  <2>2. FilesTypeOK' BY <1>1, <1>4, <2>1 DEF FilesInv, FilesTypeOK
  <2>3. ~disturbed => OneAtATime' /\ InPlace'
      BY <1>1, <1>3, <1>4, <2>1 DEF FilesInv, OneAtATime, InPlace, NoBulk
  <2>4. ~disturbed => ListingsHold'
      BY <1>1, <1>3, <1>4, <2>1
      DEF FilesInv, ListingsHold, Holds, Shows, Truth, Alive, Added
  <2> QED BY <1>1, <2>2, <2>3, <2>4 DEF FilesInv
<1>5. CASE /\ pending' = [pending EXCEPT !.at = "served"]
           /\ Apply(pending.kind, pending.item, pending.dest)
  <2>1. /\ pending'.at = "served" /\ pending'.kind = pending.kind /\ pending'.dest = pending.dest
        /\ pending'.item = pending.item /\ pending' \in Mutations
      BY <1>1, <1>2, <1>5 DEF Mutations
  <2>2. /\ place' \in [Items -> Dirs \cup {None, Trashed}] /\ place'[SubFolder] \in {Root, Trashed}
        /\ \A c \in Dirs : Alive(c)' => Alive(c)
        /\ pending.kind = "rename" => \A c \in Dirs : Truth(c)' = Truth(c)
        /\ pending.kind = "trash" =>
             \A c \in Dirs : Alive(c)' /\ c # place[pending.item] => Truth(c)' = Truth(c)
        /\ pending.kind \in {"folder", "document", "copy", "move"} =>
             /\ place' = [place EXCEPT ![pending.item] = pending.dest]
             /\ \A c \in Dirs : Truth(c)' = IF c = pending.dest THEN Truth(c) \cup {pending.item}
                                            ELSE Truth(c) \ {pending.item}
        /\ pending.kind \in {"folder", "document", "copy"} => place[pending.item] = None
      BY <1>2, <1>5, ApplyPlace DEF FilesInv
  <2>3. FilesTypeOK' BY <1>1, <2>1, <2>2 DEF FilesInv, FilesTypeOK
  <2> SUFFICES ASSUME ~disturbed PROVE OneAtATime' /\ InPlace' /\ ListingsHold'
      BY <1>1, <2>3 DEF FilesInv
  <2>4. OneAtATime' /\ bulk' = NoBulk BY <1>1, <1>3 DEF OneAtATime
  <2>5. InPlace'
    <3>1. pending.kind \in {"folder", "document"} =>
            pending.dest = folderId /\ place'[pending.item] = folderId
        BY <1>2, <2>2 DEF FilesInv, FilesTypeOK, InPlace
    <3> QED BY <1>1, <2>1, <2>4, <3>1 DEF InPlace, NoBulk
  <2>6. ASSUME NEW c \in Dirs, Alive(c)', c \notin Told' PROVE Holds(c)'
    <3>1. Holds(c) /\ Added(c) = {} BY <1>3, <2>2, <2>6 DEF FilesInv, ListingsHold
    <3>2. place[pending.item] \in {None, folderId} BY <1>1 DEF FilesInv, InPlace
    <3>3. pending.kind \in {"rename", "trash", "document"} => c # folderId
        BY <1>1, <2>1, <2>4, <2>6 DEF Told, NoBulk
    <3>4. pending.kind = "move" => c # folderId /\ (c = Root \/ c # pending.dest)
        BY <1>1, <2>1, <2>4, <2>6 DEF Told, NoBulk, MovedKeys
    <3>5. pending.kind = "copy" => c = Root \/ c # pending.dest
        BY <1>1, <2>1, <2>4, <2>6 DEF Told, NoBulk, CopiedKeys
    <3>6. pending.kind \in {"folder", "document"} => pending.dest = folderId
        BY DEF FilesInv, InPlace
    <3>7. pending.kind = "folder" /\ c = folderId => Added(c)' = {pending.item}
        BY <1>1, <2>1 DEF Added
    <3>8. pending.item \in Truth(c) => c = place[pending.item] /\ c \in Dirs
        BY <2>6 DEF Truth
    <3>9. None \notin Dirs BY FilesAssumption DEF Dirs
    <3>10. CASE pending.kind \in {"rename", "trash"}
      <4>1. Truth(c)' = Truth(c) BY <2>2, <2>6, <3>2, <3>3, <3>9, <3>10
      <4> QED BY <1>1, <3>1, <4>1, GrownHolds
    <3>11. CASE pending.kind \in {"folder", "document", "copy", "move"}
      <4>1. pending.item \notin Truth(c)
          BY <2>2, <3>2, <3>3, <3>4, <3>8, <3>9, <3>11
      <4>2. Truth(c)' = IF c = pending.dest THEN Truth(c) \cup {pending.item} ELSE Truth(c)
          BY <2>2, <2>6, <3>11, <4>1
      <4>3. c = pending.dest => c = Root \/ Added(c)' = {pending.item}
          BY <3>3, <3>4, <3>5, <3>6, <3>7, <3>11
      <4> QED BY <1>1, <3>1, <4>2, <4>3, GrownHolds
    <3> QED BY <1>2, <3>10, <3>11
  <2> QED BY <2>4, <2>5, <2>6 DEF ListingsHold
<1> QED BY <1>4, <1>5 DEF Serve

LEMMA SucceedInv == ASSUME FilesInv, Succeed PROVE FilesInv'
<1>1. /\ pending.at = "served" /\ pending \in Mutations /\ pending' = NoMutation
      /\ UNCHANGED <<place, folderId, selected, bulk>> /\ dialog' \in {NoDialog, dialog}
    BY DEF Succeed, FilesInv, FilesTypeOK, NoMutation
<1>2. ~disturbed => bulk = NoBulk
    BY <1>1 DEF FilesInv, OneAtATime, NoMutation
<1>3. /\ folderId \in Dirs /\ dialog' \in Dialogs /\ pending.item \in Items
      /\ listing[folderId].rows \in (SUBSET Items) \cup {None}
    BY <1>1, NoDialogIs DEF FilesInv, FilesTypeOK, Mutations
<1>4. CASE pending.kind # "folder"
  <2>1. \E K : Invalidate(K) /\ K = IF pending.kind \in {"rename", "trash", "document"} THEN {folderId}
                                    ELSE IF pending.kind = "move" THEN MovedKeys(pending.dest)
                                    ELSE CopiedKeys(pending.dest)
      BY <1>4 DEF Succeed
  <2>2. pending.kind \in {"rename", "trash", "document", "move", "copy"}
      BY <1>1, <1>4 DEF Mutations
  <2>3. CASE ~disturbed
    <3>1. Invalidate(Told) BY <1>1, <1>2, <2>1, <2>2, <2>3 DEF Told, NoBulk
    <3>2. \A d \in Dirs : Added(d) = {} BY <1>4 DEF Added
    <3>3. bulk' = NoBulk /\ selected' \in SUBSET Items
        BY <1>1, <1>2, <2>3 DEF FilesInv, FilesTypeOK
    <3> QED BY <1>1, <1>3, <2>1, <3>1, <3>2, <3>3, ToldInv
  <2>4. CASE disturbed
    <3>1. /\ listing' \in [Dirs -> [rows : (SUBSET Items) \cup {None}, fresh : BOOLEAN]]
          /\ fetching' \in [Dirs -> [at : {"idle", "asked", "answered"}, rows : SUBSET Items]]
        BY <2>1, InvalidateIs DEF FilesInv
    <3>2. disturbed' \in BOOLEAN /\ disturbed' BY <2>1, <2>4, StillDisturbed DEF FilesInv
    <3>3. FilesTypeOK' BY <1>1, <1>3, <3>1, <3>2 DEF FilesInv, FilesTypeOK
    <3> QED BY <3>2, <3>3 DEF FilesInv
  <2> QED BY <2>3, <2>4 DEF FilesInv, FilesTypeOK
<1>5. CASE pending.kind = "folder"
  <2> DEFINE new == (IF listing[folderId].rows = None THEN {} ELSE listing[folderId].rows)
                      \cup {pending.item}
             l == [rows |-> new, fresh |-> TRUE]
  <2>1. /\ listing' = [listing EXCEPT ![folderId] = l] /\ UNCHANGED fetching
        /\ disturbed' = (disturbed \/ ~listing[folderId].fresh \/ fetching[folderId] # Quiet)
      BY <1>5 DEF Succeed
  <2>2. new \in SUBSET Items BY <1>3
  <2>3. l \in [rows : (SUBSET Items) \cup {None}, fresh : BOOLEAN] /\ l.rows = new BY <2>2
  <2> HIDE DEF l
  <2>4. FilesTypeOK' BY <1>1, <1>3, <2>1, <2>3 DEF FilesInv, FilesTypeOK
  <2> SUFFICES ASSUME ~disturbed' PROVE OneAtATime' /\ InPlace' /\ ListingsHold'
      BY <2>4 DEF FilesInv
  <2>5. ~disturbed /\ listing[folderId].fresh /\ fetching[folderId] = Quiet BY <2>1
  <2>6. OneAtATime' /\ InPlace'
      BY <1>1, <1>2, <2>5 DEF OneAtATime, InPlace, NoMutation, NoBulk
  <2>7. ASSUME NEW c \in Dirs, Alive(c)' PROVE Holds(c)'
    <3>1. Told = {} BY <1>1, <1>2, <1>5, <2>5 DEF Told, NoBulk
    <3>2. Alive(c) /\ Truth(c)' = Truth(c) /\ Added(c)' = {}
        BY <1>1, <2>7 DEF Alive, Truth, Added, NoMutation
    <3>3. Holds(c) BY <2>5, <3>1, <3>2 DEF FilesInv, ListingsHold
    <3>4. CASE c # folderId
      <4>1. listing'[c] = listing[c] /\ fetching'[c] = fetching[c] /\ Added(c) = {}
          BY <2>1, <3>4 DEF FilesInv, FilesTypeOK, Added
      <4> QED BY <3>2, <3>3, <4>1 DEF Holds, Shows
    <3>5. CASE c = folderId
      <4>1. listing'[c] = l /\ fetching'[c] = Quiet
          BY <1>3, <2>1, <2>5, <3>5 DEF FilesInv, FilesTypeOK
      <4>2. Shows(c, listing[c].rows) /\ Added(c) = {pending.item}
          BY <1>1, <1>5, <2>5, <3>3, <3>5 DEF Holds, Added
      <4>3. listing[folderId].rows # None
          BY <3>5, <4>2, FilesAssumption DEF Shows
      <4>4. new = listing[c].rows \cup {pending.item} BY <3>5, <4>3
      <4>5. pending.item \in Truth(c)
          BY <1>1, <1>3, <1>5, <2>5, <3>5 DEF FilesInv, InPlace, Truth
      <4>6. new \subseteq Truth(c) /\ (c # Root => Truth(c) \subseteq new)
          BY <4>2, <4>4, <4>5 DEF Shows
      <4> HIDE DEF new
      <4> QED BY <2>2, <2>3, <3>2, <4>1, <4>6 DEF Holds, Shows, Quiet
    <3> QED BY <3>4, <3>5
  <2> QED BY <2>6, <2>7 DEF ListingsHold
<1> QED BY <1>4, <1>5

LEMMA FailInv == ASSUME FilesInv, Fail PROVE FilesInv'
<1>1. /\ pending.at \in {"failed", "served"} /\ pending' = NoMutation
      /\ disturbed' = (disturbed \/ pending.at = "served")
      /\ UNCHANGED <<place, listing, fetching, folderId, selected, dialog, bulk>>
    BY DEF Fail, cached, shown
<1>2. FilesTypeOK' BY <1>1 DEF FilesInv, FilesTypeOK
<1> SUFFICES ASSUME ~disturbed' PROVE OneAtATime' /\ InPlace' /\ ListingsHold'
    BY <1>2 DEF FilesInv
<1>3. ~disturbed /\ pending.at = "failed" BY <1>1
<1>4. bulk = NoBulk BY <1>3 DEF FilesInv, OneAtATime, NoMutation
<1>5. OneAtATime' /\ InPlace' BY <1>1, <1>4 DEF OneAtATime, InPlace, NoMutation, NoBulk
<1>6. Told = {} /\ \A c : Added(c) = {} /\ Added(c)' = {}
    BY <1>1, <1>3, <1>4 DEF Told, Added, NoBulk, NoMutation
<1>7. ListingsHold'
    BY <1>1, <1>3, <1>6 DEF FilesInv, ListingsHold, Holds, Shows, Truth, Alive
<1> QED BY <1>5, <1>7

LEMMA BulkIs ==
  ASSUME FilesInv, bulk # NoBulk
  PROVE  /\ bulk \in Bulks /\ bulk.at = "running" /\ bulk.todo \in SUBSET Items
         /\ bulk.dest \in Dirs \cup {Trashed}
         /\ ~disturbed => /\ pending = NoMutation /\ \A c : Added(c) = {}
                          /\ bulk.from = folderId
                          /\ \A i \in bulk.todo : place[i] \in {None, folderId}
                          /\ Told = {folderId} \cup ({bulk.dest} \ {Root, Trashed})
<1>1. bulk \in Bulks /\ bulk.at = "running" BY DEF FilesInv, FilesTypeOK, Bulks
<1>2. bulk.todo \in SUBSET Items /\ bulk.dest \in Dirs \cup {Trashed} BY <1>1 DEF Bulks
<1>3. ASSUME ~disturbed
      PROVE  pending = NoMutation /\ (\A c : Added(c) = {}) /\ bulk.from = folderId
             /\ \A i \in bulk.todo : place[i] \in {None, folderId}
    BY <1>1, <1>3 DEF FilesInv, OneAtATime, InPlace, Added, NoMutation
<1> QED BY <1>1, <1>2, <1>3 DEF Told

LEMMA BulkSettledInv == ASSUME FilesInv, BulkSettled PROVE FilesInv'
<1>1. /\ bulk.at = "running" /\ bulk # NoBulk /\ bulk' = NoBulk /\ selected' = {}
      /\ Invalidate({bulk.from} \cup ({bulk.dest} \ {Root, Trashed}))
      /\ UNCHANGED <<place, folderId, dialog, pending>>
    BY DEF BulkSettled, NoBulk
<1>2. dialog' \in Dialogs BY <1>1 DEF FilesInv, FilesTypeOK
<1>3. CASE disturbed
  <2>1. /\ listing' \in [Dirs -> [rows : (SUBSET Items) \cup {None}, fresh : BOOLEAN]]
        /\ fetching' \in [Dirs -> [at : {"idle", "asked", "answered"}, rows : SUBSET Items]]
      BY <1>1, InvalidateIs DEF FilesInv
  <2>2. disturbed' \in BOOLEAN /\ disturbed' BY <1>1, <1>3, StillDisturbed DEF FilesInv
  <2>3. FilesTypeOK' BY <1>1, <2>1, <2>2 DEF FilesInv, FilesTypeOK
  <2> QED BY <2>2, <2>3 DEF FilesInv
<1>4. CASE ~disturbed
  <2>1. pending' = NoMutation /\ Invalidate(Told) /\ \A c \in Dirs : Added(c) = {}
      BY <1>1, <1>4, BulkIs
  <2> QED BY <1>1, <1>2, <2>1, ToldInv
<1> QED BY <1>3, <1>4

LEMMA BulkStepInv == ASSUME FilesInv, NEW i \in Items, BulkStep(i) PROVE FilesInv'
<1>1. /\ i \in bulk.todo /\ bulk # NoBulk /\ bulk' = [bulk EXCEPT !.todo = @ \ {i}]
      /\ UNCHANGED <<listing, fetching, folderId, selected, dialog, pending, disturbed>>
    BY DEF BulkStep, NoBulk, cached, shown, asides
<1>2. /\ bulk \in Bulks /\ bulk.at = "running" /\ bulk.todo \in SUBSET Items
      /\ bulk.dest \in Dirs \cup {Trashed}
    BY <1>1, BulkIs
<1>3. /\ bulk' \in Bulks /\ bulk'.at = "running" /\ bulk'.todo = bulk.todo \ {i}
      /\ bulk'.from = bulk.from /\ bulk'.dest = bulk.dest
    BY <1>1, <1>2 DEF Bulks
<1>4. /\ place' \in [Items -> Dirs \cup {None, Trashed}] /\ place'[SubFolder] \in {Root, Trashed}
      /\ \A c \in Dirs : Alive(c)' => Alive(c)
      /\ \/ UNCHANGED place
         \/ /\ bulk.dest = Trashed /\ place[i] \in Dirs /\ place' = AfterTrash(i)
            /\ \A c \in Dirs : Alive(c)' /\ c # place[i] => Truth(c)' = Truth(c)
         \/ /\ bulk.dest \in Dirs /\ place[i] \in Dirs /\ place' = [place EXCEPT ![i] = bulk.dest]
            /\ \A c \in Dirs : Truth(c)' = IF c = bulk.dest THEN Truth(c) \cup {i} ELSE Truth(c) \ {i}
  <2>1. CASE UNCHANGED place BY <2>1 DEF FilesInv, FilesTypeOK, Alive
  <2>2. CASE bulk.dest = Trashed /\ Apply("trash", i, bulk.dest)
    <3>1. place[i] \in Dirs /\ place' = AfterTrash(i) BY <2>2 DEF Apply
    <3> QED BY <2>2, <3>1, TrashPlace DEF FilesInv
  <2>3. CASE bulk.dest \in Dirs /\ Apply("move", i, bulk.dest)
    <3>1. place[i] \in Dirs /\ place' = [place EXCEPT ![i] = bulk.dest] /\ bulk.dest # i
        BY <2>3 DEF Apply
    <3> QED BY <2>3, <3>1, PutPlace DEF FilesInv
  <2> QED BY <1>2, <2>1, <2>2, <2>3 DEF BulkStep
<1>5. FilesTypeOK' BY <1>1, <1>3, <1>4 DEF FilesInv, FilesTypeOK
<1> SUFFICES ASSUME ~disturbed PROVE OneAtATime' /\ InPlace' /\ ListingsHold'
    BY <1>1, <1>5 DEF FilesInv
<1>6. /\ pending = NoMutation /\ (\A c : Added(c) = {}) /\ bulk.from = folderId
      /\ \A j \in bulk.todo : place[j] \in {None, folderId}
      /\ Told = {folderId} \cup ({bulk.dest} \ {Root, Trashed})
    BY <1>1, BulkIs
<1>7. Told' = Told /\ \A c : Added(c)' = {} BY <1>1, <1>2, <1>3, <1>6 DEF Told, Added, NoMutation
<1>8. None \notin Dirs /\ Trashed \notin Dirs BY FilesAssumption DEF Dirs
<1>9. ASSUME NEW j \in bulk.todo \ {i} PROVE place'[j] \in {None, folderId}
  <2>1. j \in Items /\ place[j] \in {None, folderId} /\ place[i] \in {None, folderId}
      BY <1>1, <1>2, <1>6, <1>9
  <2>2. CASE place[i] \in Dirs /\ place' = AfterTrash(i)
    <3>1. i = SubFolder => place[j] # SubFolder
        BY <1>8, <2>1, <2>2, FilesAssumption DEF FilesInv, FilesTypeOK, Dirs
    <3> QED BY <1>9, <2>1, <2>2, <3>1 DEF AfterTrash
  <2>3. CASE place' = [place EXCEPT ![i] = bulk.dest]
      BY <1>9, <2>1, <2>3 DEF FilesInv, FilesTypeOK
  <2> QED BY <1>4, <2>1, <2>2, <2>3
<1>10. OneAtATime' /\ InPlace'
    BY <1>1, <1>3, <1>6, <1>9 DEF OneAtATime, InPlace, NoMutation
<1>11. ASSUME NEW c \in Dirs, Alive(c)', c \notin Told' PROVE Holds(c)'
  <2>1. Holds(c) /\ c # folderId /\ (c = Root \/ c # bulk.dest)
      BY <1>4, <1>6, <1>7, <1>8, <1>11 DEF FilesInv, ListingsHold
  <2>2. i \notin Truth(c) BY <1>1, <1>6, <1>8, <1>11, <2>1 DEF Truth
  <2>3. Truth(c) \subseteq Truth(c)' /\ (c # Root => Truth(c)' \subseteq Truth(c))
    <3>1. CASE UNCHANGED place BY <3>1 DEF Truth
    <3>2. CASE place[i] \in Dirs /\ \A d \in Dirs : Alive(d)' /\ d # place[i] => Truth(d)' = Truth(d)
        BY <1>1, <1>6, <1>8, <1>11, <2>1, <3>2
    <3>3. CASE \A d \in Dirs : Truth(d)' = IF d = bulk.dest THEN Truth(d) \cup {i} ELSE Truth(d) \ {i}
        BY <1>11, <2>1, <2>2, <3>3
    <3> QED BY <1>4, <3>1, <3>2, <3>3
  <2> QED BY <1>1, <1>6, <1>7, <2>1, <2>3, GrownHolds
<1> QED BY <1>10, <1>11 DEF ListingsHold

\* The open folder is trashed: only its parent is left to be shown.
LEMMA TrashOpenInv == ASSUME FilesInv, TrashOpenFolder PROVE FilesInv'
<1>1. /\ ~Busy /\ place[SubFolder] = Root /\ place' = AfterTrash(SubFolder) /\ folderId' = Root
      /\ listing' = [listing EXCEPT ![Root].fresh = FALSE]
      /\ fetching' = [d \in Dirs |-> Quiet] /\ UNCHANGED <<selected, dialog, pending, bulk>>
      /\ disturbed' = disturbed
    BY DEF TrashOpenFolder, AskFor, FilesInv, FilesTypeOK
<1>2. SubFolder \in Items BY FilesAssumption
<1>3. /\ listing' \in [Dirs -> [rows : (SUBSET Items) \cup {None}, fresh : BOOLEAN]]
      /\ fetching' \in [Dirs -> [at : {"idle", "asked", "answered"}, rows : SUBSET Items]]
      /\ ~listing'[Root].fresh /\ fetching'[Root].at = "idle"
    BY <1>1 DEF FilesInv, FilesTypeOK, Quiet, Dirs
<1>5. /\ place' \in [Items -> Dirs \cup {None, Trashed}]
      /\ place'[SubFolder] \in {Root, Trashed}
    BY <1>1, <1>2, TrashPlace DEF FilesInv
<1>6. FilesTypeOK' BY <1>1, <1>3, <1>5 DEF FilesInv, FilesTypeOK, Dirs
<1>7. OneAtATime' /\ InPlace'
    BY <1>1 DEF Busy, OneAtATime, InPlace, NoMutation, NoBulk
<1>8. ASSUME NEW c \in Dirs, Alive(c)' PROVE Holds(c)'
  <2>1. place'[SubFolder] = Trashed BY <1>1, <1>2 DEF AfterTrash
  <2>2. c = Root BY <1>8, <2>1, FilesAssumption DEF Alive, Dirs
  <2>3. ~listing'[c].fresh /\ fetching'[c].at = "idle"
      BY <1>3, <1>8, <2>2
  <2> QED BY <2>3 DEF Holds
<1> QED BY <1>6, <1>7, <1>8 DEF FilesInv, ListingsHold

LEMMA OthersActInv == ASSUME FilesInv, OtherActs PROVE FilesInv'
<1>1. PICK i \in Items : place' = AfterTrash(i) BY DEF OtherActs
<1>2. /\ place' \in [Items -> Dirs \cup {None, Trashed}] /\ place'[SubFolder] \in {Root, Trashed}
    BY <1>1, TrashPlace DEF FilesInv
<1> QED BY <1>2 DEF OtherActs, cached, shown, FilesInv, FilesTypeOK

LEMMA FilesStepInv == FilesInv /\ [FilesNext]_filesVars => FilesInv'
<1> SUFFICES ASSUME FilesInv, [FilesNext]_filesVars PROVE FilesInv'
    OBVIOUS
<1>1. CASE UNCHANGED filesVars
    BY <1>1, FilesRestInv DEF filesVars, FilesInv, FilesTypeOK
<1>2. CASE AskListing \/ \E d \in Dirs : AnswerListing(d) \/ TakeListing(d) BY <1>2, ListingInv
<1>3. CASE FileList \/ FileGrid
  <2>1. SubFolder \in Dirs BY DEF Dirs
  <2> QED BY <1>3, <2>1, SelectInv, OpenInv DEF FileList, FileRow, FileGrid
<1>4. CASE FileContextMenu \/ CloseDialog \/ PreviewModal
    BY <1>4, DialogInv, MutationInv DEF PreviewModal
<1>5. CASE RenameDialog \/ ConfirmTrash \/ MoveDialog \/ CopyDialog BY <1>5, MutationInv
<1>6. CASE Toolbar BY <1>6, MutationInv, TrashOpenInv, OpenInv DEF Toolbar, Dirs
<1>7. CASE Serve \/ Succeed \/ Fail BY <1>7, ServeInv, SucceedInv, FailInv
<1>8. CASE \/ BulkBar \/ BulkMoveDialog \/ BulkSettled
           \/ \E i \in Items : BulkStep(i)
    BY <1>8, BulkBarInv, BulkSettledInv, BulkStepInv
<1>9. CASE OtherActs BY <1>9, OthersActInv
<1> QED BY <1>1, <1>2, <1>3, <1>4, <1>5, <1>6, <1>7, <1>8, <1>9 DEF FilesNext

\* As long as nothing disturbs the page, a listing that counts as fresh when it is at rest
\* shows its folder as it is, but that the root's may lack what was moved or copied there
\* (the onSuccess callbacks of the mutations, and handleBulkDelete and handleBulkMove).
THEOREM FreshListingsAreTrue == FilesSpec => []FreshListingsTrue
<1>1. FilesInit => FilesInv
  <2> SUFFICES ASSUME FilesInit PROVE FilesInv
      OBVIOUS
  <2>1. place \in [Items -> Dirs \cup {None, Trashed}] /\ place[SubFolder] \in {Root, Trashed}
      BY DEF FilesInit, Dirs
  <2>2. listing \in [Dirs -> [rows : (SUBSET Items) \cup {None}, fresh : BOOLEAN]]
        /\ \A d \in Dirs : ~listing[d].fresh
      BY DEF FilesInit, Uncached
  <2>3. fetching \in [Dirs -> [at : {"idle", "asked", "answered"}, rows : SUBSET Items]]
        /\ \A d \in Dirs : fetching[d].at = "idle"
      BY DEF FilesInit, Quiet
  <2>4. FilesTypeOK BY <2>1, <2>2, <2>3, NoDialogIs DEF FilesInit, FilesTypeOK, Dirs
  <2>5. ListingsHold BY <2>2, <2>3 DEF ListingsHold, Holds
  <2> QED BY <2>4, <2>5 DEF FilesInit, FilesInv, OneAtATime, InPlace, NoMutation, NoBulk
<1>2. FilesInv => FreshListingsTrue
    BY NobodyTold DEF FilesInv, FreshListingsTrue, ListingsHold, Holds, Shows
<1> QED BY <1>1, <1>2, FilesStepInv, PTL DEF FilesSpec

-----------------------------------------------------------------------------
(* FolderUpload: whatever the run has reached, cached or listed lies where  *)
(* its key says, and stays there, because rows are only added.              *)

Rows == [id : Ids, parent : {RootId} \cup Ids, name : PathNames, folder : BOOLEAN,
         by : {"run", "other"}]

FolderTypeOK ==
  /\ rows \in SUBSET Rows /\ IsFiniteSet(rows)
  /\ next \in Nat \ {0} /\ depth \in Nat /\ parentId \in {RootId} \cup Ids
  /\ awaiting \in {"run", "list", "create"}
  /\ children \in [{RootId} \cup Ids -> (SUBSET Rows) \cup {NoId}]
  /\ next <= Len(Paths) => depth <= Len(Path)
  /\ awaiting # "run" => next <= Len(Paths) /\ depth < Len(Path)
  /\ awaiting = "create" => children[parentId] # NoId
  /\ \A e \in idsByPath : e \in Seq(PathNames) \X Ids
  /\ \A q \in prepared : q.file \in 1..Len(Paths)

ListedThere ==
  \A p \in {RootId} \cup Ids : children[p] # NoId => children[p] \subseteq {r \in rows : r.parent = p}

ReachedThere == next <= Len(Paths) => AtPath(parentId, PathKey(Path, depth))
CachedThere == \A e \in idsByPath : AtPath(e[2], e[1])

UploadInv == FolderTypeOK /\ ListedThere /\ ReachedThere /\ CachedThere /\ PathKept

LEMMA PathIs ==
  ASSUME FolderTypeOK, next <= Len(Paths)
  PROVE  Path \in Seq(PathNames)
BY FolderAssumption DEF FolderTypeOK, Path

LEMMA KeyIs ==
  ASSUME NEW p \in Seq(PathNames), NEW d \in 0..Len(p)
  PROVE  /\ PathKey(p, d) \in Seq(PathNames) /\ Len(PathKey(p, d)) = d
         /\ \A e \in 1..d : PathKey(p, d)[e] = p[e]
BY DEF PathKey

\* The place of a path depends on its names alone, and new rows leave it where it is.
LEMMA StaysAtPath ==
  ASSUME NEW id, NEW p \in Seq(PathNames), NEW q \in Seq(PathNames), Len(p) = Len(q),
         \A d \in 1..Len(p) : p[d] = q[d], AtPath(id, p), rows \subseteq rows'
  PROVE  AtPath(id, q)'
<1>1. PICK chain \in [0..Len(p) -> {RootId} \cup Ids] :
        /\ chain[0] = RootId /\ chain[Len(p)] = id
        /\ \A d \in 1..Len(p) : \E r \in rows : /\ r.id = chain[d] /\ r.parent = chain[d - 1]
                                                /\ r.name = p[d] /\ r.folder
    BY DEF AtPath
<1>2. \A d \in 1..Len(q) : \E r \in rows' : /\ r.id = chain[d] /\ r.parent = chain[d - 1]
                                            /\ r.name = q[d] /\ r.folder
    BY <1>1
<1> QED BY <1>1, <1>2 DEF AtPath

\* A folder in one that lies at a path lies at the path with its own name.
LEMMA OneDeeper ==
  ASSUME NEW k \in Seq(PathNames), NEW l \in Seq(PathNames), Len(l) = Len(k) + 1,
         \A e \in 1..Len(k) : l[e] = k[e],
         NEW id, AtPath(id, k), rows \subseteq rows',
         NEW r \in rows', r.id \in Ids, r.parent = id, r.name = l[Len(l)], r.folder
  PROVE  AtPath(r.id, l)'
<1> DEFINE d == Len(k)
<1>1. d \in Nat /\ Len(l) = d + 1 OBVIOUS
<1>2. PICK chain \in [0..d -> {RootId} \cup Ids] :
        /\ chain[0] = RootId /\ chain[d] = id
        /\ \A e \in 1..d : \E s \in rows : /\ s.id = chain[e] /\ s.parent = chain[e - 1]
                                           /\ s.name = k[e] /\ s.folder
    BY DEF AtPath
<1>3. PICK longer \in [0..(d + 1) -> {RootId} \cup Ids] :
        /\ longer[0] = RootId /\ longer[d + 1] = r.id
        /\ \A e \in 0..d : longer[e] = chain[e]
  <2> DEFINE f == [e \in 0..(d + 1) |-> IF e = d + 1 THEN r.id ELSE chain[e]]
  <2>1. /\ f \in [0..(d + 1) -> {RootId} \cup Ids] /\ f[0] = RootId
        /\ f[d + 1] = r.id /\ \A e \in 0..d : f[e] = chain[e]
      BY <1>1, <1>2
  <2> QED BY <2>1
<1> HIDE DEF d
<1>4. ASSUME NEW e \in 1..(d + 1)
      PROVE  \E s \in rows' : /\ s.id = longer[e] /\ s.parent = longer[e - 1]
                              /\ s.name = l[e] /\ s.folder
  <2>1. CASE e = d + 1
    <3>1. longer[e] = r.id /\ longer[e - 1] = id /\ l[e] = r.name BY <1>1, <1>2, <1>3, <2>1
    <3> QED BY <3>1
  <2>2. CASE e \in 1..d
    <3>1. longer[e] = chain[e] /\ longer[e - 1] = chain[e - 1] /\ l[e] = k[e]
        BY <1>1, <1>3, <2>2 DEF d
    <3> QED BY <1>2, <2>2, <3>1
  <2> QED BY <1>1, <2>1, <2>2
<1>5. /\ longer \in [0..Len(l) -> {RootId} \cup Ids] /\ longer[Len(l)] = r.id
      /\ \A e \in 1..Len(l) : \E s \in rows' : /\ s.id = longer[e] /\ s.parent = longer[e - 1]
                                              /\ s.name = l[e] /\ s.folder
    BY <1>1, <1>3, <1>4
<1>6. \E c \in [0..Len(l) -> {RootId} \cup Ids] :
        /\ c[0] = RootId /\ c[Len(l)] = r.id
        /\ \A e \in 1..Len(l) : \E s \in rows' : /\ s.id = c[e] /\ s.parent = c[e - 1]
                                                /\ s.name = l[e] /\ s.folder
    BY <1>3, <1>5
<1> QED BY <1>6 DEF AtPath

LEMMA RootAtPath ==
  ASSUME NEW p \in Seq(PathNames), Len(p) = 0
  PROVE  AtPath(RootId, p) /\ AtPath(RootId, p)'
<1> DEFINE chain == [e \in 0..0 |-> RootId]
<1>1. /\ chain \in [0..Len(p) -> {RootId} \cup Ids] /\ chain[0] = RootId
      /\ chain[Len(p)] = RootId /\ 1..Len(p) = {}
    OBVIOUS
<1> HIDE DEF chain
<1>2. \E c \in [0..Len(p) -> {RootId} \cup Ids] :
        /\ c[0] = RootId /\ c[Len(p)] = RootId
        /\ \A e \in 1..Len(p) : \E s \in rows' : /\ s.id = c[e] /\ s.parent = c[e - 1]
                                                /\ s.name = p[e] /\ s.folder
    BY <1>1
<1>3. \E c \in [0..Len(p) -> {RootId} \cup Ids] :
        /\ c[0] = RootId /\ c[Len(p)] = RootId
        /\ \A e \in 1..Len(p) : \E s \in rows : /\ s.id = c[e] /\ s.parent = c[e - 1]
                                               /\ s.name = p[e] /\ s.folder
    BY <1>1
<1> QED BY <1>2, <1>3 DEF AtPath

LEMMA PathsAre ==
  /\ Len(Paths) \in Nat /\ \A n \in Nat \ {0} : n <= Len(Paths) => Paths[n] \in Seq(PathNames)
BY FolderAssumption

\* Rows that are added move nothing that was reached, cached or prepared.
LEMMA GrowingRows ==
  ASSUME UploadInv, rows \subseteq rows'
  PROVE  /\ \A e \in idsByPath : AtPath(e[2], e[1])'
         /\ \A q \in prepared : AtPath(q.folder, Paths[q.file])'
         /\ next <= Len(Paths) /\ UNCHANGED <<next, depth, parentId>> =>
              AtPath(parentId, PathKey(Path, depth))'
<1>1. ASSUME NEW e \in idsByPath PROVE AtPath(e[2], e[1])'
  <2>1. e[1] \in Seq(PathNames) /\ AtPath(e[2], e[1])
      BY DEF UploadInv, FolderTypeOK, CachedThere
  <2> QED BY <2>1, StaysAtPath
<1>2. ASSUME NEW q \in prepared PROVE AtPath(q.folder, Paths[q.file])'
  <2>1. Paths[q.file] \in Seq(PathNames) /\ AtPath(q.folder, Paths[q.file])
      BY PathsAre DEF UploadInv, FolderTypeOK, PathKept
  <2> QED BY <2>1, StaysAtPath
<1>3. ASSUME next <= Len(Paths), UNCHANGED <<next, depth, parentId>>
      PROVE  AtPath(parentId, PathKey(Path, depth))'
  <2>1. PICK k : k = PathKey(Path, depth) OBVIOUS
  <2>2. depth \in 0..Len(Path) /\ Path \in Seq(PathNames)
      BY <1>3, PathIs, PathsAre DEF UploadInv, FolderTypeOK
  <2>3. k \in Seq(PathNames) /\ AtPath(parentId, k)
      BY <1>3, <2>1, <2>2, KeyIs DEF UploadInv, ReachedThere
  <2>4. AtPath(parentId, k)' BY <1>3, <2>3, StaysAtPath
  <2>5. k = PathKey(Path, depth)' BY <1>3, <2>1 DEF Path
  <2> QED BY <2>4, <2>5
<1> QED BY <1>1, <1>2, <1>3

\* The next file's path is followed from the root.
LEMMA NextFileReached ==
  ASSUME UploadInv, NextFile
  PROVE  /\ next' \in Nat \ {0} /\ depth' = 0 /\ parentId' = RootId
         /\ next' <= Len(Paths) => 0 <= Len(Path') /\ AtPath(parentId, PathKey(Path, depth))'
<1>1. next' \in Nat \ {0} /\ next' = next + 1 /\ depth' = 0 /\ parentId' = RootId
    BY DEF NextFile, UploadInv, FolderTypeOK
<1>2. ASSUME next' <= Len(Paths)
      PROVE  0 <= Len(Path') /\ AtPath(parentId, PathKey(Path, depth))'
  <2>1. PICK p : p = Paths[next'] OBVIOUS
  <2>2. p \in Seq(PathNames) /\ p = Path' BY <1>1, <1>2, <2>1, PathsAre DEF Path
  <2>3. PICK k : k = PathKey(p, 0) OBVIOUS
  <2>4. k \in Seq(PathNames) /\ Len(k) = 0 BY <2>2, <2>3, KeyIs
  <2>5. AtPath(RootId, k)' BY <2>4, RootAtPath
  <2>6. k = PathKey(Path, depth)' /\ parentId' = RootId BY <1>1, <2>2, <2>3
  <2> QED BY <2>2, <2>5, <2>6
<1> QED BY <1>1, <1>2

\* The file whose path is resolved goes to the folder reached: the key of the whole
\* path is the path.
LEMMA PrepareInv == ASSUME UploadInv, Prepare PROVE UploadInv'
<1>1. /\ UNCHANGED <<rows, idsByPath, children, awaiting>> /\ awaiting = "run"
      /\ next <= Len(Paths) /\ depth = Len(Path)
      /\ prepared' = prepared \cup {[file |-> next, folder |-> parentId]} /\ NextFile
    BY DEF Prepare
<1>2. FolderTypeOK'
  <2>1. next \in 1..Len(Paths) BY <1>1, PathsAre DEF UploadInv, FolderTypeOK
  <2>2. \A q \in prepared' : q.file \in 1..Len(Paths)
      BY <1>1, <2>1 DEF UploadInv, FolderTypeOK
  <2> QED BY <1>1, <2>2, NextFileReached DEF UploadInv, FolderTypeOK
<1>3. ListedThere' BY <1>1 DEF UploadInv, ListedThere
<1>4. ReachedThere' BY <1>1, NextFileReached DEF ReachedThere
<1>5. CachedThere' BY <1>1, GrowingRows DEF CachedThere
<1>6. PathKept'
  <2>1. PICK p, k, f : p = Path /\ k = PathKey(Path, depth) /\ f = parentId OBVIOUS
  <2>2. p \in Seq(PathNames) /\ depth = Len(p) /\ p = Paths[next]
      BY <1>1, <2>1, PathIs DEF UploadInv, Path
  <2>3. /\ k \in Seq(PathNames) /\ Len(k) = Len(p)
        /\ \A e \in 1..Len(k) : k[e] = p[e]
    <3>1. PICK n : n = Len(p) OBVIOUS
    <3>2. k = PathKey(p, n) /\ n \in 0..Len(p) BY <2>1, <2>2, <3>1
    <3>3. p \in Seq(PathNames) BY <2>2
    <3>4. k \in Seq(PathNames) /\ Len(k) = n /\ \A e \in 1..n : k[e] = p[e]
        BY <3>2, <3>3, KeyIs
    <3> QED BY <3>1, <3>4
  <2>4. AtPath(f, k) BY <1>1, <2>1 DEF UploadInv, ReachedThere
  <2>5. AtPath(f, p)' BY <1>1, <2>2, <2>3, <2>4, StaysAtPath
  <2>6. ASSUME NEW q \in prepared' PROVE AtPath(q.folder, Paths[q.file])'
    <3>1. CASE q \in prepared BY <1>1, <3>1, GrowingRows
    <3>2. CASE q = [file |-> next, folder |-> f]
      <4>1. q.folder = f /\ Paths[q.file] = p BY <2>2, <3>2
      <4> QED BY <2>5, <4>1
    <3> QED BY <1>1, <2>1, <2>6, <3>1, <3>2
  <2> QED BY <2>6 DEF PathKept
<1> QED BY <1>2, <1>3, <1>4, <1>5, <1>6 DEF UploadInv

\* A row of the folder reached, with the path's next name, lies at the next key.
LEMMA ChildReached ==
  ASSUME UploadInv, next <= Len(Paths), depth < Len(Path), rows \subseteq rows',
         NEW r \in rows', r.id \in Ids, r.parent = parentId, r.name = Path[depth + 1], r.folder,
         NEW l, l = PathKey(Path, depth + 1)
  PROVE  AtPath(r.id, l)'
<1>1. PICK p, k, f : p = Path /\ k = PathKey(Path, depth) /\ f = parentId OBVIOUS
<1>2. p \in Seq(PathNames) /\ depth \in 0..Len(p) /\ depth + 1 \in 0..Len(p) /\ depth \in Nat
    BY <1>1, PathIs DEF UploadInv, FolderTypeOK
<1>3. k \in Seq(PathNames) /\ Len(k) = depth /\ \A e \in 1..depth : k[e] = p[e]
    BY <1>1, <1>2, KeyIs
<1>4. l \in Seq(PathNames) /\ Len(l) = depth + 1 /\ \A e \in 1..(depth + 1) : l[e] = p[e]
    BY <1>1, <1>2, KeyIs
<1>5. /\ Len(l) = Len(k) + 1 /\ \A e \in 1..Len(k) : l[e] = k[e]
      /\ r.name = l[Len(l)] /\ r.parent = f
    BY <1>1, <1>2, <1>3, <1>4
<1>6. AtPath(f, k) BY <1>1 DEF UploadInv, ReachedThere
<1> QED BY <1>3, <1>4, <1>5, <1>6, OneDeeper

\* A descent into a folder that lies at the next key is remembered under that key.
LEMMA DescendInv ==
  ASSUME UploadInv, NEW id \in Ids, Descend(id), next <= Len(Paths), depth < Len(Path),
         rows \subseteq rows', NEW l, l = PathKey(Path, depth + 1), AtPath(id, l)'
  PROVE  /\ next' = next /\ parentId' = id /\ depth' \in Nat /\ depth' <= Len(Path')
         /\ \A e \in idsByPath' : e \in Seq(PathNames) \X Ids
         /\ ReachedThere' /\ CachedThere'
<1>1. /\ parentId' = id /\ depth' = depth + 1 /\ next' = next /\ Path' = Path
      /\ idsByPath' = idsByPath \cup {<<l, id>>}
    BY DEF Descend, Path
<1>2. PICK p : p = Path OBVIOUS
<1>3. p \in Seq(PathNames) /\ depth \in Nat /\ depth + 1 \in 0..Len(p)
    BY <1>2, PathIs DEF UploadInv, FolderTypeOK
<1>4. l \in Seq(PathNames) BY <1>2, <1>3, KeyIs
<1>5. l = PathKey(Path, depth)' BY <1>1
<1>6. ReachedThere' BY <1>1, <1>5 DEF ReachedThere
<1>7. ASSUME NEW e \in idsByPath' PROVE e \in Seq(PathNames) \X Ids /\ AtPath(e[2], e[1])'
  <2>1. CASE e \in idsByPath BY <2>1, GrowingRows DEF UploadInv, FolderTypeOK
  <2>2. CASE e = <<l, id>> BY <1>4, <2>2
  <2> QED BY <1>1, <1>7, <2>1, <2>2
<1>8. depth' \in Nat /\ depth' <= Len(Path') BY <1>1, <1>2, <1>3
<1> QED BY <1>1, <1>6, <1>7, <1>8 DEF CachedThere

\* The next part of the path: known, to be asked for, or among the rows listed.
LEMMA ResolvePartInv == ASSUME UploadInv, ResolvePart PROVE UploadInv'
<1> DEFINE key == PathKey(Path, depth + 1)
           known == {id \in Ids : <<key, id>> \in idsByPath}
           listed == children[parentId]
           sameName == {r \in listed : r.name = Path[depth + 1]}
<1>1. /\ awaiting = "run" /\ next <= Len(Paths) /\ depth < Len(Path)
      /\ UNCHANGED <<rows, prepared>>
    BY DEF ResolvePart
<1>2. PathKept' BY <1>1, GrowingRows DEF PathKept
<1>3. PICK l : l = key OBVIOUS
<1>4. \/ /\ \E id \in known : Descend(id)
         /\ UNCHANGED <<awaiting, children>>
      \/ /\ awaiting' = "list" \/ (listed # NoId /\ awaiting' = "create")
         /\ UNCHANGED <<run, children>>
      \/ /\ listed # NoId /\ UNCHANGED <<awaiting, children>>
         /\ \E r \in sameName : \/ r.folder /\ Descend(r.id)
                                \/ NextFile /\ UNCHANGED idsByPath
  <2>1. \/ /\ \E id \in known : Descend(id)
           /\ UNCHANGED <<awaiting, children, skipped>>
        \/ awaiting' = "list" /\ UNCHANGED <<run, children, skipped>>
        \/ listed # NoId /\ awaiting' = "create" /\ UNCHANGED <<run, children, skipped>>
        \/ /\ listed # NoId /\ UNCHANGED <<awaiting, children>>
           /\ \E r \in sameName :
                IF r.folder THEN Descend(r.id) /\ UNCHANGED skipped
                ELSE NextFile /\ skipped' = skipped \cup {next} /\ UNCHANGED idsByPath
      BY Zenon DEF ResolvePart
  <2> HIDE DEF known, listed, sameName
  <2> QED BY <2>1
<1>5. CASE /\ \E id \in known : Descend(id)
           /\ UNCHANGED <<awaiting, children>>
  <2>1. PICK id \in Ids : Descend(id) /\ <<l, id>> \in idsByPath BY <1>3, <1>5
  <2>2. AtPath(id, l)' BY <1>1, <2>1, GrowingRows
  <2>3. /\ next' = next /\ parentId' = id /\ depth' \in Nat /\ depth' <= Len(Path')
        /\ \A e \in idsByPath' : e \in Seq(PathNames) \X Ids
        /\ ReachedThere' /\ CachedThere'
      BY <1>1, <1>3, <2>1, <2>2, DescendInv
  <2>4. FolderTypeOK' BY <1>1, <1>5, <2>3 DEF UploadInv, FolderTypeOK
  <2>5. ListedThere' BY <1>1, <1>5 DEF UploadInv, ListedThere
  <2> QED BY <1>2, <2>3, <2>4, <2>5 DEF UploadInv
<1>6. CASE /\ awaiting' = "list" \/ (listed # NoId /\ awaiting' = "create")
           /\ UNCHANGED <<run, children>>
  <2>1. FolderTypeOK' BY <1>1, <1>6 DEF UploadInv, FolderTypeOK, run, Path
  <2>2. ListedThere' BY <1>1, <1>6 DEF UploadInv, ListedThere
  <2>3. UNCHANGED <<next, depth, parentId, idsByPath>> BY <1>6 DEF run
  <2>4. ReachedThere' /\ CachedThere'
      BY <1>1, <2>3, GrowingRows DEF ReachedThere, CachedThere
  <2> QED BY <1>2, <2>1, <2>2, <2>4 DEF UploadInv
<1>7. CASE /\ listed # NoId /\ UNCHANGED <<awaiting, children>>
           /\ \E r \in sameName : \/ r.folder /\ Descend(r.id)
                                  \/ NextFile /\ UNCHANGED idsByPath
  <2>1. PICK r \in sameName : \/ r.folder /\ Descend(r.id)
                              \/ NextFile /\ UNCHANGED idsByPath
      BY <1>7
  <2>2. r \in rows /\ r.id \in Ids /\ r.parent = parentId /\ r.name = Path[depth + 1]
      BY <1>7, <2>1 DEF UploadInv, FolderTypeOK, ListedThere, Rows
  <2>3. ListedThere' BY <1>1, <1>7 DEF UploadInv, ListedThere
  <2>4. CASE r.folder /\ Descend(r.id)
    <3>1. AtPath(r.id, l)' BY <1>1, <1>3, <2>2, <2>4, ChildReached
    <3>2. /\ next' = next /\ parentId' = r.id /\ depth' \in Nat /\ depth' <= Len(Path')
          /\ \A e \in idsByPath' : e \in Seq(PathNames) \X Ids
          /\ ReachedThere' /\ CachedThere'
        BY <1>1, <1>3, <2>2, <2>4, <3>1, DescendInv
    <3>3. FolderTypeOK' BY <1>1, <1>7, <2>2, <3>2 DEF UploadInv, FolderTypeOK
    <3> QED BY <1>2, <2>3, <3>2, <3>3 DEF UploadInv
  <2>5. CASE NextFile /\ UNCHANGED idsByPath
    <3>1. FolderTypeOK' BY <1>1, <1>7, <2>5, NextFileReached DEF UploadInv, FolderTypeOK
    <3>2. ReachedThere' BY <1>1, <2>5, NextFileReached DEF ReachedThere
    <3>3. CachedThere' BY <1>1, <2>5, GrowingRows DEF CachedThere
    <3> QED BY <1>2, <2>3, <3>1, <3>2, <3>3 DEF UploadInv
  <2> QED BY <2>1, <2>4, <2>5
<1> QED BY <1>4, <1>5, <1>6, <1>7

\* The rows of the folder reached, as the server lists them.
LEMMA ListAnsweredInv == ASSUME UploadInv, ListAnswered PROVE UploadInv'
<1>1. /\ awaiting = "list" /\ awaiting' = "run" /\ UNCHANGED <<rows, run, prepared>>
      /\ children' = [children EXCEPT ![parentId] = {r \in rows : r.parent = parentId}]
      /\ UNCHANGED <<next, depth, parentId, idsByPath>> /\ Path' = Path
    BY DEF ListAnswered, run, Path
<1>2. FolderTypeOK' BY <1>1 DEF UploadInv, FolderTypeOK
<1>3. ListedThere' BY <1>1 DEF UploadInv, FolderTypeOK, ListedThere
<1>4. ReachedThere' /\ CachedThere' /\ PathKept'
    BY <1>1, GrowingRows DEF ReachedThere, CachedThere, PathKept
<1> QED BY <1>2, <1>3, <1>4 DEF UploadInv

\* A new row has a fresh id.
LEMMA RowIsNew ==
  ASSUME FolderTypeOK, Cardinality(rows) < MaxRows, NEW p \in {RootId} \cup Ids,
         NEW n \in PathNames, NEW d \in BOOLEAN, NEW b \in {"run", "other"}
  PROVE  /\ Row(p, n, d, b) \in Rows /\ IsFiniteSet(rows \cup {Row(p, n, d, b)})
         /\ rows \cup {Row(p, n, d, b)} \in SUBSET Rows
<1>1. Cardinality(rows) \in Nat /\ IsFiniteSet(rows \cup {Row(p, n, d, b)})
    BY FS_CardinalityType, FS_AddElement DEF FolderTypeOK
<1>2. Cardinality(rows) + 1 \in Ids BY <1>1, FolderAssumption DEF Ids
<1>3. Row(p, n, d, b) \in Rows BY <1>2 DEF Row, Rows
<1> QED BY <1>1, <1>3 DEF FolderTypeOK

\* The folder is created in the one reached and added to the rows listed there.
LEMMA CreateAnsweredInv == ASSUME UploadInv, CreateAnswered PROVE UploadInv'
<1>0. PICK new : new = Row(parentId, Path[depth + 1], TRUE, "run") OBVIOUS
<1>1. /\ awaiting = "create" /\ awaiting' = "run" /\ Cardinality(rows) < MaxRows
      /\ rows' = rows \cup {new} /\ Descend(new.id)
      /\ children' = [children EXCEPT ![parentId] = @ \cup {new}] /\ UNCHANGED prepared
    BY <1>0 DEF CreateAnswered
<1>2. /\ next <= Len(Paths) /\ depth < Len(Path) /\ children[parentId] # NoId
      /\ parentId \in {RootId} \cup Ids
    BY <1>1 DEF UploadInv, FolderTypeOK
<1>3. Path[depth + 1] \in PathNames
  <2>1. PICK p : p = Path OBVIOUS
  <2>2. p \in Seq(PathNames) /\ depth \in Nat /\ depth < Len(p)
      BY <1>2, <2>1, PathIs DEF UploadInv, FolderTypeOK
  <2>3. p[depth + 1] \in PathNames BY <2>2
  <2> QED BY <2>1, <2>3
<1>4. /\ new \in Rows /\ IsFiniteSet(rows') /\ rows' \in SUBSET Rows
      /\ new \in rows' /\ rows \subseteq rows'
    BY <1>0, <1>1, <1>2, <1>3, RowIsNew DEF UploadInv
<1>5. /\ new.id \in Ids /\ new.parent = parentId /\ new.name = Path[depth + 1] /\ new.folder
    BY <1>0, <1>4 DEF Rows, Row
<1>6. PICK l, id : l = PathKey(Path, depth + 1) /\ id = new.id OBVIOUS
<1>7. id \in Ids /\ AtPath(id, l)'
  <2>1. AtPath(new.id, l)' BY <1>2, <1>4, <1>5, <1>6, ChildReached
  <2> QED BY <1>5, <1>6, <2>1
<1>8. /\ next' = next /\ parentId' = id /\ depth' \in Nat /\ depth' <= Len(Path')
      /\ \A e \in idsByPath' : e \in Seq(PathNames) \X Ids
      /\ ReachedThere' /\ CachedThere'
  <2>1. Descend(id) BY <1>1, <1>6
  <2> QED BY <1>2, <1>4, <1>6, <1>7, <2>1, DescendInv
<1>9. children' \in [{RootId} \cup Ids -> (SUBSET Rows) \cup {NoId}]
  <2>1. children[parentId] \cup {new} \in SUBSET Rows
      BY <1>2, <1>4 DEF UploadInv, FolderTypeOK
  <2> QED BY <1>1, <2>1 DEF UploadInv, FolderTypeOK
<1>10. FolderTypeOK'
  <2>1. parentId' \in Ids BY <1>7, <1>8
  <2>2. \A q \in prepared' : q.file \in 1..Len(Paths) BY <1>1 DEF UploadInv, FolderTypeOK
  <2>3. awaiting' = "run" BY <1>1
  <2>4. next' \in Nat \ {0} BY <1>8 DEF UploadInv, FolderTypeOK
  <2> QED BY <1>4, <1>8, <1>9, <2>1, <2>2, <2>3, <2>4 DEF FolderTypeOK
<1>11. ListedThere'
  <2>1. ASSUME NEW p \in {RootId} \cup Ids, children'[p] # NoId
        PROVE  children'[p] \subseteq {r \in rows' : r.parent = p}
    <3>1. CASE p = parentId
      <4>1. children'[p] = children[p] \cup {new} BY <1>1, <3>1 DEF UploadInv, FolderTypeOK
      <4>2. children[p] \subseteq {r \in rows : r.parent = p}
          BY <1>2, <3>1 DEF UploadInv, ListedThere
      <4> QED BY <1>4, <1>5, <3>1, <4>1, <4>2
    <3>2. CASE p # parentId
      <4>1. children'[p] = children[p] BY <1>1, <3>2 DEF UploadInv, FolderTypeOK
      <4> QED BY <1>4, <2>1, <4>1 DEF UploadInv, ListedThere
    <3> QED BY <3>1, <3>2
  <2> QED BY <2>1 DEF ListedThere
<1>12. PathKept' BY <1>1, <1>4, GrowingRows DEF PathKept
<1> QED BY <1>8, <1>10, <1>11, <1>12 DEF UploadInv

LEMMA GiveUpInv == ASSUME UploadInv, GiveUp PROVE UploadInv'
<1>1. /\ awaiting' = "run" /\ next' = Len(Paths) + 1 /\ prepared' = {}
      /\ UNCHANGED <<rows, depth, parentId, idsByPath, children>>
    BY DEF GiveUp
<1>2. next' \in Nat \ {0} /\ ~(next' <= Len(Paths)) BY <1>1, PathsAre
<1>3. FolderTypeOK' BY <1>1, <1>2 DEF UploadInv, FolderTypeOK
<1>4. ListedThere' BY <1>1 DEF UploadInv, ListedThere
<1>5. ReachedThere' /\ PathKept' BY <1>1, <1>2 DEF ReachedThere, PathKept
<1>6. CachedThere' BY <1>1, GrowingRows DEF CachedThere
<1> QED BY <1>3, <1>4, <1>5, <1>6 DEF UploadInv

\* What others create lies beside what the run has found.
LEMMA OtherCreatesInv == ASSUME UploadInv, OtherCreates PROVE UploadInv'
<1>1. /\ Cardinality(rows) < MaxRows /\ UNCHANGED <<run, children, awaiting, prepared>>
      /\ UNCHANGED <<next, depth, parentId, idsByPath>> /\ Path' = Path
    BY DEF OtherCreates, run, Path
<1>2. PICK p \in {RootId} \cup Ids, n \in PathNames, d \in BOOLEAN :
        rows' = rows \cup {Row(p, n, d, "other")}
  <2>1. PICK p \in {RootId} \cup {r.id : r \in {q \in rows : q.folder}},
             n \in PathNames, d \in BOOLEAN : rows' = rows \cup {Row(p, n, d, "other")}
      BY DEF OtherCreates
  <2>2. p \in {RootId} \cup Ids BY <2>1 DEF UploadInv, FolderTypeOK, Rows
  <2> QED BY <2>1, <2>2
<1>3. IsFiniteSet(rows') /\ rows' \in SUBSET Rows /\ rows \subseteq rows'
    BY <1>1, <1>2, RowIsNew DEF UploadInv
<1>4. FolderTypeOK' BY <1>1, <1>3 DEF UploadInv, FolderTypeOK
<1>5. ListedThere' BY <1>1, <1>3 DEF UploadInv, ListedThere
<1>6. ReachedThere' /\ CachedThere' /\ PathKept'
    BY <1>1, <1>3, GrowingRows DEF ReachedThere, CachedThere, PathKept
<1> QED BY <1>4, <1>5, <1>6 DEF UploadInv

LEMMA UploadInvInit == FolderInit => UploadInv
<1> SUFFICES ASSUME FolderInit PROVE UploadInv OBVIOUS
<1>1. IsFiniteSet({}) BY FS_EmptySet
<1>2. FolderTypeOK /\ ListedThere /\ CachedThere /\ PathKept
    BY <1>1, PathsAre DEF FolderInit, FolderTypeOK, ListedThere, CachedThere, PathKept, Path
<1>3. ASSUME next <= Len(Paths) PROVE AtPath(parentId, PathKey(Path, depth))
  <2>1. PICK p, k : p = Path /\ k = PathKey(p, 0) OBVIOUS
  <2>2. p \in Seq(PathNames) BY <1>2, <1>3, <2>1, PathIs
  <2>3. k \in Seq(PathNames) /\ Len(k) = 0 BY <2>1, <2>2, KeyIs
  <2>4. AtPath(RootId, k) BY <2>3, RootAtPath
  <2> QED BY <2>1, <2>4 DEF FolderInit
<1> QED BY <1>2, <1>3 DEF UploadInv, ReachedThere

LEMMA UploadInvStep == UploadInv /\ [FolderNext]_folderVars => UploadInv'
<1> SUFFICES ASSUME UploadInv, [FolderNext]_folderVars PROVE UploadInv' OBVIOUS
<1>1. CASE UNCHANGED folderVars
  <2>1. UNCHANGED <<rows, next, depth, parentId, idsByPath, children, awaiting, prepared>>
      BY <1>1 DEF folderVars
  <2>2. FolderTypeOK' BY <2>1 DEF UploadInv, FolderTypeOK, Path
  <2>3. ListedThere' BY <2>1 DEF UploadInv, ListedThere
  <2>4. ReachedThere' /\ CachedThere' /\ PathKept'
      BY <2>1, GrowingRows DEF ReachedThere, CachedThere, PathKept
  <2> QED BY <2>2, <2>3, <2>4 DEF UploadInv
<1> QED BY <1>1, PrepareInv, ResolvePartInv, ListAnsweredInv, CreateAnsweredInv, GiveUpInv,
           OtherCreatesInv DEF FolderNext

\* Every file of a dropped folder goes to the folder at its own path, whatever the drop,
\* however often a name occurs in it and whatever others create meanwhile.
THEOREM FilesGoToTheirPaths == FolderSpec => []PathKept
<1>1. FolderInit => UploadInv BY UploadInvInit
<1>2. UploadInv /\ [FolderNext]_folderVars => UploadInv' BY UploadInvStep
<1>3. UploadInv => PathKept BY DEF UploadInv
<1> QED BY <1>1, <1>2, <1>3, PTL DEF FolderSpec

-----------------------------------------------------------------------------
(* Playlist: while no edit or answer has met another one on its way there   *)
(* is at most one edit, made from the tracks shown, and no fetch beside it; *)
(* what is shown and not about to be replaced is what the server holds.     *)

Answers == {"served", "cut"}
EditRec == [kind : {"remove", "add", "create"}, list : Lists, new : Seq(Tracks), gone : Nat,
            from : (SUBSET Tracks) \cup Lists, at : {"sent", "reading"} \cup Answers]
LoadRec == [list : Lists, at : {"asked"} \cup Answers, rows : Seq(Tracks)]

PlayTypeOK ==
  /\ content \in [Lists -> Seq(Tracks) \cup {Absent}]
  /\ remote \in Known \cup {NoList} /\ activePlaylistId \in Known \cup {NoList}
  /\ timer.id \in Known \cup {NoList}
  /\ tracks \in Seq(Tracks) /\ currentIndex \in Nat /\ prevIndex \in Nat \cup {Reset}
  /\ pendingIndex \in Nat
  /\ loads \in SUBSET LoadRec /\ \A l \in loads : l.list \in Known
  /\ edits \in SUBSET EditRec
  /\ \A e \in edits : /\ e.kind # "create" \/ e.at \in Answers => e.list \in Known
                      /\ e.kind = "remove" => e.new # <<>>
                      /\ e.from \in (SUBSET Tracks) \cup Known

ExtendsList(new, old) == Len(old) <= Len(new) /\ \A i \in 1..Len(old) : new[i] = old[i]
OneEdit == \A e, f \in edits : e = f

ListEditFits(e) ==
  /\ loads = {} /\ e.list = activePlaylistId /\ tracks # <<>>
  /\ e.at = "served" => content[e.list] = e.new
  /\ e.at \notin Answers /\ ~partial => content[e.list] = tracks
  /\ e.kind = "add" => ExtendsList(e.new, tracks)
  /\ e.kind = "remove" => e.gone < Len(tracks) /\ e.new = RemoveAt(tracks, e.gone + 1)
CreationFits(e) == e.at \notin Answers => content[e.list] = Absent
EditsFit == \A e \in edits : IF e.kind = "create" THEN CreationFits(e) ELSE ListEditFits(e)

LoadsFit == \A l \in loads : l.at = "served" => l.rows = content[l.list]
Shown ==
  /\ activePlaylistId # NoList /\ tracks # <<>>
  /\ \A l \in loads : l.list # activePlaylistId
  /\ \A e \in edits : e.kind = "create" \/ e.at \notin Answers
ShownFits == Shown /\ ~partial => tracks = content[activePlaylistId]
PlayingFits ==
  tracks # <<>> /\ ~astray => currentIndex < Len(tracks) /\ src = tracks[currentIndex + 1]

PlayKept == OneEdit /\ EditsFit /\ LoadsFit /\ ShownFits /\ PlayingFits
PlayInv == PlayTypeOK /\ (~overtaken => PlayKept)

LEMMA TracksOfSets ==
  ASSUME NEW F, F \subseteq Tracks
  PROVE  SetToSeq(F) \in Seq(Tracks)
<1>1. IsFiniteSet(F) BY FS_Subset, PlaylistAssumption
<1>2. PICK n \in Nat : n = Cardinality(F) BY <1>1, FS_CardinalityType
<1>3. \E f \in [1..n -> F] : IsInjective(f)
  <2>1. ExistsBijection(1..n, F) BY <1>1, <1>2, FS_CardinalityType
  <2>2. PICK f : f \in Bijection(1..n, F) BY <2>1 DEF ExistsBijection
  <2> QED BY <2>2 DEF Bijection, Injection, IsInjective
<1>4. SetToSeq(F) \in [1..n -> F] BY <1>2, <1>3 DEF SetToSeq
<1> QED BY <1>4

LEMMA FirstOf ==
  ASSUME NEW s \in Seq(Tracks), NEW n \in Int
  PROVE  First(s, n) \in Seq(Tracks)
<1>1. PICK m : m = IF Len(s) < n THEN Len(s) ELSE n OBVIOUS
<1>2. m \in Int /\ m <= Len(s) BY <1>1
<1>3. \A i \in 1..m : s[i] \in Tracks BY <1>2
<1>4. SubSeq(s, 1, m) \in Seq(Tracks) BY <1>2, <1>3, SubSeqProperties
<1> QED BY <1>1, <1>4 DEF First

\* What is added comes after what was there.
LEMMA AddedComesLast ==
  ASSUME NEW s \in Seq(Tracks), NEW F, F \subseteq Tracks
  PROVE  /\ AddedLast(s, F) \in Seq(Tracks)
         /\ ExtendsList(AddedLast(s, F), s)
<1>1. PICK more : more = First(SetToSeq(F \ ToSet(s)), playlistMaxTracks - Len(s)) OBVIOUS
<1>2. SetToSeq(F \ ToSet(s)) \in Seq(Tracks)
  <2>1. F \ ToSet(s) \subseteq Tracks OBVIOUS
  <2> QED BY <2>1, TracksOfSets
<1>3. playlistMaxTracks - Len(s) \in Int BY PlaylistAssumption
<1>4. more \in Seq(Tracks) BY <1>1, <1>2, <1>3, FirstOf
<1>5. AddedLast(s, F) = s \o more BY <1>1 DEF AddedLast
<1>6. s \o more \in Seq(Tracks) BY <1>4
<1>7. Len(s) <= Len(s \o more) /\ \A i \in 1..Len(s) : (s \o more)[i] = s[i]
    BY <1>4
<1> QED BY <1>5, <1>6, <1>7 DEF ExtendsList

\* A track taken out leaves those before it where they are and moves those after it.
LEMMA RemovedFrom ==
  ASSUME NEW s \in Seq(Tracks), NEW i \in Nat, i < Len(s)
  PROVE  /\ RemoveAt(s, i + 1) \in Seq(Tracks) /\ Len(RemoveAt(s, i + 1)) = Len(s) - 1
         /\ \A k \in 1..(Len(s) - 1) : RemoveAt(s, i + 1)[k] = IF k <= i THEN s[k] ELSE s[k + 1]
<1>1. PICK a, b : a = SubSeq(s, 1, i) /\ b = SubSeq(s, i + 2, Len(s)) OBVIOUS
<1>2. a \in Seq(Tracks) /\ Len(a) = i /\ \A k \in 1..i : a[k] = s[k] BY <1>1
<1>3. /\ b \in Seq(Tracks) /\ Len(b) = Len(s) - 1 - i
      /\ \A k \in 1..(Len(s) - 1 - i) : b[k] = s[k + i + 1]
  <2>1. /\ \A k \in (i + 2)..Len(s) : s[k] \in Tracks
        /\ i + 2 \in Int /\ Len(s) \in Int
      OBVIOUS
  <2>2. /\ b \in Seq(Tracks)
        /\ Len(b) = IF i + 2 <= Len(s) THEN Len(s) - (i + 2) + 1 ELSE 0
        /\ \A k \in 1..(Len(s) - (i + 2) + 1) : b[k] = s[i + 2 + k - 1]
      BY <1>1, <2>1, SubSeqProperties
  <2>3. Len(s) \in Nat /\ Len(s) - (i + 2) + 1 = Len(s) - 1 - i OBVIOUS
  <2>4. Len(b) = Len(s) - 1 - i
    <3>1. PICK n \in Nat : n = Len(s) BY <2>3
    <3>2. Len(b) = IF i + 2 <= n THEN n - (i + 2) + 1 ELSE 0 BY <2>2, <3>1
    <3>3. Len(b) = n - 1 - i BY <3>1, <3>2
    <3> QED BY <3>1, <3>3
  <2>5. ASSUME NEW k \in 1..(Len(s) - 1 - i) PROVE b[k] = s[k + i + 1]
    <3>1. i + 2 + k - 1 = k + i + 1 BY <2>3
    <3>2. b[k] = s[i + 2 + k - 1] BY <2>2, <2>3
    <3> QED BY <3>1, <3>2
  <2> QED BY <2>2, <2>4, <2>5
<1>4. RemoveAt(s, i + 1) = a \o b
  <2>1. (i + 1) - 1 = i /\ (i + 1) + 1 = i + 2 OBVIOUS
  <2> QED BY <1>1, <2>1 DEF RemoveAt
<1>5. /\ a \o b \in Seq(Tracks) /\ Len(a \o b) = Len(s) - 1
      /\ \A k \in 1..(Len(s) - 1) : (a \o b)[k] = IF k <= i THEN s[k] ELSE s[k + 1]
  <2>1. Len(s) \in Nat /\ a \in Seq(Tracks) /\ b \in Seq(Tracks) BY <1>2, <1>3
  <2>2. a \o b \in Seq(Tracks) /\ Len(a \o b) = Len(s) - 1
    <3>1. a \o b \in Seq(Tracks) /\ Len(a \o b) = Len(a) + Len(b)
        BY <2>1, ConcatProperties
    <3>2. Len(a) = i /\ Len(b) = Len(s) - 1 - i BY <1>2, <1>3
    <3> QED BY <2>1, <3>1, <3>2
  <2>3. ASSUME NEW k \in 1..(Len(s) - 1)
        PROVE  (a \o b)[k] = IF k <= i THEN s[k] ELSE s[k + 1]
    <3>1. CASE k <= i
      <4>1. (a \o b)[k] = a[k] BY <1>2, <2>1, <3>1
      <4> QED BY <1>2, <3>1, <4>1
    <3>2. CASE ~(k <= i)
      <4>1. (a \o b)[k] = b[k - i] BY <1>2, <1>3, <2>1, <3>2
      <4>2. k - i \in 1..(Len(s) - 1 - i) /\ k - i + i + 1 = k + 1 BY <2>1, <3>2
      <4>3. b[k - i] = s[k - i + i + 1] BY <1>3, <4>2
      <4> QED BY <3>2, <4>1, <4>2, <4>3
    <3> QED BY <3>1, <3>2
  <2> QED BY <2>2, <2>3
<1> QED BY <1>4, <1>5

LEMMA KnownStays == ASSUME content' = content PROVE Known' = Known
BY DEF Known

\* Whatever of a list is kept is a list of tracks.
LEMMA SomeOfIs ==
  ASSUME NEW s \in Seq(Tracks), NEW kept \in SomeOf(s)
  PROVE  kept \in Seq(Tracks)
<1>1. PICK n \in 0..Len(s) : \E f \in [1..n -> 1..Len(s)] : kept = [i \in 1..n |-> s[f[i]]]
    BY DEF SomeOf
<1>2. PICK f \in [1..n -> 1..Len(s)] : kept = [i \in 1..n |-> s[f[i]]] BY <1>1
<1>3. n \in Nat /\ \A i \in 1..n : s[f[i]] \in Tracks BY <1>2
<1> QED BY <1>2, <1>3

LEMMA AnsweredIn ==
  ASSUME NEW kept, NEW all
  PROVE  AnswerAt(kept, all) \in Answers /\ (AnswerAt(kept, all) = "served" => kept = all)
BY DEF AnswerAt, Answers

\* The timer keeps the id of the list that is open, or was when it was started.
LEMMA PersistIs ==
  ASSUME PlayTypeOK, Persist, content' = content, activePlaylistId' \in Known \cup {NoList}
  PROVE  timer'.id \in Known \cup {NoList}
<1>1. timer' = timer \/ timer' = RestartTimer BY DEF Persist
<1>2. RestartTimer.id = activePlaylistId' BY DEF RestartTimer
<1> QED BY <1>1, <1>2 DEF PlayTypeOK

\* Opening a list leaves what is shown, or shows nothing, or has the list's tracks fetched.
LEMMA OpenedIs ==
  ASSUME PlayTypeOK, NEW id \in Known \cup {NoList}, Opened(id)
  PROVE  /\ activePlaylistId' \in Known \cup {NoList}
         /\ tracks' \in Seq(Tracks) /\ currentIndex' \in Nat
         /\ UNCHANGED <<tracks, currentIndex, src>> \/ tracks' = <<>>
         /\ loads' \in SUBSET LoadRec /\ \A l \in loads' : l.list \in Known
         /\ \A l \in loads' : l \in loads \/ l.at = "asked"
         /\ \/ UNCHANGED <<activePlaylistId, tracks, loads>>
            \/ activePlaylistId' = NoList
            \/ \E l \in loads' : l.list = activePlaylistId'
<1>1. CASE id = activePlaylistId /\ UNCHANGED <<activePlaylistId, tracks, currentIndex, src, loads>>
    BY <1>1 DEF PlayTypeOK
<1>2. CASE /\ id = NoList /\ activePlaylistId' = id /\ tracks' = <<>> /\ currentIndex' = 0
           /\ UNCHANGED loads
    BY <1>2 DEF PlayTypeOK
<1>3. CASE /\ id # NoList /\ activePlaylistId' = id
           /\ loads' = loads \cup {Load(id)} /\ UNCHANGED <<tracks, currentIndex, src>>
  <2>1. id \in Known /\ id \in Lists BY <1>3 DEF Known
  <2>2. Load(id) \in LoadRec /\ Load(id).list = id /\ Load(id).at = "asked"
      BY <2>1 DEF Load, LoadRec
  <2> QED BY <1>3, <2>1, <2>2 DEF PlayTypeOK
<1> QED BY <1>1, <1>2, <1>3 DEF Opened

\* What opening a list leaves of the promises, when no edit of a list is under way.
LEMMA OpenedKeeps ==
  ASSUME PlayTypeOK, NEW id \in Known \cup {NoList}, Opened(id), PlayKept,
         UNCHANGED <<content, partial, astray>>,
         \A e \in edits : e.kind = "create", edits' = {}
  PROVE  PlayKept'
<1>1. OneEdit' /\ EditsFit' BY DEF OneEdit, EditsFit
<1>2. LoadsFit'
  <2>1. ASSUME NEW l \in loads', l.at = "served" PROVE l.rows = content'[l.list]
      BY <2>1, OpenedIs DEF PlayKept, LoadsFit
  <2> QED BY <2>1 DEF LoadsFit
<1>3. ShownFits'
  <2>1. SUFFICES ASSUME Shown', ~partial' PROVE tracks' = content'[activePlaylistId']
      BY DEF ShownFits
  <2>2. UNCHANGED <<activePlaylistId, tracks, loads>> BY <2>1, OpenedIs DEF Shown
  <2>3. Shown BY <2>1, <2>2 DEF Shown
  <2> QED BY <2>1, <2>2, <2>3 DEF PlayKept, ShownFits
<1>4. PlayingFits' BY OpenedIs DEF PlayKept, PlayingFits
<1> QED BY <1>1, <1>2, <1>3, <1>4 DEF PlayKept

LEMMA SaveTimerInv == ASSUME PlayInv, SaveTimerFires PROVE PlayInv'
<1>1. /\ UNCHANGED <<content, activePlaylistId, tracks, currentIndex, prevIndex, src, partial, astray, pendingIndex,
                     loads, edits, overtaken>>
      /\ timer' = NoTimer /\ (remote' = timer.id \/ remote' = remote)
    BY DEF SaveTimerFires, audio, gaps
<1>2. timer'.id = NoList BY <1>1 DEF NoTimer
<1>3. PlayTypeOK' BY <1>1, <1>2, KnownStays DEF PlayInv, PlayTypeOK
<1>4. PlayKept => PlayKept'
    BY <1>1 DEF PlayKept, OneEdit, EditsFit, ListEditFits, CreationFits, LoadsFit, ShownFits, Shown,
                PlayingFits
<1> QED BY <1>1, <1>3, <1>4 DEF PlayInv

LEMMA RestoreMountInv == ASSUME PlayInv, RestoreMount PROVE PlayInv'
<1>1. UNCHANGED <<content, remote, prevIndex, edits, partial, astray>> /\ Persist
    BY DEF RestoreMount, gaps
<1>2. CASE /\ remote # NoList /\ pendingIndex' \in 0..1 /\ Opened(remote)
           /\ overtaken' = (overtaken \/ edits # {})
  <2>1. remote \in Known \cup {NoList} BY DEF PlayInv, PlayTypeOK
  <2>2. activePlaylistId' \in Known \cup {NoList} BY <1>2, <2>1, OpenedIs DEF PlayInv
  <2>3. timer'.id \in Known \cup {NoList} BY <1>1, <2>2, PersistIs DEF PlayInv
  <2>4. /\ tracks' \in Seq(Tracks) /\ currentIndex' \in Nat
        /\ loads' \in SUBSET LoadRec /\ \A l \in loads' : l.list \in Known
      BY <1>2, <2>1, OpenedIs DEF PlayInv
  <2>5. PlayTypeOK'
    <3>1. Known' = Known BY <1>1, KnownStays
    <3>2. pendingIndex' \in Nat BY <1>2
    <3> QED BY <1>1, <2>1, <2>2, <2>3, <2>4, <3>1, <3>2 DEF PlayInv, PlayTypeOK
  <2>6. ASSUME ~overtaken' PROVE PlayKept'
    <3>1. ~overtaken /\ edits = {} BY <1>2, <2>6
    <3> QED BY <1>1, <1>2, <2>1, <3>1, OpenedKeeps DEF PlayInv
  <2> QED BY <2>5, <2>6 DEF PlayInv
<1>3. CASE UNCHANGED <<pendingIndex, activePlaylistId, tracks, currentIndex, src, loads, overtaken>>
  <2>1. timer'.id \in Known \cup {NoList}
      BY <1>1, <1>3, PersistIs DEF PlayInv, PlayTypeOK
  <2>2. PlayTypeOK' BY <1>1, <1>3, <2>1, KnownStays DEF PlayInv, PlayTypeOK
  <2>3. PlayKept => PlayKept'
      BY <1>1, <1>3 DEF PlayKept, OneEdit, EditsFit, ListEditFits, CreationFits, LoadsFit, ShownFits,
                        Shown, PlayingFits
  <2> QED BY <1>3, <2>2, <2>3 DEF PlayInv
<1> QED BY <1>2, <1>3 DEF RestoreMount

LEMMA ServeLoadInv == ASSUME PlayInv, NEW l \in loads, ServeLoad(l) PROVE PlayInv'
<1>0. PICK kept \in SomeOf(content[l.list]) :
        loads' = (loads \ {l})
                 \cup {[l EXCEPT !.at = AnswerAt(kept, content[l.list]), !.rows = kept]}
    BY DEF ServeLoad
<1> DEFINE served == [l EXCEPT !.at = AnswerAt(kept, content[l.list]), !.rows = kept]
<1>1. /\ loads' = (loads \ {l}) \cup {served}
      /\ UNCHANGED <<content, remote, activePlaylistId, tracks, currentIndex, prevIndex, src,
                     partial, astray, pendingIndex, edits, timer, overtaken>>
    BY <1>0 DEF ServeLoad, audio, gaps
<1>2. l \in LoadRec /\ l.list \in Known BY DEF PlayInv, PlayTypeOK
<1>3. content[l.list] \in Seq(Tracks) BY <1>2 DEF PlayInv, PlayTypeOK, Known
<1>4. /\ served \in LoadRec /\ served.list = l.list
      /\ served.at = "served" => served.rows = content[l.list]
  <2>1. kept \in Seq(Tracks) BY <1>3, SomeOfIs
  <2> QED BY <1>2, <2>1, AnsweredIn DEF LoadRec
<1> HIDE DEF served
<1>5. loads' \in SUBSET LoadRec /\ \A k \in loads' : k.list \in Known
    BY <1>1, <1>2, <1>4 DEF PlayInv, PlayTypeOK
<1>6. PlayTypeOK' BY <1>1, <1>5, KnownStays DEF PlayInv, PlayTypeOK
<1>7. ASSUME PlayKept PROVE PlayKept'
  <2>1. LoadsFit'
    <3>1. ASSUME NEW k \in loads', k.at = "served" PROVE k.rows = content'[k.list]
        BY <1>1, <1>4, <1>7, <3>1 DEF PlayKept, LoadsFit
    <3> QED BY <3>1 DEF LoadsFit
  <2>2. EditsFit' BY <1>1, <1>7 DEF PlayKept, EditsFit, ListEditFits, CreationFits
  <2>3. Shown' => Shown BY <1>1, <1>4 DEF Shown
  <2> QED BY <1>1, <1>7, <2>1, <2>2, <2>3 DEF PlayKept, OneEdit, ShownFits, PlayingFits
<1> QED BY <1>1, <1>6, <1>7 DEF PlayInv

LEMMA TakeLoadInv == ASSUME PlayInv, NEW l \in loads, TakeLoad(l) PROVE PlayInv'
<1> DEFINE start == IF pendingIndex < Len(l.rows) THEN pendingIndex ELSE 0
<1>1. /\ loads' = loads \ {l} /\ Persist
      /\ UNCHANGED <<content, remote, activePlaylistId, edits>>
    BY DEF TakeLoad
<1>2. l \in LoadRec /\ l.list \in Known /\ l.rows \in Seq(Tracks)
    BY DEF PlayInv, PlayTypeOK, LoadRec
<1>3. start \in Nat /\ (l.rows # <<>> => start < Len(l.rows))
    BY <1>2 DEF PlayInv, PlayTypeOK
<1> HIDE DEF start
<1>4. timer'.id \in Known \cup {NoList}
    BY <1>1, PersistIs DEF PlayInv, PlayTypeOK
<1>5. loads' \in SUBSET LoadRec /\ \A k \in loads' : k.list \in Known
    BY <1>1 DEF PlayInv, PlayTypeOK
<1>6. ASSUME PlayKept PROVE OneEdit' /\ EditsFit' /\ LoadsFit'
  <2>1. \A e \in edits : e.kind = "create" BY <1>6 DEF PlayKept, EditsFit, ListEditFits
  <2>2. EditsFit' BY <1>1, <1>6, <2>1 DEF PlayKept, EditsFit, CreationFits
  <2> QED BY <1>1, <1>6, <2>2 DEF PlayKept, OneEdit, LoadsFit
<1>7. CASE /\ l.at # "asked" /\ pendingIndex' = 0
           /\ tracks' = l.rows /\ currentIndex' = start
           /\ src' = IF l.rows = <<>> THEN src ELSE l.rows[start + 1]
           /\ prevIndex' = IF l.rows = <<>> THEN prevIndex ELSE start
           /\ overtaken' = (overtaken \/ l.list # activePlaylistId)
           /\ partial' = (l.at = "cut") /\ astray' = (astray /\ l.rows = <<>>)
  <2>1. prevIndex' \in Nat \cup {Reset} BY <1>3, <1>7 DEF PlayInv, PlayTypeOK
  <2>2. PlayTypeOK'
      BY <1>1, <1>2, <1>3, <1>4, <1>5, <1>7, <2>1, KnownStays DEF PlayInv, PlayTypeOK
  <2>3. ASSUME ~overtaken' PROVE PlayKept'
    <3>1. ~overtaken /\ PlayKept /\ l.list = activePlaylistId BY <1>7, <2>3 DEF PlayInv
    <3>2. ~partial' => tracks' = content'[activePlaylistId']
      <4>1. ~partial' => l.at = "served" BY <1>2, <1>7 DEF LoadRec, Answers
      <4> QED BY <1>1, <1>7, <3>1, <4>1 DEF PlayKept, LoadsFit
    <3>3. PlayingFits' BY <1>3, <1>7 DEF PlayingFits
    <3> QED BY <1>6, <3>1, <3>2, <3>3 DEF PlayKept, ShownFits
  <2> QED BY <2>2, <2>3 DEF PlayInv
<1>8. CASE tracks' = <<>> /\ UNCHANGED <<currentIndex, prevIndex, src, pendingIndex, overtaken, gaps>>
  <2>1. PlayTypeOK' BY <1>1, <1>4, <1>5, <1>8, KnownStays DEF PlayInv, PlayTypeOK
  <2>2. ShownFits' /\ PlayingFits' BY <1>8 DEF ShownFits, Shown, PlayingFits
  <2> QED BY <1>6, <1>8, <2>1, <2>2 DEF PlayInv, PlayKept
<1> QED BY <1>7, <1>8 DEF TakeLoad, start

LEMMA setPlaylistInv == ASSUME PlayInv, NEW p \in Lists, setPlaylist(p) PROVE PlayInv'
<1>1. /\ p \in Known \cup {NoList} /\ pendingIndex' = 0 /\ prevIndex' = Reset /\ Opened(p)
      /\ overtaken' = (overtaken \/ edits # {})
      /\ UNCHANGED <<content, remote, edits, partial, astray>> /\ Persist
    BY DEF setPlaylist, gaps
<1>2. /\ activePlaylistId' \in Known \cup {NoList}
      /\ tracks' \in Seq(Tracks) /\ currentIndex' \in Nat
      /\ loads' \in SUBSET LoadRec /\ \A l \in loads' : l.list \in Known
    BY <1>1, OpenedIs DEF PlayInv
<1>3. timer'.id \in Known \cup {NoList} BY <1>1, <1>2, PersistIs DEF PlayInv
<1>4. PlayTypeOK'
  <2>1. Known' = Known BY <1>1, KnownStays
  <2> QED BY <1>1, <1>2, <1>3, <2>1 DEF PlayInv, PlayTypeOK
<1>5. ASSUME ~overtaken' PROVE PlayKept'
  <2>1. ~overtaken /\ edits = {} BY <1>1, <1>5
  <2> QED BY <1>1, <2>1, OpenedKeeps DEF PlayInv
<1> QED BY <1>4, <1>5 DEF PlayInv

LEMMA clearPlaylistInv == ASSUME PlayInv, clearPlaylist PROVE PlayInv'
<1>1. /\ Opened(NoList) /\ overtaken' = (overtaken \/ edits # {} \/ loads # {})
      /\ UNCHANGED <<content, remote, pendingIndex, prevIndex, edits, partial, astray>> /\ Persist
    BY DEF clearPlaylist, gaps
<1>2. /\ activePlaylistId' \in Known \cup {NoList}
      /\ tracks' \in Seq(Tracks) /\ currentIndex' \in Nat
      /\ loads' \in SUBSET LoadRec /\ \A l \in loads' : l.list \in Known
    BY <1>1, OpenedIs DEF PlayInv
<1>3. timer'.id \in Known \cup {NoList} BY <1>1, <1>2, PersistIs DEF PlayInv
<1>4. PlayTypeOK'
  <2>1. Known' = Known BY <1>1, KnownStays
  <2> QED BY <1>1, <1>2, <1>3, <2>1 DEF PlayInv, PlayTypeOK
<1>5. ASSUME ~overtaken' PROVE PlayKept'
  <2>1. ~overtaken /\ edits = {} BY <1>1, <1>5
  <2> QED BY <1>1, <2>1, OpenedKeeps DEF PlayInv
<1> QED BY <1>4, <1>5 DEF PlayInv

LEMMA playTrackAtIndexInv ==
  ASSUME PlayInv, NEW i \in Nat, playTrackAtIndex(i)
  PROVE  PlayInv'
<1>1. /\ i < Len(tracks) /\ currentIndex' = i /\ prevIndex' = i /\ src' = tracks[i + 1] /\ Persist
      /\ UNCHANGED <<content, remote, activePlaylistId, tracks, pendingIndex, loads, edits, overtaken,
                     partial>>
    BY DEF playTrackAtIndex
<1>2. timer'.id \in Known \cup {NoList} BY <1>1, PersistIs DEF PlayInv, PlayTypeOK
<1>3. PlayTypeOK' BY <1>1, <1>2, KnownStays DEF PlayInv, PlayTypeOK
<1>4. PlayingFits' BY <1>1 DEF PlayingFits
<1>5. PlayKept => PlayKept'
    BY <1>1, <1>4 DEF PlayKept, OneEdit, EditsFit, ListEditFits, CreationFits, LoadsFit, ShownFits, Shown
<1> QED BY <1>1, <1>3, <1>5 DEF PlayInv

LEMMA toggleShuffleInv == ASSUME PlayInv, toggleShuffle PROVE PlayInv'
<1>1. /\ Persist
      /\ UNCHANGED <<content, remote, activePlaylistId, tracks, currentIndex, prevIndex, src,
                     partial, astray, pendingIndex, loads, edits, overtaken>>
    BY DEF toggleShuffle, audio, gaps
<1>2. timer'.id \in Known \cup {NoList} BY <1>1, PersistIs DEF PlayInv, PlayTypeOK
<1>3. PlayTypeOK' BY <1>1, <1>2, KnownStays DEF PlayInv, PlayTypeOK
<1>4. PlayKept => PlayKept'
    BY <1>1 DEF PlayKept, OneEdit, EditsFit, ListEditFits, CreationFits, LoadsFit, ShownFits, Shown,
                PlayingFits
<1> QED BY <1>1, <1>3, <1>4 DEF PlayInv

\* An edit of the open list: alone, it is made from what is shown and stored.
LEMMA EditInv ==
  ASSUME PlayInv, NEW e \in EditRec, Edit(e), e.list = activePlaylistId, e.at \notin Answers,
         e.kind # "create", e.from \in (SUBSET Tracks) \cup Known,
         e.kind = "add" => ExtendsList(e.new, tracks),
         e.kind = "remove" => e.gone < Len(tracks) /\ 1 < Len(tracks)
                              /\ e.new = RemoveAt(tracks, e.gone + 1)
  PROVE  PlayInv'
<1>1. /\ activePlaylistId # NoList /\ edits' = edits \cup {e}
      /\ overtaken' = (overtaken \/ edits # {} \/ loads # {} \/ tracks = <<>>)
      /\ UNCHANGED <<content, remote, activePlaylistId, tracks, currentIndex, prevIndex, src,
                     partial, astray, pendingIndex, loads, timer>>
    BY DEF Edit, ListChange, audio, gaps
<1>2. e.list \in Known BY <1>1 DEF PlayInv, PlayTypeOK
<1>3. e.kind = "remove" => e.new # <<>>
  <2>1. SUFFICES ASSUME e.kind = "remove" PROVE e.new # <<>> OBVIOUS
  <2>2. /\ e.gone \in Nat /\ tracks \in Seq(Tracks)
        /\ e.gone < Len(tracks) /\ 1 < Len(tracks) /\ e.new = RemoveAt(tracks, e.gone + 1)
      BY <2>1 DEF PlayInv, PlayTypeOK, EditRec
  <2>3. Len(e.new) = Len(tracks) - 1 BY <2>2, RemovedFrom
  <2> QED BY <2>2, <2>3
<1>4. PlayTypeOK'
  <2>1. Known' = Known BY <1>1, KnownStays
  <2>2. edits' \in SUBSET EditRec BY <1>1 DEF PlayInv, PlayTypeOK
  <2>3. \A f \in edits' : /\ f.kind # "create" \/ f.at \in Answers => f.list \in Known'
                          /\ f.kind = "remove" => f.new # <<>>
                          /\ f.from \in (SUBSET Tracks) \cup Known'
      BY <1>1, <1>2, <1>3, <2>1 DEF PlayInv, PlayTypeOK
  <2> QED BY <1>1, <2>1, <2>2, <2>3 DEF PlayInv, PlayTypeOK
<1>5. ASSUME ~overtaken' PROVE PlayKept'
  <2>1. PlayKept /\ edits = {} /\ loads = {} /\ tracks # <<>> /\ edits' = {e}
      BY <1>1, <1>5 DEF PlayInv
  <2>2. ~partial => content[e.list] = tracks
      BY <1>1, <2>1 DEF PlayKept, ShownFits, Shown
  <2>3. ListEditFits(e)' BY <1>1, <2>1, <2>2 DEF ListEditFits, Answers
  <2>4. OneEdit' /\ EditsFit' BY <2>1, <2>3 DEF OneEdit, EditsFit
  <2>5. LoadsFit' /\ ShownFits' /\ PlayingFits'
      BY <1>1, <2>1, <2>2 DEF PlayKept, LoadsFit, ShownFits, PlayingFits
  <2> QED BY <2>4, <2>5 DEF PlayKept
<1> QED BY <1>4, <1>5 DEF PlayInv

LEMMA EditNowIs ==
  ASSUME PlayInv, activePlaylistId # NoList, NEW kind \in {"remove", "add", "create"}
  PROVE  /\ EditNow(kind) \in EditRec /\ EditNow(kind).kind = kind
         /\ EditNow(kind).list = activePlaylistId /\ EditNow(kind).new = tracks
         /\ EditNow(kind).at = "sent" /\ EditNow(kind).from = {}
<1>1. activePlaylistId \in Lists /\ tracks \in Seq(Tracks) BY DEF PlayInv, PlayTypeOK, Known
<1> QED BY <1>1 DEF EditNow, EditRec

LEMMA removeTrackInv == ASSUME PlayInv, NEW i \in Nat, removeTrack(i) PROVE PlayInv'
<1>1. PICK e : e = [EditNow("remove") EXCEPT !.new = RemoveAt(tracks, i + 1), !.gone = i] OBVIOUS
<1>2. i < Len(tracks) /\ Len(tracks) > 1 /\ Edit(e) BY <1>1 DEF removeTrack
<1>3. tracks \in Seq(Tracks) /\ Len(tracks) \in Nat BY DEF PlayInv, PlayTypeOK
<1>4. RemoveAt(tracks, i + 1) \in Seq(Tracks) BY <1>2, <1>3, RemovedFrom
<1>5. EditNow("remove") \in EditRec /\ EditNow("remove").kind = "remove"
      /\ EditNow("remove").list = activePlaylistId /\ EditNow("remove").at = "sent"
      /\ EditNow("remove").from = {}
    BY <1>2, EditNowIs DEF Edit
<1>6. /\ e \in EditRec /\ e.kind = "remove" /\ e.list = activePlaylistId /\ e.at = "sent"
      /\ e.from = {} /\ e.gone = i /\ e.new = RemoveAt(tracks, i + 1)
    BY <1>1, <1>4, <1>5 DEF EditRec
<1> QED BY <1>2, <1>3, <1>6, EditInv DEF Answers

LEMMA addTracksInv == ASSUME PlayInv, NEW F \in SUBSET Tracks, addTracks(F) PROVE PlayInv'
<1>1. PICK e : e = [EditNow("add") EXCEPT !.new = AddedLast(tracks, F)] OBVIOUS
<1>2. Edit(e) BY <1>1 DEF addTracks
<1>3. AddedLast(tracks, F) \in Seq(Tracks) /\ ExtendsList(AddedLast(tracks, F), tracks)
    BY AddedComesLast DEF PlayInv, PlayTypeOK
<1>4. EditNow("add") \in EditRec /\ EditNow("add").kind = "add"
      /\ EditNow("add").list = activePlaylistId /\ EditNow("add").at = "sent"
      /\ EditNow("add").from = {}
    BY <1>2, EditNowIs DEF Edit
<1>5. /\ e \in EditRec /\ e.kind = "add" /\ e.list = activePlaylistId /\ e.at = "sent"
      /\ e.from = {} /\ e.new = AddedLast(tracks, F)
    BY <1>1, <1>3, <1>4 DEF EditRec
<1> QED BY <1>2, <1>3, <1>5, EditInv DEF Answers

\* What is to be added is read first: a folder's music or another list's.
LEMMA ReadingInv ==
  ASSUME PlayInv, NEW from \in (SUBSET Tracks) \cup Known,
         Edit([EditNow("add") EXCEPT !.from = from, !.at = "reading"])
  PROVE  PlayInv'
<1>1. PICK e : e = [EditNow("add") EXCEPT !.from = from, !.at = "reading"] OBVIOUS
<1>2. Edit(e) BY <1>1
<1>3. EditNow("add") \in EditRec /\ EditNow("add").kind = "add"
      /\ EditNow("add").list = activePlaylistId /\ EditNow("add").new = tracks
    BY <1>2, EditNowIs DEF Edit
<1>4. from \in (SUBSET Tracks) \cup Lists BY DEF Known
<1>5. /\ e \in EditRec /\ e.kind = "add" /\ e.list = activePlaylistId /\ e.at = "reading"
      /\ e.from = from /\ e.new = tracks
    BY <1>1, <1>3, <1>4 DEF EditRec
<1>6. ExtendsList(tracks, tracks) BY DEF PlayInv, PlayTypeOK, ExtendsList
<1> QED BY <1>2, <1>5, <1>6, EditInv DEF Answers

LEMMA createPlaylistInv ==
  ASSUME PlayInv, NEW F \in SUBSET Tracks, NEW p \in Lists, NEW at \in {"sent", "reading"},
         createPlaylist(F, p, at)
  PROVE  PlayInv'
<1>1. PICK e : e = [EditNow("create") EXCEPT !.list = p, !.new = AddedLast(<<>>, F), !.at = at]
    OBVIOUS
<1>2. /\ content[p] = Absent /\ edits' = edits \cup {e} /\ overtaken' = (overtaken \/ edits # {})
      /\ UNCHANGED <<content, remote, activePlaylistId, tracks, currentIndex, prevIndex, src,
                     partial, astray, pendingIndex, loads, timer>>
    BY <1>1 DEF createPlaylist, ListChange, audio, gaps
<1>3. AddedLast(<<>>, F) \in Seq(Tracks)
  <2>1. PICK none : none = <<>> OBVIOUS
  <2>2. none \in Seq(Tracks) BY <2>1
  <2>3. AddedLast(none, F) \in Seq(Tracks) BY <2>2, AddedComesLast
  <2> QED BY <2>1, <2>3
<1>4. /\ e.kind = "create" /\ e.list = p /\ e.new = AddedLast(<<>>, F) /\ e.at = at /\ e.gone = 0
      /\ e.from = {} /\ e \in EditRec
    BY <1>1, <1>3 DEF EditNow, EditRec
<1>5. PlayTypeOK'
  <2>1. Known' = Known BY <1>2, KnownStays
  <2>2. edits' \in SUBSET EditRec BY <1>2, <1>4 DEF PlayInv, PlayTypeOK
  <2>3. \A f \in edits' : /\ f.kind # "create" \/ f.at \in Answers => f.list \in Known'
                          /\ f.kind = "remove" => f.new # <<>>
                          /\ f.from \in (SUBSET Tracks) \cup Known'
      BY <1>2, <1>4, <2>1 DEF PlayInv, PlayTypeOK, Answers
  <2> QED BY <1>2, <2>1, <2>2, <2>3 DEF PlayInv, PlayTypeOK
<1>6. ASSUME ~overtaken' PROVE PlayKept'
  <2>1. PlayKept /\ edits = {} /\ edits' = {e} BY <1>2, <1>6 DEF PlayInv
  <2>2. OneEdit' /\ EditsFit' BY <1>2, <1>4, <2>1 DEF OneEdit, EditsFit, CreationFits
  <2>3. Shown' => Shown BY <1>2, <2>1 DEF Shown
  <2>4. LoadsFit' /\ ShownFits' /\ PlayingFits'
      BY <1>2, <2>1, <2>3 DEF PlayKept, LoadsFit, ShownFits, PlayingFits
  <2> QED BY <2>2, <2>4 DEF PlayKept
<1> QED BY <1>5, <1>6 DEF PlayInv

\* What was read is added to what was shown at the click.
LEMMA LookedUpInv == ASSUME PlayInv, NEW e \in edits, LookedUp(e) PROVE PlayInv'
<1>f. PICK F \in Found(e.from) :
        LET n == IF e.kind = "add" THEN AddedLast(e.new, F) ELSE e.new IN
        /\ e.at = "reading"
        /\ \/ /\ e.kind = "create" \/ n # e.new
              /\ edits' = (edits \ {e}) \cup {[e EXCEPT !.new = n, !.at = "sent"]}
           \/ edits' = edits \ {e}
    BY DEF LookedUp
<1>0. PICK new, sent : /\ new = IF e.kind = "add" THEN AddedLast(e.new, F) ELSE e.new
                       /\ sent = [e EXCEPT !.new = new, !.at = "sent"]
    OBVIOUS
<1>1. /\ e.at = "reading"
      /\ \/ edits' = (edits \ {e}) \cup {sent}
         \/ edits' = edits \ {e}
      /\ UNCHANGED <<content, remote, activePlaylistId, tracks, currentIndex, prevIndex, src,
                     partial, astray, pendingIndex, loads, timer, overtaken>>
    BY <1>f, <1>0 DEF LookedUp, audio, gaps
<1>2. /\ e \in EditRec /\ e.new \in Seq(Tracks) /\ e.from \in (SUBSET Tracks) \cup Known
      /\ e.kind \in {"remove", "add", "create"}
      /\ e.kind # "create" => e.list \in Known
      /\ e.kind = "remove" => e.new # <<>>
    BY DEF PlayInv, PlayTypeOK, EditRec
<1>3. F \subseteq Tracks
  <2>1. ASSUME e.from \in Known PROVE ToSet(content[e.from]) \subseteq Tracks
    <3>1. content[e.from] \in Seq(Tracks) BY <2>1 DEF PlayInv, PlayTypeOK, Known
    <3> QED BY <3>1 DEF ToSet
  <2>2. CASE e.from \in Known BY <2>1, <2>2, <1>f DEF Found
  <2>3. CASE e.from \notin Known BY <1>2, <1>f, <2>3 DEF Found
  <2> QED BY <2>2, <2>3
<1>4. AddedLast(e.new, F) \in Seq(Tracks) /\ ExtendsList(AddedLast(e.new, F), e.new)
    BY <1>2, <1>3, AddedComesLast
<1>5. /\ new \in Seq(Tracks) /\ (e.kind # "add" => new = e.new)
      /\ e.kind = "add" => ExtendsList(new, e.new)
    BY <1>0, <1>2, <1>4
<1>6. /\ sent \in EditRec /\ sent.kind = e.kind /\ sent.list = e.list /\ sent.from = e.from
      /\ sent.at = "sent" /\ sent.new = new /\ sent.gone = e.gone
    BY <1>0, <1>2, <1>5 DEF EditRec
<1>7. PlayTypeOK'
  <2>1. Known' = Known BY <1>1, KnownStays
  <2>2. edits' \in SUBSET EditRec BY <1>1, <1>6 DEF PlayInv, PlayTypeOK
  <2>3. ASSUME NEW f \in edits'
        PROVE  /\ f.kind # "create" \/ f.at \in Answers => f.list \in Known'
               /\ f.kind = "remove" => f.new # <<>>
               /\ f.from \in (SUBSET Tracks) \cup Known'
    <3>1. CASE f \in edits BY <2>1, <3>1 DEF PlayInv, PlayTypeOK
    <3>2. CASE f = sent BY <1>2, <1>5, <1>6, <2>1, <3>2 DEF Answers
    <3> QED BY <1>1, <2>3, <3>1, <3>2
  <2> QED BY <1>1, <2>1, <2>2, <2>3 DEF PlayInv, PlayTypeOK
<1>8. ASSUME ~overtaken' PROVE PlayKept'
  <2>1. PlayKept /\ edits = {e} BY <1>1, <1>8 DEF PlayInv, PlayKept, OneEdit
  <2>2. edits' \subseteq {sent} BY <1>1, <2>1
  <2>3. OneEdit' BY <2>2 DEF OneEdit
  <2>4. CASE e.kind = "create"
    <3>1. CreationFits(e) BY <2>1, <2>4 DEF PlayKept, EditsFit
    <3>2. EditsFit' BY <1>1, <1>6, <2>2, <2>4, <3>1 DEF EditsFit, CreationFits, Answers
    <3> QED BY <1>1, <1>6, <2>1, <2>2, <2>3, <2>4, <3>2
            DEF PlayKept, LoadsFit, ShownFits, Shown, PlayingFits, Answers
  <2>5. CASE e.kind # "create"
    <3>1. ListEditFits(e) BY <2>1, <2>5 DEF PlayKept, EditsFit
    <3>2. e.kind = "add" => ExtendsList(new, tracks)
      <4>1. SUFFICES ASSUME e.kind = "add" PROVE ExtendsList(new, tracks) OBVIOUS
      <4>2. ExtendsList(new, e.new) /\ ExtendsList(e.new, tracks)
          BY <1>5, <3>1, <4>1 DEF ListEditFits
      <4>3. tracks \in Seq(Tracks) /\ new \in Seq(Tracks) BY <1>5 DEF PlayInv, PlayTypeOK
      <4> QED BY <1>2, <4>2, <4>3 DEF ExtendsList
    <3>3. /\ loads' = {} /\ e.list = activePlaylistId' /\ tracks' # <<>>
          /\ ~partial' => content'[e.list] = tracks'
          /\ e.kind = "remove" => e.gone < Len(tracks') /\ new = RemoveAt(tracks', e.gone + 1)
        BY <1>1, <1>5, <3>1 DEF ListEditFits, Answers
    <3>4. ListEditFits(sent)' BY <1>1, <1>6, <3>2, <3>3 DEF ListEditFits
    <3>5. EditsFit' BY <1>6, <2>2, <2>5, <3>4 DEF EditsFit
    <3>6. ~partial' => tracks' = content'[activePlaylistId'] BY <3>3
    <3> QED BY <1>1, <2>1, <2>3, <3>5, <3>6 DEF PlayKept, LoadsFit, ShownFits, PlayingFits
  <2> QED BY <2>4, <2>5
<1> QED BY <1>7, <1>8 DEF PlayInv

\* The server writes what it keeps of the list, or refuses, which ends the edit.
LEMMA ServeEditInv == ASSUME PlayInv, NEW e \in edits, ServeEdit(e) PROVE PlayInv'
<1>1. /\ e.at = "sent"
      /\ UNCHANGED <<remote, activePlaylistId, tracks, currentIndex, prevIndex, src, astray,
                     pendingIndex, loads, timer, overtaken>>
    BY DEF ServeEdit
<1>2. /\ e \in EditRec /\ e.new \in Seq(Tracks) /\ e.list \in Lists
      /\ e.from \in (SUBSET Tracks) \cup Known
      /\ e.kind = "remove" => e.new # <<>>
    BY DEF PlayInv, PlayTypeOK, EditRec
<1>3. ASSUME NEW kept \in Seq(Tracks), NEW served, served = [e EXCEPT !.at = AnswerAt(kept, e.new)]
      PROVE  /\ served \in EditRec /\ served.kind = e.kind /\ served.list = e.list /\ served.from = e.from
             /\ served.at \in Answers /\ (served.at = "served" => kept = e.new)
             /\ served.new = e.new /\ served.gone = e.gone
    BY <1>2, <1>3, AnsweredIn DEF EditRec
<1>4. CASE edits' = edits \ {e} /\ UNCHANGED <<content, partial>>
  <2>1. PlayTypeOK' BY <1>1, <1>4, KnownStays DEF PlayInv, PlayTypeOK
  <2>2. ASSUME ~overtaken' PROVE PlayKept'
    <3>1. PlayKept /\ edits = {e} BY <1>1, <2>2 DEF PlayInv, PlayKept, OneEdit
    <3>2. edits' = {} BY <1>4, <3>1
    <3>3. Shown' => Shown BY <1>1, <3>1 DEF Shown, Answers
    <3> QED BY <1>1, <1>4, <3>1, <3>2, <3>3
            DEF PlayKept, OneEdit, EditsFit, LoadsFit, ShownFits, PlayingFits
  <2> QED BY <2>1, <2>2 DEF PlayInv
<1>5. ASSUME NEW kept \in Seq(Tracks), content' = [content EXCEPT ![e.list] = kept],
             NEW served, served = [e EXCEPT !.at = AnswerAt(kept, e.new)],
             edits' = (edits \ {e}) \cup {served}, UNCHANGED partial
      PROVE  PlayInv'
  <2>0. /\ served \in EditRec /\ served.kind = e.kind /\ served.list = e.list
        /\ served.from = e.from /\ served.at \in Answers
        /\ (served.at = "served" => kept = e.new) /\ served.new = e.new /\ served.gone = e.gone
      BY <1>3, <1>5
  <2>1. content' \in [Lists -> Seq(Tracks) \cup {Absent}]
      BY <1>2, <1>5 DEF PlayInv, PlayTypeOK
  <2>2. content'[e.list] = kept /\ \A p \in Lists : p # e.list => content'[p] = content[p]
      BY <1>2, <1>5 DEF PlayInv, PlayTypeOK
  <2>3. e.list \in Known' /\ Known \subseteq Known'
      BY <1>2, <2>2, PlaylistAssumption DEF Known
  <2>4. edits' \in SUBSET EditRec BY <2>0, <1>5 DEF PlayInv, PlayTypeOK
  <2>5. ASSUME NEW f \in edits'
        PROVE  /\ f.kind # "create" \/ f.at \in Answers => f.list \in Known'
               /\ f.kind = "remove" => f.new # <<>>
               /\ f.from \in (SUBSET Tracks) \cup Known'
    <3>1. CASE f \in edits BY <2>3, <3>1 DEF PlayInv, PlayTypeOK
    <3>2. CASE f = served BY <1>2, <2>0, <2>3, <3>2
    <3> QED BY <1>5, <2>5, <3>1, <3>2
  <2>6. PlayTypeOK' BY <1>1, <2>1, <2>3, <2>4, <2>5 DEF PlayInv, PlayTypeOK
  <2>7. ASSUME ~overtaken' PROVE PlayKept'
    <3>1. PlayKept /\ edits = {e} BY <1>1, <2>7 DEF PlayInv, PlayKept, OneEdit
    <3>2. edits' = {served} BY <1>5, <3>1
    <3>3. OneEdit' /\ PlayingFits' BY <1>1, <3>1, <3>2 DEF PlayKept, OneEdit, PlayingFits
    <3>4. CASE e.kind = "create"
      <4>1. content[e.list] = Absent
          BY <1>1, <3>1, <3>4 DEF PlayKept, EditsFit, CreationFits, Answers
      <4>2. e.list \notin Known BY <4>1 DEF Known
      <4>3. EditsFit' BY <2>0, <3>2, <3>4 DEF EditsFit, CreationFits
      <4>4. LoadsFit'
        <5>1. ASSUME NEW l \in loads', l.at = "served" PROVE l.rows = content'[l.list]
          <6>1. l \in loads /\ l.list \in Known /\ l.list \in Lists
              BY <1>1 DEF PlayInv, PlayTypeOK, Known
          <6> QED BY <2>2, <3>1, <4>2, <5>1, <6>1 DEF PlayKept, LoadsFit
        <5> QED BY <5>1 DEF LoadsFit
      <4>5. ShownFits'
        <5>1. SUFFICES ASSUME Shown', ~partial' PROVE tracks' = content'[activePlaylistId']
            BY DEF ShownFits
        <5>2. Shown /\ ~partial BY <1>1, <1>5, <3>1, <3>4, <5>1 DEF Shown
        <5>3. activePlaylistId \in Known /\ activePlaylistId \in Lists
            BY <5>2 DEF PlayInv, PlayTypeOK, Shown, Known
        <5> QED BY <1>1, <2>2, <3>1, <4>2, <5>2, <5>3 DEF PlayKept, ShownFits
      <4> QED BY <3>3, <4>3, <4>4, <4>5 DEF PlayKept
    <3>5. CASE e.kind # "create"
      <4>1. ListEditFits(e) BY <3>1, <3>5 DEF PlayKept, EditsFit
      <4>2. ListEditFits(served)' BY <1>5, <1>1, <2>0, <2>2, <4>1 DEF ListEditFits
      <4>3. EditsFit' BY <2>0, <3>2, <3>5, <4>2 DEF EditsFit
      <4>4. LoadsFit' BY <1>1, <4>1 DEF LoadsFit, ListEditFits
      <4>5. ~Shown' BY <2>0, <3>2, <3>5 DEF Shown
      <4> QED BY <3>3, <4>3, <4>4, <4>5 DEF PlayKept, ShownFits
    <3> QED BY <3>4, <3>5
  <2> QED BY <2>6, <2>7 DEF PlayInv
\* A write that fails half-way ends the edit of a list, and leaves any part of it.
<1>6. ASSUME NEW left \in Seq(Tracks), content' = [content EXCEPT ![e.list] = left],
             e.kind # "create", edits' = edits \ {e}, partial' = TRUE
      PROVE  PlayInv'
  <2>1. e.list \in Known BY <1>6 DEF PlayInv, PlayTypeOK
  <2>2. content' \in [Lists -> Seq(Tracks) \cup {Absent}] BY <1>6 DEF PlayInv, PlayTypeOK
  <2>3. Known' = Known BY <1>2, <1>6, <2>1, PlaylistAssumption DEF PlayInv, PlayTypeOK, Known
  <2>4. PlayTypeOK' BY <1>1, <1>6, <2>2, <2>3 DEF PlayInv, PlayTypeOK
  <2>5. ASSUME ~overtaken' PROVE PlayKept'
    <3>1. PlayKept /\ edits = {e} BY <1>1, <2>5 DEF PlayInv, PlayKept, OneEdit
    <3>2. edits' = {} /\ loads' = {}
        BY <1>1, <1>6, <3>1 DEF PlayKept, EditsFit, ListEditFits
    <3> QED BY <1>1, <1>6, <3>1, <3>2
            DEF PlayKept, OneEdit, EditsFit, LoadsFit, ShownFits, PlayingFits
  <2> QED BY <2>4, <2>5 DEF PlayInv
<1>7. \A kept \in SomeOf(e.new) : kept \in Seq(Tracks) BY <1>2, SomeOfIs
<1>8. CASE \E kept \in SomeOf(e.new) \ {<<>>} :
             /\ content' = [content EXCEPT ![e.list] = kept]
             /\ edits' = (edits \ {e}) \cup {[e EXCEPT !.at = AnswerAt(kept, e.new)]}
             /\ UNCHANGED partial
    BY <1>5, <1>7, <1>8
<1>9. CASE /\ e.kind # "create" /\ edits' = edits \ {e} /\ partial' = TRUE
           /\ \E left \in SomeOf(e.new) : content' = [content EXCEPT ![e.list] = left]
    BY <1>6, <1>7, <1>9
<1> QED BY <1>4, <1>8, <1>9 DEF ServeEdit, Refusal

LEMMA EditLostInv == ASSUME PlayInv, NEW e \in edits, EditLost(e) PROVE PlayInv'
<1>1. /\ edits' = edits \ {e} /\ overtaken' = TRUE
      /\ UNCHANGED <<content, remote, activePlaylistId, tracks, currentIndex, prevIndex, src,
                     partial, astray, pendingIndex, loads, timer>>
    BY DEF EditLost, audio, gaps
<1>2. PlayTypeOK' BY <1>1, KnownStays DEF PlayInv, PlayTypeOK
<1> QED BY <1>1, <1>2 DEF PlayInv

\* The audio element is loaded with the track at the index, or had it.
LEMMA ShowIs ==
  ASSUME NEW ts \in Seq(Tracks), NEW i \in Nat, NEW prev \in Nat \cup {Reset},
         NEW others, Show(ts, i, prev, others)
  PROVE  /\ tracks' = ts /\ currentIndex' = i /\ prevIndex' \in Nat \cup {Reset}
         /\ i < Len(ts) /\ (prev = i => src = ts[i + 1]) => src' = ts[i + 1]
         /\ \/ i < Len(ts) /\ src' = ts[i + 1]
            \/ astray' = (astray \/ others)
BY DEF Show

\* The index follows a track that is taken out before it.
LEMMA TakenOut ==
  ASSUME NEW ts \in Seq(Tracks), NEW gone \in Nat, gone < Len(ts), NEW cur \in Nat, cur < Len(ts),
         1 < Len(ts), NEW new, new = RemoveAt(ts, gone + 1), NEW last,
         last = IF cur < Len(new) THEN cur ELSE Len(new) - 1, NEW i,
         i = IF gone < cur THEN cur - 1 ELSE IF gone = cur THEN last ELSE cur
  PROVE  i \in Nat /\ i < Len(new) /\ (gone # cur => new[i + 1] = ts[cur + 1])
<1>1. PICK n \in Nat : n = Len(ts) OBVIOUS
<1>2. /\ Len(new) = n - 1
      /\ \A k \in 1..(n - 1) : new[k] = IF k <= gone THEN ts[k] ELSE ts[k + 1]
    BY <1>1, RemovedFrom
<1>3. CASE gone < cur
  <2>1. i = cur - 1 /\ i + 1 = cur /\ cur \in 1..(n - 1) BY <1>1, <1>3
  <2>2. new[cur] = ts[cur + 1] BY <1>2, <1>3, <2>1
  <2> QED BY <1>2, <2>1, <2>2
<1>4. CASE gone = cur
  <2>1. i = last /\ last = IF cur < n - 1 THEN cur ELSE n - 2 BY <1>2, <1>4
  <2> QED BY <1>1, <1>2, <1>4, <2>1
<1>5. CASE cur < gone
  <2>1. i = cur /\ cur + 1 \in 1..(n - 1) /\ cur + 1 <= gone BY <1>1, <1>5
  <2>2. new[cur + 1] = ts[cur + 1] BY <1>2, <2>1
  <2> QED BY <1>2, <2>1, <2>2
<1> QED BY <1>3, <1>4, <1>5

LEMMA EditDoneInv == ASSUME PlayInv, NEW e \in edits, EditDone(e) PROVE PlayInv'
<1>1. /\ e.at \in Answers /\ edits' = edits \ {e} /\ Persist
      /\ UNCHANGED <<content, remote>>
    BY DEF EditDone, Answers
<1>2. /\ e \in EditRec /\ e.new \in Seq(Tracks) /\ e.list \in Known /\ e.gone \in Nat
      /\ e.kind = "remove" => e.new # <<>>
    BY <1>1 DEF PlayInv, PlayTypeOK, EditRec
<1>3. content[e.list] \in Seq(Tracks) BY <1>2 DEF PlayInv, PlayTypeOK, Known
<1>4. Known' = Known BY <1>1, KnownStays
<1>5. /\ edits' \in SUBSET EditRec
      /\ \A f \in edits' : /\ f.kind # "create" \/ f.at \in Answers => f.list \in Known'
                           /\ f.kind = "remove" => f.new # <<>>
                           /\ f.from \in (SUBSET Tracks) \cup Known'
    BY <1>1, <1>4 DEF PlayInv, PlayTypeOK
\* What is left once the edit of a list is shown.
<1>6. ASSUME e.kind # "create", UNCHANGED <<activePlaylistId, pendingIndex, loads, overtaken>>,
             tracks' \in Seq(Tracks), currentIndex' \in Nat, prevIndex' \in Nat \cup {Reset},
             ListEditFits(e) /\ PlayingFits =>
               (~partial' => tracks' = content[e.list]) /\ PlayingFits'
      PROVE  PlayInv'
  <2>1. timer'.id \in Known \cup {NoList} BY <1>1, <1>6, PersistIs DEF PlayInv, PlayTypeOK
  <2>2. PlayTypeOK' BY <1>1, <1>4, <1>5, <1>6, <2>1 DEF PlayInv, PlayTypeOK
  <2>3. ASSUME ~overtaken' PROVE PlayKept'
    <3>1. PlayKept /\ edits = {e} BY <1>6, <2>3 DEF PlayInv, PlayKept, OneEdit
    <3>2. ListEditFits(e) BY <1>6, <3>1 DEF PlayKept, EditsFit
    <3>3. OneEdit' /\ EditsFit' BY <1>1, <3>1 DEF OneEdit, EditsFit
    <3>4. LoadsFit' BY <1>6, <3>2 DEF LoadsFit, ListEditFits
    <3>5. PlayingFits BY <3>1 DEF PlayKept
    <3>6. ~partial' => tracks' = content'[activePlaylistId']
        BY <1>1, <1>6, <3>2, <3>5 DEF ListEditFits
    <3> QED BY <1>6, <3>2, <3>3, <3>4, <3>5, <3>6 DEF PlayKept, ShownFits
  <2> QED BY <2>2, <2>3 DEF PlayInv
<1>7. CASE e.kind = "remove"
  <2>1. PICK last, i : /\ last = IF currentIndex < Len(e.new) THEN currentIndex ELSE Len(e.new) - 1
                       /\ i = IF e.gone < currentIndex THEN currentIndex - 1
                              ELSE IF e.gone = currentIndex THEN last ELSE currentIndex
      OBVIOUS
  <2>2. /\ Show(e.new, i, Unsynced(e.gone), FALSE) /\ partial' = (e.at = "cut")
        /\ UNCHANGED <<activePlaylistId, pendingIndex, loads, overtaken>>
      BY <1>7, <2>1 DEF EditDone
  <2>3. /\ currentIndex \in Nat /\ i \in Nat /\ Unsynced(e.gone) \in Nat \cup {Reset}
        /\ tracks \in Seq(Tracks)
    <3>1. Len(e.new) \in Nat \ {0} BY <1>2, <1>7
    <3> QED BY <1>2, <2>1, <3>1 DEF PlayInv, PlayTypeOK, Unsynced
  <2>4. tracks' = e.new /\ currentIndex' = i /\ prevIndex' \in Nat \cup {Reset}
      BY <1>2, <2>2, <2>3, ShowIs
  <2>s. ASSUME ListEditFits(e), ~partial' PROVE tracks' = content[e.list]
      BY <1>1, <2>2, <2>4, <2>s DEF ListEditFits, Answers
  <2>5. ASSUME ListEditFits(e), PlayingFits, ~astray PROVE PlayingFits'
    <3>1. PICK ts, cur : ts = tracks /\ cur = currentIndex OBVIOUS
    <3>2. /\ ts # <<>> /\ e.gone < Len(ts) /\ e.new = RemoveAt(ts, e.gone + 1)
          /\ cur < Len(ts) /\ src = ts[cur + 1]
        BY <1>7, <2>5, <3>1 DEF ListEditFits, PlayingFits
    <3>3. 1 < Len(ts) /\ Len(ts) \in Nat /\ ts \in Seq(Tracks) /\ cur \in Nat
      <4>1. Len(e.new) = Len(ts) - 1 BY <1>2, <2>3, <3>1, <3>2, RemovedFrom
      <4>2. Len(e.new) \in Nat \ {0} BY <1>2, <1>7
      <4>3. ts \in Seq(Tracks) /\ Len(ts) \in Nat /\ cur \in Nat BY <2>3, <3>1
      <4>4. PICK n : n = Len(ts) OBVIOUS
      <4>5. n - 1 \in Nat \ {0} BY <4>1, <4>2, <4>4
      <4>6. n \in Nat BY <4>3, <4>4
      <4>7. 1 < n BY <4>5, <4>6
      <4> QED BY <4>3, <4>4, <4>7
    <3>4. i < Len(e.new) /\ (e.gone # cur => e.new[i + 1] = ts[cur + 1])
      <4>1. PICK g, new : g = e.gone /\ new = e.new OBVIOUS
      <4>2. /\ ts \in Seq(Tracks) /\ g \in Nat /\ g < Len(ts) /\ cur \in Nat /\ cur < Len(ts)
            /\ 1 < Len(ts) /\ new = RemoveAt(ts, g + 1)
          BY <1>2, <3>2, <3>3, <4>1
      <4>3. /\ last = IF cur < Len(new) THEN cur ELSE Len(new) - 1
            /\ i = IF g < cur THEN cur - 1 ELSE IF g = cur THEN last ELSE cur
          BY <2>1, <3>1, <4>1
      <4>4. i < Len(new) /\ (g # cur => new[i + 1] = ts[cur + 1]) BY <4>2, <4>3, TakenOut
      <4> QED BY <4>1, <4>4
    <3>5. Unsynced(e.gone) = i => src = e.new[i + 1]
      <4>1. e.gone = cur => Unsynced(e.gone) = Reset BY <3>1 DEF Unsynced
      <4>2. Reset # i BY <2>3 DEF Reset
      <4> QED BY <3>2, <3>4, <4>1, <4>2
    <3>6. src' = e.new[i + 1] BY <1>2, <2>2, <2>3, <3>4, <3>5, ShowIs
    <3> QED BY <2>4, <3>4, <3>6 DEF PlayingFits
  <2>6. ASSUME ListEditFits(e), PlayingFits, astray PROVE PlayingFits'
      BY <1>2, <2>2, <2>3, <2>4, <2>6, ShowIs DEF PlayingFits
  <2> QED BY <1>2, <1>6, <1>7, <2>2, <2>3, <2>4, <2>s, <2>5, <2>6
<1>8. CASE e.kind = "add"
  <2>1. PICK kept \in SomeOf(content[e.list]) :
          /\ Show(kept, currentIndex, prevIndex, kept # e.new)
          /\ partial' = (kept # content[e.list])
          /\ UNCHANGED <<activePlaylistId, pendingIndex, loads, overtaken>>
      BY <1>8 DEF EditDone
  <2>k. kept \in Seq(Tracks) BY <1>3, SomeOfIs
  <2>2. currentIndex \in Nat /\ prevIndex \in Nat \cup {Reset} /\ tracks \in Seq(Tracks)
      BY DEF PlayInv, PlayTypeOK
  <2>3. /\ tracks' = kept /\ currentIndex' = currentIndex
        /\ prevIndex' \in Nat \cup {Reset}
      BY <2>1, <2>2, <2>k, ShowIs
  <2>s. ~partial' => tracks' = content[e.list] BY <2>1, <2>3
  <2>4. ASSUME ListEditFits(e), PlayingFits, ~astray, kept = e.new PROVE PlayingFits'
    <3>1. ExtendsList(e.new, tracks) /\ tracks # <<>>
        BY <1>1, <1>8, <2>4 DEF ListEditFits
    <3>2. currentIndex < Len(tracks) /\ src = tracks[currentIndex + 1]
        BY <2>4, <3>1 DEF PlayingFits
    <3>3. currentIndex < Len(e.new) /\ e.new[currentIndex + 1] = tracks[currentIndex + 1]
        BY <1>2, <2>2, <3>1, <3>2 DEF ExtendsList
    <3>4. src' = e.new[currentIndex + 1]
        BY <1>2, <2>1, <2>2, <2>4, <3>1, <3>2, <3>3, ShowIs
    <3> QED BY <2>3, <2>4, <3>3, <3>4 DEF PlayingFits
  <2>5. ASSUME astray \/ kept # e.new PROVE PlayingFits'
      BY <2>1, <2>2, <2>3, <2>5, <2>k, ShowIs DEF PlayingFits
  <2> QED BY <1>6, <1>8, <2>1, <2>2, <2>3, <2>k, <2>s, <2>4, <2>5
<1>9. CASE e.kind = "create"
  <2>1. /\ pendingIndex' = 0 /\ prevIndex' = Reset /\ Opened(e.list)
        /\ overtaken' = (overtaken \/ edits # {e}) /\ UNCHANGED <<partial, astray>>
      BY <1>9 DEF EditDone, gaps
  <2>2. /\ activePlaylistId' \in Known \cup {NoList}
        /\ tracks' \in Seq(Tracks) /\ currentIndex' \in Nat
        /\ loads' \in SUBSET LoadRec /\ \A l \in loads' : l.list \in Known
      BY <1>2, <2>1, OpenedIs DEF PlayInv
  <2>3. timer'.id \in Known \cup {NoList} BY <1>1, <2>2, PersistIs DEF PlayInv
  <2>4. PlayTypeOK' BY <1>1, <1>4, <1>5, <2>1, <2>2, <2>3 DEF PlayInv, PlayTypeOK
  <2>5. ASSUME ~overtaken' PROVE PlayKept'
    <3>1. ~overtaken /\ edits = {e} BY <2>1, <2>5
    <3>2. edits' = {} /\ \A f \in edits : f.kind = "create" BY <1>1, <1>9, <3>1
    <3> QED BY <1>1, <1>2, <2>1, <3>1, <3>2, OpenedKeeps DEF PlayInv
  <2> QED BY <2>4, <2>5 DEF PlayInv
<1> QED BY <1>2, <1>7, <1>8, <1>9 DEF EditRec

LEMMA PlayInvInit == PlayInit => PlayInv
<1> SUFFICES ASSUME PlayInit PROVE PlayInv OBVIOUS
<1>1. PICK cache \in Known \cup {NoList} :
        /\ activePlaylistId = cache /\ timer = [armed |-> TRUE, id |-> cache]
        /\ loads = IF cache = NoList THEN {} ELSE {Load(cache)}
    BY DEF PlayInit
<1>2. /\ content \in [Lists -> Seq(Tracks) \cup {Absent}] /\ remote \in Known \cup {NoList}
      /\ pendingIndex \in Nat /\ tracks = <<>> /\ currentIndex = 0 /\ prevIndex = Reset
      /\ edits = {}
    BY PlaylistAssumption DEF PlayInit
<1>3. \A l \in loads : l \in LoadRec /\ l.list \in Known /\ l.list = activePlaylistId /\ l.at = "asked"
  <2>1. SUFFICES ASSUME NEW l \in loads
                 PROVE  l \in LoadRec /\ l.list \in Known /\ l.list = activePlaylistId /\ l.at = "asked"
      OBVIOUS
  <2>2. l = Load(cache) /\ cache \in Known /\ cache \in Lists BY <1>1 DEF Known
  <2> QED BY <1>1, <2>2 DEF Load, LoadRec
<1>4. PlayTypeOK BY <1>1, <1>2, <1>3 DEF PlayTypeOK
<1>5. PlayKept
    BY <1>2, <1>3 DEF PlayKept, OneEdit, EditsFit, LoadsFit, ShownFits, Shown, PlayingFits
<1> QED BY <1>4, <1>5 DEF PlayInv

LEMMA StepsThrough ==
  ASSUME PlayInv, NEW i \in 0..2, (Following(i) /\ playTrackAtIndex(i)) \/ jumpTo(i)
  PROVE  PlayInv'
<1>1. i \in Nat /\ playTrackAtIndex(i) BY DEF jumpTo
<1> QED BY <1>1, playTrackAtIndexInv

LEMMA prevTrackInv == ASSUME PlayInv, prevTrack PROVE PlayInv'
<1>1. currentIndex > 0 /\ playTrackAtIndex(currentIndex - 1) BY DEF prevTrack
<1>2. PICK i : i = currentIndex - 1 OBVIOUS
<1>3. i \in Nat /\ playTrackAtIndex(i) BY <1>1, <1>2 DEF PlayInv, PlayTypeOK
<1> QED BY <1>3, playTrackAtIndexInv

LEMMA SidebarInv == ASSUME PlayInv, SidebarDesktopPlayer PROVE PlayInv'
<1>1. CASE clearPlaylist BY <1>1, clearPlaylistInv
<1>2. CASE nextTrack BY <1>2, StepsThrough DEF nextTrack
<1>3. CASE prevTrack BY <1>3, prevTrackInv
<1>4. CASE toggleShuffle BY <1>4, toggleShuffleInv
<1>5. CASE \E i \in 0..2 : jumpTo(i) \/ removeTrack(i)
  <2>1. PICK i \in 0..2 : jumpTo(i) \/ removeTrack(i) BY <1>5
  <2>2. i \in Nat OBVIOUS
  <2> QED BY <2>1, <2>2, StepsThrough, removeTrackInv
<1> QED BY <1>1, <1>2, <1>3, <1>4, <1>5 DEF SidebarDesktopPlayer

LEMMA MenuInv == ASSUME PlayInv, PlaylistMenu PROVE PlayInv'
<1>1. CASE \E F \in SUBSET Tracks : handlePlaylistContextAction(F)
  <2>1. PICK F \in SUBSET Tracks : handlePlaylistContextAction(F) BY <1>1
  <2>2. CASE activePlaylistId = NoList
      BY <2>1, <2>2, createPlaylistInv DEF handlePlaylistContextAction, doCreateFolderPlaylist
  <2>3. CASE activePlaylistId # NoList
      BY <2>1, <2>3, ReadingInv DEF handlePlaylistContextAction
  <2> QED BY <2>2, <2>3
<1>2. CASE \E p \in Lists : handleAddToPlayerContextAction(p)
    BY <1>2, ReadingInv DEF handleAddToPlayerContextAction
<1>3. CASE \E t \in Tracks : handleAddToQueueContextAction(t)
  <2>1. PICK t \in Tracks : addTracks({t}) BY <1>3 DEF handleAddToQueueContextAction
  <2> QED BY <2>1, addTracksInv
<1>4. CASE handleCreatePlaylist BY <1>4, createPlaylistInv DEF handleCreatePlaylist
<1> QED BY <1>1, <1>2, <1>3, <1>4 DEF PlaylistMenu

LEMMA AddMusicInv == ASSUME PlayInv, AddMusicDialog PROVE PlayInv'
<1>1. PICK F \in SUBSET Tracks : handleAddMusic(F) BY DEF AddMusicDialog
<1>2. CASE activePlaylistId # NoList BY <1>1, <1>2, addTracksInv DEF handleAddMusic
<1>3. CASE activePlaylistId = NoList BY <1>1, <1>3, createPlaylistInv DEF handleAddMusic
<1> QED BY <1>2, <1>3

LEMMA PlayInvStep == PlayInv /\ [PlayNext]_playVars => PlayInv'
<1> SUFFICES ASSUME PlayInv, [PlayNext]_playVars PROVE PlayInv' OBVIOUS
<1>1. CASE UNCHANGED playVars
  <2>1. UNCHANGED <<content, remote, activePlaylistId, tracks, currentIndex, prevIndex, src,
                   partial, astray,  partial, astray, pendingIndex, loads, edits, timer, overtaken>>
      BY <1>1 DEF playVars
  <2>2. PlayTypeOK' BY <2>1, KnownStays DEF PlayInv, PlayTypeOK
  <2>3. PlayKept => PlayKept'
      BY <2>1 DEF PlayKept, OneEdit, EditsFit, ListEditFits, CreationFits, LoadsFit, ShownFits, Shown,
                  PlayingFits
  <2> QED BY <2>1, <2>2, <2>3 DEF PlayInv
<1>2. CASE SaveTimerFires BY <1>2, SaveTimerInv
<1>3. CASE RestoreMount BY <1>3, RestoreMountInv
<1>4. CASE onEnded BY <1>4, StepsThrough DEF onEnded
<1>5. CASE MediaSession BY <1>5, StepsThrough, prevTrackInv DEF MediaSession, nextTrack
<1>6. CASE \E l \in loads : ServeLoad(l) \/ TakeLoad(l) BY <1>6, ServeLoadInv, TakeLoadInv
<1>7. CASE \E p \in Lists : setPlaylist(p) BY <1>7, setPlaylistInv
<1>8. CASE SidebarDesktopPlayer \/ SidebarMobilePlayer
    BY <1>8, SidebarInv DEF SidebarMobilePlayer
<1>9. CASE AddMusicDialog BY <1>9, AddMusicInv
<1>10. CASE PlaylistMenu BY <1>10, MenuInv
<1>11. CASE \E e \in edits : LookedUp(e) \/ ServeEdit(e) \/ EditDone(e) \/ EditLost(e)
    BY <1>11, LookedUpInv, ServeEditInv, EditDoneInv, EditLostInv
<1> QED BY <1>1, <1>2, <1>3, <1>4, <1>5, <1>6, <1>7, <1>8, <1>9, <1>10, <1>11 DEF PlayNext

\* For any lists and tracks, once nothing is under way the tracks shown are those the
\* server holds and the track that plays is the one shown as current, unless an edit or
\* an answer has met another one on its way, or the server has left tracks out.
THEOREM PlayerShowsTheList == PlaySpec => []PlayerAgrees
<1>1. PlayInit => PlayInv BY PlayInvInit
<1>2. PlayInv /\ [PlayNext]_playVars => PlayInv' BY PlayInvStep
<1>3. PlayInv => PlayerAgrees
  <2>1. SUFFICES ASSUME PlayInv, AtRest PROVE PlayerAgrees
      BY DEF PlayerAgrees, ShownIsStored, PlaysCurrent
  <2>2. PlayKept /\ loads = {} /\ edits = {} /\ activePlaylistId # NoList
      BY <2>1 DEF PlayInv, AtRest
  <2>3. ~partial /\ tracks # <<>> => tracks = content[activePlaylistId]
      BY <2>2 DEF PlayKept, ShownFits, Shown
  <2>4. currentIndex < Len(tracks) => tracks # <<>>
      BY <2>1 DEF PlayInv, PlayTypeOK
  <2>5. ~astray /\ tracks # <<>> => src = tracks[currentIndex + 1] BY <2>2 DEF PlayKept, PlayingFits
  <2> QED BY <2>3, <2>4, <2>5 DEF PlayerAgrees, ShownIsStored, PlaysCurrent
<1> QED BY <1>1, <1>2, <1>3, PTL DEF PlaySpec

-----------------------------------------------------------------------------
(* UploadChoice: what filtering a list of requests leaves. *)

LEMMA LeastOf ==
  ASSUME NEW T \in SUBSET Nat, T # {}
  PROVE  \E x \in T : \A y \in T : x <= y
<1>1. PICK x \in T : \A y \in T : ~(<<y, x>> \in OpToRel(<, Nat))
    BY WFMin, NatLessThanWellFounded, Zenon
<1>2. ASSUME NEW y \in T PROVE x <= y
  <2>1. ~(<<y, x>> \in OpToRel(<, Nat)) BY <1>1
  <2>2. ~(y < x) BY <2>1 DEF OpToRel
  <2> QED BY <2>2
<1> QED BY <1>2

Filters(f, reqs, S, m) ==
  f = [n \in 0..m |->
         IF n = 0 THEN <<>>
         ELSE IF reqs[n] \in S THEN Append(f[n - 1], reqs[n]) ELSE f[n - 1]]

LEMMA FilterExists ==
  ASSUME NEW reqs, NEW S, NEW m \in Nat
  PROVE  \E f : Filters(f, reqs, S, m)
<1> DEFINE T == {k \in Nat : ~\E f : Filters(f, reqs, S, k)}
<1> SUFFICES ASSUME T # {} PROVE FALSE
    OBVIOUS
<1>1. PICK k \in T : \A j \in T : k <= j BY LeastOf
<1>2. k # 0
  <2>1. Filters([n \in 0..0 |-> <<>>], reqs, S, 0) BY DEF Filters
  <2> QED BY <1>1, <2>1
<1>3. k - 1 \in Nat /\ k - 1 \notin T BY <1>1, <1>2
<1>4. PICK g : Filters(g, reqs, S, k - 1) BY <1>3
<1>5. PICK last : last = IF reqs[k] \in S THEN Append(g[k - 1], reqs[k]) ELSE g[k - 1] OBVIOUS
<1>6. PICK f : f = [n \in 0..k |-> IF n = k THEN last ELSE g[n]] OBVIOUS
<1>7. ASSUME NEW n \in 0..k
      PROVE  f[n] = IF n = 0 THEN <<>>
                    ELSE IF reqs[n] \in S THEN Append(f[n - 1], reqs[n]) ELSE f[n - 1]
  <2>1. n # k => n \in 0..(k - 1) /\ f[n] = g[n] BY <1>3, <1>6
  <2>2. n # 0 => n - 1 \in 0..k /\ n - 1 # k /\ f[n - 1] = g[n - 1] BY <1>3, <1>6
  <2>3. CASE n = k BY <1>2, <1>5, <1>6, <2>2, <2>3
  <2>4. CASE n # k
    <3>1. g[n] = IF n = 0 THEN <<>>
                 ELSE IF reqs[n] \in S THEN Append(g[n - 1], reqs[n]) ELSE g[n - 1]
        BY <1>4, <2>1, <2>4 DEF Filters
    <3> QED BY <2>1, <2>2, <2>4, <3>1
  <2> QED BY <2>3, <2>4
<1>8. f = [n \in 0..k |-> f[n]] BY <1>6
<1>9. Filters(f, reqs, S, k) BY <1>7, <1>8 DEF Filters
<1> QED BY <1>1, <1>9

\* What is kept of a list are its requests that are in S.
LEMMA KeptAre ==
  ASSUME NEW R, NEW reqs \in Seq(R), NEW S
  PROVE  Kept(reqs, S) \in Seq(R) /\ ToSet(Kept(reqs, S)) = ToSet(reqs) \cap S
<1>1. PICK m \in Nat : m = Len(reqs) /\ DOMAIN reqs = 1..m /\ \A i \in 1..m : reqs[i] \in R
    OBVIOUS
<1>2. PICK f : Filters(f, reqs, S, m) /\ Kept(reqs, S) = f[m]
  <2> DEFINE g == CHOOSE f : Filters(f, reqs, S, m)
  <2>1. Filters(g, reqs, S, m) BY FilterExists
  <2>2. Kept(reqs, S) = g[m] BY <1>1 DEF Kept, Filters
  <2> QED BY <2>1, <2>2
<1> DEFINE Good(n) == f[n] \in Seq(R) /\ ToSet(f[n]) = {reqs[i] : i \in 1..n} \cap S
           T == {n \in 0..m : ~Good(n)}
<1>3. ASSUME T # {} PROVE FALSE
  <2>0. T \in SUBSET Nat OBVIOUS
  <2>1. PICK k \in T : \A j \in T : k <= j
    <3> HIDE DEF T
    <3> QED BY <1>3, <2>0, LeastOf
  <2>2. k \in 0..m /\ ~Good(k) BY <2>1
  <2>3. CASE k = 0
    <3>1. f[0] = <<>> BY <1>2 DEF Filters
    <3> QED BY <2>2, <2>3, <3>1 DEF ToSet
  <2>4. CASE k # 0
    <3>1. k - 1 \in 0..m /\ k - 1 \notin T /\ k \in 1..m BY <2>1, <2>2, <2>4
    <3>2. PICK a : a = f[k - 1] OBVIOUS
    <3>3. a \in Seq(R) /\ ToSet(a) = {reqs[i] : i \in 1..(k - 1)} \cap S BY <3>1, <3>2
    <3>4. f[k] = IF reqs[k] \in S THEN Append(a, reqs[k]) ELSE a
        BY <1>2, <2>2, <2>4, <3>2 DEF Filters
    <3>5. {reqs[i] : i \in 1..k} = {reqs[i] : i \in 1..(k - 1)} \cup {reqs[k]} BY <3>1
    <3>6. reqs[k] \in R BY <1>1, <3>1
    <3>7. CASE reqs[k] \in S
      <4>1. f[k] = Append(a, reqs[k]) BY <3>4, <3>7
      <4>2. PICK n \in Nat : n = Len(a) /\ DOMAIN a = 1..n BY <3>3
      <4>3. f[k] \in Seq(R) /\ DOMAIN f[k] = 1..(n + 1) /\ f[k][n + 1] = reqs[k]
            /\ \A i \in 1..n : f[k][i] = a[i]
          BY <3>3, <3>6, <4>1, <4>2
      <4>4. ToSet(f[k]) = ToSet(a) \cup {reqs[k]} BY <4>2, <4>3 DEF ToSet
      <4> QED BY <2>2, <3>3, <3>5, <3>7, <4>3, <4>4
    <3>8. CASE reqs[k] \notin S
      <4>1. f[k] = a BY <3>4, <3>8
      <4> QED BY <2>2, <3>3, <3>5, <3>8, <4>1
    <3> QED BY <3>7, <3>8
  <2> QED BY <2>3, <2>4
<1>4. Good(m)
  <2>1. T = {} BY <1>3
  <2>2. m \in 0..m OBVIOUS
  <2> QED BY <2>1, <2>2
<1>5. ToSet(reqs) = {reqs[i] : i \in 1..m} BY <1>1 DEF ToSet
<1> QED BY <1>2, <1>4, <1>5

-----------------------------------------------------------------------------
(* UploadChoice: every request on its way knows the folder its file was      *)
(* dropped on, has the name its user let it overwrite, and while batches do  *)
(* not overlap what is neither started nor refused is on its way.            *)

Entered == [state : {"queued", "error", "done"}, folder : Folders, req : Req]

ChoiceTypeOK ==
  /\ lookups \in SUBSET [reqs : Seq(Req), folder : Folders]
  /\ conflict \in [open : BOOLEAN, queue : Seq(Req), resolved : Seq(Req), all : BOOLEAN,
                   folder : Folders \cup {NoFile}]
  /\ dup \in [open : BOOLEAN, queue : Seq(Req), pending : Seq(Req), folder : Folders \cup {NoFile}]
  /\ entry \in [Files -> {NotStarted} \cup Entered]
  /\ dropped \in [Files -> Folders \cup {NoFile}]
  /\ ticked \subseteq Files

\* A request of a batch is for a file dropped where it goes, may overwrite only
\* if asked to, and has the name that was dropped.
Sound(r, d) == /\ d \in Folders /\ dropped[r.file] = TargetOf(r, d)
               /\ r.overwrite => <<r.file, NameOf[r.file]>> \in chosen
               /\ r.name = NameOf[r.file]

\* One handed to startUpload may have another name if it was found elsewhere.
Ready(r, d) == /\ d \in Folders /\ dropped[r.file] = TargetOf(r, d)
               /\ r.overwrite => <<r.file, NameOf[r.file]>> \in chosen
               /\ r.name = NameOf[r.file] \/ r.file \in elsewhere

RequestsSound ==
  /\ \A l \in lookups : \A r \in ToSet(l.reqs) : Sound(r, l.folder)
  /\ \A r \in ToSet(conflict.queue) \cup ToSet(conflict.resolved) : Sound(r, conflict.folder)
  /\ \A r \in ToSet(dup.queue) \cup ToSet(dup.pending) : Sound(r, dup.folder)
  /\ conflict.all => FilesOf(conflict.queue) \subseteq ticked
  /\ FilesOf(dup.queue) \subseteq elsewhere

EntriesSound ==
  \A f \in Files : entry[f].state # "none" =>
     /\ entry[f].folder \in Folders /\ entry[f].folder = dropped[f]
     /\ entry[f].req.overwrite => <<f, NameOf[f]>> \in chosen
     /\ entry[f].req.name = NameOf[f] \/ f \in elsewhere

ClosedIsEmpty == (conflict.open \/ conflict = ClosedConflict) /\ (dup.open \/ dup = ClosedDup)

OneBatch ==
  /\ \A l, m \in lookups : l = m
  /\ lookups # {} => ~conflict.open /\ ~dup.open
  /\ ~(conflict.open /\ dup.open)

OnTheWay == FilesOf(conflict.queue) \cup FilesOf(conflict.resolved)
            \cup FilesOf(dup.queue) \cup FilesOf(dup.pending)
            \cup UNION {FilesOf(l.reqs) : l \in lookups}

Accounted ==
  \A f \in Files : dropped[f] # NoFile /\ entry[f].state = "none" =>
     f \in refused \cup elsewhere \cup OnTheWay

ChoiceInv ==
  /\ ChoiceTypeOK /\ RequestsSound /\ EntriesSound /\ ClosedIsEmpty
  /\ ~overlapped => OneBatch /\ Accounted

\* What the two look-ups of a batch's requests make of it.
LEMMA PartsAre ==
  ASSUME NEW reqs \in Seq(Req), NEW hits, NEW folder, NEW p,
         p = partitionUploadRequests(reqs, hits, folder)
  PROVE  /\ p.conflicts \in Seq(Req) /\ p.globalDuplicates \in Seq(Req) /\ p.immediate \in Seq(Req)
         /\ ToSet(reqs) = ToSet(p.conflicts) \cup ToSet(p.globalDuplicates) \cup ToSet(p.immediate)
<1>1. PICK all : all = ToSet(reqs) OBVIOUS
<1>2. PICK C : C = {r \in all : SameFolderMatch(r, hits, folder) /\ ~r.overwrite} OBVIOUS
<1>3. PICK D : D = {r \in all \ C : OtherMatches(r, hits, folder) # {}} OBVIOUS
<1>4. p = [conflicts |-> Kept(reqs, C), globalDuplicates |-> Kept(reqs, D),
           immediate |-> Kept(reqs, all \ (C \cup D))]
    BY <1>1, <1>2, <1>3 DEF partitionUploadRequests
<1>5. /\ p.conflicts = Kept(reqs, C) /\ p.globalDuplicates = Kept(reqs, D)
      /\ p.immediate = Kept(reqs, all \ (C \cup D))
    BY <1>4
<1>6. /\ p.conflicts \in Seq(Req) /\ ToSet(p.conflicts) = all \cap C
      /\ p.globalDuplicates \in Seq(Req) /\ ToSet(p.globalDuplicates) = all \cap D
      /\ p.immediate \in Seq(Req) /\ ToSet(p.immediate) = all \cap (all \ (C \cup D))
    BY <1>1, <1>5, KeptAre
<1> QED BY <1>1, <1>2, <1>3, <1>6

LEMMA NothingOf == ToSet(<<>>) = {} /\ FilesOf(<<>>) = {}
BY DEF ToSet, FilesOf

\* Requests handed to startUpload are started and nothing else changes.
LEMMA Starts ==
  ASSUME ChoiceTypeOK, EntriesSound, NEW reqs \in Seq(Req), NEW d \in Folders,
         \A r \in ToSet(reqs) : Ready(r, d), entry' = startUpload(entry, reqs, d),
         UNCHANGED <<dropped, chosen>>, elsewhere \subseteq elsewhere'
  PROVE  /\ entry' \in [Files -> {NotStarted} \cup Entered] /\ EntriesSound'
         /\ \A f \in Files : entry'[f].state = "none" =>
              f \notin FilesOf(reqs) /\ entry[f].state = "none"
<1>1. ASSUME NEW f \in FilesOf(reqs)
      PROVE  /\ f \in Files /\ entry'[f] \in Entered
             /\ entry'[f].folder = TargetOf(entry'[f].req, d)
             /\ entry'[f].req \in ToSet(reqs) /\ entry'[f].req.file = f
  <2>1. PICK s \in ToSet(reqs) : s.file = f BY <1>1 DEF FilesOf
  <2>2. ToSet(reqs) \subseteq Req BY DEF ToSet
  <2>3. f \in Files BY <2>1, <2>2 DEF Req
  <2>4. PICK q : q = CHOOSE r \in ToSet(reqs) : r.file = f OBVIOUS
  <2>5. q \in ToSet(reqs) /\ q.file = f BY <2>1, <2>4
  <2>6. entry'[f] = [state |-> "queued", folder |-> TargetOf(q, d), req |-> q]
      BY <1>1, <2>3, <2>4 DEF startUpload
  <2>7. TargetOf(q, d) \in Folders BY <2>2, <2>5 DEF TargetOf, Req
  <2> QED BY <2>2, <2>3, <2>5, <2>6, <2>7 DEF Entered
<1>2. ASSUME NEW f \in Files, f \notin FilesOf(reqs) PROVE entry'[f] = entry[f]
    BY <1>2 DEF startUpload
<1>3. entry' = [f \in Files |-> entry'[f]] BY DEF startUpload
<1>4. entry' \in [Files -> {NotStarted} \cup Entered] BY <1>1, <1>2, <1>3 DEF ChoiceTypeOK
<1>5. ASSUME NEW f \in Files, entry'[f].state # "none"
      PROVE  /\ entry'[f].folder \in Folders /\ entry'[f].folder = dropped[f]
             /\ entry'[f].req.overwrite => <<f, NameOf[f]>> \in chosen
             /\ entry'[f].req.name = NameOf[f] \/ f \in elsewhere'
  <2>1. CASE f \in FilesOf(reqs)
    <3>1. PICK q : q = entry'[f].req /\ Ready(q, d) BY <1>1, <2>1
    <3>2. entry'[f].folder \in Folders BY <1>1, <2>1 DEF Entered
    <3> QED BY <1>1, <2>1, <3>1, <3>2 DEF Ready
  <2>2. CASE f \notin FilesOf(reqs) BY <1>2, <1>5, <2>2 DEF EntriesSound
  <2> QED BY <2>1, <2>2
<1>6. EntriesSound' BY <1>5 DEF EntriesSound
<1>7. ASSUME NEW f \in Files, entry'[f].state = "none"
      PROVE  f \notin FilesOf(reqs) /\ entry[f].state = "none"
  <2>1. f \notin FilesOf(reqs) BY <1>1, <1>7 DEF Entered
  <2> QED BY <1>2, <1>7, <2>1
<1> QED BY <1>4, <1>6, <1>7

LEMMA LookupInv == ASSUME ChoiceInv, NEW l \in lookups, LookupDone(l) PROVE ChoiceInv'
<1>1. PICK failed \in SUBSET {r.name : r \in ToSet(l.reqs)} :
        Partitioned(partitionUploadRequests(l.reqs, HitsOf(Names \ failed), l.folder), l.folder)
    BY DEF LookupDone
<1>2. PICK hits : hits = HitsOf(Names \ failed) OBVIOUS
<1>3. PICK p : p = partitionUploadRequests(l.reqs, hits, l.folder) OBVIOUS
<1>4. Partitioned(p, l.folder) BY <1>1, <1>2, <1>3
<1>5. l.reqs \in Seq(Req) /\ l.folder \in Folders
      /\ \A r \in ToSet(l.reqs) : Sound(r, l.folder)
    BY DEF ChoiceInv, ChoiceTypeOK, RequestsSound
<1>6. /\ p.conflicts \in Seq(Req) /\ p.globalDuplicates \in Seq(Req) /\ p.immediate \in Seq(Req)
      /\ ToSet(l.reqs) = ToSet(p.conflicts) \cup ToSet(p.globalDuplicates) \cup ToSet(p.immediate)
    BY <1>3, <1>5, PartsAre
<1>7. FilesOf(l.reqs) = FilesOf(p.conflicts) \cup FilesOf(p.globalDuplicates) \cup FilesOf(p.immediate)
    BY <1>6 DEF FilesOf
<1>8. /\ lookups' = lookups \ {l} /\ elsewhere' = elsewhere \cup FilesOf(p.globalDuplicates)
      /\ UNCHANGED <<dropped, refused, ticked, chosen, overlapped>>
    BY <1>4 DEF LookupDone, Partitioned
<1>9. ASSUME ~overlapped PROVE /\ lookups = {l} /\ ~conflict.open /\ ~dup.open
                               /\ conflict = ClosedConflict /\ dup = ClosedDup
    BY <1>9 DEF ChoiceInv, OneBatch, ClosedIsEmpty
<1>10. ASSUME ~overlapped PROVE OnTheWay = FilesOf(l.reqs)
    BY <1>9, <1>10, NothingOf DEF OnTheWay, ClosedConflict, ClosedDup
<1>11. \A r : \A d : Sound(r, d)' = Sound(r, d) BY <1>8 DEF Sound
<1>12. CASE p.conflicts # <<>> /\ OpenConflicts(p, l.folder) /\ UNCHANGED <<dup, entry>>
  <2>1. conflict' = [open |-> TRUE, queue |-> p.conflicts, resolved |-> p.immediate,
                     all |-> FALSE, folder |-> l.folder]
      BY <1>12 DEF OpenConflicts
  <2>2. ChoiceTypeOK' BY <1>5, <1>6, <1>8, <1>12, <2>1 DEF ChoiceInv, ChoiceTypeOK
  <2>3. RequestsSound'
      BY <1>5, <1>6, <1>8, <1>11, <1>12, <2>1 DEF ChoiceInv, RequestsSound
  <2>4. EntriesSound' BY <1>8, <1>12 DEF ChoiceInv, EntriesSound
  <2>5. ClosedIsEmpty' BY <1>12, <2>1 DEF ChoiceInv, ClosedIsEmpty
  <2>6. ASSUME ~overlapped PROVE OneBatch' /\ Accounted'
    <3>1. lookups' = {} /\ ~dup'.open BY <1>8, <1>9, <1>12, <2>6
    <3>2. OneBatch' BY <3>1 DEF OneBatch
    <3>3. FilesOf(l.reqs) \subseteq elsewhere' \cup OnTheWay'
        BY <1>7, <1>8, <2>1 DEF OnTheWay
    <3>4. Accounted' BY <1>8, <1>10, <1>12, <2>6, <3>3 DEF ChoiceInv, Accounted
    <3> QED BY <3>2, <3>4
  <2> QED BY <1>8, <2>2, <2>3, <2>4, <2>5, <2>6 DEF ChoiceInv
<1>13. CASE /\ p.conflicts = <<>> /\ UNCHANGED <<conflict, entry>>
            /\ dup' = [open |-> TRUE, queue |-> p.globalDuplicates, pending |-> p.immediate,
                       folder |-> l.folder]
  <2>1. ChoiceTypeOK' BY <1>5, <1>6, <1>8, <1>13 DEF ChoiceInv, ChoiceTypeOK
  <2>2. RequestsSound' BY <1>5, <1>6, <1>8, <1>11, <1>13 DEF ChoiceInv, RequestsSound
  <2>3. EntriesSound' BY <1>8, <1>13 DEF ChoiceInv, EntriesSound
  <2>4. ClosedIsEmpty' BY <1>13 DEF ChoiceInv, ClosedIsEmpty
  <2>5. ASSUME ~overlapped PROVE OneBatch' /\ Accounted'
    <3>1. lookups' = {} /\ ~conflict'.open BY <1>8, <1>9, <1>13, <2>5
    <3>2. OneBatch' BY <3>1 DEF OneBatch
    <3>3. FilesOf(p.conflicts) = {} BY <1>13, NothingOf
    <3>4. FilesOf(l.reqs) \subseteq OnTheWay' BY <1>7, <1>13, <3>3 DEF OnTheWay
    <3>5. Accounted' BY <1>8, <1>10, <1>13, <2>5, <3>4 DEF ChoiceInv, Accounted
    <3> QED BY <3>2, <3>5
  <2> QED BY <1>8, <2>1, <2>2, <2>3, <2>4, <2>5 DEF ChoiceInv
<1>14. CASE /\ p.conflicts = <<>> /\ p.globalDuplicates = <<>> /\ UNCHANGED <<conflict, dup>>
            /\ entry' = startUpload(entry, p.immediate, l.folder)
  <2>1. \A r \in ToSet(p.immediate) : Ready(r, l.folder) BY <1>5, <1>6 DEF Sound, Ready
  <2>2. /\ entry' \in [Files -> {NotStarted} \cup Entered] /\ EntriesSound'
        /\ \A f \in Files : entry'[f].state = "none" =>
             f \notin FilesOf(p.immediate) /\ entry[f].state = "none"
      BY <1>5, <1>6, <1>8, <1>14, <2>1, Starts DEF ChoiceInv
  <2>3. ChoiceTypeOK' BY <1>8, <1>14, <2>2 DEF ChoiceInv, ChoiceTypeOK
  <2>4. RequestsSound' BY <1>8, <1>11, <1>14 DEF ChoiceInv, RequestsSound
  <2>5. ClosedIsEmpty' BY <1>14 DEF ChoiceInv, ClosedIsEmpty
  <2>6. ASSUME ~overlapped PROVE OneBatch' /\ Accounted'
    <3>1. lookups' = {} BY <1>8, <1>9, <2>6
    <3>2. OneBatch' BY <1>9, <1>14, <2>6, <3>1 DEF OneBatch
    <3>3. FilesOf(l.reqs) = FilesOf(p.immediate) BY <1>7, <1>14, NothingOf
    <3>4. Accounted' BY <1>8, <1>10, <2>2, <2>6, <3>3 DEF ChoiceInv, Accounted
    <3> QED BY <3>2, <3>4
  <2> QED BY <1>8, <2>2, <2>3, <2>4, <2>5, <2>6 DEF ChoiceInv
<1> QED BY <1>4, <1>12, <1>13, <1>14 DEF Partitioned

\* A list of the dropped set has its files, each dropped now.
LEMMA ListOf ==
  ASSUME NEW S \in SUBSET Files
  PROVE  SetToSeq(S) \in Seq(S) /\ ToSet(SetToSeq(S)) \subseteq S
<1>1. IsFiniteSet(S) BY ChoiceAssumption, FS_Subset
<1>2. PICK n \in Nat : n = Cardinality(S) /\ ExistsBijection(1..n, S)
    BY <1>1, FS_CardinalityType
<1>3. PICK b \in Bijection(1..n, S) : TRUE BY <1>2 DEF ExistsBijection
<1>4. b \in [1..n -> S] /\ IsInjective(b)
    BY <1>3 DEF Bijection, Injection, Surjection, IsInjective
<1>5. SetToSeq(S) \in [1..n -> S] BY <1>2, <1>4 DEF SetToSeq
<1> QED BY <1>5 DEF ToSet

LEMMA BeginInv ==
  ASSUME ChoiceInv, NEW S \in SUBSET Files, NEW d \in Folders,
         NEW own \in [Files -> Folders \cup {NoFile}],
         beginUploadRequestsWithConflictCheck(SetToSeq(S), d, own)
  PROVE  ChoiceInv'
<1>1. PICK files : files = SetToSeq(S) OBVIOUS
<1>2. files \in Seq(S) /\ ToSet(files) \subseteq S BY <1>1, ListOf
<1>3. PICK n \in Nat : DOMAIN files = 1..n /\ \A i \in 1..n : files[i] \in S BY <1>2
<1>4. PICK reqs : reqs = [i \in DOMAIN files |->
                    [file |-> files[i], name |-> NameOf[files[i]], overwrite |-> FALSE,
                     target |-> own[files[i]]]]
    OBVIOUS
<1>5. PICK l : l = [reqs |-> reqs, folder |-> d] OBVIOUS
<1>6. /\ \A i \in DOMAIN files : dropped[files[i]] = NoFile
      /\ lookups' = lookups \cup {l}
      /\ dropped' = [f \in Files |-> IF f \notin ToSet(files) THEN dropped[f]
                                     ELSE IF own[f] = NoFile THEN d ELSE own[f]]
      /\ overlapped' = (overlapped \/ lookups # {} \/ conflict.open \/ dup.open)
      /\ UNCHANGED <<conflict, dup, entry, refused, ticked, chosen, elsewhere>>
    BY <1>1, <1>4, <1>5 DEF beginUploadRequestsWithConflictCheck
<1>7. \A i \in 1..n : /\ reqs[i] \in Req /\ reqs[i].file = files[i]
                       /\ reqs[i].overwrite = FALSE /\ reqs[i].target = own[files[i]]
                       /\ reqs[i].name = NameOf[files[i]]
    BY <1>3, <1>4, ChoiceAssumption DEF Req
<1>8. reqs \in Seq(Req) /\ DOMAIN reqs = 1..n BY <1>3, <1>4, <1>7
<1>9. FilesOf(reqs) = ToSet(files) BY <1>3, <1>7, <1>8 DEF FilesOf, ToSet
<1>10. ASSUME NEW f \in Files, dropped[f] # NoFile PROVE dropped'[f] = dropped[f]
    BY <1>6, <1>10 DEF ToSet
<1>11. ASSUME NEW r \in Req, NEW e, Sound(r, e) PROVE Sound(r, e)'
  <2>1. r.file \in Files /\ dropped[r.file] \in Folders
      BY <1>11 DEF Sound, Req, TargetOf
  <2>2. dropped'[r.file] = dropped[r.file] BY <1>10, <2>1, ChoiceAssumption
  <2> QED BY <1>6, <1>11, <2>2 DEF Sound
<1>12. ASSUME NEW r \in ToSet(reqs) PROVE Sound(r, d)'
  <2>1. PICK i \in 1..n : r = reqs[i] BY <1>8, <1>12 DEF ToSet
  <2>2. files[i] \in Files /\ files[i] \in ToSet(files) BY <1>3 DEF ToSet
  <2> QED BY <1>6, <1>7, <2>1, <2>2 DEF Sound, TargetOf
<1>13. ChoiceTypeOK'
  <2>1. l \in [reqs : Seq(Req), folder : Folders] BY <1>5, <1>8
  <2>2. dropped' \in [Files -> Folders \cup {NoFile}] BY <1>6 DEF ChoiceInv, ChoiceTypeOK
  <2> QED BY <1>6, <2>1, <2>2 DEF ChoiceInv, ChoiceTypeOK
<1>14. RequestsSound'
  <2>1. \A m \in lookups : ToSet(m.reqs) \subseteq Req
      BY DEF ChoiceInv, ChoiceTypeOK, ToSet
  <2>2. /\ ToSet(conflict.queue) \cup ToSet(conflict.resolved) \subseteq Req
        /\ ToSet(dup.queue) \cup ToSet(dup.pending) \subseteq Req
      BY DEF ChoiceInv, ChoiceTypeOK, ToSet
  <2>3. \A m \in lookups' : \A r \in ToSet(m.reqs) : Sound(r, m.folder)'
      BY <1>5, <1>6, <1>11, <1>12, <2>1 DEF ChoiceInv, RequestsSound
  <2>4. /\ \A r \in ToSet(conflict.queue) \cup ToSet(conflict.resolved) : Sound(r, conflict.folder)'
        /\ \A r \in ToSet(dup.queue) \cup ToSet(dup.pending) : Sound(r, dup.folder)'
      BY <1>6, <1>11, <2>2 DEF ChoiceInv, RequestsSound
  <2> QED BY <1>6, <2>3, <2>4 DEF ChoiceInv, RequestsSound
<1>15. EntriesSound'
    BY <1>6, <1>10, ChoiceAssumption DEF ChoiceInv, EntriesSound
<1>16. ClosedIsEmpty' BY <1>6 DEF ChoiceInv, ClosedIsEmpty
<1>17. ASSUME ~overlapped' PROVE OneBatch' /\ Accounted'
  <2>1. ~overlapped /\ lookups = {} /\ ~conflict.open /\ ~dup.open BY <1>6, <1>17
  <2>2. OneBatch' BY <1>6, <2>1 DEF OneBatch
  <2>3. OnTheWay \cup FilesOf(reqs) \subseteq OnTheWay' BY <1>5, <1>6 DEF OnTheWay
  <2>4. Accounted' BY <1>6, <1>9, <2>1, <2>3 DEF ChoiceInv, Accounted
  <2> QED BY <2>2, <2>4
<1> QED BY <1>13, <1>14, <1>15, <1>16, <1>17 DEF ChoiceInv

\* A step that leaves the requests on their way, the entries and the drops alone.
LEMMA ChoiceRestInv ==
  ASSUME ChoiceInv, UNCHANGED <<lookups, conflict, dup, dropped, refused, ticked, chosen,
                                elsewhere, overlapped>>,
         entry' \in [Files -> {NotStarted} \cup Entered],
         \A f \in Files : entry'[f].state = "none" <=> entry[f].state = "none",
         \A f \in Files : entry'[f].state # "none" => /\ entry'[f].folder = entry[f].folder
                                                      /\ entry'[f].req = entry[f].req
  PROVE  ChoiceInv'
<1>1. \A r : \A d : Sound(r, d)' = Sound(r, d) BY DEF Sound
<1>2. OnTheWay' = OnTheWay BY DEF OnTheWay
<1>3. ChoiceTypeOK' BY DEF ChoiceInv, ChoiceTypeOK
<1>4. RequestsSound' BY <1>1 DEF ChoiceInv, RequestsSound
<1>5. EntriesSound' BY DEF ChoiceInv, EntriesSound
<1>6. ClosedIsEmpty' BY DEF ChoiceInv, ClosedIsEmpty
<1>7. ~overlapped => OneBatch' /\ Accounted'
    BY <1>2 DEF ChoiceInv, OneBatch, Accounted
<1> QED BY <1>3, <1>4, <1>5, <1>6, <1>7 DEF ChoiceInv

LEMMA ArrivesInv == ASSUME ChoiceInv, NEW f \in Files, UploadArrives(f) PROVE ChoiceInv'
<1>1. PICK s \in {"error", "done"} : entry' = [entry EXCEPT ![f].state = s]
    BY DEF UploadArrives
<1>2. entry[f].state = "queued" /\ entry \in [Files -> {NotStarted} \cup Entered]
    BY DEF UploadArrives, ChoiceInv, ChoiceTypeOK
<1>3. entry[f] \in Entered BY <1>2 DEF NotStarted
<1>4. /\ entry'[f] \in Entered /\ entry'[f].state = s
      /\ entry'[f].folder = entry[f].folder /\ entry'[f].req = entry[f].req
    BY <1>1, <1>2, <1>3 DEF Entered
<1>5. \A g \in Files \ {f} : entry'[g] = entry[g] BY <1>1, <1>2
<1>6. entry' \in [Files -> {NotStarted} \cup Entered]
  <2>1. entry' = [g \in Files |-> entry'[g]] BY <1>1, <1>2
  <2> QED BY <1>2, <1>4, <1>5, <2>1
<1>7. \A g \in Files : entry'[g].state = "none" <=> entry[g].state = "none"
    BY <1>2, <1>4, <1>5
<1>8. \A g \in Files : entry'[g].folder = entry[g].folder /\ entry'[g].req = entry[g].req
    BY <1>4, <1>5
<1>9. UNCHANGED <<lookups, conflict, dup, dropped, refused, ticked, chosen, elsewhere, overlapped>>
    BY DEF UploadArrives, ghosts
<1> QED BY <1>6, <1>7, <1>8, <1>9, ChoiceRestInv

LEMMA ToggleInv == ASSUME ChoiceInv, ToggleApplyAll PROVE ChoiceInv'
<1>1. /\ conflict' = [conflict EXCEPT !.all = ~@]
      /\ ticked' = IF conflict.all THEN {} ELSE FilesOf(conflict.queue)
      /\ Len(conflict.queue) > 1
      /\ UNCHANGED <<lookups, dup, entry, dropped, refused, chosen, elsewhere, overlapped>>
    BY DEF ToggleApplyAll
<1>2. conflict \in [open : BOOLEAN, queue : Seq(Req), resolved : Seq(Req), all : BOOLEAN,
                    folder : Folders \cup {NoFile}]
    BY DEF ChoiceInv, ChoiceTypeOK
<1>3. /\ conflict'.open = conflict.open /\ conflict'.queue = conflict.queue
      /\ conflict'.resolved = conflict.resolved /\ conflict'.folder = conflict.folder
      /\ conflict'.all = ~conflict.all
    BY <1>1, <1>2
<1>4. conflict' \in [open : BOOLEAN, queue : Seq(Req), resolved : Seq(Req), all : BOOLEAN,
                     folder : Folders \cup {NoFile}]
    BY <1>1, <1>2
<1>5. FilesOf(conflict.queue) \subseteq Files
  <2>1. ToSet(conflict.queue) \subseteq Req BY <1>2 DEF ToSet
  <2> QED BY <2>1 DEF FilesOf, Req
<1>6. ChoiceTypeOK' BY <1>1, <1>4, <1>5 DEF ChoiceInv, ChoiceTypeOK
<1>7. \A r : \A d : Sound(r, d)' = Sound(r, d) BY <1>1 DEF Sound
<1>8. RequestsSound' BY <1>1, <1>3, <1>7 DEF ChoiceInv, RequestsSound
<1>9. EntriesSound' BY <1>1 DEF ChoiceInv, EntriesSound
<1>10. ClosedIsEmpty'
  <2>1. conflict.open BY <1>1 DEF ChoiceInv, ClosedIsEmpty, ClosedConflict
  <2> QED BY <1>1, <1>3, <2>1 DEF ChoiceInv, ClosedIsEmpty
<1>11. OnTheWay' = OnTheWay BY <1>1, <1>3 DEF OnTheWay
<1>12. ~overlapped => OneBatch' /\ Accounted'
    BY <1>1, <1>3, <1>11 DEF ChoiceInv, OneBatch, Accounted
<1> QED BY <1>1, <1>6, <1>8, <1>9, <1>10, <1>12 DEF ChoiceInv

\* What closing a dialog needs: the empty dialog is of its type and holds no request.
LEMMA ClosedAre ==
  /\ ClosedConflict \in [open : BOOLEAN, queue : Seq(Req), resolved : Seq(Req), all : BOOLEAN,
                         folder : Folders \cup {NoFile}]
  /\ ClosedDup \in [open : BOOLEAN, queue : Seq(Req), pending : Seq(Req),
                    folder : Folders \cup {NoFile}]
  /\ ClosedConflict.open = FALSE /\ ClosedConflict.queue = <<>> /\ ClosedConflict.resolved = <<>>
  /\ ClosedConflict.all = FALSE
  /\ ClosedDup.open = FALSE /\ ClosedDup.queue = <<>> /\ ClosedDup.pending = <<>>
<1>1. <<>> \in Seq(Req) OBVIOUS
<1> QED BY <1>1 DEF ClosedConflict, ClosedDup

LEMMA RefuseInv == ASSUME ChoiceInv, RefuseConflicts PROVE ChoiceInv'
<1>1. /\ refused' = refused \cup FilesOf(conflict.queue) \cup FilesOf(conflict.resolved)
      /\ conflict' = ClosedConflict
      /\ UNCHANGED <<lookups, dup, entry, dropped, ticked, chosen, elsewhere, overlapped>>
    BY DEF RefuseConflicts, closeUploadConflictDialog, ghosts
<1>2. ChoiceTypeOK' BY <1>1, ClosedAre DEF ChoiceInv, ChoiceTypeOK
<1>3. \A r : \A d : Sound(r, d)' = Sound(r, d) BY <1>1 DEF Sound
<1>4. RequestsSound' BY <1>1, <1>3, ClosedAre, NothingOf DEF ChoiceInv, RequestsSound
<1>5. EntriesSound' BY <1>1 DEF ChoiceInv, EntriesSound
<1>6. ClosedIsEmpty' BY <1>1 DEF ChoiceInv, ClosedIsEmpty
<1>7. ~overlapped => OneBatch' BY <1>1, ClosedAre DEF ChoiceInv, OneBatch
<1>8. refused \cup OnTheWay \subseteq refused' \cup OnTheWay' BY <1>1 DEF OnTheWay
<1>9. ~overlapped => Accounted' BY <1>1, <1>8 DEF ChoiceInv, Accounted
<1> QED BY <1>1, <1>2, <1>4, <1>5, <1>6, <1>7, <1>9 DEF ChoiceInv

LEMMA OverwritingAre ==
  ASSUME NEW reqs \in Seq(Req)
  PROVE  /\ Overwriting(reqs) \in Seq(Req) /\ FilesOf(Overwriting(reqs)) = FilesOf(reqs)
         /\ \A q \in ToSet(Overwriting(reqs)) :
              \E r \in ToSet(reqs) : q.file = r.file /\ q.name = r.name /\ q.target = r.target
<1>1. PICK n \in Nat : DOMAIN reqs = 1..n /\ \A i \in 1..n : reqs[i] \in Req OBVIOUS
<1>2. PICK over : over = Overwriting(reqs) OBVIOUS
<1>3. over = [i \in 1..n |-> [reqs[i] EXCEPT !.overwrite = TRUE]] BY <1>1, <1>2 DEF Overwriting
<1>4. ASSUME NEW i \in 1..n
      PROVE  /\ over[i] \in Req /\ over[i].file = reqs[i].file
             /\ over[i].name = reqs[i].name /\ over[i].target = reqs[i].target
    BY <1>1, <1>3 DEF Req
<1>5. over \in Seq(Req) /\ DOMAIN over = 1..n BY <1>3, <1>4
<1>6. ToSet(over) = {over[i] : i \in 1..n} /\ ToSet(reqs) = {reqs[i] : i \in 1..n}
    BY <1>1, <1>5 DEF ToSet
<1>7. FilesOf(over) = FilesOf(reqs) BY <1>4, <1>6 DEF FilesOf
<1>8. \A q \in ToSet(over) :
        \E r \in ToSet(reqs) : q.file = r.file /\ q.name = r.name /\ q.target = r.target
    BY <1>4, <1>6
<1> QED BY <1>2, <1>5, <1>7, <1>8

\* A list is its answered part and the rest.
LEMMA AnsweredAre ==
  ASSUME NEW queue \in Seq(Req), queue # <<>>, NEW all \in BOOLEAN, NEW answered, NEW rest,
         answered = IF all THEN queue ELSE <<Head(queue)>>,
         rest = IF all THEN <<>> ELSE Tail(queue)
  PROVE  /\ answered \in Seq(Req) /\ rest \in Seq(Req)
         /\ ToSet(queue) = ToSet(answered) \cup ToSet(rest)
         /\ ~all => ToSet(answered) = {Head(queue)}
<1>1. PICK n \in Nat : n = Len(queue) /\ DOMAIN queue = 1..n /\ \A i \in 1..n : queue[i] \in Req
    OBVIOUS
<1>2. n > 0 BY <1>1
<1>3. CASE all
  <2>1. answered = queue /\ rest = <<>> BY <1>3
  <2>2. <<>> \in Seq(Req) OBVIOUS
  <2> QED BY <1>3, <2>1, <2>2, NothingOf
<1>4. CASE ~all
  <2>1. answered = <<queue[1]>> /\ queue[1] \in Req BY <1>1, <1>2, <1>4
  <2>2. answered \in Seq(Req) /\ ToSet(answered) = {queue[1]} BY <2>1 DEF ToSet
  <2>3. rest \in Seq(Req) /\ DOMAIN rest = 1..(n - 1) /\ \A i \in 1..(n - 1) : rest[i] = queue[i + 1]
      BY <1>1, <1>2, <1>4
  <2>4. ASSUME NEW i \in 2..n PROVE i - 1 \in 1..(n - 1) /\ queue[i] = rest[i - 1]
      BY <1>1, <2>3
  <2>5. {queue[i] : i \in 2..n} \subseteq ToSet(rest)
    <3>1. ASSUME NEW i \in 2..n PROVE queue[i] \in ToSet(rest)
      <4>1. i - 1 \in DOMAIN rest /\ queue[i] = rest[i - 1] BY <2>3, <2>4
      <4> QED BY <4>1 DEF ToSet
    <3> QED BY <3>1
  <2>6. ToSet(rest) \subseteq ToSet(queue)
    <3>1. \A i \in 1..(n - 1) : i + 1 \in 1..n OBVIOUS
    <3> QED BY <1>1, <2>3, <3>1 DEF ToSet
  <2>7. ToSet(queue) = {queue[1]} \cup {queue[i] : i \in 2..n}
    <3>1. 1..n = {1} \cup 2..n BY <1>2
    <3> QED BY <1>1, <3>1 DEF ToSet
  <2> QED BY <1>4, <2>1, <2>2, <2>3, <2>5, <2>6, <2>7
<1> QED BY <1>3, <1>4

LEMMA JoinedAre ==
  ASSUME NEW R, NEW s \in Seq(R), NEW t \in Seq(R)
  PROVE  s \o t \in Seq(R) /\ ToSet(s \o t) = ToSet(s) \cup ToSet(t)
<1>1. PICK n \in Nat : n = Len(s) /\ DOMAIN s = 1..n OBVIOUS
<1>2. PICK m \in Nat : m = Len(t) /\ DOMAIN t = 1..m OBVIOUS
<1>3. PICK u : u = s \o t OBVIOUS
<1>4. /\ u \in Seq(R) /\ DOMAIN u = 1..(n + m)
      /\ \A i \in 1..n : u[i] = s[i]
      /\ \A i \in 1..m : n + i \in 1..(n + m) /\ u[n + i] = t[i]
    BY <1>1, <1>2, <1>3
<1>5. ASSUME NEW i \in 1..(n + m), i \notin 1..n PROVE i - n \in 1..m /\ u[i] = t[i - n]
    BY <1>4, <1>5
<1>6. ASSUME NEW i \in 1..(n + m) PROVE u[i] \in ToSet(s) \cup ToSet(t)
    BY <1>1, <1>2, <1>4, <1>5 DEF ToSet
<1>7. ASSUME NEW i \in 1..n PROVE s[i] \in ToSet(u)
  <2>1. i \in 1..(n + m) OBVIOUS
  <2> QED BY <1>4, <2>1 DEF ToSet
<1>8. ASSUME NEW i \in 1..m PROVE t[i] \in ToSet(u)
  <2>1. n + i \in 1..(n + m) OBVIOUS
  <2> QED BY <1>4, <2>1 DEF ToSet
<1>9. ToSet(u) = ToSet(s) \cup ToSet(t)
  <2>1. ToSet(u) = {u[i] : i \in 1..(n + m)} BY <1>4 DEF ToSet
  <2>2. ToSet(s) = {s[i] : i \in 1..n} /\ ToSet(t) = {t[i] : i \in 1..m} BY <1>1, <1>2 DEF ToSet
  <2> QED BY <1>6, <1>7, <1>8, <2>1, <2>2
<1> QED BY <1>3, <1>4, <1>9

LEMMA ResolveInv ==
  ASSUME ChoiceInv, conflict.open, conflict.queue # <<>>,
         NEW choice \in {"overwrite", "skip"}, resolveUploadConflict(choice)
  PROVE  ChoiceInv'
<1>1. PICK answered : answered = IF conflict.all THEN conflict.queue ELSE <<Head(conflict.queue)>>
    OBVIOUS
<1>2. PICK rest : rest = IF conflict.all THEN <<>> ELSE Tail(conflict.queue) OBVIOUS
<1>3. PICK resolved : resolved = IF choice = "overwrite"
                                 THEN conflict.resolved \o Overwriting(answered)
                                 ELSE conflict.resolved
    OBVIOUS
<1>4. /\ refused' = IF choice = "skip" THEN refused \cup FilesOf(answered) ELSE refused
      /\ chosen' = IF choice = "overwrite"
                     THEN chosen \cup {<<r.file, r.name>> : r \in
                            {Head(conflict.queue)} \cup
                            {q \in ToSet(conflict.queue) : conflict.all /\ q.file \in ticked}}
                     ELSE chosen
      /\ UNCHANGED <<dup, entry, dropped, ticked, elsewhere, overlapped>>
    BY <1>1 DEF resolveUploadConflict
<1>5. \/ /\ rest # <<>> /\ UNCHANGED lookups
         /\ conflict' = [conflict EXCEPT !.queue = rest, !.resolved = resolved]
      \/ /\ rest = <<>> /\ conflict' = ClosedConflict
         /\ lookups' = IF resolved = <<>> THEN lookups ELSE lookups \cup {Recheck(resolved)}
    BY <1>1, <1>2, <1>3 DEF resolveUploadConflict, closeUploadConflictDialog
<1>6. conflict \in [open : BOOLEAN, queue : Seq(Req), resolved : Seq(Req), all : BOOLEAN,
                    folder : Folders \cup {NoFile}]
    BY DEF ChoiceInv, ChoiceTypeOK
<1>7. /\ answered \in Seq(Req) /\ rest \in Seq(Req)
      /\ ToSet(conflict.queue) = ToSet(answered) \cup ToSet(rest)
      /\ ~conflict.all => ToSet(answered) = {Head(conflict.queue)}
    BY <1>1, <1>2, <1>6, AnsweredAre
<1>8. PICK d : d = conflict.folder OBVIOUS
<1>9. ASSUME NEW r \in ToSet(conflict.queue) \cup ToSet(conflict.resolved) PROVE Sound(r, d)
    BY <1>8 DEF ChoiceInv, RequestsSound
<1>10. chosen \subseteq chosen' BY <1>4
<1>11. ASSUME NEW r, NEW e, Sound(r, e) PROVE Sound(r, e)' BY <1>4, <1>10, <1>11 DEF Sound
<1>12. ASSUME choice = "overwrite"
       PROVE  \A r \in ToSet(answered) : <<r.file, r.name>> \in chosen'
  <2>1. CASE conflict.all
    <3>1. answered = conflict.queue BY <1>1, <2>1
    <3>2. FilesOf(conflict.queue) \subseteq ticked BY <2>1 DEF ChoiceInv, RequestsSound
    <3> QED BY <1>4, <1>12, <2>1, <3>1, <3>2 DEF FilesOf
  <2>2. CASE ~conflict.all BY <1>4, <1>7, <1>12, <2>2
  <2> QED BY <2>1, <2>2
<1>13. /\ resolved \in Seq(Req) /\ \A r \in ToSet(resolved) : Sound(r, d)'
       /\ FilesOf(conflict.resolved) \subseteq FilesOf(resolved)
       /\ FilesOf(answered) \subseteq refused' \cup FilesOf(resolved)
  <2>1. CASE choice = "overwrite"
    <3>1. PICK over : over = Overwriting(answered) OBVIOUS
    <3>2. /\ over \in Seq(Req) /\ FilesOf(over) = FilesOf(answered)
          /\ \A q \in ToSet(over) : \E r \in ToSet(answered) :
               q.file = r.file /\ q.name = r.name /\ q.target = r.target
        BY <1>7, <3>1, OverwritingAre
    <3>3. resolved = conflict.resolved \o over BY <1>3, <2>1, <3>1
    <3>4. conflict.resolved \in Seq(Req) BY <1>6
    <3>5. /\ resolved \in Seq(Req)
          /\ ToSet(resolved) = ToSet(conflict.resolved) \cup ToSet(over)
        BY <3>2, <3>3, <3>4, JoinedAre
    <3>6. ASSUME NEW q \in ToSet(over) PROVE Sound(q, d)'
      <4>1. PICK r \in ToSet(answered) :
              q.file = r.file /\ q.name = r.name /\ q.target = r.target
          BY <3>2
      <4>2. Sound(r, d) BY <1>7, <1>9
      <4> QED BY <1>4, <1>12, <2>1, <4>1, <4>2 DEF Sound, TargetOf
    <3>7. \A r \in ToSet(conflict.resolved) : Sound(r, d)' BY <1>9, <1>11
    <3> QED BY <3>2, <3>5, <3>6, <3>7 DEF FilesOf
  <2>2. CASE choice = "skip"
    <3>1. resolved = conflict.resolved BY <1>3, <2>2
    <3>2. \A r \in ToSet(resolved) : Sound(r, d)' BY <1>9, <1>11, <3>1
    <3> QED BY <1>4, <1>6, <2>2, <3>1, <3>2
  <2> QED BY <2>1, <2>2
<1>14. EntriesSound' BY <1>4, <1>10 DEF ChoiceInv, EntriesSound
<1>15. /\ \A r \in ToSet(dup.queue) \cup ToSet(dup.pending) : Sound(r, dup.folder)'
       /\ FilesOf(dup.queue) \subseteq elsewhere
    BY <1>4, <1>10 DEF ChoiceInv, RequestsSound, Sound
<1>16. \A l \in lookups : \A r \in ToSet(l.reqs) : Sound(r, l.folder)'
    BY <1>11 DEF ChoiceInv, RequestsSound
<1>17. FilesOf(conflict.queue) = FilesOf(answered) \cup FilesOf(rest) BY <1>7 DEF FilesOf
<1>18. CASE /\ rest # <<>> /\ UNCHANGED lookups
            /\ conflict' = [conflict EXCEPT !.queue = rest, !.resolved = resolved]
  <2>1. /\ conflict'.open = conflict.open /\ conflict'.queue = rest
        /\ conflict'.resolved = resolved /\ conflict'.folder = d /\ conflict'.all = conflict.all
      BY <1>6, <1>8, <1>18
  <2>2. conflict' \in [open : BOOLEAN, queue : Seq(Req), resolved : Seq(Req), all : BOOLEAN,
                       folder : Folders \cup {NoFile}]
      BY <1>6, <1>7, <1>13, <1>18
  <2>3. ChoiceTypeOK' BY <1>4, <1>10, <1>18, <2>2 DEF ChoiceInv, ChoiceTypeOK
  <2>4. ~conflict.all BY <1>2, <1>18
  <2>5. RequestsSound'
    <3>1. \A r \in ToSet(rest) : Sound(r, d)' BY <1>7, <1>9, <1>11
    <3> QED BY <1>4, <1>13, <1>15, <1>16, <1>18, <2>1, <2>4, <3>1 DEF RequestsSound
  <2>6. ClosedIsEmpty' BY <1>4, <2>1 DEF ChoiceInv, ClosedIsEmpty
  <2>7. refused \cup OnTheWay \subseteq refused' \cup OnTheWay'
      BY <1>4, <1>13, <1>17, <1>18, <2>1 DEF OnTheWay
  <2>8. ~overlapped => OneBatch' /\ Accounted'
      BY <1>4, <1>18, <2>1, <2>7 DEF ChoiceInv, OneBatch, Accounted
  <2> QED BY <1>4, <1>14, <2>3, <2>5, <2>6, <2>8 DEF ChoiceInv
<1>19. CASE /\ rest = <<>> /\ conflict' = ClosedConflict
            /\ lookups' = IF resolved = <<>> THEN lookups ELSE lookups \cup {Recheck(resolved)}
  <2>1. PICK l : l = [reqs |-> resolved, folder |-> d] OBVIOUS
  <2>2. lookups' = IF resolved = <<>> THEN lookups ELSE lookups \cup {l}
      BY <1>8, <1>19, <2>1 DEF Recheck
  <2>3. d \in Folders
    <3>1. Head(conflict.queue) \in ToSet(conflict.queue) BY <1>6 DEF ToSet
    <3> QED BY <1>9, <3>1 DEF Sound
  <2>4. lookups' \in SUBSET [reqs : Seq(Req), folder : Folders]
      BY <1>13, <2>1, <2>2, <2>3 DEF ChoiceInv, ChoiceTypeOK
  <2>5. ChoiceTypeOK' BY <1>4, <1>10, <1>19, <2>4, ClosedAre DEF ChoiceInv, ChoiceTypeOK
  <2>6. RequestsSound'
    <3>1. \A m \in lookups' : \A r \in ToSet(m.reqs) : Sound(r, m.folder)'
        BY <1>13, <1>16, <2>1, <2>2
    <3> QED BY <1>4, <1>15, <1>19, <3>1, ClosedAre, NothingOf DEF RequestsSound
  <2>7. ClosedIsEmpty' BY <1>4, <1>19 DEF ChoiceInv, ClosedIsEmpty
  <2>8. FilesOf(resolved) \subseteq UNION {FilesOf(m.reqs) : m \in lookups'}
      BY <2>1, <2>2, NothingOf
  <2>9. FilesOf(rest) = {} BY <1>19, NothingOf
  <2>10. UNION {FilesOf(m.reqs) : m \in lookups} \subseteq UNION {FilesOf(m.reqs) : m \in lookups'}
      BY <2>2
  <2>11. refused \cup OnTheWay \subseteq refused' \cup OnTheWay'
      BY <1>4, <1>13, <1>17, <2>8, <2>9, <2>10 DEF OnTheWay
  <2>12. ASSUME ~overlapped PROVE OneBatch' /\ Accounted'
    <3>1. lookups = {} /\ ~dup.open BY <2>12 DEF ChoiceInv, OneBatch
    <3>2. OneBatch' BY <1>4, <1>19, <2>2, <3>1, ClosedAre DEF OneBatch
    <3>3. Accounted' BY <1>4, <2>11, <2>12 DEF ChoiceInv, Accounted
    <3> QED BY <3>2, <3>3
  <2> QED BY <1>4, <1>14, <2>5, <2>6, <2>7, <2>12 DEF ChoiceInv
<1> QED BY <1>5, <1>18, <1>19

\* The dialog for namesakes elsewhere closes: some of its requests start, the others are refused.
LEMMA DupClosesInv ==
  ASSUME ChoiceInv, dup.open, NEW reqs \in Seq(Req), NEW d, d = dup.folder,
         \A r \in ToSet(reqs) : Ready(r, d),
         entry' = startUpload(entry, reqs, d) \/ (UNCHANGED entry /\ reqs = <<>>),
         dup' = ClosedDup, UNCHANGED <<lookups, conflict, ghosts>>,
         refused \subseteq refused',
         FilesOf(dup.queue) \cup FilesOf(dup.pending) \subseteq refused' \cup FilesOf(reqs)
  PROVE  ChoiceInv'
<1>1. UNCHANGED <<dropped, ticked, chosen, elsewhere, overlapped>> BY DEF ghosts
<1>2. /\ entry' \in [Files -> {NotStarted} \cup Entered] /\ EntriesSound'
      /\ \A f \in Files : entry'[f].state = "none" =>
           f \notin FilesOf(reqs) /\ entry[f].state = "none"
  <2>1. CASE reqs = <<>> /\ UNCHANGED entry
      BY <1>1, <2>1, NothingOf DEF ChoiceInv, ChoiceTypeOK, EntriesSound
  <2>2. CASE reqs = <<>> /\ entry' = startUpload(entry, reqs, d)
    <3>1. FilesOf(reqs) = {} BY <2>2, NothingOf
    <3>2. entry' = [f \in Files |-> entry[f]] BY <2>2, <3>1 DEF startUpload
    <3> QED BY <1>1, <3>1, <3>2 DEF ChoiceInv, ChoiceTypeOK, EntriesSound
  <2>3. CASE reqs # <<>> /\ entry' = startUpload(entry, reqs, d)
    <3>1. reqs[1] \in ToSet(reqs) BY <2>3 DEF ToSet
    <3>2. d \in Folders BY <3>1 DEF Ready
    <3> QED BY <1>1, <2>3, <3>2, Starts DEF ChoiceInv
  <2> QED BY <2>1, <2>2, <2>3
<1>3. \A r : \A e : Sound(r, e)' = Sound(r, e) BY <1>1 DEF Sound
<1>4. ChoiceTypeOK' BY <1>1, <1>2, ClosedAre DEF ChoiceInv, ChoiceTypeOK
<1>5. RequestsSound' BY <1>1, <1>3, ClosedAre, NothingOf DEF ChoiceInv, RequestsSound
<1>6. ClosedIsEmpty' BY DEF ChoiceInv, ClosedIsEmpty
<1>7. ~overlapped => OneBatch' BY ClosedAre DEF ChoiceInv, OneBatch
<1>8. refused \cup OnTheWay \subseteq refused' \cup OnTheWay' \cup FilesOf(reqs) BY DEF OnTheWay
<1>9. ~overlapped => Accounted' BY <1>1, <1>2, <1>8 DEF ChoiceInv, Accounted
<1> QED BY <1>1, <1>2, <1>4, <1>5, <1>6, <1>7, <1>9 DEF ChoiceInv

LEMMA DuplicatesInv == ASSUME ChoiceInv, UploadGlobalDuplicateDialog PROVE ChoiceInv'
<1>1. dup.open BY DEF UploadGlobalDuplicateDialog
<1>2. dup \in [open : BOOLEAN, queue : Seq(Req), pending : Seq(Req), folder : Folders \cup {NoFile}]
    BY DEF ChoiceInv, ChoiceTypeOK
<1>3. PICK queue, later, d : queue = dup.queue /\ later = dup.pending /\ d = dup.folder
    OBVIOUS
<1>4. queue \in Seq(Req) /\ later \in Seq(Req) BY <1>2, <1>3
<1>5. /\ \A r \in ToSet(queue) \cup ToSet(later) : Ready(r, d)
      /\ \A r \in ToSet(queue) : r.file \in elsewhere
    BY <1>3 DEF ChoiceInv, RequestsSound, Sound, Ready, FilesOf
<1>6. CASE confirmUploadDuplicate
  <2>1. PICK rename \in [DOMAIN dup.queue -> Names] :
          entry' = startUpload(entry,
                     dup.pending \o [i \in DOMAIN dup.queue |->
                                       [dup.queue[i] EXCEPT !.name = rename[i]]], dup.folder)
      BY <1>6 DEF confirmUploadDuplicate
  <2>2. PICK renamed : renamed = [i \in DOMAIN queue |-> [queue[i] EXCEPT !.name = rename[i]]]
      OBVIOUS
  <2>3. PICK n \in Nat : DOMAIN queue = 1..n /\ \A i \in 1..n : queue[i] \in Req BY <1>4
  <2>4. ASSUME NEW i \in 1..n
        PROVE  /\ renamed[i] \in Req /\ renamed[i].file = queue[i].file
               /\ renamed[i].overwrite = queue[i].overwrite
               /\ renamed[i].target = queue[i].target
      BY <1>3, <2>1, <2>2, <2>3 DEF Req
  <2>5. renamed \in Seq(Req) /\ DOMAIN renamed = 1..n BY <2>2, <2>3, <2>4
  <2>6. ToSet(renamed) = {renamed[i] : i \in 1..n} /\ ToSet(queue) = {queue[i] : i \in 1..n}
      BY <2>3, <2>5 DEF ToSet
  <2>7. FilesOf(renamed) = FilesOf(queue) BY <2>4, <2>6 DEF FilesOf
  <2>8. PICK reqs : reqs = later \o renamed OBVIOUS
  <2>9. reqs \in Seq(Req) /\ ToSet(reqs) = ToSet(later) \cup ToSet(renamed)
      BY <1>4, <2>5, <2>8, JoinedAre
  <2>10. \A r \in ToSet(renamed) : Ready(r, d) BY <1>5, <2>4, <2>6 DEF Ready, TargetOf
  <2>11. \A r \in ToSet(reqs) : Ready(r, d) BY <1>5, <2>9, <2>10
  <2>12. entry' = startUpload(entry, reqs, d) BY <1>3, <2>1, <2>2, <2>8
  <2>13. FilesOf(reqs) = FilesOf(later) \cup FilesOf(queue) BY <2>7, <2>9 DEF FilesOf
  <2>14. dup' = ClosedDup /\ UNCHANGED <<lookups, conflict, ghosts>> /\ refused' = refused
      BY <1>6 DEF confirmUploadDuplicate
  <2>15. /\ refused \subseteq refused'
         /\ FilesOf(dup.queue) \cup FilesOf(dup.pending) \subseteq refused' \cup FilesOf(reqs)
      BY <1>3, <2>13, <2>14
  <2> QED BY <1>1, <1>3, <2>9, <2>11, <2>12, <2>14, <2>15, DupClosesInv
<1>7. CASE skipUploadDuplicates
  <2>1. /\ entry' = startUpload(entry, later, d) /\ refused' = refused \cup FilesOf(queue)
        /\ dup' = ClosedDup /\ UNCHANGED <<lookups, conflict, ghosts>>
      BY <1>3, <1>7 DEF skipUploadDuplicates
  <2>2. /\ refused \subseteq refused'
         /\ FilesOf(dup.queue) \cup FilesOf(dup.pending) \subseteq refused' \cup FilesOf(later)
      BY <1>3, <2>1
  <2>3. \A r \in ToSet(later) : Ready(r, d) BY <1>5
  <2> QED BY <1>1, <1>3, <1>4, <2>1, <2>2, <2>3, DupClosesInv
<1>8. CASE closeUploadDuplicateDialog
  <2>1. /\ UNCHANGED entry /\ refused' = refused \cup FilesOf(queue) \cup FilesOf(later)
        /\ dup' = ClosedDup /\ UNCHANGED <<lookups, conflict, ghosts>>
      BY <1>3, <1>8 DEF closeUploadDuplicateDialog
  <2>2. PICK none \in Seq(Req) : none = <<>>
    <3>1. <<>> \in Seq(Req) OBVIOUS
    <3> QED BY <3>1
  <2>3. \A r \in ToSet(none) : Ready(r, d) BY <2>2, NothingOf
  <2>4. /\ refused \subseteq refused'
         /\ FilesOf(dup.queue) \cup FilesOf(dup.pending) \subseteq refused' \cup FilesOf(none)
      BY <1>3, <2>1
  <2> QED BY <1>1, <1>3, <2>1, <2>2, <2>3, <2>4, DupClosesInv
<1> QED BY <1>6, <1>7, <1>8 DEF UploadGlobalDuplicateDialog

\* Whatever users drop, walk to and answer, every file goes to the folder it was dropped on,
\* replaces one of its name only by its user's choice, or one of the name it was given after
\* that choice, and while batches do not overlap is left out
\* only if refused or a namesake elsewhere (useUploadDuplicateWorkflow).
THEOREM DropsGoAsChosen == ChoiceSpec => []ChoicesKept
<1>1. ChoiceInit => ChoiceInv
  <2> SUFFICES ASSUME ChoiceInit PROVE ChoiceInv
      OBVIOUS
  <2>1. /\ lookups = {} /\ conflict = ClosedConflict /\ dup = ClosedDup
        /\ entry = [f \in Files |-> NotStarted] /\ dropped = [f \in Files |-> NoFile]
        /\ ticked = {} /\ chosen = {}
      BY DEF ChoiceInit
  <2>2. ChoiceTypeOK BY <2>1, ClosedAre DEF ChoiceTypeOK
  <2>3. RequestsSound BY <2>1, ClosedAre, NothingOf DEF RequestsSound
  <2>4. EntriesSound BY <2>1 DEF EntriesSound, NotStarted
  <2>5. ClosedIsEmpty BY <2>1 DEF ClosedIsEmpty
  <2>6. OneBatch BY <2>1, ClosedAre DEF OneBatch
  <2>7. Accounted BY <2>1 DEF Accounted
  <2> QED BY <2>2, <2>3, <2>4, <2>5, <2>6, <2>7 DEF ChoiceInv
<1>2. ChoiceInv /\ [ChoiceNext]_choiceVars => ChoiceInv'
  <2> SUFFICES ASSUME ChoiceInv, [ChoiceNext]_choiceVars PROVE ChoiceInv'
      OBVIOUS
  <2>1. ASSUME UNCHANGED <<lookups, conflict, dup, entry, dropped, refused, ticked, chosen,
                           elsewhere, overlapped>>
        PROVE  ChoiceInv'
    <3>1. entry' \in [Files -> {NotStarted} \cup Entered] BY <2>1 DEF ChoiceInv, ChoiceTypeOK
    <3> QED BY <2>1, <3>1, ChoiceRestInv
  <2>2. CASE UNCHANGED choiceVars BY <2>1, <2>2 DEF choiceVars
  <2>3. CASE ChoiceFilesPage
    <3>1. ASSUME NEW S \in SUBSET Files, NEW d \in Folders,
                 NEW own \in {[f \in Files |-> NoFile]} \cup [Files -> Folders],
                 beginUploadRequestsWithConflictCheck(SetToSeq(S), d, own)
          PROVE  ChoiceInv'
      <4>1. own \in [Files -> Folders \cup {NoFile}] OBVIOUS
      <4> QED BY <3>1, <4>1, BeginInv
    <3>2. ASSUME NEW d \in Folders, OpenFolder(d) PROVE ChoiceInv'
        BY <2>1, <3>2 DEF OpenFolder, ghosts
    <3> QED BY <2>3, <3>1, <3>2 DEF ChoiceFilesPage
  <2>4. ASSUME NEW l \in lookups, LookupDone(l) PROVE ChoiceInv' BY <2>4, LookupInv
  <2>5. CASE UploadConflictDialog
      BY <2>5, ToggleInv, RefuseInv, ResolveInv DEF UploadConflictDialog
  <2>6. CASE UploadGlobalDuplicateDialog BY <2>6, DuplicatesInv
  <2>7. ASSUME NEW f \in Files, UploadArrives(f) PROVE ChoiceInv' BY <2>7, ArrivesInv
  <2>8. ASSUME NEW d \in Folders, NEW n \in Names, OtherClient(d, n) PROVE ChoiceInv'
      BY <2>1, <2>8 DEF OtherClient, ghosts
  <2> QED BY <2>2, <2>3, <2>4, <2>5, <2>6, <2>7, <2>8 DEF ChoiceNext
<1>3. ChoiceInv => ChoicesKept
  <2> SUFFICES ASSUME ChoiceInv PROVE ChoicesKept
      OBVIOUS
  <2>1. OverwriteWasChosen /\ LandsWhereDropped
      BY DEF ChoiceInv, EntriesSound, OverwriteWasChosen, MayReplace, LandsWhereDropped
  <2>2. OnlyNamesakesForgotten
      BY DEF ChoiceInv, Accounted, OnTheWay, OnlyNamesakesForgotten, Forgotten
  <2> QED BY <2>1, <2>2 DEF ChoicesKept
<1> QED BY <1>1, <1>2, <1>3, PTL DEF ChoiceSpec
=============================================================================
