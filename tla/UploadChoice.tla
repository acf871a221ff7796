--------------------------- MODULE UploadChoice ---------------------------
(***************************************************************************)
(* What happens to a file between the user's drop and the start of its     *)
(* upload: the look-up of its name (files/duplicates), the conflict dialog *)
(* and the "exists elsewhere" dialog (useUploadDuplicateWorkflow), and the *)
(* server's own name check when the upload arrives.  Look-ups are          *)
(* asynchronous: the user may walk to another folder or drop a second      *)
(* batch before the first is answered, and other clients may take names.   *)
(* The files of a dropped tree each bring the folder made for them.         *)
(***************************************************************************)
EXTENDS Naturals, FiniteSets, SequencesExt

CONSTANTS Files,        \* files the user may drop
          Folders,      \* folders of the drive
          Names,        \* file names
          NameOf,       \* the name each dropped file has
          NoFile,       \* an unused name in a folder
          Foreign,      \* content that came from elsewhere
          MaxBatches    \* bound: batches the user drops

ASSUME ChoiceAssumption == /\ IsFiniteSet(Files) /\ NameOf \in [Files -> Names]
                           /\ NoFile \notin Files \cup Folders /\ Foreign \notin Files \cup {NoFile}
                           /\ MaxBatches \in Nat

VARIABLES store,      \* what each name of each folder holds on the server
          shownFolder,   \* the folder the page shows
          lookups,    \* batches whose names are being looked up
          conflict,   \* the conflict dialog's state
          dup,        \* the duplicate dialog's state
          entry,      \* what startUpload was given for a file, and how it ended
          batches,    \* batches dropped so far
          dropped,    \* ghost: the folder each file was dropped on, or its tree made
          refused,    \* ghost: files the user said no to
          ticked,     \* ghost: files shown when "apply to all" was ticked
          chosen,     \* ghost: the names the user let each file overwrite
          elsewhere,  \* ghost: files found to have a namesake elsewhere
          overlapped  \* ghost: a batch was dropped while another was undecided

choiceVars == <<store, shownFolder, lookups, conflict, dup, entry, batches,
                dropped, refused, ticked, chosen, elsewhere, overlapped>>
ghosts == <<dropped, ticked, chosen, elsewhere, overlapped>>

\* A request; target is NoFile where the batch's own folder is meant.
Req == [file : Files, name : Names, overwrite : BOOLEAN, target : Folders \cup {NoFile}]
TargetOf(r, folder) == IF r.target = NoFile THEN folder ELSE r.target
FilesOf(reqs) == {r.file : r \in ToSet(reqs)}

ClosedConflict == [open |-> FALSE, queue |-> <<>>, resolved |-> <<>>, all |-> FALSE,
                   folder |-> NoFile]
ClosedDup == [open |-> FALSE, queue |-> <<>>, pending |-> <<>>, folder |-> NoFile]
NotStarted == [state |-> "none"]

ChoiceInit ==
  /\ store \in [Folders -> [Names -> {NoFile, Foreign}]]
  /\ shownFolder \in Folders
  /\ lookups = {} /\ conflict = ClosedConflict /\ dup = ClosedDup
  /\ entry = [f \in Files |-> NotStarted] /\ batches = 0
  /\ dropped = [f \in Files |-> NoFile]
  /\ refused = {} /\ ticked = {} /\ chosen = {} /\ elsewhere = {} /\ overlapped = FALSE

---------------------------------------------------------------------------
SameFolderMatch(r, hits, folder) == TargetOf(r, folder) \in hits[r.name]
OtherMatches(r, hits, folder) == hits[r.name] \ {TargetOf(r, folder)}

\* The requests of a list that are in S, in their order.
Kept(reqs, S) ==
  LET kept[n \in 0..Len(reqs)] ==
        IF n = 0 THEN <<>>
        ELSE IF reqs[n] \in S THEN Append(kept[n - 1], reqs[n]) ELSE kept[n - 1]
  IN kept[Len(reqs)]

\* A request with a namesake in its folder waits for the user unless it may
\* overwrite; one with a namesake in another folder is asked about; the rest go.
partitionUploadRequests(reqs, hits, folder) ==
  LET all == ToSet(reqs)
      conflicting == {r \in all : SameFolderMatch(r, hits, folder) /\ ~r.overwrite}
      duplicate == {r \in all \ conflicting : OtherMatches(r, hits, folder) # {}}
  IN [conflicts        |-> Kept(reqs, conflicting),
      globalDuplicates |-> Kept(reqs, duplicate),
      immediate        |-> Kept(reqs, all \ (conflicting \cup duplicate))]

\* The folders in which each looked-up name is in use; a look-up that fails is
\* taken for one without hits.
HitsOf(names) == [n \in Names |-> IF n \in names THEN {d \in Folders : store[d][n] # NoFile}
                                  ELSE {}]

startUpload(e, reqs, folder) ==
  [f \in Files |->
     IF f \in FilesOf(reqs)
       THEN LET r == CHOOSE q \in ToSet(reqs) : q.file = f
            IN [state |-> "queued", folder |-> TargetOf(r, folder), req |-> r]
       ELSE e[f]]

\* A mutant: the dialog opens with "apply to all" ticked.
OpenConflictsTicked(p, folder) ==
  conflict' = [open |-> TRUE, queue |-> p.conflicts, resolved |-> p.immediate,
               all |-> TRUE, folder |-> folder]

OpenConflicts(p, folder) ==
  conflict' = [open |-> TRUE, queue |-> p.conflicts, resolved |-> p.immediate,
               all |-> FALSE, folder |-> folder]

\* The answer to a look-up, whose continuation both entry points share.
Partitioned(p, folder) ==
  /\ elsewhere' = elsewhere \cup FilesOf(p.globalDuplicates)
  /\ \/ /\ p.conflicts # <<>>
        /\ OpenConflicts(p, folder)
        /\ UNCHANGED <<dup, entry>>
     \/ /\ p.conflicts = <<>> /\ p.globalDuplicates # <<>>
        /\ dup' = [open |-> TRUE, queue |-> p.globalDuplicates, pending |-> p.immediate,
                   folder |-> folder]
        /\ UNCHANGED <<conflict, entry>>
     \/ /\ p.conflicts = <<>> /\ p.globalDuplicates = <<>>
        /\ entry' = startUpload(entry, p.immediate, folder)
        /\ UNCHANGED <<conflict, dup>>

LookupDone(l) ==
  /\ lookups' = lookups \ {l}
  /\ \E failed \in SUBSET {r.name : r \in ToSet(l.reqs)} :
       Partitioned(partitionUploadRequests(l.reqs, HitsOf(Names \ failed), l.folder), l.folder)
  /\ UNCHANGED <<store, shownFolder, batches, dropped, refused, ticked, chosen, overlapped>>

---------------------------------------------------------------------------
\* The user drops a batch on the page, or picks it, for the open folder or,
\* from the share dialog, for another; own is where a tree's files go instead.
beginUploadRequestsWithConflictCheck(files, target, own) ==
  LET reqs == [i \in DOMAIN files |->
                 [file |-> files[i], name |-> NameOf[files[i]], overwrite |-> FALSE,
                  target |-> own[files[i]]]]
  IN /\ files # <<>> /\ batches < MaxBatches
     /\ \A i \in DOMAIN files : dropped[files[i]] = NoFile
     /\ lookups' = lookups \cup {[reqs |-> reqs, folder |-> target]}
     /\ batches' = batches + 1
     /\ dropped' = [f \in Files |-> IF f \notin ToSet(files) THEN dropped[f]
                                  ELSE IF own[f] = NoFile THEN target ELSE own[f]]
     /\ overlapped' = (overlapped \/ lookups # {} \/ conflict.open \/ dup.open)
     /\ UNCHANGED <<store, shownFolder, conflict, dup, entry, refused, ticked, chosen, elsewhere>>

OpenFolder(d) == /\ shownFolder' = d
                 /\ UNCHANGED <<store, lookups, conflict, dup, entry, batches, refused, ghosts>>

---------------------------------------------------------------------------
\* The conflict dialog.
ToggleApplyAll ==
  /\ Len(conflict.queue) > 1
  /\ conflict' = [conflict EXCEPT !.all = ~@]
  /\ ticked' = IF conflict.all THEN {} ELSE FilesOf(conflict.queue)
  /\ UNCHANGED <<store, shownFolder, lookups, dup, entry, batches, dropped, refused, chosen,
                 elsewhere, overlapped>>

closeUploadConflictDialog == conflict' = ClosedConflict

RefuseConflicts ==
  /\ refused' = refused \cup FilesOf(conflict.queue) \cup FilesOf(conflict.resolved)
  /\ closeUploadConflictDialog
  /\ UNCHANGED <<store, shownFolder, lookups, dup, entry, batches, ghosts>>

Overwriting(reqs) == [i \in DOMAIN reqs |-> [reqs[i] EXCEPT !.overwrite = TRUE]]

\* Where the batch goes once the last conflict is answered.
Recheck(resolved) == [reqs |-> resolved, folder |-> conflict.folder]

resolveUploadConflict(choice) ==
  LET answered == IF conflict.all THEN conflict.queue ELSE <<Head(conflict.queue)>>
      rest     == IF conflict.all THEN <<>> ELSE Tail(conflict.queue)
      resolved == IF choice = "overwrite" THEN conflict.resolved \o Overwriting(answered)
                                          ELSE conflict.resolved
  IN /\ refused' = IF choice = "skip" THEN refused \cup FilesOf(answered) ELSE refused
     /\ chosen' = IF choice = "overwrite"
                    THEN chosen \cup {<<r.file, r.name>> : r \in
                           {Head(conflict.queue)} \cup
                           {q \in ToSet(conflict.queue) : conflict.all /\ q.file \in ticked}}
                    ELSE chosen
     /\ \/ /\ rest # <<>>
           /\ conflict' = [conflict EXCEPT !.queue = rest, !.resolved = resolved]
           /\ UNCHANGED lookups
        \/ /\ rest = <<>>
           /\ closeUploadConflictDialog
           /\ lookups' = IF resolved = <<>> THEN lookups ELSE lookups \cup {Recheck(resolved)}
     /\ UNCHANGED <<store, shownFolder, dup, entry, batches, dropped, ticked, elsewhere, overlapped>>

UploadConflictDialog ==
  /\ conflict.open /\ conflict.queue # <<>>
  /\ \/ ToggleApplyAll
     \/ RefuseConflicts
     \/ \E choice \in {"overwrite", "skip"} : resolveUploadConflict(choice)

---------------------------------------------------------------------------
\* The dialog for names that exist in other folders: the user may rename.
confirmUploadDuplicate ==
  /\ \E rename \in [DOMAIN dup.queue -> Names] :
       LET renamed == [i \in DOMAIN dup.queue |-> [dup.queue[i] EXCEPT !.name = rename[i]]]
       IN entry' = startUpload(entry, dup.pending \o renamed, dup.folder)
  /\ dup' = ClosedDup
  /\ UNCHANGED <<store, shownFolder, lookups, conflict, batches, refused, ghosts>>

skipUploadDuplicates ==
  /\ entry' = startUpload(entry, dup.pending, dup.folder)
  /\ refused' = refused \cup FilesOf(dup.queue)
  /\ dup' = ClosedDup
  /\ UNCHANGED <<store, shownFolder, lookups, conflict, batches, ghosts>>

closeUploadDuplicateDialog ==
  /\ refused' = refused \cup FilesOf(dup.queue) \cup FilesOf(dup.pending)
  /\ dup' = ClosedDup
  /\ UNCHANGED <<store, shownFolder, lookups, conflict, entry, batches, ghosts>>

UploadGlobalDuplicateDialog ==
  /\ dup.open /\ dup.queue # <<>>
  /\ confirmUploadDuplicate \/ skipUploadDuplicates \/ closeUploadDuplicateDialog

---------------------------------------------------------------------------
\* The upload reaches the server, which looks the name up again: it is refused
\* when the name has been taken and the request may not overwrite.
UploadArrives(f) ==
  LET e == entry[f]
      taken == store[e.folder][e.req.name] # NoFile /\ ~e.req.overwrite
  IN /\ e.state = "queued"
     /\ store' = IF taken THEN store ELSE [store EXCEPT ![e.folder][e.req.name] = f]
     /\ entry' = [entry EXCEPT ![f].state = IF taken THEN "error" ELSE "done"]
     /\ UNCHANGED <<shownFolder, lookups, conflict, dup, batches, refused, ghosts>>

\* Another client creates a file.
OtherClient(d, n) ==
  /\ store[d][n] = NoFile
  /\ store' = [store EXCEPT ![d][n] = Foreign]
  /\ UNCHANGED <<shownFolder, lookups, conflict, dup, entry, batches, refused, ghosts>>

\* The files page hands the workflow what is dropped on its zone or picked, a
\* tree with the folders prepareFolderUpload found for its files.
ChoiceFilesPage ==
  \/ \E S \in SUBSET Files, d \in Folders,
        own \in {[f \in Files |-> NoFile]} \cup [Files -> Folders] :
       beginUploadRequestsWithConflictCheck(SetToSeq(S), d, own)
  \/ \E d \in Folders : OpenFolder(d)

ChoiceNext == \/ ChoiceFilesPage
              \/ \E l \in lookups : LookupDone(l)
              \/ UploadConflictDialog
              \/ UploadGlobalDuplicateDialog
              \/ \E f \in Files : UploadArrives(f)
              \/ \E d \in Folders, n \in Names : OtherClient(d, n)

ChoiceSpec == ChoiceInit /\ [][ChoiceNext]_choiceVars

---------------------------------------------------------------------------
\* The uploads that may replace what has their name.
MayReplace == {f \in Files : entry[f].state # "none" /\ entry[f].req.overwrite}

\* An existing file is replaced only by one the user chose "overwrite" for,
\* itself or by the tick that was set while it was on the list: a tick never
\* reaches a batch that opened its dialog later (resolveUploadConflict).  The
\* leave is for the name that was shown, except for a file found elsewhere too:
\* the user may rename it after giving leave, and renameUploadRequest lets the
\* request keep the leave.
OverwriteWasChosen ==
  \A f \in MayReplace : /\ <<f, NameOf[f]>> \in chosen
                        /\ entry[f].req.name = NameOf[f] \/ f \in elsewhere

\* A file is uploaded to the folder it was dropped on, or the one its tree made
\* for it, wherever the user has walked while look-ups and dialogs took their time.
LandsWhereDropped ==
  \A f \in Files : entry[f].state # "none" => entry[f].folder = dropped[f]

\* Files that are neither undecided, refused nor started.
Forgotten ==
  {f \in Files : dropped[f] # NoFile /\ entry[f].state = "none"}
    \ (refused \cup FilesOf(conflict.queue) \cup FilesOf(conflict.resolved)
       \cup FilesOf(dup.queue) \cup FilesOf(dup.pending)
       \cup UNION {FilesOf(l.reqs) : l \in lookups})

\* As long as batches do not overlap, only a file with a namesake in another
\* folder can be forgotten: the workflow drops those when the same batch also
\* has conflicts (checkGlobalDuplicates opens one dialog of the two).
OnlyNamesakesForgotten == ~overlapped => Forgotten \subseteq elsewhere

\* What is dropped goes where and as its user chose, or was refused.
ChoicesKept == OverwriteWasChosen /\ LandsWhereDropped /\ OnlyNamesakesForgotten

=============================================================================
