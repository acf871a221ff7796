---------------------------- MODULE BackupPicker ----------------------------
(***************************************************************************)
(* The folders of the automatic backup: the tree of tick boxes on the      *)
(* backup page, which saves the whole configuration at every click, the    *)
(* server's copy of it, and the "add to auto backup" action of the files   *)
(* page, which reads the configuration and writes it back.                 *)
(* An empty list of folders means every file.                              *)
(***************************************************************************)
EXTENDS Naturals, FiniteSets

CONSTANTS Items,             \* the files and folders of the user
          Above,             \* the folders each of them is in, at any depth
          Stored,            \* the folders in the stored configuration
          Unread,            \* the page has no configuration yet
          MaxClicks          \* bound: clicks that save

ASSUME PickerAssumption ==
  /\ Above \in [Items -> SUBSET Items] /\ Stored \subseteq Items /\ MaxClicks \in Nat
  /\ Unread \notin [on : BOOLEAN, folders : SUBSET Items]
  /\ \A x \in Items : x \notin Above[x] /\ \A y \in Above[x] : Above[y] \subseteq Above[x]
  /\ \A x \in Items : \A S \in (SUBSET Above[x]) \ {{}} :     \* of folders above it one is nearest
       \E y \in S : \A z \in S : z = y \/ z \in Above[y]

VARIABLES saved,             \* the server's configuration
          autoConfig, ask,   \* the page's copy of it, and the request for it
          selectedIDs, manualMode, expanded,
          puts, clicks,      \* configurations on their way to the server
          addingToBackup,            \* the files page's action
          failed,            \* ghost: a call failed
          overtaken,         \* ghost: saves arrived out of order, or crossed
          outrun             \* ghost: the first answer to come is from before a save; until the
                             \* configuration is asked for anew

pickerVars == <<saved, autoConfig, ask, selectedIDs, manualMode, expanded,
                puts, clicks, addingToBackup, failed, overtaken, outrun>>

NotAsked == [at |-> "none"]
ToAsk == [at |-> "asked"]
NotAdding == [at |-> "none"]

PickerInit ==
  /\ saved \in [on : BOOLEAN, folders : {Stored}]
  /\ autoConfig = Unread /\ ask = ToAsk
  /\ selectedIDs = {} /\ manualMode = FALSE /\ expanded = {}
  /\ puts = {} /\ clicks = 0 /\ addingToBackup = NotAdding
  /\ failed = FALSE /\ overtaken = FALSE /\ outrun = FALSE

Folder(x) == \E y \in Items : x \in Above[y]
Within(x) == {y \in Items : x = y \/ x \in Above[y]}
ChildrenOf(x) == {y \in Items : x \in Above[y] /\ Above[y] \ {x} = Above[x]}

\* What an archive of these folders holds.
Archived(ids) == IF ids = {} THEN Items ELSE UNION {Within(x) : x \in ids}

\* The tree: a row is ticked by itself or through a folder above it.
allChecked == selectedIDs = {} /\ ~manualMode
isExplicit(x) == allChecked \/ x \in selectedIDs
NearestAbove(x) == {y \in Above[x] \cap selectedIDs :
                      \A z \in Above[x] \cap selectedIDs : z = y \/ z \in Above[y]}
inheritedSelected(x) == ~isExplicit(x) /\ NearestAbove(x) # {}
Ticked == {x \in Items : isExplicit(x) \/ inheritedSelected(x)}
Displayed(x) == Above[x] \subseteq expanded

---------------------------------------------------------------------------
TakeConfig ==
  /\ ask.at = "served" /\ ask' = NotAsked /\ autoConfig' = ask.has
  /\ selectedIDs' = IF autoConfig = Unread \/ autoConfig.folders # ask.has.folders
                    THEN ask.has.folders ELSE selectedIDs
  /\ UNCHANGED <<saved, manualMode, expanded, puts, clicks, addingToBackup, failed, overtaken, outrun>>

ServeConfig ==
  /\ ask.at = "asked"
  /\ \/ ask' = [at |-> "served", has |-> saved] /\ UNCHANGED failed
     \/ ask' = NotAsked /\ failed' = TRUE
  /\ UNCHANGED <<saved, autoConfig, selectedIDs, manualMode, expanded, puts, clicks,
                 addingToBackup, overtaken, outrun>>

\* What the page believes of the switch, off until it knows, goes with every save.
Believed == autoConfig # Unread /\ autoConfig.on
SaveBody(on, ids) == [on |-> on, folders |-> ids, n |-> clicks]

onChange(ids) ==
  /\ clicks < MaxClicks /\ clicks' = clicks + 1 /\ selectedIDs' = ids
  /\ puts' = puts \cup {SaveBody(Believed, ids)}

\* The folder above gives way to its other children.
Split(x, near) == onChange((selectedIDs \ {near}) \cup (ChildrenOf(near) \ {x}))

toggleItem(x) ==
  /\ x \in Items /\ Displayed(x)
  /\ \/ /\ inheritedSelected(x) /\ manualMode' = TRUE
        /\ \E near \in NearestAbove(x) : Split(x, near)
     \/ allChecked /\ manualMode' = TRUE /\ onChange({x})
     \/ ~allChecked /\ x \in selectedIDs /\ onChange(selectedIDs \ {x}) /\ UNCHANGED manualMode
     \/ ~allChecked /\ ~isExplicit(x) /\ ~inheritedSelected(x)
        /\ onChange(selectedIDs \cup {x}) /\ UNCHANGED manualMode
  /\ UNCHANGED <<saved, autoConfig, ask, expanded, addingToBackup, failed, overtaken, outrun>>

handleAllFilesToggle ==
  /\ \/ allChecked /\ manualMode' = TRUE /\ UNCHANGED <<selectedIDs, puts, clicks>>
     \/ ~allChecked /\ manualMode' = FALSE /\ onChange({})
  /\ UNCHANGED <<saved, autoConfig, ask, expanded, addingToBackup, failed, overtaken, outrun>>

\* Folders open at the user's click, or by themselves around what is ticked.
Expand(x) ==
  /\ x \in Items /\ Folder(x) /\ Displayed(x)
  /\ expanded' = IF x \in expanded THEN expanded \ {x} ELSE expanded \cup {x}
  /\ UNCHANGED <<saved, autoConfig, ask, selectedIDs, manualMode, puts, clicks, addingToBackup,
                 failed, overtaken, outrun>>

FolderPicker == handleAllFilesToggle \/ \E x \in Items : toggleItem(x) \/ Expand(x)

\* The switch, the interval and the retention send the folders along.
Switch(on) ==
  /\ on \in {Believed, ~Believed} /\ clicks < MaxClicks /\ clicks' = clicks + 1
  /\ puts' = puts \cup {SaveBody(on, selectedIDs)}
  /\ UNCHANGED <<saved, autoConfig, ask, selectedIDs, manualMode, expanded, addingToBackup,
                 failed, overtaken, outrun>>

\* A mutant: a save that succeeded is not read back.
Unconfirmed == ask' = ask

\* A refetch drops a request on its way and asks anew, but not during the first load,
\* whose answer, perhaps from before the save, is waited for.
firstLoad == autoConfig = Unread /\ ask # NotAsked
refetchAutoConfig == ask' = IF firstLoad THEN ask ELSE ToAsk

SetAutoConfig(p) ==
  /\ p \in puts /\ puts' = puts \ {p}
  /\ \/ /\ saved' = [on |-> p.on, folders |-> p.folders] /\ refetchAutoConfig
        /\ outrun' = (firstLoad /\ ask.at = "served") /\ UNCHANGED failed
     \/ /\ saved' \in {saved, [on |-> p.on, folders |-> p.folders]} /\ failed' = TRUE
        /\ UNCHANGED <<ask, outrun>>
  /\ overtaken' = (overtaken \/ \E q \in puts : q.n < p.n)
  /\ UNCHANGED <<autoConfig, selectedIDs, manualMode, expanded, clicks, addingToBackup>>

---------------------------------------------------------------------------
\* The backup page, left for the files page, dropped a request on its way (its queryFn
\* takes the signal); coming back to it asks anew.
askOnReturn == ask' = ToAsk /\ outrun' = FALSE

\* The files page, for one row or for all of a folder's: the folder itself, or the
\* folder of a file, joins the list.
handleBackupContextAction(xs) ==
  LET target(x) == IF Folder(x) \/ Above[x] = {} THEN {x}
                   ELSE {y \in Above[x] : x \in ChildrenOf(y)}
      new == UNION {target(x) : x \in xs} IN
  \/ /\ addingToBackup = NotAdding /\ clicks < MaxClicks /\ clicks' = clicks + 1
     /\ xs # {} /\ addingToBackup' = [at |-> "read", has |-> saved.folders, xs |-> xs]
     /\ UNCHANGED <<saved, ask, failed, overtaken, outrun>>
  \/ /\ addingToBackup.at = "read" /\ addingToBackup.xs = xs /\ addingToBackup' = NotAdding /\ UNCHANGED clicks
     /\ overtaken' = (overtaken \/ puts # {} \/ saved.folders # addingToBackup.has
                      \/ (autoConfig # Unread /\ autoConfig.folders # saved.folders))
     /\ \/ new \subseteq addingToBackup.has /\ UNCHANGED <<saved, ask, failed, outrun>>
        \/ /\ ~(new \subseteq addingToBackup.has) /\ UNCHANGED failed
           /\ saved' = [on |-> TRUE, folders |-> addingToBackup.has \cup new] /\ askOnReturn
        \/ UNCHANGED <<saved, ask, outrun>> /\ failed' = TRUE

AddToBackup(xs) ==
  /\ handleBackupContextAction(xs)
  /\ UNCHANGED <<autoConfig, selectedIDs, manualMode, expanded, puts>>

PickerNext ==
  \/ TakeConfig \/ ServeConfig \/ FolderPicker
  \/ \E on \in BOOLEAN : Switch(on)
  \/ \E p \in puts : SetAutoConfig(p)
  \/ \E x \in Items : AddToBackup({x}) \/ AddToBackup(ChildrenOf(x))

PickerSpec == PickerInit /\ [][PickerNext]_pickerVars

---------------------------------------------------------------------------
\* Once every call is answered, the boxes show what the server will archive,
\* whatever was clicked in between; short of a failed call, of saves that overtake
\* one another, of the files page writing before this page has read its own, and
\* of a first load outrun by a save, until the next save is read back.
\* A picker emptied by hand shows nothing, and the server archives everything.
ShownIsSaved ==
  ask = NotAsked /\ puts = {} /\ addingToBackup = NotAdding /\ ~failed /\ ~overtaken /\ ~outrun =>
    /\ selectedIDs = saved.folders
    /\ Ticked = Archived(saved.folders) \/ (manualMode /\ selectedIDs = {})

=============================================================================
