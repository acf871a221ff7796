---------------------------- MODULE BackupProofs ----------------------------
(***************************************************************************)
(* Theorems about the backups: the archives a peer keeps for a buddy, the  *)
(* user's own archives with the automatic run and the restores, and the    *)
(* folder picker, each for any value of its constants.                     *)
(***************************************************************************)
EXTENDS BuddyStore, BackupArchives, BackupPicker, TLAPS

-----------------------------------------------------------------------------
(* BuddyStore: the file of a push no other push shared is the push's own from *)
(* the moment it is opened, and two pushes of one second share their file.    *)

Opened == {"open", "written", "kept"}
PushStates == {"new", "arrived", "admitted", "refused", "failed"} \cup Opened

BuddyTypeOK ==
  /\ clock \in Seconds /\ at \in [Pushes -> Seconds] /\ push \in [Pushes -> PushStates]
  /\ files \in [Seconds -> SUBSET Pushes]

OwnFile ==
  \A p \in Pushes \ shared : push[p] \in Opened => files[at[p]] = {p} \/ at[p] \in deleted

SameIsShared ==
  \A p, q \in Pushes : p # q /\ at[p] = at[q] /\ push[p] \in Opened /\ push[q] \in Opened => p \in shared

BuddyInv == BuddyTypeOK /\ OwnFile /\ SameIsShared

\* A push is answered, admitted or refused: no file changes.
LEMMA PushGoesOn ==
  ASSUME BuddyInv, NEW p \in Pushes, NEW next \in PushStates, push' = [push EXCEPT ![p] = next],
         next \in Opened => push[p] \in Opened,
         UNCHANGED <<clock, at, files, shared, deleted>>
  PROVE  BuddyInv'
<1>1. \A q \in Pushes : push'[q] \in PushStates /\ (push'[q] \in Opened => push[q] \in Opened)
    BY DEF BuddyInv, BuddyTypeOK
<1>2. BuddyTypeOK' BY DEF BuddyInv, BuddyTypeOK
<1> QED BY <1>1, <1>2 DEF BuddyInv, OwnFile, SameIsShared

\* A file is emptied by a user.
LEMMA FileDeleted ==
  ASSUME BuddyInv, NEW s \in Seconds, files' = [files EXCEPT ![s] = {}],
         deleted' = deleted \cup {s}, UNCHANGED <<clock, at, push, shared>>
  PROVE  BuddyInv'
<1>1. \A p \in Pushes : at[p] \in Seconds BY DEF BuddyInv, BuddyTypeOK
<1>2. BuddyTypeOK' BY DEF BuddyInv, BuddyTypeOK
<1>3. OwnFile' BY <1>1 DEF BuddyInv, BuddyTypeOK, OwnFile
<1> QED BY <1>2, <1>3 DEF BuddyInv, SameIsShared

LEMMA FileOpened ==
  ASSUME BuddyInv, NEW p \in Pushes, OpenFile(p)
  PROVE  BuddyInv'
<1> DEFINE same == {q \in Pushes : push[q] \in {"open", "written", "kept"} /\ at[q] = clock}
<1>1. /\ push[p] = "admitted" /\ push' = [push EXCEPT ![p] = "open"]
      /\ at' = [at EXCEPT ![p] = clock] /\ files' = [files EXCEPT ![clock] = {p}]
      /\ shared' = IF same = {} THEN shared ELSE shared \cup same \cup {p}
      /\ deleted' = deleted \ {clock} /\ UNCHANGED clock
    BY DEF OpenFile, SecondName
<1>2. BuddyTypeOK'
  <2>1. {p} \in SUBSET Pushes OBVIOUS
  <2> QED BY <1>1, <2>1 DEF BuddyInv, BuddyTypeOK, PushStates, Opened
<1>3. /\ \A q \in Pushes : q # p => push'[q] = push[q] /\ at'[q] = at[q]
      /\ at'[p] = clock /\ files'[clock] = {p}
      /\ \A s \in Seconds \ {clock} : files'[s] = files[s]
      /\ shared \cup same \subseteq shared' /\ (same # {} => p \in shared')
    BY <1>1 DEF BuddyInv, BuddyTypeOK
<1>4. OwnFile'
  <2> SUFFICES ASSUME NEW q \in Pushes \ shared', push'[q] \in Opened
               PROVE  files'[at'[q]] = {q} \/ at'[q] \in deleted'
      BY DEF OwnFile
  <2>1. CASE q = p BY <1>3, <2>1
  <2>2. CASE q # p
    <3>1. at[q] # clock BY <1>3, <2>2 DEF Opened
    <3>2. at[q] \in Seconds /\ q \in Pushes \ shared BY <1>3 DEF BuddyInv, BuddyTypeOK
    <3>3. files[at[q]] = {q} \/ at[q] \in deleted BY <1>3, <2>2, <3>2 DEF BuddyInv, OwnFile
    <3> QED BY <1>1, <1>3, <2>2, <3>1, <3>2, <3>3
  <2> QED BY <2>1, <2>2
<1>5. SameIsShared'
  <2> SUFFICES ASSUME NEW q1 \in Pushes, NEW q2 \in Pushes, q1 # q2, at'[q1] = at'[q2],
                      push'[q1] \in Opened, push'[q2] \in Opened
               PROVE  q1 \in shared'
      BY DEF SameIsShared
  <2>1. CASE q1 # p /\ q2 # p BY <1>3, <2>1 DEF BuddyInv, SameIsShared
  <2>2. CASE q1 = p
    <3>1. q2 \in same BY <1>3, <2>2 DEF Opened
    <3> QED BY <1>3, <2>2, <3>1
  <2>3. CASE q2 = p
    <3>1. q1 \in same BY <1>3, <2>3 DEF Opened
    <3> QED BY <1>3, <3>1
  <2> QED BY <2>1, <2>2, <2>3
<1> QED BY <1>2, <1>4, <1>5 DEF BuddyInv

LEMMA FileReceived ==
  ASSUME BuddyInv, NEW p \in Pushes, Receive(p)
  PROVE  BuddyInv'
<1>1. push[p] = "open" /\ UNCHANGED <<clock, at, shared, deleted>> BY DEF Receive
<1>2. PICK next \in {"written", "failed"} :
        /\ push' = [push EXCEPT ![p] = next]
        /\ files' = [files EXCEPT ![at[p]] = IF next = "failed" \/ files[at[p]] = {} THEN {}
                                             ELSE files[at[p]] \cup {p}]
    BY DEF Receive
<1>3. at[p] \in Seconds /\ files[at[p]] \in SUBSET Pushes BY DEF BuddyInv, BuddyTypeOK
<1>4. BuddyTypeOK'
  <2>1. files[at[p]] \cup {p} \in SUBSET Pushes /\ {} \in SUBSET Pushes BY <1>3
  <2>2. files' \in [Seconds -> SUBSET Pushes] BY <1>2, <1>3, <2>1 DEF BuddyInv, BuddyTypeOK
  <2>3. push' \in [Pushes -> PushStates]
      BY <1>2 DEF BuddyInv, BuddyTypeOK, PushStates, Opened
  <2> QED BY <1>1, <2>2, <2>3 DEF BuddyInv, BuddyTypeOK
<1>5. \A q \in Pushes : (push'[q] \in Opened => push[q] \in Opened) /\ (q # p => push'[q] = push[q])
    BY <1>1, <1>2 DEF BuddyInv, BuddyTypeOK, Opened
<1>6. OwnFile'
  <2> SUFFICES ASSUME NEW q \in Pushes \ shared, push'[q] \in Opened
               PROVE  files'[at[q]] = {q} \/ at[q] \in deleted
      BY <1>1 DEF OwnFile
  <2>1. (files[at[q]] = {q} \/ at[q] \in deleted) /\ at[q] \in Seconds
      BY <1>5 DEF BuddyInv, BuddyTypeOK, OwnFile
  <2>2. CASE q = p
    <3>1. next = "written" BY <1>2, <2>2 DEF BuddyInv, BuddyTypeOK, Opened
    <3>2. files'[at[p]] = IF files[at[p]] = {} THEN {} ELSE files[at[p]] \cup {p}
        BY <1>2, <1>3, <3>1 DEF BuddyInv, BuddyTypeOK
    <3> QED BY <2>1, <2>2, <3>2
  <2>3. CASE q # p
    <3>1. at[q] # at[p]
        BY <1>1, <1>5, <2>3 DEF BuddyInv, SameIsShared, Opened
    <3>2. files'[at[q]] = files[at[q]] BY <1>2, <2>1, <3>1 DEF BuddyInv, BuddyTypeOK
    <3> QED BY <2>1, <3>2
  <2> QED BY <2>2, <2>3
<1>7. SameIsShared' BY <1>1, <1>5 DEF BuddyInv, SameIsShared
<1> QED BY <1>4, <1>6, <1>7 DEF BuddyInv

\* A buddy's archive whose push was answered is kept whole until somebody deletes it,
\* unless another push opened the file of that second.
THEOREM AnsweredStays == BuddySpec => []AnsweredIsKept
<1>1. BuddyInit => BuddyInv
  <2> SUFFICES ASSUME BuddyInit PROVE BuddyInv OBVIOUS
  <2>1. 0 \in Seconds BY BuddyAssumption DEF Seconds
  <2>2. BuddyTypeOK BY <2>1 DEF BuddyInit, BuddyTypeOK, PushStates
  <2> QED BY <2>2 DEF BuddyInit, BuddyInv, OwnFile, SameIsShared, Opened
<1>2. BuddyInv /\ [BuddyNext]_buddyVars => BuddyInv'
  <2> SUFFICES ASSUME BuddyInv, [BuddyNext]_buddyVars PROVE BuddyInv' OBVIOUS
  <2>1. ASSUME NEW p \in Pushes, BuddyPush(p) \/ ensureBuddyReceiveQuota(p) \/ BuddyReceive(p)
        PROVE  BuddyInv'
    <3>1. \E next \in PushStates : push' = [push EXCEPT ![p] = next]
                                   /\ (next \in Opened => push[p] \in Opened)
        BY <2>1 DEF BuddyPush, ensureBuddyReceiveQuota, BuddyReceive, PushStates, Opened
    <3>2. UNCHANGED <<clock, at, files, shared, deleted>>
        BY <2>1 DEF BuddyPush, ensureBuddyReceiveQuota, BuddyReceive
    <3> QED BY <3>1, <3>2, PushGoesOn
  <2>2. ASSUME NEW p \in Pushes, OpenFile(p) PROVE BuddyInv' BY <2>2, FileOpened
  <2>3. ASSUME NEW p \in Pushes, Receive(p) PROVE BuddyInv' BY <2>3, FileReceived
  <2>4. ASSUME NEW s \in Seconds, deleteBuddy(s) \/ deletePushed(s) PROVE BuddyInv'
      BY <2>4, FileDeleted DEF deleteBuddy, deletePushed
  <2>5. CASE NextSecond
    <3>1. clock' \in Seconds BY <2>5, BuddyAssumption
        DEF NextSecond, BuddyInv, BuddyTypeOK, Seconds
    <3> QED BY <2>5, <3>1
        DEF NextSecond, rcvVars, BuddyInv, BuddyTypeOK, OwnFile, SameIsShared
  <2>6. CASE \/ refetchBuddyReceived \/ refetchPushedArchives \/ typeQuota \/ setQuota
             \/ UpdateLastPush \/ UNCHANGED buddyVars
    <3>1. UNCHANGED <<clock, push, at, files, shared, deleted>>
        BY <2>6 DEF refetchBuddyReceived, refetchPushedArchives, typeQuota, setQuota,
                    UpdateLastPush, buddyVars, rcvVars
    <3> QED BY <3>1 DEF BuddyInv, BuddyTypeOK, OwnFile, SameIsShared
  <2> QED BY <2>1, <2>2, <2>3, <2>4, <2>5, <2>6 DEF BuddyNext
<1>3. BuddyInv => AnsweredIsKept BY DEF BuddyInv, OwnFile, AnsweredIsKept, Opened
<1> QED BY <1>1, <1>2, <1>3, PTL DEF BuddySpec

-----------------------------------------------------------------------------
(* BackupPicker: short of a failed call and of saves that overtake, the       *)
(* newest save on its way is what the boxes show if the page's copy says so,  *)
(* and the copy is what the server has once nothing is asked for.             *)

Config == [on : BOOLEAN, folders : SUBSET Items]
Reads == [at : {"read"}, has : SUBSET Items, xs : SUBSET Items]

PickerTypeOK ==
  /\ saved \in Config /\ (autoConfig # Unread => autoConfig \in Config)
  /\ ask \in {NotAsked, ToAsk} \cup [at : {"served"}, has : Config]
  /\ selectedIDs \subseteq Items /\ clicks \in Nat
  /\ puts \subseteq [on : BOOLEAN, folders : SUBSET Items, n : Nat]
  /\ addingToBackup \in {NotAdding} \cup Reads
  /\ failed \in BOOLEAN /\ overtaken \in BOOLEAN /\ outrun \in BOOLEAN

\* Of a first load that was outrun the answer is on its way or is what the page has.
CopyFollows ==
  /\ outrun => IF autoConfig = Unread THEN ask.at = "served" ELSE ask = NotAsked
  /\ ~outrun /\ ask.at = "served" => ask.has = saved
  /\ ~outrun /\ ask = NotAsked => autoConfig # Unread /\ autoConfig.folders = saved.folders

SavesInOrder == \A p \in puts : p.n < clicks /\ \A q \in puts : p.n = q.n => p = q

BoxesFollow ==
  autoConfig # Unread =>
    /\ puts = {} /\ autoConfig.folders = saved.folders => selectedIDs = saved.folders
    /\ \A p \in puts : (\A q \in puts : q.n <= p.n) /\ autoConfig.folders = p.folders =>
         selectedIDs = p.folders

PickerInv ==
  PickerTypeOK /\ (failed \/ overtaken \/ (CopyFollows /\ SavesInOrder /\ BoxesFollow))

\* The rows drawn as ticked are what an archive of the ticked folders holds.
LEMMA BoxesMeanFolders ==
  ASSUME selectedIDs \subseteq Items
  PROVE  Ticked = Archived(selectedIDs) \/ (manualMode /\ selectedIDs = {})
<1>1. CASE selectedIDs = {}
  <2>1. CASE ~manualMode
      BY <1>1, <2>1 DEF Ticked, Archived, isExplicit, allChecked
  <2> QED BY <1>1, <2>1
<1>2. CASE selectedIDs # {}
  <2>1. Above \in [Items -> SUBSET Items] BY PickerAssumption
  <2>2. ASSUME NEW x \in Items
        PROVE  x \in Ticked <=> (x \in selectedIDs \/ Above[x] \cap selectedIDs # {})
    <3>1. Above[x] \cap selectedIDs # {} => NearestAbove(x) # {}
      <4> DEFINE S == Above[x] \cap selectedIDs
      <4>1. S \in SUBSET Above[x] OBVIOUS
      <4>2. \A R \in (SUBSET Above[x]) \ {{}} : \E y \in R : \A z \in R : z = y \/ z \in Above[y]
          BY PickerAssumption
      <4>3. S # {} => S \in (SUBSET Above[x]) \ {{}} BY <4>1
      <4> HIDE DEF S
      <4>4. S # {} => \E y \in S : \A z \in S : z = y \/ z \in Above[y] BY <4>2, <4>3
      <4> QED BY <4>4 DEF NearestAbove, S
    <3>2. NearestAbove(x) # {} => Above[x] \cap selectedIDs # {} BY DEF NearestAbove
    <3> QED BY <1>2, <3>1, <3>2 DEF Ticked, isExplicit, allChecked, inheritedSelected
  <2>3. ASSUME NEW x \in Items
        PROVE  x \in Archived(selectedIDs) <=> (x \in selectedIDs \/ Above[x] \cap selectedIDs # {})
      BY <1>2, <2>1 DEF Archived, Within
  <2>4. Ticked \subseteq Items /\ Archived(selectedIDs) \subseteq Items
      BY <1>2 DEF Ticked, Archived, Within
  <2> QED BY <2>2, <2>3, <2>4
<1> QED BY <1>1, <1>2

\* A click that saves: the newest save has what the boxes show.
LEMMA ClickSaves ==
  ASSUME PickerInv, NEW on \in BOOLEAN, NEW ids \in SUBSET Items,
         clicks' = clicks + 1, puts' = puts \cup {SaveBody(on, ids)}, selectedIDs' = ids,
         UNCHANGED <<saved, autoConfig, ask, addingToBackup, failed, overtaken, outrun>>
  PROVE  PickerInv'
<1> DEFINE p0 == SaveBody(on, ids)
<1>1. p0.folders = ids /\ p0.n = clicks /\ p0 \in [on : BOOLEAN, folders : SUBSET Items, n : Nat]
    BY DEF SaveBody, PickerInv, PickerTypeOK
<1>2. puts' = puts \cup {p0} OBVIOUS
<1> HIDE DEF p0
<1>3. clicks \in Nat /\ \A p \in puts : p.n \in Nat BY DEF PickerInv, PickerTypeOK
<1>4. PickerTypeOK' BY <1>1, <1>2 DEF PickerInv, PickerTypeOK
<1>5. ASSUME CopyFollows, SavesInOrder PROVE CopyFollows' /\ SavesInOrder' /\ BoxesFollow'
  <2>1. CopyFollows' BY <1>5 DEF CopyFollows
  <2>2. SavesInOrder' BY <1>1, <1>2, <1>3, <1>5 DEF SavesInOrder
  <2>3. \A p \in puts' : (\A q \in puts' : q.n <= p.n) => p = p0
      BY <1>1, <1>2, <1>3, <1>5 DEF SavesInOrder
  <2>4. BoxesFollow' BY <1>1, <1>2, <2>3 DEF BoxesFollow
  <2> QED BY <2>1, <2>2, <2>4
<1> QED BY <1>4, <1>5 DEF PickerInv

\* A save arrives, and the configuration is asked for anew; or it fails.
LEMMA SaveArrives ==
  ASSUME PickerInv, NEW p \in puts, SetAutoConfig(p)
  PROVE  PickerInv'
<1>1. /\ puts' = puts \ {p} /\ UNCHANGED <<autoConfig, selectedIDs, clicks, addingToBackup>>
      /\ \/ /\ saved' = [on |-> p.on, folders |-> p.folders] /\ failed' = failed
            /\ outrun' = (autoConfig = Unread /\ ask # NotAsked /\ ask.at = "served")
            /\ ask' = IF autoConfig = Unread /\ ask # NotAsked THEN ask ELSE ToAsk
         \/ /\ saved' \in {saved, [on |-> p.on, folders |-> p.folders]}
            /\ failed' = TRUE /\ UNCHANGED <<ask, outrun>>
    BY DEF SetAutoConfig, refetchAutoConfig, firstLoad
<1>2. p \in [on : BOOLEAN, folders : SUBSET Items, n : Nat] BY DEF PickerInv, PickerTypeOK
<1>3. overtaken' \in BOOLEAN /\ (~overtaken' => ~overtaken /\ \A q \in puts : ~(q.n < p.n))
    BY DEF SetAutoConfig, PickerInv, PickerTypeOK
<1>4. failed' \in BOOLEAN /\ (~failed' => ~failed) BY <1>1 DEF PickerInv, PickerTypeOK
<1>5. PickerTypeOK'
  <2>1. saved' \in Config BY <1>1, <1>2 DEF Config, PickerInv, PickerTypeOK
  <2>2. ask' \in {NotAsked, ToAsk} \cup [at : {"served"}, has : Config]
      BY <1>1 DEF PickerInv, PickerTypeOK
  <2>3. outrun' \in BOOLEAN BY <1>1 DEF PickerInv, PickerTypeOK
  <2> QED BY <1>1, <1>3, <1>4, <2>1, <2>2, <2>3 DEF PickerInv, PickerTypeOK
<1>6. ASSUME ~failed', ~overtaken' PROVE CopyFollows' /\ SavesInOrder' /\ BoxesFollow'
  <2>1. CopyFollows /\ SavesInOrder /\ BoxesFollow BY <1>3, <1>4, <1>6 DEF PickerInv
  <2>2. saved'.folders = p.folders BY <1>1, <1>6
  <2>3. CopyFollows'
    <3>1. CASE autoConfig = Unread /\ ask # NotAsked
      <4>1. ask' = ask /\ autoConfig' = Unread BY <1>1, <1>6, <3>1
      <4>2. outrun' <=> ask.at = "served" BY <1>1, <1>6, <3>1
      <4>3. ~outrun' => ask.at # "served" BY <4>2
      <4>4. outrun' => ask'.at = "served" BY <4>1, <4>2
      <4> QED BY <3>1, <4>1, <4>3, <4>4 DEF CopyFollows
    <3>2. CASE ~(autoConfig = Unread /\ ask # NotAsked)
      <4>1. ask' = ToAsk BY <1>1, <1>6, <3>2
      <4>2. ~outrun' BY <1>1, <1>6, <3>2
      <4>3. ask'.at # "served" /\ ask' # NotAsked BY <4>1 DEF ToAsk, NotAsked
      <4> QED BY <4>2, <4>3 DEF CopyFollows
    <3> QED BY <3>1, <3>2
  <2>4. SavesInOrder' BY <1>1, <2>1 DEF SavesInOrder
  <2>5. \A q \in puts : q.n \in Nat /\ p.n \in Nat /\ p.n <= q.n
      BY <1>2, <1>3, <1>6 DEF PickerInv, PickerTypeOK
  <2>6. ASSUME autoConfig # Unread, puts' = {}, autoConfig.folders = saved'.folders
        PROVE  selectedIDs = saved'.folders
    <3>1. puts = {p} BY <1>1, <2>6
    <3>2. \A q \in puts : q.n <= p.n BY <2>5, <3>1
    <3> QED BY <2>1, <2>2, <2>6, <3>2 DEF BoxesFollow
  <2>7. ASSUME autoConfig # Unread, NEW q \in puts', \A r \in puts' : r.n <= q.n,
               autoConfig.folders = q.folders
        PROVE  selectedIDs = q.folders
    <3>1. q \in puts /\ \A r \in puts : r.n <= q.n BY <1>1, <2>5, <2>7
    <3> QED BY <2>1, <2>7, <3>1 DEF BoxesFollow
  <2>8. BoxesFollow' BY <1>1, <2>6, <2>7 DEF BoxesFollow
  <2> QED BY <2>3, <2>4, <2>8
<1> QED BY <1>5, <1>6 DEF PickerInv

\* The files page reads the configuration and writes it back, the folders of its own
\* choice with it.
LEMMA AddedToBackup ==
  ASSUME PickerInv, NEW xs \in SUBSET Items, AddToBackup(xs)
  PROVE  PickerInv'
<1> DEFINE target(x) == IF Folder(x) \/ Above[x] = {} THEN {x}
                        ELSE {y \in Above[x] : x \in ChildrenOf(y)}
           new == UNION {target(x) : x \in xs}
<1>1. /\ UNCHANGED <<autoConfig, selectedIDs, puts>>
      /\ \/ /\ clicks' = clicks + 1 /\ UNCHANGED <<saved, ask, failed, overtaken, outrun>>
            /\ addingToBackup' = [at |-> "read", has |-> saved.folders, xs |-> xs]
         \/ /\ addingToBackup.at = "read" /\ addingToBackup' = NotAdding /\ clicks' = clicks
            /\ overtaken' = (overtaken \/ puts # {} \/ saved.folders # addingToBackup.has
                             \/ (autoConfig # Unread /\ autoConfig.folders # saved.folders))
            /\ \/ UNCHANGED <<saved, ask, failed, outrun>>
               \/ /\ ~(new \subseteq addingToBackup.has) /\ failed' = failed /\ ask' = ToAsk
                  /\ saved' = [on |-> TRUE, folders |-> addingToBackup.has \cup new]
                  /\ outrun' = FALSE
               \/ UNCHANGED <<saved, ask, outrun>> /\ failed' = TRUE
    BY DEF AddToBackup, handleBackupContextAction, askOnReturn
<1>2. new \subseteq Items
  <2>1. \A x \in Items : Above[x] \subseteq Items BY PickerAssumption
  <2>2. \A x \in xs : target(x) \subseteq Items BY <2>1
  <2> QED BY <2>2
<1> HIDE DEF new
<1>3. CASE /\ clicks' = clicks + 1 /\ UNCHANGED <<saved, ask, failed, overtaken, outrun>>
           /\ addingToBackup' = [at |-> "read", has |-> saved.folders, xs |-> xs]
  <2>1. addingToBackup' \in Reads BY <1>3 DEF Reads, PickerInv, PickerTypeOK, Config
  <2>2. PickerTypeOK' BY <1>1, <1>3, <2>1 DEF PickerInv, PickerTypeOK
  <2>3. \A p \in puts : p.n \in Nat /\ clicks \in Nat BY DEF PickerInv, PickerTypeOK
  <2>4. SavesInOrder => SavesInOrder' BY <1>1, <1>3, <2>3 DEF SavesInOrder
  <2>5. (CopyFollows => CopyFollows') /\ (BoxesFollow => BoxesFollow')
      BY <1>1, <1>3 DEF CopyFollows, BoxesFollow
  <2> QED BY <1>3, <2>2, <2>4, <2>5 DEF PickerInv
<1>4. CASE /\ addingToBackup.at = "read" /\ addingToBackup' = NotAdding /\ clicks' = clicks
           /\ overtaken' = (overtaken \/ puts # {} \/ saved.folders # addingToBackup.has
                            \/ (autoConfig # Unread /\ autoConfig.folders # saved.folders))
           /\ \/ UNCHANGED <<saved, ask, failed, outrun>>
              \/ /\ ~(new \subseteq addingToBackup.has) /\ failed' = failed /\ ask' = ToAsk
                 /\ saved' = [on |-> TRUE, folders |-> addingToBackup.has \cup new]
                 /\ outrun' = FALSE
              \/ UNCHANGED <<saved, ask, outrun>> /\ failed' = TRUE
  <2>1. addingToBackup.has \subseteq Items
      BY <1>4 DEF PickerInv, PickerTypeOK, Reads, NotAdding
  <2>2. overtaken' \in BOOLEAN BY <1>4 DEF PickerInv, PickerTypeOK
  <2>3. ~overtaken' => /\ ~overtaken /\ puts = {} /\ saved.folders = addingToBackup.has
                       /\ (autoConfig # Unread => autoConfig.folders = saved.folders)
      BY <1>4
  <2>4. failed' \in BOOLEAN /\ (~failed' => ~failed) BY <1>4 DEF PickerInv, PickerTypeOK
  <2>5. saved' \in Config /\ ask' \in {NotAsked, ToAsk} \cup [at : {"served"}, has : Config]
    <3>1. addingToBackup.has \cup new \in SUBSET Items BY <1>2, <2>1
    <3>2. [on |-> TRUE, folders |-> addingToBackup.has \cup new] \in Config BY <3>1 DEF Config
    <3>3. saved' \in Config BY <1>4, <3>2 DEF PickerInv, PickerTypeOK
    <3> QED BY <1>4, <3>3 DEF PickerInv, PickerTypeOK
  <2>8. outrun' \in BOOLEAN BY <1>4 DEF PickerInv, PickerTypeOK
  <2>6. PickerTypeOK' BY <1>1, <1>4, <2>2, <2>4, <2>5, <2>8 DEF PickerInv, PickerTypeOK
  <2>7. ASSUME ~failed', ~overtaken' PROVE CopyFollows' /\ SavesInOrder' /\ BoxesFollow'
    <3>1. CopyFollows /\ SavesInOrder /\ BoxesFollow BY <2>3, <2>4, <2>7 DEF PickerInv
    <3>2. SavesInOrder' BY <1>1, <1>4, <3>1 DEF SavesInOrder
    <3>3. CASE UNCHANGED <<saved, ask, outrun>>
        BY <1>1, <3>1, <3>2, <3>3 DEF CopyFollows, BoxesFollow
    <3>4. CASE /\ ~(new \subseteq addingToBackup.has) /\ ask' = ToAsk /\ outrun' = FALSE
               /\ saved' = [on |-> TRUE, folders |-> addingToBackup.has \cup new]
      <4>1. saved'.folders # saved.folders /\ puts' = {} BY <1>1, <2>3, <2>7, <3>4
      <4>2. BoxesFollow' BY <1>1, <2>3, <2>7, <4>1 DEF BoxesFollow
      <4>3. CopyFollows' BY <3>4 DEF CopyFollows, ToAsk, NotAsked
      <4> QED BY <3>2, <4>2, <4>3
    <3> QED BY <1>4, <2>7, <3>3, <3>4
  <2> QED BY <2>6, <2>7 DEF PickerInv
<1> QED BY <1>1, <1>3, <1>4

\* The configuration is read.
LEMMA ConfigRead ==
  ASSUME PickerInv, TakeConfig \/ ServeConfig
  PROVE  PickerInv'
<1>1. CASE ServeConfig
  <2>1. /\ UNCHANGED <<saved, autoConfig, selectedIDs, puts, clicks, addingToBackup, overtaken, outrun>>
        /\ \/ ask' = [at |-> "served", has |-> saved] /\ failed' = failed
           \/ ask' = NotAsked /\ failed' = TRUE
      BY <1>1 DEF ServeConfig
  <2>2. failed' \in BOOLEAN /\ (~failed' => ~failed) BY <2>1 DEF PickerInv, PickerTypeOK
  <2>3. ask' \in {NotAsked, ToAsk} \cup [at : {"served"}, has : Config]
      BY <2>1 DEF PickerInv, PickerTypeOK
  <2>4. PickerTypeOK' BY <2>1, <2>2, <2>3 DEF PickerInv, PickerTypeOK
  <2>5. ASSUME ~failed', CopyFollows PROVE CopyFollows'
      BY <1>1, <2>1, <2>5 DEF CopyFollows, ServeConfig, NotAsked
  <2>6. (SavesInOrder => SavesInOrder') /\ (BoxesFollow => BoxesFollow')
      BY <2>1 DEF SavesInOrder, BoxesFollow
  <2> QED BY <2>1, <2>2, <2>4, <2>5, <2>6 DEF PickerInv
<1>2. CASE TakeConfig
  <2>1. /\ ask.at = "served" /\ ask' = NotAsked /\ autoConfig' = ask.has
        /\ selectedIDs' = IF autoConfig = Unread \/ autoConfig.folders # ask.has.folders
                          THEN ask.has.folders ELSE selectedIDs
        /\ UNCHANGED <<saved, puts, clicks, addingToBackup, failed, overtaken, outrun>>
      BY <1>2 DEF TakeConfig
  <2>2. ask.has \in Config
      BY <2>1 DEF PickerInv, PickerTypeOK, NotAsked, ToAsk
  <2>3. ask.has # Unread BY <2>2, PickerAssumption DEF Config
  <2>4. PickerTypeOK' BY <2>1, <2>2 DEF PickerInv, PickerTypeOK, Config
  <2>5. ASSUME CopyFollows, SavesInOrder, BoxesFollow
        PROVE  CopyFollows' /\ SavesInOrder' /\ BoxesFollow'
    <3>0. SavesInOrder' BY <2>1, <2>5 DEF SavesInOrder
    <3>1. CASE outrun
      <4>1. autoConfig = Unread BY <2>1, <2>5, <3>1 DEF CopyFollows, NotAsked
      <4>2. autoConfig' # Unread /\ ask' = NotAsked /\ outrun' = outrun BY <2>1, <2>3
      <4>3. CopyFollows' BY <3>1, <4>2 DEF CopyFollows
      <4>4. selectedIDs' = ask.has.folders /\ autoConfig' = ask.has BY <2>1, <4>1
      <4>5. BoxesFollow' BY <2>1, <4>4 DEF BoxesFollow
      <4> QED BY <3>0, <4>3, <4>5
    <3>2. CASE ~outrun
      <4>1. autoConfig' = saved /\ ask.has = saved BY <2>1, <2>5, <3>2 DEF CopyFollows
      <4>5. /\ autoConfig' # Unread /\ ask' = NotAsked /\ ~outrun' /\ autoConfig'.folders = saved'.folders
            /\ ask'.at # "served"
          BY <2>1, <2>3, <3>2, <4>1 DEF NotAsked
      <4>2. CopyFollows' BY <4>5 DEF CopyFollows
      <4>3. CASE autoConfig = Unread \/ autoConfig.folders # saved.folders
          BY <2>1, <3>0, <4>1, <4>2, <4>3 DEF BoxesFollow
      <4>4. CASE autoConfig # Unread /\ autoConfig.folders = saved.folders
          BY <2>1, <2>5, <3>0, <4>1, <4>2, <4>4 DEF BoxesFollow
      <4> QED BY <4>3, <4>4
    <3> QED BY <3>1, <3>2
  <2> QED BY <2>1, <2>4, <2>5 DEF PickerInv
<1> QED BY <1>1, <1>2

\* Once every call is answered the boxes show what the server will archive, short of a
\* failed call, of saves that overtook one another, and of a first load outrun by a save.
THEOREM BoxesShowTheBackup == PickerSpec => []ShownIsSaved
<1>1. PickerInit => PickerInv
  <2> SUFFICES ASSUME PickerInit PROVE PickerInv OBVIOUS
  <2>1. saved \in Config BY PickerAssumption DEF PickerInit, Config
  <2>2. PickerTypeOK BY <2>1 DEF PickerInit, PickerTypeOK
  <2>3. CopyFollows BY DEF PickerInit, CopyFollows, ToAsk, NotAsked
  <2>4. SavesInOrder /\ BoxesFollow BY DEF PickerInit, SavesInOrder, BoxesFollow
  <2> QED BY <2>2, <2>3, <2>4 DEF PickerInv
<1>2. PickerInv /\ [PickerNext]_pickerVars => PickerInv'
  <2> SUFFICES ASSUME PickerInv, [PickerNext]_pickerVars PROVE PickerInv' OBVIOUS
  <2>1. CASE TakeConfig \/ ServeConfig BY <2>1, ConfigRead
  <2>2. ASSUME NEW ids \in SUBSET Items, onChange(ids),
               UNCHANGED <<saved, autoConfig, ask, addingToBackup, failed, overtaken, outrun>>
        PROVE  PickerInv'
    <3>1. Believed \in BOOLEAN BY DEF Believed, PickerInv, PickerTypeOK, Config
    <3> QED BY <2>2, <3>1, ClickSaves DEF onChange
  <2>3. selectedIDs \subseteq Items BY DEF PickerInv, PickerTypeOK
  <2>4. CASE handleAllFilesToggle
    <3>1. CASE UNCHANGED <<selectedIDs, puts, clicks>>
        BY <2>4, <3>1 DEF handleAllFilesToggle, PickerInv, PickerTypeOK, CopyFollows, SavesInOrder, BoxesFollow
    <3>2. CASE onChange({}) BY <2>2, <2>4, <3>2 DEF handleAllFilesToggle
    <3> QED BY <2>4, <3>1, <3>2 DEF handleAllFilesToggle
  <2>5. ASSUME NEW x \in Items, toggleItem(x) PROVE PickerInv'
    <3>1. UNCHANGED <<saved, autoConfig, ask, addingToBackup, failed, overtaken, outrun>>
        BY <2>5 DEF toggleItem
    <3>2. \E ids \in SUBSET Items : onChange(ids)
      <4>1. ASSUME NEW near, Split(x, near) PROVE \E ids \in SUBSET Items : onChange(ids)
          BY <2>3, <4>1 DEF Split, ChildrenOf
      <4>2. {x} \in SUBSET Items /\ selectedIDs \ {x} \in SUBSET Items
            /\ selectedIDs \cup {x} \in SUBSET Items
          BY <2>3
      <4> QED BY <2>5, <4>1, <4>2 DEF toggleItem
    <3> QED BY <2>2, <3>1, <3>2
  <2>6. ASSUME NEW on \in BOOLEAN, Switch(on) PROVE PickerInv'
    <3>1. selectedIDs \in SUBSET Items BY <2>3
    <3> QED BY <2>6, <3>1, ClickSaves DEF Switch
  <2>7. ASSUME NEW p \in puts, SetAutoConfig(p) PROVE PickerInv' BY <2>7, SaveArrives
  <2>8. ASSUME NEW x \in Items, AddToBackup({x}) \/ AddToBackup(ChildrenOf(x)) PROVE PickerInv'
    <3>1. {x} \in SUBSET Items /\ ChildrenOf(x) \in SUBSET Items BY DEF ChildrenOf
    <3> QED BY <2>8, <3>1, AddedToBackup
  <2>9. CASE (\E x \in Items : Expand(x)) \/ UNCHANGED pickerVars
    <3>1. UNCHANGED <<saved, autoConfig, ask, selectedIDs, puts, clicks, addingToBackup, failed, overtaken, outrun>>
        BY <2>9 DEF Expand, pickerVars
    <3> QED BY <3>1 DEF PickerInv, PickerTypeOK, CopyFollows, SavesInOrder, BoxesFollow
  <2> QED BY <2>1, <2>4, <2>5, <2>6, <2>7, <2>8, <2>9 DEF PickerNext, FolderPicker
<1>3. PickerInv => ShownIsSaved
  <2> SUFFICES ASSUME PickerInv, ask = NotAsked, puts = {}, ~failed, ~overtaken, ~outrun
               PROVE  /\ selectedIDs = saved.folders
                      /\ Ticked = Archived(saved.folders) \/ (manualMode /\ selectedIDs = {})
      BY DEF ShownIsSaved
  <2>1. selectedIDs = saved.folders BY DEF PickerInv, CopyFollows, BoxesFollow
  <2>2. selectedIDs \subseteq Items BY DEF PickerInv, PickerTypeOK
  <2> QED BY <2>1, <2>2, BoxesMeanFolders
<1> QED BY <1>1, <1>2, <1>3, PTL DEF PickerSpec

-----------------------------------------------------------------------------
(* BackupArchives, the disk: until two archives of one second meet an archive *)
(* is whole exactly when nobody writes it; and while nothing else spoils the  *)
(* record, a whole archive has the tree last backed up until the next is done. *)

Doers == {"page", "auto"}
Archive ==
  [name : Nat, of : SUBSET Files, skipped : SUBSET Files, whole : BOOLEAN, mtime : Nat]
Writing == [at : {"writing"}, name : Nat, of : SUBSET Files]
Run == [at : {"hashed", "storing", "stored"}, hash : SUBSET Files, since : Nat]
Working(w) == storing[w].at = "writing"
Sound == ~removed /\ ~doubled /\ ~unlike /\ ~crashed

TreeTypeOK == rows \subseteq Files /\ bytes \subseteq Files

DiskTypeOK ==
  /\ second \in Nat /\ archives \subseteq Archive
  /\ storing \in [Doers -> {Idling} \cup Writing]
  /\ run \in {Idling} \cup Run /\ last_hash \in {Nothing} \cup SUBSET Files
  /\ removed \in BOOLEAN /\ doubled \in BOOLEAN /\ unlike \in BOOLEAN /\ crashed \in BOOLEAN
  /\ Working("auto") <=> run.at = "storing"
  /\ run # Idling => run.since <= second

OneWriterEach ==
  /\ \A a \in archives : a.whole <=> ~BeingWritten(a)
  /\ \A a, b \in archives : a.name = b.name => a = b
  /\ ~(Working("page") /\ Working("auto") /\ storing["page"].name = storing["auto"].name)

StoredWhole(hash) == \E a \in archives : a.whole /\ a.of = hash

Recorded ==
  /\ Working("auto") => Named(storing["auto"].name) # {} /\ storing["auto"].of = run.hash
  /\ last_hash # Nothing /\ ~unrecorded /\ run.at \in {"none", "hashed", "storing"} =>
       StoredWhole(last_hash)
  /\ run.at = "stored" =>
       \E a \in archives : a.whole /\ a.of = run.hash /\ a.mtime >= run.since

DiskInv ==
  /\ DiskTypeOK
  /\ crashed \/ doubled \/ OneWriterEach
  /\ Sound => Recorded

LEMMA DoersOfStoring ==
  ASSUME DiskTypeOK
  PROVE  /\ DOMAIN storing = Doers
         /\ \A a : BeingWritten(a) <=> \E w \in Doers : Working(w) /\ storing[w].name = a.name
BY DEF DiskTypeOK, BeingWritten, Working

\* Nothing on the disk changes but the clock and, for good, the ghosts.
LEMMA DiskAlone ==
  ASSUME DiskInv, second' \in Nat, second <= second',
         UNCHANGED <<archives, storing, last_hash, run, removed, doubled, unlike, unrecorded,
                     crashed>>
  PROVE  DiskInv'
<1>1. DiskTypeOK'
  <2>1. run # Idling => run.since \in Nat BY DEF DiskInv, DiskTypeOK, Run
  <2> QED BY <2>1 DEF DiskInv, DiskTypeOK, Working
<1>2. OneWriterEach => OneWriterEach' BY DEF OneWriterEach, BeingWritten, Working
<1>3. Recorded => Recorded' BY DEF Recorded, StoredWhole, Working, Named
<1> QED BY <1>1, <1>2, <1>3 DEF DiskInv, Sound

\* An archive is begun, under the name of the second.
LEMMA ArchiveBegun ==
  ASSUME DiskInv, TreeTypeOK, storeTertiaryArchive \/ AutoStore
  PROVE  DiskInv'
<1>0. PICK of \in SUBSET Files : of = queryExportRecords
    BY DEF TreeTypeOK, queryExportRecords
<1>1. PICK w \in Doers :
        /\ ~Working(w) /\ Create(w) /\ UNCHANGED <<second, last_hash, removed, unrecorded, crashed>>
        /\ \/ w = "page" /\ UNCHANGED <<run, unlike>>
           \/ /\ w = "auto" /\ run.at = "hashed"
              /\ run' = [run EXCEPT !.at = "storing", !.since = second]
              /\ unlike' = (unlike \/ of # run.hash)
  <2>1. CASE storeTertiaryArchive
    <3>1. ~Working("page") BY <2>1 DEF storeTertiaryArchive, Working, Idling
    <3> QED BY <2>1, <3>1 DEF storeTertiaryArchive, Doers
  <2>2. CASE AutoStore
    <3>1. ~Working("auto") BY <2>2 DEF AutoStore, DiskInv, DiskTypeOK
    <3> QED BY <1>0, <2>2, <3>1 DEF AutoStore, Doers
  <2> QED BY <2>1, <2>2
<1>2. PICK begun \in Archive :
        /\ begun = [name |-> second, of |-> of, skipped |-> {}, whole |-> FALSE, mtime |-> second]
        /\ storing' = [storing EXCEPT ![w] = [at |-> "writing", name |-> second, of |-> of]]
        /\ archives' = (archives \ Named(second)) \cup {begun}
  <2>1. [name |-> second, of |-> of, skipped |-> {}, whole |-> FALSE, mtime |-> second] \in Archive
      BY DEF Archive, DiskInv, DiskTypeOK
  <2> QED BY <1>0, <1>1, <2>1 DEF Create
<1>3. doubled' \in BOOLEAN /\ (~doubled' => ~doubled /\ Named(second) = {}
        /\ \A v \in DOMAIN storing : ~(storing[v].at = "writing" /\ storing[v].name = second))
    BY <1>1 DEF Create, DiskInv, DiskTypeOK
<1>4. \/ w = "page" /\ UNCHANGED <<run, unlike>>
      \/ /\ w = "auto" /\ run.at = "hashed" /\ run' = [run EXCEPT !.at = "storing", !.since = second]
         /\ unlike' = (unlike \/ of # run.hash)
    BY <1>1
<1>5. unlike' \in BOOLEAN /\ (~unlike' => ~unlike /\ (w = "auto" => of = run.hash))
    BY <1>4 DEF DiskInv, DiskTypeOK
<1>7. begun.name = second /\ ~begun.whole /\ second \in Nat
    BY <1>2 DEF DiskInv, DiskTypeOK
<1>8. /\ storing' \in [Doers -> {Idling} \cup Writing]
      /\ storing'[w] = [at |-> "writing", name |-> second, of |-> of]
      /\ Working(w)' /\ storing'[w].name = second /\ storing'[w].of = of
      /\ \A v \in Doers : v # w => storing'[v] = storing[v]
  <2>1. [at |-> "writing", name |-> second, of |-> of] \in Writing BY <1>7 DEF Writing
  <2> QED BY <1>1, <1>2, <2>1 DEF DiskInv, DiskTypeOK, Working
<1>9. /\ run' \in {Idling} \cup Run /\ (run' # Idling => run'.since <= second)
      /\ (Working("auto")' <=> run'.at = "storing")
      /\ (run'.at # "storing" => run' = run /\ w = "page")
      /\ (w = "auto" => run'.at = "storing" /\ run'.hash = run.hash /\ run.at = "hashed")
  <2>1. CASE w = "page"
    <3>1. run' = run BY <1>4, <2>1
    <3>2. storing'["auto"] = storing["auto"] BY <1>8, <2>1 DEF Doers
    <3> QED BY <2>1, <3>1, <3>2 DEF DiskInv, DiskTypeOK, Working
  <2>2. CASE w = "auto"
    <3>1. run.at = "hashed" /\ run' = [run EXCEPT !.at = "storing", !.since = second]
        BY <1>4, <2>2
    <3>2. run \in Run BY <3>1 DEF DiskInv, DiskTypeOK, Idling
    <3>3. run' \in Run /\ run'.at = "storing" /\ run'.since = second /\ run'.hash = run.hash
        BY <1>7, <3>1, <3>2 DEF Run
    <3> QED BY <1>7, <1>8, <2>2, <3>1, <3>3
  <2> QED BY <1>1, <2>1, <2>2 DEF Doers
<1>10. DiskTypeOK'
    BY <1>1, <1>2, <1>3, <1>5, <1>7, <1>8, <1>9 DEF DiskInv, DiskTypeOK
<1>11. ASSUME ~crashed, ~doubled' PROVE OneWriterEach'
  <2>1. OneWriterEach /\ archives' = archives \cup {begun}
      BY <1>2, <1>3, <1>11 DEF DiskInv
  <2>2. \A a \in archives : a.name # second BY <1>3, <1>11 DEF Named
  <2>3. \A v \in Doers : ~(Working(v) /\ storing[v].name = second)
      BY <1>3, <1>11, DoersOfStoring DEF DiskInv, Working
  <2>4. \A a \in archives : BeingWritten(a)' <=> BeingWritten(a)
    <3>1. \A a : BeingWritten(a) <=> \E v \in Doers : Working(v) /\ storing[v].name = a.name
        BY DoersOfStoring DEF DiskInv
    <3>2. \A a : BeingWritten(a)' <=> \E v \in Doers : Working(v)' /\ storing'[v].name = a.name
        BY <1>8 DEF BeingWritten, Working
    <3> QED BY <1>1, <1>8, <2>2, <3>1, <3>2 DEF Working
  <2>5. BeingWritten(begun)'
      BY <1>1, <1>7, <1>8 DEF BeingWritten, Working
  <2>6. \A a \in archives' : a.whole <=> ~BeingWritten(a)'
      BY <1>7, <2>1, <2>4, <2>5 DEF OneWriterEach
  <2>7. \A a, b \in archives' : a.name = b.name => a = b
      BY <1>7, <2>1, <2>2 DEF OneWriterEach
  <2>8. ~(Working("page")' /\ Working("auto")' /\ storing'["page"].name = storing'["auto"].name)
      BY <1>1, <1>8, <2>3 DEF Doers, Working
  <2> QED BY <2>6, <2>7, <2>8 DEF OneWriterEach
<1>12. ASSUME Sound' PROVE Recorded'
  <2>1. Sound /\ Recorded /\ archives \subseteq archives'
      BY <1>1, <1>2, <1>3, <1>5, <1>12 DEF Sound, DiskInv
  <2>2. Working("auto")' => /\ \E a \in archives' : a.name = storing'["auto"].name
                            /\ storing'["auto"].of = run'.hash
    <3>1. CASE w = "auto"
      <4>1. begun \in archives' /\ begun.name = storing'["auto"].name
          BY <1>2, <1>7, <1>8, <3>1
      <4> QED BY <1>5, <1>8, <1>9, <1>12, <3>1, <4>1 DEF Sound
    <3>2. CASE w = "page"
      <4>1. storing'["auto"] = storing["auto"] /\ run' = run
          BY <1>4, <1>8, <3>2 DEF Doers
      <4> QED BY <2>1, <4>1 DEF Recorded, Named, Working
    <3> QED BY <1>1, <3>1, <3>2 DEF Doers
  <2>3. last_hash' # Nothing /\ ~unrecorded' /\ run'.at \in {"none", "hashed", "storing"} =>
          StoredWhole(last_hash)'
    <3>1. run'.at \in {"none", "hashed", "storing"} => run.at \in {"none", "hashed", "storing"}
        BY <1>4, <1>9
    <3> QED BY <1>1, <2>1, <3>1 DEF Recorded, StoredWhole
  <2>4. run'.at = "stored" =>
          \E a \in archives' : a.whole /\ a.of = run'.hash /\ a.mtime >= run'.since
    <3>1. run'.at = "stored" => run' = run BY <1>9
    <3> QED BY <2>1, <3>1 DEF Recorded
  <2> QED BY <2>2, <2>3, <2>4 DEF Recorded, Named
<1> QED BY <1>1, <1>10, <1>11, <1>12 DEF DiskInv

\* An export ends: its archive goes, or is whole and the pruning leaves it.
LEMMA ArchiveEnds ==
  ASSUME DiskInv, NEW w \in Doers, Store(w) \/ ExportFails(w)
  PROVE  DiskInv'
<1> DEFINE here == Named(storing[w].name)
<1>0. PICK skipped : \/ ExportFails(w)
                     \/ Store(w) /\ skipped \in addArchiveBlobs(storing[w].of)
                        /\ LET all == (archives \ here) \cup
                                        (IF here = {} THEN {} ELSE {Written(w, skipped)}) IN
                           \E left \in Newest(all, Written(w, skipped)) :
                             archives' = left /\ removed' = (removed \/ (w = "page" /\ left # all))
    BY DEF Store
<1> DEFINE all == (archives \ here) \cup (IF here = {} THEN {} ELSE {Written(w, skipped)})
<1>1. /\ storing[w].at = "writing" /\ storing' = [storing EXCEPT ![w] = Idling]
      /\ UNCHANGED <<second, last_hash, doubled, unlike, unrecorded, crashed>>
    BY DEF Store, ExportFails
<1>2. \/ /\ Store(w) /\ run' = IF w = "auto" THEN [run EXCEPT !.at = "stored"] ELSE run
         /\ skipped \in addArchiveBlobs(storing[w].of)
         /\ archives' \in Newest(all, Written(w, skipped))
         /\ removed' = (removed \/ (w = "page" /\ archives' # all))
      \/ /\ archives' = archives \ here /\ run' = (IF w = "auto" THEN Idling ELSE run)
         /\ removed' = removed
    BY <1>0 DEF Store, ExportFails, RemovePartial
<1>3. storing[w] \in Writing BY <1>1 DEF DiskInv, DiskTypeOK, Idling
<1>4. /\ storing[w].name \in Nat /\ storing[w].of \in SUBSET Files /\ second \in Nat
    BY <1>3 DEF Writing, DiskInv, DiskTypeOK
<1>5. PICK done :
      /\ done = Written(w, skipped)
      /\ done.whole /\ done.name = storing[w].name
      /\ done.of = storing[w].of /\ done.mtime = second
      /\ skipped \in addArchiveBlobs(storing[w].of) => done \in Archive
  <2> DEFINE it == Written(w, skipped)
  <2>1. it.whole /\ it.name = storing[w].name /\ it.of = storing[w].of /\ it.mtime = second
      BY DEF Written
  <2>2. skipped \in addArchiveBlobs(storing[w].of) => it \in Archive
      BY <1>4 DEF Written, Archive, addArchiveBlobs
  <2> HIDE DEF it
  <2> QED BY <2>1, <2>2 DEF it
<1>6. \A set \in Newest(all, done) : set \subseteq all /\ (done \in all => done \in set)
    BY DEF Newest
<1>7. \/ archives' \subseteq archives
      \/ archives' \subseteq (archives \ here) \cup {done} /\ done \in Archive
    BY <1>2, <1>5, <1>6
<1>8. /\ storing' \in [Doers -> {Idling} \cup Writing] /\ storing'[w] = Idling
      /\ ~Working(w)' /\ \A v \in Doers : v # w => storing'[v] = storing[v]
    BY <1>1 DEF DiskInv, DiskTypeOK, Working, Idling
<1>9. removed' \in BOOLEAN /\ (~removed' => ~removed)
    BY <1>2 DEF DiskInv, DiskTypeOK
<1>10. w = "auto" => run.at = "storing" /\ run \in Run
    BY <1>1 DEF DiskInv, DiskTypeOK, Working, Idling
<1>11. /\ run' \in {Idling} \cup Run /\ (run' # Idling => run'.since <= second)
       /\ (Working("auto")' <=> run'.at = "storing")
       /\ w = "page" => run' = run
       /\ w = "auto" => run'.at \in {"stored", "none"}
       /\ w = "auto" /\ run'.at = "stored" => Store(w) /\ run'.hash = run.hash /\ run'.since = run.since
  <2>1. CASE w = "page"
    <3>1. run' = run BY <1>2, <2>1
    <3>2. storing'["auto"] = storing["auto"] BY <1>8, <2>1 DEF Doers
    <3> QED BY <2>1, <3>1, <3>2 DEF DiskInv, DiskTypeOK, Working
  <2>2. CASE w = "auto"
    <3>1. run \in Run /\ run.since <= second BY <1>10, <2>2 DEF DiskInv, DiskTypeOK, Idling
    <3>2. CASE Store(w) /\ run' = [run EXCEPT !.at = "stored"]
      <4>1. run' \in Run /\ run'.at = "stored" /\ run'.hash = run.hash /\ run'.since = run.since
          BY <3>1, <3>2 DEF Run
      <4> QED BY <1>8, <2>2, <3>1, <3>2, <4>1
    <3>3. CASE run' = Idling BY <1>8, <2>2, <3>3 DEF Idling
    <3> QED BY <1>2, <2>2, <3>2, <3>3
  <2> QED BY <2>1, <2>2 DEF Doers
<1>71. archives' \subseteq (archives \ here) \cup {done} BY <1>2, <1>5, <1>6
<1> HIDE DEF here, all
<1>12. DiskTypeOK'
  <2>1. archives' \subseteq Archive BY <1>5, <1>7 DEF DiskInv, DiskTypeOK
  <2> QED BY <1>1, <1>8, <1>9, <1>11, <2>1 DEF DiskInv, DiskTypeOK
<1>13. ASSUME ~crashed, ~doubled
       PROVE  OneWriterEach' /\ \A a \in archives : a.whole => a \notin here
  <2>1. OneWriterEach BY <1>13 DEF DiskInv
  <2>2. \A a : BeingWritten(a) <=> \E v \in Doers : Working(v) /\ storing[v].name = a.name
      BY DoersOfStoring DEF DiskInv
  <2>3. \A a : BeingWritten(a)' <=> \E v \in Doers : Working(v)' /\ storing'[v].name = a.name
      BY <1>8 DEF BeingWritten, Working
  <2>4. \A a \in archives : a \in here <=> a.name = storing[w].name BY DEF here, Named
  <2>5. \A a \in archives : a.whole => a \notin here
      BY <1>1, <2>1, <2>2, <2>4 DEF OneWriterEach, Working
  <2>6. \A a : a.name # storing[w].name => (BeingWritten(a)' <=> BeingWritten(a))
      BY <1>8, <2>2, <2>3 DEF Working
  <2>7. ~BeingWritten(done)'
      BY <1>1, <1>5, <1>8, <2>1, <2>3 DEF OneWriterEach, Working, Doers
  <2>8. \A a \in archives' : a.whole <=> ~BeingWritten(a)'
      BY <1>5, <1>71, <2>1, <2>4, <2>6, <2>7 DEF OneWriterEach
  <2>9. \A a, b \in archives' : a.name = b.name => a = b
      BY <1>5, <1>71, <2>1, <2>4 DEF OneWriterEach
  <2>10. ~(Working("page")' /\ Working("auto")' /\ storing'["page"].name = storing'["auto"].name)
      BY <1>8 DEF Doers
  <2> QED BY <2>5, <2>8, <2>9, <2>10 DEF OneWriterEach
<1>14. ASSUME Sound' PROVE Recorded'
  <2>1. Sound /\ Recorded /\ OneWriterEach BY <1>1, <1>9, <1>14 DEF Sound, DiskInv
  <2>2. \A a \in archives : a.whole => a \notin here BY <1>13, <2>1 DEF Sound
  <2>3. CASE w = "page"
    <3>1. archives \ here \subseteq archives'
        BY <1>2, <1>14, <2>3 DEF Sound, all
    <3>2. run' = run /\ storing'["auto"] = storing["auto"] BY <1>8, <1>11, <2>3 DEF Doers
    <3>3. \A a \in archives : a.whole => a \in archives' BY <2>2, <3>1
    <3>4. Working("auto") => \E a \in archives' : a.name = storing["auto"].name
      <4> SUFFICES ASSUME Working("auto") PROVE \E a \in archives' : a.name = storing["auto"].name
          OBVIOUS
      <4>1. PICK a \in archives : a.name = storing["auto"].name BY <2>1 DEF Recorded, Named
      <4>2. a \notin here
          BY <1>1, <2>1, <2>3, <4>1 DEF here, Named, OneWriterEach, Working
      <4> QED BY <3>1, <4>1, <4>2
    <3>5. Working("auto")' => /\ \E a \in archives' : a.name = storing'["auto"].name
                              /\ storing'["auto"].of = run'.hash
        BY <2>1, <3>2, <3>4 DEF Recorded, Working
    <3>6. last_hash' # Nothing /\ ~unrecorded' /\ run'.at \in {"none", "hashed", "storing"} =>
            StoredWhole(last_hash)'
        BY <1>1, <2>1, <3>2, <3>3 DEF Recorded, StoredWhole
    <3>7. run'.at = "stored" =>
            \E a \in archives' : a.whole /\ a.of = run'.hash /\ a.mtime >= run'.since
        BY <2>1, <3>2, <3>3 DEF Recorded
    <3> QED BY <3>5, <3>6, <3>7 DEF Recorded, Named
  <2>4. CASE w = "auto"
    <3>1. ~Working("auto")' BY <1>8, <2>4
    <3>2. CASE run'.at = "stored"
      <4>1. here # {} /\ storing["auto"].of = run.hash
          BY <1>1, <2>1, <2>4 DEF Recorded, here, Working
      <4>2. done \in all BY <1>5, <4>1 DEF all
      <4>3. run'.hash = run.hash /\ run'.since = run.since /\ run'.since <= second
          BY <1>10, <1>11, <2>4, <3>2 DEF Idling, DiskInv, DiskTypeOK
      <4>4. done \in archives'
        <5>1. archives' \in Newest(all, done) \/ run' = Idling BY <1>2, <1>5, <2>4
        <5> QED BY <1>6, <3>2, <4>2, <5>1 DEF Idling
      <4> QED BY <1>5, <2>4, <3>1, <3>2, <4>1, <4>3, <4>4 DEF Recorded
    <3>3. CASE run'.at = "none"
      <4>1. archives' = archives \ here
          BY <1>2, <1>10, <2>4, <3>3 DEF Run
      <4>2. last_hash # Nothing /\ ~unrecorded => StoredWhole(last_hash)
          BY <1>10, <2>1, <2>4 DEF Recorded
      <4>3. last_hash' # Nothing /\ ~unrecorded' => StoredWhole(last_hash)'
          BY <1>1, <2>2, <4>1, <4>2 DEF StoredWhole
      <4> QED BY <3>1, <3>3, <4>3 DEF Recorded
    <3> QED BY <1>11, <2>4, <3>2, <3>3
  <2> QED BY <2>3, <2>4 DEF Doers
<1> QED BY <1>1, <1>12, <1>13, <1>14 DEF DiskInv

\* Archives go: the user deletes one, or the run that has stored its own is done and
\* those past the retention go.
LEMMA ArchivesGo ==
  ASSUME DiskInv, (\E a \in archives : deleteTertiary(a)) \/ PruneByAge
  PROVE  DiskInv'
<1>1. /\ archives' \subseteq archives /\ UNCHANGED <<second, storing, doubled, unlike, crashed>>
    BY DEF deleteTertiary, PruneByAge
<1>2. OneWriterEach => OneWriterEach' BY <1>1 DEF OneWriterEach, BeingWritten, Working
<1>3. CASE \E a \in archives : deleteTertiary(a)
  <2>1. removed' = TRUE /\ UNCHANGED <<last_hash, run, unrecorded>> BY <1>3 DEF deleteTertiary
  <2>2. DiskTypeOK' BY <1>1, <2>1 DEF DiskInv, DiskTypeOK, Working
  <2> QED BY <1>1, <1>2, <2>1, <2>2 DEF DiskInv, Sound
<1>4. CASE PruneByAge
  <2>1. /\ run.at = "stored" /\ run' = Idling /\ removed' = removed
        /\ last_hash' = run.hash \/ (last_hash' = last_hash /\ unrecorded')
        /\ \E cutoff \in 0..run.since : archives' = {a \in archives : ModTime(a) >= cutoff}
      BY <1>4 DEF PruneByAge, RecordHash
  <2>2. run \in Run /\ run.since <= second /\ second \in Nat /\ run.since \in Nat
      BY <2>1 DEF DiskInv, DiskTypeOK, Idling, Run
  <2>3. run.hash \in SUBSET Files BY <2>2 DEF Run
  <2>4. ~Working("auto")' BY <1>1, <2>1 DEF DiskInv, DiskTypeOK, Working
  <2>51. last_hash' \in {Nothing} \cup SUBSET Files BY <2>1, <2>3 DEF DiskInv, DiskTypeOK
  <2>5. DiskTypeOK' BY <1>1, <2>1, <2>51, <2>4 DEF DiskInv, DiskTypeOK, Idling
  <2>6. ASSUME Sound' PROVE Recorded'
    <3>1. Recorded BY <1>1, <2>1, <2>6 DEF Sound, DiskInv
    <3>2. PICK a \in archives : a.whole /\ a.of = run.hash /\ a.mtime >= run.since
        BY <2>1, <3>1 DEF Recorded
    <3>3. a.mtime \in Nat BY DEF DiskInv, DiskTypeOK, Archive
    <3>4. ModTime(a) \in Nat /\ ModTime(a) >= run.since BY <2>2, <3>2, <3>3 DEF ModTime
    <3>5. a \in archives' BY <2>1, <2>2, <3>4
    <3>6. ~unrecorded' => StoredWhole(last_hash)' BY <2>1, <3>2, <3>5 DEF StoredWhole
    <3> QED BY <2>1, <2>4, <3>6 DEF Recorded, Idling
  <2> QED BY <1>1, <1>2, <2>5, <2>6 DEF DiskInv
<1> QED BY <1>3, <1>4

LEMMA DiskStep ==
  ASSUME DiskInv, TreeTypeOK, [ArchivesNext]_archiveVars
  PROVE  DiskInv'
<1>1. CASE storeTertiaryArchive \/ AutoStore BY <1>1, ArchiveBegun
<1>2. ASSUME NEW w \in {"page", "auto"}, Store(w) \/ ExportFails(w) PROVE DiskInv'
    BY <1>2, ArchiveEnds DEF Doers
<1>3. CASE (\E a \in archives : deleteTertiary(a)) \/ PruneByAge BY <1>3, ArchivesGo
<1>4. CASE Tick BY <1>4, DiskAlone DEF Tick, DiskInv, DiskTypeOK
<1>5. CASE RunForUser
  <2>1. /\ run = Idling /\ run' = [at |-> "hashed", hash |-> rows, since |-> second]
        /\ UNCHANGED <<second, archives, storing, last_hash, removed, doubled, unlike, unrecorded,
                       crashed>>
      BY <1>5 DEF RunForUser, computeFileHash
  <2>2. run' \in Run /\ run'.since = second /\ run'.at = "hashed" /\ second \in Nat
      BY <2>1 DEF Run, TreeTypeOK, DiskInv, DiskTypeOK
  <2>3. ~Working("auto") /\ run.at = "none" BY <2>1 DEF DiskInv, DiskTypeOK, Idling
  <2>4. DiskTypeOK' BY <2>1, <2>2, <2>3 DEF DiskInv, DiskTypeOK, Working
  <2>5. OneWriterEach => OneWriterEach' BY <2>1 DEF OneWriterEach, BeingWritten, Working
  <2>6. Recorded => Recorded' BY <2>1, <2>2, <2>3 DEF Recorded, StoredWhole, Working
  <2> QED BY <2>1, <2>4, <2>5, <2>6 DEF DiskInv, Sound
<1>6. CASE Dies
  <2>1. /\ crashed' = TRUE /\ storing' = [w \in DOMAIN storing |-> Idling] /\ run' = Idling
        /\ UNCHANGED <<second, archives, last_hash, removed, doubled, unlike>>
      BY <1>6 DEF Dies
  <2>2. DOMAIN storing = Doers BY DoersOfStoring DEF DiskInv
  <2>3. storing' \in [Doers -> {Idling} \cup Writing] /\ ~Working("auto")' /\ run'.at # "storing"
      BY <2>1, <2>2 DEF Working, Idling, Doers
  <2>4. DiskTypeOK' BY <2>1, <2>3 DEF DiskInv, DiskTypeOK
  <2> QED BY <2>1, <2>4 DEF DiskInv, Sound
<1>7. CASE \/ (\E f \in Files : Upload(f) \/ Purge(f)) \/ exportBackupArchive
           \/ (\E r \in Restores : \/ restoreBackupArchive(r) \/ WriteBlob(r) \/ Restored(r)
                                   \/ \E f \in Files : InsertRow(r, f))
           \/ UNCHANGED archiveVars
  <2>1. UNCHANGED <<second, archives, storing, last_hash, run, removed, doubled, unlike, unrecorded,
                    crashed>>
      BY <1>7 DEF Upload, Purge, exportBackupArchive, restoreBackupArchive, WriteBlob, Restored,
                  InsertRow, archiveVars, diskVars
  <2> QED BY <2>1, DiskAlone DEF DiskInv, DiskTypeOK
<1> QED BY <1>1, <1>2, <1>3, <1>4, <1>5, <1>6, <1>7 DEF ArchivesNext

-----------------------------------------------------------------------------
(* BackupArchives, the restores: a row without bytes is one whose blob some   *)
(* restore is about to write, whose row it is about to drop, or could not.     *)

Restoring == [at : {"none", "rows"}, todo : SUBSET Files, has : SUBSET Files, half : SUBSET Files,
              skipped : SUBSET Files]
Device == {NoArchive} \cup [of : SUBSET Files, has : SUBSET Files]

RestoreInv ==
  /\ TreeTypeOK /\ device \in Device
  /\ restore \in [Restores -> Restoring]
  /\ \A r \in Restores : restore[r].at = "none" => restore[r].todo = {} /\ restore[r].half = {}
  /\ crashed \/ rows \ bytes \subseteq Half \cup stuck

\* A restore's record changes: what it was halfway through is no row without bytes.
LEMMA RestoreGoesOn ==
  ASSUME RestoreInv, NEW r \in Restores, NEW next \in Restoring,
         restore' = [restore EXCEPT ![r] = next],
         next.at = "none" => next.todo = {} /\ next.half = {},
         TreeTypeOK', rows' \ bytes' \subseteq (rows \ bytes) \cup next.half,
         (rows' \ bytes') \cap restore[r].half \subseteq next.half \cup stuck', stuck \subseteq stuck',
         device' \in Device, UNCHANGED crashed
  PROVE  RestoreInv'
<1>1. /\ restore' \in [Restores -> Restoring] /\ restore'[r] = next
      /\ \A q \in Restores : q # r => restore'[q] = restore[q]
    BY DEF RestoreInv
<1>2. ASSUME ~crashed, NEW f \in rows' \ bytes' PROVE f \in Half' \cup stuck'
  <2>1. CASE f \in next.half BY <1>1, <2>1 DEF Half
  <2>2. CASE f \notin next.half /\ f \notin stuck'
    <3>1. f \in Half BY <1>2, <2>2 DEF RestoreInv
    <3>2. PICK q \in Restores : f \in restore[q].half BY <3>1 DEF Half
    <3>3. q # r BY <1>2, <2>2, <3>2
    <3> QED BY <1>1, <3>2, <3>3 DEF Half
  <2> QED BY <2>1, <2>2
<1> QED BY <1>1, <1>2 DEF RestoreInv

LEMMA RestoreStep ==
  ASSUME RestoreInv, [ArchivesNext]_archiveVars
  PROVE  RestoreInv'
<1>1. ASSUME NEW f \in Files, Upload(f) \/ Purge(f) PROVE RestoreInv'
  <2>1. /\ UNCHANGED <<device, restore, crashed>> /\ TreeTypeOK'
        /\ rows' \ bytes' \subseteq rows \ bytes /\ (rows' \ bytes') \cap stuck \subseteq stuck'
      BY <1>1 DEF Upload, Purge, restoreVars, RestoreInv, TreeTypeOK
  <2> QED BY <2>1 DEF RestoreInv, Half
<1>2. ASSUME NEW r \in Restores,
             restoreBackupArchive(r) \/ WriteBlob(r) \/ Restored(r)
             \/ \E f \in Files : InsertRow(r, f)
      PROVE  RestoreInv'
  <2>1. restore[r] \in Restoring /\ rows \subseteq Files /\ bytes \subseteq Files
        /\ restore[r].half \subseteq Files /\ restore[r].todo \subseteq Files
      BY DEF RestoreInv, Restoring, TreeTypeOK
  <2>2. CASE restoreBackupArchive(r)
    <3> DEFINE next == [NoRestore EXCEPT !.at = "rows", !.todo = device.of, !.has = device.has]
    <3>1. /\ restore' = [restore EXCEPT ![r] = next] /\ device # NoArchive
          /\ restore[r].at = "none" /\ UNCHANGED <<rows, bytes, device, stuck, crashed>>
        BY <2>2 DEF restoreBackupArchive, treeVars
    <3>2. device.of \in SUBSET Files /\ device.has \in SUBSET Files
        BY <3>1 DEF RestoreInv, Device
    <3>3. next \in Restoring /\ next.at = "rows" /\ next.half = {}
        BY <3>2 DEF NoRestore, Restoring
    <3> HIDE DEF next
    <3>4. restore[r].half = {} BY <3>1 DEF RestoreInv
    <3> QED BY <3>1, <3>2, <3>3, <3>4, RestoreGoesOn DEF RestoreInv, TreeTypeOK
  <2>3. CASE WriteBlob(r)
    <3> DEFINE next == [restore[r] EXCEPT !.half = {}]
    <3>1. /\ restore' = [restore EXCEPT ![r] = next] /\ restore[r].half # {}
          /\ \/ bytes' = bytes \cup restore[r].half /\ rows' = rows /\ stuck' = stuck
             \/ rows' = rows \ restore[r].half /\ bytes' = bytes /\ stuck' = stuck
             \/ rows' = rows /\ bytes' = bytes /\ stuck' = stuck \cup restore[r].half
          /\ UNCHANGED <<device, crashed>>
        BY <2>3 DEF WriteBlob, DropRow, RestoreInv
    <3>2. next \in Restoring /\ next.at = restore[r].at /\ next.half = {}
        BY <2>1 DEF Restoring
    <3> HIDE DEF next
    <3>3. next.at # "none" BY <3>1, <3>2 DEF RestoreInv
    <3>4. /\ TreeTypeOK' /\ rows' \ bytes' \subseteq rows \ bytes
          /\ (rows' \ bytes') \cap restore[r].half \subseteq next.half \cup stuck'
          /\ stuck \subseteq stuck'
        BY <2>1, <3>1 DEF TreeTypeOK
    <3>5. device' \in Device BY <3>1 DEF RestoreInv
    <3> QED BY <3>1, <3>2, <3>3, <3>4, <3>5, RestoreGoesOn
  <2>4. CASE Restored(r)
    <3>1. /\ restore' = [restore EXCEPT ![r] = NoRestore] /\ restore[r].half = {}
          /\ device' \in {device, NoArchive} /\ UNCHANGED <<rows, bytes, stuck, crashed>>
        BY <2>4 DEF Restored, treeVars
    <3>2. NoRestore \in Restoring /\ NoRestore.todo = {} /\ NoRestore.half = {}
        BY DEF NoRestore, Restoring
    <3>3. device' \in Device BY <3>1 DEF RestoreInv, Device
    <3>4. TreeTypeOK' BY <2>1, <3>1 DEF TreeTypeOK
    <3> QED BY <3>1, <3>2, <3>3, <3>4, RestoreGoesOn
  <2>5. ASSUME NEW f \in Files, InsertRow(r, f) PROVE RestoreInv'
    <3> DEFINE half == IF f \in rows THEN {} ELSE {f}
               skipped == IF f \in rows THEN restore[r].skipped \cup {f} ELSE restore[r].skipped
               next == [at |-> restore[r].at, todo |-> restore[r].todo \ {f}, has |-> restore[r].has,
                        half |-> half, skipped |-> skipped]
    <3>1. /\ f \in restore[r].todo /\ restore[r].half = {} /\ rows' = rows \cup {f}
          /\ UNCHANGED <<bytes, device, stuck, crashed>>
        BY <2>5 DEF InsertRow
    <3>2. restore' = [restore EXCEPT ![r] = next]
      <4>1. restore' = [restore EXCEPT ![r].todo = @ \ {f}, ![r].half = half, ![r].skipped = skipped]
          BY <2>5 DEF InsertRow
      <4> HIDE DEF half, skipped
      <4>2. /\ \A q \in Restores : q # r => restore'[q] = restore[q]
            /\ restore'[r] = [restore[r] EXCEPT !.todo = @ \ {f}, !.half = half, !.skipped = skipped]
            /\ restore' = [q \in Restores |-> restore'[q]]
          BY <4>1 DEF RestoreInv
      <4>3. restore'[r] = next BY <2>1, <4>2 DEF Restoring
      <4> QED BY <4>2, <4>3 DEF RestoreInv
    <3>3. next \in Restoring /\ next.at = restore[r].at /\ next.half = half
      <4>1. half \in SUBSET Files /\ skipped \in SUBSET Files BY <2>1 DEF Restoring
      <4> HIDE DEF half, skipped
      <4> QED BY <2>1, <4>1 DEF Restoring
    <3> HIDE DEF next
    <3>4. next.at # "none" BY <3>1, <3>3 DEF RestoreInv
    <3>5. /\ TreeTypeOK' /\ rows' \ bytes' \subseteq (rows \ bytes) \cup next.half
          /\ (rows' \ bytes') \cap restore[r].half \subseteq next.half
        BY <2>1, <3>1, <3>3 DEF TreeTypeOK
    <3>6. device' \in Device BY <3>1 DEF RestoreInv
    <3> QED BY <3>1, <3>2, <3>3, <3>4, <3>5, <3>6, RestoreGoesOn
  <2> QED BY <1>2, <2>2, <2>3, <2>4, <2>5
<1>3. CASE exportBackupArchive
  <2>1. UNCHANGED <<rows, bytes, restore, stuck, crashed>>
      BY <1>3 DEF exportBackupArchive, treeVars
  <2>2. PICK skipped : device' = [of |-> rows, has |-> rows \ skipped]
      BY <1>3 DEF exportBackupArchive, queryExportRecords
  <2>3. device' \in Device BY <2>2 DEF Device, RestoreInv, TreeTypeOK
  <2> QED BY <2>1, <2>3 DEF RestoreInv, TreeTypeOK, Half
<1>4. CASE Dies
  <2>1. /\ crashed' = TRUE /\ restore' = [r \in Restores |-> NoRestore]
        /\ UNCHANGED <<rows, bytes, device>>
      BY <1>4 DEF Dies, treeVars
  <2>2. NoRestore \in Restoring /\ NoRestore.todo = {} /\ NoRestore.half = {}
      BY DEF NoRestore, Restoring
  <2> QED BY <2>1, <2>2 DEF RestoreInv, TreeTypeOK
<1>5. CASE \/ Tick \/ storeTertiaryArchive \/ RunForUser \/ AutoStore \/ PruneByAge
           \/ (\E w \in {"page", "auto"} : Store(w) \/ ExportFails(w))
           \/ (\E a \in archives : deleteTertiary(a)) \/ UNCHANGED archiveVars
  <2>1. UNCHANGED <<rows, bytes, device, restore, stuck, crashed>>
      BY <1>5 DEF Tick, storeTertiaryArchive, RunForUser, AutoStore, PruneByAge, Store, ExportFails,
                  deleteTertiary, archiveVars, treeVars, restoreVars
  <2> QED BY <2>1 DEF RestoreInv, TreeTypeOK, Half
<1> QED BY <1>1, <1>2, <1>3, <1>4, <1>5 DEF ArchivesNext

\* The backup the scheduler would skip is on the disk, what nobody writes is whole, and
\* what a restore brought back has its bytes; each short of what the property names.
THEOREM ArchivesAreThere == ArchivesSpec => []ArchivesHold
<1>1. ArchivesInit => DiskInv /\ RestoreInv
  <2> SUFFICES ASSUME ArchivesInit PROVE DiskInv /\ RestoreInv OBVIOUS
  <2>1. /\ archives = {} /\ last_hash = Nothing /\ run = Idling /\ second = 1
        /\ storing = [w \in Doers |-> Idling]
        /\ removed = FALSE /\ doubled = FALSE /\ crashed = FALSE /\ unlike = FALSE
      BY DEF ArchivesInit, Doers
  <2>2. \A w \in Doers : ~Working(w) BY <2>1 DEF Working, Idling
  <2>3. run.at = "none" BY <2>1 DEF Idling
  <2>4. DiskTypeOK BY <2>1, <2>2, <2>3 DEF DiskTypeOK, Doers
  <2>5. OneWriterEach /\ Recorded BY <2>1, <2>2, <2>3 DEF OneWriterEach, Recorded, Doers
  <2>6. RestoreInv
    <3>1. NoRestore \in Restoring /\ NoRestore.todo = {} /\ NoRestore.half = {}
        BY DEF NoRestore, Restoring
    <3> QED BY <3>1 DEF ArchivesInit, RestoreInv, TreeTypeOK, Device
  <2> QED BY <2>4, <2>5, <2>6 DEF DiskInv
<1>2. DiskInv /\ RestoreInv /\ [ArchivesNext]_archiveVars => DiskInv' /\ RestoreInv'
    BY DiskStep, RestoreStep DEF RestoreInv
<1>3. DiskInv /\ RestoreInv => ArchivesHold
  <2> SUFFICES ASSUME DiskInv, RestoreInv PROVE ArchivesHold OBVIOUS
  <2>1. SkippedIsStored
    <3> SUFFICES ASSUME run = Idling, last_hash = rows, Sound, ~unrecorded
                 PROVE  \E a \in archives : a.whole /\ rows \subseteq Holds(a) \cup a.skipped
        BY DEF SkippedIsStored, Sound
    <3>1. last_hash # Nothing BY ArchivesAssumption DEF Nothing, RestoreInv, TreeTypeOK
    <3>2. StoredWhole(last_hash) BY <3>1 DEF DiskInv, Recorded, Idling
    <3> QED BY <3>2 DEF StoredWhole, Holds
  <2>2. ListedIsWhole BY DEF ListedIsWhole, DiskInv, OneWriterEach
  <2>3. RestoredHasBytes BY DEF RestoredHasBytes, RestoreInv
  <2> QED BY <2>1, <2>2, <2>3 DEF ArchivesHold
<1> QED BY <1>1, <1>2, <1>3, PTL DEF ArchivesSpec

=============================================================================
