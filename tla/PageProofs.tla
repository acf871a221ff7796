----------------------------- MODULE PageProofs -----------------------------
(***************************************************************************)
(* Theorems about the pages a user works with: the trash, the text editor, *)
(* signing in, the share target, a shared screen, and the shares a user    *)
(* has given, each for any value of its constants.                         *)
(***************************************************************************)
EXTENDS TrashPage, TextEditor, SignIn, ShareTarget, MeetingScreen, Sharing,
        FiniteSetTheorems, SequenceTheorems, TLAPS

-----------------------------------------------------------------------------
(* TrashPage: a file that a deletion has looked up and that is no longer in *)
(* the trash was restored by a call that the page knows to overlap it, or   *)
(* emptying has found it in a folder of the trash.                          *)

TrashOps == Restores \cup Deletes
TrashCalls == [at: {"sent", "found"}, op: TrashOps, ids: SUBSET Trash, todo: SUBSET Trash,
               found: SUBSET Trash, did: SUBSET Trash]

TrashTypeOK ==
  /\ status \in [Trash -> {"live", "trash", "gone"}]
  /\ items \in (SUBSET Trash) \cup {Unlisted}
  /\ fetch \in {NotFetched, Refetch} \cup [at: {"answered"}, found: SUBSET Trash]
  /\ selectedRows \in SUBSET Trash
  /\ madeCalls \in 0..MaxTrashCalls
  /\ trashCalls \in [1..MaxTrashCalls -> {NoCall} \cup TrashCalls]
  /\ \A n \in 1..MaxTrashCalls : n > madeCalls => trashCalls[n] = NoCall

OnTheWay == {n \in 1..MaxTrashCalls : trashCalls[n].at # "none"}

Buried(f) == f \in Inside /\ status[TrashedFolder] = "trash"

FoundOK(n) ==
  /\ trashCalls[n].found \subseteq trashCalls[n].ids
  /\ trashCalls[n].todo \subseteq trashCalls[n].ids
  /\ trashCalls[n].op = "empty" => trashCalls[n].ids = Trash
  /\ trashCalls[n].found # {} => trashCalls[n].op \in Deletes
  /\ \A f \in trashCalls[n].found : status[f] = "live" =>
       f \in crossing \/ (trashCalls[n].op = "empty" /\ Buried(f))

\* A restoration of a file or of its folder overlaps a deletion that reaches it.
OverlapsKnown ==
  \A n, m \in OnTheWay : trashCalls[n].op \in Restores /\ trashCalls[m].op \in Deletes =>
      trashCalls[n].ids \cap With(trashCalls[m].ids) \subseteq crossing

\* What is in the folder shares its fate.
FolderOK ==
  /\ TrashedFolder \in crossing => Inside \subseteq crossing
  /\ status[TrashedFolder] = "gone" => \A g \in Inside : status[g] = "gone"

TrashInv ==
  /\ TrashTypeOK /\ (\A n \in OnTheWay : FoundOK(n)) /\ OverlapsKnown /\ FolderOK
  /\ OnlyTrashDeleted

LEMMA WithIs ==
  ASSUME NEW ids, ids \subseteq Trash
  PROVE  /\ With(ids) \subseteq Trash /\ ids \subseteq With(ids)
         /\ TrashedFolder \in With(ids) <=> TrashedFolder \in ids
         /\ TrashedFolder \in ids => Inside \subseteq With(ids)
         /\ \A g \in With(ids) : g \in ids \/ (TrashedFolder \in ids /\ g \in Inside)
BY TrashAssumption DEF With

LEMMA TrashCallIs ==
  ASSUME TrashTypeOK, NEW n \in OnTheWay
  PROVE  n \in 1..MaxTrashCalls /\ trashCalls[n] \in TrashCalls
BY DEF TrashTypeOK, OnTheWay, NoCall

LEMMA UnderWayIs ==
  ASSUME NEW ops, NEW f
  PROVE  f \in UnderWay(ops) <=> \E n \in OnTheWay : trashCalls[n].op \in ops /\ f \in trashCalls[n].ids
BY DEF UnderWay, OnTheWay

\* The list, its ticks, and a file put in the trash again.
LEMMA TrashListInv ==
  ASSUME TrashInv,
         \/ ListTrash \/ TakeList \/ FetchFails \/ Refocus
         \/ \E f \in Trash, add \in BOOLEAN : onSelect(f, add)
         \/ \E f \in Trash : SoftDelete(f)
  PROVE  TrashInv'
<1>1. UNCHANGED <<trashCalls, madeCalls, waiting, crossing, lost, buried>>
    BY DEF ListTrash, TakeList, FetchFails, Refocus, onSelect, SoftDelete
<1>2. OnTheWay' = OnTheWay BY <1>1 DEF OnTheWay
<1>3. /\ status' \in [Trash -> {"live", "trash", "gone"}]
      /\ \A f \in Trash : /\ status'[f] = "live" => status[f] = "live"
                          /\ status[f] = "trash" => status'[f] = "trash"
                          /\ status'[f] = "gone" <=> status[f] = "gone"
  <2>1. CASE status' = status BY <2>1 DEF TrashInv, TrashTypeOK
  <2>2. ASSUME NEW f \in Trash, SoftDelete(f)
        PROVE  status' = [g \in Trash |-> IF g \in With({f}) /\ status[g] = "live"
                                         THEN "trash" ELSE status[g]]
      BY <2>2 DEF SoftDelete
  <2>3. CASE \E f \in Trash : SoftDelete(f) BY <2>2, <2>3 DEF TrashInv, TrashTypeOK
  <2> QED BY <2>1, <2>3 DEF ListTrash, TakeList, FetchFails, Refocus, onSelect
<1>4. items' \in (SUBSET Trash) \cup {Unlisted}
  <2>1. items' = items \/ (fetch.at = "answered" /\ items' = fetch.found)
      BY DEF ListTrash, TakeList, FetchFails, Refocus, onSelect, SoftDelete
  <2>2. fetch.at = "answered" => fetch \in [at: {"answered"}, found: SUBSET Trash]
      BY DEF TrashInv, TrashTypeOK, NotFetched, Refetch
  <2>3. fetch.at = "answered" => fetch.found \in SUBSET Trash BY <2>2
  <2>4. items \in (SUBSET Trash) \cup {Unlisted} BY DEF TrashInv, TrashTypeOK
  <2> QED BY <2>1, <2>3, <2>4
<1>5. fetch' \in {NotFetched, Refetch} \cup [at: {"answered"}, found: SUBSET Trash]
  <2>1. \/ fetch' \in {fetch, NotFetched, Refetch}
        \/ fetch' = [at |-> "answered", found |-> {f \in Trash : status[f] = "trash"}]
      BY DEF ListTrash, TakeList, FetchFails, Refocus, onSelect, SoftDelete
  <2>2. {f \in Trash : status[f] = "trash"} \in SUBSET Trash OBVIOUS
  <2>3. fetch \in {NotFetched, Refetch} \cup [at: {"answered"}, found: SUBSET Trash]
      BY DEF TrashInv, TrashTypeOK
  <2> QED BY <2>1, <2>2, <2>3
<1>6. selectedRows' \in SUBSET Trash
    BY DEF ListTrash, TakeList, FetchFails, Refocus, onSelect, SoftDelete, TrashInv,
           TrashTypeOK
<1>7. TrashTypeOK' BY <1>1, <1>3, <1>4, <1>5, <1>6 DEF TrashInv, TrashTypeOK
<1>8. ASSUME NEW n \in OnTheWay PROVE FoundOK(n)'
    BY <1>1, <1>3, TrashCallIs, TrashAssumption DEF TrashInv, FoundOK, TrashCalls, Buried
<1>9. FolderOK' BY <1>1, <1>3, TrashAssumption DEF TrashInv, FolderOK
<1>10. OverlapsKnown' BY <1>1, <1>2 DEF TrashInv, OverlapsKnown, With
<1> QED BY <1>1, <1>2, <1>7, <1>8, <1>9, <1>10 DEF TrashInv, OnlyTrashDeleted

\* A call is sent for files of the list.
LEMMA CallInv ==
  ASSUME TrashInv, NEW op \in TrashOps, NEW ids \in SUBSET Trash, Call(op, ids),
         op = "empty" => ids = Trash
  PROVE  TrashInv'
<1> DEFINE c == [at |-> "sent", op |-> op, ids |-> ids, todo |-> ids, found |-> {}, did |-> {}]
           i == madeCalls + 1
<1>1. /\ madeCalls < MaxTrashCalls /\ madeCalls' = i
      /\ trashCalls' = [trashCalls EXCEPT ![i] = c]
      /\ crossing' = crossing \cup
            With(IF op \in Restores THEN ids \cap With(UnderWay(Deletes))
                 ELSE With(ids) \cap UnderWay(Restores))
      /\ UNCHANGED <<status, items, fetch, selectedRows, lost, buried>>
    BY DEF Call
<1>2. i \in 1..MaxTrashCalls /\ trashCalls[i] = NoCall /\ madeCalls \in Nat
      /\ MaxTrashCalls \in Nat
    BY <1>1, TrashAssumption DEF TrashInv, TrashTypeOK
<1>3. /\ c \in TrashCalls /\ c.at = "sent" /\ c.op = op /\ c.ids = ids /\ c.todo = ids
      /\ c.found = {}
    BY DEF TrashCalls
<1> HIDE DEF c
<1>4. TrashTypeOK' BY <1>1, <1>2, <1>3 DEF TrashInv, TrashTypeOK
<1>5. OnTheWay' = OnTheWay \cup {i} /\ i \notin OnTheWay
      /\ trashCalls'[i] = c /\ \A n \in OnTheWay : trashCalls'[n] = trashCalls[n]
    BY <1>1, <1>2, <1>3 DEF OnTheWay, NoCall, TrashInv, TrashTypeOK
<1>6. ASSUME NEW n, n = i PROVE FoundOK(n)'
    BY <1>3, <1>5, <1>6 DEF FoundOK
<1>7. ASSUME NEW n \in OnTheWay PROVE FoundOK(n)'
    BY <1>1, <1>5 DEF TrashInv, FoundOK, Buried
<1>10. UnderWay(Deletes) \subseteq Trash
  <2>1. \A n \in OnTheWay : trashCalls[n].ids \subseteq Trash
      BY TrashCallIs DEF TrashInv, TrashCalls
  <2> QED BY <2>1, UnderWayIs
<1>11. PICK X \in SUBSET Trash :
        /\ crossing' = crossing \cup With(X)
        /\ op \in Restores => X = ids \cap With(UnderWay(Deletes))
        /\ op \notin Restores => X = With(ids) \cap UnderWay(Restores)
    BY <1>1, <1>10, WithIs
<1>12. FolderOK'
    BY <1>1, <1>11, WithIs DEF TrashInv, FolderOK
<1>8. OverlapsKnown'
  <2> SUFFICES ASSUME NEW n \in OnTheWay', NEW m \in OnTheWay',
                      trashCalls'[n].op \in Restores, trashCalls'[m].op \in Deletes,
                      NEW f \in trashCalls'[n].ids \cap With(trashCalls'[m].ids)
               PROVE  f \in crossing'
      BY DEF OverlapsKnown, With
  <2>1. Restores \cap Deletes = {} BY DEF Restores, Deletes
  <2>2. CASE n \in OnTheWay /\ m \in OnTheWay
      BY <1>1, <1>5, <2>2 DEF TrashInv, OverlapsKnown
  <2>3. CASE n = i /\ m \in OnTheWay
    <3>1. trashCalls[m].ids \subseteq UnderWay(Deletes) BY <1>5, <2>3, UnderWayIs
    <3>2. With(trashCalls[m].ids) \subseteq With(UnderWay(Deletes)) BY <3>1 DEF With
    <3>3. op \in Restores /\ f \in ids /\ f \in With(trashCalls[m].ids) BY <1>3, <1>5, <2>3
    <3> QED BY <1>11, <3>2, <3>3, WithIs
  <2>4. CASE m = i /\ n \in OnTheWay
    <3>1. op \notin Restores /\ f \in With(ids) BY <1>3, <1>5, <2>1, <2>4
    <3>2. f \in UnderWay(Restores) BY <1>5, <2>4, UnderWayIs
    <3> QED BY <1>11, <3>1, <3>2, WithIs
  <2>5. CASE m = i /\ n = i BY <1>5, <2>1, <2>5
  <2> QED BY <1>5, <2>2, <2>3, <2>4, <2>5
<1>9. OnlyTrashDeleted' BY <1>1 DEF TrashInv, OnlyTrashDeleted
<1> QED BY <1>4, <1>5, <1>6, <1>7, <1>8, <1>9, <1>12 DEF TrashInv

\* One file of a call is restored, looked up, deleted or left.
LEMMA TrashFileInv ==
  ASSUME TrashInv, NEW n \in 1..MaxTrashCalls, NEW f \in Trash,
         Restore(n, f) \/ LookUp(n, f) \/ DeleteRow(n, f) \/ LeaveRow(n, f)
  PROVE  TrashInv'
<1>1. UNCHANGED <<items, fetch, selectedRows, madeCalls, crossing>>
    BY DEF Restore, LookUp, DeleteRow, LeaveRow
<1>2. n \in OnTheWay /\ trashCalls[n] \in TrashCalls /\ FoundOK(n)
    BY TrashCallIs DEF Restore, LookUp, DeleteRow, LeaveRow, OnTheWay, TrashInv, NoCall
<1>3. PICK d \in TrashCalls :
        /\ trashCalls' = [trashCalls EXCEPT ![n] = d]
        /\ d.at = trashCalls[n].at /\ d.op = trashCalls[n].op /\ d.ids = trashCalls[n].ids
        /\ d.todo \subseteq trashCalls[n].todo
        /\ \/ d.found \subseteq trashCalls[n].found
           \/ /\ LookUp(n, f) /\ InTrash(f) /\ d.found = {f} /\ f \in trashCalls[n].todo
              /\ trashCalls[n].op \in {"delete", "bulkDelete"}
  <2>1. CASE Restore(n, f)
    <3> DEFINE d == [trashCalls[n] EXCEPT
                      !.todo = @ \ {f}, !.did = IF status[f] = "trash" THEN @ \cup {f} ELSE @]
    <3>1. d \in TrashCalls BY <1>2 DEF TrashCalls
    <3>2. trashCalls' = [trashCalls EXCEPT ![n] = d]
        BY <1>2, <2>1 DEF Restore, TrashInv, TrashTypeOK
    <3> QED BY <1>2, <3>1, <3>2 DEF TrashCalls
  <2>2. CASE LookUp(n, f) /\ InTrash(f)
    <3> DEFINE d == [trashCalls[n] EXCEPT !.found = {f}]
    <3>1. d \in TrashCalls BY <1>2 DEF TrashCalls
    <3>2. trashCalls' = [trashCalls EXCEPT ![n] = d]
        BY <1>2, <2>2 DEF LookUp, TrashInv, TrashTypeOK
    <3> QED BY <1>2, <2>2, <3>1, <3>2 DEF TrashCalls, LookUp
  <2>3. CASE LookUp(n, f) /\ ~InTrash(f)
    <3> DEFINE d == [trashCalls[n] EXCEPT !.todo = @ \ {f}]
    <3>1. d \in TrashCalls BY <1>2 DEF TrashCalls
    <3>2. trashCalls' = [trashCalls EXCEPT ![n] = d]
        BY <1>2, <2>3 DEF LookUp, TrashInv, TrashTypeOK
    <3> QED BY <1>2, <3>1, <3>2 DEF TrashCalls
  <2>4. CASE DeleteRow(n, f)
    <3> DEFINE d == [trashCalls[n] EXCEPT !.todo = @ \ {f}, !.found = @ \ {f}, !.did = @ \cup {f}]
    <3>1. d \in TrashCalls BY <1>2 DEF TrashCalls
    <3>2. trashCalls' = [trashCalls EXCEPT ![n] = d]
        BY <1>2, <2>4 DEF DeleteRow, TrashInv, TrashTypeOK
    <3> QED BY <1>2, <3>1, <3>2 DEF TrashCalls
  <2>5. CASE LeaveRow(n, f)
    <3> DEFINE d == [trashCalls[n] EXCEPT !.todo = @ \ {f}, !.found = @ \ {f}]
    <3>1. d \in TrashCalls BY <1>2 DEF TrashCalls
    <3>2. trashCalls' = [trashCalls EXCEPT ![n] = d]
        BY <1>2, <2>5 DEF LeaveRow, TrashInv, TrashTypeOK
    <3> QED BY <1>2, <3>1, <3>2 DEF TrashCalls
  <2> QED BY <2>1, <2>2, <2>3, <2>4, <2>5
<1>4. /\ status' \in [Trash -> {"live", "trash", "gone"}]
      /\ \A g \in Trash :
           /\ status'[g] = "live" => status[g] = "live" \/ (Restore(n, f) /\ g = f)
           /\ status[g] = "gone" => status'[g] = "gone"
           /\ status[g] = "trash" /\ status'[g] # "trash" =>
                 (Restore(n, f) /\ g = f) \/ (DeleteRow(n, f) /\ g \in With({f}))
           /\ DeleteRow(n, f) /\ g \in With({f}) => status'[g] = "gone"
           /\ status'[g] = "gone" => status[g] = "gone" \/ (DeleteRow(n, f) /\ g \in With({f}))
    BY DEF Restore, LookUp, DeleteRow, LeaveRow, TrashInv, TrashTypeOK
<1>10. /\ With({f}) \subseteq Trash /\ f \in With({f})
       /\ TrashedFolder \in With({f}) => f = TrashedFolder /\ Inside \subseteq With({f})
       /\ \A g \in With({f}) : g = f \/ (f = TrashedFolder /\ g \in Inside)
       /\ TrashedFolder \in Trash /\ Inside \subseteq Trash \ {TrashedFolder}
    BY TrashAssumption DEF With
<1>11. FolderOK'
    BY <1>1, <1>4, <1>10 DEF TrashInv, FolderOK
<1>5. TrashTypeOK' BY <1>1, <1>2, <1>3, <1>4 DEF TrashInv, TrashTypeOK, OnTheWay, NoCall
<1>6. OnTheWay' = OnTheWay /\ trashCalls'[n] = d
      /\ \A m \in OnTheWay \ {n} : trashCalls'[m] = trashCalls[m]
    BY <1>2, <1>3 DEF OnTheWay, TrashInv, TrashTypeOK
<1>7. OverlapsKnown' BY <1>1, <1>3, <1>6 DEF TrashInv, OverlapsKnown, With
<1>8. ASSUME NEW m \in OnTheWay PROVE FoundOK(m)'
  <2>1. trashCalls[m] \in TrashCalls /\ FoundOK(m) BY TrashCallIs DEF TrashInv
  <2>2. ASSUME NEW g \in trashCalls[m].found, status'[g] = "live"
        PROVE  g \in crossing \/ (trashCalls[m].op = "empty" /\ Buried(g)')
    <3>1. CASE status[g] = "live"
      <4>1. CASE g \in crossing BY <4>1
      <4>2. CASE trashCalls[m].op = "empty" /\ Buried(g)
        <5>1. CASE status'[TrashedFolder] = "trash" BY <4>2, <5>1 DEF Buried
        <5>2. CASE DeleteRow(n, f) /\ TrashedFolder \in With({f})
            BY <1>4, <1>10, <2>2, <4>2, <5>2 DEF Buried
        <5>3. CASE Restore(n, f) /\ f = TrashedFolder
          <6>1. trashCalls[n].op \in Restores /\ f \in trashCalls[n].ids
              BY <1>2, <5>3 DEF Restore, FoundOK
          <6>2. trashCalls[m].op \in Deletes /\ trashCalls[m].ids = Trash
              BY <2>1, <4>2 DEF FoundOK, Deletes
          <6>3. f \in With(trashCalls[m].ids) BY <6>2, WithIs
          <6>4. f \in crossing BY <1>2, <6>1, <6>2, <6>3 DEF TrashInv, OverlapsKnown
          <6> QED BY <4>2, <5>3, <6>4 DEF TrashInv, FolderOK, Buried
        <5> QED BY <1>4, <1>10, <4>2, <5>1, <5>2, <5>3 DEF Buried
      <4> QED BY <2>1, <2>2, <3>1, <4>1, <4>2 DEF FoundOK
    <3>2. CASE Restore(n, f) /\ g = f
      <4>1. trashCalls[n].op \in Restores /\ f \in trashCalls[n].ids
          BY <1>2, <3>2 DEF Restore, FoundOK
      <4>2. trashCalls[m].op \in Deletes /\ f \in With(trashCalls[m].ids)
          BY <2>1, <3>2, WithIs DEF FoundOK, TrashCalls
      <4> QED BY <1>2, <3>2, <4>1, <4>2 DEF TrashInv, OverlapsKnown
    <3> QED BY <1>4, <2>1, <2>2, <3>1, <3>2 DEF TrashCalls
  <2>3. CASE m # n BY <1>1, <1>6, <2>1, <2>2, <2>3 DEF FoundOK, Buried
  <2>4. CASE m = n
    <3>1. ASSUME NEW g \in d.found, status'[g] = "live"
          PROVE  g \in crossing \/ (d.op = "empty" /\ Buried(g)')
      <4>1. CASE g \in trashCalls[n].found BY <1>3, <2>2, <2>4, <3>1, <4>1
      <4>2. CASE LookUp(n, f) /\ InTrash(f) /\ g = f
          BY <3>1, <4>2 DEF LookUp, InTrash
      <4> QED BY <1>3, <3>1, <4>1, <4>2
    <3>2. d.found \subseteq d.ids /\ d.todo \subseteq d.ids
        BY <1>2, <1>3 DEF FoundOK
    <3>3. d.op = "empty" => d.ids = Trash BY <1>2, <1>3 DEF FoundOK
    <3>4. d.found # {} => d.op \in Deletes BY <1>2, <1>3 DEF FoundOK, Deletes
    <3> QED BY <1>1, <1>6, <2>4, <3>1, <3>2, <3>3, <3>4 DEF FoundOK, Buried
  <2> QED BY <2>3, <2>4
<1>9. OnlyTrashDeleted'
  <2>1. CASE DeleteRow(n, f)
    <3>1. /\ f \in trashCalls[n].found /\ lost' = lost \cup {g \in With({f}) : status[g] = "live"}
          /\ buried' = IF status[TrashedFolder] # "trash" THEN buried
                       ELSE buried \cup {g \in With({f}) \cap Inside : status[g] = "live"}
        BY <2>1 DEF DeleteRow
    <3>2. ASSUME NEW g \in With({f}), status[g] = "live" PROVE g \in crossing \cup buried'
      <4>1. CASE status[TrashedFolder] = "trash" /\ g \in Inside BY <3>1, <3>2, <4>1
      <4>2. CASE g = f /\ ~(status[TrashedFolder] = "trash" /\ g \in Inside)
          BY <1>2, <3>1, <3>2, <4>2 DEF FoundOK, Buried
      <4>3. CASE f = TrashedFolder /\ g \in Inside /\ status[TrashedFolder] # "trash"
        <5>1. status[f] = "live"
            BY <1>10, <3>2, <4>3 DEF TrashInv, FolderOK, TrashTypeOK
        <5>2. f \in crossing BY <1>2, <1>10, <3>1, <4>3, <5>1 DEF FoundOK, Buried
        <5> QED BY <4>3, <5>2 DEF TrashInv, FolderOK
      <4> QED BY <1>10, <4>1, <4>2, <4>3
    <3>3. buried \subseteq buried' BY <3>1
    <3> QED BY <1>1, <3>1, <3>2, <3>3 DEF TrashInv, OnlyTrashDeleted
  <2>2. CASE UNCHANGED <<lost, buried>> BY <1>1, <2>2 DEF TrashInv, OnlyTrashDeleted
  <2> QED BY <2>1, <2>2 DEF Restore, LookUp, LeaveRow
<1> QED BY <1>5, <1>6, <1>7, <1>8, <1>9, <1>11 DEF TrashInv

LEMMA EmptyAllInv ==
  ASSUME TrashInv, NEW n \in 1..MaxTrashCalls, EmptyTrashAll(n)
  PROVE  TrashInv'
<1> DEFINE all == {f \in Trash : InTrash(f)} \cup Descendants
           d == [trashCalls[n] EXCEPT !.at = "found", !.todo = all, !.found = all]
<1>1. n \in OnTheWay /\ trashCalls[n] \in TrashCalls /\ FoundOK(n)
    BY TrashCallIs DEF EmptyTrashAll, OnTheWay, TrashInv, NoCall
<1>2. /\ trashCalls[n].op = "empty" /\ trashCalls' = [trashCalls EXCEPT ![n] = d]
      /\ UNCHANGED <<status, items, fetch, selectedRows, madeCalls, crossing, lost, buried>>
    BY DEF EmptyTrashAll
<1>3. all \in SUBSET Trash /\ \A f \in all : status[f] = "live" => Buried(f)
    BY TrashAssumption DEF InTrash, Descendants, Buried
<1> HIDE DEF all
<1>4. /\ d \in TrashCalls /\ d.at = "found" /\ d.op = "empty" /\ d.ids = trashCalls[n].ids
      /\ d.found = all /\ d.todo = all
    BY <1>1, <1>2, <1>3 DEF TrashCalls
<1> HIDE DEF d
<1>5. TrashTypeOK' BY <1>1, <1>2, <1>4 DEF TrashInv, TrashTypeOK, OnTheWay, NoCall
<1>6. OnTheWay' = OnTheWay /\ trashCalls'[n] = d
      /\ \A m \in OnTheWay \ {n} : trashCalls'[m] = trashCalls[m]
    BY <1>1, <1>2, <1>4 DEF OnTheWay, TrashInv, TrashTypeOK
<1>7. OverlapsKnown' BY <1>2, <1>4, <1>6 DEF TrashInv, OverlapsKnown, With
<1>8. ASSUME NEW m \in OnTheWay, m # n PROVE FoundOK(m)'
    BY <1>2, <1>6, <1>8 DEF TrashInv, FoundOK, Buried
<1>9. ASSUME NEW m, m = n PROVE FoundOK(m)'
    BY <1>1, <1>2, <1>3, <1>4, <1>6, <1>9 DEF FoundOK, Deletes, Buried
<1>10. FolderOK' BY <1>2 DEF TrashInv, FolderOK
<1> QED BY <1>2, <1>5, <1>6, <1>7, <1>8, <1>9, <1>10 DEF TrashInv, OnlyTrashDeleted

LEMMA TrashEndsInv ==
  ASSUME TrashInv, NEW n \in 1..MaxTrashCalls, BulkDone(n) \/ Done(n) \/ CallFails(n)
  PROVE  TrashInv'
<1>1. /\ trashCalls' = [trashCalls EXCEPT ![n] = NoCall]
      /\ UNCHANGED <<status, madeCalls, lost, buried>> /\ crossing \subseteq crossing'
      /\ crossing' = crossing \/ crossing' = crossing \cup With(trashCalls[n].ids)
    BY DEF BulkDone, Done, CallFails, Ends
<1>2. n \in OnTheWay /\ trashCalls[n] \in TrashCalls
    BY TrashCallIs DEF BulkDone, Done, CallFails, OnTheWay, TrashInv
<1>3. /\ items' \in (SUBSET Trash) \cup {Unlisted}
      /\ selectedRows' \in SUBSET Trash
      /\ fetch' \in {NotFetched, Refetch} \cup [at: {"answered"}, found: SUBSET Trash]
    BY <1>2 DEF BulkDone, Done, CallFails, TrashInv, TrashTypeOK
<1>4. TrashTypeOK' BY <1>1, <1>3 DEF TrashInv, TrashTypeOK
<1>5. OnTheWay' = OnTheWay \ {n} /\ \A m \in OnTheWay \ {n} : trashCalls'[m] = trashCalls[m]
    BY <1>1 DEF OnTheWay, NoCall, TrashInv, TrashTypeOK
<1>6. OverlapsKnown' BY <1>1, <1>5 DEF TrashInv, OverlapsKnown, With
<1>7. ASSUME NEW m \in OnTheWay \ {n} PROVE FoundOK(m)'
    BY <1>1, <1>5 DEF TrashInv, FoundOK, Buried
<1>8. FolderOK' BY <1>1, <1>2, WithIs DEF TrashInv, FolderOK, TrashCalls
<1> QED BY <1>1, <1>4, <1>5, <1>6, <1>7, <1>8 DEF TrashInv, OnlyTrashDeleted

\* A file is deleted for ever only out of the trash or a folder that is in it, unless its
\* restoration and its deletion overlapped (handleAction, the bulk bar, and PermanentDelete
\* and EmptyTrashAll on the server).
THEOREM DeletedFromTrash == TrashSpec => []OnlyTrashDeleted
<1>1. TrashInit => TrashInv
    BY TrashAssumption
    DEF TrashInit, TrashInv, TrashTypeOK, OnTheWay, NoCall, OverlapsKnown, OnlyTrashDeleted,
        FolderOK
<1>2. TrashInv /\ [TrashNext]_trashVars => TrashInv'
  <2> SUFFICES ASSUME TrashInv, [TrashNext]_trashVars PROVE TrashInv'
      OBVIOUS
  <2>1. CASE \/ ListTrash \/ TakeList \/ FetchFails \/ Refocus
             \/ \E f \in Trash, add \in BOOLEAN : onSelect(f, add)
             \/ \E f \in Trash : SoftDelete(f)
      BY <2>1, TrashListInv
  <2>2. Shown \subseteq Trash BY DEF Shown, TrashInv, TrashTypeOK
  <2>3. CASE ClickEmpty BY <2>3, CallInv DEF ClickEmpty, TrashOps, Deletes
  <2>4. ASSUME NEW op \in {"restore", "delete"}, NEW f \in Trash, handleAction(op, f)
        PROVE  TrashInv'
    <3>1. {f} \in SUBSET Trash OBVIOUS
    <3> QED BY <2>4, <3>1, CallInv DEF handleAction, TrashOps, Restores, Deletes
  <2>5. ASSUME NEW op \in {"bulkRestore", "bulkDelete"}, ClickBulk(op) PROVE TrashInv'
      BY <2>5, CallInv DEF ClickBulk, TrashOps, Restores, Deletes, TrashInv, TrashTypeOK
  <2>6. ASSUME NEW n \in 1..MaxTrashCalls,
               \/ EmptyTrashAll(n) \/ BulkDone(n) \/ Done(n) \/ CallFails(n)
               \/ \E f \in Trash :
                    Restore(n, f) \/ LookUp(n, f) \/ DeleteRow(n, f) \/ LeaveRow(n, f)
        PROVE  TrashInv'
      BY <2>6, EmptyAllInv, TrashEndsInv, TrashFileInv
  <2>7. CASE UNCHANGED trashVars
      BY <2>7 DEF trashVars, TrashInv, TrashTypeOK, OnTheWay, FoundOK, OverlapsKnown,
                  OnlyTrashDeleted, FolderOK, Buried, With
  <2> QED BY <2>1, <2>3, <2>4, <2>5, <2>6, <2>7 DEF TrashNext
<1>3. TrashInv => OnlyTrashDeleted BY DEF TrashInv
<1> QED BY <1>1, <1>2, <1>3, PTL DEF TrashSpec

-----------------------------------------------------------------------------
(* TextEditor: while its editor is open, a save carries the stamp the editor *)
(* knows, and between check and put only the stamp of another save moves the *)
(* row's; a text is of a large file's first megabyte only where it is shown  *)
(* so.                                                                       *)

Texts == Nat \cup {NoText}
Stamps == Nat \cup {PageTime}
Contents == [text: Texts, write: Nat, big: BOOLEAN]
Saves == [at: {"idle", "checking", "putting", "written"}, sent: Texts, stamp: Stamps,
          mine: BOOLEAN]

EditorTypeOK ==
  /\ file \in Contents /\ cachedContent \in Contents
  /\ writes \in Nat /\ stamp \in Nat /\ unstamped \in SUBSET Nat
  /\ texts \in Nat /\ text \in Texts /\ original \in Texts
  /\ seenStamp \in Stamps /\ listed \in Nat /\ basis \in Nat
  /\ save \in Saves

\* No write is known before it is made, and what is shown of a write is cut if it is large.
WritesOK ==
  /\ file.write <= writes /\ basis <= writes /\ cachedContent.write <= writes
  /\ save.at = "written" => save.stamp \in Nat /\ save.stamp <= writes
  /\ cut /\ basis = file.write => file.big
  /\ cachedContent.big /\ cachedContent.write = file.write => file.big

SaveOK ==
  /\ save.mine => editing
  /\ save.at \in {"checking", "putting"} /\ save.mine => save.stamp = seenStamp
  /\ save.at = "putting" /\ ~gap => save.stamp = stamp

EditorInv == EditorTypeOK /\ WritesOK /\ SaveOK

LEMMA NothingSaved ==
  /\ NoSave \in Saves /\ NoSave.at = "idle" /\ ~NoSave.mine
  /\ NotCached \in Contents /\ NotCached.text = NoText /\ NotCached.write = 0
  /\ ~NotCached.big
BY DEF NoSave, Saves, NotCached, Contents, Texts, Stamps

\* The next write of the blob.
LEMMA BlobWritten ==
  ASSUME EditorTypeOK, NEW t \in Texts, storageWrite(t)
  PROVE  /\ writes' = writes + 1 /\ writes' \in Nat
         /\ file' \in Contents /\ file'.write = writes'
         /\ unstamped' \in SUBSET Nat
<1>1. writes' = writes + 1 /\ writes' \in Nat BY DEF EditorTypeOK, storageWrite
<1>2. PICK big \in BOOLEAN : file' = [text |-> t, write |-> writes', big |-> big]
    BY DEF storageWrite
<1>3. file' \in Contents /\ file'.write = writes' BY <1>1, <1>2 DEF Contents
<1>4. unstamped' \in SUBSET Nat BY <1>1 DEF EditorTypeOK, storageWrite
<1> QED BY <1>1, <1>3, <1>4

\* The server's own steps.
LEMMA ServerKeeps ==
  ASSUME EditorInv, OtherSaves \/ \E w \in unstamped : StampRow(w) \/ NotStamped(w)
  PROVE  EditorInv'
<1>1. CASE OtherSaves
  <2>1. UNCHANGED <<stamp, listed, cachedContent, editing, text, original, dirty, seenStamp,
                    basis, cut, save, gap>>
      BY <1>1 DEF OtherSaves, editorShown
  <2>2. texts' \in Nat /\ texts + 1 \in Texts BY <1>1 DEF EditorInv, EditorTypeOK, OtherSaves, Texts
  <2>3. /\ writes' = writes + 1 /\ writes' \in Nat /\ file' \in Contents
        /\ file'.write = writes' /\ unstamped' \in SUBSET Nat
      BY <1>1, <2>2, BlobWritten DEF EditorInv, OtherSaves
  <2>4. EditorTypeOK' BY <2>1, <2>2, <2>3 DEF EditorInv, EditorTypeOK
  <2>5. WritesOK' BY <2>1, <2>3 DEF EditorInv, EditorTypeOK, WritesOK, Contents, Saves
  <2>6. SaveOK' BY <2>1 DEF EditorInv, SaveOK
  <2> QED BY <2>4, <2>5, <2>6 DEF EditorInv
<1>2. ASSUME NEW w \in unstamped, StampRow(w) PROVE EditorInv'
  <2>1. /\ UNCHANGED <<file, writes, texts, listed, cachedContent, editing, text, original,
                       dirty, seenStamp, basis, cut, save>>
        /\ stamp' = w /\ unstamped' = unstamped \ {w} /\ w \in Nat
      BY <1>2 DEF StampRow, editorShown, EditorInv, EditorTypeOK
  <2>2. EditorTypeOK' BY <2>1 DEF EditorInv, EditorTypeOK
  <2>3. WritesOK' BY <2>1 DEF EditorInv, WritesOK
  <2>4. save.at = "putting" => gap' BY <1>2 DEF StampRow
  <2>5. SaveOK' BY <2>1, <2>4 DEF EditorInv, SaveOK
  <2> QED BY <2>2, <2>3, <2>5 DEF EditorInv
<1>3. ASSUME NEW w \in unstamped, NotStamped(w) PROVE EditorInv'
  <2>1. /\ UNCHANGED <<file, stamp, writes, texts, listed, cachedContent, editing, text,
                       original, dirty, seenStamp, basis, cut, gap>>
        /\ unstamped' = unstamped \ {w} /\ save' \in {save, NoSave}
      BY <1>3 DEF NotStamped, editorShown
  <2>2. EditorTypeOK' BY <2>1, NothingSaved DEF EditorInv, EditorTypeOK
  <2>3. WritesOK' BY <2>1, NothingSaved DEF EditorInv, WritesOK
  <2>4. SaveOK' BY <2>1, NothingSaved DEF EditorInv, SaveOK
  <2> QED BY <2>2, <2>3, <2>4 DEF EditorInv
<1> QED BY <1>1, <1>2, <1>3

\* What is listed, shown and typed.
LEMMA ShownKeeps ==
  ASSUME EditorInv,
         ListFiles \/ OpenEditor \/ ContentFetched \/ Type \/ handleRevert \/ handleClose
  PROVE  EditorInv'
<1>1. UNCHANGED <<file, stamp, writes, unstamped, gap>>
    BY DEF ListFiles, OpenEditor, ContentFetched, Type, handleRevert, handleClose, serverVars
<1>2. CASE OpenEditor
  <2>1. PICK c \in {cachedContent, NotCached} :
          cachedContent' = c /\ original' = c.text /\ Mounted(c)
      BY <1>2 DEF OpenEditor
  <2>2. /\ c \in Contents /\ c.text \in Texts /\ c.write \in Nat /\ c.write <= writes
        /\ c.big /\ c.write = file.write => file.big
      BY NothingSaved DEF EditorInv, EditorTypeOK, WritesOK, Contents
  <2>3. editing' = TRUE /\ seenStamp' = listed /\ UNCHANGED <<texts, listed, save>>
      BY <1>2 DEF OpenEditor
  <2>4. ~save.mine BY <1>2 DEF OpenEditor, EditorInv, SaveOK
  <2>5. EditorTypeOK' BY <1>1, <2>1, <2>2, <2>3 DEF EditorInv, EditorTypeOK, Mounted, Stamps
  <2>6. WritesOK' BY <1>1, <2>1, <2>2, <2>3 DEF EditorInv, WritesOK, Mounted
  <2>7. SaveOK' BY <1>1, <2>3, <2>4 DEF EditorInv, SaveOK
  <2> QED BY <2>5, <2>6, <2>7 DEF EditorInv
<1>3. CASE ContentFetched
  <2>1. PICK c \in Preview :
          /\ cachedContent' = c /\ original' = c.text
          /\ Mounted(c) \/ UNCHANGED <<text, basis, cut>>
      BY <1>3 DEF ContentFetched
  <2>6. UNCHANGED <<texts, listed, editing, seenStamp, save>> BY <1>3 DEF ContentFetched
  <2>7. [file EXCEPT !.big = FALSE] \in Contents /\ ~[file EXCEPT !.big = FALSE].big
        /\ [file EXCEPT !.big = FALSE].write = file.write
      BY DEF EditorInv, EditorTypeOK, Contents
  <2>2. /\ c \in Contents /\ c.text \in Texts /\ c.write \in Nat /\ c.write <= writes
        /\ c.big /\ c.write = file.write => file.big
      BY <2>7 DEF EditorInv, EditorTypeOK, WritesOK, Contents, Preview
  <2>3. EditorTypeOK' BY <1>1, <2>1, <2>2, <2>6 DEF EditorInv, EditorTypeOK, Mounted
  <2>4. WritesOK' BY <1>1, <2>1, <2>2, <2>6 DEF EditorInv, WritesOK, Mounted
  <2>5. SaveOK' BY <1>1, <2>6 DEF EditorInv, SaveOK
  <2> QED BY <2>3, <2>4, <2>5 DEF EditorInv
<1>4. CASE ListFiles \/ Type \/ handleRevert
  <2>1. UNCHANGED <<cachedContent, original, editing, seenStamp, save, basis, cut>>
      BY <1>4 DEF ListFiles, Type, handleRevert, editorShown
  <2>2. texts' \in Nat /\ text' \in Texts /\ listed' \in Nat
      BY <1>4 DEF EditorInv, EditorTypeOK, ListFiles, Type, handleRevert, editorShown, Texts
  <2>3. EditorTypeOK' BY <1>1, <2>1, <2>2 DEF EditorInv, EditorTypeOK
  <2>4. WritesOK' BY <1>1, <2>1 DEF EditorInv, WritesOK
  <2>5. SaveOK' BY <1>1, <2>1 DEF EditorInv, SaveOK
  <2> QED BY <2>3, <2>4, <2>5 DEF EditorInv
<1>5. CASE handleClose
  <2>1. /\ text' = NoText /\ UNCHANGED <<texts, listed, cachedContent, original, seenStamp,
                                        basis, cut>>
      BY <1>5 DEF handleClose
  <2>2. /\ save' \in Saves /\ save'.at = save.at /\ save'.stamp = save.stamp /\ ~save'.mine
      BY <1>5 DEF handleClose, EditorInv, EditorTypeOK, Saves
  <2>3. EditorTypeOK' BY <1>1, <2>1, <2>2 DEF EditorInv, EditorTypeOK, Texts
  <2>4. WritesOK' BY <1>1, <2>1, <2>2 DEF EditorInv, WritesOK
  <2>5. SaveOK' BY <1>1, <2>2 DEF EditorInv, SaveOK
  <2> QED BY <2>3, <2>4, <2>5 DEF EditorInv
<1> QED BY <1>2, <1>3, <1>4, <1>5

\* The save.
LEMMA SaveKeeps ==
  ASSUME EditorInv, Save \/ CheckStamp \/ PutContent \/ Saved \/ SaveFails
  PROVE  EditorInv'
<1>1. CASE Save
  <2>1. /\ UNCHANGED <<file, stamp, writes, unstamped, texts, listed, cachedContent, editing,
                       text, original, seenStamp, basis, cut>>
        /\ save' = [at |-> "checking", sent |-> text, stamp |-> seenStamp, mine |-> TRUE]
        /\ editing
      BY <1>1 DEF Save, serverVars, editorShown
  <2>2. /\ save' \in Saves /\ save'.at = "checking" /\ save'.stamp = seenStamp
      BY <2>1 DEF EditorInv, EditorTypeOK, Saves
  <2>3. EditorTypeOK' BY <2>1, <2>2 DEF EditorInv, EditorTypeOK
  <2>4. WritesOK' BY <2>1, <2>2 DEF EditorInv, WritesOK
  <2>5. SaveOK' BY <2>1, <2>2 DEF SaveOK
  <2> QED BY <2>3, <2>4, <2>5 DEF EditorInv
<1>2. CASE CheckStamp
  <2>1. UNCHANGED <<file, stamp, writes, unstamped, texts, listed, cachedContent, editing,
                    text, original, seenStamp, basis, cut>>
      BY <1>2 DEF CheckStamp, serverVars, editorShown
  <2>2. /\ save' \in Saves /\ save'.at # "written"
        /\ save'.at = "putting" => save'.stamp = stamp
        /\ save'.mine => save.mine /\ save'.stamp = save.stamp /\ save.at = "checking"
      BY <1>2, NothingSaved DEF CheckStamp, SameStamp, EditorInv, EditorTypeOK, Saves
  <2>3. EditorTypeOK' BY <2>1, <2>2 DEF EditorInv, EditorTypeOK
  <2>4. WritesOK' BY <2>1, <2>2 DEF EditorInv, WritesOK
  <2>5. SaveOK' BY <2>1, <2>2 DEF EditorInv, SaveOK
  <2> QED BY <2>3, <2>4, <2>5 DEF EditorInv
<1>3. CASE PutContent
  <2>1. UNCHANGED <<stamp, texts, listed, cachedContent, editing, text, original, seenStamp,
                    basis, cut>>
      BY <1>3 DEF PutContent, editorShown
  <2>2. save.sent \in Texts BY DEF EditorInv, EditorTypeOK, Saves
  <2>3. /\ writes' = writes + 1 /\ writes' \in Nat /\ file' \in Contents
        /\ file'.write = writes' /\ unstamped' \in SUBSET Nat
      BY <1>3, <2>2, BlobWritten DEF EditorInv, PutContent
  <2>4. /\ save' = [save EXCEPT !.at = "written", !.stamp = writes']
      BY <1>3, <2>3 DEF PutContent
  <2>5. /\ save' \in Saves /\ save'.at = "written" /\ save'.stamp = writes'
        /\ save'.mine => save.mine
      BY <2>3, <2>4 DEF EditorInv, EditorTypeOK, Saves, Stamps
  <2>6. EditorTypeOK' BY <2>1, <2>3, <2>5 DEF EditorInv, EditorTypeOK
  <2>7. WritesOK' BY <2>1, <2>3, <2>5 DEF EditorInv, EditorTypeOK, WritesOK, Contents
  <2>8. SaveOK' BY <2>1, <2>5 DEF EditorInv, SaveOK
  <2> QED BY <2>6, <2>7, <2>8 DEF EditorInv
<1>4. CASE Saved
  <2>1. /\ UNCHANGED <<file, stamp, writes, unstamped, texts, cachedContent, editing, text>>
        /\ save' = NoSave /\ listed' = stamp /\ save.at = "written"
      BY <1>4 DEF Saved, serverVars
  <2>2. \/ UNCHANGED <<original, seenStamp, basis, cut>>
        \/ original' = text /\ seenStamp' \in {stamp, PageTime} /\ basis' = save.stamp /\ ~cut'
      BY <1>4 DEF Saved
  <2>3. EditorTypeOK'
      BY <2>1, <2>2, NothingSaved DEF EditorInv, EditorTypeOK, WritesOK, Stamps
  <2>4. WritesOK' BY <2>1, <2>2, NothingSaved DEF EditorInv, WritesOK
  <2>5. SaveOK' BY <2>1, NothingSaved DEF SaveOK
  <2> QED BY <2>3, <2>4, <2>5 DEF EditorInv
<1>5. CASE SaveFails
  <2>1. UNCHANGED <<file, stamp, writes, unstamped, texts, listed, cachedContent, editing,
                    text, original, seenStamp, basis, cut>> /\ save' = NoSave
      BY <1>5 DEF SaveFails, serverVars, editorShown
  <2>2. EditorTypeOK' BY <2>1, NothingSaved DEF EditorInv, EditorTypeOK
  <2>3. WritesOK' BY <2>1, NothingSaved DEF EditorInv, WritesOK
  <2>4. SaveOK' BY <2>1, NothingSaved DEF SaveOK
  <2> QED BY <2>2, <2>3, <2>4 DEF EditorInv
<1> QED BY <1>1, <1>2, <1>3, <1>4, <1>5

\* The text editor replaces a version its writer has not seen only when the row was stamped
\* between the look at its stamp and the put, when the blob was ahead of its row, or when
\* the text was mounted, or is taken for saved, beside the stamp of another write
\* (TextEditor's save and its preview query).
THEOREM PutsOverWhatWasSeen == EditorSpec => OverwritesOnlyThroughGaps
<1>1. EditorInit => EditorInv
  <2> SUFFICES ASSUME EditorInit PROVE EditorInv
      OBVIOUS
  <2>1. PICK big \in BOOLEAN : file = [text |-> 0, write |-> 0, big |-> big]
      BY DEF EditorInit
  <2>2. file \in Contents /\ file.write = 0 BY <2>1 DEF Contents, Texts
  <2>3. EditorTypeOK BY <2>2, NothingSaved DEF EditorInit, EditorTypeOK, Texts, Stamps
  <2>4. WritesOK BY <2>2, NothingSaved DEF EditorInit, WritesOK
  <2>5. SaveOK BY NothingSaved DEF EditorInit, SaveOK
  <2> QED BY <2>3, <2>4, <2>5 DEF EditorInv
<1>2. EditorInv /\ [EditorNext]_editorVars => EditorInv'
  <2> SUFFICES ASSUME EditorInv, [EditorNext]_editorVars PROVE EditorInv'
      OBVIOUS
  <2>1. CASE UNCHANGED editorVars
      BY <2>1 DEF editorVars, serverVars, editorShown, EditorInv, EditorTypeOK, WritesOK, SaveOK
  <2> QED BY <2>1, ServerKeeps, ShownKeeps, SaveKeeps DEF EditorNext
<1>3. EditorInv /\ PutContent /\ save.mine
        => \/ basis = file.write /\ (cut => file.big)
           \/ gap \/ BlobAhead \/ basis # seenStamp
    BY DEF EditorInv, WritesOK, SaveOK, PutContent, BlobAhead
<1>4. EditorInv /\ [EditorNext]_editorVars
        => [PutContent /\ save.mine => \/ basis = file.write /\ (cut => file.big)
                                       \/ gap \/ BlobAhead \/ basis # seenStamp]_editorVars
    BY <1>3
<1> QED BY <1>1, <1>2, <1>4, PTL DEF EditorSpec, OverwritesOnlyThroughGaps

-----------------------------------------------------------------------------
(* SignIn: a token that has set a password is used up; a confirmation that *)
(* still holds such a token, or shares its token with another one, is      *)
(* known; and a browser looks at one page at a time.                       *)

Ages == {"none", "current", "old"}
Routes == {"login", "totp", "reset", "forced", "app"}

SignTypeOK ==
  /\ token \in [Tokens -> {"none", "live", "used"}]
  /\ began \in [Browsers -> Ages] /\ login \in [Browsers -> Ages]
  /\ pendingLogin \in [Browsers -> Ages]
  /\ live \in [Browsers -> BOOLEAN]
  /\ route \in [Browsers -> Routes]
  /\ link \in [Browsers -> {0} \cup Tokens]
  /\ confirming \in [Browsers -> {0} \cup Tokens]

ConfirmingOK(b) ==
  /\ route[b] \in {"reset", "forced"}
  /\ link[b] = confirming[b]
  /\ token[confirming[b]] # "none"
  /\ confirming[b] \in spent => confirming[b] \in tokenRaced
  /\ \A c \in Browsers \ {b} : confirming[c] = confirming[b] => confirming[b] \in tokenRaced

FormsOK ==
  \A b \in Browsers : /\ login[b] # "none" => route[b] = "login"
                      /\ confirming[b] # 0 => ConfirmingOK(b)

SpentOK == spent \subseteq Tokens /\ \A t \in spent : token[t] = "used"

SignInv == SignTypeOK /\ FormsOK /\ SpentOK /\ SignInHolds

\* An action that touches no reset token, no form of a confirmation and no session.
LEMMA SignRestInv ==
  ASSUME SignInv, UNCHANGED <<token, spent, reused, tokenRaced, confirming>>,
         SignTypeOK', NoOldSession',
         \A b \in Browsers :
            /\ login'[b] # "none" => route'[b] = "login"
            /\ confirming[b] # 0 => route'[b] = route[b] /\ link'[b] = link[b]
  PROVE  SignInv'
<1>1. FormsOK' BY DEF SignInv, FormsOK, ConfirmingOK
<1> QED BY <1>1 DEF SignInv, SpentOK, SignInHolds, SpentOnce

LEMMA NoLoginElsewhere ==
  ASSUME SignInv, NEW b \in Browsers, route[b] \in {"login", "totp", "app"}
  PROVE  confirming[b] = 0 /\ (route[b] # "login" => login[b] = "none")
BY DEF SignInv, FormsOK, ConfirmingOK

LEMMA NewSession ==
  ASSUME SignInv, NEW b \in Browsers, NEW pw \in Ages \ {"none"}, CreateSession(b, pw)
  PROVE  /\ began' \in [Browsers -> Ages] /\ live' \in [Browsers -> BOOLEAN]
         /\ route' \in [Browsers -> Routes] /\ NoOldSession'
         /\ route'[b] = "app" /\ \A c \in Browsers \ {b} : route'[c] = route[c]
<1>1. /\ began' \in [Browsers -> Ages] /\ live' \in [Browsers -> BOOLEAN]
      /\ route' \in [Browsers -> Routes]
      /\ route'[b] = "app" /\ \A c \in Browsers \ {b} : route'[c] = route[c]
    BY DEF CreateSession, SignInv, SignTypeOK, NowAt, Routes
<1>2. ASSUME NEW c \in Browsers, Signed(c)'
      PROVE  began'[c] = "current" \/ c \in overtakenLogins' \/ c \in unrevoked'
  <2>1. CASE c = b BY <2>1 DEF CreateSession, SignInv, SignTypeOK
  <2>2. CASE c # b
    <3>1. began'[c] = began[c] /\ live'[c] = live[c]
        BY <2>2 DEF CreateSession, SignInv, SignTypeOK
    <3>2. /\ c \in overtakenLogins' <=> c \in overtakenLogins
          /\ c \in unrevoked' <=> c \in unrevoked
        BY <2>2 DEF CreateSession
    <3> QED BY <1>2, <3>1, <3>2 DEF Signed, SignInv, SignInHolds, NoOldSession
  <2> QED BY <2>1, <2>2
<1> QED BY <1>1, <1>2 DEF NoOldSession

\* A new reset token replaces the one before it; what was used stays used.
LEMMA NewToken ==
  ASSUME SignInv, NEW t \in Tokens, GenerateResetToken(t)
  PROVE  /\ token' \in [Tokens -> {"none", "live", "used"}]
         /\ token[t] = "none" /\ token'[t] = "live"
         /\ \A s \in Tokens \ {t} : /\ token[s] # "none" => token'[s] # "none"
                                    /\ token[s] = "used" => token'[s] = "used"
BY DEF GenerateResetToken, SignInv, SignTypeOK

LEMMA TokenInv ==
  ASSUME SignInv, UNCHANGED <<spent, reused, tokenRaced, confirming>>,
         SignTypeOK', NoOldSession',
         NEW t \in Tokens, GenerateResetToken(t),
         \A b \in Browsers :
            /\ login'[b] # "none" => route'[b] = "login"
            /\ confirming[b] # 0 => route'[b] = route[b] /\ link'[b] = link[b]
  PROVE  SignInv'
<1>1. t \notin spent /\ \A b \in Browsers : confirming[b] # t
    BY NewToken DEF SignInv, SpentOK, FormsOK, ConfirmingOK, Tokens
<1>2. SpentOK' BY <1>1, NewToken DEF SignInv, SpentOK
<1>3. ASSUME NEW b \in Browsers, confirming[b] # 0 PROVE ConfirmingOK(b)'
  <2>1. confirming[b] \in Tokens \ {t} BY <1>1, <1>3 DEF SignInv, SignTypeOK
  <2>2. token'[confirming[b]] # "none"
      BY <1>3, <2>1, NewToken DEF SignInv, FormsOK, ConfirmingOK
  <2> QED BY <1>3, <2>2 DEF SignInv, FormsOK, ConfirmingOK
<1>4. FormsOK' BY <1>3 DEF FormsOK
<1> QED BY <1>2, <1>4 DEF SignInv, SignInHolds, SpentOnce

\* The login, with or without a second factor or a forced change of password.
LEMMA LoginInv ==
  ASSUME SignInv, NEW b \in Browsers, authenticateLogin(b) \/ Login(b) \/ TOTPVerify(b)
  PROVE  SignInv'
<1>1. CASE authenticateLogin(b)
  <2>1. UNCHANGED <<token, spent, reused, tokenRaced, confirming, link, route, began, live,
                    overtakenLogins, unrevoked, pendingLogin>>
        /\ route[b] = "login" /\ login' = [login EXCEPT ![b] = "current"]
      BY <1>1 DEF authenticateLogin, resetVars, sessionVars
  <2>2. SignTypeOK' BY <2>1 DEF SignInv, SignTypeOK, Ages
  <2>3. NoOldSession' BY <2>1 DEF SignInv, SignInHolds, NoOldSession, Signed
  <2>4. \A c \in Browsers : login'[c] # "none" => route'[c] = "login"
      BY <2>1 DEF SignInv, SignTypeOK, FormsOK
  <2> QED BY <2>1, <2>2, <2>3, <2>4, SignRestInv
<1>2. CASE Login(b)
  <2>1. /\ login[b] # "none" /\ login' = [login EXCEPT ![b] = "none"]
        /\ UNCHANGED <<spent, reused, tokenRaced, confirming>>
      BY <1>2 DEF Login
  <2>2. route[b] = "login" /\ confirming[b] = 0 /\ login[b] \in Ages \ {"none"}
      BY <2>1, NoLoginElsewhere DEF SignInv, SignTypeOK, FormsOK
  <2>3. login' \in [Browsers -> Ages] /\ login'[b] = "none"
        /\ \A c \in Browsers \ {b} : login'[c] = login[c]
      BY <2>1 DEF SignInv, SignTypeOK, Ages
  <2>4. CASE NowAt(b, "forced") /\ \E t \in Tokens : /\ GenerateResetToken(t)
                                                     /\ link' = [link EXCEPT ![b] = t]
                                                     /\ UNCHANGED <<sessionVars, pendingLogin>>
    <3>1. PICK t \in Tokens : GenerateResetToken(t) /\ link' = [link EXCEPT ![b] = t]
        BY <2>4
    <3>2. UNCHANGED <<began, live, overtakenLogins, unrevoked, pendingLogin>> BY <2>4 DEF sessionVars
    <3>3. SignTypeOK'
        BY <2>1, <2>3, <2>4, <3>1, <3>2, NewToken DEF SignInv, SignTypeOK, NowAt, Routes
    <3>4. NoOldSession' BY <3>2 DEF SignInv, SignInHolds, NoOldSession, Signed
    <3>5. ASSUME NEW c \in Browsers
          PROVE  /\ login'[c] # "none" => route'[c] = "login"
                 /\ confirming[c] # 0 => route'[c] = route[c] /\ link'[c] = link[c]
        BY <2>2, <2>3, <2>4, <3>1 DEF SignInv, SignTypeOK, FormsOK, NowAt
    <3> QED BY <2>1, <3>1, <3>3, <3>4, <3>5, TokenInv
  <2>5. CASE NowAt(b, "totp") /\ pendingLogin' = [pendingLogin EXCEPT ![b] = login[b]]
             /\ UNCHANGED <<sessionVars, token, link>>
    <3>1. UNCHANGED <<began, live, overtakenLogins, unrevoked>> BY <2>5 DEF sessionVars
    <3>2. SignTypeOK'
        BY <2>1, <2>2, <2>3, <2>5, <3>1 DEF SignInv, SignTypeOK, NowAt, Routes
    <3>3. NoOldSession' BY <3>1 DEF SignInv, SignInHolds, NoOldSession, Signed
    <3>4. ASSUME NEW c \in Browsers
          PROVE  /\ login'[c] # "none" => route'[c] = "login"
                 /\ confirming[c] # 0 => route'[c] = route[c] /\ link'[c] = link[c]
        BY <2>2, <2>3, <2>5 DEF SignInv, SignTypeOK, FormsOK, NowAt
    <3> QED BY <2>1, <2>5, <3>2, <3>3, <3>4, SignRestInv
  <2>6. CASE CreateSession(b, login[b]) /\ UNCHANGED <<token, link, pendingLogin>>
    <3>1. SignTypeOK'
        BY <2>1, <2>2, <2>3, <2>6, NewSession DEF SignInv, SignTypeOK
    <3>2. ASSUME NEW c \in Browsers
          PROVE  /\ login'[c] # "none" => route'[c] = "login"
                 /\ confirming[c] # 0 => route'[c] = route[c] /\ link'[c] = link[c]
        BY <2>2, <2>3, <2>6, NewSession DEF SignInv, FormsOK
    <3> QED BY <2>1, <2>2, <2>6, <3>1, <3>2, NewSession, SignRestInv
  <2> QED BY <1>2, <2>4, <2>5, <2>6 DEF Login
<1>3. CASE TOTPVerify(b)
  <2>1. /\ route[b] = "totp" /\ pendingLogin[b] # "none" /\ CreateSession(b, pendingLogin[b])
        /\ pendingLogin' = [pendingLogin EXCEPT ![b] = "none"]
        /\ UNCHANGED <<token, spent, reused, tokenRaced, login, link, confirming>>
      BY <1>3 DEF TOTPVerify, resetVars
  <2>2. pendingLogin[b] \in Ages \ {"none"} BY <2>1 DEF SignInv, SignTypeOK
  <2>3. confirming[b] = 0 /\ login[b] = "none" BY <2>1, NoLoginElsewhere
  <2>4. SignTypeOK' BY <2>1, <2>2, NewSession DEF SignInv, SignTypeOK, Ages
  <2>5. ASSUME NEW c \in Browsers
        PROVE  /\ login'[c] # "none" => route'[c] = "login"
               /\ confirming[c] # 0 => route'[c] = route[c] /\ link'[c] = link[c]
      BY <2>1, <2>2, <2>3, NewSession DEF SignInv, FormsOK
  <2> QED BY <2>1, <2>2, <2>4, <2>5, NewSession, SignRestInv
<1> QED BY <1>1, <1>2, <1>3

\* A page is left, a link is opened, a token ends or is asked for.
LEMMA LinksInv ==
  ASSUME SignInv,
         \/ Request
         \/ \E t \in Tokens : Expire(t) \/ ForgottenLink(t) \/ \E b \in Browsers : OpenLink(b, t)
         \/ \E b \in Browsers : BackToLogin(b)
  PROVE  SignInv'
<1>1. CASE Request
  <2>1. PICK t \in Tokens : GenerateResetToken(t) BY <1>1 DEF Request
  <2>2. UNCHANGED <<spent, reused, tokenRaced, confirming, link, route, login, pendingLogin,
                    began, live, overtakenLogins, unrevoked>>
      BY <1>1 DEF Request, sessionVars, formVars
  <2>3. SignTypeOK' BY <2>1, <2>2, NewToken DEF SignInv, SignTypeOK
  <2>4. NoOldSession' BY <2>2 DEF SignInv, SignInHolds, NoOldSession, Signed
  <2> QED BY <2>1, <2>2, <2>3, <2>4, TokenInv DEF SignInv, FormsOK
<1>2. ASSUME NEW t \in Tokens, Expire(t) PROVE SignInv'
  <2>1. /\ token' = [token EXCEPT ![t] = "used"] /\ token[t] = "live"
        /\ UNCHANGED <<spent, reused, tokenRaced, confirming, link, route, login, pendingLogin,
                    began, live, overtakenLogins, unrevoked>>
      BY <1>2 DEF Expire, sessionVars, formVars
  <2>2. SignTypeOK' BY <2>1 DEF SignInv, SignTypeOK
  <2>3. SpentOK' BY <2>1 DEF SignInv, SignTypeOK, SpentOK
  <2>4. \A s : token[s] # "none" /\ s \in Tokens => token'[s] # "none"
      BY <2>1 DEF SignInv, SignTypeOK
  <2>5. FormsOK' BY <2>1, <2>4 DEF SignInv, SignTypeOK, FormsOK, ConfirmingOK
  <2> QED BY <2>1, <2>2, <2>3, <2>5
      DEF SignInv, SignInHolds, NoOldSession, Signed, SpentOnce
<1>3. ASSUME NEW t \in Tokens, ForgottenLink(t) PROVE SignInv'
  <2>1. /\ token' = [token EXCEPT ![t] = "none"] /\ \A b \in Browsers : link[b] # t
        /\ spent' = spent \ {t} /\ reused' = reused \ {t} /\ tokenRaced' = tokenRaced \ {t}
        /\ UNCHANGED <<confirming, link, route, login, pendingLogin, began, live,
                       overtakenLogins, unrevoked>>
      BY <1>3 DEF ForgottenLink, sessionVars, formVars
  <2>2. SignTypeOK' BY <2>1 DEF SignInv, SignTypeOK
  <2>3. SpentOK' BY <2>1 DEF SignInv, SignTypeOK, SpentOK
  <2>4. ASSUME NEW b \in Browsers, confirming[b] # 0 PROVE ConfirmingOK(b)'
    <3>1. ConfirmingOK(b) /\ confirming[b] # t /\ confirming[b] \in Tokens
        BY <2>1, <2>4 DEF SignInv, SignTypeOK, FormsOK, ConfirmingOK
    <3> QED BY <2>1, <3>1 DEF ConfirmingOK, SignInv, SignTypeOK
  <2>5. FormsOK' BY <2>1, <2>4 DEF SignInv, FormsOK
  <2> QED BY <2>1, <2>2, <2>3, <2>5
      DEF SignInv, SignInHolds, NoOldSession, Signed, SpentOnce
<1>4. ASSUME NEW b \in Browsers,
             BackToLogin(b) \/ \E t \in Tokens : OpenLink(b, t)
      PROVE  SignInv'
  <2>1. /\ confirming[b] = 0 /\ login[b] = "none"
        /\ UNCHANGED <<token, spent, reused, tokenRaced, confirming, login, began, live,
                       overtakenLogins, unrevoked>>
        /\ \E p \in Routes : route' = [route EXCEPT ![b] = p]
        /\ \E l \in {0} \cup Tokens : link' = [link EXCEPT ![b] = l]
        /\ pendingLogin' \in {pendingLogin, [pendingLogin EXCEPT ![b] = "none"]}
      BY <1>4, NoLoginElsewhere
      DEF BackToLogin, OpenLink, resetVars, sessionVars, NowAt, Routes, SignInv, FormsOK
  <2>2. SignTypeOK' BY <2>1 DEF SignInv, SignTypeOK, Ages
  <2>3. NoOldSession' BY <2>1 DEF SignInv, SignInHolds, NoOldSession, Signed
  <2>4. ASSUME NEW c \in Browsers
        PROVE  /\ login'[c] # "none" => route'[c] = "login"
               /\ confirming[c] # 0 => route'[c] = route[c] /\ link'[c] = link[c]
      BY <2>1 DEF SignInv, SignTypeOK, FormsOK
  <2> QED BY <2>1, <2>2, <2>3, <2>4, SignRestInv
<1> QED BY <1>1, <1>2, <1>3, <1>4

\* A confirmation takes a live token, and then sets the password.
LEMMA ConfirmInv ==
  ASSUME SignInv, NEW b \in Browsers,
         PasswordResetConfirm(b) \/ Confirm(b) \/ ConfirmFails(b)
  PROVE  SignInv'
<1>1. CASE PasswordResetConfirm(b)
  <2>1. /\ route[b] \in {"reset", "forced"} /\ confirming[b] = 0
        /\ link[b] # 0 /\ token[link[b]] = "live"
        /\ confirming' = [confirming EXCEPT ![b] = link[b]]
        /\ tokenRaced \subseteq tokenRaced'
        /\ (\E c \in Browsers : confirming[c] = link[b]) => link[b] \in tokenRaced'
        /\ UNCHANGED <<token, spent, reused, link, route, login, pendingLogin, began, live,
                       overtakenLogins, unrevoked>>
      BY <1>1 DEF PasswordResetConfirm, sessionVars
  <2>2. link[b] \in Tokens BY <2>1 DEF SignInv, SignTypeOK
  <2>3. SignTypeOK' BY <2>1, <2>2 DEF SignInv, SignTypeOK
  <2>4. /\ confirming'[b] = link[b]
        /\ \A c \in Browsers \ {b} : confirming'[c] = confirming[c]
      BY <2>1 DEF SignInv, SignTypeOK
  <2>5. ASSUME NEW d, d = b PROVE ConfirmingOK(d)'
      BY <2>1, <2>2, <2>4, <2>5 DEF ConfirmingOK, SignInv, SpentOK
  <2>6. ASSUME NEW c \in Browsers \ {b}, confirming[c] # 0 PROVE ConfirmingOK(c)'
    <3>1. ConfirmingOK(c) BY <2>6 DEF SignInv, FormsOK
    <3>2. ASSUME NEW d \in Browsers \ {c}, confirming'[d] = confirming[c]
          PROVE  confirming[c] \in tokenRaced'
        BY <2>1, <2>4, <3>1, <3>2 DEF ConfirmingOK
    <3> QED BY <2>1, <2>4, <3>1, <3>2 DEF ConfirmingOK
  <2>7. FormsOK' BY <2>1, <2>4, <2>5, <2>6 DEF SignInv, FormsOK
  <2> QED BY <2>1, <2>3, <2>7
      DEF SignInv, SpentOK, SignInHolds, NoOldSession, Signed, SpentOnce
<1>2. CASE Confirm(b)
  <2> DEFINE t == confirming[b]
  <2>1. /\ t # 0 /\ began' = Age(began) /\ login' = Age(login)
        /\ pendingLogin' = Age(pendingLogin)
        /\ token' = [token EXCEPT ![t] = "used"] /\ live' = [c \in Browsers |-> FALSE]
        /\ spent' = spent \cup {t} /\ reused' = reused \cup (spent \cap {t})
        /\ confirming' = [confirming EXCEPT ![b] = 0] /\ link' = [link EXCEPT ![b] = 0]
        /\ route' = [route EXCEPT ![b] = "login"]
        /\ UNCHANGED tokenRaced
      BY <1>2 DEF Confirm, TokenUsed, RevokeSessions, NowAt
  <2>2. t \in Tokens /\ ConfirmingOK(b) BY <2>1 DEF SignInv, SignTypeOK, FormsOK
  <2>3. /\ began' \in [Browsers -> Ages] /\ login' \in [Browsers -> Ages]
        /\ pendingLogin' \in [Browsers -> Ages]
        /\ \A c \in Browsers : login'[c] # "none" => login[c] # "none"
      BY <2>1 DEF Age, Ages, SignInv, SignTypeOK
  <2>4. SignTypeOK' BY <2>1, <2>2, <2>3 DEF SignInv, SignTypeOK, Routes
  <2>5. NoOldSession' BY <2>1 DEF NoOldSession, Signed
  <2>6. SpentOK' BY <2>1, <2>2 DEF SignInv, SignTypeOK, SpentOK
  <2>7. SpentOnce' BY <2>1, <2>2 DEF ConfirmingOK, SignInv, SignInHolds, SpentOnce
  <2>8. /\ confirming'[b] = 0 /\ route'[b] = "login"
        /\ \A c \in Browsers \ {b} : /\ confirming'[c] = confirming[c] /\ link'[c] = link[c]
                                     /\ route'[c] = route[c]
        /\ \A s \in Tokens : token[s] # "none" => token'[s] # "none"
      BY <2>1, <2>2 DEF SignInv, SignTypeOK
  <2>9. ASSUME NEW c \in Browsers \ {b}, confirming[c] # 0 PROVE ConfirmingOK(c)'
    <3>1. ConfirmingOK(c) /\ confirming[c] \in Tokens
        BY <2>9 DEF SignInv, SignTypeOK, FormsOK
    <3>2. confirming[c] \in spent' => confirming[c] \in tokenRaced
        BY <2>1, <3>1 DEF ConfirmingOK
    <3>3. ASSUME NEW d \in Browsers \ {c}, confirming'[d] = confirming[c]
          PROVE  confirming[c] \in tokenRaced
        BY <2>8, <2>9, <3>1, <3>3 DEF ConfirmingOK
    <3> QED BY <2>1, <2>8, <3>1, <3>2, <3>3 DEF ConfirmingOK
  <2>10. FormsOK' BY <2>3, <2>8, <2>9 DEF SignInv, FormsOK
  <2> QED BY <2>4, <2>5, <2>6, <2>7, <2>10 DEF SignInv, SignInHolds
<1>3. CASE ConfirmFails(b)
  <2>1. /\ confirming' = [confirming EXCEPT ![b] = 0]
        /\ UNCHANGED <<token, spent, reused, tokenRaced, link, route, login, pendingLogin,
                       began, live, overtakenLogins, unrevoked>>
      BY <1>3 DEF ConfirmFails, resetVars, sessionVars
  <2>2. SignTypeOK' BY <2>1 DEF SignInv, SignTypeOK
  <2>3. ASSUME NEW c \in Browsers, confirming'[c] # 0
        PROVE  c # b /\ confirming'[c] = confirming[c]
      BY <2>1, <2>3 DEF SignInv, SignTypeOK
  <2>4. FormsOK' BY <2>1, <2>3 DEF SignInv, SignTypeOK, FormsOK, ConfirmingOK
  <2> QED BY <2>1, <2>2, <2>4
      DEF SignInv, SpentOK, SignInHolds, NoOldSession, Signed, SpentOnce
<1> QED BY <1>1, <1>2, <1>3

\* A password that is set from outside leaves the sessions it finds to be known.
LEMMA SetPasswordInv ==
  ASSUME SignInv, SetPassword
  PROVE  SignInv'
<1>0. UNCHANGED <<token, spent, reused, tokenRaced, confirming, link, overtakenLogins>>
    BY DEF SetPassword, resetVars
<1>1. /\ login' = Age(login) /\ pendingLogin' = Age(pendingLogin) /\ began' = Age(began)
      /\ unrevoked' = unrevoked \cup {c \in Browsers : Signed(c)}
      /\ UNCHANGED <<live, route>>
    BY DEF SetPassword
<1>2. /\ began' \in [Browsers -> Ages] /\ login' \in [Browsers -> Ages]
      /\ pendingLogin' \in [Browsers -> Ages]
      /\ \A c \in Browsers : login'[c] # "none" => login[c] # "none"
    BY <1>1 DEF Age, Ages, SignInv, SignTypeOK
<1>3. SignTypeOK' BY <1>0, <1>1, <1>2 DEF SignInv, SignTypeOK
<1>4. ASSUME NEW c \in Browsers, Signed(c)' PROVE c \in unrevoked'
  <2>1. live[c] /\ began[c] # "none" BY <1>1, <1>4 DEF Signed, Age
  <2> QED BY <1>1, <2>1 DEF Signed
<1>5. NoOldSession' BY <1>4 DEF NoOldSession
<1> QED BY <1>0, <1>1, <1>2, <1>3, <1>5, SignRestInv DEF SignInv, FormsOK

\* A user who is signed in changes the password, signs out, or is asked about.
LEMMA SessionInv ==
  ASSUME SignInv, NEW b \in Browsers,
         \/ UpdateMe(b) \/ maybeUpdatePassword(b) \/ revokeOtherSessions(b)
         \/ ChangeIsCut(b) \/ handleLogout(b) \/ IdleTimeout(b) \/ AuthProvider(b) \/ beforeLoad(b)
  PROVE  SignInv'
<1>1. UNCHANGED <<token, spent, reused, tokenRaced, confirming, link, overtakenLogins>>
    BY DEF UpdateMe, maybeUpdatePassword, revokeOtherSessions, ChangeIsCut,
           handleLogout, IdleTimeout, AuthProvider, beforeLoad, resetVars, sessionVars, formVars
<1>2. CASE UpdateMe(b) \/ AuthProvider(b) \/ ChangeIsCut(b)
  <2>1. UNCHANGED <<began, live, unrevoked, login, pendingLogin, route>>
      BY <1>2 DEF UpdateMe, AuthProvider, ChangeIsCut, sessionVars, formVars
  <2> QED BY <1>1, <2>1, SignRestInv
      DEF SignInv, SignTypeOK, FormsOK, SignInHolds, NoOldSession, Signed
<1>3. CASE maybeUpdatePassword(b)
  <2>1. /\ login' = Age(login) /\ pendingLogin' = Age(pendingLogin)
        /\ began' = [c \in Browsers |-> IF c \in OwnSession(b) /\ Signed(c) THEN "current"
                                       ELSE Age(began)[c]]
        /\ unrevoked' = (unrevoked \cup {c \in Browsers : Signed(c)}) \ OwnSession(b)
        /\ UNCHANGED <<live, route>>
      BY <1>3 DEF maybeUpdatePassword
  <2>2. /\ began' \in [Browsers -> Ages] /\ login' \in [Browsers -> Ages]
        /\ pendingLogin' \in [Browsers -> Ages]
        /\ \A c \in Browsers : login'[c] # "none" => login[c] # "none"
      BY <2>1 DEF Age, Ages, SignInv, SignTypeOK
  <2>3. SignTypeOK' BY <1>1, <2>1, <2>2 DEF SignInv, SignTypeOK
  <2>4. ASSUME NEW c \in Browsers, Signed(c)'
        PROVE  began'[c] = "current" \/ c \in unrevoked'
    <3>1. live[c] /\ began'[c] # "none" BY <2>1, <2>4 DEF Signed
    <3>2. Signed(c) BY <2>1, <3>1 DEF Signed, Age, SignInv, SignTypeOK
    <3> QED BY <2>1, <3>2
  <2>5. NoOldSession' BY <2>4 DEF NoOldSession
  <2> QED BY <1>1, <2>1, <2>2, <2>3, <2>5, SignRestInv DEF SignInv, FormsOK
<1>7. CASE revokeOtherSessions(b)
  <2>1. /\ live' = [c \in Browsers |-> c \in OwnSession(b) /\ live[c]]
        /\ unrevoked' = unrevoked \cap OwnSession(b)
        /\ UNCHANGED <<began, login, pendingLogin, route>>
      BY <1>7 DEF revokeOtherSessions, EndOtherSessions
  <2>2. SignTypeOK' BY <1>1, <2>1 DEF SignInv, SignTypeOK
  <2>3. NoOldSession' BY <1>1, <2>1 DEF SignInv, SignInHolds, NoOldSession, Signed
  <2> QED BY <1>1, <2>1, <2>2, <2>3, SignRestInv DEF SignInv, FormsOK
<1>4. CASE handleLogout(b)
  <2>1. /\ route[b] = "app" /\ route' = [route EXCEPT ![b] = "login"]
        /\ \/ began' = [began EXCEPT ![b] = "none"] /\ live' = [live EXCEPT ![b] = FALSE]
           \/ UNCHANGED <<began, live>>
        /\ UNCHANGED <<unrevoked, login, pendingLogin>>
      BY <1>4 DEF handleLogout, NowAt, formVars
  <2>2. SignTypeOK' BY <1>1, <2>1 DEF SignInv, SignTypeOK, Ages, Routes
  <2>3. NoOldSession' BY <1>1, <2>1 DEF SignInv, SignTypeOK, SignInHolds, NoOldSession, Signed
  <2>4. \A c \in Browsers : /\ login'[c] # "none" => route'[c] = "login"
                            /\ confirming[c] # 0 => route'[c] = route[c]
      BY <2>1, NoLoginElsewhere DEF SignInv, SignTypeOK, FormsOK
  <2> QED BY <1>1, <2>2, <2>3, <2>4, SignRestInv
<1>5. CASE IdleTimeout(b)
  <2>1. live' = [live EXCEPT ![b] = FALSE] /\ UNCHANGED <<began, route, unrevoked, login, pendingLogin>>
      BY <1>5 DEF IdleTimeout, formVars
  <2>2. SignTypeOK' BY <1>1, <2>1 DEF SignInv, SignTypeOK
  <2>3. NoOldSession' BY <1>1, <2>1 DEF SignInv, SignTypeOK, SignInHolds, NoOldSession, Signed
  <2> QED BY <1>1, <2>1, <2>2, <2>3, SignRestInv DEF SignInv, FormsOK
<1>6. CASE beforeLoad(b)
  <2>1. /\ route[b] \in {"login", "app"} /\ login[b] = "none"
        /\ \E p \in Routes : route' = [route EXCEPT ![b] = p]
        /\ UNCHANGED <<began, live, unrevoked, login, pendingLogin>>
      BY <1>6 DEF beforeLoad, NowAt, Routes, sessionVars, formVars
  <2>2. SignTypeOK' BY <1>1, <2>1 DEF SignInv, SignTypeOK
  <2>3. NoOldSession' BY <1>1, <2>1 DEF SignInv, SignInHolds, NoOldSession, Signed
  <2>4. \A c \in Browsers : /\ login'[c] # "none" => route'[c] = "login"
                            /\ confirming[c] # 0 => route'[c] = route[c]
      BY <2>1, NoLoginElsewhere DEF SignInv, SignTypeOK, FormsOK
  <2> QED BY <1>1, <2>1, <2>2, <2>3, <2>4, SignRestInv
<1> QED BY <1>2, <1>3, <1>4, <1>5, <1>6, <1>7

\* A session lives no longer than the password it was begun for, unless a login overtook
\* the change or the change ended no session (an administrator's, an invitation's, or one
\* whose revocation is to come or has failed); and a reset token sets one password unless
\* two confirmations held it at once (PasswordResetConfirm, UpdateMe, ResetPassword).
THEOREM SessionsEndWithPasswords == SignSpec => []SignInHolds
<1>1. SignInit => SignInv
  <2> SUFFICES ASSUME SignInit PROVE SignInv
      OBVIOUS
  <2>1. SignTypeOK BY DEF SignInit, SignTypeOK, Ages, Routes
  <2>2. FormsOK /\ SpentOK BY DEF SignInit, FormsOK, SpentOK
  <2>3. SignInHolds BY DEF SignInit, SignInHolds, NoOldSession, Signed, SpentOnce
  <2> QED BY <2>1, <2>2, <2>3 DEF SignInv
<1>2. SignInv /\ [SignNext]_signVars => SignInv'
  <2> SUFFICES ASSUME SignInv, [SignNext]_signVars PROVE SignInv'
      OBVIOUS
  <2>1. CASE UNCHANGED signVars
    <3>1. UNCHANGED <<token, spent, reused, tokenRaced, began, live, overtakenLogins, unrevoked, login,
                      pendingLogin, link, confirming, route>>
        BY <2>1 DEF signVars, resetVars, sessionVars, formVars
    <3> QED BY <3>1, SignRestInv
        DEF SignInv, SignTypeOK, FormsOK, SignInHolds, NoOldSession, Signed
  <2> QED BY <2>1, LinksInv, LoginInv, ConfirmInv, SessionInv, SetPasswordInv
      DEF SignNext, ResetPassword, InvitedAgain
<1>3. SignInv => SignInHolds BY DEF SignInv
<1> QED BY <1>1, <1>2, <1>3, PTL DEF SignSpec

-----------------------------------------------------------------------------
(* ShareTarget: what a share has stashed under its names stays there until *)
(* its page has read it, unless another share takes some of it.            *)

Pages == {"none", "loading", "unseen", "read", "cleaning", "empty", "offered", "failed", "closed"}
Stashed == [of : Shares \cup {NoShare}, nr : Nat]

TargetTypeOK ==
  /\ stash \in [Keys -> Stashed]
  /\ worker \in [Shares -> Nat] /\ \A s \in Shares : worker[s] <= Len(Content[s])
  /\ page \in [Shares -> Pages]
  /\ manifest \in Shares \cup {NoShare}
  /\ readFor \in [Shares -> Shares \cup {NoShare}]
  /\ \A s \in Shares : page[s] \in {"read", "cleaning"} => readFor[s] \in Shares
  /\ done \in [Shares -> Nat]
  /\ pendingFiles \in [Shares -> Seq([name : Keys, bytes : Stashed])]
  /\ harmed \subseteq Shares

\* Of the files of s with the name n, among its first k, the last one is stashed.
Own(s, k, n) == stash[n].of = s /\ LastNamed(s, k, n, stash[n].nr)
AllStashed(s, k) == \A i \in 1..k : Own(s, k, Content[s][i])

\* The first k files of s have been read as they should.
Picked(s, i) == /\ pendingFiles[s][i].name = Content[s][i] /\ pendingFiles[s][i].bytes.of = s
                /\ LastNamed(s, Len(Content[s]), Content[s][i], pendingFiles[s][i].bytes.nr)
ReadSoFar(s, k) == Len(pendingFiles[s]) = k /\ \A i \in 1..k : Picked(s, i)

UnharmedOK(s) ==
  /\ page[s] \in {"none", "loading"} => pendingFiles[s] = <<>> /\ done[s] = 0
  /\ page[s] = "none" => AllStashed(s, worker[s])
  /\ page[s] = "loading" => manifest = s
  /\ page[s] \in {"loading", "read"} => AllStashed(s, Len(Content[s]))
  /\ page[s] = "read" => /\ readFor[s] = s /\ done[s] <= Len(Content[s])
                         /\ ReadSoFar(s, done[s])
  /\ page[s] \in {"cleaning", "empty", "offered"} => ReadSoFar(s, Len(Content[s]))

TargetInv == TargetTypeOK /\ \A s \in Shares \ harmed : UnharmedOK(s)

LEMMA ContentIs ==
  ASSUME NEW s \in Shares
  PROVE  /\ Len(Content[s]) \in Nat \ {0} /\ DOMAIN Content[s] = 1..Len(Content[s])
         /\ \A i \in 1..Len(Content[s]) : Content[s][i] \in Keys
<1>1. Content[s] \in Seq(Keys) /\ Content[s] # <<>> BY ShareAssumption
<1>2. Len(Content[s]) \in Nat /\ DOMAIN Content[s] = 1..Len(Content[s]) BY <1>1
<1>3. Len(Content[s]) # 0 BY <1>1, EmptySeq
<1>4. \A i \in DOMAIN Content[s] : Content[s][i] \in Keys BY <1>1
<1> QED BY <1>2, <1>3, <1>4

\* What becomes of a share that another one's action does not name.
LEMMA OthersUnharmed ==
  ASSUME TargetInv, NEW t \in Shares \ harmed,
         page'[t] = page[t], worker'[t] = worker[t], readFor'[t] = readFor[t],
         done'[t] = done[t], pendingFiles'[t] = pendingFiles[t],
         page[t] \in Unread => /\ \A n \in Keys : stash[n].of = t => stash'[n] = stash[n]
                               /\ manifest = t => manifest' = t
  PROVE  UnharmedOK(t)'
<1>1. UnharmedOK(t) BY DEF TargetInv
<1>2. ASSUME NEW k \in Nat, k <= Len(Content[t]), AllStashed(t, k), page[t] \in Unread
      PROVE  AllStashed(t, k)'
  <2>1. ASSUME NEW i \in 1..k PROVE Own(t, k, Content[t][i])'
    <3>1. Content[t][i] \in Keys BY <1>2, ContentIs
    <3>2. Own(t, k, Content[t][i]) BY <1>2 DEF AllStashed
    <3>3. stash'[Content[t][i]] = stash[Content[t][i]] BY <1>2, <3>1, <3>2 DEF Own
    <3> QED BY <3>2, <3>3 DEF Own, LastNamed
  <2> QED BY <2>1 DEF AllStashed
<1>3. \A k : ReadSoFar(t, k) => ReadSoFar(t, k)' BY DEF ReadSoFar, Picked, LastNamed
<1>4. worker[t] \in Nat /\ worker[t] <= Len(Content[t]) /\ Len(Content[t]) \in Nat
      /\ Len(Content[t]) <= Len(Content[t])
    BY ContentIs DEF TargetInv, TargetTypeOK
<1>5. page[t] = "none" => AllStashed(t, worker[t])'
    BY <1>1, <1>2, <1>4 DEF UnharmedOK, Unread
<1>6. page[t] \in {"loading", "read"} => AllStashed(t, Len(Content[t]))'
    BY <1>1, <1>2, <1>4 DEF UnharmedOK, Unread
<1>7. (page[t] = "read" => ReadSoFar(t, done[t])')
      /\ (page[t] \in {"cleaning", "empty", "offered"} => ReadSoFar(t, Len(Content[t]))')
    BY <1>1, <1>3 DEF UnharmedOK
<1>8. page[t] = "loading" => manifest' = t BY <1>1 DEF UnharmedOK, Unread
<1> QED BY <1>1, <1>5, <1>6, <1>7, <1>8 DEF UnharmedOK

\* The worker stashes a file: a share that had one of that name there loses it.
LEMMA StashFileInv ==
  ASSUME TargetInv, NEW s \in Shares, StashFile(s)
  PROVE  TargetInv'
<1>0. PICK k \in Nat : k = worker[s] + 1 BY DEF TargetInv, TargetTypeOK
<1> DEFINE n == Content[s][k]
<1>1. /\ worker[s] < Len(Content[s]) /\ page[s] = "none"
      /\ worker' = [worker EXCEPT ![s] = @ + 1]
      /\ stash' = [stash EXCEPT ![n] = [of |-> s, nr |-> k]]
      /\ harmed' = harmed \cup Harm(s, {stash[n].of})
      /\ UNCHANGED <<manifest, page, readFor, done, pendingFiles>>
    BY <1>0 DEF StashFile
<1>2. worker[s] \in Nat /\ k = worker[s] + 1 /\ k \in 1..Len(Content[s]) /\ n \in Keys
    BY <1>0, <1>1, ContentIs DEF TargetInv, TargetTypeOK
<1>3. TargetTypeOK'
  <2>1. [of |-> s, nr |-> k] \in Stashed BY <1>2 DEF Stashed
  <2>2. stash' \in [Keys -> Stashed] BY <1>1, <2>1 DEF TargetInv, TargetTypeOK
  <2>3. worker' \in [Shares -> Nat] /\ \A t \in Shares : worker'[t] <= Len(Content[t])
      BY <1>1, <1>2 DEF TargetInv, TargetTypeOK
  <2> QED BY <1>1, <2>2, <2>3 DEF TargetInv, TargetTypeOK, Harm
<1>4. ASSUME NEW t \in Shares \ harmed' PROVE UnharmedOK(t)'
  <2>0. t \in Shares \ harmed BY <1>1, <1>4
  <2>1. CASE t = s
    <3>1. AllStashed(s, worker[s]) /\ pendingFiles[s] = <<>> /\ done[s] = 0
        BY <1>1, <2>0, <2>1 DEF TargetInv, UnharmedOK
    <3>2. worker'[s] = k BY <1>1, <1>2 DEF TargetInv, TargetTypeOK
    <3>3. stash'[n] = [of |-> s, nr |-> k] BY <1>1, <1>2 DEF TargetInv, TargetTypeOK
    <3>4. ASSUME NEW i \in 1..k PROVE Own(s, k, Content[s][i])'
      <4>1. CASE Content[s][i] = n
        <5>1. LastNamed(s, k, n, k) BY <1>2 DEF LastNamed
        <5> QED BY <3>3, <4>1, <5>1 DEF Own, LastNamed
      <4>2. CASE Content[s][i] # n
        <5>1. i \in 1..worker[s] /\ Content[s][i] \in Keys BY <1>2, <4>2, ContentIs
        <5>2. Own(s, worker[s], Content[s][i]) BY <3>1, <5>1 DEF AllStashed
        <5>3. stash'[Content[s][i]] = stash[Content[s][i]]
            BY <1>1, <4>2, <5>1 DEF TargetInv, TargetTypeOK
        <5>4. LastNamed(s, k, Content[s][i], stash[Content[s][i]].nr)
            BY <1>2, <4>2, <5>2 DEF Own, LastNamed
        <5> QED BY <5>2, <5>3, <5>4 DEF Own, LastNamed
      <4> QED BY <4>1, <4>2
    <3>5. AllStashed(s, worker[s])' BY <3>2, <3>4 DEF AllStashed
    <3>6. pendingFiles'[s] = <<>> /\ done'[s] = 0 /\ page'[s] = "none" BY <1>1, <3>1
    <3> QED BY <2>1, <3>5, <3>6 DEF UnharmedOK
  <2>2. CASE t # s
    <3>1. worker'[t] = worker[t] BY <1>1, <2>2 DEF TargetInv, TargetTypeOK
    <3>2. ASSUME page[t] \in Unread, NEW m \in Keys, stash[m].of = t PROVE stash'[m] = stash[m]
      <4>1. m # n BY <1>1, <1>4, <2>2, <3>2 DEF Harm
      <4> QED BY <1>1, <4>1 DEF TargetInv, TargetTypeOK
    <3> QED BY <1>1, <2>0, <3>1, <3>2, OthersUnharmed
  <2> QED BY <2>1, <2>2
<1> QED BY <1>3, <1>4 DEF TargetInv

\* The manifest is written over that of a share whose page has not read it.
LEMMA PutManifestInv ==
  ASSUME TargetInv, NEW s \in Shares, PutManifest(s)
  PROVE  TargetInv'
<1>1. /\ worker[s] = Len(Content[s]) /\ page[s] = "none" /\ manifest' = s
      /\ page' = [page EXCEPT ![s] = "loading"]
      /\ harmed' = harmed \cup Harm(s, {manifest})
      /\ UNCHANGED <<stash, worker, readFor, done, pendingFiles>>
    BY DEF PutManifest
<1>2. TargetTypeOK' BY <1>1 DEF TargetInv, TargetTypeOK, Pages, Harm
<1>3. ASSUME NEW t \in Shares \ harmed' PROVE UnharmedOK(t)'
  <2>0. t \in Shares \ harmed BY <1>1, <1>3
  <2>1. CASE t = s
    <3>1. AllStashed(s, Len(Content[s])) /\ pendingFiles[s] = <<>> /\ done[s] = 0
        BY <1>1, <2>0, <2>1 DEF TargetInv, UnharmedOK
    <3>2. AllStashed(s, Len(Content[s]))' BY <1>1, <3>1 DEF AllStashed, Own, LastNamed
    <3>3. page'[s] = "loading" BY <1>1 DEF TargetInv, TargetTypeOK
    <3> QED BY <1>1, <2>1, <3>1, <3>2, <3>3 DEF UnharmedOK
  <2>2. CASE t # s
    <3>1. page'[t] = page[t] BY <1>1, <2>2 DEF TargetInv, TargetTypeOK
    <3>2. page[t] \in Unread => manifest # t BY <1>1, <1>3, <2>2 DEF Harm
    <3> QED BY <1>1, <2>0, <3>1, <3>2, OthersUnharmed
  <2> QED BY <2>1, <2>2
<1> QED BY <1>2, <1>3 DEF TargetInv

LEMMA ReadManifestInv ==
  ASSUME TargetInv, NEW s \in Shares, ReadManifest(s)
  PROVE  TargetInv'
<1>1. /\ page[s] = "loading"
      /\ UNCHANGED <<stash, manifest, worker, done, pendingFiles, harmed>>
    BY DEF ReadManifest
<1>2. PICK p \in {"unseen", "empty", "read"} :
        /\ page' = [page EXCEPT ![s] = p]
        /\ p # "read" => UNCHANGED readFor
        /\ p = "empty" => manifest = NoShare
        /\ p = "read" => manifest # NoShare /\ readFor' = [readFor EXCEPT ![s] = manifest]
    BY DEF ReadManifest, Turn
<1>3. TargetTypeOK' BY <1>1, <1>2 DEF TargetInv, TargetTypeOK, Pages
<1>4. ASSUME NEW t \in Shares \ harmed' PROVE UnharmedOK(t)'
  <2>0. t \in Shares \ harmed BY <1>1, <1>4
  <2>1. CASE t = s
    <3>1. manifest = s /\ AllStashed(s, Len(Content[s])) /\ pendingFiles[s] = <<>> /\ done[s] = 0
        BY <1>1, <2>0, <2>1 DEF TargetInv, UnharmedOK
    <3>2. p # "empty" BY <1>2, <3>1, ShareAssumption
    <3>3. AllStashed(s, Len(Content[s]))' BY <1>1, <3>1 DEF AllStashed, Own, LastNamed
    <3>4. page'[s] = p BY <1>2 DEF TargetInv, TargetTypeOK
    <3>5. p = "read" => readFor'[s] = s BY <1>2, <3>1 DEF TargetInv, TargetTypeOK
    <3>6. done'[s] = 0 /\ pendingFiles'[s] = <<>> BY <1>1, <3>1
    <3>7. ReadSoFar(s, done[s])' BY <3>6 DEF ReadSoFar
    <3>8. done'[s] <= Len(Content[s]) BY <3>6, ContentIs
    <3> QED BY <2>1, <3>2, <3>3, <3>4, <3>5, <3>7, <3>8 DEF UnharmedOK
  <2>2. CASE t # s
    <3>1. page'[t] = page[t] /\ readFor'[t] = readFor[t]
        BY <1>2, <2>2 DEF TargetInv, TargetTypeOK
    <3> QED BY <1>1, <2>0, <3>1, OthersUnharmed
  <2> QED BY <2>1, <2>2
<1> QED BY <1>3, <1>4 DEF TargetInv

LEMMA ReadFileInv ==
  ASSUME TargetInv, NEW s \in Shares, ReadFile(s)
  PROVE  TargetInv'
<1>0. /\ page[s] = "read" /\ done[s] < Len(Content[readFor[s]])
      /\ readFor[s] \in Shares /\ done[s] \in Nat
    BY DEF ReadFile, TargetInv, TargetTypeOK
<1>k. PICK k \in Nat : k = done[s] + 1 BY <1>0
<1>n. PICK n \in Keys : n = Content[readFor[s]][k] BY <1>0, <1>k, ContentIs
<1> DEFINE e == [name |-> n, bytes |-> stash[n]]
<1>1. /\ page[s] = "read" /\ done' = [done EXCEPT ![s] = k]
      /\ pendingFiles' = IF stash[n] = NoBytes THEN pendingFiles
                         ELSE [pendingFiles EXCEPT ![s] = Append(@, e)]
      /\ UNCHANGED <<stash, manifest, worker, page, readFor, harmed>>
    BY <1>k, <1>n DEF ReadFile
<1>2. readFor[s] \in Shares /\ done[s] \in Nat /\ k = done[s] + 1 BY <1>0, <1>k
<1>3. k \in 1..Len(Content[readFor[s]]) BY <1>0, <1>k, ContentIs
<1>4. e \in [name : Keys, bytes : Stashed] BY DEF TargetInv, TargetTypeOK
<1>5. pendingFiles' \in [Shares -> Seq([name : Keys, bytes : Stashed])]
  <2>1. pendingFiles[s] \in Seq([name : Keys, bytes : Stashed]) BY DEF TargetInv, TargetTypeOK
  <2>2. Append(pendingFiles[s], e) \in Seq([name : Keys, bytes : Stashed]) BY <1>4, <2>1
  <2>3. [pendingFiles EXCEPT ![s] = Append(@, e)]
          \in [Shares -> Seq([name : Keys, bytes : Stashed])]
      BY <2>2 DEF TargetInv, TargetTypeOK
  <2>4. pendingFiles' \in {pendingFiles, [pendingFiles EXCEPT ![s] = Append(@, e)]} BY <1>1
  <2> QED BY <2>3, <2>4 DEF TargetInv, TargetTypeOK
<1>6. TargetTypeOK'
  <2>1. done' \in [Shares -> Nat] BY <1>1 DEF TargetInv, TargetTypeOK
  <2>2. UNCHANGED <<stash, manifest, worker, page, readFor, harmed>> BY <1>1
  <2> QED BY <1>5, <2>1, <2>2 DEF TargetInv, TargetTypeOK
<1>7. ASSUME NEW t \in Shares \ harmed' PROVE UnharmedOK(t)'
  <2>0. t \in Shares \ harmed BY <1>1, <1>7
  <2>1. CASE t = s
    <3>1. /\ readFor[s] = s /\ AllStashed(s, Len(Content[s])) /\ ReadSoFar(s, done[s])
        BY <1>1, <2>0, <2>1 DEF TargetInv, UnharmedOK
    <3>2. Own(s, Len(Content[s]), n) /\ k \in 1..Len(Content[s]) /\ n = Content[s][k]
        BY <1>n, <1>3, <3>1 DEF AllStashed
    <3>3. stash[n] # NoBytes BY <3>2, ShareAssumption DEF Own, NoBytes
    <3>4. done'[s] = k /\ pendingFiles'[s] = Append(pendingFiles[s], e)
        BY <1>1, <3>3 DEF TargetInv, TargetTypeOK
    <3>5. Len(pendingFiles'[s]) = k /\ pendingFiles'[s][k] = e
          /\ \A i \in 1..done[s] : pendingFiles'[s][i] = pendingFiles[s][i]
      <4>1. pendingFiles[s] \in Seq([name : Keys, bytes : Stashed]) BY DEF TargetInv, TargetTypeOK
      <4>2. Len(pendingFiles[s]) = done[s] BY <3>1 DEF ReadSoFar
      <4> QED BY <1>2, <1>4, <3>4, <4>1, <4>2
    <3>6. ASSUME NEW i \in 1..k PROVE Picked(s, i)'
      <4>1. CASE i = k BY <3>2, <3>5, <4>1 DEF Picked, Own, LastNamed
      <4>2. CASE i # k
        <5>1. i \in 1..done[s] BY <1>2, <4>2
        <5>2. Picked(s, i) BY <3>1, <5>1 DEF ReadSoFar
        <5> QED BY <3>5, <5>1, <5>2 DEF Picked, LastNamed
      <4> QED BY <4>1, <4>2
    <3>7. ReadSoFar(s, done[s])' BY <3>4, <3>5, <3>6 DEF ReadSoFar
    <3>8. AllStashed(s, Len(Content[s]))' BY <1>1, <3>1 DEF AllStashed, Own, LastNamed
    <3>9. done'[s] <= Len(Content[s]) BY <3>2, <3>4, ContentIs
    <3>a. page'[s] = "read" /\ readFor'[s] = s BY <1>1, <3>1
    <3> QED BY <2>1, <3>7, <3>8, <3>9, <3>a DEF UnharmedOK
  <2>2. CASE t # s
    <3>1. done'[t] = done[t] /\ pendingFiles'[t] = pendingFiles[t]
        BY <1>1, <2>2 DEF TargetInv, TargetTypeOK
    <3> QED BY <1>1, <2>0, <3>1, OthersUnharmed
  <2> QED BY <2>1, <2>2
<1> QED BY <1>6, <1>7 DEF TargetInv

\* The cleaning takes manifest and files from whichever share they are now of.
LEMMA RemoveManifestInv ==
  ASSUME TargetInv, NEW s \in Shares, RemoveManifest(s)
  PROVE  TargetInv'
<1>1. /\ page[s] = "read" /\ done[s] = Len(Content[readFor[s]]) /\ manifest' = NoShare
      /\ page' = [page EXCEPT ![s] = "cleaning"] /\ done' = [done EXCEPT ![s] = 0]
      /\ harmed' = harmed \cup Harm(s, {manifest})
      /\ UNCHANGED <<stash, worker, readFor, pendingFiles>>
    BY DEF RemoveManifest, Turn
<1>2. TargetTypeOK' BY <1>1 DEF TargetInv, TargetTypeOK, Pages, Harm
<1>3. ASSUME NEW t \in Shares \ harmed' PROVE UnharmedOK(t)'
  <2>0. t \in Shares \ harmed BY <1>1, <1>3
  <2>1. CASE t = s
    <3>1. readFor[s] = s /\ ReadSoFar(s, done[s]) BY <1>1, <2>0, <2>1 DEF TargetInv, UnharmedOK
    <3>2. ReadSoFar(s, Len(Content[s])) BY <1>1, <3>1
    <3>3. ReadSoFar(s, Len(Content[s]))' BY <1>1, <3>2 DEF ReadSoFar, Picked, LastNamed
    <3>4. page'[s] = "cleaning" BY <1>1 DEF TargetInv, TargetTypeOK
    <3> QED BY <2>1, <3>3, <3>4 DEF UnharmedOK
  <2>2. CASE t # s
    <3>1. page'[t] = page[t] /\ done'[t] = done[t] BY <1>1, <2>2 DEF TargetInv, TargetTypeOK
    <3>2. page[t] \in Unread => manifest # t BY <1>1, <1>3, <2>2 DEF Harm
    <3> QED BY <1>1, <2>0, <3>1, <3>2, OthersUnharmed
  <2> QED BY <2>1, <2>2
<1> QED BY <1>2, <1>3 DEF TargetInv

LEMMA RemoveFileInv ==
  ASSUME TargetInv, NEW s \in Shares, RemoveFile(s)
  PROVE  TargetInv'
<1> DEFINE n == Content[readFor[s]][done[s] + 1]
<1>1. /\ page[s] = "cleaning" /\ done[s] < Len(Content[readFor[s]])
      /\ done' = [done EXCEPT ![s] = @ + 1]
      /\ stash' = [stash EXCEPT ![n] = NoBytes]
      /\ harmed' = harmed \cup Harm(s, {stash[n].of})
      /\ UNCHANGED <<manifest, worker, page, readFor, pendingFiles>>
    BY DEF RemoveFile
<1>2. TargetTypeOK'
  <2>1. NoBytes \in Stashed BY DEF NoBytes, Stashed
  <2>2. stash' \in [Keys -> Stashed] BY <1>1, <2>1 DEF TargetInv, TargetTypeOK
  <2>3. done' \in [Shares -> Nat] BY <1>1 DEF TargetInv, TargetTypeOK
  <2> QED BY <1>1, <2>2, <2>3 DEF TargetInv, TargetTypeOK, Harm
<1>3. ASSUME NEW t \in Shares \ harmed' PROVE UnharmedOK(t)'
  <2>0. t \in Shares \ harmed BY <1>1, <1>3
  <2>1. CASE t = s
    <3>1. ReadSoFar(s, Len(Content[s])) BY <1>1, <2>0, <2>1 DEF TargetInv, UnharmedOK
    <3>2. ReadSoFar(s, Len(Content[s]))' BY <1>1, <3>1 DEF ReadSoFar, Picked, LastNamed
    <3> QED BY <1>1, <2>1, <3>2 DEF UnharmedOK
  <2>2. CASE t # s
    <3>1. done'[t] = done[t] BY <1>1, <2>2 DEF TargetInv, TargetTypeOK
    <3>2. ASSUME page[t] \in Unread, NEW m \in Keys, stash[m].of = t PROVE stash'[m] = stash[m]
      <4>1. m # n BY <1>1, <1>3, <2>2, <3>2 DEF Harm
      <4> QED BY <1>1, <4>1 DEF TargetInv, TargetTypeOK
    <3> QED BY <1>1, <2>0, <3>1, <3>2, OthersUnharmed
  <2> QED BY <2>1, <2>2
<1> QED BY <1>2, <1>3 DEF TargetInv

\* A new worker keeps the share cache; the rest only turns the page.
LEMMA TargetRestInv ==
  ASSUME TargetInv,
         \/ Activate \/ UNCHANGED targetVars
         \/ \E s \in Shares : Offer(s) \/ ReadingFails(s) \/ ShareTargetDialog(s)
  PROVE  TargetInv'
<1>1. UNCHANGED <<stash, manifest, worker, readFor, done, pendingFiles, harmed>>
    BY DEF Activate, KeepCaches, Offer, ReadingFails, ShareTargetDialog, targetVars
<1>2. page' \in [Shares -> Pages]
      /\ \A s \in Shares :
           \/ page'[s] = page[s] \/ page'[s] \in {"failed", "closed"}
           \/ page[s] = "cleaning" /\ page'[s] \in {"empty", "offered"}
  <2>1. CASE UNCHANGED page BY <2>1 DEF TargetInv, TargetTypeOK
  <2>2. ASSUME NEW s \in Shares, Offer(s) \/ ReadingFails(s) \/ ShareTargetDialog(s)
        PROVE  \/ UNCHANGED page
               \/ \E p \in {"failed", "closed"} : page' = [page EXCEPT ![s] = p]
               \/ /\ page[s] = "cleaning"
                  /\ \E p \in {"empty", "offered"} : page' = [page EXCEPT ![s] = p]
      BY <2>2 DEF Offer, ReadingFails, ShareTargetDialog, Turn
  <2> QED BY <2>1, <2>2 DEF TargetInv, TargetTypeOK, Pages, Activate, targetVars
<1>3. TargetTypeOK' BY <1>1, <1>2 DEF TargetInv, TargetTypeOK
<1>4. ASSUME NEW s \in Shares \ harmed PROVE UnharmedOK(s)'
  <2>1. CASE page'[s] = page[s] BY <1>1, <2>1, OthersUnharmed
  <2>2. CASE page'[s] \in {"failed", "closed"} BY <2>2 DEF UnharmedOK
  <2>3. CASE page[s] = "cleaning" /\ page'[s] \in {"empty", "offered"}
    <3>1. ReadSoFar(s, Len(Content[s])) BY <2>3 DEF TargetInv, UnharmedOK
    <3>2. ReadSoFar(s, Len(Content[s]))' BY <1>1, <3>1 DEF ReadSoFar, Picked, LastNamed
    <3> QED BY <2>3, <3>2 DEF UnharmedOK
  <2> QED BY <1>2, <2>1, <2>2, <2>3
<1> QED BY <1>1, <1>3, <1>4 DEF TargetInv

\* A share of which no other one took anything unread is offered in full, in order and
\* with its own bytes (stashSharedFiles in the service worker, and useShareTarget).
THEOREM SharedFilesArrive == TargetSpec => []SharesArrive
<1>1. TargetInit => TargetInv
  <2> SUFFICES ASSUME TargetInit PROVE TargetInv
      OBVIOUS
  <2>1. \A s \in Shares : Len(Content[s]) \in Nat BY ContentIs
  <2>2. TargetTypeOK BY <2>1 DEF TargetInit, TargetTypeOK, Pages, NoBytes, Stashed
  <2>3. \A s \in Shares : UnharmedOK(s) BY DEF TargetInit, UnharmedOK, AllStashed
  <2> QED BY <2>2, <2>3 DEF TargetInv
<1>2. TargetInv /\ [TargetNext]_targetVars => TargetInv'
    BY StashFileInv, PutManifestInv, ReadManifestInv, ReadFileInv, RemoveManifestInv,
       RemoveFileInv, TargetRestInv DEF TargetNext
<1>3. TargetInv => SharesArrive
  <2> SUFFICES ASSUME TargetInv, NEW s \in Shares \ harmed, page[s] \in {"empty", "offered"}
               PROVE  Whole(s)
      BY DEF SharesArrive
  <2>1. ReadSoFar(s, Len(Content[s])) BY DEF TargetInv, UnharmedOK
  <2> QED BY <2>1, ContentIs DEF ReadSoFar, Picked, Whole
<1> QED BY <1>1, <1>2, <1>3, PTL DEF TargetSpec

-----------------------------------------------------------------------------
(* MeetingScreen: the watcher shows the newest track, or something on its *)
(* way, on the one channel or the other, will put that right.             *)

Signals == [state: {"stopped", "switching"}, of: Nat]
Events == [is: {"subscribed", "unsubscribed"}, track: Nat]
Steps == {"none", "starting", "stopping", "changing", "picking"}
Comes(n) == [is |-> "subscribed", track |-> n]
Goes(n) == [is |-> "unsubscribed", track |-> n]

ComesYet == \E i \in DOMAIN events : events[i].is = "subscribed"
StopsAfter(i) == \E j \in DOMAIN signals : j > i /\ signals[j].state = "stopped"
Changing == step \in {"changing", "picking"}

MeetingTypeOK ==
  /\ madeTracks \in Nat /\ published \in {0, madeTracks} /\ step \in Steps
  /\ signals \in Seq(Signals) /\ \A i \in DOMAIN signals : signals[i].of <= madeTracks
  /\ events \in Seq(Events) /\ \A i \in DOMAIN events : events[i].track \in 1..madeTracks
  /\ screen \in [track: 0..madeTracks, isSwitching: BOOLEAN]
  /\ timers \subseteq 0..madeTracks
  /\ overtakenSignal \in BOOLEAN /\ abandoned \in BOOLEAN /\ mistold \in BOOLEAN

SharerOK ==
  /\ joining # "none" => mode = "none" /\ step \in {"none", "starting"}
  /\ step = "picking" => published = 0

\* The newest track is the last that comes, and has gone when nothing is shared.
EventsOK ==
  \A i \in DOMAIN events :
    /\ events[i] = Goes(madeTracks) => published = 0
    /\ events[i].is = "subscribed" /\ events[i].track # madeTracks =>
         \E j \in DOMAIN events : j > i /\ events[j].is = "subscribed"
    /\ events[i] = Comes(madeTracks) /\ published = 0 =>
         \E j \in DOMAIN events : j > i /\ events[j] = Goes(madeTracks)

\* A signal that stops the newest track is sent when it has gone or is about to, or the
\* watcher has been told what is not so.
SignalsOK ==
  /\ \A i, j \in DOMAIN signals : i < j => signals[i].of <= signals[j].of
  /\ \A i \in DOMAIN signals : signals[i].of = madeTracks /\ signals[i].state = "stopped"
                                 => published = 0 \/ step = "stopping" \/ mistold

WatcherOK ==
  /\ madeTracks \in timers => published = 0
  /\ screen.track = 0 => ~screen.isSwitching
  /\ ~ComesYet => screen.track \in {0, madeTracks}

\* Unless the sharer left in the middle of a change, a signal was overtaken, or the
\* watcher has been told wrong.
Follows ==
  /\ published # 0 /\ ~ComesYet /\ step \notin {"stopping", "changing"} =>
       screen = [track |-> madeTracks, isSwitching |-> FALSE]
  /\ screen.isSwitching /\ ~ComesYet => Changing \/ StopsAfter(0)
  /\ \A i \in DOMAIN signals : signals[i].of = madeTracks /\ signals[i].state = "switching"
                                 => Changing \/ StopsAfter(i)
  /\ published = 0 /\ ~ComesYet /\ screen.track # 0 /\ ~screen.isSwitching =>
       madeTracks \in timers \/ \E i \in DOMAIN events : events[i] = Goes(madeTracks)

MeetingInv ==
  /\ MeetingTypeOK /\ SharerOK /\ EventsOK /\ SignalsOK /\ WatcherOK
  /\ overtakenSignal \/ abandoned \/ mistold \/ Follows

\* What joins a channel is last.
LEMMA Appended ==
  ASSUME NEW S, NEW s \in Seq(S), NEW e \in S, NEW t, t = Append(s, e)
  PROVE  /\ t \in Seq(S) /\ Len(s) \in Nat /\ DOMAIN s = 1..Len(s)
         /\ DOMAIN t = DOMAIN s \cup {Len(s) + 1} /\ t[Len(s) + 1] = e
         /\ \A i \in DOMAIN s : t[i] = s[i]
BY AppendProperties

\* What has arrived leaves the others one place nearer.
LEMMA Arrived ==
  ASSUME NEW S, NEW s \in Seq(S), s # <<>>, NEW t, t = Tail(s)
  PROVE  /\ t \in Seq(S) /\ 1 \in DOMAIN s /\ Head(s) = s[1] /\ s[1] \in S
         /\ DOMAIN s \subseteq Nat \ {0} /\ DOMAIN t \subseteq Nat \ {0}
         /\ \A i \in DOMAIN t : i + 1 \in DOMAIN s /\ t[i] = s[i + 1]
         /\ \A i \in DOMAIN s : i > 1 => i - 1 \in DOMAIN t /\ t[i - 1] = s[i]
<1>1. Len(s) \in Nat \ {0} /\ DOMAIN s = 1..Len(s) BY EmptySeq, LenProperties
<1>2. t \in Seq(S) /\ Len(t) = Len(s) - 1 /\ \A i \in 1..Len(t) : t[i] = s[i + 1]
    BY HeadTailProperties
<1>3. DOMAIN t = 1..Len(t) BY <1>2, LenProperties
<1>4. Head(s) = s[1] /\ s[1] \in S BY <1>1, HeadTailProperties, ElementOfSeq
<1> QED BY <1>1, <1>2, <1>3, <1>4

\* A signal or a track that goes: what the sharer does without a new track.
LEMMA SharerInv ==
  ASSUME MeetingInv, UNCHANGED <<madeTracks, watcherVars>>,
         TrackGoes \/ UNCHANGED <<published, events>>,
         NEW said \in {"none", "stopped", "switching"},
         said = "none" => UNCHANGED signals,
         said # "none" => publishScreenShareSignal(said),
         SharerOK', step' \in Steps, abandoned' \in BOOLEAN, abandoned => abandoned',
         mistold' \in BOOLEAN, mistold => mistold',
         said = "switching" => step' = "changing",
         said = "stopped" => published' = 0 \/ step' = "stopping" \/ mistold',
         step \in {"stopping", "changing"} /\ step' # step => published' = 0 \/ mistold',
         Changing /\ said # "stopped" => abandoned' \/ Changing'
  PROVE  MeetingInv'
<1>1. UNCHANGED <<screen, timers, overtakenSignal>> BY DEF watcherVars
<1>2. published' \in {0, madeTracks} /\ (published = 0 => published' = 0)
    BY DEF TrackGoes, MeetingInv, MeetingTypeOK
<1>3. /\ events' \in Seq(Events)
      /\ \A i \in DOMAIN events : i \in DOMAIN events' /\ events'[i] = events[i]
      /\ \A i \in DOMAIN events' \ DOMAIN events :
            /\ published # 0 /\ published' = 0 /\ events'[i] = Goes(madeTracks)
            /\ \A k \in DOMAIN events : k < i
      /\ published # 0 /\ published' = 0 => DOMAIN events' \ DOMAIN events # {}
  <2>1. CASE UNCHANGED <<published, events>> BY <2>1 DEF MeetingInv, MeetingTypeOK
  <2>2. CASE TrackGoes /\ published = 0
      BY <2>2 DEF TrackGoes, MeetingInv, MeetingTypeOK
  <2>3. CASE TrackGoes /\ published # 0
    <3>1. events' = Append(events, Goes(madeTracks)) /\ published' = 0
        BY <2>3 DEF TrackGoes, Goes, MeetingInv, MeetingTypeOK
    <3>2. Goes(madeTracks) \in Events BY DEF Goes, Events, MeetingInv, MeetingTypeOK
    <3>3. events \in Seq(Events) BY DEF MeetingInv, MeetingTypeOK
    <3>4. /\ events' \in Seq(Events) /\ Len(events) \in Nat /\ DOMAIN events = 1..Len(events)
          /\ DOMAIN events' = DOMAIN events \cup {Len(events) + 1}
          /\ events'[Len(events) + 1] = Goes(madeTracks)
          /\ \A i \in DOMAIN events : events'[i] = events[i]
        BY <3>1, <3>2, <3>3, Appended
    <3>5. Len(events) + 1 \notin DOMAIN events /\ \A k \in DOMAIN events : k < Len(events) + 1
        BY <3>4
    <3> QED BY <2>3, <3>1, <3>4, <3>5
  <2> QED BY <2>1, <2>2, <2>3
<1>4. /\ signals' \in Seq(Signals)
      /\ \A i \in DOMAIN signals : i \in DOMAIN signals' /\ signals'[i] = signals[i]
      /\ \A i \in DOMAIN signals' \ DOMAIN signals :
            /\ said # "none" /\ signals'[i].state = said /\ signals'[i].of = madeTracks
            /\ \A k \in DOMAIN signals : k < i
      /\ said # "none" => \E i \in DOMAIN signals' \ DOMAIN signals : i > 0
      /\ \A i, j \in DOMAIN signals' \ DOMAIN signals : i = j
  <2>1. CASE said = "none" BY <2>1 DEF MeetingInv, MeetingTypeOK
  <2>2. CASE said # "none"
    <3>1. signals' = Append(signals, Signal(said))
        BY <2>2 DEF publishScreenShareSignal
    <3>2. /\ Signal(said) \in Signals /\ Signal(said).state = said
          /\ Signal(said).of = madeTracks
        BY <2>2 DEF Signal, Signals, MeetingInv, MeetingTypeOK
    <3>3. signals \in Seq(Signals) BY DEF MeetingInv, MeetingTypeOK
    <3>4. /\ signals' \in Seq(Signals) /\ Len(signals) \in Nat
          /\ DOMAIN signals = 1..Len(signals)
          /\ DOMAIN signals' = DOMAIN signals \cup {Len(signals) + 1}
          /\ signals'[Len(signals) + 1] = Signal(said)
          /\ \A i \in DOMAIN signals : signals'[i] = signals[i]
        BY <3>1, <3>2, <3>3, Appended
    <3>5. /\ Len(signals) + 1 \notin DOMAIN signals /\ Len(signals) + 1 > 0
          /\ \A k \in DOMAIN signals : k < Len(signals) + 1
        BY <3>4
    <3> QED BY <2>2, <3>2, <3>4, <3>5
  <2> QED BY <2>1, <2>2
<1>5. MeetingTypeOK'
  <2>1. \A i \in DOMAIN signals' : signals'[i].of <= madeTracks
      BY <1>4 DEF MeetingInv, MeetingTypeOK
  <2>2. \A i \in DOMAIN events' : events'[i].track \in 1..madeTracks
    <3>1. ASSUME NEW i \in DOMAIN events' \ DOMAIN events
          PROVE  events'[i].track \in 1..madeTracks
        BY <1>3, <3>1 DEF Goes, MeetingInv, MeetingTypeOK
    <3> QED BY <1>3, <3>1 DEF MeetingInv, MeetingTypeOK
  <2> QED BY <1>1, <1>2, <1>3, <1>4, <2>1, <2>2 DEF MeetingInv, MeetingTypeOK
<1>6. EventsOK'
  <2> SUFFICES ASSUME NEW i \in DOMAIN events'
               PROVE  /\ events'[i] = Goes(madeTracks) => published' = 0
                      /\ events'[i].is = "subscribed" /\ events'[i].track # madeTracks =>
                           \E j \in DOMAIN events' : j > i /\ events'[j].is = "subscribed"
                      /\ events'[i] = Comes(madeTracks) /\ published' = 0 =>
                           \E j \in DOMAIN events' : j > i /\ events'[j] = Goes(madeTracks)
      BY DEF EventsOK, Goes, Comes
  <2>1. CASE i \notin DOMAIN events
      BY <1>3, <2>1 DEF Goes, Comes
  <2>2. CASE i \in DOMAIN events
    <3>1. events'[i] = events[i] BY <1>3, <2>2
    <3>2. events'[i] = Goes(madeTracks) => published' = 0
        BY <1>2, <2>2, <3>1 DEF MeetingInv, EventsOK
    <3>3. ASSUME events'[i].is = "subscribed", events'[i].track # madeTracks
          PROVE  \E j \in DOMAIN events' : j > i /\ events'[j].is = "subscribed"
        BY <1>3, <2>2, <3>1, <3>3 DEF MeetingInv, EventsOK
    <3>4. ASSUME events'[i] = Comes(madeTracks), published' = 0
          PROVE  \E j \in DOMAIN events' : j > i /\ events'[j] = Goes(madeTracks)
      <4>1. CASE published = 0 BY <1>3, <2>2, <3>1, <3>4, <4>1 DEF MeetingInv, EventsOK
      <4>2. CASE published # 0
        <5>1. PICK j \in DOMAIN events' \ DOMAIN events : TRUE BY <1>3, <3>4, <4>2
        <5>2. events'[j] = Goes(madeTracks) /\ i < j BY <1>3, <2>2, <5>1
        <5>3. i \in Nat /\ j \in Nat BY <1>3, LenProperties
        <5> QED BY <5>2, <5>3
      <4> QED BY <4>1, <4>2
    <3> QED BY <3>2, <3>3, <3>4
  <2> QED BY <2>1, <2>2
<1>7. SignalsOK'
  <2>1. ASSUME NEW i \in DOMAIN signals', NEW j \in DOMAIN signals', i < j
        PROVE  signals'[i].of <= signals'[j].of
    <3>1. DOMAIN signals' \subseteq Nat BY <1>4, LenProperties
    <3>2. CASE i \in DOMAIN signals /\ j \in DOMAIN signals
        BY <1>4, <2>1, <3>2 DEF MeetingInv, SignalsOK
    <3>3. CASE i \in DOMAIN signals /\ j \notin DOMAIN signals
        BY <1>4, <2>1, <3>3 DEF MeetingInv, MeetingTypeOK
    <3>4. CASE i \notin DOMAIN signals /\ j \in DOMAIN signals
        BY <1>4, <2>1, <3>1, <3>4
    <3>5. CASE i \notin DOMAIN signals /\ j \notin DOMAIN signals
        BY <1>4, <2>1, <3>1, <3>5
    <3> QED BY <3>2, <3>3, <3>4, <3>5
  <2>2. ASSUME NEW i \in DOMAIN signals',
               signals'[i].of = madeTracks, signals'[i].state = "stopped"
        PROVE  published' = 0 \/ step' = "stopping" \/ mistold'
    <3>1. CASE i \in DOMAIN signals
        BY <1>2, <1>4, <2>2, <3>1 DEF MeetingInv, SignalsOK
    <3>2. CASE i \notin DOMAIN signals BY <1>4, <2>2, <3>2
    <3> QED BY <3>1, <3>2
  <2> QED BY <2>1, <2>2 DEF SignalsOK
<1>8. ComesYet' <=> ComesYet
    BY <1>3 DEF ComesYet, Goes
<1>9. WatcherOK' BY <1>1, <1>2, <1>8 DEF MeetingInv, WatcherOK
<1>10. ASSUME ~overtakenSignal, ~abandoned', ~mistold' PROVE Follows'
  <2>1. Follows BY <1>10 DEF MeetingInv
  <2>2. ASSUME NEW i \in {0} \cup DOMAIN signals, Changing \/ StopsAfter(i)
        PROVE  Changing' \/ StopsAfter(i)'
    <3>1. CASE StopsAfter(i) BY <1>4, <3>1 DEF StopsAfter
    <3>2. CASE said = "stopped"
      <4>1. PICK j \in DOMAIN signals' \ DOMAIN signals : j > 0 BY <1>4, <3>2
      <4>2. signals'[j].state = "stopped" /\ \A k \in DOMAIN signals : k < j
          BY <1>4, <3>2, <4>1
      <4>3. DOMAIN signals' \subseteq Nat BY <1>4, LenProperties
      <4>4. j > i BY <1>4, <4>1, <4>2, <4>3
      <4> QED BY <4>1, <4>2, <4>4 DEF StopsAfter
    <3> QED BY <1>10, <2>2, <3>1, <3>2
  <2>3. ASSUME NEW i \in DOMAIN signals', signals'[i].of = madeTracks,
               signals'[i].state = "switching"
        PROVE  Changing' \/ StopsAfter(i)'
    <3>1. CASE i \in DOMAIN signals BY <1>4, <2>1, <2>2, <2>3, <3>1 DEF Follows
    <3>2. CASE i \notin DOMAIN signals BY <1>4, <2>3, <3>2 DEF Changing
    <3> QED BY <3>1, <3>2
  <2>4. ASSUME published' # 0, ~ComesYet, step' \notin {"stopping", "changing"}
        PROVE  screen = [track |-> madeTracks, isSwitching |-> FALSE]
      BY <1>2, <1>10, <2>1, <2>4 DEF Follows
  <2>5. screen.isSwitching /\ ~ComesYet => Changing' \/ StopsAfter(0)'
      BY <2>1, <2>2 DEF Follows
  <2>6. ASSUME published' = 0, ~ComesYet, screen.track # 0, ~screen.isSwitching
        PROVE  madeTracks \in timers \/ \E i \in DOMAIN events' : events'[i] = Goes(madeTracks)
      BY <1>3, <2>1, <2>6 DEF Follows
  <2> QED BY <1>1, <1>8, <2>3, <2>4, <2>5, <2>6 DEF Follows, Goes
<1> QED BY <1>1, <1>5, <1>6, <1>7, <1>9, <1>10 DEF MeetingInv, MeetingTypeOK

\* A new track is shared.
LEMMA TrackInv ==
  ASSUME MeetingInv, TrackComes, UNCHANGED <<signals, watcherVars, abandoned, mistold>>,
         SharerOK', step' \in Steps
  PROVE  MeetingInv'
<1> DEFINE m == madeTracks + 1
<1>1. /\ UNCHANGED <<signals, screen, timers, overtakenSignal, abandoned, mistold>>
      /\ m \in Nat /\ madeTracks \in Nat
    BY DEF watcherVars, MeetingInv, MeetingTypeOK
<1>2. /\ events' \in Seq(Events) /\ Len(events) \in Nat /\ DOMAIN events = 1..Len(events)
      /\ DOMAIN events' = DOMAIN events \cup {Len(events) + 1}
      /\ events'[Len(events) + 1] = Comes(m)
      /\ \A i \in DOMAIN events : events'[i] = events[i]
  <2>1. events' = Append(events, Comes(m)) BY DEF TrackComes, Comes
  <2>2. Comes(m) \in Events BY <1>1 DEF Comes, Events
  <2> QED BY <2>1, <2>2, Appended DEF MeetingInv, MeetingTypeOK
<1>3. madeTracks' = m /\ published' = m BY DEF TrackComes
<1>4. Len(events) + 1 \in DOMAIN events' /\ events'[Len(events) + 1].is = "subscribed"
      /\ events'[Len(events) + 1].track = m
    BY <1>2 DEF Comes
<1>5. ComesYet' BY <1>4 DEF ComesYet
<1>6. MeetingTypeOK'
  <2>1. \A i \in DOMAIN signals' : signals'[i].of <= m
    <3>1. \A i \in DOMAIN signals : signals[i].of \in Nat /\ signals[i].of <= madeTracks
      <4>1. signals \in Seq(Signals) BY DEF MeetingInv, MeetingTypeOK
      <4>2. \A i \in DOMAIN signals : signals[i] \in Signals
          BY <4>1, ElementOfSeq, LenProperties
      <4> QED BY <4>2 DEF Signals, MeetingInv, MeetingTypeOK
    <3> QED BY <1>1, <3>1
  <2>2. \A i \in DOMAIN events' : events'[i].track \in 1..m
      BY <1>1, <1>2, <1>4 DEF MeetingInv, MeetingTypeOK
  <2>3. screen \in [track: 0..m, isSwitching: BOOLEAN] /\ timers \subseteq 0..m
      BY <1>1 DEF MeetingInv, MeetingTypeOK
  <2> QED BY <1>1, <1>2, <1>3, <2>1, <2>2, <2>3 DEF MeetingInv, MeetingTypeOK
<1>7. \A i \in DOMAIN events : events'[i].track < m /\ i < Len(events) + 1
    BY <1>1, <1>2 DEF MeetingInv, MeetingTypeOK
<1>8. EventsOK'
  <2> SUFFICES ASSUME NEW i \in DOMAIN events'
               PROVE  /\ events'[i] # Goes(m)
                      /\ events'[i].is = "subscribed" /\ events'[i].track # m =>
                           \E j \in DOMAIN events' : j > i /\ events'[j].is = "subscribed"
      BY <1>1, <1>3 DEF EventsOK, Goes
  <2>1. CASE i \in DOMAIN events
    <3>1. events'[i] # Goes(m) BY <1>1, <1>7, <2>1 DEF Goes
    <3> QED BY <1>4, <1>7, <2>1, <3>1
  <2>2. CASE i = Len(events) + 1 BY <1>2, <1>4, <2>2 DEF Comes, Goes
  <2> QED BY <1>2, <2>1, <2>2
<1>9. \A i \in DOMAIN signals : signals[i].of # m
    BY <1>1 DEF MeetingInv, MeetingTypeOK
<1>10. SignalsOK' BY <1>1, <1>3, <1>9 DEF MeetingInv, SignalsOK
<1>11. WatcherOK' BY <1>1, <1>3, <1>5 DEF MeetingInv, MeetingTypeOK, WatcherOK
<1>12. Follows' BY <1>1, <1>3, <1>5, <1>9 DEF Follows
<1> QED BY <1>6, <1>8, <1>10, <1>11, <1>12 DEF MeetingInv

\* The watcher hears of a track.
LEMMA HearsInv ==
  ASSUME MeetingInv, TrackSubscribed \/ TrackUnsubscribed
  PROVE  MeetingInv'
<1>1. /\ UNCHANGED <<mode, joining, published, madeTracks, step, signals, overtakenSignal,
                     abandoned, mistold>>
      /\ events # <<>> /\ events' = Tail(events)
    BY DEF TrackSubscribed, TrackUnsubscribed, sharerVars
<1>2. /\ events' \in Seq(Events) /\ 1 \in DOMAIN events /\ Head(events) = events[1]
      /\ events[1] \in Events
      /\ DOMAIN events \subseteq Nat \ {0} /\ DOMAIN events' \subseteq Nat \ {0}
      /\ \A i \in DOMAIN events' : i + 1 \in DOMAIN events /\ events'[i] = events[i + 1]
      /\ \A i \in DOMAIN events : i > 1 => i - 1 \in DOMAIN events' /\ events'[i - 1] = events[i]
    BY <1>1, Arrived DEF MeetingInv, MeetingTypeOK
<1> DEFINE k == events[1].track
<1>3. k \in 1..madeTracks BY <1>2 DEF MeetingInv, MeetingTypeOK
<1>4. EventsOK'
  <2> SUFFICES ASSUME NEW i \in DOMAIN events'
               PROVE  /\ events'[i] = Goes(madeTracks) => published = 0
                      /\ events'[i].is = "subscribed" /\ events'[i].track # madeTracks =>
                           \E j \in DOMAIN events' : j > i /\ events'[j].is = "subscribed"
                      /\ events'[i] = Comes(madeTracks) /\ published = 0 =>
                           \E j \in DOMAIN events' : j > i /\ events'[j] = Goes(madeTracks)
      BY <1>1 DEF EventsOK, Goes, Comes
  <2>1. i \in Nat /\ i + 1 \in DOMAIN events /\ events'[i] = events[i + 1] BY <1>2
  <2>2. \A j \in DOMAIN events : j > i + 1 =>
            /\ j - 1 \in DOMAIN events' /\ j - 1 > i /\ events'[j - 1] = events[j]
      BY <1>2, <2>1
  <2> QED BY <2>1, <2>2 DEF MeetingInv, EventsOK
<1>5. SharerOK' /\ SignalsOK'
    BY <1>1 DEF MeetingInv, SharerOK, SignalsOK
<1>6. Changing' = Changing /\ \A i : StopsAfter(i)' = StopsAfter(i)
    BY <1>1 DEF Changing, StopsAfter
<1>7. \A i \in DOMAIN events' : events'[i].track \in 1..madeTracks
    BY <1>2 DEF MeetingInv, MeetingTypeOK
<1>8. CASE TrackSubscribed
  <2>1. /\ events[1].is = "subscribed" /\ screen' = [track |-> k, isSwitching |-> FALSE]
        /\ UNCHANGED timers
      BY <1>2, <1>8 DEF TrackSubscribed
  <2>2. MeetingTypeOK'
    <3>1. /\ screen' \in [track: 0..madeTracks, isSwitching: BOOLEAN]
          /\ timers' \subseteq 0..madeTracks /\ overtakenSignal' \in BOOLEAN
        BY <1>3, <1>8, <2>1 DEF TrackSubscribed, MeetingInv, MeetingTypeOK
    <3> QED BY <1>1, <1>2, <1>7, <3>1 DEF MeetingInv, MeetingTypeOK
  <2>3. ~ComesYet' => k = madeTracks
    <3>1. SUFFICES ASSUME k # madeTracks PROVE ComesYet' OBVIOUS
    <3>2. PICK j \in DOMAIN events : j > 1 /\ events[j].is = "subscribed"
        BY <1>2, <2>1, <3>1 DEF MeetingInv, EventsOK
    <3> QED BY <1>2, <3>2 DEF ComesYet
  <2>4. WatcherOK' BY <1>1, <1>3, <2>1, <2>3 DEF MeetingInv, WatcherOK
  <2>5. ASSUME published = 0, k = madeTracks
        PROVE  \E i \in DOMAIN events' : events'[i] = Goes(madeTracks)
    <3>1. events[1] = Comes(madeTracks) BY <1>2, <2>1, <2>5 DEF Comes, Events
    <3>2. PICK j \in DOMAIN events : j > 1 /\ events[j] = Goes(madeTracks)
        BY <1>2, <2>5, <3>1 DEF MeetingInv, EventsOK
    <3> QED BY <1>2, <3>2
  <2>6. ASSUME ~overtakenSignal, ~abandoned, ~mistold PROVE Follows'
    <3>1. Follows BY <2>6 DEF MeetingInv
    <3> QED BY <1>1, <1>6, <2>1, <2>3, <2>5, <3>1 DEF Follows, Goes
  <2> QED BY <1>1, <1>4, <1>5, <2>2, <2>4, <2>6 DEF MeetingInv
<1>9. CASE TrackUnsubscribed
  <2>1. events[1].is = "unsubscribed" /\ timers' = timers \cup {k} /\ UNCHANGED screen
      BY <1>2, <1>9 DEF TrackUnsubscribed
  <2>2. MeetingTypeOK'
    <3>1. screen' \in [track: 0..madeTracks, isSwitching: BOOLEAN]
        BY <2>1 DEF MeetingInv, MeetingTypeOK
    <3>2. overtakenSignal' = overtakenSignal BY <1>9 DEF TrackUnsubscribed
    <3>3. k \in 0..madeTracks /\ timers \subseteq 0..madeTracks
        BY <1>3 DEF MeetingInv, MeetingTypeOK
    <3>4. timers' \subseteq 0..madeTracks BY <2>1, <3>3
    <3> QED BY <1>1, <1>2, <1>7, <3>1, <3>2, <3>4 DEF MeetingInv, MeetingTypeOK
  <2>3. ComesYet' <=> ComesYet
    <3>1. ASSUME NEW i \in DOMAIN events, events[i].is = "subscribed" PROVE ComesYet'
        BY <1>2, <2>1, <3>1 DEF ComesYet
    <3> QED BY <1>2, <3>1 DEF ComesYet
  <2>4. events[1] = Goes(k) BY <1>2, <2>1 DEF Goes, Events
  <2>5. WatcherOK'
      BY <1>1, <1>2, <2>1, <2>3, <2>4 DEF MeetingInv, WatcherOK, EventsOK
  <2>6. ASSUME ~overtakenSignal, ~abandoned, ~mistold PROVE Follows'
    <3>1. Follows BY <2>6 DEF MeetingInv
    <3>2. ASSUME NEW i \in DOMAIN events, events[i] = Goes(madeTracks)
          PROVE  \/ madeTracks \in timers'
                 \/ \E j \in DOMAIN events' : events'[j] = Goes(madeTracks)
      <4>1. CASE i = 1 BY <2>1, <2>4, <3>2, <4>1 DEF Goes
      <4>2. CASE i > 1 BY <1>2, <3>2, <4>2
      <4> QED BY <1>2, <4>1, <4>2
    <3>3. ASSUME published = 0, ~ComesYet, screen.track # 0, ~screen.isSwitching
          PROVE  \/ madeTracks \in timers'
                 \/ \E j \in DOMAIN events' : events'[j] = Goes(madeTracks)
        BY <2>1, <3>1, <3>2, <3>3 DEF Follows
    <3> QED BY <1>1, <1>6, <2>1, <2>3, <3>1, <3>3 DEF Follows, Goes
  <2> QED BY <1>1, <1>4, <1>5, <2>2, <2>5, <2>6 DEF MeetingInv
<1> QED BY <1>8, <1>9

\* The watcher applies a signal.
LEMMA SignalInv ==
  ASSUME MeetingInv, applyScreenShareSignal
  PROVE  MeetingInv'
<1>1. /\ UNCHANGED <<mode, joining, published, madeTracks, step, events, timers, abandoned,
                     mistold>>
      /\ signals # <<>> /\ signals' = Tail(signals)
    BY DEF applyScreenShareSignal, sharerVars
<1>2. /\ signals' \in Seq(Signals) /\ 1 \in DOMAIN signals /\ Head(signals) = signals[1]
      /\ signals[1] \in Signals
      /\ DOMAIN signals \subseteq Nat \ {0} /\ DOMAIN signals' \subseteq Nat \ {0}
      /\ \A i \in DOMAIN signals' : i + 1 \in DOMAIN signals /\ signals'[i] = signals[i + 1]
      /\ \A i \in DOMAIN signals : i > 1 =>
            i - 1 \in DOMAIN signals' /\ signals'[i - 1] = signals[i]
    BY <1>1, Arrived DEF MeetingInv, MeetingTypeOK
<1> DEFINE h == signals[1]
<1>3. /\ screen' = IF h.state = "stopped" \/ screen = NoScreen THEN NoScreen
                   ELSE [screen EXCEPT !.isSwitching = TRUE]
      /\ overtakenSignal' = (overtakenSignal \/ screen.track > h.of)
    BY <1>2 DEF applyScreenShareSignal
<1>4. /\ h.of \in Nat /\ h.of <= madeTracks /\ h.state \in {"stopped", "switching"}
      /\ madeTracks \in Nat /\ screen.track \in 0..madeTracks /\ screen.isSwitching \in BOOLEAN
      /\ screen \in [track: 0..madeTracks, isSwitching: BOOLEAN]
    BY <1>2 DEF Signals, MeetingInv, MeetingTypeOK
<1>5. /\ screen' \in [track: 0..madeTracks, isSwitching: BOOLEAN]
      /\ screen'.track = 0 => ~screen'.isSwitching
      /\ screen'.track \in {0, screen.track}
      /\ screen'.track # 0 => h.state = "switching" /\ screen'.isSwitching
                              /\ screen'.track = screen.track
  <2>1. CASE screen' = NoScreen BY <1>4, <2>1 DEF NoScreen
  <2>2. CASE screen' # NoScreen
    <3>1. h.state = "switching" /\ screen # NoScreen
          /\ screen' = [screen EXCEPT !.isSwitching = TRUE]
        BY <1>3, <1>4, <2>2
    <3>2. screen.track # 0
        BY <1>4, <3>1 DEF NoScreen, MeetingInv, WatcherOK
    <3> QED BY <1>4, <3>1, <3>2
  <2> QED BY <2>1, <2>2
<1>6. ComesYet' = ComesYet /\ Changing' = Changing BY <1>1 DEF ComesYet, Changing
<1>7. \A i \in DOMAIN signals' : signals'[i].of <= madeTracks
    BY <1>2 DEF MeetingInv, MeetingTypeOK
<1>8. overtakenSignal' \in BOOLEAN BY <1>3 DEF MeetingInv, MeetingTypeOK
<1>9. MeetingTypeOK' BY <1>1, <1>2, <1>5, <1>7, <1>8 DEF MeetingInv, MeetingTypeOK
<1>10. SignalsOK'
  <2>1. \A i, j \in DOMAIN signals' : i < j => signals'[i].of <= signals'[j].of
    <3> SUFFICES ASSUME NEW i \in DOMAIN signals', NEW j \in DOMAIN signals', i < j
                 PROVE  signals'[i].of <= signals'[j].of
        OBVIOUS
    <3>1. i + 1 \in DOMAIN signals /\ j + 1 \in DOMAIN signals /\ i + 1 < j + 1 BY <1>2
    <3> QED BY <1>2, <3>1 DEF MeetingInv, SignalsOK
  <2> QED BY <1>1, <1>2, <2>1 DEF MeetingInv, SignalsOK
<1>11. SharerOK' /\ EventsOK' BY <1>1 DEF MeetingInv, SharerOK, EventsOK, Goes, Comes
<1>12. WatcherOK' BY <1>1, <1>5, <1>6 DEF MeetingInv, WatcherOK
<1>13. ASSUME ~overtakenSignal', ~abandoned, ~mistold PROVE Follows'
  <2>1. Follows /\ screen.track <= h.of
    <3>1. ~overtakenSignal /\ ~(screen.track > h.of) BY <1>3, <1>13, Zenon
    <3> QED BY <1>4, <1>13, <3>1 DEF MeetingInv
  <2>2. ASSUME NEW i \in Nat \ {0}, StopsAfter(i) PROVE StopsAfter(i - 1)'
    <3>1. PICK j \in DOMAIN signals : j > i /\ signals[j].state = "stopped"
        BY <2>2 DEF StopsAfter
    <3>2. j - 1 \in DOMAIN signals' /\ signals'[j - 1] = signals[j] /\ j - 1 > i - 1
        BY <1>2, <3>1
    <3> QED BY <3>1, <3>2 DEF StopsAfter
  <2>3. ASSUME NEW i \in DOMAIN signals', signals'[i].of = madeTracks,
               signals'[i].state = "switching"
        PROVE  Changing \/ StopsAfter(i)'
    <3>1. Changing \/ StopsAfter(i + 1) BY <1>2, <2>1, <2>3 DEF Follows
    <3>2. i + 1 \in Nat \ {0} /\ (i + 1) - 1 = i BY <1>2
    <3> QED BY <2>2, <3>1, <3>2
  <2>4. ASSUME h.state = "switching", screen.track = madeTracks PROVE Changing \/ StopsAfter(0)'
    <3>1. Changing \/ StopsAfter(1) BY <1>2, <1>4, <2>1, <2>4 DEF Follows
    <3> QED BY <2>2, <3>1
  <2>5. screen'.isSwitching /\ ~ComesYet => Changing \/ StopsAfter(0)'
    <3>1. SUFFICES ASSUME screen'.isSwitching, ~ComesYet PROVE Changing \/ StopsAfter(0)'
        OBVIOUS
    <3>2. screen'.track # 0 BY <1>5, <3>1
    <3> QED BY <1>5, <2>4, <3>1, <3>2 DEF MeetingInv, WatcherOK
  <2>6. ~(published # 0 /\ ~ComesYet /\ step \notin {"stopping", "changing"})
    <3> SUFFICES ASSUME published # 0, ~ComesYet, step \notin {"stopping", "changing"}
                 PROVE  FALSE
        OBVIOUS
    <3>1. screen.track = madeTracks BY <2>1 DEF Follows
    <3>2. h.of = madeTracks BY <1>4, <2>1, <3>1
    <3>3. ~Changing BY DEF Changing, MeetingInv, SharerOK
    <3>4. h.state # "stopped" BY <1>2, <1>13, <3>2 DEF MeetingInv, SignalsOK
    <3>5. PICK j \in DOMAIN signals : j > 1 /\ signals[j].state = "stopped"
        BY <1>2, <1>4, <2>1, <3>2, <3>3, <3>4 DEF Follows, StopsAfter
    <3>6. signals[j].of = madeTracks
      <4>1. signals \in Seq(Signals) BY DEF MeetingInv, MeetingTypeOK
      <4>2. signals[j] \in Signals BY <3>5, <4>1, ElementOfSeq, LenProperties
      <4>3. signals[j].of \in Int /\ madeTracks \in Int
          BY <4>2 DEF Signals, MeetingInv, MeetingTypeOK
      <4>4. signals[j].of <= madeTracks BY <3>5 DEF MeetingInv, MeetingTypeOK
      <4>5. 1 \in DOMAIN signals /\ 1 < j BY <1>2, <3>5, <4>1
      <4>6. madeTracks <= signals[j].of BY <3>2, <3>5, <4>5 DEF MeetingInv, SignalsOK
      <4> QED BY <4>3, <4>4, <4>6
    <3> QED BY <1>13, <3>5, <3>6 DEF MeetingInv, SignalsOK
  <2> QED BY <1>1, <1>5, <1>6, <2>3, <2>5, <2>6 DEF Follows
<1> QED BY <1>1, <1>3, <1>9, <1>10, <1>11, <1>12, <1>13 DEF MeetingInv, MeetingTypeOK

\* A signal is dropped.
LEMMA DroppedInv ==
  ASSUME MeetingInv, SignalDropped
  PROVE  MeetingInv'
<1>1. /\ UNCHANGED <<mode, joining, published, madeTracks, step, events, screen, timers,
                     overtakenSignal, abandoned>>
      /\ signals # <<>> /\ signals' = Tail(signals)
    BY DEF SignalDropped, sharerVars, watcherVars
<1>2. /\ signals' \in Seq(Signals) /\ 1 \in DOMAIN signals /\ Head(signals) = signals[1]
      /\ DOMAIN signals \subseteq Nat \ {0} /\ DOMAIN signals' \subseteq Nat \ {0}
      /\ \A i \in DOMAIN signals' : i + 1 \in DOMAIN signals /\ signals'[i] = signals[i + 1]
      /\ \A i \in DOMAIN signals : i > 1 =>
            i - 1 \in DOMAIN signals' /\ signals'[i - 1] = signals[i]
    BY <1>1, Arrived DEF MeetingInv, MeetingTypeOK
<1>3. mistold' = (mistold \/ (signals[1].state = "stopped" /\ screen.isSwitching))
    BY <1>2 DEF SignalDropped
<1>8. mistold' \in BOOLEAN BY <1>3
<1>9. mistold => mistold' BY <1>3
<1>4. MeetingTypeOK'
  <2>1. \A i \in DOMAIN signals' : signals'[i].of <= madeTracks
      BY <1>2 DEF MeetingInv, MeetingTypeOK
  <2> QED BY <1>1, <1>2, <1>8, <2>1 DEF MeetingInv, MeetingTypeOK
<1>5. SignalsOK'
  <2>1. ASSUME NEW i \in DOMAIN signals', NEW j \in DOMAIN signals', i < j
        PROVE  signals'[i].of <= signals'[j].of
    <3>1. i + 1 \in DOMAIN signals /\ j + 1 \in DOMAIN signals /\ i + 1 < j + 1
        BY <1>2, <2>1
    <3> QED BY <1>2, <3>1 DEF MeetingInv, SignalsOK
  <2>2. ASSUME NEW i \in DOMAIN signals',
               signals'[i].of = madeTracks, signals'[i].state = "stopped"
        PROVE  published = 0 \/ step = "stopping" \/ mistold'
      BY <1>2, <1>9, <2>2 DEF MeetingInv, SignalsOK
  <2> QED BY <1>1, <2>1, <2>2 DEF SignalsOK
<1>6. ComesYet' = ComesYet /\ Changing' = Changing BY <1>1 DEF ComesYet, Changing
<1>10. SharerOK' /\ EventsOK' BY <1>1 DEF MeetingInv, SharerOK, EventsOK, Goes, Comes
<1>11. WatcherOK' BY <1>1, <1>6 DEF MeetingInv, WatcherOK
<1>7. ASSUME ~overtakenSignal, ~abandoned, ~mistold' PROVE Follows'
  <2>1. Follows BY <1>7, <1>9 DEF MeetingInv
  <2>2. ASSUME NEW i \in Nat \ {0}, StopsAfter(i) PROVE StopsAfter(i - 1)'
    <3>1. PICK j \in DOMAIN signals : j > i /\ signals[j].state = "stopped"
        BY <2>2 DEF StopsAfter
    <3>2. j - 1 \in DOMAIN signals' /\ signals'[j - 1] = signals[j] /\ j - 1 > i - 1
        BY <1>2, <3>1
    <3> QED BY <3>1, <3>2 DEF StopsAfter
  <2>3. ASSUME NEW i \in DOMAIN signals', signals'[i].of = madeTracks,
               signals'[i].state = "switching"
        PROVE  Changing \/ StopsAfter(i)'
    <3>1. Changing \/ StopsAfter(i + 1) BY <1>2, <2>1, <2>3 DEF Follows
    <3>2. i + 1 \in Nat \ {0} /\ (i + 1) - 1 = i BY <1>2
    <3> QED BY <2>2, <3>1, <3>2
  <2>4. ASSUME screen.isSwitching, ~ComesYet PROVE Changing \/ StopsAfter(0)'
    <3>1. Changing \/ StopsAfter(0) BY <2>1, <2>4 DEF Follows
    <3>2. signals[1].state # "stopped" BY <1>3, <1>7, <2>4
    <3>3. ASSUME StopsAfter(0) PROVE StopsAfter(1)
        BY <1>2, <3>2, <3>3 DEF StopsAfter
    <3>4. ASSUME StopsAfter(1) PROVE StopsAfter(0)' BY <2>2, <3>4
    <3> QED BY <3>1, <3>3, <3>4
  <2> QED BY <1>1, <1>6, <2>1, <2>3, <2>4 DEF Follows, Goes
<1> QED BY <1>1, <1>4, <1>5, <1>7, <1>10, <1>11 DEF MeetingInv

\* A screen goes three seconds after its track, or the watcher joins anew.
LEMMA WatcherInv ==
  ASSUME MeetingInv, syncSharedScreens \/ \E n \in timers : removeSharedScreen(n)
  PROVE  MeetingInv'
<1>1. UNCHANGED <<mode, joining, published, madeTracks, step, overtakenSignal, abandoned,
                mistold>>
    BY DEF syncSharedScreens, removeSharedScreen, sharerVars
<1>2. SharerOK' /\ Changing' = Changing BY <1>1 DEF MeetingInv, SharerOK, Changing
<1>3. CASE syncSharedScreens
  <2>1. /\ screen' = [track |-> published, isSwitching |-> FALSE]
        /\ signals' = <<>> /\ events' = <<>> /\ timers' = {}
      BY <1>3 DEF syncSharedScreens
  <2>2. /\ signals' \in Seq(Signals) /\ events' \in Seq(Events)
        /\ DOMAIN signals' = {} /\ DOMAIN events' = {}
      BY <2>1
  <2>3. published \in 0..madeTracks BY DEF MeetingInv, MeetingTypeOK
  <2>4. MeetingTypeOK' BY <1>1, <2>1, <2>2, <2>3 DEF MeetingInv, MeetingTypeOK
  <2>5. EventsOK' /\ SignalsOK' BY <2>2 DEF EventsOK, SignalsOK
  <2>6. WatcherOK' BY <1>1, <2>1 DEF MeetingInv, MeetingTypeOK, WatcherOK
  <2>7. Follows' BY <1>1, <2>1, <2>2 DEF MeetingInv, MeetingTypeOK, Follows
  <2> QED BY <1>2, <2>4, <2>5, <2>6, <2>7 DEF MeetingInv
<1>4. ASSUME NEW n \in timers, removeSharedScreen(n) PROVE MeetingInv'
  <2>1. /\ timers' = timers \ {n} /\ UNCHANGED <<signals, events>>
        /\ screen' = IF screen.track = n /\ ~screen.isSwitching THEN NoScreen ELSE screen
      BY <1>4 DEF removeSharedScreen, Expired
  <2>2. NoScreen \in [track: 0..madeTracks, isSwitching: BOOLEAN]
        /\ NoScreen.track = 0 /\ ~NoScreen.isSwitching
      BY DEF NoScreen, MeetingInv, MeetingTypeOK
  <2>3. MeetingTypeOK' BY <1>1, <2>1, <2>2 DEF MeetingInv, MeetingTypeOK
  <2>4. EventsOK' /\ SignalsOK'
      BY <1>1, <2>1 DEF MeetingInv, EventsOK, SignalsOK, Goes, Comes
  <2>5. ComesYet' = ComesYet /\ \A i : StopsAfter(i)' = StopsAfter(i)
      BY <2>1 DEF ComesYet, StopsAfter
  <2>6. WatcherOK' BY <1>1, <2>1, <2>2, <2>5 DEF MeetingInv, WatcherOK
  <2>7. ASSUME ~overtakenSignal, ~abandoned, ~mistold PROVE Follows'
    <3>1. Follows BY <2>7 DEF MeetingInv
    <3>2. ASSUME published # 0, ~ComesYet, step \notin {"stopping", "changing"}
          PROVE  screen' = [track |-> madeTracks, isSwitching |-> FALSE]
      <4>1. screen = [track |-> madeTracks, isSwitching |-> FALSE] BY <3>1, <3>2 DEF Follows
      <4>2. n # madeTracks BY <1>4, <3>2 DEF MeetingInv, WatcherOK
      <4> QED BY <2>1, <4>1, <4>2
    <3>3. ASSUME published = 0, ~ComesYet, screen'.track # 0, ~screen'.isSwitching
          PROVE  madeTracks \in timers' \/ \E i \in DOMAIN events : events[i] = Goes(madeTracks)
      <4>1. screen' = screen /\ screen.track # n BY <2>1, <2>2, <3>3
      <4>2. screen.track = madeTracks BY <3>3, <4>1 DEF MeetingInv, WatcherOK
      <4> QED BY <2>1, <3>1, <3>3, <4>1, <4>2 DEF Follows
    <3>4. screen'.isSwitching => screen.isSwitching BY <2>1, <2>2
    <3> QED BY <1>1, <1>2, <2>1, <2>5, <3>1, <3>2, <3>3, <3>4 DEF Follows, Goes
  <2> QED BY <1>1, <1>2, <2>3, <2>4, <2>6, <2>7 DEF MeetingInv
<1> QED BY <1>3, <1>4

\* The sharer's panel, action by action.
LEMMA PanelInv ==
  ASSUME MeetingInv,
         \/ \E m \in {"voice", "watch"} : join(m)
         \/ Joined \/ JoinFails \/ leave \/ toggleMute \/ ShareFromOutside
         \/ toggleScreenShare \/ PickScreen \/ PickNone \/ StopScreen \/ LocalTrackUnpublished
         \/ changeScreenShare \/ OldScreenGoes \/ PickOther \/ ChangeFails \/ StopFails
  PROVE  MeetingInv'
<1> USE DEF Changing
<1>1. CASE \/ \E m \in {"voice", "watch"} : join(m)
           \/ Joined \/ JoinFails \/ toggleMute \/ ShareFromOutside \/ PickNone
  <2>1. /\ UNCHANGED <<madeTracks, published, signals, events, watcherVars, abandoned, mistold>>
        /\ SharerOK' /\ step' \in Steps
        /\ step' = step \/ (~Changing /\ step # "stopping")
      BY <1>1 DEF join, Joined, JoinFails, toggleMute, ShareFromOutside, PickNone,
                  MeetingInv, MeetingTypeOK, SharerOK, Steps
  <2> QED BY <2>1, SharerInv DEF MeetingInv, MeetingTypeOK
<1>2. CASE leave
  <2>1. /\ UNCHANGED <<madeTracks, signals, watcherVars, mistold>> /\ TrackGoes /\ SharerOK'
        /\ step' = "none" /\ published' = 0
        /\ abandoned' = (abandoned \/ Changing)
      BY <1>2 DEF leave, Left, TrackGoes, SharerOK
  <2> QED BY <2>1, SharerInv DEF MeetingInv, MeetingTypeOK, Steps
<1>3. CASE toggleScreenShare
  <2>1. /\ UNCHANGED <<madeTracks, published, events, watcherVars, abandoned, mistold>>
        /\ SharerOK' /\ step = "none" /\ step' \in {"stopping", "starting"}
        /\ \/ step' = "stopping" /\ publishScreenShareSignal("stopped")
           \/ UNCHANGED signals
      BY <1>3 DEF toggleScreenShare, MeetingInv, SharerOK
  <2> QED BY <2>1, SharerInv DEF MeetingInv, MeetingTypeOK, Steps
<1>4. CASE changeScreenShare
  <2>1. /\ UNCHANGED <<madeTracks, published, events, watcherVars, abandoned, mistold>>
        /\ SharerOK' /\ step = "none" /\ step' = "changing"
        /\ publishScreenShareSignal("switching")
      BY <1>4 DEF changeScreenShare, MeetingInv, SharerOK
  <2> QED BY <2>1, SharerInv DEF MeetingInv, MeetingTypeOK, Steps
<1>5. CASE ChangeFails
  <2>1. /\ UNCHANGED <<madeTracks, published, events, watcherVars, abandoned>>
        /\ SharerOK' /\ step \in {"changing", "picking"} /\ step' = "none"
        /\ publishScreenShareSignal("stopped")
        /\ mistold' = (mistold \/ published # 0)
      BY <1>5 DEF ChangeFails, MeetingInv, SharerOK
  <2> QED BY <2>1, SharerInv DEF MeetingInv, MeetingTypeOK, Steps
<1>10. CASE StopFails
  <2>1. /\ UNCHANGED <<madeTracks, published, signals, events, watcherVars, abandoned>>
        /\ SharerOK' /\ step = "stopping" /\ step' = "none"
        /\ mistold' = (mistold \/ published # 0)
      BY <1>10 DEF StopFails, MeetingInv, SharerOK
  <2> QED BY <2>1, SharerInv DEF MeetingInv, MeetingTypeOK, Steps
<1>6. CASE StopScreen
  <2>1. /\ UNCHANGED <<madeTracks, watcherVars, abandoned, mistold>>
        /\ step = "stopping" /\ step' = "none" /\ TrackGoes /\ published' = 0
        /\ UNCHANGED signals \/ publishScreenShareSignal("stopped")
        /\ UNCHANGED joining
      BY <1>6 DEF StopScreen, TrackGoes
  <2>2. SharerOK' BY <2>1 DEF MeetingInv, SharerOK
  <2> QED BY <2>1, <2>2, SharerInv DEF MeetingInv, MeetingTypeOK, Steps
<1>7. CASE LocalTrackUnpublished
  <2>1. /\ UNCHANGED <<madeTracks, watcherVars, abandoned, mistold, step, mode, joining>>
        /\ TrackGoes /\ published' = 0
        /\ UNCHANGED signals \/ publishScreenShareSignal("stopped")
      BY <1>7 DEF LocalTrackUnpublished, TrackGoes
  <2>2. SharerOK' BY <2>1 DEF MeetingInv, SharerOK
  <2> QED BY <2>1, <2>2, SharerInv DEF MeetingInv, MeetingTypeOK
<1>8. CASE OldScreenGoes
  <2>1. /\ UNCHANGED <<madeTracks, watcherVars, abandoned, mistold, signals, mode, joining>>
        /\ step = "changing" /\ step' = "picking" /\ TrackGoes /\ published' = 0
      BY <1>8 DEF OldScreenGoes, TrackGoes
  <2>2. SharerOK' BY <2>1 DEF MeetingInv, SharerOK
  <2> QED BY <2>1, <2>2, SharerInv DEF MeetingInv, MeetingTypeOK, Steps
<1>9. CASE PickScreen \/ PickOther
  <2>1. /\ TrackComes /\ UNCHANGED <<signals, watcherVars, abandoned, mistold, mode, joining>>
        /\ step' = "none"
      BY <1>9 DEF PickScreen, PickOther
  <2>2. SharerOK' BY <2>1 DEF MeetingInv, SharerOK
  <2> QED BY <2>1, <2>2, TrackInv DEF Steps
<1> QED BY <1>1, <1>2, <1>3, <1>4, <1>5, <1>6, <1>7, <1>8, <1>9, <1>10

\* When all has arrived, the watcher sees the screen that is shared, or none, but for the
\* exceptions that ScreenIsShared names (the panel's share signals and LiveKit's events).
THEOREM WatchersSeeWhatIsShared == MeetingSpec => []ScreenIsShared
<1>1. MeetingInit => MeetingInv
  <2> SUFFICES ASSUME MeetingInit PROVE MeetingInv
      OBVIOUS
  <2>1. DOMAIN signals = {} /\ DOMAIN events = {} /\ signals \in Seq(Signals)
        /\ events \in Seq(Events)
      BY DEF MeetingInit
  <2>2. screen \in [track: 0..0, isSwitching: BOOLEAN] /\ screen.track = 0
        /\ ~screen.isSwitching
      BY DEF MeetingInit, NoScreen
  <2>3. MeetingTypeOK BY <2>1, <2>2 DEF MeetingInit, MeetingTypeOK, Steps
  <2>4. SharerOK /\ WatcherOK BY <2>2 DEF MeetingInit, SharerOK, WatcherOK
  <2>5. EventsOK /\ SignalsOK BY <2>1 DEF EventsOK, SignalsOK
  <2>6. Follows BY <2>1, <2>2 DEF MeetingInit, Follows
  <2> QED BY <2>3, <2>4, <2>5, <2>6 DEF MeetingInv
<1>2. MeetingInv /\ [MeetingNext]_meetingVars => MeetingInv'
  <2> SUFFICES ASSUME MeetingInv, [MeetingNext]_meetingVars PROVE MeetingInv'
      OBVIOUS
  <2>1. CASE UNCHANGED meetingVars
    <3>1. /\ UNCHANGED <<madeTracks, published, events, signals, watcherVars, abandoned, mistold, step>>
          /\ UNCHANGED <<mode, joining>>
        BY <2>1 DEF meetingVars, sharerVars
    <3>2. SharerOK' BY <3>1 DEF MeetingInv, SharerOK
    <3> QED BY <3>1, <3>2, SharerInv DEF MeetingInv, MeetingTypeOK, Changing
  <2> QED BY <2>1, PanelInv, HearsInv, SignalInv, DroppedInv, WatcherInv DEF MeetingNext
<1>3. MeetingInv => ScreenIsShared
  <2> SUFFICES ASSUME MeetingInv, AllTold, ~overtakenSignal, ~abandoned, ~mistold
               PROVE  screen = [track |-> published, isSwitching |-> FALSE]
      BY DEF ScreenIsShared
  <2>1. Follows BY DEF MeetingInv
  <2>2. DOMAIN signals = {} /\ DOMAIN events = {} /\ timers = {} /\ step = "none"
      BY DEF AllTold
  <2>3. ~ComesYet /\ ~StopsAfter(0) /\ ~Changing BY <2>2 DEF ComesYet, StopsAfter, Changing
  <2>4. CASE published # 0
      BY <2>1, <2>2, <2>3, <2>4 DEF Follows, MeetingInv, MeetingTypeOK
  <2>5. CASE published = 0
    <3>1. ~screen.isSwitching BY <2>1, <2>3 DEF Follows
    <3>2. screen.track = 0 BY <2>1, <2>2, <2>3, <2>5, <3>1 DEF Follows
    <3> QED BY <2>5, <3>1, <3>2 DEF MeetingInv, MeetingTypeOK
  <2> QED BY <2>4, <2>5
<1> QED BY <1>1, <1>2, <1>3, PTL DEF MeetingSpec

-----------------------------------------------------------------------------
(* Sharing: what a list or a dialog shows of a share is a row of the server, *)
(* whose file and recipient never change; a creation that has looked for a   *)
(* share to its recipient, and found none, still finds none, or the pair is  *)
(* one that is not assured.                                                  *)

Recipients == People \cup {Link}
ShareTypes == {"user", "pending", "link"}
ShareRows == [item: Shareables, to: Recipients, type: ShareTypes, can: Grants,
              revoked: BOOLEAN]
Creations == [do: {"create"}, item: Shareables, to: Recipients, type: ShareTypes, can: Grants]
Changes == [do: {"update"}, id: Nat, can: Grants]
Revocations == [do: {"revoke"}, id: Nat]
ShareBodies == Creations \cup Changes \cup Revocations
ShareCalls == [n: Nat, body: ShareBodies, at: {"sent"} \cup ShareTypes]

\* A list the server gave: of its rows, with what they grant.
RowsOf(list) ==
  \A i \in DOMAIN list :
    i \in DOMAIN shares /\ list[i].can \in Grants /\ list[i].type \in ShareTypes

SharingTypeOK ==
  /\ shares \in Seq(ShareRows) /\ calls \subseteq ShareCalls /\ sent \in Nat
  /\ behind \in BOOLEAN
  /\ RowsOf(mine) /\ RowsOf(dialogRows)
  /\ mineAsk.at = "served" => RowsOf(mineAsk.has)
  /\ \A i \in DOMAIN drafts : drafts[i] \in Grants

ChecksHold ==
  \A x \in calls :
    x.at # "sent" =>
      x.body.do = "create" /\ (Pair(x.body) \in loose \/ ~Duplicate(x.body, x.at))

SharingInv == SharingTypeOK /\ ChecksHold /\ OneShareEach /\ DraftsCover

LEMMA RowIs ==
  ASSUME SharingTypeOK
  PROVE  /\ DOMAIN shares = 1..Len(shares) /\ Len(shares) \in Nat
         /\ \A i \in DOMAIN shares : shares[i] \in ShareRows
BY ElementOfSeq, LenProperties DEF SharingTypeOK

LEMMA SnapshotIs ==
  ASSUME SharingTypeOK
  PROVE  RowsOf(Snapshot)
BY RowIs DEF RowsOf, Snapshot, Listed, Live, ShareRows

\* A list stays one of the server's rows, whose recipients stay.
LEMMA RowsGrow ==
  ASSUME NEW list, RowsOf(list), DOMAIN shares \subseteq DOMAIN shares'
  PROVE  \A i \in DOMAIN list :
           i \in DOMAIN shares' /\ list[i].can \in Grants /\ list[i].type \in ShareTypes
BY DEF RowsOf

\* The drafts cover what the dialog shows as long as the tab keeps what it has.
LEMMA DraftsStay ==
  ASSUME SharingInv, UNCHANGED <<mine, open>>, behind' = behind,
         DOMAIN shares \subseteq DOMAIN shares',
         \A i \in DOMAIN shares : shares'[i].to = shares[i].to,
         DOMAIN drafts' = DOMAIN drafts
  PROVE  DraftsCover'
<1>1. \A i \in DOMAIN mine : getRecipientKey(i)' = getRecipientKey(i)
    BY DEF SharingInv, SharingTypeOK, RowsOf, getRecipientKey
<1>2. \A key : GroupOf(key)' = GroupOf(key) BY <1>1 DEF GroupOf
<1>3. OpenGroup' = OpenGroup BY <1>2 DEF OpenGroup
<1> QED BY <1>3 DEF SharingInv, DraftsCover

\* What the answer to a call leaves alone.
LEMMA AnsweredIs ==
  ASSUME SharingTypeOK, NEW c, NEW ok \in BOOLEAN, Answered(c, ok),
         shares' \in Seq(ShareRows), DOMAIN shares \subseteq DOMAIN shares'
  PROVE  /\ calls' = calls \ {c} /\ UNCHANGED <<mine, open, drafts>>
         /\ mineAsk' \in {mineAsk, Fetch}
         /\ RowsOf(dialogRows)'
<1>1. calls' = calls \ {c} BY DEF Answered
<1>2. \A i \in DOMAIN shares' : shares'[i] \in ShareRows BY ElementOfSeq, LenProperties
<1>3. RowsOf(dialogRows) BY DEF SharingTypeOK
<1>4. CASE \A v \in works : v.n # c.n
  <2>1. /\ UNCHANGED <<mine, mineAsk, open, drafts>>
        /\ dialogRows' = IF ok
             THEN [i \in {j \in DOMAIN shares' : ~shares'[j].revoked} |->
                     IF i \in DOMAIN dialogRows THEN dialogRows[i]
                     ELSE Listed(shares'[i])]
             ELSE dialogRows
      BY <1>4 DEF Answered, tabVars
  <2>2. CASE ok
    <3> SUFFICES ASSUME NEW i \in DOMAIN dialogRows'
                 PROVE  /\ i \in DOMAIN shares' /\ dialogRows'[i].can \in Grants
                        /\ dialogRows'[i].type \in ShareTypes
        BY <1>1, <2>1 DEF RowsOf
    <3>1. i \in DOMAIN shares' BY <2>1, <2>2
    <3>2. CASE i \in DOMAIN dialogRows BY <1>3, <2>1, <2>2, <3>1, <3>2 DEF RowsOf
    <3>3. CASE i \notin DOMAIN dialogRows
        BY <1>2, <2>1, <2>2, <3>1, <3>3 DEF ShareRows, Listed
    <3> QED BY <3>1, <3>2, <3>3
  <2>3. CASE ~ok BY <1>1, <1>3, <2>1, <2>3, RowsGrow DEF RowsOf
  <2> QED BY <2>2, <2>3
<1>5. CASE ~ \A v \in works : v.n # c.n
  <2>1. UNCHANGED <<dialogRows, mine, open, drafts>> /\ mineAsk' \in {mineAsk, Fetch}
      BY <1>5 DEF Answered
  <2> QED BY <1>1, <1>3, <2>1, RowsGrow DEF RowsOf
<1> QED BY <1>4, <1>5

\* The server answers a call: rows are kept, and one may come.
LEMMA AnswerInv ==
  ASSUME SharingInv, NEW c \in calls, NEW ok \in BOOLEAN, Answered(c, ok),
         UNCHANGED <<behind, sent>>,
         shares' \in Seq(ShareRows), DOMAIN shares \subseteq DOMAIN shares',
         \A i \in DOMAIN shares : shares'[i].to = shares[i].to
  PROVE  SharingTypeOK' /\ DraftsCover' /\ calls' = calls \ {c}
<1>1. /\ calls' = calls \ {c} /\ UNCHANGED <<mine, open, drafts>>
      /\ mineAsk' \in {mineAsk, Fetch} /\ RowsOf(dialogRows)'
    BY AnsweredIs DEF SharingInv
<1>2. DraftsCover' BY <1>1, DraftsStay
<1>3. RowsOf(mine)' BY <1>1, RowsGrow DEF SharingInv, SharingTypeOK, RowsOf
<1>4. mineAsk'.at = "served" => RowsOf(mineAsk.has)'
    BY <1>1, RowsGrow DEF SharingInv, SharingTypeOK, RowsOf, Fetch
<1> QED BY <1>1, <1>2, <1>3, <1>4 DEF SharingInv, SharingTypeOK

LEMMA CreateInv ==
  ASSUME SharingInv, NEW c \in calls, Create(c), sent' = sent
  PROVE  SharingInv'
<1>1. c \in ShareCalls /\ c.body \in ShareBodies /\ c.body.do = "create"
    BY DEF Create, SharingInv, SharingTypeOK, ShareCalls
<1>2. c.body \in Creations BY <1>1 DEF ShareBodies, Changes, Revocations
<1>3. ASSUME NEW as \in resolveShareRecipient(c.body), CheckShare(c, as) PROVE SharingInv'
  <2>1. UNCHANGED <<shares, behind>> BY <1>3 DEF CheckShare
  <2>2. \A b, k : Duplicate(b, k)' = Duplicate(b, k) BY <2>1 DEF Duplicate, Live
  <2>3. CASE UNCHANGED loose /\ Answered(c, FALSE)
    <3>1. SharingTypeOK' /\ DraftsCover' /\ calls' = calls \ {c}
        BY <2>1, <2>3, AnswerInv DEF SharingInv, SharingTypeOK
    <3>2. ChecksHold' BY <2>2, <2>3, <3>1 DEF SharingInv, ChecksHold
    <3>3. OneShareEach' BY <2>1, <2>3 DEF SharingInv, OneShareEach, Live
    <3> QED BY <3>1, <3>2, <3>3 DEF SharingInv
  <2>4. CASE /\ calls' = (calls \ {c}) \cup {[c EXCEPT !.at = as]}
             /\ loose' = loose \cup (IF shareConflictMessage(c.body, as)
                                    THEN {Pair(c.body)} ELSE {})
             /\ UNCHANGED <<tabVars, dialogRows>>
    <3> DEFINE call == [c EXCEPT !.at = as]
    <3>1. as \in ShareTypes BY DEF resolveShareRecipient, ShareTypes
    <3>2. call \in ShareCalls /\ call.body = c.body /\ call.at = as
        BY <1>1, <3>1 DEF ShareCalls
    <3>3. SharingTypeOK'
        BY <2>1, <2>4, <3>2 DEF SharingInv, SharingTypeOK, RowsOf, tabVars
    <3>4. loose \subseteq loose' BY <2>4
    <3>5. Pair(c.body) \in loose' \/ ~Duplicate(c.body, as)
        BY <2>4 DEF shareConflictMessage
    <3>6. ASSUME NEW x \in calls', x.at # "sent"
          PROVE  x.body.do = "create" /\ (Pair(x.body) \in loose' \/ ~Duplicate(x.body, x.at))
      <4>1. CASE x = call BY <1>1, <3>2, <3>5, <4>1
      <4>2. CASE x \in calls BY <3>4, <3>6, <4>2 DEF SharingInv, ChecksHold
      <4> QED BY <2>4, <4>1, <4>2
    <3>7. ChecksHold' BY <2>2, <3>6 DEF ChecksHold, Pair
    <3>8. OneShareEach' BY <2>1, <3>4 DEF SharingInv, OneShareEach, Live, Pair
    <3>9. DraftsCover' BY <2>1, <2>4, DraftsStay DEF tabVars
    <3> QED BY <3>3, <3>7, <3>8, <3>9 DEF SharingInv
  <2> QED BY <1>3, <2>3, <2>4 DEF CheckShare
<1>4. CASE InsertShare(c)
  <2> DEFINE row == [item |-> c.body.item, to |-> c.body.to, type |-> c.at,
                     can |-> c.body.can, revoked |-> FALSE]
             new == Len(shares) + 1
  <2>1. row \in ShareRows
      BY <1>1, <1>2, <1>4 DEF InsertShare, Creations, ShareRows, ShareCalls
  <2>2. /\ shares' \in Seq(ShareRows) /\ DOMAIN shares' = DOMAIN shares \cup {new}
        /\ new \notin DOMAIN shares /\ shares'[new] = row
        /\ \A i \in DOMAIN shares : shares'[i] = shares[i]
      BY <1>4, <2>1, RowIs, AppendProperties, LenProperties
      DEF InsertShare, SharingInv, SharingTypeOK
  <2>3. SharingTypeOK' /\ DraftsCover' /\ calls' = calls \ {c}
      BY <1>4, <2>2, AnswerInv DEF InsertShare
  <2>4. /\ loose \subseteq loose'
        /\ \A d \in calls \ {c} : d.at = c.at /\ Pair(d.body) = Pair(c.body)
                                => Pair(d.body) \in loose'
      BY <1>4 DEF InsertShare
  <2>5. ASSUME NEW k \in Live', k # new PROVE k \in Live /\ shares'[k] = shares[k]
      BY <2>2, <2>5 DEF Live
  <2>6. c.at # "sent" BY <1>4 DEF InsertShare
  <2>7. ASSUME NEW x \in calls', x.at # "sent", Pair(x.body) \notin loose',
               Duplicate(x.body, x.at)'
        PROVE  FALSE
    <3>1. x \in calls \ {c} /\ Pair(x.body) \notin loose BY <2>3, <2>4, <2>7
    <3>2. ~Duplicate(x.body, x.at) BY <2>7, <3>1 DEF SharingInv, ChecksHold
    <3>3. PICK i \in Live' : /\ shares'[i].item = x.body.item /\ shares'[i].to = x.body.to
                             /\ shares'[i].type = x.at /\ x.body.to # Link
        BY <2>7 DEF Duplicate
    <3>4. i = new BY <2>5, <3>2, <3>3 DEF Duplicate
    <3>5. Pair(x.body) = Pair(c.body) /\ x.at = c.at BY <2>2, <3>3, <3>4 DEF Pair
    <3> QED BY <2>4, <2>7, <3>1, <3>5
  <2>8. ChecksHold'
    <3>1. \A x \in calls' : x.at # "sent" => x.body.do = "create"
        BY <2>3 DEF SharingInv, ChecksHold
    <3> QED BY <2>7, <3>1 DEF ChecksHold, Pair
  <2>9. OneShareEach'
    <3> SUFFICES ASSUME NEW i \in Live', NEW j \in Live', shares'[i].to # Link,
                        shares'[i].item = shares'[j].item, shares'[i].to = shares'[j].to,
                        shares'[i].type = shares'[j].type,
                        <<shares'[i].item, shares'[i].to>> \notin loose'
                 PROVE  i = j
        BY DEF OneShareEach, Pair
    <3>1. ASSUME NEW k \in Live, shares[k].to = row.to, shares[k].item = row.item,
                 shares[k].type = row.type, row.to # Link
          PROVE  <<row.item, row.to>> \in loose'
        BY <2>4, <2>6, <3>1 DEF SharingInv, ChecksHold, Duplicate, Pair
    <3>2. CASE i # new /\ j # new BY <2>4, <2>5, <3>2 DEF SharingInv, OneShareEach, Pair
    <3>3. CASE i = new /\ j # new BY <2>2, <2>5, <3>1, <3>3
    <3>4. CASE i # new /\ j = new BY <2>2, <2>5, <3>1, <3>4
    <3> QED BY <3>2, <3>3, <3>4
  <2> QED BY <2>3, <2>8, <2>9 DEF SharingInv
<1> QED BY <1>3, <1>4 DEF Create

\* An invitation is accepted: shares with the address become the account's, and none
\* is another's unless both were known.
LEMMA AcceptInv ==
  ASSUME SharingInv, NEW p \in People, AcceptInvite(p)
  PROVE  SharingInv'
<1> DEFINE invited == {i \in Live : shares[i].to = p /\ shares[i].type = "pending"}
           mineToo == {Pair(shares[i]) : i \in {i \in Live : shares[i].type = "user"}}
           asked == {Pair(x.body) : x \in {x \in calls : x.at = "user"}}
<1>1. /\ shares' = [i \in DOMAIN shares |->
                      IF i \in invited THEN [shares[i] EXCEPT !.type = "user"] ELSE shares[i]]
      /\ loose' = loose \cup ({Pair(shares[i]) : i \in invited} \cap (mineToo \cup asked))
      /\ UNCHANGED <<mine, mineAsk, open, drafts, dialogRows, calls, sent, behind>>
    BY DEF AcceptInvite, tabVars
<1>2. \A i \in DOMAIN shares : shares[i] \in ShareRows BY RowIs DEF SharingInv
<1>3. /\ DOMAIN shares' = DOMAIN shares
      /\ \A i \in DOMAIN shares :
           /\ shares'[i].item = shares[i].item /\ shares'[i].to = shares[i].to
           /\ shares'[i].revoked = shares[i].revoked /\ shares'[i] \in ShareRows
           /\ shares'[i].type = IF i \in invited THEN "user" ELSE shares[i].type
    BY <1>1, <1>2 DEF ShareRows, ShareTypes
<1>4. shares' \in Seq(ShareRows)
  <2>1. DOMAIN shares = 1..Len(shares) /\ Len(shares) \in Nat BY RowIs DEF SharingInv
  <2>2. shares' \in [1..Len(shares) -> ShareRows] BY <1>1, <1>3, <2>1
  <2> QED BY <2>1, <2>2
<1>5. Live' = Live BY <1>3 DEF Live
<1>6. loose \subseteq loose' BY <1>1
<1>7. SharingTypeOK'
    BY <1>1, <1>3, <1>4 DEF SharingInv, SharingTypeOK, RowsOf
<1>8. DraftsCover' BY <1>1, <1>3, DraftsStay
<1>9. ASSUME NEW x \in calls, x.at # "sent", Pair(x.body) \notin loose',
             NEW i \in Live, shares'[i].item = x.body.item, shares'[i].to = x.body.to,
             shares'[i].type = x.at, x.body.to # Link
      PROVE  FALSE
  <2>1. i \in DOMAIN shares /\ ~Duplicate(x.body, x.at)
      BY <1>6, <1>9 DEF SharingInv, ChecksHold, Live
  <2>2. i \in invited BY <1>3, <1>9, <2>1 DEF Duplicate
  <2>3. x.at = "user" /\ Pair(x.body) = Pair(shares[i]) BY <1>3, <1>9, <2>1, <2>2 DEF Pair
  <2>4. Pair(x.body) \in asked BY <2>3
  <2>5. Pair(x.body) \in {Pair(shares[k]) : k \in invited} BY <2>2, <2>3
  <2> QED BY <1>1, <1>9, <2>4, <2>5
<1>10. ChecksHold'
  <2>1. \A x \in calls : x.at # "sent" => x.body.do = "create" BY DEF SharingInv, ChecksHold
  <2> QED BY <1>1, <1>5, <1>9, <2>1 DEF ChecksHold, Duplicate, Pair
<1>11. ASSUME NEW i \in Live, NEW j \in Live, i \in invited, j \notin invited,
              shares[i].item = shares[j].item, shares[i].to = shares[j].to,
              shares'[j].type = "user"
       PROVE  <<shares[i].item, shares[i].to>> \in loose'
  <2>1. j \in DOMAIN shares /\ shares[j].type = "user" BY <1>3, <1>11 DEF Live
  <2>2. Pair(shares[j]) \in mineToo BY <2>1
  <2>3. Pair(shares[i]) = Pair(shares[j]) BY <1>11 DEF Pair
  <2>4. Pair(shares[i]) \in loose' BY <1>1, <1>11, <2>2, <2>3
  <2> QED BY <2>4 DEF Pair
<1>12. OneShareEach'
  <2> SUFFICES ASSUME NEW i \in Live, NEW j \in Live, shares'[i].to # Link,
                      shares'[i].item = shares'[j].item, shares'[i].to = shares'[j].to,
                      shares'[i].type = shares'[j].type,
                      <<shares'[i].item, shares'[i].to>> \notin loose'
               PROVE  i = j
      BY <1>5 DEF OneShareEach, Pair
  <2>1. /\ i \in DOMAIN shares /\ j \in DOMAIN shares /\ shares[i].to # Link
        /\ shares[i].item = shares[j].item /\ shares[i].to = shares[j].to
        /\ <<shares[i].item, shares[i].to>> \notin loose'
      BY <1>3 DEF Live
  <2>2. (i \in invited) = (j \in invited)
    <3>1. ASSUME i \in invited, j \notin invited PROVE FALSE BY <1>3, <1>11, <2>1, <3>1
    <3>2. ASSUME j \in invited, i \notin invited PROVE FALSE BY <1>3, <1>11, <2>1, <3>2
    <3> QED BY <3>1, <3>2
  <2>3. shares[i].type = shares[j].type BY <1>3, <2>1, <2>2
  <2> QED BY <1>6, <2>1, <2>3 DEF SharingInv, OneShareEach, Pair
<1> QED BY <1>7, <1>8, <1>10, <1>12 DEF SharingInv

\* An update, a revocation, or a refusal.
LEMMA ServeInv ==
  ASSUME SharingInv, NEW c \in calls, ServeShare(c)
  PROVE  SharingInv'
<1>1. c \in ShareCalls /\ c.body \in ShareBodies
    BY DEF SharingInv, SharingTypeOK, ShareCalls
<1>2. CASE Create(c) BY <1>2, CreateInv DEF ServeShare
<1>3. ASSUME NEW ok \in BOOLEAN, Answered(c, ok), UNCHANGED <<loose, behind>>,
             shares' \in Seq(ShareRows), DOMAIN shares' = DOMAIN shares,
             \A i \in DOMAIN shares : /\ shares'[i].to = shares[i].to
                                      /\ shares'[i].item = shares[i].item
                                      /\ shares'[i].type = shares[i].type
                                      /\ shares[i].revoked => shares'[i].revoked
      PROVE  SharingInv'
  <2>1. SharingTypeOK' /\ DraftsCover' /\ calls' = calls \ {c}
      BY <1>3, AnswerInv DEF ServeShare, SharingInv, SharingTypeOK
  <2>2. Live' \subseteq Live BY <1>3 DEF Live
  <2>3. \A i \in Live' : /\ shares'[i].to = shares[i].to /\ shares'[i].item = shares[i].item
                         /\ shares'[i].type = shares[i].type
      BY <1>3 DEF Live
  <2>4. ASSUME NEW b, NEW k, Duplicate(b, k)' PROVE Duplicate(b, k)
      BY <2>2, <2>3, <2>4 DEF Duplicate
  <2>5. ChecksHold' BY <1>3, <2>1, <2>4 DEF SharingInv, ChecksHold
  <2>6. OneShareEach' BY <1>3, <2>2, <2>3 DEF SharingInv, OneShareEach, Pair
  <2> QED BY <2>1, <2>5, <2>6 DEF SharingInv
<1>4. shares \in Seq(ShareRows) /\ \A i \in DOMAIN shares : shares[i] \in ShareRows
    BY RowIs DEF SharingInv, SharingTypeOK
<1>5. CASE Update(c)
  <2> DEFINE k == c.body.id
             row == [shares[k] EXCEPT !.can = c.body.can]
  <2>1. c.body \in Changes /\ k \in DOMAIN shares
      BY <1>1, <1>5 DEF Update, Live, ShareBodies, Creations, Revocations
  <2>2. shares' = [shares EXCEPT ![k] = row] BY <1>5 DEF Update
  <2>3. /\ row \in ShareRows /\ row.to = shares[k].to /\ row.item = shares[k].item
        /\ row.revoked = shares[k].revoked /\ row.type = shares[k].type
      BY <1>4, <2>1 DEF ShareRows, Changes
  <2>4. shares' \in Seq(ShareRows) /\ DOMAIN shares' = DOMAIN shares
      BY <1>4, <2>1, <2>2, <2>3, ExceptSeq
  <2> QED BY <1>3, <1>5, <2>1, <2>2, <2>3, <2>4 DEF Update
<1>6. CASE Revoke(c)
  <2> DEFINE k == c.body.id
             row == [shares[k] EXCEPT !.revoked = TRUE]
  <2>1. k \in DOMAIN shares BY <1>6 DEF Revoke, Live
  <2>2. shares' = [shares EXCEPT ![k] = row] BY <1>6 DEF Revoke
  <2>3. row \in ShareRows /\ row.to = shares[k].to /\ row.item = shares[k].item /\ row.revoked
        /\ row.type = shares[k].type
      BY <1>4, <2>1 DEF ShareRows
  <2>4. shares' \in Seq(ShareRows) /\ DOMAIN shares' = DOMAIN shares
      BY <1>4, <2>1, <2>2, <2>3, ExceptSeq
  <2> QED BY <1>3, <1>6, <2>1, <2>2, <2>3, <2>4 DEF Revoke
<1>7. CASE Refuse(c) BY <1>3, <1>4, <1>7 DEF Refuse
<1> QED BY <1>2, <1>5, <1>6, <1>7 DEF ServeShare

\* A dialog or the share dialog sends calls, none of which has been checked.
LEMMA SendsInv ==
  ASSUME SharingInv, NEW bodies, bodies \subseteq ShareBodies, sent' = sent + 1,
         calls' = calls \cup {[n |-> sent', body |-> b, at |-> "sent"] : b \in bodies},
         UNCHANGED <<shares, mine, mineAsk, open, drafts, dialogRows, loose, behind>>
  PROVE  SharingInv'
<1> DEFINE call(b) == [n |-> sent', body |-> b, at |-> "sent"]
<1>1. \A x \in calls' : x \in calls \/ (x \in ShareCalls /\ x.at = "sent")
  <2>1. sent' \in Nat BY DEF SharingInv, SharingTypeOK
  <2>2. \A b \in bodies : call(b) \in ShareCalls /\ call(b).at = "sent"
      BY <2>1 DEF ShareCalls
  <2>3. \A x \in calls' : x \in calls \/ \E b \in bodies : x = call(b) OBVIOUS
  <2> QED BY <2>2, <2>3
<1>2. SharingTypeOK' BY <1>1 DEF SharingInv, SharingTypeOK, RowsOf
<1>3. \A b, k : Duplicate(b, k)' = Duplicate(b, k) BY DEF Duplicate, Live
<1>4. ChecksHold' BY <1>1, <1>3 DEF SharingInv, ChecksHold
<1>5. OneShareEach' BY DEF SharingInv, OneShareEach, Live
<1>6. DraftsCover' BY DraftsStay
<1> QED BY <1>2, <1>4, <1>5, <1>6 DEF SharingInv

\* A dialog opens, closes, drafts or asks, or the server lists.
LEMMA TabInv ==
  ASSUME SharingInv, UNCHANGED <<shares, mine, dialogRows, calls, sent, loose, behind>>,
         mineAsk' = mineAsk \/ mineAsk' = Fetch \/ mineAsk' = [at |-> "served", has |-> Snapshot],
         \A i \in DOMAIN drafts' : drafts'[i] \in Grants,
         DraftsCover'
  PROVE  SharingInv'
<1>1. mineAsk'.at = "served" => RowsOf(mineAsk.has)'
    BY SnapshotIs DEF SharingInv, SharingTypeOK, RowsOf, Fetch
<1>2. SharingTypeOK' BY <1>1 DEF SharingInv, SharingTypeOK, RowsOf
<1>3. \A b, k : Duplicate(b, k)' = Duplicate(b, k) BY DEF Duplicate, Live
<1>4. ChecksHold' BY <1>3 DEF SharingInv, ChecksHold
<1>5. OneShareEach' BY DEF SharingInv, OneShareEach, Live
<1> QED BY <1>2, <1>4, <1>5 DEF SharingInv

\* The tab shows what it was given.
LEMMA TakeInv ==
  ASSUME SharingInv, TakeMine
  PROVE  SharingInv'
<1>1. /\ mineAsk.at = "served" /\ mineAsk' = NoFetch /\ mine' = mineAsk.has
      /\ UNCHANGED <<shares, dialogRows, calls, sent, loose>>
      /\ CloseAfter(Refreshed)
      /\ behind' = (behind \/ (Fresh(mineAsk.has) # {} /\ ~Closes(Refreshed)))
    BY DEF TakeMine
<1>2. \/ open' = Closed /\ drafts' = <<>>
      \/ ~Closes(Refreshed) /\ UNCHANGED <<open, drafts>>
    BY <1>1 DEF CloseAfter
<1>3. \A i \in DOMAIN drafts' : drafts'[i] \in Grants
    BY <1>2 DEF SharingInv, SharingTypeOK
<1>4. behind' \in BOOLEAN BY <1>1 DEF SharingInv, SharingTypeOK
<1>5. RowsOf(mine)' BY <1>1 DEF SharingInv, SharingTypeOK, RowsOf
<1>6. SharingTypeOK'
    BY <1>1, <1>3, <1>4, <1>5 DEF SharingInv, SharingTypeOK, RowsOf, NoFetch
<1>7. \A b, k : Duplicate(b, k)' = Duplicate(b, k) BY <1>1 DEF Duplicate, Live
<1>8. ChecksHold' BY <1>1, <1>7 DEF SharingInv, ChecksHold
<1>9. OneShareEach' BY <1>1 DEF SharingInv, OneShareEach, Live
<1>10. DraftsCover'
  <2> SUFFICES ASSUME ~behind', open'.kind = "manage" PROVE (OpenGroup \subseteq DOMAIN drafts)'
      BY DEF DraftsCover
  <2>1. CASE open' = Closed BY <2>1 DEF OpenGroup
  <2>2. CASE ~Closes(Refreshed) /\ UNCHANGED <<open, drafts>> /\ open # Closed
    <3>1. ~behind /\ Fresh(mine') = {} BY <1>1, <2>2, Zenon
    <3>3. \A i \in DOMAIN mine' : i \in DOMAIN mine /\ mine'[i].type = mine[i].type
        BY <3>1 DEF Fresh
    <3>2. GroupOf(open.key)' \subseteq GroupOf(open.key)
        BY <1>1, <2>2, <3>3 DEF GroupOf, getRecipientKey
    <3> QED BY <2>2, <3>1, <3>2 DEF SharingInv, DraftsCover, OpenGroup
  <2> QED BY <1>2, <2>1, <2>2
<1> QED BY <1>6, <1>8, <1>9, <1>10 DEF SharingInv

\* What the dialogs send.
LEMMA DialogInv ==
  ASSUME SharingInv,
         ManageShareDialog \/ ReshareDialog \/ RevokeShareDialog \/ ActiveShares \/ ShareDialog
  PROVE  SharingInv'
<1>1. \A i \in DOMAIN shares : i \in Nat /\ shares[i] \in ShareRows
    BY RowIs DEF SharingInv
<1>2. /\ RowsOf(mine) /\ RowsOf(dialogRows) /\ \A i \in DOMAIN drafts : drafts[i] \in Grants
      /\ OpenGroup \subseteq DOMAIN mine
    BY DEF SharingInv, SharingTypeOK, OpenGroup, GroupOf
<1>3. ASSUME NEW what, NEW button, NEW bodies, bodies \subseteq ShareBodies,
             Send(what, button, bodies)
      PROVE  SharingInv'
  <2>1. /\ sent' = sent + 1
        /\ calls' = calls \cup {[n |-> sent', body |-> b, at |-> "sent"] : b \in bodies}
        /\ UNCHANGED <<shares, mine, mineAsk, open, drafts, dialogRows, loose, behind>>
      BY <1>3 DEF Send
  <2> QED BY <1>3, <2>1, SendsInv
<1>4. ASSUME NEW b \in ShareBodies, DialogSends(b) PROVE SharingInv'
  <2>1. /\ sent' = sent + 1
        /\ calls' = calls \cup {[n |-> sent', body |-> d, at |-> "sent"] : d \in {b}}
        /\ UNCHANGED <<shares, mine, mineAsk, open, drafts, dialogRows, loose, behind>>
      BY <1>4 DEF DialogSends, tabVars
  <2> QED BY <1>4, <2>1, SendsInv
<1>5. ASSUME NEW x \in Shareables, NEW to \in Recipients, NEW type \in ShareTypes,
             NEW g \in Grants
      PROVE  Creation(x, to, type, g) \in ShareBodies
    BY DEF Creation, ShareBodies, Creations
<1>6. ASSUME NEW i \in DOMAIN shares PROVE Revocation(i) \in ShareBodies
    BY <1>1 DEF Revocation, ShareBodies, Revocations
<1>7. ASSUME NEW i \in DOMAIN shares, NEW g \in Grants PROVE Change(i, g) \in ShareBodies
    BY <1>1 DEF Change, ShareBodies, Changes
<1>9. CASE ManageShareDialog
  <2>1. ASSUME NEW i \in OpenGroup \cap DOMAIN drafts,
               \/ Send("save", i, {Change(i, drafts[i])})
               \/ Send("remove", i, {Revocation(i)})
        PROVE  SharingInv'
    <3>1. i \in DOMAIN shares /\ drafts[i] \in Grants
        BY <1>2 DEF RowsOf
    <3>2. /\ {Change(i, drafts[i])} \subseteq ShareBodies
          /\ {Revocation(i)} \subseteq ShareBodies
        BY <1>2, <1>6, <1>7, <3>1
    <3> QED BY <1>3, <2>1, <3>2
  <2>2. ASSUME NEW x \in Shareables, NEW g \in Grants, NEW i \in OpenGroup,
               Send("add", AddFolder, {Creation(x, shares[i].to, mine[i].type, g)})
        PROVE  SharingInv'
    <3>1. shares[i].to \in Recipients /\ mine[i].type \in ShareTypes
        BY <1>1, <1>2 DEF RowsOf, ShareRows
    <3>2. {Creation(x, shares[i].to, mine[i].type, g)} \subseteq ShareBodies BY <1>2, <1>5, <3>1
    <3> QED BY <1>3, <2>2, <3>2
  <2> QED BY <1>9, <2>1, <2>2 DEF ManageShareDialog
<1>10. CASE ReshareDialog
  <2>1. PICK p \in People, g \in Grants, xs \in SUBSET {shares[i].item : i \in OpenGroup} :
          Send("reshare", AddFolder, {Creation(x, p, "user", g) : x \in xs})
      BY <1>10 DEF ReshareDialog
  <2>2. xs \subseteq Shareables BY <1>1, <1>2 DEF RowsOf, ShareRows
  <2>3. {Creation(x, p, "user", g) : x \in xs} \subseteq ShareBodies
      BY <1>5, <2>2 DEF Recipients, ShareTypes
  <2> QED BY <1>3, <2>1, <2>3
<1>11. CASE RevokeShareDialog
  <2>1. {Revocation(i) : i \in OpenGroup} \subseteq ShareBodies BY <1>2, <1>6 DEF RowsOf
  <2> QED BY <1>3, <1>11, <2>1 DEF RevokeShareDialog
<1>12. CASE ActiveShares
  <2>1. PICK i \in DOMAIN dialogRows : ActiveShareRow(i) BY <1>12 DEF ActiveShares
  <2>2. i \in DOMAIN shares BY <1>2 DEF RowsOf
  <2>3. CASE DialogSends(Revocation(i)) BY <1>4, <1>6, <2>2, <2>3
  <2>4. CASE \E g \in Grants : DialogSends(Change(i, g)) BY <1>4, <1>7, <2>2, <2>4
  <2> QED BY <2>1, <2>3, <2>4 DEF ActiveShareRow
<1>13. CASE ShareDialog
  <2>1. PICK to \in People \cup {Link}, g \in Grants :
          DialogSends(Creation(DialogItem, to, IF to = Link THEN "link" ELSE "user", g))
      BY <1>13 DEF ShareDialog
  <2>2. Creation(DialogItem, to, IF to = Link THEN "link" ELSE "user", g) \in ShareBodies
      BY <1>5, SharingAssumption DEF Recipients, ShareTypes
  <2> QED BY <1>4, <2>1, <2>2
<1> QED BY <1>9, <1>10, <1>11, <1>12, <1>13

\* An account has at most one share of a file that counts, and an address at most one
\* invitation to it, unless two were made at once, the look-up failed, or an invitation was
\* accepted by whom had a share already; and the dialog that manages a recipient's shares
\* has a draft for each that it shows, unless the tab took a share in under an open dialog.
THEOREM SharesStayInOrder == ShareSpec => []SharesAgree
<1>1. ShareInit => SharingInv
  <2> SUFFICES ASSUME ShareInit PROVE SharingInv OBVIOUS
  <2>1. PICK g \in Grants, p \in People, type \in {"user", "pending"} :
          shares = <<[item |-> DialogItem, to |-> p, type |-> type, can |-> g,
                      revoked |-> FALSE]>>
      BY DEF ShareInit
  <2>2. shares[1] \in ShareRows /\ Len(shares) = 1
      BY <2>1, SharingAssumption DEF ShareRows, Recipients, ShareTypes
  <2>3. shares \in Seq(ShareRows) /\ DOMAIN shares = {1} BY <2>1, <2>2
  <2>4. RowsOf(Snapshot) BY <2>2, <2>3 DEF RowsOf, Snapshot, Listed, Live, ShareRows
  <2>5. SharingTypeOK
    <3>1. /\ mine = Snapshot /\ dialogRows = Snapshot /\ mineAsk.at = "none"
          /\ DOMAIN drafts = {} /\ calls = {} /\ sent = 0 /\ behind = FALSE
        BY DEF ShareInit, NoFetch
    <3> QED BY <2>3, <2>4, <3>1 DEF SharingTypeOK
  <2>6. OneShareEach BY <2>3 DEF OneShareEach, Live
  <2> QED BY <2>5, <2>6 DEF ShareInit, SharingInv, ChecksHold, DraftsCover, Closed
<1>2. SharingInv /\ [ShareNext]_shareVars => SharingInv'
  <2> SUFFICES ASSUME SharingInv, [ShareNext]_shareVars PROVE SharingInv' OBVIOUS
  <2>1. \A i \in DOMAIN drafts : drafts[i] \in Grants BY DEF SharingInv, SharingTypeOK
  <2>2. ASSUME NEW i \in DOMAIN mine, NEW kind \in ShareActionButtons,
               RecipientShareCard(kind, i)
        PROVE  SharingInv'
    <3>1. /\ open' = [kind |-> kind, key |-> getRecipientKey(i)]
          /\ drafts' = [j \in GroupOf(getRecipientKey(i)) |-> mine[j].can]
          /\ UNCHANGED <<shares, mine, mineAsk, dialogRows, calls, sent, loose, behind>>
        BY <2>2 DEF RecipientShareCard
    <3>2. \A j \in DOMAIN drafts' : drafts'[j] \in Grants
        BY <3>1 DEF GroupOf, SharingInv, SharingTypeOK, RowsOf
    <3>3. \A key : GroupOf(key)' = GroupOf(key) BY <3>1 DEF GroupOf, getRecipientKey
    <3>4. OpenGroup' \subseteq DOMAIN drafts' BY <3>1, <3>3 DEF OpenGroup
    <3>5. DraftsCover' BY <3>4 DEF DraftsCover
    <3> QED BY <3>1, <3>2, <3>5, TabInv
  <2>3. ASSUME NEW i \in DOMAIN mine, NEW g \in Grants, PermissionEditor(i, g)
        PROVE  SharingInv'
    <3>1. /\ drafts' = [drafts EXCEPT ![i] = g] /\ open' = open
          /\ UNCHANGED <<shares, mine, mineAsk, dialogRows, calls, sent, loose, behind>>
        BY <2>3 DEF PermissionEditor
    <3>2. DraftsCover' BY <3>1, DraftsStay
    <3> QED BY <2>1, <3>1, <3>2, TabInv
  <2>4. CASE CloseShareDialog
    <3>1. /\ open' = Closed /\ drafts' = <<>>
          /\ UNCHANGED <<shares, mine, mineAsk, dialogRows, calls, sent, loose, behind>>
        BY <2>4 DEF CloseShareDialog
    <3>2. DraftsCover' BY <3>1 DEF DraftsCover, Closed
    <3> QED BY <3>1, <3>2, TabInv
  <2>5. CASE FocusTab \/ ServeMine
    <3>1. /\ UNCHANGED <<shares, mine, open, drafts, dialogRows, calls, sent, loose, behind>>
          /\ mineAsk' = Fetch \/ mineAsk' = [at |-> "served", has |-> Snapshot]
        BY <2>5 DEF FocusTab, ServeMine
    <3>2. DraftsCover' BY <3>1, DraftsStay
    <3> QED BY <2>1, <3>1, <3>2, TabInv
  <2>6. CASE UNCHANGED shareVars
    <3>1. UNCHANGED <<shares, mine, mineAsk, open, drafts, dialogRows, calls, sent, loose,
                      behind>>
        BY <2>6 DEF shareVars, tabVars
    <3>2. DraftsCover' BY <3>1, DraftsStay
    <3> QED BY <2>1, <3>1, <3>2, TabInv
  <2> QED BY <2>2, <2>3, <2>4, <2>5, <2>6, TakeInv, DialogInv, ServeInv, AcceptInv DEF ShareNext
<1>3. SharingInv => SharesAgree BY DEF SharingInv, SharesAgree
<1> QED BY <1>1, <1>2, <1>3, PTL DEF ShareSpec

=============================================================================
