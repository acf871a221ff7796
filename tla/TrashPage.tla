----------------------------- MODULE TrashPage -----------------------------
(***************************************************************************)
(* The trash page: its list, its ticks, and the calls that restore files   *)
(* or delete them for ever, one by one, several at once or all of them.    *)
(* The calls of the menu and of the preview wait for nothing; on the       *)
(* server each goes through its files one after the other.                 *)
(***************************************************************************)
EXTENDS Naturals

CONSTANTS Trash,             \* files and a folder, all of them in the trash at first
          TrashedFolder, Inside,       \* the folder, and the files in it
          Unlisted,          \* the page has no list
          MaxTrashCalls, MaxTrashed    \* bounds: calls of the page, files trashed again

ASSUME TrashAssumption ==
  /\ {MaxTrashCalls, MaxTrashed} \subseteq Nat
  /\ TrashedFolder \in Trash /\ Inside \subseteq Trash \ {TrashedFolder}

VARIABLES status,            \* of each file: "live", "trash" or "gone"
          trashed,           \* how often one went back to the trash
          items, fetch,      \* the list, and the request for it
          selectedRows,
          trashCalls, madeCalls,       \* the calls of the page
          waiting,           \* for each button, the call it waits for, or 0
          crossing,          \* ghost: restored and deleted by calls that overlapped
          lost,              \* ghost: deleted when not in the trash
          buried             \* ghost: those of them whose folder was in the trash

trashVars == <<status, trashed, items, fetch, selectedRows, trashCalls, madeCalls, waiting, crossing, lost, buried>>

Restores == {"restore", "bulkRestore"}
Deletes == {"delete", "bulkDelete", "empty"}
Buttons == {"bulkRestore", "bulkDelete", "empty"}
NoCall == [at |-> "none"]
NotFetched == [at |-> "none"]
Refetch == [at |-> "asked"]

TrashInit ==
  /\ status = [f \in Trash |-> "trash"] /\ trashed = 0
  /\ items = Unlisted /\ fetch = Refetch /\ selectedRows = {}
  /\ trashCalls = [n \in 1..MaxTrashCalls |-> NoCall] /\ madeCalls = 0 /\ waiting = [b \in Buttons |-> 0]
  /\ crossing = {} /\ lost = {} /\ buried = {}

Shown == IF items = Unlisted THEN {} ELSE items
\* Files, with what is in them.
With(ids) == IF TrashedFolder \in ids THEN ids \cup Inside ELSE ids

---------------------------------------------------------------------------
ListTrash ==
  /\ fetch = Refetch
  /\ fetch' = [at |-> "answered", found |-> {f \in Trash : status[f] = "trash"}]
  /\ UNCHANGED <<status, trashed, items, selectedRows, trashCalls, madeCalls, waiting, crossing, lost, buried>>

TakeList ==
  /\ fetch.at = "answered" /\ items' = fetch.found /\ fetch' = NotFetched
  /\ UNCHANGED <<status, trashed, selectedRows, trashCalls, madeCalls, waiting, crossing, lost, buried>>

FetchFails ==
  /\ fetch # NotFetched /\ fetch' = NotFetched
  /\ UNCHANGED <<status, trashed, items, selectedRows, trashCalls, madeCalls, waiting, crossing, lost, buried>>

Refocus ==
  /\ fetch = NotFetched /\ fetch' = Refetch
  /\ UNCHANGED <<status, trashed, items, selectedRows, trashCalls, madeCalls, waiting, crossing, lost, buried>>

\* A click ticks one file alone; with a key held, one more or one less.
onSelect(f, add) ==
  /\ f \in Shown
  /\ LET n == IF add THEN selectedRows ELSE {} IN
     selectedRows' = IF f \in n THEN n \ {f} ELSE n \cup {f}
  /\ selectedRows' # selectedRows
  /\ UNCHANGED <<status, trashed, items, fetch, trashCalls, madeCalls, waiting, crossing, lost, buried>>

UnderWay(ops) == UNION {trashCalls[n].ids : n \in {m \in 1..MaxTrashCalls : trashCalls[m].at # "none"
                                                                 /\ trashCalls[m].op \in ops}}

Call(op, ids) ==
  /\ madeCalls < MaxTrashCalls /\ madeCalls' = madeCalls + 1
  /\ trashCalls' = [trashCalls EXCEPT ![madeCalls'] = [at |-> "sent", op |-> op, ids |-> ids,
                                        todo |-> ids, found |-> {}, did |-> {}]]
  /\ waiting' = [b \in Buttons |-> IF b = op THEN madeCalls' ELSE waiting[b]]
  /\ crossing' = crossing \cup
       With(IF op \in Restores THEN ids \cap With(UnderWay(Deletes))
            ELSE With(ids) \cap UnderWay(Restores))
  /\ UNCHANGED <<status, trashed, items, fetch, selectedRows, lost, buried>>

\* The menu of a file, and its preview.
handleAction(op, f) == f \in Shown /\ Call(op, {f})

ClickBulk(op) ==
  /\ selectedRows # {} /\ waiting["bulkRestore"] = 0 /\ waiting["bulkDelete"] = 0
  /\ Call(op, selectedRows)

ClickEmpty ==
  /\ Shown # {} /\ selectedRows = {} /\ waiting["empty"] = 0
  /\ Call("empty", Trash)

---------------------------------------------------------------------------
\* The server.  A folder is restored without what is in it, and a file without its folder.
Restore(n, f) ==
  /\ trashCalls[n].at = "sent" /\ trashCalls[n].op \in Restores /\ f \in trashCalls[n].todo
  /\ status' = [status EXCEPT ![f] = IF @ = "trash" THEN "live" ELSE @]
  /\ trashCalls' = [trashCalls EXCEPT ![n].todo = @ \ {f},
                            ![n].did = IF status[f] = "trash" THEN @ \cup {f} ELSE @]
  /\ UNCHANGED <<trashed, items, fetch, selectedRows, madeCalls, waiting, crossing, lost, buried>>

\* A mutant: the trash is not asked for.
AnyRow(f) == status[f] # "gone"
InTrash(f) == status[f] = "trash"

\* A deletion looks its file up, then deletes it whatever has become of it.
LookUp(n, f) ==
  /\ trashCalls[n].at = "sent" /\ trashCalls[n].op \in {"delete", "bulkDelete"}
  /\ trashCalls[n].found = {} /\ f \in trashCalls[n].todo
  /\ trashCalls' = IF InTrash(f) THEN [trashCalls EXCEPT ![n].found = {f}]
              ELSE [trashCalls EXCEPT ![n].todo = @ \ {f}]
  /\ UNCHANGED <<status, trashed, items, fetch, selectedRows, madeCalls, waiting, crossing, lost, buried>>

\* Emptying looks all of them up first, and what is in a folder of the trash.
Descendants == IF status[TrashedFolder] = "trash" THEN {f \in Inside : status[f] = "live"} ELSE {}

EmptyTrashAll(n) ==
  /\ trashCalls[n].at = "sent" /\ trashCalls[n].op = "empty"
  /\ LET all == {f \in Trash : InTrash(f)} \cup Descendants IN
     trashCalls' = [trashCalls EXCEPT ![n] = [@ EXCEPT !.at = "found", !.todo = all, !.found = all]]
  /\ UNCHANGED <<status, trashed, items, fetch, selectedRows, madeCalls, waiting, crossing, lost, buried>>

\* The row goes, and with a folder's row those of what is in it.
DeleteRow(n, f) ==
  /\ trashCalls[n].at # "none" /\ f \in trashCalls[n].found
  /\ status' = [g \in Trash |-> IF g \in With({f}) THEN "gone" ELSE status[g]]
  /\ lost' = lost \cup {g \in With({f}) : status[g] = "live"}
  /\ buried' = IF status[TrashedFolder] # "trash" THEN buried
               ELSE buried \cup {g \in With({f}) \cap Inside : status[g] = "live"}
  /\ trashCalls' = [trashCalls EXCEPT ![n].todo = @ \ {f}, ![n].found = @ \ {f}, ![n].did = @ \cup {f}]
  /\ UNCHANGED <<trashed, items, fetch, selectedRows, madeCalls, waiting, crossing>>

\* A row that cannot be read or deleted is left out of a list, and nobody is told.
LeaveRow(n, f) ==
  /\ trashCalls[n].at # "none" /\ trashCalls[n].op \in {"bulkDelete", "empty"}
  /\ f \in trashCalls[n].found
  /\ trashCalls' = [trashCalls EXCEPT ![n].todo = @ \ {f}, ![n].found = @ \ {f}]
  /\ UNCHANGED <<status, trashed, items, fetch, selectedRows, madeCalls, waiting, crossing, lost, buried>>

---------------------------------------------------------------------------
Ends(n) ==
  /\ trashCalls' = [trashCalls EXCEPT ![n] = NoCall]
  /\ waiting' = [b \in Buttons |-> IF waiting[b] = n THEN 0 ELSE waiting[b]]

Finished(n) == /\ trashCalls[n].at = (IF trashCalls[n].op = "empty" THEN "found" ELSE "sent")
               /\ trashCalls[n].todo = {}

\* The bulk calls drop what they sent from the list, and all ticks.
BulkDone(n) ==
  /\ trashCalls[n].at # "none" /\ Finished(n) /\ trashCalls[n].op \in {"bulkRestore", "bulkDelete"}
  /\ items' = (IF items = Unlisted THEN items ELSE items \ trashCalls[n].ids) /\ selectedRows' = {}
  /\ Ends(n)
  /\ UNCHANGED <<status, trashed, fetch, madeCalls, crossing, lost, buried>>

\* The others have the list read again; one that found nothing to do is refused.
Done(n) ==
  /\ trashCalls[n].at # "none" /\ Finished(n) /\ trashCalls[n].op \notin {"bulkRestore", "bulkDelete"}
  /\ fetch' = IF trashCalls[n].did # {} \/ trashCalls[n].op = "empty" THEN Refetch ELSE fetch
  /\ Ends(n)
  /\ UNCHANGED <<status, trashed, items, selectedRows, madeCalls, crossing, lost, buried>>

\* Lost on the way, with some of its files done, or its answer lost.
CallFails(n) ==
  /\ trashCalls[n].at # "none" /\ Ends(n)
  /\ crossing' = crossing \cup With(trashCalls[n].ids)
  /\ UNCHANGED <<status, trashed, items, fetch, selectedRows, madeCalls, lost, buried>>

\* What was restored is put in the trash again, from elsewhere: a folder with all in it.
SoftDelete(f) ==
  /\ status[f] = "live" /\ trashed < MaxTrashed /\ trashed' = trashed + 1
  /\ status' = [g \in Trash |-> IF g \in With({f}) /\ status[g] = "live" THEN "trash" ELSE status[g]]
  /\ UNCHANGED <<items, fetch, selectedRows, trashCalls, madeCalls, waiting, crossing, lost, buried>>

TrashNext ==
  \/ ListTrash \/ TakeList \/ FetchFails \/ Refocus \/ ClickEmpty
  \/ \E f \in Trash, add \in BOOLEAN : onSelect(f, add)
  \/ \E op \in {"restore", "delete"}, f \in Trash : handleAction(op, f)
  \/ \E op \in {"bulkRestore", "bulkDelete"} : ClickBulk(op)
  \/ \E f \in Trash : SoftDelete(f)
  \/ \E n \in 1..MaxTrashCalls :
       \/ EmptyTrashAll(n) \/ BulkDone(n) \/ Done(n) \/ CallFails(n)
       \/ \E f \in Trash : Restore(n, f) \/ LookUp(n, f) \/ DeleteRow(n, f) \/ LeaveRow(n, f)

TrashSpec == TrashInit /\ [][TrashNext]_trashVars

---------------------------------------------------------------------------
\* What is deleted for ever is in the trash then, or in a folder that is, whatever is still
\* ticked: unless its restoration and its deletion overlapped, or one of them failed on the way.
OnlyTrashDeleted == lost \subseteq crossing \cup buried

\* Emptying is after what is in the trash, as the page asks and the server's comment says.
\* It does not hold: a file restored out of a folder that is still in the trash is listed too.
TrashAlone ==
  \A n \in 1..MaxTrashCalls : trashCalls[n].at = "found" =>
    \A f \in trashCalls[n].found : status[f] = "live" => f \in crossing

=============================================================================
