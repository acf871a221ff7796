------------------------------ MODULE NoteRows ------------------------------
(***************************************************************************)
(* A checklist open in the note editor (NoteEditor.tsx): rows added on     *)
(* screen and stored when they are left, rows edited in place, the polls   *)
(* that replace everything but what is dirty, and another editor.  The     *)
(* order of the rows is left out.  A text is the number of the edit that   *)
(* wrote it, 0 a blank one.                                                *)
(***************************************************************************)
EXTENDS Naturals, FiniteSets

CONSTANTS Drafts,       \* the ids of rows added on screen
          MaxRows,      \* bound: rows ever stored
          MaxTexts,     \* bound: texts ever typed
          MaxCalls      \* bound: calls in flight together

ASSUME RowsAssumption ==
  /\ MaxRows \in Nat \ {0} /\ MaxTexts \in Nat /\ MaxCalls \in Nat
  /\ Drafts \cap (1..MaxRows) = {}

VARIABLES rows,         \* the rows stored: id -> text
          origin,       \* ghost: id -> the draft row it was stored from, or the id itself
          items,        \* the rows on screen: id or draft -> text
          dirtyItemIDs, pendingItemIDs,
          calls,        \* item mutations in flight
          rowPoll,      \* the poll in flight
          rowState,     \* saveState
          typed, nextId,
          lost          \* ghost: a call was done and its answer lost

rowVars == <<rows, origin, items, dirtyItemIDs, pendingItemIDs, calls, rowPoll, rowState, typed, nextId,
             lost>>
screen == <<items, dirtyItemIDs, pendingItemIDs, rowState>>
server == <<rows, origin, nextId>>

Ids == 1..MaxRows
NoRows == [at |-> "none"]
With(f, k, v) == [x \in DOMAIN f \cup {k} |-> IF x = k THEN v ELSE f[x]]
Without(f, k) == [x \in DOMAIN f \ {k} |-> f[x]]
IsDraftItem(i) == i \in Drafts

RowsInit ==
  /\ rows = [i \in {1} |-> 0] /\ origin = [i \in {1} |-> 1] /\ nextId = 2
  /\ items = rows /\ dirtyItemIDs = {} /\ pendingItemIDs = {} /\ calls = {}
  /\ rowPoll = NoRows /\ rowState = "idle" /\ typed = 0 /\ lost = FALSE

---------------------------------------------------------------------------
AddDraftItem(d) ==
  /\ d \notin DOMAIN items /\ \A i \in DOMAIN origin : origin[i] # d
  /\ items' = With(items, d, 0)
  /\ UNCHANGED <<dirtyItemIDs, pendingItemIDs, rowState, typed, calls, rowPoll, lost, server>>

\* Typing in a row that is stored makes it dirty.
TypeItem(i) ==
  /\ typed < MaxTexts /\ typed' = typed + 1
  /\ items' = [items EXCEPT ![i] = typed + 1]
  /\ dirtyItemIDs' = IF IsDraftItem(i) THEN dirtyItemIDs ELSE dirtyItemIDs \cup {i}
  /\ UNCHANGED <<pendingItemIDs, rowState, calls, rowPoll, lost, server>>

\* A mutant: Enter and the blur that follows it both commit the row.
NeverPending(i) == FALSE
IsPending(i) == i \in pendingItemIDs

\* commitItem, on Enter and on blur: a blank draft is dropped, a blank row deleted.
CommitItem(i) ==
  \/ /\ IsDraftItem(i) /\ items[i] = 0 /\ items' = Without(items, i)
     /\ UNCHANGED <<dirtyItemIDs, pendingItemIDs, calls>>
  \/ /\ ~(IsDraftItem(i) /\ items[i] = 0) /\ ~IsPending(i) /\ Cardinality(calls) < MaxCalls
     /\ pendingItemIDs' = pendingItemIDs \cup {i} /\ dirtyItemIDs' = dirtyItemIDs \cup {i}
     /\ calls' = calls \cup {[row |-> i, text |-> items[i], at |-> "sent", n |-> Cardinality(calls),
                              does |-> IF IsDraftItem(i) THEN "create"
                                       ELSE IF items[i] = 0 THEN "delete" ELSE "update"]}
     /\ UNCHANGED items

\* Leaving a row; Backspace in a blank one, which deletes a stored row unguarded.
LeaveRow(i) ==
  /\ \/ CommitItem(i)
     \/ /\ items[i] = 0 /\ IsDraftItem(i) /\ items' = Without(items, i)
        /\ UNCHANGED <<dirtyItemIDs, pendingItemIDs, calls>>
     \/ /\ items[i] = 0 /\ ~IsDraftItem(i) /\ Cardinality(calls) < MaxCalls
        /\ calls' = calls \cup {[row |-> i, text |-> 0, at |-> "sent", n |-> Cardinality(calls), does |-> "delete"]}
        /\ UNCHANGED <<items, dirtyItemIDs, pendingItemIDs>>
  /\ UNCHANGED <<rowState, typed, rowPoll, lost, server>>

\* The server: an update or delete of a row that is gone is refused.
ServeCall(c) ==
  LET Stored(rs) == (calls \ {c}) \cup {[row |-> c.row, text |-> c.text, at |-> "done", n |-> c.n,
                                         does |-> c.does, has |-> rs]} IN
  /\ c.at = "sent"
  /\ \/ /\ c.does = "create" /\ nextId \in Ids /\ nextId' = nextId + 1
        /\ rows' = With(rows, nextId, c.text) /\ origin' = With(origin, nextId, c.row)
     \/ /\ c.does = "update" /\ c.row \in DOMAIN rows /\ rows' = [rows EXCEPT ![c.row] = c.text]
        /\ UNCHANGED <<nextId, origin>>
     \/ /\ c.does = "delete" /\ c.row \in DOMAIN rows /\ rows' = Without(rows, c.row)
        /\ UNCHANGED <<nextId, origin>>
  /\ calls' = Stored(rows')
  /\ UNCHANGED <<screen, typed, rowPoll, lost>>

\* mergeServerNote: the server's rows, but a dirty one as it is on screen, and the
\* draft rows, but the one just stored.
MergeServerRows(rs, completed) ==
  LET kept == dirtyItemIDs \ {completed} IN
  [i \in DOMAIN rs \cup {d \in DOMAIN items : IsDraftItem(d) /\ d # completed} |->
     IF i \in DOMAIN rs /\ ~(i \in kept /\ i \in DOMAIN items) THEN rs[i] ELSE items[i]]

CallOk(c) ==
  /\ c.at = "done" /\ calls' = calls \ {c} /\ rowState' = "saved"
  /\ dirtyItemIDs' = dirtyItemIDs \ {c.row} /\ pendingItemIDs' = pendingItemIDs \ {c.row}
  /\ items' = MergeServerRows(c.has, c.row)
  /\ UNCHANGED <<typed, rowPoll, lost, server>>

\* Refused, or done and its answer lost.
CallFails(c) ==
  /\ calls' = calls \ {c} /\ pendingItemIDs' = pendingItemIDs \ {c.row} /\ rowState' = "error"
  /\ lost' = (lost \/ c.at = "done")
  /\ UNCHANGED <<items, dirtyItemIDs, typed, rowPoll, server>>

Poll ==
  \/ /\ rowPoll = NoRows /\ rowPoll' = [at |-> "asked"] /\ UNCHANGED items
  \/ /\ rowPoll.at = "asked" /\ rowPoll' = [at |-> "served", has |-> rows] /\ UNCHANGED items
  \/ /\ rowPoll.at = "served" /\ rowPoll' = NoRows /\ items' = MergeServerRows(rowPoll.has, 0)

PollRows ==
  /\ Poll
  /\ UNCHANGED <<dirtyItemIDs, pendingItemIDs, rowState, typed, calls, lost, server>>

\* The other editor.
TheyEdit(i) ==
  /\ \/ typed < MaxTexts /\ typed' = typed + 1 /\ rows' = [rows EXCEPT ![i] = typed + 1]
     \/ rows' = Without(rows, i) /\ UNCHANGED typed
  /\ UNCHANGED <<screen, origin, nextId, calls, rowPoll, lost>>

RowsNext ==
  \/ /\ \/ \E d \in Drafts : AddDraftItem(d)
        \/ \E i \in DOMAIN items : TypeItem(i) \/ LeaveRow(i)
        \/ \E c \in calls : CallOk(c) \/ CallFails(c)
        \/ PollRows
  \/ \E c \in calls : ServeCall(c)
  \/ \E i \in DOMAIN rows : TheyEdit(i)

RowsSpec == RowsInit /\ [][RowsNext]_rowVars

---------------------------------------------------------------------------
\* A row added on screen is stored once, however often it is left, unless the
\* answer to storing it was lost.
StoredOnce ==
  lost \/ \A i, j \in DOMAIN origin : origin[i] = origin[j] => i = j

=============================================================================
