----------------------------- MODULE NoteEditor -----------------------------
(***************************************************************************)
(* A text note open in the note editor (NoteEditor.tsx), the note on the   *)
(* server, and another editor of the same note.  The editor polls the note *)
(* every two seconds, saves its draft 700 ms after the last change, and    *)
(* compares both with a baseline: the last answer it has seen, of a poll   *)
(* or of a save.  A value is the number of the edit that wrote it.         *)
(***************************************************************************)
EXTENDS Naturals, FiniteSets

CONSTANTS Fields,       \* title, content, is_pinned, is_archived, hide_completed
          MaxEdits,     \* bound: edits by both editors
          MaxSaves      \* bound: saves tried

ASSUME NoteAssumption == MaxEdits \in Nat /\ MaxSaves \in Nat

VARIABLES note, noteVersion,     \* the row in the database
          draft, draftVersion,   \* what the editor shows
          baseline,
          serverNote,            \* the data of the poll's query
          poll,                  \* the poll in flight
          timer,                 \* a save is waiting for its 700 ms
          saves,                 \* saves in flight
          saveState, saveCount,
          closed,
          written,               \* the edits made so far
          mine                   \* ghost: fields typed in since the last save began

noteVars == <<note, noteVersion, draft, draftVersion, baseline, serverNote, poll, timer, saves,
              saveState, saveCount, closed, written, mine>>

First == [f \in Fields |-> 0]
NoPoll == [at |-> "none"]

NoteInit ==
  /\ note = First /\ noteVersion = 1
  /\ draft = First /\ draftVersion = 1 /\ baseline = First
  /\ serverNote = [fields |-> First, version |-> 1] /\ poll = NoPoll
  /\ timer = FALSE /\ saves = {} /\ saveState = "idle" /\ saveCount = 0 /\ closed = FALSE
  /\ written = 0 /\ mine = {}

Dirty == draft # baseline

---------------------------------------------------------------------------
\* The other editor writes one field.
TheyWrite(f) ==
  /\ written < MaxEdits /\ written' = written + 1
  /\ note' = [note EXCEPT ![f] = written + 1] /\ noteVersion' = noteVersion + 1
  /\ UNCHANGED <<draft, draftVersion, baseline, serverNote, poll, timer, saves, saveState, saveCount,
                 closed, mine>>

\* patchDraft: typing, the pin and archive buttons, an image that has arrived.
\* Each change starts the wait again.
Type(f) ==
  /\ ~closed /\ written < MaxEdits /\ written' = written + 1
  /\ draft' = [draft EXCEPT ![f] = written + 1] /\ mine' = mine \cup {f} /\ timer' = TRUE
  /\ UNCHANGED <<note, noteVersion, draftVersion, baseline, serverNote, poll, saves, saveState, saveCount,
                 closed>>

\* What was typed is typed back to what it was.
TypeBack(f) ==
  /\ ~closed /\ draft[f] # baseline[f] /\ draft' = [draft EXCEPT ![f] = baseline[f]]
  /\ mine' = mine \cup {f} /\ timer' = TRUE
  /\ UNCHANGED <<note, noteVersion, draftVersion, baseline, serverNote, poll, saves, saveState,
                 saveCount, closed, written>>

AskPoll ==
  /\ ~closed /\ poll = NoPoll /\ poll' = [at |-> "asked"]
  /\ UNCHANGED <<note, noteVersion, draft, draftVersion, baseline, serverNote, timer, saves, saveState,
                 saveCount, closed, written, mine>>

ServePoll ==
  /\ poll.at = "asked"
  /\ poll' = [at |-> "served", has |-> [fields |-> note, version |-> noteVersion]]
  /\ UNCHANGED <<note, noteVersion, draft, draftVersion, baseline, serverNote, timer, saves, saveState,
                 saveCount, closed, written, mine>>

\* mergeServerNote: with preserveNoteFields every field of the draft stays, also
\* one that was not typed in.
\* A mutant: the server's fields always win.
MergeTheirs(server, preserve) == server.fields
MergeServerNote(server, preserve) == IF preserve THEN draft ELSE server.fields

\* An answer becomes the baseline and the draft follows it; a draft that still
\* differs from it is going to be saved.
\* A mutant: the wait is not started again by an answer.
AdoptQuietly(server, preserve) ==
  /\ draft' = MergeServerNote(server, preserve) /\ draftVersion' = server.version
  /\ baseline' = server.fields /\ UNCHANGED timer
Adopt(server, preserve) ==
  /\ draft' = MergeServerNote(server, preserve) /\ draftVersion' = server.version
  /\ baseline' = server.fields /\ timer' = (draft' # baseline')

\* The same data again change nothing.
TakePoll ==
  /\ poll.at = "served" /\ poll' = NoPoll
  /\ \/ poll.has = serverNote /\ UNCHANGED <<draft, draftVersion, baseline, serverNote, timer>>
     \/ /\ poll.has # serverNote /\ serverNote' = poll.has
        /\ Adopt(poll.has, Dirty)
  /\ UNCHANGED <<note, noteVersion, saves, saveState, saveCount, closed, written, mine>>

---------------------------------------------------------------------------
\* saveDraft: what differs from the baseline by now is sent, with the version
\* that the last answer had.
ChangedNoteFields == {f \in Fields : draft[f] # baseline[f]}

SaveDraft ==
  /\ ~closed /\ timer /\ timer' = FALSE /\ saveCount < MaxSaves /\ saveCount' = saveCount + 1
  /\ \/ ChangedNoteFields = {} /\ saveState' = "saved" /\ UNCHANGED <<saves, mine>>
     \/ /\ ChangedNoteFields # {} /\ saveState' = "saving" /\ mine' = {}
        /\ saves' = saves \cup {[n |-> saveCount, at |-> "sent", next |-> draft, sends |-> ChangedNoteFields,
                                 typed |-> mine, version |-> draftVersion]}
  /\ UNCHANGED <<note, noteVersion, draft, draftVersion, baseline, serverNote, poll, closed, written>>

\* Service.Update writes the fields sent, whatever version came with them.
StoreSave(s) ==
  LET stored == [f \in Fields |-> IF f \in s.sends THEN s.next[f] ELSE note[f]] IN
  /\ s.at = "sent"
  /\ note' = stored /\ noteVersion' = noteVersion + 1
  /\ saves' = (saves \ {s}) \cup {[n |-> s.n, at |-> "stored", next |-> s.next, sends |-> s.sends,
                                   typed |-> s.typed, version |-> s.version,
                                   has |-> [fields |-> stored, version |-> noteVersion + 1]]}
  /\ UNCHANGED <<draft, draftVersion, baseline, serverNote, poll, timer, saveState, saveCount, closed,
                 written, mine>>

SaveOk(s) ==
  /\ s.at = "stored" /\ saves' = saves \ {s}
  /\ \/ closed /\ UNCHANGED <<draft, draftVersion, baseline, timer, saveState>>
     \/ ~closed /\ saveState' = "saved" /\ Adopt(s.has, draft # s.next)
  /\ UNCHANGED <<note, noteVersion, serverNote, poll, saveCount, closed, written, mine>>

\* Nothing tries a failed save again until the draft is touched or a poll differs.
SaveFails(s) ==
  /\ s.at = "sent" /\ saves' = saves \ {s} /\ saveState' = "error"
  /\ mine' = mine \cup s.typed
  /\ UNCHANGED <<note, noteVersion, draft, draftVersion, baseline, serverNote, poll, timer, saveCount,
                 closed, written>>

\* Leaving the page clears the wait: what was not sent is gone.
CloseEditor ==
  /\ ~closed /\ closed' = TRUE /\ timer' = FALSE /\ poll' = NoPoll
  /\ UNCHANGED <<note, noteVersion, draft, draftVersion, baseline, serverNote, saves, saveState, saveCount,
                 written, mine>>

NoteNext ==
  \/ \E f \in Fields : TheyWrite(f) \/ Type(f) \/ TypeBack(f)
  \/ AskPoll \/ ServePoll \/ TakePoll \/ SaveDraft
  \/ \E s \in saves : StoreSave(s) \/ SaveOk(s) \/ SaveFails(s)
  \/ CloseEditor

NoteFairness ==
  /\ WF_noteVars(SaveDraft)
  /\ WF_noteVars(\E s \in saves : StoreSave(s) \/ SaveOk(s) \/ SaveFails(s))

NoteSpec == NoteInit /\ [][NoteNext]_noteVars /\ NoteFairness

---------------------------------------------------------------------------
\* What was typed and not yet sent survives the polls and the answers of earlier
\* saves; only typing changes it.
UnsavedSurvives ==
  [][\A f \in mine : \/ draft[f] \in {draft'[f], baseline[f]}
                     \/ \E s \in saves : draft = s.next
                     \/ draft'[f] = written' \/ TypeBack(f)]_noteVars

\* A note that was typed in is saved in the end, or the editor says that it is not.
SavedInTheEnd ==
  (~closed /\ Dirty) ~> (~Dirty \/ closed \/ saveState = "error" \/ saveCount = MaxSaves)

=============================================================================
