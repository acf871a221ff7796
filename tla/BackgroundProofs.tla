-------------------------- MODULE BackgroundProofs --------------------------
(***************************************************************************)
(* Theorems about what goes on behind the screen: the push to a buddy, the *)
(* note editor and its checklist, a conversation, the buddy tunnel and the *)
(* upload queue, each for any value of its constants.  Fairness plays no   *)
(* part in them.                                                           *)
(***************************************************************************)
EXTENDS UploadQueue, Chat, NoteEditor, NoteRows, BackupPush, Tunnel, SequenceTheorems, TLAPS

-----------------------------------------------------------------------------
(* BackupPush: pushes run one at a time until a second is started or one   *)
(* that runs is declared stuck, and the flag is as its last UPDATE left it. *)

PushInv ==
  /\ started \in Nat /\ pushes \subseteq 1..started
  /\ push_in_progress \in BOOLEAN
  /\ doubled \in BOOLEAN /\ unwritten \in BOOLEAN /\ resetting \in BOOLEAN
  /\ ~doubled => \A p, q \in pushes : p = q
  /\ ~doubled /\ ~unwritten /\ ~resetting => (push_in_progress <=> pushes # {})

LEMMA PushStarts ==
  ASSUME PushInv, StartPush
  PROVE  PushInv'
<1>1. /\ started' = started + 1 /\ pushes' = pushes \cup {started'}
      /\ doubled' = (pushes # {}) /\ resetting' = resetting
      /\ \/ push_in_progress' = TRUE /\ unwritten' = FALSE
         \/ push_in_progress' = push_in_progress /\ unwritten' = TRUE
    BY DEF StartPush, SetPushInProgress
<1>2. started' \in Nat /\ pushes' \subseteq 1..started' BY <1>1 DEF PushInv
<1>3. doubled' \in BOOLEAN /\ (~doubled' => pushes = {}) BY <1>1 DEF PushInv
<1>4. ~doubled' => \A p, q \in pushes' : p = q BY <1>1, <1>3
<1>5. pushes' # {} BY <1>1
<1>6. ~unwritten' => push_in_progress' = TRUE BY <1>1
<1>7. /\ push_in_progress' \in BOOLEAN /\ unwritten' \in BOOLEAN /\ resetting' \in BOOLEAN
    BY <1>1 DEF PushInv
<1>8. ~doubled' /\ ~unwritten' /\ ~resetting' => (push_in_progress' <=> pushes' # {})
    BY <1>5, <1>6, Zenon
<1> QED BY <1>2, <1>3, <1>4, <1>7, <1>8 DEF PushInv

\* The flag is up exactly while a push runs, whatever failed and whenever the server
\* stopped before, except until its last UPDATE, which failed, is followed by one that
\* does not, until a server that started has cleared it, and until the pushes end that
\* ran at once, or one that was declared stuck while it ran.
THEOREM FlagFollowsThePush == PushSpec => []FlagIsTrue
<1>1. PushInit => PushInv
  <2> SUFFICES ASSUME PushInit PROVE PushInv OBVIOUS
  <2>1. /\ started = 0 /\ pushes = {} /\ push_in_progress = FALSE
        /\ doubled = FALSE /\ unwritten = FALSE /\ resetting = FALSE
      BY DEF PushInit
  <2>2. (push_in_progress <=> pushes # {}) /\ \A p, q \in pushes : p = q BY <2>1, Zenon
  <2> QED BY <2>1, <2>2 DEF PushInv
<1>2. PushInv /\ [PushNext]_pushVars => PushInv'
  <2> SUFFICES ASSUME PushInv, [PushNext]_pushVars PROVE PushInv' OBVIOUS
  <2>1. ASSUME UNCHANGED <<push_in_progress, pushes, started, resetting, doubled, unwritten>>
        PROVE  PushInv'
      BY <2>1 DEF PushInv
  <2>2. ASSUME NEW what, AskMint(what) PROVE PushInv' BY <2>1, <2>2 DEF AskMint, flagVars
  <2>3. ASSUME NEW n, TypeToken(n) PROVE PushInv' BY <2>1, <2>3 DEF TypeToken, flagVars
  <2>4. CASE ServeMint \/ TakeMint \/ PollConfig \/ ServeConfigAsk \/ TakeBuddyConfig
      BY <2>1, <2>4 DEF ServeMint, TakeMint, PollConfig, ServeConfigAsk, TakeBuddyConfig,
                        flagVars
  <2>5. ASSUME NEW on, SetPeer(on) PROVE PushInv' BY <2>1, <2>5 DEF SetPeer
  <2>6. CASE handleBuddyPush \/ pushBuddyArchive
      BY <2>1, <2>6 DEF handleBuddyPush, pushBuddyArchive, flagVars
  <2>7. CASE BuddyPush \/ executeBuddyPush
    <3>1. StartPush \/ UNCHANGED flagVars BY <2>7 DEF BuddyPush, executeBuddyPush
    <3> QED BY <2>1, <3>1, PushStarts DEF flagVars
  <2>8. ASSUME NEW p \in pushes, runBuddyPushAsync(p) PROVE PushInv'
    <3>1. /\ pushes' = pushes \ {p} /\ UNCHANGED <<started, resetting>>
          /\ doubled' = (doubled /\ pushes' # {})
          /\ \/ push_in_progress' = FALSE /\ unwritten' = FALSE
             \/ push_in_progress' = push_in_progress /\ unwritten' = TRUE
        BY <2>8 DEF runBuddyPushAsync, TakeDown, SetPushInProgress
    <3>2. /\ doubled' \in BOOLEAN /\ unwritten' \in BOOLEAN
          /\ push_in_progress' \in BOOLEAN /\ resetting' \in BOOLEAN
        BY <3>1 DEF PushInv
    <3>3. ~doubled' /\ pushes' # {} => ~doubled BY <3>1 DEF PushInv
    <3>4. ~doubled' => pushes' = {} BY <3>1, <3>3 DEF PushInv
    <3>5. started' \in Nat /\ pushes' \subseteq 1..started' BY <3>1 DEF PushInv
    <3>6. ~unwritten' => push_in_progress' = FALSE BY <3>1
    <3>7. ~doubled' => \A q, r \in pushes' : q = r BY <3>4
    <3>8. ~doubled' /\ ~unwritten' /\ ~resetting' => (push_in_progress' <=> pushes' # {})
        BY <3>4, <3>6, Zenon
    <3> QED BY <3>2, <3>5, <3>7, <3>8 DEF PushInv
  <2>9. CASE ResetBuddyPushInProgress \/ startBuddyPushReset
    <3>1. /\ doubled' = (pushes # {}) /\ UNCHANGED <<pushes, started>>
          /\ resetting' \in BOOLEAN
          /\ \/ push_in_progress' = FALSE /\ unwritten' = FALSE
             \/ push_in_progress' = push_in_progress /\ unwritten' = TRUE
        BY <2>9 DEF ResetBuddyPushInProgress, startBuddyPushReset, SetPushInProgress, PushInv
    <3>2. doubled' \in BOOLEAN /\ (~doubled' => pushes = {}) BY <3>1 DEF PushInv
    <3> QED BY <3>1, <3>2 DEF PushInv
  <2>10. CASE ServerStops
    <3>1. /\ pushes' = {} /\ resetting' = TRUE /\ doubled' = FALSE
          /\ UNCHANGED <<push_in_progress, started, unwritten>>
        BY <2>10 DEF ServerStops
    <3> QED BY <3>1 DEF PushInv
  <2>11. CASE UNCHANGED pushVars BY <2>1, <2>11 DEF pushVars, flagVars
  <2> QED BY <2>2, <2>3, <2>4, <2>5, <2>6, <2>7, <2>8, <2>9, <2>10, <2>11 DEF PushNext
<1>3. PushInv => FlagIsTrue BY DEF PushInv, FlagIsTrue
<1> QED BY <1>1, <1>2, <1>3, PTL DEF PushSpec

-----------------------------------------------------------------------------
(* NoteEditor: only typing moves a field of the draft away from both what   *)
(* it was and what the server had, unless the draft was just saved.         *)

Contents == [Fields -> Nat]

NoteInv ==
  /\ note \in Contents /\ draft \in Contents /\ baseline \in Contents /\ mine \subseteq Fields
  /\ written \in Nat
  /\ poll.at = "served" => poll.has.fields \in Contents
  /\ \A s \in saves : s.next \in Contents /\ s.typed \subseteq Fields
                      /\ (s.at = "stored" => s.has.fields \in Contents)

\* What was typed and not yet sent survives the polls and the answers of earlier saves.
THEOREM TypedSurvives == NoteSpec => UnsavedSurvives
<1> DEFINE Step == \A f \in mine : \/ draft[f] \in {draft'[f], baseline[f]}
                                   \/ \E s \in saves : draft = s.next
                                   \/ draft'[f] = written' \/ TypeBack(f)
<1>1. NoteInit => NoteInv BY DEF NoteInit, NoteInv, First, NoPoll, Contents
<1>2. NoteInv /\ [NoteNext]_noteVars => NoteInv' /\ (Step \/ UNCHANGED noteVars)
  <2> SUFFICES ASSUME NoteInv, [NoteNext]_noteVars
               PROVE  NoteInv' /\ (Step \/ UNCHANGED noteVars)
      OBVIOUS
  <2>1. ASSUME NEW answer, NEW preserve, Adopt(answer, preserve), answer.fields \in Contents
        PROVE  /\ draft' \in Contents /\ baseline' \in Contents
               /\ preserve => draft' = draft
      BY <2>1 DEF Adopt, MergeServerNote, NoteInv
  <2>2. ASSUME NEW f \in Fields, TheyWrite(f) PROVE NoteInv' /\ Step
    <3>1. written' = written + 1 /\ note' = [note EXCEPT ![f] = written + 1]
          /\ UNCHANGED <<draft, baseline, poll, saves, mine>>
        BY <2>2 DEF TheyWrite
    <3> QED BY <3>1 DEF NoteInv, Contents
  <2>3. ASSUME NEW f \in Fields, Type(f) PROVE NoteInv' /\ Step
    <3>1. /\ written' = written + 1 /\ draft' = [draft EXCEPT ![f] = written + 1]
          /\ mine' = mine \cup {f} /\ UNCHANGED <<note, baseline, poll, saves>>
        BY <2>3 DEF Type
    <3> QED BY <3>1 DEF NoteInv, Contents
  <2>4. ASSUME NEW f \in Fields, TypeBack(f) PROVE NoteInv' /\ Step
    <3>1. /\ draft' = [draft EXCEPT ![f] = baseline[f]] /\ mine' = mine \cup {f}
          /\ UNCHANGED <<note, baseline, poll, saves, written>>
        BY <2>4 DEF TypeBack
    <3>2. NoteInv' BY <3>1 DEF NoteInv, Contents
    <3>3. \A g \in mine : g = f \/ draft'[g] = draft[g] BY <3>1 DEF NoteInv, Contents
    <3> QED BY <2>4, <3>2, <3>3
  <2>5. CASE AskPoll \/ ServePoll \/ CloseEditor
    <3>1. /\ UNCHANGED <<note, draft, baseline, saves, written, mine>>
          /\ poll'.at = "served" => poll'.has.fields = note
        BY <2>5 DEF AskPoll, ServePoll, CloseEditor, NoPoll
    <3> QED BY <3>1 DEF NoteInv
  <2>6. CASE TakePoll
    <3>1. /\ poll.at = "served" /\ poll' = NoPoll /\ UNCHANGED <<note, saves, written, mine>>
          /\ UNCHANGED <<draft, baseline>> \/ Adopt(poll.has, Dirty)
        BY <2>6 DEF TakePoll
    <3>2. draft' \in Contents /\ baseline' \in Contents /\ (Dirty => draft' = draft)
        BY <2>1, <3>1 DEF NoteInv
    <3> QED BY <3>1, <3>2 DEF NoteInv, NoPoll, Dirty
  <2>7. CASE SaveDraft
    <3>1. /\ UNCHANGED <<note, draft, baseline, poll, written>>
          /\ \/ UNCHANGED <<saves, mine>>
             \/ /\ mine' = {}
                /\ saves' = saves \cup {[n |-> saveCount, at |-> "sent", next |-> draft,
                                         sends |-> ChangedNoteFields, typed |-> mine,
                                         version |-> draftVersion]}
        BY <2>7 DEF SaveDraft
    <3> QED BY <3>1 DEF NoteInv
  <2>8. ASSUME NEW s \in saves, StoreSave(s) PROVE NoteInv' /\ Step
    <3> DEFINE stored == [f \in Fields |-> IF f \in s.sends THEN s.next[f] ELSE note[f]]
    <3>1. /\ note' = stored /\ UNCHANGED <<draft, baseline, poll, written, mine>>
          /\ saves' = (saves \ {s}) \cup {[n |-> s.n, at |-> "stored", next |-> s.next,
                        sends |-> s.sends, typed |-> s.typed, version |-> s.version,
                        has |-> [fields |-> stored, version |-> noteVersion + 1]]}
        BY <2>8 DEF StoreSave
    <3>2. stored \in Contents BY DEF NoteInv, Contents
    <3> HIDE DEF stored
    <3> QED BY <3>1, <3>2 DEF NoteInv
  <2>9. ASSUME NEW s \in saves, SaveOk(s) PROVE NoteInv' /\ Step
    <3>1. /\ s.at = "stored" /\ saves' = saves \ {s} /\ UNCHANGED <<note, poll, written, mine>>
          /\ UNCHANGED <<draft, baseline>> \/ Adopt(s.has, draft # s.next)
        BY <2>9 DEF SaveOk
    <3>2. draft' \in Contents /\ baseline' \in Contents /\ (draft # s.next => draft' = draft)
        BY <2>1, <3>1 DEF NoteInv
    <3> QED BY <3>1, <3>2 DEF NoteInv
  <2>10. ASSUME NEW s \in saves, SaveFails(s) PROVE NoteInv' /\ Step
    <3>1. /\ saves' = saves \ {s} /\ mine' = mine \cup s.typed
          /\ UNCHANGED <<note, draft, baseline, poll, written>>
        BY <2>10 DEF SaveFails
    <3> QED BY <3>1 DEF NoteInv
  <2>11. CASE UNCHANGED noteVars BY <2>11 DEF noteVars, NoteInv
  <2> QED BY <2>2, <2>3, <2>4, <2>5, <2>6, <2>7, <2>8, <2>9, <2>10, <2>11 DEF NoteNext
<1> QED BY <1>1, <1>2, PTL DEF NoteSpec, UnsavedSurvives

-----------------------------------------------------------------------------
(* NoteRows: while a row added on screen is being stored its one call keeps *)
(* it pending, and when it is stored and on screen its answer is on its way. *)

RowCallOK(c) ==
  /\ c.at \in {"sent", "done"} /\ c.does \in {"create", "update", "delete"}
  /\ c.does = "create" <=> c.row \in Drafts
  /\ c.at = "done" => DOMAIN c.has \subseteq Ids

RowsTypeOK ==
  /\ nextId \in Nat \ {0} /\ DOMAIN rows \subseteq Ids /\ DOMAIN origin \subseteq 1..(nextId - 1)
  /\ rowPoll.at = "served" => DOMAIN rowPoll.has \subseteq Ids
  /\ \A c \in calls : RowCallOK(c)
  /\ lost \in BOOLEAN

OneCreation ==
  \A c, d \in calls : c.does = "create" /\ d.does = "create" /\ c.row = d.row => c = d
CreationsPend == \A c \in calls : c.does = "create" => c.row \in pendingItemIDs
NotYetStored ==
  \A c \in calls : c.does = "create" /\ c.at = "sent" =>
    \A i \in DOMAIN origin : origin[i] # c.row
AnswerComes ==
  \A d \in Drafts \cap DOMAIN items : \A i \in DOMAIN origin : origin[i] = d =>
    \E c \in calls : c.does = "create" /\ c.row = d
OnceEach == \A i, j \in DOMAIN origin : origin[i] = origin[j] => i = j

RowsInv ==
  /\ RowsTypeOK
  /\ lost \/ (OneCreation /\ CreationsPend /\ NotYetStored /\ AnswerComes /\ OnceEach)

LEMMA RowsMerge ==
  ASSUME RowsTypeOK, NEW rs, DOMAIN rs \subseteq Ids, NEW completed
  PROVE  \A d \in Drafts \cap DOMAIN MergeServerRows(rs, completed) :
           d \in DOMAIN items /\ d # completed
BY RowsAssumption DEF MergeServerRows, Ids, IsDraftItem

\* What calls for nothing: rows added, typed in or dropped on screen, polls, the other editor.
LEMMA RowsRestInv ==
  ASSUME RowsInv, UNCHANGED <<calls, origin, nextId, lost, pendingItemIDs>>,
         DOMAIN rows' \subseteq Ids, rowPoll'.at = "served" => DOMAIN rowPoll'.has \subseteq Ids,
         \A d \in Drafts \cap DOMAIN items' :
           d \in DOMAIN items \/ \A i \in DOMAIN origin : origin[i] # d
  PROVE  RowsInv'
<1>1. RowsTypeOK' BY DEF RowsInv, RowsTypeOK, RowCallOK, Ids
<1>2. ASSUME ~lost PROVE OneCreation' /\ CreationsPend' /\ NotYetStored' /\ OnceEach'
    BY <1>2 DEF RowsInv, OneCreation, CreationsPend, NotYetStored, OnceEach
<1>3. ASSUME ~lost PROVE AnswerComes'
    BY <1>3 DEF RowsInv, AnswerComes
<1> QED BY <1>1, <1>2, <1>3 DEF RowsInv

\* A row is left: its call is sent, unless it is pending.
LEMMA LeaveInv ==
  ASSUME RowsInv, NEW i \in DOMAIN items, LeaveRow(i)
  PROVE  RowsInv'
<1>1. UNCHANGED <<rowPoll, lost, rows, origin, nextId>> BY DEF LeaveRow, server
<1>2. CASE items' = Without(items, i) /\ UNCHANGED <<calls, pendingItemIDs>>
  <2>1. DOMAIN items' \subseteq DOMAIN items BY <1>2 DEF Without
  <2> QED BY <1>1, <1>2, <2>1, RowsRestInv DEF RowsInv, RowsTypeOK
<1>3. ASSUME NEW c, calls' = calls \cup {c}, c.at = "sent", c.row = i, items' = items,
             c.does \in {"create", "update", "delete"}, c.does = "create" <=> i \in Drafts,
             pendingItemIDs \subseteq pendingItemIDs',
             i \in Drafts => i \in pendingItemIDs' /\ i \notin pendingItemIDs
      PROVE  RowsInv'
  <2>1. RowsTypeOK' BY <1>1, <1>3 DEF RowsInv, RowsTypeOK, RowCallOK, Ids
  <2>2. ASSUME ~lost, i \in Drafts
        PROVE  /\ \A d \in calls : ~(d.does = "create" /\ d.row = i)
               /\ \A j \in DOMAIN origin : origin[j] # i
    <3>1. \A d \in calls : ~(d.does = "create" /\ d.row = i)
        BY <1>3, <2>2 DEF RowsInv, CreationsPend
    <3> QED BY <2>2, <3>1 DEF RowsInv, AnswerComes
  <2>3. ASSUME ~lost PROVE OneCreation' /\ CreationsPend' /\ NotYetStored'
    <3>1. OneCreation' BY <1>3, <2>2, <2>3 DEF RowsInv, OneCreation
    <3>2. CreationsPend' BY <1>3, <2>2, <2>3 DEF RowsInv, CreationsPend
    <3>3. NotYetStored' BY <1>1, <1>3, <2>2, <2>3 DEF RowsInv, NotYetStored
    <3> QED BY <3>1, <3>2, <3>3
  <2>4. ASSUME ~lost PROVE AnswerComes' /\ OnceEach'
      BY <1>1, <1>3, <2>4 DEF RowsInv, AnswerComes, OnceEach
  <2> QED BY <1>1, <2>1, <2>3, <2>4 DEF RowsInv
<1>4. CASE CommitItem(i) /\ ~(IsDraftItem(i) /\ items[i] = 0)
  <2> DEFINE c == [row |-> i, text |-> items[i], at |-> "sent", n |-> Cardinality(calls),
                   does |-> IF IsDraftItem(i) THEN "create"
                            ELSE IF items[i] = 0 THEN "delete" ELSE "update"]
  <2>1. /\ calls' = calls \cup {c} /\ items' = items /\ i \notin pendingItemIDs
        /\ pendingItemIDs' = pendingItemIDs \cup {i}
      BY <1>4 DEF CommitItem, IsPending
  <2>2. /\ c.at = "sent" /\ c.row = i /\ c.does \in {"create", "update", "delete"}
        /\ c.does = "create" <=> i \in Drafts
      BY DEF IsDraftItem
  <2> HIDE DEF c
  <2> QED BY <1>3, <2>1, <2>2
<1>5. CASE ~IsDraftItem(i) /\ UNCHANGED <<items, pendingItemIDs>>
           /\ calls' = calls \cup {[row |-> i, text |-> 0, at |-> "sent",
                                    n |-> Cardinality(calls), does |-> "delete"]}
  <2> DEFINE c == [row |-> i, text |-> 0, at |-> "sent", n |-> Cardinality(calls),
                   does |-> "delete"]
  <2>1. c.at = "sent" /\ c.row = i /\ c.does = "delete" /\ i \notin Drafts
      BY <1>5 DEF IsDraftItem
  <2> HIDE DEF c
  <2> QED BY <1>3, <1>5, <2>1 DEF c
<1> QED BY <1>2, <1>4, <1>5 DEF LeaveRow, CommitItem

\* The server stores, changes or deletes a row.
LEMMA ServeRowInv ==
  ASSUME RowsInv, NEW c \in calls, ServeCall(c)
  PROVE  RowsInv'
<1> DEFINE done == [row |-> c.row, text |-> c.text, at |-> "done", n |-> c.n,
                    does |-> c.does, has |-> rows']
<1>1. /\ c.at = "sent" /\ calls' = (calls \ {c}) \cup {done}
      /\ UNCHANGED <<items, pendingItemIDs, rowPoll, lost>>
    BY DEF ServeCall, screen
<1>2. /\ done.at = "done" /\ done.does = c.does /\ done.row = c.row /\ done.has = rows'
    OBVIOUS
<1> HIDE DEF done
<1>3. \/ /\ c.does = "create" /\ nextId \in Ids /\ nextId' = nextId + 1
         /\ rows' = With(rows, nextId, c.text) /\ origin' = With(origin, nextId, c.row)
      \/ /\ c.does # "create" /\ DOMAIN rows' \subseteq DOMAIN rows
         /\ UNCHANGED <<nextId, origin>>
  <2>1. ASSUME NEW x, NEW y PROVE DOMAIN [rows EXCEPT ![x] = y] = DOMAIN rows OBVIOUS
  <2>2. \A x : DOMAIN Without(rows, x) \subseteq DOMAIN rows BY DEF Without
  <2> QED BY <2>1, <2>2 DEF ServeCall
<1>4. RowCallOK(c) BY DEF RowsInv, RowsTypeOK
<1>5. /\ DOMAIN rows' \subseteq Ids /\ nextId' \in Nat \ {0}
      /\ DOMAIN origin' \subseteq 1..(nextId' - 1)
  <2>1. CASE c.does = "create"
    <3>1. DOMAIN rows' = DOMAIN rows \cup {nextId} /\ DOMAIN origin' = DOMAIN origin \cup {nextId}
        BY <1>3, <2>1 DEF With
    <3> QED BY <1>3, <2>1, <3>1 DEF RowsInv, RowsTypeOK, Ids
  <2>2. CASE c.does # "create" BY <1>3, <2>2 DEF RowsInv, RowsTypeOK
  <2> QED BY <2>1, <2>2
<1>6. RowsTypeOK'
  <2>1. RowCallOK(done) BY <1>2, <1>4, <1>5 DEF RowCallOK, Ids
  <2>2. \A d \in calls : RowCallOK(d) BY DEF RowsInv, RowsTypeOK
  <2>3. \A d \in calls' : RowCallOK(d) BY <1>1, <2>1, <2>2
  <2> QED BY <1>1, <1>5, <2>3 DEF RowsInv, RowsTypeOK, Ids
<1>7. ASSUME ~lost PROVE OneCreation' /\ CreationsPend'
    BY <1>1, <1>2, <1>7 DEF RowsInv, OneCreation, CreationsPend
<1>8. ASSUME ~lost PROVE NotYetStored' /\ AnswerComes' /\ OnceEach'
  <2>1. CASE c.does = "create"
    <3>1. /\ DOMAIN origin' = DOMAIN origin \cup {nextId} /\ nextId \notin DOMAIN origin
          /\ origin'[nextId] = c.row
          /\ \A i \in DOMAIN origin : origin'[i] = origin[i] /\ origin[i] # c.row
      <4>1. nextId \notin DOMAIN origin BY DEF RowsInv, RowsTypeOK
      <4>2. \A i \in DOMAIN origin : origin[i] # c.row
          BY <1>1, <1>8, <2>1 DEF RowsInv, NotYetStored
      <4> QED BY <1>3, <2>1, <4>1, <4>2 DEF With
    <3>2. \A d \in calls' : d.does = "create" /\ d.at = "sent" => d \in calls /\ d.row # c.row
        BY <1>1, <1>2, <1>8, <2>1 DEF RowsInv, OneCreation
    <3>3. NotYetStored' BY <1>8, <3>1, <3>2 DEF RowsInv, NotYetStored
    <3>4. AnswerComes'
      <4>1. done \in calls' /\ done.does = "create" /\ done.row = c.row BY <1>1, <1>2, <2>1
      <4> SUFFICES ASSUME NEW d \in Drafts \cap DOMAIN items, NEW i \in DOMAIN origin',
                          origin'[i] = d
                   PROVE  \E e \in calls' : e.does = "create" /\ e.row = d
          BY <1>1 DEF AnswerComes
      <4>2. CASE i = nextId BY <3>1, <4>1, <4>2
      <4>3. CASE i # nextId
        <5>1. PICK e \in calls : e.does = "create" /\ e.row = d
            BY <1>8, <3>1, <4>3 DEF RowsInv, AnswerComes
        <5> QED BY <1>1, <4>1, <5>1
      <4> QED BY <4>2, <4>3
    <3>5. OnceEach' BY <1>8, <3>1 DEF RowsInv, OnceEach
    <3> QED BY <3>3, <3>4, <3>5
  <2>2. CASE c.does # "create"
    <3>1. origin' = origin BY <1>3, <2>2
    <3>2. NotYetStored' BY <1>1, <1>2, <1>8, <3>1 DEF RowsInv, NotYetStored
    <3>3. AnswerComes' BY <1>1, <1>8, <2>2, <3>1 DEF RowsInv, AnswerComes
    <3>4. OnceEach' BY <1>8, <3>1 DEF RowsInv, OnceEach
    <3> QED BY <3>2, <3>3, <3>4
  <2> QED BY <2>1, <2>2
<1> QED BY <1>1, <1>6, <1>7, <1>8 DEF RowsInv

\* A call is answered, or fails: what it stored of a row added on screen is on screen
\* now in the row's place, or the answer was lost.
LEMMA CallEndsInv ==
  ASSUME RowsInv, NEW c \in calls, CallOk(c) \/ CallFails(c)
  PROVE  RowsInv'
<1>1. /\ calls' = calls \ {c} /\ pendingItemIDs' = pendingItemIDs \ {c.row}
      /\ UNCHANGED <<rowPoll, rows, origin, nextId>>
    BY DEF CallOk, CallFails, server
<1>2. RowCallOK(c) BY DEF RowsInv, RowsTypeOK
<1>3. \/ c.at = "done" /\ lost' = lost /\ items' = MergeServerRows(c.has, c.row)
      \/ lost' = (lost \/ c.at = "done") /\ items' = items
    BY DEF CallOk, CallFails
<1>4. lost' \in BOOLEAN /\ (~lost' => ~lost) BY <1>3 DEF RowsInv, RowsTypeOK
<1>5. RowsTypeOK' BY <1>1, <1>4 DEF RowsInv, RowsTypeOK, RowCallOK, Ids
<1>6. ASSUME ~lost PROVE OneCreation' /\ NotYetStored' /\ OnceEach'
    BY <1>1, <1>6 DEF RowsInv, OneCreation, NotYetStored, OnceEach
<1>7. ASSUME ~lost PROVE CreationsPend'
  <2>1. \A d \in calls' : d.does = "create" => d.row # c.row
    <3> SUFFICES ASSUME NEW d \in calls', d.does = "create", d.row = c.row PROVE FALSE
        OBVIOUS
    <3>1. d \in calls /\ d # c /\ RowCallOK(d) BY <1>1 DEF RowsInv, RowsTypeOK
    <3>2. c.does = "create" BY <1>2, <3>1 DEF RowCallOK
    <3> QED BY <1>7, <3>1, <3>2 DEF RowsInv, OneCreation
  <2> QED BY <1>1, <1>7, <2>1 DEF RowsInv, CreationsPend
<1>8. ASSUME ~lost' PROVE AnswerComes'
  <2> SUFFICES ASSUME NEW d \in Drafts \cap DOMAIN items', NEW i \in DOMAIN origin,
                      origin[i] = d
               PROVE  \E e \in calls' : e.does = "create" /\ e.row = d
      BY <1>1 DEF AnswerComes
  <2>1. d \in DOMAIN items /\ (d = c.row => ~(c.does = "create" /\ c.at = "done"))
    <3>1. CASE c.at = "done" /\ items' = MergeServerRows(c.has, c.row)
        BY <1>2, <3>1, RowsMerge DEF RowCallOK, RowsInv
    <3>2. CASE lost' = (lost \/ c.at = "done") /\ items' = items BY <1>8, <3>2
    <3> QED BY <1>3, <3>1, <3>2
  <2>2. PICK e \in calls : e.does = "create" /\ e.row = d
      BY <1>4, <1>8, <2>1 DEF RowsInv, AnswerComes
  <2>3. e # c
    <3>1. SUFFICES ASSUME e = c PROVE FALSE OBVIOUS
    <3>2. c.at = "sent" BY <1>2, <2>1, <2>2, <3>1 DEF RowCallOK
    <3> QED BY <1>4, <1>8, <2>2, <3>1, <3>2 DEF RowsInv, NotYetStored
  <2> QED BY <1>1, <2>2, <2>3
<1> QED BY <1>4, <1>5, <1>6, <1>7, <1>8 DEF RowsInv

\* A row added on screen is stored once, however often it is left and whatever the polls
\* and the other editor do, unless the answer to storing it was lost.
THEOREM RowsAreStoredOnce == RowsSpec => []StoredOnce
<1>1. RowsInit => RowsInv
  <2> SUFFICES ASSUME RowsInit PROVE RowsInv OBVIOUS
  <2>1. /\ DOMAIN rows = {1} /\ DOMAIN origin = {1} /\ nextId = 2 /\ items = rows
        /\ calls = {} /\ rowPoll.at = "none" /\ lost = FALSE /\ origin[1] = 1
      BY DEF RowsInit, NoRows
  <2>2. 1 \in Ids /\ 1 \notin Drafts BY RowsAssumption DEF Ids
  <2>3. RowsTypeOK
    <3>1. lost \in BOOLEAN BY <2>1
    <3>2. DOMAIN rows \subseteq Ids /\ nextId \in Nat \ {0} BY <2>1, <2>2
    <3>3. DOMAIN origin \subseteq 1..(nextId - 1) BY <2>1
    <3> QED BY <2>1, <3>1, <3>2, <3>3 DEF RowsTypeOK
  <2>4. OneCreation /\ CreationsPend /\ NotYetStored
      BY <2>1 DEF OneCreation, CreationsPend, NotYetStored
  <2>5. AnswerComes
    <3>1. Drafts \cap DOMAIN items = {} BY <2>1, <2>2
    <3> QED BY <3>1 DEF AnswerComes
  <2>6. OnceEach BY <2>1 DEF OnceEach
  <2> QED BY <2>3, <2>4, <2>5, <2>6 DEF RowsInv
<1>2. RowsInv /\ [RowsNext]_rowVars => RowsInv'
  <2> SUFFICES ASSUME RowsInv, [RowsNext]_rowVars PROVE RowsInv' OBVIOUS
  <2>1. ASSUME NEW d \in Drafts, AddDraftItem(d) PROVE RowsInv'
    <3>1. /\ items' = With(items, d, 0) /\ \A i \in DOMAIN origin : origin[i] # d
          /\ UNCHANGED <<pendingItemIDs, calls, rowPoll, lost, rows, origin, nextId>>
        BY <2>1 DEF AddDraftItem, server
    <3>2. DOMAIN items' = DOMAIN items \cup {d} BY <3>1 DEF With
    <3> QED BY <3>1, <3>2, RowsRestInv DEF RowsInv, RowsTypeOK
  <2>2. ASSUME NEW i \in DOMAIN items, TypeItem(i) PROVE RowsInv'
    <3>1. /\ DOMAIN items' = DOMAIN items
          /\ UNCHANGED <<pendingItemIDs, calls, rowPoll, lost, rows, origin, nextId>>
        BY <2>2 DEF TypeItem, server
    <3> QED BY <3>1, RowsRestInv DEF RowsInv, RowsTypeOK
  <2>3. CASE PollRows
    <3>1. /\ UNCHANGED <<pendingItemIDs, calls, lost, rows, origin, nextId>>
          /\ \/ rowPoll'.at = "asked" /\ items' = items
             \/ rowPoll' = [at |-> "served", has |-> rows] /\ items' = items
             \/ /\ rowPoll.at = "served" /\ rowPoll'.at = "none"
                /\ items' = MergeServerRows(rowPoll.has, 0)
        BY <2>3 DEF PollRows, Poll, server, NoRows
    <3>2. rowPoll'.at = "served" => DOMAIN rowPoll'.has \subseteq Ids
        BY <3>1 DEF RowsInv, RowsTypeOK
    <3>3. Drafts \cap DOMAIN items' \subseteq DOMAIN items
        BY <3>1, RowsMerge DEF RowsInv, RowsTypeOK
    <3> QED BY <3>1, <3>2, <3>3, RowsRestInv DEF RowsInv, RowsTypeOK
  <2>4. ASSUME NEW i \in DOMAIN rows, TheyEdit(i) PROVE RowsInv'
    <3>1. /\ UNCHANGED <<items, pendingItemIDs, origin, nextId, calls, rowPoll, lost>>
          /\ DOMAIN rows' \subseteq DOMAIN rows
        BY <2>4 DEF TheyEdit, screen, Without
    <3> QED BY <3>1, RowsRestInv DEF RowsInv, RowsTypeOK
  <2>5. CASE UNCHANGED rowVars
      BY <2>5, RowsRestInv DEF rowVars, RowsInv, RowsTypeOK
  <2> QED BY <2>1, <2>2, <2>3, <2>4, <2>5, LeaveInv, ServeRowInv, CallEndsInv DEF RowsNext
<1>3. RowsInv => StoredOnce BY DEF RowsInv, OnceEach, StoredOnce
<1> QED BY <1>1, <1>2, <1>3, PTL DEF RowsSpec

-----------------------------------------------------------------------------
(* Chat: no read marker in flight is beyond what an answer has brought, and *)
(* while a draft nobody changed is being sent each of its files is still to *)
(* be attached or in the conversation.                                      *)

Posted == [by : {"me", "other"}, text : Texts \cup {NoText}]
Underway == [step : {"import", "post", "attach"}, text : Texts \cup {NoText},
             files : SUBSET (DraftFiles \cup {Gif}), message : Nat]
InConversation(f) == \E m \in 0..Len(posted) : <<m, f>> \in linked

ReadInv ==
  /\ marker \in Nat /\ fetched \in Nat /\ (ask.at = "served" => ask.has \in Nat)
  /\ \A n \in reads : n \in Nat /\ n <= fetched
  /\ ReadOnlyShown

DraftTypeOK ==
  /\ posted \in Seq(Posted) /\ body \in Texts \cup {NoText}
  /\ attachments \subseteq DraftFiles /\ attached \subseteq DraftFiles
  /\ sending \in {Idle} \cup Underway /\ edited \in BOOLEAN
  /\ sending # Idle => sending.message <= Len(posted)

ToBeAttached ==
  /\ sending.step = "post" => attachments \subseteq sending.files
  /\ sending.step = "import" => attachments = {}
  /\ sending.step = "attach" => \A f \in attachments : f \in sending.files \/ InConversation(f)

DraftInv == DraftTypeOK /\ AttachmentsKept /\ (edited \/ ToBeAttached)

LEMMA MorePosted ==
  ASSUME posted \in Seq(Posted), posted' \in Seq(Posted), Len(posted) <= Len(posted'),
         linked \subseteq linked', NEW f, InConversation(f)
  PROVE  InConversation(f)'
<1>1. PICK m \in 0..Len(posted) : <<m, f>> \in linked BY DEF InConversation
<1>2. Len(posted) \in Nat /\ Len(posted') \in Nat BY LenProperties
<1>3. m \in 0..Len(posted') BY <1>2
<1>4. <<m, f>> \in linked' BY <1>1
<1> QED BY <1>3, <1>4 DEF InConversation

\* A message more, or a file linked: nobody's draft is touched.
LEMMA DraftStaysInv ==
  ASSUME DraftInv, posted' \in Seq(Posted), Len(posted) <= Len(posted'), linked \subseteq linked',
         UNCHANGED <<body, attachments, attached, sending, edited>>
  PROVE  DraftInv'
<1>1. posted \in Seq(Posted) /\ edited \in BOOLEAN BY DEF DraftInv, DraftTypeOK
<1>2. Len(posted) \in Nat /\ Len(posted') \in Nat BY <1>1, LenProperties
<1>3. \A f : InConversation(f) => InConversation(f)' BY <1>1, MorePosted
<1>4. DraftTypeOK'
  <2>1. sending # Idle => sending.message <= Len(posted')
      BY <1>2 DEF DraftInv, DraftTypeOK, Underway, Idle
  <2> QED BY <2>1 DEF DraftInv, DraftTypeOK
<1>5. AttachmentsKept' BY <1>3 DEF DraftInv, AttachmentsKept, InConversation
<1>6. edited' \/ ToBeAttached' BY <1>3 DEF DraftInv, ToBeAttached
<1> QED BY <1>4, <1>5, <1>6 DEF DraftInv

LEMMA MessagePosted ==
  ASSUME posted \in Seq(Posted), NEW m \in Posted, posted' = Append(posted, m)
  PROVE  posted' \in Seq(Posted) /\ Len(posted') = Len(posted) + 1 /\ Len(posted) \in Nat
BY AppendProperties, LenProperties

\* The send in progress goes on or ends.
LEMMA SendStepInv ==
  ASSUME DraftInv, Submit \/ SendFails \/ ImportGif \/ SendDone
  PROVE  DraftInv'
<1> USE DEF Idle
<1>1. /\ UNCHANGED <<posted, linked, attached, edited>>
      /\ UNCHANGED <<body, attachments>> \/ (body' = NoText /\ attachments' = {} /\ SendDone)
    BY DEF Submit, SendFails, ImportGif, SendDone, DraftStays, serverVars
<1>2. posted \in Seq(Posted) /\ edited \in BOOLEAN BY DEF DraftInv, DraftTypeOK
<1>3. Len(posted) \in Nat BY <1>2, LenProperties
<1>4. /\ sending' \in {Idle} \cup Underway
      /\ sending' # Idle => sending'.message <= Len(posted)
  <2>1. CASE Submit
    <3>1. \A s \in {"import", "post", "attach"} :
            Sending(s) \in Underway /\ Sending(s).message = 0
        BY DEF Sending, Underway, DraftInv, DraftTypeOK
    <3>2. \E s \in {"import", "post", "attach"} : sending' = Sending(s)
        BY <2>1 DEF Submit, RoomSend, DirectSend
    <3> QED BY <1>3, <3>1, <3>2
  <2>2. CASE ImportGif
    <3>1. sending' = [sending EXCEPT !.step = "post", !.files = {Gif}] /\ sending # Idle
        BY <2>2 DEF ImportGif
    <3>2. sending \in Underway /\ sending.message <= Len(posted)
        BY <3>1 DEF DraftInv, DraftTypeOK
    <3>3. {Gif} \in SUBSET (DraftFiles \cup {Gif}) OBVIOUS
    <3>4. sending' \in Underway /\ sending'.message = sending.message
        BY <3>1, <3>2, <3>3 DEF Underway
    <3> QED BY <3>2, <3>4
  <2>3. CASE SendFails \/ SendDone BY <2>3 DEF SendFails, SendDone
  <2> QED BY <2>1, <2>2, <2>3
<1>5. DraftTypeOK'
    BY <1>1, <1>4 DEF DraftInv, DraftTypeOK
<1>6. AttachmentsKept'
  <2>1. CASE UNCHANGED <<body, attachments>> BY <1>1, <2>1 DEF DraftInv, AttachmentsKept
  <2>2. CASE attachments' = {} /\ SendDone
    <3>1. ASSUME ~edited, NEW f \in attached PROVE InConversation(f)
      <4>1. f \in attachments => InConversation(f)
          BY <2>2, <3>1 DEF SendDone, DraftInv, ToBeAttached
      <4> QED BY <3>1, <4>1 DEF DraftInv, AttachmentsKept, InConversation
    <3> QED BY <1>1, <3>1 DEF AttachmentsKept, InConversation
  <2> QED BY <1>1, <2>1, <2>2
<1>7. edited' \/ ToBeAttached'
  <2>1. CASE Submit
    <3>1. \/ sending' = Sending("import") /\ attachments = {}
          \/ sending' = Sending("post") \/ sending' = Sending("attach")
        BY <2>1 DEF Submit, RoomSend, DirectSend
    <3>2. sending'.files = attachments /\ (sending'.step = "import" => attachments = {})
        BY <3>1 DEF Sending
    <3>3. attachments' = attachments BY <2>1 DEF Submit
    <3> QED BY <3>2, <3>3 DEF ToBeAttached
  <2>2. CASE ImportGif
    <3>1. edited \/ attachments = {} BY <2>2 DEF ImportGif, DraftInv, ToBeAttached
    <3>2. attachments' = attachments /\ edited' = edited BY <2>2 DEF ImportGif
    <3>3. sending'.step = "post" BY <2>2 DEF ImportGif, DraftInv, DraftTypeOK, Underway
    <3> QED BY <3>1, <3>2, <3>3 DEF ToBeAttached
  <2>3. CASE SendFails \/ SendDone
    <3>1. sending'.step = "idle" BY <2>3 DEF SendFails, SendDone
    <3> QED BY <3>1 DEF ToBeAttached
  <2> QED BY <2>1, <2>2, <2>3
<1> QED BY <1>5, <1>6, <1>7 DEF DraftInv

\* The message is posted; a file arrives, or some of them and then no more.
LEMMA SendArrivesInv ==
  ASSUME DraftInv,
         \/ PostMessage
         \/ \E f \in DraftFiles \cup {Gif} : AttachFile(f)
         \/ AttachFails
  PROVE  DraftInv'
<1> USE DEF Idle
<1>1. UNCHANGED <<body, attachments, attached, edited>>
    BY DEF PostMessage, AttachFile, AttachFails, DraftStays
<1>2. posted \in Seq(Posted) /\ edited \in BOOLEAN BY DEF DraftInv, DraftTypeOK
<1>3. sending \in Underway
    BY DEF DraftInv, DraftTypeOK, PostMessage, AttachFile, AttachFails
<1>4. /\ posted' \in Seq(Posted) /\ Len(posted) <= Len(posted') /\ Len(posted) \in Nat
      /\ Len(posted') \in Nat /\ linked \subseteq linked'
      /\ PostMessage => Len(posted') = Len(posted) + 1
      /\ ~PostMessage => posted' = posted
  <2>1. CASE PostMessage
    <3>1. [by |-> "me", text |-> sending.text] \in Posted BY <1>3 DEF Underway, Posted
    <3> QED BY <1>2, <2>1, <3>1, MessagePosted DEF PostMessage
  <2>2. CASE ~PostMessage
    <3>1. posted' = posted /\ linked \subseteq linked'
        BY <2>2 DEF AttachFile, AttachFails
    <3> QED BY <1>2, <2>2, <3>1, LenProperties
  <2> QED BY <2>1, <2>2
<1>5. \A f : InConversation(f) => InConversation(f)' BY <1>2, <1>4, MorePosted
<1>6. /\ sending' \in {Idle} \cup Underway
      /\ sending' # Idle => sending'.message <= Len(posted')
  <2>1. sending.message <= Len(posted) BY <1>3 DEF DraftInv, DraftTypeOK, Underway
  <2>2. CASE PostMessage
    <3>1. sending' = [sending EXCEPT !.step = "attach", !.message = Len(posted) + 1]
        BY <2>2 DEF PostMessage
    <3>2. Len(posted) + 1 \in Nat BY <1>4
    <3>3. sending' \in Underway /\ sending'.message = Len(posted) + 1
        BY <1>3, <3>1, <3>2 DEF Underway
    <3> QED BY <1>4, <2>2, <3>2, <3>3
  <2>3. ASSUME NEW f, AttachFile(f)
        PROVE  sending' \in Underway /\ sending'.message <= Len(posted')
    <3>1. sending' = [sending EXCEPT !.files = @ \ {f}] /\ posted' = posted
        BY <2>3 DEF AttachFile
    <3> QED BY <1>3, <2>1, <3>1 DEF Underway
  <2>4. CASE AttachFails BY <2>4 DEF AttachFails
  <2> QED BY <2>2, <2>3, <2>4
<1>7. DraftTypeOK' BY <1>1, <1>4, <1>6 DEF DraftInv, DraftTypeOK
<1>8. AttachmentsKept' BY <1>1, <1>5 DEF DraftInv, AttachmentsKept, InConversation
<1>9. edited' \/ ToBeAttached'
  <2> SUFFICES ASSUME ~edited PROVE ToBeAttached' BY <1>1, <1>2
  <2>1. CASE PostMessage
    <3>1. sending'.step = "attach" /\ sending'.files = sending.files
        BY <1>3, <2>1 DEF PostMessage, Underway
    <3>2. attachments \subseteq sending.files BY <2>1 DEF PostMessage, DraftInv, ToBeAttached
    <3> QED BY <1>1, <3>1, <3>2 DEF ToBeAttached
  <2>2. ASSUME NEW f, AttachFile(f) PROVE ToBeAttached'
    <3>1. /\ sending'.step = "attach" /\ sending'.files = sending.files \ {f}
          /\ sending.step = "attach" /\ <<sending.message, f>> \in linked'
        BY <1>3, <2>2 DEF AttachFile, Underway
    <3>2. InConversation(f)'
      <4>1. sending.message \in 0..Len(posted')
          BY <1>3, <1>4 DEF DraftInv, DraftTypeOK, Underway
      <4> QED BY <3>1, <4>1 DEF InConversation
    <3>3. \A g \in attachments : g \in sending.files \/ InConversation(g)
        BY <3>1 DEF DraftInv, ToBeAttached
    <3>4. \A g \in attachments : g \in sending'.files \/ InConversation(g)'
        BY <1>5, <3>1, <3>2, <3>3
    <3> QED BY <1>1, <3>1, <3>4 DEF ToBeAttached
  <2>3. CASE AttachFails
    <3>1. sending'.step = "idle" BY <2>3 DEF AttachFails
    <3> QED BY <3>1 DEF ToBeAttached
  <2> QED BY <2>1, <2>2, <2>3
<1> QED BY <1>7, <1>8, <1>9 DEF DraftInv

\* Text typed, a file put on or off; while a draft is being sent the ghost notes it.
LEMMA ComposeInv ==
  ASSUME DraftInv, Compose
  PROVE  DraftInv'
<1>1. UNCHANGED <<posted, linked, sending>> BY DEF Compose, serverVars
<1>2. edited' \in BOOLEAN /\ (~edited' => ~edited /\ sending = Idle)
    BY DEF Compose, DraftInv, DraftTypeOK
<1>3. /\ body' \in Texts \cup {NoText}
      /\ attachments' \subseteq DraftFiles /\ attached' \subseteq DraftFiles
      /\ \A f \in attached' : f \in attachments' \/ (f \in attached /\ f \notin attachments)
    BY DEF Compose, DraftInv, DraftTypeOK
<1>4. DraftTypeOK' BY <1>1, <1>2, <1>3 DEF DraftInv, DraftTypeOK
<1>5. AttachmentsKept' BY <1>1, <1>2, <1>3 DEF DraftInv, AttachmentsKept
<1>6. edited' \/ ToBeAttached' BY <1>1, <1>2 DEF ToBeAttached, Idle
<1> QED BY <1>4, <1>5, <1>6 DEF DraftInv

\* No message is marked as read that no answer brought, and no file of a draft is lost
\* but by changing the draft while it is being sent.
THEOREM ConversationIsKept == ChatSpec => []ConversationKept
<1>1. ChatInit => ReadInv /\ DraftInv
  <2> SUFFICES ASSUME ChatInit PROVE ReadInv /\ DraftInv OBVIOUS
  <2>1. ReadInv BY DEF ChatInit, ReadInv, ReadOnlyShown, Asked, NoAsk
  <2>2. posted \in Seq(Posted) /\ Len(posted) = 0 BY EmptySeq DEF ChatInit
  <2>3. DraftTypeOK BY <2>2 DEF ChatInit, DraftTypeOK
  <2>4. AttachmentsKept /\ ToBeAttached BY DEF ChatInit, AttachmentsKept, ToBeAttached, Idle
  <2> QED BY <2>1, <2>3, <2>4 DEF DraftInv
<1>2. ReadInv /\ DraftInv /\ [ChatNext]_chatVars => ReadInv'
  <2> SUFFICES ASSUME ReadInv, DraftInv, [ChatNext]_chatVars PROVE ReadInv' OBVIOUS
  <2>1. Len(posted) \in Nat BY LenProperties DEF DraftInv, DraftTypeOK
  <2>2. CASE TakeMessages
    <3>1. /\ ask'.at = "none" /\ UNCHANGED <<kind, marker>> /\ ask.has \in Nat
          /\ fetched' = IF ask.has > fetched THEN ask.has ELSE fetched
          /\ reads' \subseteq reads \cup {ask.has}
        BY <2>2 DEF TakeMessages, NoAsk, serverVars, ReadInv
    <3>2. fetched' \in Nat /\ fetched <= fetched' /\ ask.has <= fetched' BY <3>1 DEF ReadInv
    <3> QED BY <3>1, <3>2 DEF ReadInv, ReadOnlyShown
  <2>3. ASSUME NEW n \in reads, MarkRead(n) PROVE ReadInv'
    <3>1. n \in Nat /\ n <= fetched BY DEF ReadInv
    <3>2. /\ reads' \subseteq reads /\ UNCHANGED <<kind, fetched>>
          /\ (ask'.at = "served" => ask' = ask)
        BY <2>3 DEF MarkRead, refresh, Asked
    <3>3. marker' \in Nat /\ (kind = "room" => marker' <= fetched)
        BY <2>1, <2>3, <3>1 DEF MarkRead, MarkRoom, ReadInv, ReadOnlyShown
    <3> QED BY <3>2, <3>3 DEF ReadInv, ReadOnlyShown
  <2>4. CASE ServeAsk
      BY <2>1, <2>4 DEF ServeAsk, ReadInv, ReadOnlyShown, serverVars
  <2>5. CASE ~(TakeMessages \/ (\E n \in reads : MarkRead(n)) \/ ServeAsk)
    <3>1. UNCHANGED <<kind, marker, fetched, reads>> /\ (ask'.at = "served" => ask' = ask)
        BY <2>5 DEF ChatNext, OthersPost, useRoomLiveSync, PollMessages, Compose, Submit, SendFails,
                    ImportGif, PostMessage, AttachFails, SendDone, AttachFile, refresh, Asked,
                    chatVars, serverVars, queryVars
    <3> QED BY <3>1 DEF ReadInv, ReadOnlyShown
  <2> QED BY <2>2, <2>3, <2>4, <2>5
<1>3. DraftInv /\ [ChatNext]_chatVars => DraftInv'
  <2> SUFFICES ASSUME DraftInv, [ChatNext]_chatVars PROVE DraftInv' OBVIOUS
  <2>1. posted \in Seq(Posted) /\ Len(posted) \in Nat BY LenProperties DEF DraftInv, DraftTypeOK
  <2>2. ASSUME NEW withFile \in BOOLEAN, OthersPost(withFile) PROVE DraftInv'
    <3>1. /\ posted' = Append(posted, [by |-> "other", text |-> NoText])
          /\ linked \subseteq linked' /\ UNCHANGED <<body, attachments, attached, sending, edited>>
        BY <2>2 DEF OthersPost, draftVars
    <3>2. posted' \in Seq(Posted) /\ Len(posted) <= Len(posted')
      <4>1. [by |-> "other", text |-> NoText] \in Posted BY DEF Posted
      <4> QED BY <2>1, <3>1, <4>1, MessagePosted
    <3> QED BY <3>1, <3>2, DraftStaysInv
  <2>3. CASE \/ useRoomLiveSync \/ PollMessages \/ ServeAsk \/ TakeMessages
             \/ (\E n \in reads : MarkRead(n)) \/ UNCHANGED chatVars
    <3>1. UNCHANGED <<posted, linked, body, attachments, attached, sending, edited>>
        BY <2>3 DEF useRoomLiveSync, PollMessages, ServeAsk, TakeMessages, MarkRead, chatVars,
                    serverVars, draftVars
    <3> QED BY <2>1, <3>1, DraftStaysInv
  <2>4. CASE Submit \/ SendFails \/ ImportGif \/ SendDone BY <2>4, SendStepInv
  <2>5. CASE PostMessage \/ (\E f \in DraftFiles \cup {Gif} : AttachFile(f)) \/ AttachFails
      BY <2>5, SendArrivesInv
  <2>6. CASE Compose BY <2>6, ComposeInv
  <2> QED BY <2>2, <2>3, <2>4, <2>5, <2>6 DEF ChatNext
<1>4. ReadInv /\ DraftInv => ConversationKept BY DEF ReadInv, DraftInv, ConversationKept
<1> QED BY <1>1, <1>2, <1>3, <1>4, PTL DEF ChatSpec

-----------------------------------------------------------------------------
(* Tunnel: a connection somebody holds is not free, the open one the peer   *)
(* watches is the one in its table, and while no Connect crossed another at *)
(* most one connection is served, by a client nobody is dialing for.        *)

Calls == {NoCall, Dialing, [at |-> "up"]} \cup [at : {"dialed"}, conn : Conns]
Dialed(c) == \E w \in Callers : call[w].at = "dialed" /\ call[w].conn = c
Held == watched \cup serving \cup arriving \cup {c \in Conns : Dialed(c)}

PeerInv ==
  /\ line \in [Conns -> {"free", "open", "shut"}] /\ sessions \in Conns \cup {0}
  /\ Held \subseteq Conns
  /\ \A c \in Held : line[c] # "free"
  /\ OpenIsRegistered

OneAtATime ==
  /\ connected <=> serving # {}
  /\ \A c, d \in serving : c = d
  /\ call["user"] = NoCall \/ call["loop"] = NoCall
  /\ \A w \in Callers : call[w].at \in {"dialing", "dialed"} => ~connected

ClientInv ==
  /\ connected \in BOOLEAN /\ crossed \in BOOLEAN /\ call \in [Callers -> Calls]
  /\ crossed \/ OneAtATime

\* A line is shut where it was open.
LEMMA LinesShut ==
  ASSUME line \in [Conns -> {"free", "open", "shut"}], NEW cs, line' = Shut(cs)
  PROVE  /\ line' \in [Conns -> {"free", "open", "shut"}]
         /\ \A c \in Conns : /\ line'[c] = "free" => line[c] = "free"
                             /\ line'[c] = "open" => line[c] = "open" /\ c \notin cs
BY DEF Shut

\* Nobody takes hold of a connection, and none is free or open that was not.
LEMMA LetGoInv ==
  ASSUME PeerInv, line' \in [Conns -> {"free", "open", "shut"}],
         \A c \in Conns : /\ line'[c] = "free" => line[c] = "free"
                          /\ line'[c] = "open" => line[c] = "open",
         Held' \subseteq Held, watched' \subseteq watched,
         UNCHANGED sessions
  PROVE  PeerInv'
<1>1. OpenIsRegistered'
  <2>1. \A c \in watched : c \in Conns BY DEF PeerInv, Held
  <2> QED BY <2>1 DEF PeerInv, OpenIsRegistered
<1>2. \A c \in Held' : line'[c] # "free" /\ c \in Conns BY DEF PeerInv
<1> QED BY <1>1, <1>2 DEF PeerInv

\* What a caller's next state is, and that the other's stays.
LEMMA CallGoesOn ==
  ASSUME call \in [Callers -> Calls], NEW w \in Callers, NEW next \in Calls,
         call' = [call EXCEPT ![w] = next]
  PROVE  /\ call' \in [Callers -> Calls] /\ call'[w] = next
         /\ \A v \in Callers : v # w => call'[v] = call[v]
         /\ next.at # "dialed" => \A c : Dialed(c)' => Dialed(c)
BY DEF Dialed

\* A Connect begins: beside no other, and at a client that serves nothing, or it crosses.
LEMMA ConnectBegins ==
  ASSUME ClientInv, tunnelConnect \/ StartTunnelAutoReconnect
  PROVE  ClientInv' /\ \A c : Dialed(c)' => Dialed(c)
<1>1. PICK w \in Callers : call' = [call EXCEPT ![w] = Dialing]
    BY DEF tunnelConnect, StartTunnelAutoReconnect, Callers
<1>2. UNCHANGED <<connected, serving>>
    BY DEF tunnelConnect, StartTunnelAutoReconnect, clientVars
<1>3. Dialing \in Calls /\ Dialing.at = "dialing" BY DEF Calls, Dialing
<1>4. /\ call' \in [Callers -> Calls] /\ call'[w] = Dialing
      /\ \A v \in Callers : v # w => call'[v] = call[v]
      /\ \A c : Dialed(c)' => Dialed(c)
    BY <1>1, <1>3, CallGoesOn DEF ClientInv
<1>5. crossed' \in BOOLEAN /\ (~crossed' => ~crossed /\ ~connected)
    BY DEF tunnelConnect, StartTunnelAutoReconnect, Wanted, ClientInv
<1>6. ~crossed' => \A v \in Callers : v # w => call[v] = NoCall
  <2>1. CASE tunnelConnect
    <3>1. w = "user" BY <1>1, <1>3, <2>1 DEF tunnelConnect, ClientInv, Callers, NoCall, Dialing
    <3> QED BY <2>1, <3>1 DEF tunnelConnect, Callers
  <2>2. CASE StartTunnelAutoReconnect
    <3>1. w = "loop"
        BY <1>1, <1>3, <2>2 DEF StartTunnelAutoReconnect, ClientInv, Callers, NoCall, Dialing
    <3> QED BY <2>2, <3>1 DEF StartTunnelAutoReconnect, Callers
  <2> QED BY <2>1, <2>2
<1>7. ASSUME ~crossed' PROVE OneAtATime'
  <2>1. OneAtATime /\ ~connected BY <1>5, <1>7 DEF ClientInv
  <2>2. (connected <=> serving # {})' /\ \A c, d \in serving' : c = d
      BY <1>2, <2>1 DEF OneAtATime
  <2>3. call'["user"] = NoCall \/ call'["loop"] = NoCall
      BY <1>4, <1>6, <1>7 DEF Callers
  <2> QED BY <1>2, <2>1, <2>2, <2>3 DEF OneAtATime
<1> QED BY <1>2, <1>4, <1>5, <1>7 DEF ClientInv

\* The client's own step of a Connect, or the end of a serve loop.
LEMMA ClientSteps ==
  ASSUME ClientInv, PeerInv,
         \/ BuddyTunnelConnect
         \/ \E w \in Callers : Dial(w) \/ Connect(w)
         \/ \E c \in Conns : serve(c)
  PROVE  ClientInv'
<1>1. crossed' = crossed BY DEF BuddyTunnelConnect, Dial, Connect, serve
<1>2. CASE BuddyTunnelConnect
  <2>1. /\ call' = [call EXCEPT !["user"] = NoCall] /\ UNCHANGED <<connected, serving>>
      BY <1>2 DEF BuddyTunnelConnect, clientVars
  <2>2. NoCall \in Calls /\ NoCall.at = "none" /\ "user" \in Callers BY DEF Calls, NoCall, Callers
  <2>3. /\ call' \in [Callers -> Calls] /\ call'["user"] = NoCall
        /\ \A v \in Callers : v # "user" => call'[v] = call[v]
      BY <2>1, <2>2, CallGoesOn DEF ClientInv
  <2>4. OneAtATime => OneAtATime' BY <2>1, <2>2, <2>3 DEF OneAtATime
  <2> QED BY <1>1, <2>1, <2>3, <2>4 DEF ClientInv
<1>3. ASSUME NEW w \in Callers, Dial(w) PROVE ClientInv'
  <2>1. /\ UNCHANGED <<connected, serving>> /\ call[w] = Dialing
        /\ \E next \in Calls : call' = [call EXCEPT ![w] = next]
                               /\ (next = NoCall \/ next.at = "dialed")
      BY <1>3 DEF Dial, clientVars, Calls
  <2>2. PICK next \in Calls : /\ call' = [call EXCEPT ![w] = next]
                              /\ (next = NoCall \/ next.at = "dialed")
      BY <2>1
  <2>3. /\ call' \in [Callers -> Calls] /\ call'[w] = next
        /\ \A v \in Callers : v # w => call'[v] = call[v]
      BY <2>2, CallGoesOn DEF ClientInv
  <2>4. ASSUME OneAtATime PROVE OneAtATime'
    <3>1. ~connected BY <2>1, <2>4 DEF OneAtATime, Dialing
    <3>2. \A v \in Callers : v # w => call[v] = NoCall
        BY <2>1, <2>4 DEF OneAtATime, Callers, Dialing, NoCall
    <3>3. call'["user"] = NoCall \/ call'["loop"] = NoCall BY <2>3, <3>2 DEF Callers
    <3> QED BY <2>1, <2>4, <3>1, <3>3 DEF OneAtATime
  <2> QED BY <1>1, <2>1, <2>3, <2>4 DEF ClientInv
<1>4. ASSUME NEW w \in Callers, Connect(w) PROVE ClientInv'
  <2> DEFINE next == IF w = "user" THEN [at |-> "up"] ELSE NoCall
             taken == call[w].conn
  <2>1. /\ call[w].at = "dialed" /\ connected' = TRUE /\ serving' = serving \cup {taken}
        /\ call' = [call EXCEPT ![w] = next]
      BY <1>4 DEF Connect
  <2>2. next \in Calls /\ next.at \notin {"dialing", "dialed"} BY DEF Calls, NoCall
  <2> HIDE DEF next, taken
  <2>3. /\ call' \in [Callers -> Calls] /\ call'[w] = next
        /\ \A v \in Callers : v # w => call'[v] = call[v]
      BY <2>1, <2>2, CallGoesOn DEF ClientInv
  <2>4. ASSUME OneAtATime PROVE OneAtATime'
    <3>1. ~connected /\ serving = {} BY <2>1, <2>4 DEF OneAtATime
    <3>2. \A v \in Callers : v # w => call[v] = NoCall
        BY <2>1, <2>4 DEF OneAtATime, Callers, NoCall
    <3>3. call'["user"] = NoCall \/ call'["loop"] = NoCall BY <2>3, <3>2 DEF Callers
    <3>4. \A v \in Callers : call'[v].at \notin {"dialing", "dialed"}
        BY <2>2, <2>3, <3>2 DEF NoCall
    <3>5. serving' = {taken} BY <2>1, <3>1
    <3> QED BY <2>1, <3>3, <3>4, <3>5 DEF OneAtATime
  <2> QED BY <1>1, <2>1, <2>3, <2>4 DEF ClientInv
<1>5. ASSUME NEW c \in Conns, serve(c) PROVE ClientInv'
  <2>1. /\ c \in serving /\ serving' = serving \ {c} /\ connected' = FALSE /\ call' = call
      BY <1>5 DEF serve, ClearFields
  <2>2. ASSUME OneAtATime PROVE OneAtATime'
    <3>1. serving' = {} BY <2>1, <2>2 DEF OneAtATime
    <3> QED BY <2>1, <2>2, <3>1 DEF OneAtATime
  <2> QED BY <1>1, <2>1, <2>2 DEF ClientInv
<1> QED BY <1>2, <1>3, <1>4, <1>5

\* The line is dialed, taken over by the client or the peer, lost, or forgotten.
LEMMA PeerSteps ==
  ASSUME ClientInv, PeerInv,
         \/ \E w \in Callers : Dial(w) \/ Connect(w)
         \/ \E c \in Conns : serve(c) \/ Register(c) \/ Watch(c) \/ Drop(c) \/ Forgotten(c)
         \/ Disconnect
  PROVE  PeerInv'
<1>1. /\ line \in [Conns -> {"free", "open", "shut"}] /\ watched \subseteq Conns
      /\ Held \subseteq Conns /\ call \in [Callers -> Calls]
    BY DEF PeerInv, Held, ClientInv
<1>2. ASSUME NEW w \in Callers, Dial(w) PROVE PeerInv'
  <2>1. CASE UNCHANGED <<line, arriving>> /\ call' = [call EXCEPT ![w] = NoCall]
    <3>1. NoCall \in Calls /\ NoCall.at = "none" BY DEF Calls, NoCall
    <3>2. \A c : Dialed(c)' => Dialed(c) BY <1>1, <2>1, <3>1, CallGoesOn
    <3>3. UNCHANGED <<serving, watched, sessions>> BY <1>2 DEF Dial, clientVars
    <3>4. Held' \subseteq Held BY <2>1, <3>2, <3>3 DEF Held
    <3> QED BY <1>1, <2>1, <3>3, <3>4, LetGoInv
  <2>2. ASSUME NEW c \in Conns, line[c] = "free", line' = [line EXCEPT ![c] = "open"],
               arriving' = arriving \cup {c},
               call' = [call EXCEPT ![w] = [at |-> "dialed", conn |-> c]]
        PROVE  PeerInv'
    <3>1. UNCHANGED <<serving, watched, sessions>> BY <1>2 DEF Dial, clientVars
    <3>2. \A d : Dialed(d)' => Dialed(d) \/ d = c BY <1>1, <2>2 DEF Dialed
    <3>3. Held' \subseteq Held \cup {c} BY <2>2, <3>1, <3>2 DEF Held
    <3>4. line' \in [Conns -> {"free", "open", "shut"}] BY <1>1, <2>2
    <3>5. \A d \in Held' : line'[d] # "free" BY <1>1, <2>2, <3>3 DEF PeerInv
    <3>6. OpenIsRegistered'
      <4>1. c \notin watched BY <2>2 DEF PeerInv, Held
      <4> QED BY <1>1, <2>2, <3>1, <4>1 DEF PeerInv, OpenIsRegistered
    <3> QED BY <1>1, <2>2, <3>1, <3>3, <3>4, <3>5, <3>6 DEF PeerInv
  <2> QED BY <1>2, <2>1, <2>2 DEF Dial
<1>3. ASSUME NEW w \in Callers, Connect(w) PROVE PeerInv'
  <2> DEFINE next == IF w = "user" THEN [at |-> "up"] ELSE NoCall
  <2>1. /\ call[w].at = "dialed" /\ line' = Shut({cancel})
        /\ serving' = serving \cup {call[w].conn} /\ call' = [call EXCEPT ![w] = next]
        /\ UNCHANGED <<arriving, sessions, watched>>
      BY <1>3 DEF Connect, peerVars
  <2>2. next \in Calls /\ next.at # "dialed" BY DEF Calls, NoCall
  <2> HIDE DEF next
  <2>3. \A c : Dialed(c)' => Dialed(c) BY <1>1, <2>1, <2>2, CallGoesOn
  <2>4. call[w].conn \in Conns
      BY <1>1, <2>1 DEF Calls, NoCall, Dialing
  <2>5. Held' \subseteq Held BY <2>1, <2>3, <2>4 DEF Held, Dialed
  <2> QED BY <1>1, <2>1, <2>5, LinesShut, LetGoInv
<1>4. ASSUME NEW c \in Conns, serve(c) \/ Watch(c) PROVE PeerInv'
  <2>1. UNCHANGED <<line, call, arriving>> /\ serving' \subseteq serving /\ watched' \subseteq watched
      BY <1>4 DEF serve, Watch, peerVars, clientVars
  <2>2. Held' \subseteq Held BY <2>1 DEF Held, Dialed
  <2>3. CASE serve(c)
    <3>1. UNCHANGED sessions BY <2>3 DEF serve, peerVars
    <3> QED BY <1>1, <2>1, <2>2, <3>1, LetGoInv
  <2>4. CASE Watch(c)
    <3>1. line[c] = "shut" /\ sessions' = IF sessions = c THEN 0 ELSE sessions
        BY <2>4 DEF Watch, DropOwn
    <3>2. OpenIsRegistered' BY <2>1, <3>1 DEF PeerInv, OpenIsRegistered
    <3>3. \A d \in Held' : line'[d] # "free" BY <2>1, <2>2 DEF PeerInv
    <3> QED BY <2>1, <2>2, <3>1, <3>2, <3>3 DEF PeerInv
  <2> QED BY <1>4, <2>3, <2>4
<1>5. ASSUME NEW c \in Conns, Register(c) PROVE PeerInv'
  <2>1. /\ c \in arriving /\ arriving' = arriving \ {c} /\ watched' = watched \cup {c}
        /\ line' = Shut({sessions}) /\ sessions' = c /\ UNCHANGED <<call, serving>>
      BY <1>5 DEF Register, clientVars
  <2>2. Held' \subseteq Held BY <2>1 DEF Held, Dialed
  <2>3. /\ line' \in [Conns -> {"free", "open", "shut"}]
        /\ \A d \in Conns : /\ line'[d] = "free" => line[d] = "free"
                            /\ line'[d] = "open" => line[d] = "open" /\ d \notin {sessions}
      BY <1>1, <2>1, LinesShut
  <2>4. OpenIsRegistered' BY <1>1, <2>1, <2>3 DEF PeerInv, OpenIsRegistered
  <2>5. \A d \in Held' : line'[d] # "free" BY <1>1, <2>2, <2>3 DEF PeerInv
  <2> QED BY <1>1, <2>1, <2>2, <2>3, <2>4, <2>5 DEF PeerInv
<1>6. CASE Disconnect \/ \E c \in Conns : Drop(c)
  <2>1. /\ \E cs : line' = Shut(cs)
        /\ UNCHANGED <<serving, arriving, watched, sessions, call>>
      BY <1>6 DEF Disconnect, Drop, clientVars, peerVars
  <2>2. Held' \subseteq Held BY <2>1 DEF Held, Dialed
  <2> QED BY <1>1, <2>1, <2>2, LinesShut, LetGoInv
<1>7. ASSUME NEW c \in Conns, Forgotten(c) PROVE PeerInv'
  <2>1. /\ c \notin watched \cup serving \cup arriving /\ line' = [line EXCEPT ![c] = "free"]
        /\ \A w \in Callers : call[w] # [at |-> "dialed", conn |-> c]
        /\ UNCHANGED <<serving, arriving, watched, sessions, call>>
      BY <1>7 DEF Forgotten, clientVars, peerVars
  <2>2. ~Dialed(c)
    <3>1. \A w \in Callers : call[w].at = "dialed" /\ call[w].conn = c =>
            call[w] = [at |-> "dialed", conn |-> c]
        BY <1>1 DEF Calls, NoCall, Dialing
    <3> QED BY <2>1, <3>1 DEF Dialed
  <2>3. c \notin Held BY <2>1, <2>2 DEF Held
  <2>4. Held' = Held BY <2>1 DEF Held, Dialed
  <2>5. line' \in [Conns -> {"free", "open", "shut"}] BY <1>1, <2>1
  <2>6. \A d \in Held' : line'[d] # "free" BY <1>1, <2>1, <2>3, <2>4 DEF PeerInv
  <2>7. OpenIsRegistered' BY <1>1, <2>1 DEF PeerInv, OpenIsRegistered
  <2> QED BY <1>1, <2>1, <2>4, <2>5, <2>6, <2>7 DEF PeerInv
<1> QED BY <1>2, <1>3, <1>4, <1>5, <1>6, <1>7

\* The open connection the peer watches is the one in its table, and the client reports
\* a tunnel exactly while it serves one, as long as no Connect crossed another.
THEOREM EndsAgree == TunnelSpec => []TunnelAgrees
<1>1. TunnelInit => PeerInv /\ ClientInv
  <2> SUFFICES ASSUME TunnelInit PROVE PeerInv /\ ClientInv OBVIOUS
  <2>1. \A w \in Callers : call[w] = NoCall BY DEF TunnelInit
  <2>2. Held = {} BY <2>1 DEF TunnelInit, Held, Dialed, NoCall
  <2>3. PeerInv BY <2>2 DEF TunnelInit, PeerInv, OpenIsRegistered
  <2>4. call \in [Callers -> Calls] BY DEF TunnelInit, Calls
  <2>5. connected = FALSE /\ serving = {} /\ crossed = FALSE BY DEF TunnelInit
  <2>6. OneAtATime BY <2>1, <2>5 DEF OneAtATime, Callers, NoCall
  <2> QED BY <2>3, <2>4, <2>5, <2>6 DEF ClientInv
<1>2. PeerInv /\ ClientInv /\ [TunnelNext]_tunnelVars => ClientInv' /\ PeerInv'
  <2> SUFFICES ASSUME PeerInv, ClientInv, [TunnelNext]_tunnelVars PROVE ClientInv' /\ PeerInv'
      OBVIOUS
  <2>1. CASE tunnelConnect \/ StartTunnelAutoReconnect
    <3>1. UNCHANGED <<line, serving, arriving, sessions, watched>>
        BY <2>1 DEF tunnelConnect, StartTunnelAutoReconnect, clientVars, peerVars
    <3>2. Held' \subseteq Held BY <2>1, <3>1, ConnectBegins DEF Held
    <3>3. line \in [Conns -> {"free", "open", "shut"}] BY DEF PeerInv
    <3>4. PeerInv' BY <3>1, <3>2, <3>3, LetGoInv
    <3> QED BY <2>1, <3>4, ConnectBegins
  <2>2. CASE BuddyTunnelConnect
    <3>1. /\ call' = [call EXCEPT !["user"] = NoCall]
          /\ UNCHANGED <<line, serving, arriving, sessions, watched>>
        BY <2>2 DEF BuddyTunnelConnect, clientVars, peerVars
    <3>2. \A c : Dialed(c)' => Dialed(c)
      <4>1. NoCall \in Calls /\ NoCall.at = "none" /\ "user" \in Callers
          BY DEF Calls, NoCall, Callers
      <4> QED BY <3>1, <4>1, CallGoesOn DEF ClientInv
    <3>3. Held' \subseteq Held BY <3>1, <3>2 DEF Held
    <3>4. line \in [Conns -> {"free", "open", "shut"}] BY DEF PeerInv
    <3>5. PeerInv' BY <3>1, <3>3, <3>4, LetGoInv
    <3> QED BY <2>2, <3>5, ClientSteps
  <2>3. CASE \/ \E w \in Callers : Dial(w) \/ Connect(w)
             \/ \E c \in Conns : serve(c)
      BY <2>3, ClientSteps, PeerSteps
  <2>4. CASE \/ Disconnect
             \/ \E c \in Conns : Register(c) \/ Watch(c) \/ Drop(c) \/ Forgotten(c)
    <3>1. UNCHANGED <<connected, crossed, call, serving>>
        BY <2>4 DEF Disconnect, Register, Watch, Drop, Forgotten, clientVars
    <3>2. ClientInv' BY <3>1 DEF ClientInv, OneAtATime
    <3> QED BY <2>4, <3>2, PeerSteps
  <2>5. CASE \/ BuddyTunnelStatus \/ tunnelDisconnect \/ BuddyTunnelDisconnect
             \/ UNCHANGED tunnelVars
    <3>1. UNCHANGED <<line, connected, crossed, call, serving, arriving, sessions, watched>>
        BY <2>5 DEF BuddyTunnelStatus, tunnelDisconnect, BuddyTunnelDisconnect, tunnelVars,
                    clientVars, peerVars
    <3>2. ClientInv' BY <3>1 DEF ClientInv, OneAtATime
    <3>3. PeerInv' BY <3>1 DEF PeerInv, Held, Dialed, OpenIsRegistered
    <3> QED BY <3>2, <3>3
  <2> QED BY <2>1, <2>2, <2>3, <2>4, <2>5 DEF TunnelNext
<1>3. PeerInv /\ ClientInv => TunnelAgrees
    BY DEF PeerInv, ClientInv, OneAtATime, TunnelAgrees, ReportsUnlessCrossed
<1> QED BY <1>1, <1>2, <1>3, PTL DEF TunnelSpec

-----------------------------------------------------------------------------
(* UploadQueue: a file a loop has yet to send is on no map and no wire, but *)
(* for the post its loop awaits, and a file with a tus upload is not posted. *)

Entries == [status : Status, bytes : BOOLEAN]
Elements(s) == {s[i] : i \in DOMAIN s}
Left(b) == IF step[b] = "unborn" THEN Elements(Requests[b]) ELSE Elements(todo[b])

LoopsInv ==
  /\ todo \in [Batches -> Seq(Files)] /\ step \in [Batches -> {"unborn", "idle", "creating", "posting"}]
  /\ \A b \in Batches :
       /\ Left(b) \subseteq Elements(Requests[b])
       /\ \A i, j \in DOMAIN todo[b] : todo[b][i] = todo[b][j] => i = j
       /\ step[b] \in {"creating", "posting"} => todo[b] # <<>>

WaysInv ==
  /\ tusUploads \subseteq Files
  /\ \A b \in Batches : \A f \in Left(b) :
       /\ f \notin tusUploads /\ <<"tus", f>> \notin wire
       /\ <<"multipart", f>> \in wire => step[b] = "posting" /\ Head(todo[b]) = f
  /\ \A f \in Files : <<"tus", f>> \in wire \/ f \in tusUploads => <<"multipart", f>> \notin wire

ShownInv == uploads \in [Files -> Entries] /\ PausedIsResumable

QueueInv == LoopsInv /\ WaysInv /\ ShownInv

\* What is left of a list whose members differ once its first is taken.
LEMMA FirstTaken ==
  ASSUME NEW s \in Seq(Files), s # <<>>, \A i, j \in DOMAIN s : s[i] = s[j] => i = j
  PROVE  /\ Head(s) \in Elements(s) /\ Tail(s) \in Seq(Files)
         /\ Elements(Tail(s)) = Elements(s) \ {Head(s)}
         /\ \A i, j \in DOMAIN Tail(s) : Tail(s)[i] = Tail(s)[j] => i = j
<1>1. /\ Len(s) \in Nat /\ DOMAIN s = 1..Len(s) /\ Tail(s) \in Seq(Files)
      /\ Len(Tail(s)) = Len(s) - 1 /\ \A i \in 1..Len(Tail(s)) : Tail(s)[i] = s[i + 1]
    BY HeadTailProperties, LenProperties
<1>2. Len(s) > 0 BY EmptySeq, <1>1
<1>3. DOMAIN Tail(s) = 1..(Len(s) - 1) BY <1>1, LenProperties
<1>4. Head(s) = s[1] BY HeadTailProperties
<1>5. Head(s) \in Elements(s) BY <1>1, <1>2, <1>4 DEF Elements
<1>6. \A i, j \in DOMAIN Tail(s) : Tail(s)[i] = Tail(s)[j] => i = j
  <2> SUFFICES ASSUME NEW i \in 1..(Len(s) - 1), NEW j \in 1..(Len(s) - 1),
                      Tail(s)[i] = Tail(s)[j]
               PROVE  i = j
      BY <1>3
  <2>1. s[i + 1] = s[j + 1] /\ i + 1 \in 1..Len(s) /\ j + 1 \in 1..Len(s) BY <1>1
  <2>2. i + 1 = j + 1 BY <1>1, <2>1
  <2> QED BY <2>2
<1>7. Elements(Tail(s)) \subseteq Elements(s) \ {Head(s)}
  <2> SUFFICES ASSUME NEW i \in 1..(Len(s) - 1)
               PROVE  Tail(s)[i] \in Elements(s) /\ Tail(s)[i] # Head(s)
      BY <1>3 DEF Elements
  <2>1. Tail(s)[i] = s[i + 1] /\ i + 1 \in 1..Len(s) /\ i + 1 # 1 BY <1>1
  <2> QED BY <1>1, <1>2, <1>4, <2>1 DEF Elements
<1>8. Elements(s) \ {Head(s)} \subseteq Elements(Tail(s))
  <2> SUFFICES ASSUME NEW i \in 1..Len(s), s[i] # Head(s) PROVE s[i] \in Elements(Tail(s))
      BY <1>1 DEF Elements
  <2>1. i - 1 \in 1..(Len(s) - 1) /\ (i - 1) + 1 = i BY <1>1, <1>4
  <2>2. s[i] = Tail(s)[i - 1] BY <1>1, <2>1
  <2> QED BY <1>3, <2>1, <2>2 DEF Elements
<1> QED BY <1>1, <1>5, <1>6, <1>7, <1>8

\* No two loops have a file in common.
LEMMA LoopsApart ==
  ASSUME LoopsInv, NEW b \in Batches, NEW c \in Batches, b # c
  PROVE  Left(b) \cap Left(c) = {}
BY QueueAssumption DEF LoopsInv, Elements

\* An entry marked with anything but "paused" is not shown as paused.
LEMMA Marks ==
  ASSUME uploads \in [Files -> Entries], NEW F, NEW status \in Status, update(F, status)
  PROVE  /\ uploads' \in [Files -> Entries]
         /\ \A f \in Files : uploads'[f].status = "paused" =>
              IF f \in F THEN status = "paused" ELSE uploads[f].status = "paused"
BY DEF update, SetUploads, Marked, Entries

\* The loops stand still and nothing is started.
LEMMA QuietWays ==
  ASSUME LoopsInv, WaysInv, UNCHANGED <<todo, step>>,
         wire' \subseteq wire, tusUploads' \subseteq tusUploads
  PROVE  LoopsInv' /\ WaysInv'
<1>1. \A b : Left(b)' = Left(b) BY DEF Left
<1> QED BY <1>1 DEF LoopsInv, WaysInv

\* A loop goes on with the file it is at, its post under way or the answer awaited.
LEMMA LoopAsks ==
  ASSUME LoopsInv, WaysInv, NEW b \in Batches, todo[b] # <<>>, step[b] # "unborn",
         NEW next \in {"creating", "posting"}, step' = [step EXCEPT ![b] = next],
         UNCHANGED <<todo, tusUploads>>,
         \/ next = "posting" /\ wire' = wire \cup {<<"multipart", Head(todo[b])>>}
         \/ wire' = wire /\ step[b] # "posting"
  PROVE  LoopsInv' /\ WaysInv'
<1>1. \A c \in Batches : Left(c)' = Left(c) BY DEF Left, LoopsInv
<1>2. LoopsInv' BY <1>1 DEF LoopsInv
<1>3. /\ todo[b] \in Seq(Files) /\ \A i, j \in DOMAIN todo[b] : todo[b][i] = todo[b][j] => i = j
      /\ Left(b) = Elements(todo[b])
    BY DEF LoopsInv, Left
<1>4. Head(todo[b]) \in Left(b) BY <1>3, FirstTaken
<1>5. \A c \in Batches \ {b} : Head(todo[b]) \notin Left(c) BY <1>4, LoopsApart
<1>6. \A c \in Batches : step'[c] = IF c = b THEN next ELSE step[c] BY DEF LoopsInv
<1>7. ASSUME NEW c \in Batches, NEW f \in Left(c)
      PROVE  /\ f \notin tusUploads' /\ <<"tus", f>> \notin wire'
             /\ <<"multipart", f>> \in wire' => step'[c] = "posting" /\ Head(todo'[c]) = f
  <2>1. /\ f \notin tusUploads /\ <<"tus", f>> \notin wire
        /\ <<"multipart", f>> \in wire => step[c] = "posting" /\ Head(todo[c]) = f
      BY DEF WaysInv
  <2>2. f \notin tusUploads' /\ <<"tus", f>> \notin wire' BY <2>1
  <2>3. CASE c # b BY <1>5, <1>6, <2>1, <2>2, <2>3
  <2>4. CASE c = b BY <1>6, <2>1, <2>2, <2>4
  <2> QED BY <2>3, <2>4
<1>8. \A f \in Files : <<"tus", f>> \in wire' \/ f \in tusUploads' => <<"multipart", f>> \notin wire'
    BY <1>4 DEF WaysInv
<1> QED BY <1>1, <1>2, <1>7, <1>8 DEF WaysInv

\* A loop's tus upload is created: it is on the map and on the wire, and off the list.
LEMMA TusCreatedInv ==
  ASSUME LoopsInv, WaysInv, NEW b \in Batches, TusCreated(b)
  PROVE  LoopsInv' /\ WaysInv'
<1> DEFINE f == Head(todo[b])
<1>1. /\ step[b] = "creating" /\ tusUploads' = tusUploads \cup {f}
      /\ wire' = wire \cup {<<"tus", f>>}
      /\ todo' = [todo EXCEPT ![b] = Tail(@)] /\ step' = [step EXCEPT ![b] = "idle"]
    BY DEF TusCreated
<1>2. /\ todo[b] \in Seq(Files) /\ \A i, j \in DOMAIN todo[b] : todo[b][i] = todo[b][j] => i = j
      /\ Left(b) = Elements(todo[b]) /\ todo[b] # <<>>
    BY <1>1 DEF LoopsInv, Left
<1>3. /\ f \in Left(b) /\ Tail(todo[b]) \in Seq(Files)
      /\ Elements(Tail(todo[b])) = Left(b) \ {f}
      /\ \A i, j \in DOMAIN Tail(todo[b]) : Tail(todo[b])[i] = Tail(todo[b])[j] => i = j
    BY <1>2, FirstTaken
<1>4. f \in Files BY <1>2, HeadTailProperties
<1>5. /\ todo'[b] = Tail(todo[b]) /\ step'[b] = "idle" /\ Left(b)' = Left(b) \ {f}
      /\ \A c \in Batches \ {b} : todo'[c] = todo[c] /\ step'[c] = step[c] /\ Left(c)' = Left(c)
    BY <1>1, <1>3 DEF LoopsInv, Left
<1>6. \A c \in Batches \ {b} : f \notin Left(c) BY <1>3, LoopsApart
<1> HIDE DEF f
<1>7. LoopsInv'
  <2>1. /\ todo' \in [Batches -> Seq(Files)]
        /\ step' \in [Batches -> {"unborn", "idle", "creating", "posting"}]
      BY <1>1, <1>3 DEF LoopsInv
  <2> QED BY <1>3, <1>5, <2>1 DEF LoopsInv
<1>8. <<"multipart", f>> \notin wire BY <1>1, <1>3 DEF WaysInv
<1>9. \A c \in Batches : \A g \in Left(c)' :
        /\ g \notin tusUploads' /\ <<"tus", g>> \notin wire'
        /\ <<"multipart", g>> \in wire' => step'[c] = "posting" /\ Head(todo'[c]) = g
  <2> SUFFICES ASSUME NEW c \in Batches, NEW g \in Left(c)'
               PROVE  /\ g \notin tusUploads' /\ <<"tus", g>> \notin wire'
                      /\ <<"multipart", g>> \in wire' => step'[c] = "posting" /\ Head(todo'[c]) = g
      OBVIOUS
  <2>1. g # f /\ g \in Left(c) BY <1>5, <1>6
  <2>2. g \notin tusUploads' /\ <<"tus", g>> \notin wire' BY <1>1, <2>1 DEF WaysInv
  <2>3. ASSUME <<"multipart", g>> \in wire' PROVE step'[c] = "posting" /\ Head(todo'[c]) = g
    <3>1. step[c] = "posting" /\ Head(todo[c]) = g BY <1>1, <2>1, <2>3 DEF WaysInv
    <3> QED BY <1>1, <1>5, <3>1
  <2> QED BY <2>2, <2>3
<1>10. \A g \in Files : <<"tus", g>> \in wire' \/ g \in tusUploads' => <<"multipart", g>> \notin wire'
    BY <1>1, <1>8 DEF WaysInv
<1> QED BY <1>1, <1>4, <1>7, <1>9, <1>10 DEF WaysInv

\* A post is answered: the loop that awaited it goes on.
LEMMA PostSettlesInv ==
  ASSUME LoopsInv, WaysInv, NEW f \in Files, PostSettles(f)
  PROVE  LoopsInv' /\ WaysInv'
<1> DEFINE waiting == {b \in Batches : step[b] = "posting" /\ Head(todo[b]) = f}
<1>1. /\ wire' = wire \ {<<"multipart", f>>} /\ tusUploads' = tusUploads
      /\ todo' = [b \in Batches |-> IF b \in waiting THEN Tail(todo[b]) ELSE todo[b]]
      /\ step' = [b \in Batches |-> IF b \in waiting THEN "idle" ELSE step[b]]
    BY DEF PostSettles, LoopsAfter
<1>2. ASSUME NEW b \in Batches
      PROVE  /\ todo'[b] \in Seq(Files) /\ step'[b] \in {"unborn", "idle", "creating", "posting"}
             /\ Left(b)' \subseteq Left(b)
             /\ \A i, j \in DOMAIN todo'[b] : todo'[b][i] = todo'[b][j] => i = j
             /\ step'[b] \in {"creating", "posting"} => todo'[b] # <<>>
             /\ step'[b] = "posting" \/ step[b] # "posting" \/ Head(todo[b]) = f
             /\ step'[b] = "posting" => todo'[b] = todo[b]
  <2>1. CASE b \in waiting
    <3>1. todo'[b] = Tail(todo[b]) /\ step'[b] = "idle" BY <1>1, <2>1
    <3>2. /\ todo[b] \in Seq(Files) /\ Left(b) = Elements(todo[b]) /\ todo[b] # <<>>
          /\ \A i, j \in DOMAIN todo[b] : todo[b][i] = todo[b][j] => i = j
        BY <2>1 DEF LoopsInv, Left
    <3>3. /\ Tail(todo[b]) \in Seq(Files) /\ Elements(Tail(todo[b])) \subseteq Left(b)
          /\ \A i, j \in DOMAIN Tail(todo[b]) : Tail(todo[b])[i] = Tail(todo[b])[j] => i = j
        BY <3>2, FirstTaken
    <3>4. Left(b)' = Elements(Tail(todo[b])) BY <3>1 DEF Left
    <3> QED BY <2>1, <3>1, <3>3, <3>4
  <2>2. CASE b \notin waiting
    <3>1. todo'[b] = todo[b] /\ step'[b] = step[b] BY <1>1, <2>2
    <3>2. Left(b)' = Left(b) BY <3>1 DEF Left
    <3> QED BY <3>1, <3>2 DEF LoopsInv
  <2> QED BY <2>1, <2>2
<1> HIDE DEF waiting
<1>3. LoopsInv'
  <2>1. /\ todo' \in [Batches -> Seq(Files)]
        /\ step' \in [Batches -> {"unborn", "idle", "creating", "posting"}]
      BY <1>1, <1>2
  <2> QED BY <1>2, <2>1 DEF LoopsInv
<1>4. ASSUME NEW b \in Batches, NEW g \in Left(b)'
      PROVE  /\ g \notin tusUploads' /\ <<"tus", g>> \notin wire'
             /\ <<"multipart", g>> \in wire' => step'[b] = "posting" /\ Head(todo'[b]) = g
  <2>1. g \in Left(b) BY <1>2
  <2>2. ASSUME <<"multipart", g>> \in wire' PROVE step'[b] = "posting" /\ Head(todo'[b]) = g
    <3>1. g # f /\ step[b] = "posting" /\ Head(todo[b]) = g BY <1>1, <2>1, <2>2 DEF WaysInv
    <3> QED BY <1>2, <3>1
  <2> QED BY <1>1, <2>1, <2>2 DEF WaysInv
<1>5. \A g \in Files : <<"tus", g>> \in wire' \/ g \in tusUploads' => <<"multipart", g>> \notin wire'
    BY <1>1 DEF WaysInv
<1> QED BY <1>1, <1>3, <1>4, <1>5 DEF WaysInv

\* The loops and the wires.
LEMMA WaysStep ==
  ASSUME LoopsInv, WaysInv, [QueueNext]_queueVars
  PROVE  LoopsInv' /\ WaysInv'
<1>1. ASSUME NEW b \in Batches, startUpload(b) PROVE LoopsInv' /\ WaysInv'
  <2>1. /\ step[b] = "unborn" /\ todo' = [todo EXCEPT ![b] = Requests[b]]
        /\ step' = [step EXCEPT ![b] = "idle"] /\ UNCHANGED <<tusUploads, wire>>
      BY <1>1 DEF startUpload
  <2>2. Requests[b] \in Seq(Files) BY QueueAssumption
  <2>3. /\ todo' \in [Batches -> Seq(Files)]
        /\ step' \in [Batches -> {"unborn", "idle", "creating", "posting"}]
        /\ todo'[b] = Requests[b] /\ step'[b] = "idle"
        /\ \A c \in Batches \ {b} : todo'[c] = todo[c] /\ step'[c] = step[c]
      BY <2>1, <2>2 DEF LoopsInv
  <2>4. \A c \in Batches : Left(c)' = Left(c) BY <2>1, <2>3 DEF Left
  <2>5. \A i, j \in DOMAIN Requests[b] : Requests[b][i] = Requests[b][j] => i = j
      BY QueueAssumption
  <2>6. LoopsInv' BY <2>3, <2>4, <2>5 DEF LoopsInv
  <2>7. \A c \in Batches : \A f \in Left(c)' :
          /\ f \notin tusUploads' /\ <<"tus", f>> \notin wire'
          /\ <<"multipart", f>> \in wire' => step'[c] = "posting" /\ Head(todo'[c]) = f
      BY <2>1, <2>3, <2>4 DEF WaysInv
  <2> QED BY <2>1, <2>6, <2>7 DEF WaysInv
<1>2. ASSUME NEW b \in Batches, TakeNext(b) \/ TusUnavailable(b) PROVE LoopsInv' /\ WaysInv'
  <2>1. CASE TakeNext(b) /\ mode = "multipart"
      BY <2>1, LoopAsks DEF TakeNext, Post
  <2>2. CASE TakeNext(b) /\ mode # "multipart"
      BY <2>2, LoopAsks DEF TakeNext
  <2>3. CASE TusUnavailable(b)
    <3>1. todo[b] # <<>> BY <2>3 DEF TusUnavailable, LoopsInv
    <3> QED BY <2>3, <3>1, LoopAsks DEF TusUnavailable, Post
  <2> QED BY <1>2, <2>1, <2>2, <2>3
<1>3. ASSUME NEW b \in Batches, TusCreated(b) PROVE LoopsInv' /\ WaysInv'
    BY <1>3, TusCreatedInv
<1>4. ASSUME NEW f \in Files, PostSettles(f) PROVE LoopsInv' /\ WaysInv'
    BY <1>4, PostSettlesInv
<1>5. ASSUME NEW f \in Files, TusError(f) PROVE LoopsInv' /\ WaysInv'
  <2>1. CASE UNCHANGED tusUploads /\ wire' = wire \ {<<"tus", f>>}
      BY <1>5, <2>1, QuietWays DEF TusError
  <2>2. CASE ForgetTus(f) /\ wire' = (wire \ {<<"tus", f>>}) \cup {<<"multipart", f>>}
    <3>1. /\ <<"tus", f>> \in wire /\ UNCHANGED <<todo, step>> /\ tusUploads' = tusUploads \ {f}
        BY <1>5, <2>2 DEF TusError, ForgetTus
    <3>2. \A b \in Batches : Left(b)' = Left(b) /\ f \notin Left(b) BY <3>1 DEF Left, WaysInv
    <3>3. LoopsInv' BY <3>1, <3>2 DEF LoopsInv
    <3>4. \A b \in Batches : \A g \in Left(b)' :
            /\ g \notin tusUploads' /\ <<"tus", g>> \notin wire'
            /\ <<"multipart", g>> \in wire' => step'[b] = "posting" /\ Head(todo'[b]) = g
        BY <2>2, <3>1, <3>2 DEF WaysInv
    <3>5. \A g \in Files :
            <<"tus", g>> \in wire' \/ g \in tusUploads' => <<"multipart", g>> \notin wire'
        BY <2>2, <3>1 DEF WaysInv
    <3> QED BY <3>1, <3>3, <3>4, <3>5 DEF WaysInv
  <2> QED BY <1>5, <2>1, <2>2 DEF TusError
<1>6. CASE handleOnline
  <2>1. /\ UNCHANGED <<todo, step, tusUploads>>
        /\ \E F \in SUBSET tusUploads : wire' = wire \cup ({"tus"} \X F)
      BY <1>6 DEF handleOnline
  <2>2. PICK F \in SUBSET tusUploads : wire' = wire \cup ({"tus"} \X F) BY <2>1
  <2>3. \A f : /\ <<"tus", f>> \in wire' => <<"tus", f>> \in wire \/ f \in tusUploads
               /\ <<"multipart", f>> \in wire' => <<"multipart", f>> \in wire
      BY <2>2
  <2>4. \A b \in Batches : Left(b)' = Left(b) BY <2>1 DEF Left
  <2>5. LoopsInv' BY <2>1, <2>4 DEF LoopsInv
  <2> QED BY <2>1, <2>3, <2>4, <2>5 DEF WaysInv
<1>7. CASE \/ Render \/ handleOffline \/ UNCHANGED queueVars
           \/ \E f \in Files : TusProgress(f) \/ TusSuccess(f) \/ dismiss(f)
  <2>1. UNCHANGED <<todo, step>> /\ wire' \subseteq wire /\ tusUploads' \subseteq tusUploads
      BY <1>7 DEF Render, handleOffline, queueVars, TusProgress, TusSuccess, dismiss
  <2> QED BY <2>1, QuietWays
<1> QED BY <1>1, <1>2, <1>3, <1>4, <1>5, <1>6, <1>7 DEF QueueNext, Settle

\* The entries shown.
LEMMA ShownStep ==
  ASSUME LoopsInv, WaysInv, ShownInv, [QueueNext]_queueVars
  PROVE  ShownInv'
<1>1. uploads \in [Files -> Entries] BY DEF ShownInv
<1>2. ASSUME NEW F, NEW status \in Status \ {"paused"}, update(F, status), tusUploads \subseteq tusUploads'
      PROVE  ShownInv'
    BY <1>1, <1>2, Marks DEF ShownInv, PausedIsResumable
<1>3. {"queued", "uploading", "done", "error"} \subseteq Status \ {"paused"} /\ "paused" \in Status
    BY DEF Status
<1>4. ASSUME NEW b \in Batches,
             startUpload(b) \/ TakeNext(b) \/ TusCreated(b) \/ TusUnavailable(b)
      PROVE  ShownInv'
  <2>1. CASE TakeNext(b) /\ mode # "multipart"
      BY <2>1 DEF TakeNext, ShownInv, PausedIsResumable
  <2>2. CASE ~(TakeNext(b) /\ mode # "multipart")
    <3>1. /\ \E F : update(F, "queued") \/ update(F, "uploading")
          /\ tusUploads \subseteq tusUploads'
        BY <1>4, <2>2 DEF startUpload, TakeNext, TusCreated, TusUnavailable, Post
    <3> QED BY <1>2, <1>3, <3>1
  <2> QED BY <2>1, <2>2
<1>5. ASSUME NEW f \in Files, PostSettles(f) \/ TusSuccess(f) PROVE ShownInv'
  <2>1. tusUploads' = tusUploads /\ \E F : update(F, "done") \/ update(F, "error")
      BY <1>5 DEF PostSettles, TusSuccess
  <2> QED BY <1>2, <1>3, <2>1
<1>6. ASSUME NEW f \in Files, TusError(f) PROVE ShownInv'
  <2>1. CASE ForgetTus(f) /\ update({f}, "uploading")
    <3>1. /\ uploads' \in [Files -> Entries]
          /\ \A g \in Files : uploads'[g].status = "paused" => g # f /\ uploads[g].status = "paused"
        BY <1>1, <1>3, <2>1, Marks
    <3> QED BY <2>1, <3>1 DEF ForgetTus, ShownInv, PausedIsResumable
  <2>2. CASE update({f}, "error") /\ UNCHANGED tusUploads BY <1>2, <1>3, <2>2
  <2> QED BY <1>6, <2>1, <2>2 DEF TusError
<1>7. CASE handleOffline
  <2>1. update(Pausable, "paused") /\ tusUploads' = tusUploads /\ Pausable \subseteq tusUploads
      BY <1>7 DEF handleOffline, Pausable
  <2>2. /\ uploads' \in [Files -> Entries]
        /\ \A f \in Files : uploads'[f].status = "paused" =>
             f \in Pausable \/ uploads[f].status = "paused"
      BY <1>1, <1>3, <2>1, Marks
  <2> QED BY <2>1, <2>2 DEF ShownInv, PausedIsResumable
<1>8. CASE handleOnline
  <2>1. tusUploads' = tusUploads /\ \E F : update(F, "uploading") BY <1>8 DEF handleOnline
  <2> QED BY <1>2, <1>3, <2>1
<1>9. ASSUME NEW f \in Files, TusProgress(f) PROVE ShownInv'
    BY <1>1, <1>9 DEF TusProgress, SetUploads, ShownInv, PausedIsResumable, Entries, Status
<1>10. ASSUME NEW f \in Files, dismiss(f) PROVE ShownInv'
    BY <1>1, <1>10 DEF dismiss, SetUploads, ShownInv, PausedIsResumable, Entries, Status, NoEntry
<1>11. CASE Render \/ UNCHANGED queueVars
    BY <1>11 DEF Render, queueVars, ShownInv, PausedIsResumable
<1> QED BY <1>4, <1>5, <1>6, <1>7, <1>8, <1>9, <1>10, <1>11 DEF QueueNext, Settle

\* A file is never on its way by both transports, and what is shown as paused can be
\* resumed.
THEOREM TransportsStayApart == QueueSpec => []TransportsAgree
<1>1. QueueInit => QueueInv
  <2> SUFFICES ASSUME QueueInit PROVE QueueInv OBVIOUS
  <2>1. \A b \in Batches : step[b] = "unborn" /\ todo[b] = <<>> BY DEF QueueInit
  <2>2. todo \in [Batches -> Seq(Files)]
    <3>1. <<>> \in Seq(Files) BY EmptySeq
    <3> QED BY <3>1 DEF QueueInit
  <2>3. LoopsInv
    <3>1. step \in [Batches -> {"unborn", "idle", "creating", "posting"}] BY DEF QueueInit
    <3>2. \A b \in Batches : Left(b) = Elements(Requests[b]) BY <2>1 DEF Left
    <3>3. DOMAIN <<>> = {} BY EmptySeq
    <3> QED BY <2>1, <2>2, <3>1, <3>2, <3>3 DEF LoopsInv
  <2>4. WaysInv BY DEF QueueInit, WaysInv
  <2>5. ShownInv BY DEF QueueInit, ShownInv, PausedIsResumable, Entries, Status, NoEntry
  <2> QED BY <2>3, <2>4, <2>5 DEF QueueInv
<1>2. QueueInv /\ [QueueNext]_queueVars => QueueInv' BY WaysStep, ShownStep DEF QueueInv
<1>3. QueueInv => TransportsAgree
    BY DEF QueueInv, WaysInv, ShownInv, TransportsAgree, OneTransport
<1> QED BY <1>1, <1>2, <1>3, PTL DEF QueueSpec

=============================================================================
