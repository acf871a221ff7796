-------------------------------- MODULE Chat --------------------------------
(***************************************************************************)
(* One open conversation of the Rooms area: a room (RoomChatPanel, told of *)
(* changes through a web socket) or a private conversation                 *)
(* (DirectConversationPage, which asks for its messages every five        *)
(* seconds), the server's list of messages and attachments, the form that  *)
(* posts a message and then attaches its files, the marker of what has     *)
(* been read, and the other members, who only post.                        *)
(***************************************************************************)
EXTENDS Naturals, FiniteSets, Sequences

CONSTANTS Texts, GifLink,    \* what can be typed, and a pasted GIF link among it
          DraftFiles, Gif,        \* what can be attached, and the file a GIF link is imported as
          NoText,
          MaxMessages,       \* bound: messages in the conversation
          MaxSends,          \* bound: sends tried
          MaxEvents          \* the events a socket's channel holds

ASSUME ChatAssumption ==
  /\ GifLink \in Texts /\ NoText \notin Texts /\ Gif \notin DraftFiles
  /\ MaxMessages \in Nat /\ MaxSends \in Nat /\ MaxEvents \in Nat

VARIABLES kind,              \* "room" or "direct"
          posted, linked,    \* the server's messages; <<message, file>>, 0 for no message
          marker,            \* the last message the server has as read by me
          shown,             \* the messages on the screen
          loaded,            \* an answer has come, now or when it was open before
          ask,               \* the request for them in flight
          socket, events,    \* the room's socket and its channel
          reads,             \* markRead calls in flight
          body, attachments, sending, sends,
          fetched,           \* ghost: the most messages any answer has held
          submitted,         \* ghost: texts the user has typed, each once
          attached,          \* ghost: files the user has put on and not taken off
          missed,            \* ghost: an event found no socket, a full channel, or the
                             \* first answer on its way; until everything is shown
          edited             \* ghost: the draft was changed while it was being sent

serverVars == <<posted, linked, marker>>
draftVars == <<body, attachments, sending, sends, submitted, attached, edited>>
queryVars == <<shown, loaded, ask, fetched>>
chatVars == <<kind, serverVars, queryVars, socket, events, reads, draftVars, missed>>

NoAsk == [at |-> "none"]
Asked == [at |-> "asked"]
Idle == [step |-> "idle"]

\* Opened anew, or again within 30 s of the last time (staleTime in main.tsx), when what is
\* cached is shown and nothing is asked for; later, it is shown and asked for again.
ChatInit ==
  /\ kind \in {"room", "direct"}
  /\ posted = <<>> /\ linked = {} /\ marker = 0
  /\ shown = 0 /\ ask \in {Asked, NoAsk} /\ fetched = 0
  /\ loaded \in BOOLEAN /\ (ask = NoAsk => loaded)
  /\ socket = "closed" /\ events = 0 /\ reads = {}
  /\ body = NoText /\ attachments = {} /\ sending = Idle /\ sends = 0
  /\ submitted = {} /\ attached = {} /\ edited = FALSE
  /\ missed = FALSE

---------------------------------------------------------------------------
\* The server tells the room's sockets; a conversation has none to tell.
Publish ==
  \/ kind = "direct" /\ UNCHANGED <<events, missed>>
  \/ /\ kind = "room" /\ socket = "open" /\ events < MaxEvents
     /\ events' = events + 1 /\ UNCHANGED missed
  \/ /\ kind = "room" /\ ~(socket = "open" /\ events < MaxEvents)
     /\ missed' = TRUE /\ UNCHANGED events

OthersPost(withFile) ==
  /\ Len(posted) < MaxMessages /\ posted' = Append(posted, [by |-> "other", text |-> NoText])
  /\ linked' = IF withFile THEN linked \cup {<<Len(posted) + 1, Gif>>} ELSE linked
  /\ Publish /\ UNCHANGED <<kind, marker, queryVars, socket, reads, draftVars>>

\* useRoomLiveSync: connected, heard, closed, and connected again.  Nothing is
\* asked for when a connection is made anew.
\* invalidateQueries drops a request on its way and asks anew, but not during the first
\* load, whose answer, perhaps from before the change, is waited for and then fresh.
\* A mutant: it is waited for at all times.
Deduplicated == ask' = IF ask = NoAsk THEN Asked ELSE ask
refresh == ask' = IF loaded \/ ask = NoAsk THEN Asked ELSE ask
tooEarly == kind = "room" /\ ~loaded /\ ask.at = "served"

useRoomLiveSync ==
  /\ kind = "room"
  /\ \/ socket = "closed" /\ socket' = "open" /\ UNCHANGED <<ask, events>>
     \/ socket = "open" /\ socket' = "closed" /\ events' = 0 /\ UNCHANGED ask
     \/ events > 0 /\ events' = events - 1 /\ refresh /\ UNCHANGED socket
  /\ missed' = (missed \/ (IF socket' = "closed" THEN events > 0 ELSE events' < events /\ tooEarly))
  /\ UNCHANGED <<kind, serverVars, shown, loaded, fetched, reads, draftVars>>

\* The private conversation asks again by itself, for its messages alone.
PollMessages ==
  /\ kind = "direct" /\ ask = NoAsk /\ ask' = Asked
  /\ UNCHANGED <<kind, serverVars, shown, loaded, fetched, socket, events, reads, draftVars, missed>>

ServeAsk ==
  /\ ask.at = "asked" /\ ask' = [at |-> "served", has |-> Len(posted)]
  /\ UNCHANGED <<kind, serverVars, shown, loaded, fetched, socket, events, reads, draftVars, missed>>

\* New data are shown and marked as read.
TakeMessages ==
  LET has == ask.has IN
  /\ ask.at = "served" /\ ask' = NoAsk
  /\ shown' = has /\ fetched' = IF has > fetched THEN has ELSE fetched
  /\ reads' = IF has # shown THEN reads \cup {has} ELSE reads
  /\ loaded' = TRUE /\ missed' = (missed /\ has # Len(posted))
  /\ UNCHANGED <<kind, serverVars, socket, events, draftVars>>

\* A mutant: a room, too, is marked up to its newest message.
MarkNewest(n) == marker' = Len(posted)
\* MarkRead moves a room's marker forward only, to the message named.
MarkRoom(n) == marker' = IF n > marker THEN n ELSE marker

\* MarkDirectConversationRead takes the newest message there is by now.
MarkRead(n) ==
  /\ n \in reads /\ reads' = reads \ {n}
  /\ \/ kind = "room" /\ MarkRoom(n) /\ refresh
     \/ kind = "direct" /\ marker' = Len(posted) /\ UNCHANGED ask
     \/ UNCHANGED <<marker, ask>>                         \* .catch(() => undefined)
  /\ UNCHANGED <<kind, posted, linked, shown, loaded, fetched, socket, events, draftVars,
                 missed>>

---------------------------------------------------------------------------
\* The form: text typed (once each, to tell them apart), files put on and off.
\* Neither is locked while the draft is being sent.
Compose ==
  /\ \/ /\ \E t \in Texts \ submitted : body' = t /\ submitted' = submitted \cup {t}
        /\ body = NoText /\ UNCHANGED <<attachments, attached>>
     \/ \E f \in DraftFiles \ attached :
          /\ attachments' = attachments \cup {f} /\ attached' = attached \cup {f}
          /\ UNCHANGED <<body, submitted>>
     \/ \E f \in attachments :
          /\ attachments' = attachments \ {f} /\ attached' = attached \ {f}
          /\ UNCHANGED <<body, submitted>>
  /\ edited' = (edited \/ sending # Idle)
  /\ UNCHANGED <<kind, serverVars, queryVars, socket, events, reads, sending, sends, missed>>

\* send: a GIF link alone is imported first.  In a room, files alone make no message.
Sending(step) == [step |-> step, text |-> body, files |-> attachments, message |-> 0]
RoomSend == kind = "room" /\ sending' = Sending(IF body = NoText THEN "attach" ELSE "post")
DirectSend == kind = "direct" /\ sending' = Sending("post")

Submit ==
  /\ body # NoText \/ attachments # {}
  /\ sending = Idle /\ sends < MaxSends /\ sends' = sends + 1
  /\ IF attachments = {} /\ body = GifLink THEN sending' = Sending("import")
                                           ELSE RoomSend \/ DirectSend
  /\ UNCHANGED <<kind, serverVars, queryVars, socket, events, reads, body, attachments, submitted,
                 attached, edited, missed>>

DraftStays == UNCHANGED <<body, attachments>>

SendFails ==
  /\ sending.step \in {"import", "post"} /\ sending' = Idle /\ DraftStays
  /\ UNCHANGED <<kind, serverVars, queryVars, socket, events, reads, submitted,
                 attached, sends, edited, missed>>

ImportGif ==
  /\ sending.step = "import" /\ sending' = [sending EXCEPT !.step = "post", !.files = {Gif}]
  /\ UNCHANGED <<kind, serverVars, queryVars, socket, events, reads, body, attachments, submitted,
                 attached, sends, edited, missed>>

PostMessage ==
  /\ sending.step = "post" /\ Len(posted) < MaxMessages
  /\ posted' = Append(posted, [by |-> "me", text |-> sending.text])
  /\ sending' = [sending EXCEPT !.step = "attach", !.message = Len(posted) + 1]
  /\ Publish
  /\ UNCHANGED <<kind, linked, marker, queryVars, socket, reads, body, attachments, submitted,
                 attached, sends, edited>>

AttachFile(f) ==
  /\ sending.step = "attach" /\ f \in sending.files
  /\ linked' = linked \cup {<<sending.message, f>>} /\ sending' = [sending EXCEPT !.files = @ \ {f}]
  /\ Publish
  /\ UNCHANGED <<kind, posted, marker, queryVars, socket, reads, body, attachments, submitted,
                 attached, sends, edited>>

\* One call fails: the promise is rejected, the others may still arrive, and the
\* draft stays as it is.
AttachFails ==
  /\ sending.step = "attach" /\ sending.files # {} /\ sending' = Idle /\ DraftStays
  /\ \E arrived \in SUBSET sending.files :
       linked' = linked \cup {<<sending.message, f>> : f \in arrived}
  /\ \/ linked' = linked /\ UNCHANGED <<events, missed>>
     \/ linked' # linked /\ Publish
  /\ UNCHANGED <<kind, posted, marker, queryVars, socket, reads, submitted,
                 attached, sends, edited>>

SendDone ==
  /\ sending.step = "attach" /\ sending.files = {} /\ sending' = Idle
  /\ body' = NoText /\ attachments' = {} /\ refresh /\ missed' = (missed \/ tooEarly)
  /\ UNCHANGED <<kind, serverVars, shown, loaded, fetched, socket, events, reads, submitted,
                 attached, sends, edited>>

ChatNext ==
  \/ \E withFile \in BOOLEAN : OthersPost(withFile)
  \/ useRoomLiveSync \/ PollMessages
  \/ ServeAsk \/ TakeMessages
  \/ \E n \in reads : MarkRead(n)
  \/ Compose \/ Submit \/ SendFails \/ ImportGif \/ PostMessage \/ AttachFails \/ SendDone
  \/ \E f \in DraftFiles \cup {Gif} : AttachFile(f)

\* Requests are answered and the socket delivers what its channel holds.
ChatFairness ==
  /\ WF_chatVars(kind = "direct" /\ PollMessages)
  /\ WF_chatVars(events > 0 /\ useRoomLiveSync)
  /\ WF_chatVars(ServeAsk) /\ WF_chatVars(TakeMessages)

ChatSpec == ChatInit /\ [][ChatNext]_chatVars /\ ChatFairness

---------------------------------------------------------------------------
\* A room is never marked as read beyond the messages an answer has brought to
\* the screen, whatever calls are still in flight (a private conversation is:
\* see the README).
ReadOnlyShown == kind = "room" => marker <= fetched

\* A file put on the draft is on the draft or in the conversation, unless the
\* draft was changed while it was being sent.
AttachmentsKept ==
  edited \/ \A f \in attached : f \in attachments \/ (\E m \in 0..Len(posted) : <<m, f>> \in linked)

\* Every message is shown in the end, unless an event is lost first: it found no open
\* socket, a full channel, or the answer of the first load already on its way.  What
\* was lost counts until everything there is has been shown, and no longer.
CaughtUp == (shown < Len(posted)) ~> (shown = Len(posted) \/ missed)

\* Nothing is marked as read that was not shown, and no attachment disappears.
ConversationKept == ReadOnlyShown /\ AttachmentsKept

=============================================================================
