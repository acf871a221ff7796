---------------------------- MODULE UploadQueue ----------------------------
(***************************************************************************)
(* The web client's uploader (useUploader): startUpload works through a    *)
(* batch in order, by resumable tus uploads or by multipart posts; going   *)
(* offline pauses the tus uploads and coming back resumes them.  Event     *)
(* handlers read uploadsRef, which React brings up to date with the state  *)
(* at once or only when it renders, so it may lag behind.                  *)
(***************************************************************************)
EXTENDS Naturals, FiniteSets, Sequences

CONSTANTS Files,     \* files to upload
          Batches,   \* calls of startUpload
          Requests   \* the files of each call, in order

\* Every file of every call has an entry, and an id, of its own.
ASSUME QueueAssumption ==
  /\ Requests \in [Batches -> Seq(Files)]
  /\ \A b, c \in Batches : \A i \in DOMAIN Requests[b], j \in DOMAIN Requests[c] :
       Requests[b][i] = Requests[c][j] => b = c /\ i = j

VARIABLES mode,        \* "multipart", "tus" or "cross" (tus at another origin)
          online,      \* whether the browser is online
          todo,        \* what is left of each startUpload loop
          step,        \* what each loop awaits: "unborn", "idle", "creating" or "posting"
          uploads,     \* the entries as React will show them
          uploadsRef,  \* the entries as the event handlers see them
          tusUploads,  \* the files with a tus upload on the map
          wire         \* transports at work: pairs of a kind and a file

queueVars == <<mode, online, todo, step, uploads, uploadsRef, tusUploads, wire>>

Status == {"none", "queued", "uploading", "paused", "error", "done"}
NoEntry == [status |-> "none", bytes |-> FALSE]

QueueInit ==
  /\ mode \in {"multipart", "tus", "cross"} /\ online = TRUE
  /\ todo = [b \in Batches |-> <<>>] /\ step = [b \in Batches |-> "unborn"]
  /\ uploads = [f \in Files |-> NoEntry] /\ uploadsRef = uploads
  /\ tusUploads = {} /\ wire = {}

\* setUploads: the ref follows at once when no update is pending, else at the
\* next render.
SetUploads(u) == uploads' = u /\ uploadsRef' \in {uploadsRef, u}
Marked(u, F, status) == [f \in Files |-> IF f \in F THEN [u[f] EXCEPT !.status = status] ELSE u[f]]
update(F, status) == SetUploads(Marked(uploads, F, status))

Render == /\ uploadsRef # uploads /\ uploadsRef' = uploads
          /\ UNCHANGED <<mode, online, todo, step, uploads, tusUploads, wire>>

---------------------------------------------------------------------------
startUpload(b) ==
  /\ step[b] = "unborn"
  /\ todo' = [todo EXCEPT ![b] = Requests[b]] /\ step' = [step EXCEPT ![b] = "idle"]
  /\ update({Requests[b][i] : i \in DOMAIN Requests[b]}, "queued")
  /\ UNCHANGED <<mode, online, tusUploads, wire>>

\* performMultipartUpload's first half: the entry shows "uploading" and the
\* post is under way.
Post(f) == update({f}, "uploading") /\ wire' = wire \cup {<<"multipart", f>>}

TakeNext(b) ==
  /\ step[b] = "idle" /\ todo[b] # <<>>
  /\ \/ /\ mode = "multipart"
        /\ step' = [step EXCEPT ![b] = "posting"] /\ Post(Head(todo[b]))
     \/ /\ mode # "multipart"
        /\ step' = [step EXCEPT ![b] = "creating"]
        /\ UNCHANGED <<uploads, uploadsRef, wire>>
  /\ UNCHANGED <<mode, online, todo, tusUploads>>

\* createTusUpload returns: the upload goes on the map and starts, and the loop
\* goes on without waiting for it.
TusCreated(b) ==
  LET f == Head(todo[b])
  IN /\ step[b] = "creating"
     /\ tusUploads' = tusUploads \cup {f} /\ wire' = wire \cup {<<"tus", f>>}
     /\ update({f}, "uploading")
     /\ todo' = [todo EXCEPT ![b] = Tail(@)] /\ step' = [step EXCEPT ![b] = "idle"]
     /\ UNCHANGED <<mode, online>>

\* It throws: another origin does not answer OPTIONS or issues no token.
TusUnavailable(b) ==
  /\ step[b] = "creating" /\ mode = "cross"
  /\ step' = [step EXCEPT ![b] = "posting"] /\ Post(Head(todo[b]))
  /\ UNCHANGED <<mode, online, todo, tusUploads>>

\* A mutant: a failed post throws out of the loop, which ends there.
LoopsAfterThrow(f, failed) ==
  LET waiting == {b \in Batches : step[b] = "posting" /\ Head(todo[b]) = f}
  IN /\ todo' = [b \in Batches |-> IF b \notin waiting THEN todo[b]
                                   ELSE IF failed THEN <<>> ELSE Tail(todo[b])]
     /\ step' = [b \in Batches |-> IF b \in waiting THEN "idle" ELSE step[b]]

\* The loop that awaited the post goes on, whether it failed or not.
LoopsAfter(f, failed) ==
  LET waiting == {b \in Batches : step[b] = "posting" /\ Head(todo[b]) = f}
  IN /\ todo' = [b \in Batches |-> IF b \in waiting THEN Tail(todo[b]) ELSE todo[b]]
     /\ step' = [b \in Batches |-> IF b \in waiting THEN "idle" ELSE step[b]]

\* The post is answered or fails; nothing is thrown.
PostSettles(f) ==
  /\ <<"multipart", f>> \in wire
  /\ wire' = wire \ {<<"multipart", f>>}
  /\ \E status \in {"done", "error"} : /\ update({f}, status)
                                       /\ LoopsAfter(f, status = "error")
  /\ UNCHANGED <<mode, online, tusUploads>>

---------------------------------------------------------------------------
TusProgress(f) ==
  /\ <<"tus", f>> \in wire /\ online
  /\ SetUploads([uploads EXCEPT ![f] = [status |-> "uploading", bytes |-> TRUE]])
  /\ UNCHANGED <<mode, online, todo, step, tusUploads, wire>>

TusSuccess(f) ==
  /\ <<"tus", f>> \in wire /\ online
  /\ wire' = wire \ {<<"tus", f>>} /\ update({f}, "done")
  /\ UNCHANGED <<mode, online, todo, step, tusUploads>>

\* A mutant: the upload stays on the map.
ForgetNothing(f) == tusUploads' = tusUploads
\* A fallback takes the upload off the map: nobody may start it again.
ForgetTus(f) == tusUploads' = tusUploads \ {f}

\* tus gives up: from another origin that has not taken a byte, as far as the
\* ref knows, the file is posted instead.
TusError(f) ==
  /\ <<"tus", f>> \in wire
  /\ \/ /\ mode = "cross" /\ ~uploadsRef[f].bytes
        /\ ForgetTus(f) /\ update({f}, "uploading")
        /\ wire' = (wire \ {<<"tus", f>>}) \cup {<<"multipart", f>>}
     \/ /\ mode # "cross" \/ uploadsRef[f].bytes
        /\ update({f}, "error") /\ wire' = wire \ {<<"tus", f>>}
        /\ UNCHANGED tusUploads
  /\ UNCHANGED <<mode, online, todo, step>>

---------------------------------------------------------------------------
\* The uploads to pause: those on the map that show "uploading".
Pausable == {f \in tusUploads : uploadsRef[f].status = "uploading"}

handleOffline ==
  /\ online /\ online' = FALSE
  /\ wire' = wire \ ({"tus"} \X Pausable) /\ update(Pausable, "paused")
  /\ UNCHANGED <<mode, todo, step, tusUploads>>

handleOnline ==
  LET paused == {f \in tusUploads : uploadsRef[f].status = "paused"}
  IN /\ ~online /\ online' = TRUE
     /\ wire' = wire \cup ({"tus"} \X paused) /\ update(paused, "uploading")
     /\ UNCHANGED <<mode, todo, step, tusUploads>>

\* The progress panel offers a cross on the entries in error.
dismiss(f) ==
  /\ uploads[f].status = "error"
  /\ tusUploads' = tusUploads \ {f} /\ SetUploads([uploads EXCEPT ![f] = NoEntry])
  /\ UNCHANGED <<mode, online, todo, step, wire>>

Settle == \/ \E b \in Batches : TakeNext(b) \/ TusCreated(b) \/ TusUnavailable(b)
          \/ \E f \in Files : PostSettles(f)

QueueNext == \/ \E b \in Batches : startUpload(b)
             \/ Settle
             \/ Render
             \/ \E f \in Files : TusProgress(f) \/ TusSuccess(f) \/ TusError(f) \/ dismiss(f)
             \/ handleOffline \/ handleOnline

\* Promises settle: the loop's next step runs once what it awaits is answered.
QueueFairness == WF_queueVars(Settle)

QueueSpec == QueueInit /\ [][QueueNext]_queueVars /\ QueueFairness

---------------------------------------------------------------------------
\* One file is never on its way by both transports: the fallback to multipart
\* leaves no tus upload that coming online could start again.
OneTransport == \A f \in Files : ~({<<"tus", f>>, <<"multipart", f>>} \subseteq wire)

\* What is shown as paused ("will resume automatically") can be resumed: its
\* tus upload is on the map that handleOnline walks.
PausedIsResumable == \A f \in Files : uploads[f].status = "paused" => f \in tusUploads

\* Every queued file gets its turn, however the files before it fare.
QueuedIsStarted ==
  \A f \in Files : (uploads[f].status = "queued") ~> (uploads[f].status # "queued")

\* The entries shown, the map of tus uploads and the transports at work agree.
TransportsAgree == OneTransport /\ PausedIsResumable

=============================================================================
