----------------------------- MODULE MCBackground -----------------------------
(***************************************************************************)
(* What goes on behind the screen: the upload queue, a conversation in     *)
(* Rooms, the note editor and its checklist, a push to a buddy, and the    *)
(* buddy tunnel.  They share no state; a behaviour follows one of them,    *)
(* named by part, and the others rest.                                     *)
(***************************************************************************)
EXTENDS UploadQueue, Chat, NoteEditor, NoteRows, BackupPush, Tunnel

VARIABLE part

MCRequests == [b \in {"b1"} |-> <<"f1", "f2">>]

vars == <<part, queueVars, chatVars, noteVars, rowVars, pushVars, tunnelVars>>

Init ==
  /\ part \in {"queue", "chat", "note", "rows", "push", "tunnel"}
  /\ QueueInit /\ (part # "queue" => mode = "tus")
  /\ ChatInit /\ (part # "chat" => kind = "room" /\ ask = NoAsk /\ loaded)
  /\ NoteInit /\ RowsInit
  /\ PushInit /\ (part # "push" => active = 0 /\ peer)
  /\ TunnelInit /\ (part # "tunnel" => ~use_tunnel)

OthersRest ==
  /\ part' = part
  /\ part # "queue" => UNCHANGED queueVars
  /\ part # "chat" => UNCHANGED chatVars
  /\ part # "note" => UNCHANGED noteVars
  /\ part # "rows" => UNCHANGED rowVars
  /\ part # "push" => UNCHANGED pushVars
  /\ part # "tunnel" => UNCHANGED tunnelVars

Next ==
  \/ part = "queue" /\ QueueNext /\ OthersRest
  \/ part = "chat" /\ ChatNext /\ OthersRest
  \/ part = "note" /\ NoteNext /\ OthersRest
  \/ part = "rows" /\ RowsNext /\ OthersRest
  \/ part = "push" /\ PushNext /\ OthersRest
  \/ part = "tunnel" /\ TunnelNext /\ OthersRest

Spec == /\ Init /\ [][Next]_vars
        /\ QueueFairness /\ ChatFairness /\ NoteFairness /\ PushFairness /\ TunnelFairness

\* The gaps that the properties name are not followed further.
Calm == ~edited /\ ~lost
=============================================================================
