------------------------------- MODULE Tunnel -------------------------------
(***************************************************************************)
(* The reverse tunnel between two instances that back up to each other:    *)
(* the page that opens and closes it and polls its state, the client that  *)
(* dials the peer and serves the connection, the loop that dials again     *)
(* every half minute, and the peer's table of sessions.  A connection is a *)
(* session of both ends; either end shuts it and the other finds out.      *)
(***************************************************************************)
EXTENDS Naturals, FiniteSets

CONSTANTS Conns,             \* connections, each used again once both ends forgot it
          MaxFaults,         \* bound: dials that fail, connections that drop
          MaxClicks          \* bound: the user's clicks

ASSUME TunnelAssumption == IsFiniteSet(Conns) /\ 0 \notin Conns /\ MaxFaults \in Nat /\ MaxClicks \in Nat

VARIABLES line,              \* a connection: "free", "open" or "shut"
          connected, cancel, sess,   \* the client's fields; the last two 0 for nil
          serving,           \* connections with a serve loop at the client
          use_tunnel,        \* the stored preference
          call,              \* the Connect under way of the user and of the loop
          leaving,           \* the Disconnect under way
          arriving,          \* accepted by the peer, not registered
          sessions, watched, \* the peer's entry for the user, and its watchers
          tunnelStatus,      \* what the page shows: "active", "peer" or "inactive"
          clicks, faults,
          crossed            \* ghost: a Connect began beside another or a Disconnect,
                             \* or at a click on a page that had not heard of one

clientVars == <<connected, cancel, sess, serving>>
peerVars == <<arriving, sessions, watched>>
pageVars == <<tunnelStatus, clicks>>
tunnelVars == <<line, clientVars, use_tunnel, call, leaving, peerVars, pageVars,
                faults, crossed>>

Callers == {"user", "loop"}
NoCall == [at |-> "none"]
Dialing == [at |-> "dialing"]
StatusNow(here) == IF connected THEN "active" ELSE IF here THEN "peer" ELSE "inactive"

TunnelInit ==
  /\ line = [c \in Conns |-> "free"]
  /\ connected = FALSE /\ cancel = 0 /\ sess = 0 /\ serving = {}
  /\ use_tunnel \in BOOLEAN
  /\ call = [w \in Callers |-> NoCall] /\ leaving = "none"
  /\ arriving = {} /\ sessions = 0 /\ watched = {}
  /\ tunnelStatus = StatusNow(FALSE) /\ clicks = 0
  /\ faults = 0 /\ crossed = FALSE

Shut(cs) == [c \in Conns |-> IF c \in cs /\ line[c] = "open" THEN "shut" ELSE line[c]]

---------------------------------------------------------------------------
\* The page polls: our direction, the other one (the peer may have dialed us), or none.
BuddyTunnelStatus ==
  /\ \E here \in BOOLEAN : tunnelStatus' = StatusNow(here)
  /\ UNCHANGED <<line, clientVars, use_tunnel, call, leaving, peerVars, clicks, faults,
                 crossed>>

\* Connect is offered when neither direction seems up, Disconnect when ours does.
tunnelConnect ==
  /\ tunnelStatus = "inactive" /\ call["user"] = NoCall
  /\ clicks < MaxClicks /\ clicks' = clicks + 1
  /\ call' = [call EXCEPT !["user"] = Dialing]
  /\ crossed' = (crossed \/ connected \/ call["loop"] # NoCall \/ leaving # "none")
  /\ UNCHANGED <<line, clientVars, use_tunnel, leaving, peerVars, tunnelStatus,
                 faults>>

tunnelDisconnect ==
  /\ tunnelStatus = "active" /\ leaving = "none" /\ leaving' = "asked"
  /\ clicks < MaxClicks /\ clicks' = clicks + 1
  /\ UNCHANGED <<line, clientVars, use_tunnel, call, peerVars, tunnelStatus, faults,
                 crossed>>

\* Disconnect cancels the connection; its serve loop clears the other fields.
Disconnect ==
  /\ leaving = "asked" /\ leaving' = "cancelled" /\ line' = Shut({cancel}) /\ cancel' = 0
  /\ UNCHANGED <<connected, sess, serving, use_tunnel, call, peerVars, pageVars, faults,
                 crossed>>

BuddyTunnelDisconnect ==
  /\ leaving = "cancelled" /\ leaving' = "none" /\ use_tunnel' = FALSE
  /\ UNCHANGED <<line, clientVars, call, peerVars, pageVars, faults, crossed>>

\* A Connect of the user that succeeded stores the preference and answers.
BuddyTunnelConnect ==
  /\ call["user"].at = "up" /\ call' = [call EXCEPT !["user"] = NoCall]
  /\ use_tunnel' = TRUE
  /\ UNCHANGED <<line, clientVars, leaving, peerVars, pageVars, faults, crossed>>

\* The loop dials for whoever wants a tunnel while the client reports none.
Wanted == use_tunnel /\ ~connected

StartTunnelAutoReconnect ==
  /\ Wanted /\ call["loop"] = NoCall
  /\ call' = [call EXCEPT !["loop"] = Dialing]
  /\ crossed' = (crossed \/ call["user"] # NoCall \/ leaving # "none")
  /\ UNCHANGED <<line, clientVars, use_tunnel, leaving, peerVars, pageVars, faults>>

---------------------------------------------------------------------------
\* Connect, before the lock: the peer accepts, or the call fails.
Dial(w) ==
  /\ call[w] = Dialing
  /\ \/ \E c \in Conns :
          /\ line[c] = "free" /\ line' = [line EXCEPT ![c] = "open"]
          /\ arriving' = arriving \cup {c}
          /\ call' = [call EXCEPT ![w] = [at |-> "dialed", conn |-> c]] /\ UNCHANGED faults
     \/ /\ faults < MaxFaults /\ faults' = faults + 1
        /\ call' = [call EXCEPT ![w] = NoCall] /\ UNCHANGED <<line, arriving>>
  /\ UNCHANGED <<clientVars, use_tunnel, leaving, sessions, watched, pageVars, crossed>>

\* Under the lock: the connection before this one is cancelled, not waited for.
Connect(w) ==
  /\ call[w].at = "dialed"
  /\ line' = Shut({cancel}) /\ connected' = TRUE
  /\ cancel' = call[w].conn /\ sess' = call[w].conn /\ serving' = serving \cup {call[w].conn}
  /\ call' = [call EXCEPT ![w] = IF w = "user" THEN [at |-> "up"] ELSE NoCall]
  /\ UNCHANGED <<use_tunnel, leaving, peerVars, pageVars, faults, crossed>>

\* The end of a serve loop clears the client's fields, whichever connection they name.
\* A mutant: it clears the session and leaves the flag.
ClearSession == sess' = 0 /\ UNCHANGED connected
ClearFields == connected' = FALSE /\ sess' = 0
serve(c) ==
  /\ c \in serving /\ line[c] = "shut" /\ serving' = serving \ {c} /\ ClearFields
  /\ cancel' = IF cancel = c THEN 0 ELSE cancel   \* spent: to call it does nothing
  /\ UNCHANGED <<line, use_tunnel, call, leaving, peerVars, pageVars, faults, crossed>>

\* The peer: a new session replaces the user's, whose watcher drops only its own.
Register(c) ==
  /\ c \in arriving /\ arriving' = arriving \ {c} /\ watched' = watched \cup {c}
  /\ line' = Shut({sessions}) /\ sessions' = c
  /\ UNCHANGED <<clientVars, use_tunnel, call, leaving, pageVars, faults, crossed>>

\* A mutant: the watcher drops whatever session the user has by now.
DropAny(c) == sessions' = 0
DropOwn(c) == sessions' = IF sessions = c THEN 0 ELSE sessions
Watch(c) ==
  /\ c \in watched /\ line[c] = "shut" /\ watched' = watched \ {c} /\ DropOwn(c)
  /\ UNCHANGED <<line, clientVars, use_tunnel, call, leaving, arriving, pageVars, faults,
                 crossed>>

\* The network drops a connection; a connection both ends forgot is used again.
Drop(c) ==
  /\ line[c] = "open" /\ line' = Shut({c}) /\ faults < MaxFaults /\ faults' = faults + 1
  /\ UNCHANGED <<clientVars, use_tunnel, call, leaving, peerVars, pageVars, crossed>>

Forgotten(c) ==
  /\ line[c] = "shut" /\ c \notin serving \cup arriving \cup watched
  /\ \A w \in Callers : call[w] # [at |-> "dialed", conn |-> c]
  /\ line' = [line EXCEPT ![c] = "free"]
  /\ UNCHANGED <<clientVars, use_tunnel, call, leaving, peerVars, pageVars, faults, crossed>>

TunnelNext ==
  \/ BuddyTunnelStatus \/ tunnelConnect \/ tunnelDisconnect
  \/ Disconnect \/ BuddyTunnelDisconnect \/ BuddyTunnelConnect \/ StartTunnelAutoReconnect
  \/ \E w \in Callers : Dial(w) \/ Connect(w)
  \/ \E c \in Conns : serve(c) \/ Register(c) \/ Watch(c) \/ Drop(c) \/ Forgotten(c)

\* Goroutines run and the ticker ticks; nothing is promised of the user or the network.
TunnelFairness ==
  /\ WF_tunnelVars(Disconnect) /\ WF_tunnelVars(BuddyTunnelDisconnect)
  /\ WF_tunnelVars(BuddyTunnelConnect)
  /\ WF_tunnelVars(StartTunnelAutoReconnect)
  /\ \A w \in Callers : /\ WF_tunnelVars(Dial(w))
                        /\ WF_tunnelVars(Connect(w))
  /\ \A c \in Conns : /\ WF_tunnelVars(serve(c))
                      /\ WF_tunnelVars(Register(c))
                      /\ WF_tunnelVars(Watch(c))
                      /\ WF_tunnelVars(Forgotten(c))

TunnelSpec == TunnelInit /\ [][TunnelNext]_tunnelVars /\ TunnelFairness

---------------------------------------------------------------------------
\* The peer reaches the client through the newest session: one that is open is the
\* one in its table, however the ends of the sessions before it interleave.
OpenIsRegistered == \A c \in watched : line[c] = "open" => sessions = c

\* A client reports a tunnel while it serves one, as long as no Connect crossed another.
ReportsUnlessCrossed == ~crossed => (connected <=> serving # {})

\* A tunnel that is wanted and lost comes back, as long as no Connect crossed another.
Up == \E c \in serving : line[c] = "open"
TunnelComesBack == (use_tunnel /\ ~Up) ~> (Up \/ ~use_tunnel \/ crossed)

\* The client, the peer and the connection between them agree on the tunnel.
TunnelAgrees == OpenIsRegistered /\ ReportsUnlessCrossed

=============================================================================
