--------------------------- MODULE MeetingScreen ---------------------------
(***************************************************************************)
(* A shared screen in a room's meeting: the panel of the one who shares it *)
(* and the panel of one who watches.  LiveKit tells the watcher of tracks  *)
(* that come and go; the panels tell each other besides, on a channel of   *)
(* its own, that a screen is being changed or has been stopped, so that a  *)
(* track that goes need not take the screen with it.  Each channel keeps   *)
(* its order; nothing orders one with the other, and a signal may be lost. *)
(***************************************************************************)
EXTENDS Naturals, Sequences

CONSTANTS MaxTracks, MaxJoins    \* bounds

ASSUME MeetingAssumption == {MaxTracks, MaxJoins} \subseteq Nat

VARIABLES mode, joining,     \* how the sharer is in the meeting, or is joining it
          sharingScreen,     \* what the sharer's button shows
          published,         \* the track that is shared, or 0
          madeTracks, joins,     \* how many there have been
          step,              \* of the click under way
          signals, events,   \* on their way to the watcher
          screen,            \* what the watcher sees
          timers,            \* tracks gone, whose screen goes in three seconds
          overtakenSignal,              \* ghost: a signal came after a newer track
          abandoned,         \* ghost: the sharer left while changing the screen
          mistold            \* ghost: a stop that failed was told, or one that counted was not

sharerVars == <<mode, joining, sharingScreen, published, madeTracks, joins, step>>
watcherVars == <<screen, timers, overtakenSignal>>
meetingVars == <<sharerVars, signals, events, watcherVars, abandoned, mistold>>

NoScreen == [track |-> 0, isSwitching |-> FALSE]

MeetingInit ==
  /\ mode = "none" /\ joining = "none" /\ sharingScreen = FALSE
  /\ published = 0 /\ madeTracks = 0 /\ joins = 0 /\ step = "none"
  /\ signals = <<>> /\ events = <<>>
  /\ screen = NoScreen /\ timers = {} /\ overtakenSignal = FALSE
  /\ abandoned = FALSE /\ mistold = FALSE

---------------------------------------------------------------------------
\* The channels.  A signal carries the newest track when it was sent.
Signal(state) == [state |-> state, of |-> madeTracks]
publishScreenShareSignal(state) == signals' = Append(signals, Signal(state))

TrackComes == /\ madeTracks < MaxTracks /\ madeTracks' = madeTracks + 1 /\ published' = madeTracks'
              /\ events' = Append(events, [is |-> "subscribed", track |-> madeTracks'])
TrackGoes == /\ published' = 0
             /\ events' = IF published = 0 THEN events
                          ELSE Append(events, [is |-> "unsubscribed", track |-> published])

---------------------------------------------------------------------------
\* The sharer's panel.
join(m) ==
  /\ mode = "none" /\ joining = "none" /\ step = "none" /\ joins < MaxJoins
  /\ joining' = m /\ joins' = joins + 1
  /\ UNCHANGED <<mode, sharingScreen, published, madeTracks, step, signals, events, watcherVars,
                 abandoned, mistold>>

Joined ==
  /\ joining # "none" /\ mode' = joining /\ joining' = "none"
  /\ UNCHANGED <<sharingScreen, published, madeTracks, joins, step, signals, events, watcherVars,
                 abandoned, mistold>>

JoinFails ==
  /\ joining # "none" /\ joining' = "none" /\ step' = "none"
  /\ UNCHANGED <<mode, sharingScreen, published, madeTracks, joins, signals, events, watcherVars,
                 abandoned, mistold>>

\* Nobody is told but through the track.
Left == mode' = "none" /\ joining' = "none" /\ sharingScreen' = FALSE /\ TrackGoes

\* Hangs up, closes the page or loses the connection.
leave ==
  /\ mode # "none" /\ Left /\ step' = "none"
  /\ abandoned' = (abandoned \/ step \in {"changing", "picking"})
  /\ UNCHANGED <<madeTracks, joins, signals, watcherVars, mistold>>

\* From watching, the panel joins anew to speak.
toggleMute ==
  /\ mode = "watch" /\ joining = "none" /\ step = "none" /\ joins < MaxJoins
  /\ mode' = "none" /\ joining' = "voice" /\ joins' = joins + 1
  /\ UNCHANGED <<sharingScreen, published, madeTracks, step, signals, events, watcherVars,
                 abandoned, mistold>>

\* From outside, or from watching, it joins anew to share.
ShareFromOutside ==
  /\ mode \in {"none", "watch"} /\ joining = "none" /\ step = "none" /\ joins < MaxJoins
  /\ mode' = "none" /\ joining' = "screen" /\ joins' = joins + 1 /\ step' = "starting"
  /\ UNCHANGED <<sharingScreen, published, madeTracks, signals, events, watcherVars, abandoned,
                 mistold>>

toggleScreenShare ==
  /\ mode \in {"voice", "screen"} /\ step = "none"
  /\ IF sharingScreen THEN step' = "stopping" /\ publishScreenShareSignal("stopped")
     ELSE step' = "starting" /\ UNCHANGED signals
  /\ UNCHANGED <<mode, joining, sharingScreen, published, madeTracks, joins, events, watcherVars,
                 abandoned, mistold>>

PickScreen ==
  /\ step = "starting" /\ mode \in {"voice", "screen"} /\ step' = "none"
  /\ TrackComes /\ sharingScreen' = ~sharingScreen
  /\ UNCHANGED <<mode, joining, joins, signals, watcherVars, abandoned, mistold>>

PickNone ==
  /\ step = "starting" /\ mode \in {"voice", "screen"} /\ step' = "none"
  /\ UNCHANGED <<mode, joining, sharingScreen, published, madeTracks, joins, signals, events,
                 watcherVars, abandoned, mistold>>

\* The track's own handler has cleared the flag when the click inverts it; one who only
\* shared leaves then.
StopScreen ==
  /\ step = "stopping" /\ step' = "none" /\ TrackGoes
  /\ IF published = 0 THEN UNCHANGED signals ELSE publishScreenShareSignal("stopped")
  /\ IF mode = "screen" THEN mode' = "none" /\ sharingScreen' = FALSE
     ELSE sharingScreen' = (published # 0) /\ UNCHANGED mode
  /\ UNCHANGED <<joining, madeTracks, joins, watcherVars, abandoned, mistold>>

\* The browser's own button.
LocalTrackUnpublished ==
  /\ published # 0 /\ TrackGoes /\ sharingScreen' = FALSE
  /\ IF step = "changing" THEN UNCHANGED signals ELSE publishScreenShareSignal("stopped")
  /\ UNCHANGED <<mode, joining, madeTracks, joins, step, watcherVars, abandoned, mistold>>

changeScreenShare ==
  /\ mode # "none" /\ sharingScreen /\ step = "none" /\ step' = "changing"
  /\ publishScreenShareSignal("switching")
  /\ UNCHANGED <<mode, joining, sharingScreen, published, madeTracks, joins, events, watcherVars,
                 abandoned, mistold>>

OldScreenGoes ==
  /\ step = "changing" /\ step' = "picking" /\ TrackGoes /\ sharingScreen' = FALSE
  /\ UNCHANGED <<mode, joining, madeTracks, joins, signals, watcherVars, abandoned, mistold>>

PickOther ==
  /\ step = "picking" /\ step' = "none" /\ TrackComes /\ sharingScreen' = TRUE
  /\ UNCHANGED <<mode, joining, joins, signals, watcherVars, abandoned, mistold>>

\* No other screen is picked, or the old one cannot be stopped: the watchers are told in
\* either case that it has been.
ChangeFails ==
  /\ step \in {"changing", "picking"} /\ step' = "none" /\ publishScreenShareSignal("stopped")
  /\ mistold' = (mistold \/ published # 0)
  /\ UNCHANGED <<mode, joining, sharingScreen, published, madeTracks, joins, events, watcherVars,
                 abandoned>>

\* The watchers have been told, and then the screen cannot be stopped.
StopFails ==
  /\ step = "stopping" /\ step' = "none" /\ mistold' = (mistold \/ published # 0)
  /\ UNCHANGED <<mode, joining, sharingScreen, published, madeTracks, joins, signals, events,
                 watcherVars, abandoned>>

---------------------------------------------------------------------------
\* The watcher's panel.
TrackSubscribed ==
  /\ events # <<>> /\ Head(events).is = "subscribed" /\ events' = Tail(events)
  /\ screen' = [track |-> Head(events).track, isSwitching |-> FALSE]
  /\ UNCHANGED <<sharerVars, signals, timers, overtakenSignal, abandoned, mistold>>

TrackUnsubscribed ==
  /\ events # <<>> /\ Head(events).is = "unsubscribed" /\ events' = Tail(events)
  /\ timers' = timers \cup {Head(events).track}
  /\ UNCHANGED <<sharerVars, signals, screen, overtakenSignal, abandoned, mistold>>

\* A signal of somebody LiveKit does not list, as it does not yet or no longer, is dropped;
\* one that could not be published, of which nobody is told, is dropped here as well.
SignalDropped ==
  /\ signals # <<>> /\ signals' = Tail(signals)
  /\ mistold' = (mistold \/ (Head(signals).state = "stopped" /\ screen.isSwitching))
  /\ UNCHANGED <<sharerVars, events, watcherVars, abandoned>>

applyScreenShareSignal ==
  /\ signals # <<>> /\ signals' = Tail(signals)
  /\ screen' = IF Head(signals).state = "stopped" \/ screen = NoScreen THEN NoScreen
               ELSE [screen EXCEPT !.isSwitching = TRUE]
  /\ overtakenSignal' = (overtakenSignal \/ screen.track > Head(signals).of)
  /\ UNCHANGED <<sharerVars, events, timers, abandoned, mistold>>

\* A mutant: any screen of the sharer goes.
AnyTrack(s, n) == ~s.isSwitching
Expired(s, n) == s.track = n /\ ~s.isSwitching

removeSharedScreen(n) ==
  /\ n \in timers /\ timers' = timers \ {n}
  /\ screen' = IF Expired(screen, n) THEN NoScreen ELSE screen
  /\ UNCHANGED <<sharerVars, signals, events, overtakenSignal, abandoned, mistold>>

\* Leaves and joins again: the screens there are, and none of what was on its way.
syncSharedScreens ==
  /\ joins < MaxJoins /\ joins' = joins + 1
  /\ screen' = [track |-> published, isSwitching |-> FALSE]
  /\ signals' = <<>> /\ events' = <<>> /\ timers' = {}
  /\ UNCHANGED <<mode, joining, sharingScreen, published, madeTracks, step, overtakenSignal,
                 abandoned, mistold>>

MeetingNext ==
  \/ \E m \in {"voice", "watch"} : join(m)
  \/ Joined \/ JoinFails \/ leave \/ toggleMute \/ ShareFromOutside
  \/ toggleScreenShare \/ PickScreen \/ PickNone \/ StopScreen \/ LocalTrackUnpublished
  \/ changeScreenShare \/ OldScreenGoes \/ PickOther \/ ChangeFails \/ StopFails
  \/ TrackSubscribed \/ TrackUnsubscribed \/ applyScreenShareSignal \/ SignalDropped
  \/ syncSharedScreens
  \/ \E n \in timers : removeSharedScreen(n)

MeetingSpec == MeetingInit /\ [][MeetingNext]_meetingVars

---------------------------------------------------------------------------
AllTold == step = "none" /\ signals = <<>> /\ events = <<>> /\ timers = {}

\* When all has arrived, the watcher sees the track that is shared, not marked as being
\* changed, or no screen: unless the sharer left in the middle of a change, which leaves
\* the mark on, a signal was overtaken by a newer track, a stop failed that had been told,
\* or a stop was lost that would have taken the mark away.
ScreenIsShared ==
  AllTold => \/ screen = [track |-> published, isSwitching |-> FALSE]
             \/ overtakenSignal \/ abandoned \/ mistold

=============================================================================
