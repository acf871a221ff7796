------------------------------ MODULE Playlist ------------------------------
(***************************************************************************)
(* The music player (PlaylistProvider and the sidebar's players): the      *)
(* tracks of the open list are fetched without cancelling the fetch        *)
(* before, every edit writes the whole list as the client shows it, the    *)
(* audio element follows the current index, and the open list is saved to  *)
(* the server by a timer that each change starts again (the index, volume  *)
(* and mode saved along with it are not told apart).                       *)
(***************************************************************************)
EXTENDS Integers, FiniteSets, SequencesExt

CONSTANTS Lists, Tracks,
          Stored,            \* what the lists hold at first
          NoList, NoTrack,
          Absent,            \* a list not made yet
          playlistMaxTracks,
          MaxEdits           \* bound: edits and lists opened

ASSUME PlaylistAssumption ==
  /\ IsFiniteSet(Tracks) /\ Absent \notin Seq(Tracks)
  /\ Stored \in [Lists -> Seq(Tracks) \cup {Absent}] /\ NoList \notin Lists /\ NoTrack \notin Tracks
  /\ playlistMaxTracks \in Nat /\ MaxEdits \in Nat

VARIABLES content,       \* the lists on the server
          remote,        \* the open list the server keeps for all devices
          mounting,      \* whether the request for it is still out
          activePlaylistId, tracks, currentIndex, pendingIndex,
          prevIndex,     \* the index the audio element was last loaded for, or -1
          src,           \* the track it has loaded
          shuffle,
          loads,         \* fetches of tracks in flight
          edits,         \* edits in flight
          timer,         \* the state waiting to be saved, if any
          made,          \* edits and openings so far
          overtaken,     \* ghost: an edit or answer has met another one on its way, or
                         \* an edit was made on a list whose tracks were not to be had
          partial,       \* ghost: the server left tracks out of what it last answered for
                         \* the list shown, or failed half-way through writing it
          astray         \* ghost: an addition has come back with other tracks than were
                         \* sent, and the audio element was not loaded since

playVars == <<content, remote, mounting, activePlaylistId, tracks, currentIndex, pendingIndex,
              prevIndex, src, shuffle, loads, edits, timer, made, overtaken, partial, astray>>
gaps == <<partial, astray>>
audio == <<tracks, currentIndex, prevIndex, src, gaps>>

NoTimer == [armed |-> FALSE, id |-> NoList]
Reset == -1                          \* prevIndexRef.current
Known == {p \in Lists : content[p] # Absent}
Load(p) == [list |-> p, at |-> "asked", rows |-> <<>>]

\* A device starts with what it has cached, and asks the server for the rest.
PlayInit ==
  /\ content = Stored
  /\ remote \in Known \cup {NoList} /\ mounting = TRUE
  /\ \E cache \in Known \cup {NoList} :
       /\ activePlaylistId = cache /\ timer = [armed |-> TRUE, id |-> cache]
       /\ loads = IF cache = NoList THEN {} ELSE {Load(cache)}
  /\ pendingIndex \in 0..1
  /\ tracks = <<>> /\ currentIndex = 0 /\ prevIndex = Reset /\ src = NoTrack
  /\ shuffle \in BOOLEAN
  /\ edits = {} /\ made = 0 /\ overtaken = FALSE /\ partial = FALSE /\ astray = FALSE

---------------------------------------------------------------------------
\* A change of what is saved clears the timer and starts another.
RestartTimer == [armed |-> TRUE, id |-> activePlaylistId']
SavedState == <<activePlaylistId, currentIndex, shuffle>>
Persist == timer' = IF SavedState' = SavedState THEN timer ELSE RestartTimer

\* The tracks and the index shown, and the effect that keeps the audio element's
\* source in step unless prevIndexRef says it is (as it may when others came than were sent).
Show(ts, i, prev, others) ==
  /\ tracks' = ts /\ currentIndex' = i
  /\ \/ /\ i < Len(ts) /\ prev # i /\ prevIndex' = i /\ src' = ts[i + 1] /\ astray' = FALSE
     \/ /\ i >= Len(ts) \/ prev = i
        /\ prevIndex' = prev /\ astray' = (astray \/ others) /\ UNCHANGED src

SaveTimerFires ==
  /\ timer.armed /\ timer' = NoTimer
  /\ \/ remote' = timer.id \/ UNCHANGED remote         \* .catch: ignored
  /\ UNCHANGED <<content, mounting, activePlaylistId, audio, shuffle, pendingIndex, loads, edits, made,
                 overtaken>>

\* The effect on activePlaylistId: none closes the player, another is fetched.
Opened(id) ==
  \/ id = activePlaylistId /\ UNCHANGED <<activePlaylistId, tracks, currentIndex, src, loads>>
  \/ /\ id # activePlaylistId /\ id = NoList /\ activePlaylistId' = id
     /\ tracks' = <<>> /\ currentIndex' = 0 /\ src' = NoTrack /\ UNCHANGED loads
  \/ /\ id # activePlaylistId /\ id # NoList /\ activePlaylistId' = id
     /\ loads' = loads \cup {Load(id)} /\ UNCHANGED <<tracks, currentIndex, src>>

\* The server's state replaces what the device had open by then.
RestoreMount ==
  /\ mounting /\ mounting' = FALSE
  /\ \/ /\ remote # NoList /\ pendingIndex' \in 0..1 /\ shuffle' \in BOOLEAN /\ Opened(remote)
        /\ overtaken' = (overtaken \/ edits # {})
     \/ \* none is kept, or the request fails: what the device has cached stays
        UNCHANGED <<pendingIndex, shuffle, activePlaylistId, tracks, currentIndex, src, loads,
                    overtaken>>
  /\ UNCHANGED <<content, remote, prevIndex, edits, made, gaps>> /\ Persist

\* What the server may keep of a list: a track it cannot look up, or that is not music
\* the user may reach, is left out without a word.
SomeOf(s) ==
  UNION {{[i \in 1..n |-> s[f[i]]] :
            f \in {g \in [1..n -> 1..Len(s)] : \A i, j \in 1..n : i < j => g[i] < g[j]}} :
         n \in 0..Len(s)}
AnswerAt(kept, all) == IF kept = all THEN "served" ELSE "cut"

ServeLoad(l) ==
  /\ l.at = "asked"
  /\ \E kept \in SomeOf(content[l.list]) :
       loads' = (loads \ {l})
                \cup {[l EXCEPT !.at = AnswerAt(kept, content[l.list]), !.rows = kept]}
  /\ UNCHANGED <<content, remote, mounting, activePlaylistId, audio, shuffle, pendingIndex, edits, timer,
                 made, overtaken>>

\* Whatever list is open by now, the answer is shown.
TakeLoad(l) ==
  /\ loads' = loads \ {l}
  /\ \/ LET start == IF pendingIndex < Len(l.rows) THEN pendingIndex ELSE 0
        IN /\ l.at # "asked" /\ pendingIndex' = 0
           /\ tracks' = l.rows /\ currentIndex' = start
           /\ src' = IF l.rows = <<>> THEN src ELSE l.rows[start + 1]
           /\ prevIndex' = IF l.rows = <<>> THEN prevIndex ELSE start
           /\ overtaken' = (overtaken \/ l.list # activePlaylistId)
           /\ partial' = (l.at = "cut") /\ astray' = (astray /\ l.rows = <<>>)
     \/ tracks' = <<>> /\ UNCHANGED <<currentIndex, prevIndex, src, pendingIndex, overtaken, gaps>>
  /\ UNCHANGED <<content, remote, mounting, activePlaylistId, shuffle, edits, made>> /\ Persist

---------------------------------------------------------------------------
\* A list is played from the files page.
setPlaylist(p) ==
  /\ p \in Known /\ made < MaxEdits /\ made' = made + 1
  /\ pendingIndex' = 0 /\ prevIndex' = Reset /\ Opened(p)
  /\ overtaken' = (overtaken \/ edits # {})
  /\ UNCHANGED <<content, remote, mounting, shuffle, edits, gaps>> /\ Persist

clearPlaylist ==
  /\ activePlaylistId # NoList /\ Opened(NoList)
  /\ overtaken' = (overtaken \/ edits # {} \/ loads # {})
  /\ UNCHANGED <<content, remote, mounting, pendingIndex, prevIndex, shuffle, edits, made, gaps>>
  /\ Persist

playTrackAtIndex(i) ==
  /\ i < Len(tracks) /\ currentIndex' = i /\ prevIndex' = i /\ src' = tracks[i + 1]
  /\ astray' = FALSE
  /\ UNCHANGED <<content, remote, mounting, activePlaylistId, tracks, shuffle, pendingIndex, loads,
                 edits, made, overtaken, partial>>
  /\ Persist

\* Shuffled, any other track follows; otherwise the next, if there is one.
Following(i) == IF shuffle THEN i # currentIndex ELSE i = currentIndex + 1

\* The end of the track that plays, the buttons of the players, and the media keys,
\* which do the same.
onEnded == src # NoTrack /\ \E i \in 0..2 : Following(i) /\ playTrackAtIndex(i)
jumpTo(i) == i # currentIndex /\ playTrackAtIndex(i)
nextTrack == \E i \in 0..2 : Following(i) /\ playTrackAtIndex(i)
prevTrack == currentIndex > 0 /\ playTrackAtIndex(currentIndex - 1)
MediaSession == nextTrack \/ prevTrack

toggleShuffle ==
  /\ shuffle' = ~shuffle
  /\ UNCHANGED <<content, remote, mounting, activePlaylistId, audio, pendingIndex, loads, edits, made,
                 overtaken>>
  /\ Persist

\* An edit goes to the list that is open at the click, and is made from the tracks shown
\* then, whatever is read before it is sent.
EditNow(kind) == [kind |-> kind, list |-> activePlaylistId, new |-> tracks, gone |-> 0,
                  from |-> {}, at |-> "sent"]
ListChange(e) ==
  /\ made < MaxEdits /\ made' = made + 1 /\ edits' = edits \cup {e}
  /\ UNCHANGED <<content, remote, mounting, activePlaylistId, audio, shuffle, pendingIndex, loads,
                 timer>>
Edit(e) ==
  /\ activePlaylistId # NoList /\ ListChange(e)
  /\ overtaken' = (overtaken \/ edits # {} \/ loads # {} \/ tracks = <<>>)

\* The cross beside a track; the last one cannot be taken out.
removeTrack(i) ==
  /\ i < Len(tracks) /\ Len(tracks) > 1
  /\ Edit([EditNow("remove") EXCEPT !.new = RemoveAt(tracks, i + 1), !.gone = i])

First(s, n) == SubSeq(s, 1, IF Len(s) < n THEN Len(s) ELSE n)

\* What is added comes last, as much of it as fits.
AddedLast(shown, F) ==
  shown \o First(SetToSeq(F \ ToSet(shown)), playlistMaxTracks - Len(shown))

\* Files chosen for the open list: those it has not, if there is room.
addTracks(F) ==
  /\ AddedLast(tracks, F) # tracks
  /\ Edit([EditNow("add") EXCEPT !.new = AddedLast(tracks, F)])

\* A list is made of files, and opened when the server has answered.
createPlaylist(F, p, at) ==
  /\ F # {} /\ content[p] = Absent /\ \A e \in edits : e.list # p
  /\ ListChange([EditNow("create") EXCEPT !.list = p, !.new = AddedLast(<<>>, F), !.at = at])
  /\ overtaken' = (overtaken \/ edits # {})

\* The files page: a list is made of the selected files; the music in a folder, or in
\* another list, is looked up first.
handleCreatePlaylist == \E F \in SUBSET Tracks, p \in Lists : createPlaylist(F, p, "sent")
doCreateFolderPlaylist(F) == \E p \in Lists : createPlaylist(F, p, "reading")
handlePlaylistContextAction(F) ==
  IF activePlaylistId = NoList THEN doCreateFolderPlaylist(F)
  ELSE Edit([EditNow("add") EXCEPT !.from = F, !.at = "reading"])
handleAddToPlayerContextAction(p) ==
  p \in Known /\ Edit([EditNow("add") EXCEPT !.from = p, !.at = "reading"])
handleAddToQueueContextAction(t) == Len(tracks) < playlistMaxTracks /\ addTracks({t})

\* These entries of a row's context menu, and the button over the selection.
PlaylistMenu == \/ \E F \in SUBSET Tracks : handlePlaylistContextAction(F)
                \/ \E p \in Lists : handleAddToPlayerContextAction(p)
                \/ \E t \in Tracks : handleAddToQueueContextAction(t)
                \/ handleCreatePlaylist

\* What was looked up is sent, unless there is nothing to add or the look-up failed.
Found(from) == IF from \in Known THEN SUBSET ToSet(content[from]) ELSE {from}
LookedUp(e) ==
  \E F \in Found(e.from) :
     LET new == IF e.kind = "add" THEN AddedLast(e.new, F) ELSE e.new IN
     /\ e.at = "reading"
     /\ \/ /\ e.kind = "create" \/ new # e.new
           /\ edits' = (edits \ {e}) \cup {[e EXCEPT !.new = new, !.at = "sent"]}
        \/ edits' = edits \ {e}
     /\ UNCHANGED <<content, remote, mounting, activePlaylistId, audio, shuffle, pendingIndex, loads,
                    timer, made, overtaken>>

\* A mutant: a refusal is taken for an answer.
RefusalIgnored(e) == IF e.kind = "create" THEN edits \ {e}
                     ELSE (edits \ {e}) \cup {[e EXCEPT !.at = "served"]}
\* A refusal throws: nothing of the edit is shown.
Refusal(e) == edits \ {e}

\* The list is written in place, so that a write that fails leaves any part of it.
ServeEdit(e) ==
  /\ e.at = "sent"
  /\ \/ \E kept \in SomeOf(e.new) \ {<<>>} :
          /\ content' = [content EXCEPT ![e.list] = kept]
          /\ edits' = (edits \ {e}) \cup {[e EXCEPT !.at = AnswerAt(kept, e.new)]}
          /\ UNCHANGED partial
     \/ edits' = Refusal(e) /\ UNCHANGED <<content, partial>>
     \/ /\ e.kind # "create" /\ edits' = Refusal(e) /\ partial' = TRUE
        /\ \E left \in SomeOf(e.new) : content' = [content EXCEPT ![e.list] = left]
  /\ UNCHANGED <<remote, mounting, activePlaylistId, tracks, currentIndex, prevIndex, src, shuffle,
                 pendingIndex, loads, timer, made, overtaken, astray>>

\* Taking out the track that plays makes the effect load its successor.
Unsynced(gone) == IF gone = currentIndex THEN Reset ELSE prevIndex

\* The edit is answered: the list as it was sent, or after an addition as it is
\* fetched again, whatever is open by now.
EditDone(e) ==
  LET n == Len(e.new)
      last == IF currentIndex < n THEN currentIndex ELSE n - 1
  IN /\ e.at \in {"served", "cut"} /\ edits' = edits \ {e}
     /\ \/ /\ e.kind = "remove" /\ partial' = (e.at = "cut")
           /\ Show(e.new, IF e.gone < currentIndex THEN currentIndex - 1
                          ELSE IF e.gone = currentIndex THEN last ELSE currentIndex,
                   Unsynced(e.gone), FALSE)
           /\ UNCHANGED <<activePlaylistId, pendingIndex, loads, overtaken>>
        \/ /\ e.kind = "add"
           /\ \E kept \in SomeOf(content[e.list]) :
                /\ Show(kept, currentIndex, prevIndex, kept # e.new)
                /\ partial' = (kept # content[e.list])
           /\ UNCHANGED <<activePlaylistId, pendingIndex, loads, overtaken>>
        \/ /\ e.kind = "create" /\ pendingIndex' = 0 /\ prevIndex' = Reset /\ Opened(e.list)
           /\ overtaken' = (overtaken \/ edits # {e}) /\ UNCHANGED gaps
     /\ UNCHANGED <<content, remote, mounting, shuffle, made>> /\ Persist

\* The answer is lost: the tracks stay as they were shown.
EditLost(e) ==
  /\ e.at \in {"served", "cut"} /\ edits' = edits \ {e} /\ overtaken' = TRUE
  /\ UNCHANGED <<content, remote, mounting, activePlaylistId, audio, shuffle, pendingIndex, loads, timer,
                 made>>

---------------------------------------------------------------------------
\* The sidebar's players, drawn while a list is open, and the small screen's, which
\* has the same controls.
SidebarDesktopPlayer == /\ activePlaylistId # NoList
                        /\ \/ clearPlaylist \/ nextTrack \/ prevTrack \/ toggleShuffle
                           \/ \E i \in 0..2 : jumpTo(i) \/ removeTrack(i)
SidebarMobilePlayer == SidebarDesktopPlayer

\* Music picked for the open list; with none open a new list is made of it, and opened.
handleAddMusic(F) == IF activePlaylistId # NoList THEN addTracks(F)
                     ELSE \E p \in Lists : createPlaylist(F, p, "sent")
AddMusicDialog == \E F \in SUBSET Tracks \ {{}} : handleAddMusic(F)

PlayNext == \/ SaveTimerFires \/ RestoreMount \/ onEnded \/ MediaSession
            \/ \E l \in loads : ServeLoad(l) \/ TakeLoad(l)
            \/ \E p \in Lists : setPlaylist(p)
            \/ SidebarDesktopPlayer \/ SidebarMobilePlayer \/ AddMusicDialog \/ PlaylistMenu
            \/ \E e \in edits : LookedUp(e) \/ ServeEdit(e) \/ EditDone(e) \/ EditLost(e)

PlaySpec == PlayInit /\ [][PlayNext]_playVars

---------------------------------------------------------------------------
AtRest == loads = {} /\ edits = {} /\ ~overtaken /\ activePlaylistId # NoList

\* Unless an edit or an answer has met another one on its way, the tracks shown are those
\* the server holds (or none, when they could not be fetched) - where the server left none
\* out of its last answer for that list, and has not failed half-way through writing it.
ShownIsStored == AtRest /\ ~partial /\ tracks # <<>> => tracks = content[activePlaylistId]

\* And what plays is the track the list shows as current: removals and additions move the
\* index and the audio element together, where an addition came back as it was sent.
PlaysCurrent == AtRest /\ ~astray /\ currentIndex < Len(tracks) => src = tracks[currentIndex + 1]

\* The server's list, the list shown and the audio element agree.
PlayerAgrees == ShownIsStored /\ PlaysCurrent

=============================================================================
