------------------------------ MODULE MCPages ------------------------------
(***************************************************************************)
(* The pages a user works with: what becomes of dropped files and folders, *)
(* the share target, the files page, the text editor, the music player,    *)
(* the share dialogs, the trash, a shared screen, and signing in.  They    *)
(* share no state; a behaviour follows one of them, named by part, and the *)
(* others rest.                                                            *)
(***************************************************************************)
EXTENDS UploadChoice, TextEditor, ShareTarget, FolderUpload, FilesPage, Playlist,
        Sharing, TrashPage, SignIn, MeetingScreen

CONSTANTS x1, x2,     \* dropped files
          n1, n2,     \* their names
          s1, s2,     \* shares from other applications
          a, b, c,    \* the files in them; names of folders and files
          p1, p2,     \* playlists
          t1, t2, t3  \* tracks

VARIABLE part

MCNameOf == x1 :> n1 @@ x2 :> n2
MCContent == s1 :> <<a, b, a>> @@ s2 :> <<b, c>>
MCPaths == << <<a, c>>, <<b, c>>, <<b, c>> >>
MCStored == p1 :> <<t1, t2>> @@ p2 :> Absent

vars == <<part, choiceVars, editorVars, targetVars, folderVars, filesVars, playVars,
          shareVars, trashVars, signVars, meetingVars>>

\* What rests starts from one state.
Init ==
  /\ part \in {"choice", "editor", "target", "folder", "files", "play", "share", "trash",
               "sign", "meeting"}
  /\ ChoiceInit
  /\ part # "choice" => store = [d \in Folders |-> [n \in Names |-> NoFile]]
                        /\ shownFolder = CHOOSE d \in Folders : TRUE
  /\ TargetInit
  /\ part # "target" => \A s \in Shares : target[s] = CHOOSE d \in TargetFolders : TRUE
  /\ PlayInit
  /\ part # "play" => ~shuffle /\ remote = NoList /\ activePlaylistId = NoList /\ pendingIndex = 0
  /\ SignInit /\ (part # "sign" => ~must_change_password /\ ~mfa)
  /\ ShareInit /\ (part # "share" => shares[1].type = "user"
                                         /\ shares[1].to = CHOOSE p \in People : TRUE)
  /\ FilesInit /\ (part # "files" => \A i \in Items : place[i] = Root)
  /\ EditorInit /\ (part # "editor" => ~file.big)
  /\ FolderInit /\ TrashInit /\ MeetingInit

OthersRest ==
  /\ part' = part
  /\ part # "choice" => UNCHANGED choiceVars
  /\ part # "editor" => UNCHANGED editorVars
  /\ part # "target" => UNCHANGED targetVars
  /\ part # "folder" => UNCHANGED folderVars
  /\ part # "files" => UNCHANGED filesVars
  /\ part # "play" => UNCHANGED playVars
  /\ part # "share" => UNCHANGED shareVars
  /\ part # "trash" => UNCHANGED trashVars
  /\ part # "sign" => UNCHANGED signVars
  /\ part # "meeting" => UNCHANGED meetingVars

Next ==
  \/ part = "choice" /\ ChoiceNext /\ OthersRest
  \/ part = "editor" /\ EditorNext /\ OthersRest
  \/ part = "target" /\ TargetNext /\ OthersRest
  \/ part = "folder" /\ FolderNext /\ OthersRest
  \/ part = "files" /\ FilesNext /\ OthersRest
  \/ part = "play" /\ PlayNext /\ OthersRest
  \/ part = "share" /\ ShareNext /\ OthersRest
  \/ part = "trash" /\ TrashNext /\ OthersRest
  \/ part = "sign" /\ SignNext /\ OthersRest
  \/ part = "meeting" /\ MeetingNext /\ OthersRest

Spec == Init /\ [][Next]_vars

\* The gaps that the properties name are not followed further.  Where the server has left
\* tracks out, the player is followed without shuffling and without other devices.
LeftOut == partial \/ astray \/ \E x \in loads \cup edits : x.at = "cut"
Calm == /\ ~disturbed /\ ~overtaken /\ loose = {} /\ ~behind /\ crossing = {}
        /\ overtakenLogins = {} /\ tokenRaced = {}
        /\ ~overtakenSignal /\ ~abandoned /\ ~mistold /\ Len(signals) <= 3
        /\ unrevoked = {} \/ \E q \in Browsers : changing[q] = "stored"
        /\ LeftOut => ~shuffle /\ remote = NoList

\* Files of the files page are alike, and the browsers.
Alike == Permutations(Items \ {SubFolder}) \cup Permutations(Browsers)
=============================================================================
