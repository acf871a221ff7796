----------------------------- MODULE TextEditor -----------------------------
(***************************************************************************)
(* The built-in text editor (TextEditor.tsx) over one file: the text on    *)
(* screen, the cached content and the cached row it was opened from, the   *)
(* save that looks at the row's stamp and then puts the text, and another  *)
(* editor of the same file.  The server writes a text over the blob, then  *)
(* stamps the row, then reads the row again for its answer.  Texts are     *)
(* numbers, a new one for every edit; so are the writes of the blob, and   *)
(* the row's stamp is the number of the write it was set for.              *)
(***************************************************************************)
EXTENDS Naturals, FiniteSets

CONSTANTS MaxText, MaxWrites,     \* bounds: texts ever typed, writes of the blob
          NoText,
          PageTime    \* the stamp the page makes up when the answer has none

ASSUME EditorAssumption ==
  /\ MaxText \in Nat /\ MaxWrites \in Nat
  /\ NoText \notin Nat /\ PageTime \notin Nat

VARIABLES file,       \* the blob: its text, its write, and whether it is over a megabyte
          stamp,      \* the row's updated_at
          writes,     \* writes of the blob so far
          unstamped,  \* writes whose row has still to be stamped
          texts,      \* texts typed so far
          listed,     \* the stamp in the cached listing
          cachedContent,     \* the cached answer of the preview request
          editing,       \* whether the editor is shown
          text,       \* what Monaco shows, NoText before it is mounted
          original,   \* originalContent
          dirty,
          seenStamp,  \* serverUpdatedAt
          save,       \* the save in flight; mine: its editor is still open
          basis,      \* ghost: the write of the file the text derives from
          cut,        \* ghost: of which the text is only the first megabyte
          gap         \* ghost: the row was stamped between check and put

serverVars == <<file, stamp, writes, unstamped>>
editorShown == <<editing, text, original, dirty, seenStamp, basis, cut>>
editorVars == <<serverVars, texts, listed, cachedContent, editorShown, save, gap>>

NoSave == [at |-> "idle", sent |-> NoText, stamp |-> 0, mine |-> FALSE]
NotCached == [text |-> NoText, write |-> 0, big |-> FALSE]

EditorInit ==
  /\ \E big \in BOOLEAN : file = [text |-> 0, write |-> 0, big |-> big]
  /\ stamp = 0 /\ writes = 0 /\ unstamped = {}
  /\ texts = 0 /\ listed = 0 /\ cachedContent = NotCached
  /\ editing = FALSE /\ text = NoText /\ original = NoText /\ dirty = FALSE /\ seenStamp = 0
  /\ save = NoSave /\ basis = 0 /\ cut = FALSE /\ gap = FALSE

---------------------------------------------------------------------------
\* The server's part.  A write goes over the blob that is there.
storageWrite(t) ==
  /\ writes < MaxWrites /\ writes' = writes + 1
  /\ \E big \in BOOLEAN : file' = [text |-> t, write |-> writes', big |-> big]
  /\ unstamped' = unstamped \cup {writes'}

\* The row of the write w is stamped.
StampRow(w) ==
  /\ stamp' = w /\ unstamped' = unstamped \ {w}
  /\ gap' = (gap \/ save.at = "putting")
  /\ UNCHANGED <<file, writes, texts, listed, cachedContent, editorShown, save>>

\* The write or the statement fails, or the request is cancelled: an editor that waits is
\* told that the save has failed.
NotStamped(w) ==
  /\ unstamped' = unstamped \ {w}
  /\ save' = IF save.at = "written" /\ save.stamp = w THEN NoSave ELSE save
  /\ UNCHANGED <<file, stamp, writes, texts, listed, cachedContent, editorShown, gap>>

\* Another editor of the file saves.
OtherSaves ==
  /\ texts < MaxText /\ texts' = texts + 1 /\ storageWrite(texts + 1)
  /\ UNCHANGED <<stamp, listed, cachedContent, editorShown, save, gap>>

\* The blob is not what its row was stamped for: a save is between its two writes, or has
\* failed there, or two saves have overtaken one another.
BlobAhead == file.write # stamp

---------------------------------------------------------------------------
\* The listing is fetched again, by its own refresh or an invalidation.
ListFiles == /\ listed' = stamp
             /\ UNCHANGED <<serverVars, texts, cachedContent, editorShown, save, gap>>

Mounted(c) == text' = c.text /\ basis' = c.write /\ cut' = c.big

\* The editor opens on a row of the listing; a cached content is shown at once,
\* unless it has been collected in the meantime.
OpenEditor ==
  /\ ~editing
  /\ \E c \in {cachedContent, NotCached} : cachedContent' = c /\ original' = c.text /\ Mounted(c)
  /\ editing' = TRUE /\ dirty' = FALSE /\ seenStamp' = listed
  /\ UNCHANGED <<serverVars, texts, listed, save, gap>>

\* The content arrives, of a file that is large by its row the first megabyte; Monaco takes
\* it only when it is mounted with it.
Preview == IF BlobAhead THEN {file, [file EXCEPT !.big = FALSE]} ELSE {file}

ContentFetched ==
  /\ editing
  /\ \E c \in Preview :
        /\ cachedContent' = c /\ original' = c.text
        /\ IF text = NoText THEN Mounted(c) ELSE UNCHANGED <<text, basis, cut>>
  /\ UNCHANGED <<serverVars, texts, listed, editing, dirty, seenStamp, save, gap>>

Type == /\ editing /\ text # NoText /\ texts < MaxText
        /\ texts' = texts + 1 /\ text' = texts + 1 /\ dirty' = (text' # original)
        /\ UNCHANGED <<serverVars, listed, cachedContent, editing, original, seenStamp, save,
                       basis, cut, gap>>

handleRevert == /\ editing /\ dirty /\ text # NoText
                /\ text' = original /\ dirty' = FALSE
                /\ UNCHANGED <<serverVars, texts, listed, cachedContent, editing, original,
                               seenStamp, save, basis, cut, gap>>

---------------------------------------------------------------------------
\* Save, by the button or Ctrl+S: the text is taken now.
Save == /\ editing /\ dirty /\ text # NoText /\ save = NoSave
        /\ save' = [at |-> "checking", sent |-> text, stamp |-> seenStamp, mine |-> TRUE]
        /\ gap' = FALSE
        /\ UNCHANGED <<serverVars, texts, listed, cachedContent, editorShown>>

\* A mutant: the put goes out whatever the row's stamp is.
AnyStamp(s) == TRUE
\* The row must still carry the stamp the editor knows.
SameStamp(s) == s = save.stamp

CheckStamp ==
  /\ save.at = "checking"
  /\ save' = IF SameStamp(stamp) THEN [save EXCEPT !.at = "putting"] ELSE NoSave
  /\ UNCHANGED <<serverVars, texts, listed, cachedContent, editorShown, gap>>

\* The put replaces the content; the save now waits for the stamp of its write.
PutContent ==
  /\ save.at = "putting" /\ storageWrite(save.sent)
  /\ save' = [save EXCEPT !.at = "written", !.stamp = writes + 1]
  /\ UNCHANGED <<stamp, texts, listed, cachedContent, editorShown, gap>>

\* The row has been stamped, and the answer carries the stamp it has by now, or none when
\* it could not be read.  onSuccess takes what the editor shows by now for what was saved.
Saved ==
  /\ save.at = "written" /\ save.stamp \notin unstamped /\ save' = NoSave /\ listed' = stamp
  /\ IF save.mine
       THEN /\ original' = text /\ dirty' = FALSE /\ seenStamp' \in {stamp, PageTime}
            /\ basis' = save.stamp /\ cut' = FALSE
       ELSE UNCHANGED <<original, dirty, seenStamp, basis, cut>>
  /\ UNCHANGED <<serverVars, texts, cachedContent, editing, text, gap>>

\* A request or its answer is lost: the server goes on with what it has begun.
SaveFails == /\ save.at # "idle" /\ save' = NoSave
             /\ UNCHANGED <<serverVars, texts, listed, cachedContent, editorShown, gap>>

---------------------------------------------------------------------------
\* Leaving, with unsaved changes after a confirmation: a save in flight goes
\* on, but the editor that would take its answer is gone.
handleClose ==
  /\ editing /\ editing' = FALSE /\ text' = NoText /\ dirty' = FALSE
  /\ save' = [save EXCEPT !.mine = FALSE]
  /\ UNCHANGED <<serverVars, texts, listed, cachedContent, original, seenStamp, basis, cut,
                 gap>>

EditorNext == \/ ListFiles \/ OpenEditor \/ ContentFetched \/ Type \/ handleRevert
              \/ Save \/ CheckStamp \/ PutContent \/ Saved \/ SaveFails
              \/ handleClose \/ OtherSaves
              \/ \E w \in unstamped : StampRow(w) \/ NotStamped(w)

EditorSpec == EditorInit /\ [][EditorNext]_editorVars

---------------------------------------------------------------------------
\* A put replaces what its writer was shown, whole or the first megabyte of a larger file,
\* but for the holes the code leaves: the row was stamped between the check and the put;
\* the blob was written without its row; or the text was mounted, or is taken for saved,
\* beside the stamp of another write.
OverwritesOnlyThroughGaps ==
  [][PutContent /\ save.mine => \/ basis = file.write /\ (cut => file.big)
                               \/ gap \/ BlobAhead \/ basis # seenStamp]_editorVars

=============================================================================
