---------------------------- MODULE ShareTarget ----------------------------
(***************************************************************************)
(* Files shared to the installed app (Web Share Target): the service       *)
(* worker stashes them in a cache under their names, writes a manifest and *)
(* redirects; the files page reads manifest and files one by one, removes  *)
(* both and asks for a folder.  Workers and pages of several shares share  *)
(* one cache.                                                              *)
(***************************************************************************)
EXTENDS Integers, Sequences

CONSTANTS Shares,      \* shares the user makes
          Content,     \* the names of the files of each share, which may be alike
          TargetFolders, NoShare, ShellCache, ShareCache, OldCache

Keys == UNION {{Content[s][i] : i \in DOMAIN Content[s]} : s \in Shares}

ASSUME ShareAssumption == /\ \A s \in Shares : Content[s] \in Seq(Keys) \ {<<>>}
                          /\ NoShare \notin Shares
                          /\ ShellCache # ShareCache

VARIABLES caches,    \* names of the caches there are
          stash,     \* per name, the file [of, nr] whose bytes are stashed
          manifest,  \* the share the manifest lists, or NoShare
          worker,    \* per share, the files stashed so far
          page,      \* per share, how far its page is
          readFor,   \* per share, the share whose manifest its page has read
          done,      \* per share, the files of that list its page is done with
          pendingFiles,   \* per share, the files its page has read: [name, bytes]
          target,    \* per share, the folder chosen in its dialog
          uploaded,  \* what has been handed to the upload workflow
          harmed     \* ghost: shares of which another one took something unread

targetVars == <<caches, stash, manifest, worker, page, readFor, done, pendingFiles, target,
                uploaded, harmed>>

NoBytes == [of |-> NoShare, nr |-> 0]

TargetInit ==
  /\ caches = {ShellCache, OldCache} /\ stash = [n \in Keys |-> NoBytes] /\ manifest = NoShare
  /\ worker = [s \in Shares |-> 0] /\ page = [s \in Shares |-> "none"]
  /\ readFor = [s \in Shares |-> NoShare] /\ done = [s \in Shares |-> 0]
  /\ pendingFiles = [s \in Shares |-> <<>>]
  /\ target \in [Shares -> TargetFolders] /\ uploaded = {} /\ harmed = {}

\* The shares, other than s, that lose something with what is in o.
Unread == {"none", "loading", "read"}
Harm(s, o) == {t \in Shares \ {s} : t \in o /\ page[t] \in Unread}

---------------------------------------------------------------------------
\* The POST reaches the worker, which puts the files one after the other.
StashFile(s) ==
  /\ worker[s] < Len(Content[s]) /\ page[s] = "none"
  /\ worker' = [worker EXCEPT ![s] = @ + 1] /\ caches' = caches \cup {ShareCache}
  /\ LET n == Content[s][worker[s] + 1] IN
     /\ stash' = [stash EXCEPT ![n] = [of |-> s, nr |-> worker[s] + 1]]
     /\ harmed' = harmed \cup Harm(s, {stash[n].of})
  /\ UNCHANGED <<manifest, page, readFor, done, pendingFiles, target, uploaded>>

\* Last the manifest, and the redirect that loads the page.
PutManifest(s) ==
  /\ worker[s] = Len(Content[s]) /\ page[s] = "none"
  /\ caches' = caches \cup {ShareCache} /\ manifest' = s
  /\ page' = [page EXCEPT ![s] = "loading"]
  /\ harmed' = harmed \cup Harm(s, {manifest})
  /\ UNCHANGED <<stash, worker, readFor, done, pendingFiles, target, uploaded>>

\* A mutant: the share cache is cleared with the old shells.
KeepShell == {ShellCache}
KeepCaches == {ShellCache, ShareCache}

\* A new worker installs its shell and activates: caches it does not keep go,
\* with what is in them.
Activate ==
  /\ caches' = (caches \cup {ShellCache}) \cap KeepCaches
  /\ stash' = IF ShareCache \in KeepCaches THEN stash ELSE [n \in Keys |-> NoBytes]
  /\ manifest' = IF ShareCache \in KeepCaches THEN manifest ELSE NoShare
  /\ UNCHANGED <<worker, page, readFor, done, pendingFiles, target, uploaded, harmed>>

---------------------------------------------------------------------------
Turn(s, p) == page' = [page EXCEPT ![s] = p]

\* useShareTarget, once somebody is signed in; without a session the login page
\* takes over and the share is never picked up.
ReadManifest(s) ==
  /\ page[s] = "loading"
  /\ \/ Turn(s, "unseen") /\ UNCHANGED readFor
     \/ manifest = NoShare /\ Turn(s, "empty") /\ UNCHANGED readFor
     \/ /\ manifest # NoShare /\ Turn(s, "read")
        /\ readFor' = [readFor EXCEPT ![s] = manifest]
  /\ UNCHANGED <<caches, stash, manifest, worker, done, pendingFiles, target, uploaded, harmed>>

\* The files the manifest lists are read; missing ones are left out.
ReadFile(s) ==
  LET names == Content[readFor[s]]
      n == names[done[s] + 1] IN
  /\ page[s] = "read" /\ done[s] < Len(names)
  /\ done' = [done EXCEPT ![s] = @ + 1]
  /\ pendingFiles' = IF stash[n] = NoBytes THEN pendingFiles
                     ELSE [pendingFiles EXCEPT ![s] = Append(@, [name |-> n, bytes |-> stash[n]])]
  /\ UNCHANGED <<caches, stash, manifest, worker, page, readFor, target, uploaded, harmed>>

\* The manifest is removed, and then the files.
RemoveManifest(s) ==
  /\ page[s] = "read" /\ done[s] = Len(Content[readFor[s]])
  /\ Turn(s, "cleaning") /\ done' = [done EXCEPT ![s] = 0]
  /\ manifest' = NoShare /\ harmed' = harmed \cup Harm(s, {manifest})
  /\ UNCHANGED <<caches, stash, worker, readFor, pendingFiles, target, uploaded>>

RemoveFile(s) ==
  /\ page[s] = "cleaning" /\ done[s] < Len(Content[readFor[s]])
  /\ done' = [done EXCEPT ![s] = @ + 1]
  /\ LET n == Content[readFor[s]][done[s] + 1] IN
     /\ stash' = [stash EXCEPT ![n] = NoBytes]
     /\ harmed' = harmed \cup Harm(s, {stash[n].of})
  /\ UNCHANGED <<caches, manifest, worker, page, readFor, pendingFiles, target, uploaded>>

Offer(s) ==
  /\ page[s] = "cleaning" /\ done[s] = Len(Content[readFor[s]])
  /\ Turn(s, IF pendingFiles[s] = <<>> THEN "empty" ELSE "offered")
  /\ UNCHANGED <<caches, stash, manifest, worker, readFor, done, pendingFiles, target,
                 uploaded, harmed>>

\* A step that fails ends the reading: nothing is offered, and the rest stays in the cache.
ReadingFails(s) ==
  /\ page[s] \in {"loading", "read", "cleaning"} /\ Turn(s, "failed")
  /\ UNCHANGED <<caches, stash, manifest, worker, readFor, done, pendingFiles, target,
                 uploaded, harmed>>

\* The dialog: the user browses to a folder, uploads there, or closes it.
ShareTargetDialog(s) ==
  /\ page[s] = "offered"
  /\ \/ \E d \in TargetFolders : target' = [target EXCEPT ![s] = d] /\ UNCHANGED <<page, uploaded>>
     \/ /\ uploaded' = uploaded \cup {[file |-> pendingFiles[s][i], folder |-> target[s]] :
                                       i \in DOMAIN pendingFiles[s]}
        /\ Turn(s, "closed") /\ UNCHANGED target
     \/ Turn(s, "closed") /\ UNCHANGED <<target, uploaded>>
  /\ UNCHANGED <<caches, stash, manifest, worker, readFor, done, pendingFiles, harmed>>

TargetNext ==
  \/ Activate
  \/ \E s \in Shares : \/ StashFile(s) \/ PutManifest(s) \/ ReadManifest(s) \/ ReadFile(s)
                       \/ RemoveManifest(s) \/ RemoveFile(s) \/ Offer(s) \/ ReadingFails(s)
                       \/ ShareTargetDialog(s)

TargetSpec == TargetInit /\ [][TargetNext]_targetVars

---------------------------------------------------------------------------
\* Of the first k files of a share, is j the last with the name n?
LastNamed(s, k, n, j) == /\ j \in 1..k /\ Content[s][j] = n
                         /\ \A i \in 1..k : Content[s][i] = n => i <= j

Whole(s) ==
  /\ Len(pendingFiles[s]) = Len(Content[s])
  /\ \A i \in DOMAIN Content[s] :
       /\ pendingFiles[s][i].name = Content[s][i]
       /\ pendingFiles[s][i].bytes.of = s
       /\ LastNamed(s, Len(Content[s]), Content[s][i], pendingFiles[s][i].bytes.nr)

\* A share whose page could read the cache is offered in full and in order, with its own
\* bytes (of files that share a name, each time those of the last), unless another share
\* took something of it from the cache before its page had read it: by stashing a file of
\* the same name, writing its manifest, or cleaning up.  A new worker, other shares under
\* way, and what shares nobody picked up have left in the cache take nothing.
SharesArrive ==
  \A s \in Shares \ harmed : page[s] \in {"empty", "offered"} => Whole(s)
=============================================================================
