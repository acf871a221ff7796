------------------------------- MODULE Sharing -------------------------------
(***************************************************************************)
(* The shares a user has given: the server's rows, the "my shares" tab     *)
(* with its dialogs (manage, reshare, revoke), which groups the rows by    *)
(* recipient, and the share dialog of one file, open in another window.    *)
(* When a share expires is left out.                                       *)
(***************************************************************************)
EXTENDS Integers, FiniteSets, Sequences

CONSTANTS Shareables,        \* files and folders that can be shared
          DialogItem,        \* the one whose share dialog is open elsewhere
          People, Link,      \* recipients, and a public link
          Grants,            \* combinations of permissions
          MaxShares, MaxCalls

ASSUME SharingAssumption ==
  /\ DialogItem \in Shareables /\ Link \notin People
  /\ MaxShares \in Nat /\ MaxCalls \in Nat

VARIABLES shares,            \* the server's rows, by id
          mine, mineAsk,     \* the tab's copy of them, and the request for it
          open, drafts,      \* its dialog: kind and recipient; the permissions in it
          busyId, works,     \* the button held down, and what the dialogs wait for
          dialogRows,        \* the share dialog's rows, each with what it was drawn with
          calls, sent,       \* calls on their way, and how many there were
          loose,             \* ghost: files and recipients whose one share is not assured
          behind             \* ghost: the tab read a new share and no dialog closed over it

tabVars == <<mine, mineAsk, open, drafts, busyId, works>>
shareVars == <<shares, tabVars, dialogRows, calls, sent, loose, behind>>

NoFetch == [at |-> "none"]
Fetch == [at |-> "asked"]
Closed == [kind |-> "none", key |-> <<Link, 0>>]
NotBusy == 0
Live == {i \in DOMAIN shares : ~shares[i].revoked}
Listed(s) == [can |-> s.can, type |-> s.type]
Snapshot == [i \in Live |-> Listed(shares[i])]

ShareInit ==
  /\ \E g \in Grants, p \in People, type \in {"user", "pending"} :
       shares = <<[item |-> DialogItem, to |-> p, type |-> type, can |-> g, revoked |-> FALSE]>>
  /\ mine = Snapshot /\ mineAsk = NoFetch /\ open = Closed /\ drafts = <<>>
  /\ busyId = NotBusy /\ works = {} /\ dialogRows = Snapshot
  /\ calls = {} /\ sent = 0 /\ loose = {} /\ behind = FALSE

---------------------------------------------------------------------------
\* The tab.  One group for each recipient, and one for each link; who has an account
\* and who is invited by address are two recipients.
getRecipientKey(i) == IF shares[i].to = Link THEN <<Link, i>> ELSE <<shares[i].to, mine[i].type>>
GroupOf(key) == {i \in DOMAIN mine : getRecipientKey(i) = key}
OpenGroup == IF open = Closed THEN {} ELSE GroupOf(open.key)

\* The buttons of a recipient's card, each of which opens a dialog.
ShareActionButtons == {"manage", "reshare", "revoke"}

\* A dialog is drawn while its recipient has shares; it drafts what it opens with.
RecipientShareCard(kind, i) ==
  /\ i \in DOMAIN mine /\ OpenGroup = {}
  /\ open' = [kind |-> kind, key |-> getRecipientKey(i)]
  /\ drafts' = [j \in GroupOf(getRecipientKey(i)) |-> mine[j].can] /\ busyId' = NotBusy
  /\ UNCHANGED <<shares, mine, mineAsk, works, dialogRows, calls, sent, loose, behind>>

CloseShareDialog ==
  /\ OpenGroup # {} /\ open' = Closed /\ drafts' = <<>>
  /\ UNCHANGED <<shares, mine, mineAsk, busyId, works, dialogRows, calls, sent, loose, behind>>

PermissionEditor(i, g) ==
  /\ open.kind = "manage" /\ i \in OpenGroup \cap DOMAIN drafts /\ busyId # i
  /\ drafts' = [drafts EXCEPT ![i] = g]
  /\ UNCHANGED <<shares, mine, mineAsk, open, busyId, works, dialogRows, calls, sent,
                 loose, behind>>

\* A dialog sends its calls together and waits for all of them.  One button is
\* held down, the last one pressed.
Send(what, target, bodies) ==
  /\ bodies # {} /\ sent < MaxCalls /\ sent' = sent + 1 /\ busyId # target /\ busyId' = target
  /\ works' = works \cup {[n |-> sent', what |-> what, size |-> Cardinality(bodies), good |-> {},
                           bad |-> {}, at |-> "calling"]}
  /\ calls' = calls \cup {[n |-> sent', body |-> b, at |-> "sent"] : b \in bodies}
  /\ UNCHANGED <<shares, mine, mineAsk, open, drafts, dialogRows, loose, behind>>

Creation(x, to, type, g) ==
  [do |-> "create", item |-> x, to |-> to, type |-> type, can |-> g]
Revocation(i) == [do |-> "revoke", id |-> i]
Change(i, g) == [do |-> "update", id |-> i, can |-> g]

AddFolder == -1
\* What is added for a recipient is sent with the type of the recipient's shares.
ManageShareDialog ==
  /\ open.kind = "manage"
  /\ \/ \E i \in OpenGroup \cap DOMAIN drafts :
          \/ Send("save", i, {Change(i, drafts[i])})
          \/ Send("remove", i, {Revocation(i)})
     \/ \E x \in Shareables, g \in Grants, i \in OpenGroup :
          shares[i].to # Link /\ Send("add", AddFolder,
                                    {Creation(x, shares[i].to, mine[i].type, g)})

ReshareDialog ==
  /\ open.kind = "reshare"
  /\ \E p \in People, g \in Grants, xs \in SUBSET {shares[i].item : i \in OpenGroup} :
       Send("reshare", AddFolder, {Creation(x, p, "user", g) : x \in xs})

RevokeShareDialog ==
  open.kind = "revoke" /\ Send("revoke", AddFolder, {Revocation(i) : i \in OpenGroup})

FocusTab ==
  /\ mineAsk' = Fetch
  /\ UNCHANGED <<shares, mine, open, drafts, busyId, works, dialogRows, calls, sent, loose, behind>>

ServeMine ==
  /\ mineAsk.at = "asked" /\ mineAsk' = [at |-> "served", has |-> Snapshot]
  /\ UNCHANGED <<shares, mine, open, drafts, busyId, works, dialogRows, calls, sent, loose, behind>>

\* The calls of w are settled and the list has been read again: the dialog goes.
Refreshed == {w \in works : w.at = "refreshing"}
Succeeded(w) ==
  \/ (w.what \in {"add", "reshare"} /\ w.good # {})
  \/ (w.what = "revoke" /\ w.bad = {})
KindOf(w) == IF w.what \in ShareActionButtons THEN w.what ELSE "manage"
Closes(ws) == \E w \in ws : Succeeded(w) /\ KindOf(w) = open.kind

CloseAfter(ws) ==
  IF Closes(ws) THEN (open' = Closed /\ drafts' = <<>>) ELSE UNCHANGED <<open, drafts>>

\* Shares the tab did not have, or had as an invitation.
Fresh(list) == {i \in DOMAIN list : i \in DOMAIN mine => list[i].type # mine[i].type}

TakeMine ==
  /\ mineAsk.at = "served" /\ mineAsk' = NoFetch /\ mine' = mineAsk.has
  /\ works' = works \ Refreshed /\ CloseAfter(Refreshed)
  /\ busyId' = IF Refreshed # {} THEN NotBusy ELSE busyId
  /\ behind' = (behind \/ (Fresh(mineAsk.has) # {} /\ ~Closes(Refreshed)))
  /\ UNCHANGED <<shares, dialogRows, calls, sent, loose>>

---------------------------------------------------------------------------
\* The server.  Create looks for the recipient's account, for a share to the account or
\* to the address, and then inserts.
isValidGranteeType(b) == b.type \in {"user", "link"}
\* A person who is not found, inactive, or could not be looked for is invited.
resolveShareRecipient(b) == IF b.type = "link" THEN {"link"} ELSE {"user", "pending"}

Duplicate(b, as) ==
  b.to # Link /\ \E i \in Live : /\ shares[i].item = b.item /\ shares[i].to = b.to
                                 /\ shares[i].type = as
\* A mutant: a second share to the same recipient is let through.
NeverConflicts(b, as) == FALSE
shareConflictMessage(b, as) == Duplicate(b, as)

\* A call of no dialog of the tab is the share dialog's.
Answered(c, ok) ==
  LET w == CHOOSE v \in works : v.n = c.n IN
  /\ calls' = calls \ {c}
  /\ IF \A v \in works : v.n # c.n
     THEN /\ dialogRows' = IF ok THEN [i \in {j \in DOMAIN shares' : ~shares'[j].revoked} |->
                                        IF i \in DOMAIN dialogRows THEN dialogRows[i]
                                        ELSE Listed(shares'[i])]
                            ELSE dialogRows
          /\ UNCHANGED tabVars
     ELSE LET done == [w EXCEPT !.good = IF ok THEN @ \cup {c.body} ELSE @,
                               !.bad = IF ok THEN @ ELSE @ \cup {c.body}]
              last == Cardinality(done.good) + Cardinality(done.bad) = w.size IN
          /\ UNCHANGED <<dialogRows, mine, open, drafts>>
          /\ IF last /\ done.good # {}
             THEN /\ mineAsk' = Fetch /\ UNCHANGED busyId
                  /\ works' = (works \ {w}) \cup {[done EXCEPT !.at = "refreshing"]}
             ELSE /\ UNCHANGED mineAsk /\ busyId' = IF last THEN NotBusy ELSE busyId
                  /\ works' = (works \ {w}) \cup (IF last THEN {} ELSE {done})

Pair(s) == <<s.item, s.to>>

\* shareExists says no when its query fails.
CheckShare(c, as) ==
  /\ c.at = "sent" /\ isValidGranteeType(c.body) /\ UNCHANGED <<shares, behind>>
  /\ \/ /\ shareConflictMessage(c.body, as) /\ UNCHANGED loose /\ Answered(c, FALSE)
     \/ /\ calls' = (calls \ {c}) \cup {[c EXCEPT !.at = as]}
        /\ loose' = loose \cup (IF shareConflictMessage(c.body, as) THEN {Pair(c.body)} ELSE {})
        /\ UNCHANGED <<tabVars, dialogRows>>

InsertShare(c) ==
  /\ c.at # "sent" /\ Len(shares) < MaxShares
  /\ shares' = Append(shares, [item |-> c.body.item, to |-> c.body.to, type |-> c.at,
                               can |-> c.body.can, revoked |-> FALSE])
  /\ loose' = loose \cup {Pair(d.body) : d \in {d \in calls \ {c} : /\ d.at = c.at
                                                              /\ Pair(d.body) = Pair(c.body)}}
  /\ UNCHANGED behind /\ Answered(c, TRUE)

Create(c) ==
  /\ c.body.do = "create"
  /\ (\E as \in resolveShareRecipient(c.body) : CheckShare(c, as)) \/ InsertShare(c)

\* The invited make an account: what was shared with the address is now theirs.
AcceptInvite(p) ==
  LET invited == {i \in Live : shares[i].to = p /\ shares[i].type = "pending"}
      known == {Pair(shares[i]) : i \in {i \in Live : shares[i].type = "user"}}
               \cup {Pair(c.body) : c \in {c \in calls : c.at = "user"}} IN
  /\ invited # {}
  /\ shares' = [i \in DOMAIN shares |->
                  IF i \in invited THEN [shares[i] EXCEPT !.type = "user"] ELSE shares[i]]
  /\ loose' = loose \cup ({Pair(shares[i]) : i \in invited} \cap known)
  /\ UNCHANGED <<tabVars, dialogRows, calls, sent, behind>>

\* Update and Revoke leave a revoked share alone.
Update(c) ==
  /\ c.body.do = "update" /\ c.body.id \in Live
  /\ shares' = [shares EXCEPT ![c.body.id].can = c.body.can]
  /\ Answered(c, TRUE) /\ UNCHANGED <<loose, behind>>

Revoke(c) ==
  /\ c.body.do = "revoke" /\ c.body.id \in Live
  /\ shares' = [shares EXCEPT ![c.body.id].revoked = TRUE]
  /\ Answered(c, TRUE) /\ UNCHANGED <<loose, behind>>

\* A share that is gone is refused, and any call can fail.
Refuse(c) ==
  /\ UNCHANGED <<shares, loose, behind>> /\ Answered(c, FALSE)

ServeShare(c) == (Create(c) \/ Update(c) \/ Revoke(c) \/ Refuse(c)) /\ UNCHANGED sent

---------------------------------------------------------------------------
\* The share dialog, in the other window.
DialogSends(b) ==
  /\ sent < MaxCalls /\ sent' = sent + 1
  /\ calls' = calls \cup {[n |-> sent', body |-> b, at |-> "sent"]}
  /\ UNCHANGED <<shares, tabVars, dialogRows, loose, behind>>

ActiveShareRow(i) ==
  /\ i \in DOMAIN dialogRows /\ shares[i].item = DialogItem
  /\ \/ DialogSends(Revocation(i))
     \/ \E g \in Grants : DialogSends(Change(i, g))

ActiveShares == \E i \in DOMAIN dialogRows : ActiveShareRow(i)

\* One share at a time is created; a group counts as one of the people.
isCreateShareDisabled == \E c \in calls : c.body.do = "create" /\ ~\E w \in works : w.n = c.n

ShareDialog ==
  /\ ~isCreateShareDisabled
  /\ \E to \in People \cup {Link}, g \in Grants :
       DialogSends(Creation(DialogItem, to, IF to = Link THEN "link" ELSE "user", g))

ShareNext ==
  \/ \E i \in DOMAIN mine :
       \/ \E kind \in ShareActionButtons : RecipientShareCard(kind, i)
       \/ \E g \in Grants : PermissionEditor(i, g)
  \/ CloseShareDialog \/ ManageShareDialog \/ ReshareDialog \/ RevokeShareDialog
  \/ FocusTab \/ ServeMine \/ TakeMine
  \/ (\E c \in calls : ServeShare(c)) \/ \E p \in People : AcceptInvite(p)
  \/ ActiveShares \/ ShareDialog

ShareSpec == ShareInit /\ [][ShareNext]_shareVars

---------------------------------------------------------------------------
\* An account has at most one share of a file that counts, and an address at most one
\* invitation to it, unless the server made two at once (it looks and inserts in two
\* steps, and the table allows it), its look-up failed, or the person made the account
\* while it was known in both ways.
OneShareEach ==
  \A i, j \in Live :
    /\ shares[i].to # Link /\ Pair(shares[i]) = Pair(shares[j])
    /\ shares[i].type = shares[j].type /\ Pair(shares[i]) \notin loose
    => i = j

\* Every share shown in the manage dialog has a draft; without one the dialog
\* cannot be drawn at all.  It holds unless the list was read with a share that was
\* made or accepted elsewhere, or is being made here.
DraftsCover == ~behind /\ open.kind = "manage" => OpenGroup \subseteq DOMAIN drafts

\* The shares of a file, and the drafts of the dialog that manages them, are in order.
SharesAgree == OneShareEach /\ DraftsCover

=============================================================================
