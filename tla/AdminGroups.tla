----------------------------- MODULE AdminGroups -----------------------------
(***************************************************************************)
(* Groups on the users page: the groups tab, and the dialog that makes a   *)
(* new user with the groups picked, or made, in its search field; another  *)
(* administrator changes the groups meanwhile.                             *)
(***************************************************************************)
EXTENDS Naturals, Sequences, FiniteSets

CONSTANTS GroupNames, NoName, MaxGroups, MaxUsers, MaxPanelCalls

ASSUME GroupsAssumption ==
  /\ GroupNames # {} /\ NoName \notin GroupNames
  /\ MaxGroups \in Nat /\ MaxUsers \in Nat /\ MaxPanelCalls \in Nat

VARIABLES groups,            \* the server's: name by id, NoName for one that is gone
          newUsers,          \* users made: the groups they are in, and were meant for
          known, asking,     \* the page's copy of the groups, and its request for it
          shown,             \* whether the dialog is open
          selected,          \* the groups picked in it
          wanted, unsure,    \* ghosts: what was clicked for; a click came while one was made
          adding, creating,  \* its two calls
          editId,            \* the groups tab: the group being renamed
          panelCalls         \* its calls

dialogVars == <<shown, selected, wanted, unsure, adding, creating>>
panelVars == <<editId, panelCalls>>
groupVars == <<groups, newUsers, known, asking, dialogVars, panelVars>>

NotNow == [at |-> "none"]
NoGroup == 0
There == {g \in DOMAIN groups : groups[g] # NoName}
KnownIds == {g \in DOMAIN known : known[g] # NoName}
Taken(n) == \E g \in There : groups[g] = n

GroupsInit ==
  /\ groups = <<CHOOSE n \in GroupNames : TRUE>> /\ newUsers = <<>>
  /\ known = groups /\ asking = NotNow /\ shown = FALSE
  /\ selected = {} /\ wanted = {} /\ unsure = FALSE /\ adding = NotNow /\ creating = NotNow
  /\ editId = NoGroup /\ panelCalls = {}

---------------------------------------------------------------------------
\* The list.  An invalidation starts the request anew.
AskGroups ==
  /\ asking = NotNow /\ known # groups /\ asking' = [at |-> "asked"]
  /\ UNCHANGED <<groups, newUsers, known, dialogVars, panelVars>>

AnswerGroups ==
  /\ asking.at = "asked" /\ asking' = [at |-> "served", has |-> groups]
  /\ UNCHANGED <<groups, newUsers, known, dialogVars, panelVars>>

TakeGroups ==
  /\ asking.at = "served" /\ known' = asking.has /\ asking' = NotNow
  /\ UNCHANGED <<groups, newUsers, dialogVars, panelVars>>

\* Bound: nobody changes the groups after the last new user.
OtherAdmin ==
  /\ Len(newUsers) < MaxUsers
  /\ \/ \E n \in GroupNames : ~Taken(n) /\ Len(groups) < MaxGroups /\ groups' = Append(groups, n)
     \/ \E g \in There : groups' = [groups EXCEPT ![g] = NoName]
  /\ UNCHANGED <<newUsers, known, asking, dialogVars, panelVars>>

---------------------------------------------------------------------------
\* From the users tab: the groups tab is left, and forgets what was being renamed; its
\* calls go on for nobody.  Bound: not while the call of an earlier dialog is under way.
OpenNewUser ==
  /\ ~shown /\ creating = NotNow /\ Len(newUsers) < MaxUsers /\ shown' = TRUE
  /\ editId' = NoGroup /\ panelCalls' = {[c EXCEPT !.here = FALSE] : c \in panelCalls}
  /\ UNCHANGED <<groups, newUsers, known, asking, selected, wanted, unsure, adding, creating>>

\* The field of the dialog: pick, remove a badge, type, or make what is typed.  A
\* badge is drawn for a group the page knows.
Picks(sel, want) ==
  selected' = sel /\ wanted' = want /\ unsure' = (unsure \/ adding # NotNow) /\ UNCHANGED adding

GroupCombobox ==
  /\ shown
  /\ \/ \E g \in KnownIds \ selected : Picks(selected \cup {g}, wanted \cup {g})
     \/ \E g \in KnownIds \cap selected : Picks(selected \ {g}, wanted \ {g})
     \/ \E typed \in GroupNames :
          /\ adding = NotNow /\ \A g \in KnownIds : known[g] # typed
          /\ adding' = [at |-> "posting", name |-> typed, had |-> selected]
          /\ UNCHANGED <<selected, wanted, unsure>>
  /\ UNCHANGED <<groups, newUsers, known, asking, shown, creating, panelVars>>

\* The new group; an error is swallowed.
PostGroup ==
  /\ adding.at = "posting"
  /\ \/ /\ ~Taken(adding.name) /\ Len(groups) < MaxGroups
        /\ groups' = Append(groups, adding.name) /\ asking' = [at |-> "asked"]
        /\ adding' = [at |-> "refreshing", had |-> adding.had, id |-> Len(groups) + 1]
        /\ wanted' = wanted \cup {Len(groups) + 1}
     \/ adding' = NotNow /\ UNCHANGED <<groups, asking, wanted>>
  /\ UNCHANGED <<newUsers, known, shown, selected, unsure, creating, panelVars>>

\* The picks are those of the moment the button was pressed, and the new one.
createAndAdd ==
  /\ adding.at = "refreshing" /\ asking = NotNow
  /\ selected' = adding.had \cup {adding.id} /\ adding' = NotNow
  /\ UNCHANGED <<groups, newUsers, known, asking, shown, wanted, unsure, creating, panelVars>>

Unmounted == shown' = FALSE /\ selected' = {} /\ wanted' = {} /\ unsure' = FALSE
             /\ adding' = NotNow

\* Create takes the picks there are now; a dialog that is closed leaves its call behind.
NewUserDialog ==
  /\ shown
  /\ \/ creating = NotNow
        /\ creating' = [at |-> "posting", ids |-> selected, meant |-> wanted,
                        sure |-> ~unsure /\ adding = NotNow]
        /\ UNCHANGED <<shown, selected, wanted, unsure, adding>>
     \/ Unmounted /\ UNCHANGED creating
  /\ UNCHANGED <<groups, newUsers, known, asking, panelVars>>

\* A membership of a group that is gone breaks the transaction, though its error is
\* not looked at: the user is made with every group asked for, or not at all.
\* A mutant: the groups that are gone are skipped.
SkipGone(ids) == [made |-> TRUE, in |-> ids \cap There]
Insert(ids) == IF ids \subseteq There THEN [made |-> TRUE, in |-> ids] ELSE [made |-> FALSE]
CreateUser ==
  /\ creating.at = "posting"
  /\ LET done == Insert(creating.ids) IN
     \/ /\ done.made /\ Unmounted
        /\ newUsers' = Append(newUsers, [in |-> done.in, meant |-> creating.meant,
                                        sure |-> creating.sure])
     \/ UNCHANGED <<newUsers, shown, selected, wanted, unsure, adding>>
  /\ creating' = NotNow
  /\ UNCHANGED <<groups, known, asking, panelVars>>

---------------------------------------------------------------------------
\* The groups tab.
Pending(do) == \E c \in panelCalls : c.do = do /\ c.here
PanelSends(do, id, n) ==
  /\ panelCalls' = panelCalls \cup {[do |-> do, id |-> id, name |-> n, here |-> TRUE,
                                    at |-> "sent"]}
  /\ UNCHANGED editId

GroupsPanel ==
  /\ ~shown /\ Cardinality(panelCalls) < MaxPanelCalls /\ Len(newUsers) < MaxUsers
  /\ \/ \E name \in GroupNames : ~Pending("create") /\ PanelSends("create", NoGroup, name)
     \/ \E g \in KnownIds \cup {NoGroup} : editId' = g /\ UNCHANGED panelCalls
     \/ editId # NoGroup /\ ~Pending("update")
        /\ \E n \in GroupNames : PanelSends("update", editId, n)
     \/ \E g \in KnownIds : PanelSends("remove", g, NoName)
  /\ UNCHANGED <<groups, newUsers, known, asking, dialogVars>>

Applied(c) ==
  \/ /\ c.do = "create" /\ ~Taken(c.name) /\ Len(groups) < MaxGroups
     /\ groups' = Append(groups, c.name)
  \/ c.do = "update" /\ c.id \in There /\ ~Taken(c.name) /\ groups' = [groups EXCEPT ![c.id] = c.name]
  \/ c.do = "remove" /\ c.id \in There /\ groups' = [groups EXCEPT ![c.id] = NoName]

ServePanel(c) ==
  /\ c.at = "sent"
  /\ \/ /\ Applied(c) /\ asking' = [at |-> "asked"]
        /\ panelCalls' = (panelCalls \ {c}) \cup {[c EXCEPT !.at = "refreshing"]}
     \/ panelCalls' = panelCalls \ {c} /\ UNCHANGED <<groups, asking>>
  /\ UNCHANGED <<newUsers, known, dialogVars, editId>>

PanelDone(c) ==
  /\ c.at = "refreshing" /\ asking = NotNow /\ panelCalls' = panelCalls \ {c}
  /\ editId' = IF c.do = "update" /\ c.here THEN NoGroup ELSE editId
  /\ UNCHANGED <<groups, newUsers, known, asking, dialogVars>>

GroupsNext ==
  \/ AskGroups \/ AnswerGroups \/ TakeGroups \/ OtherAdmin
  \/ OpenNewUser \/ GroupCombobox \/ PostGroup \/ createAndAdd \/ NewUserDialog \/ CreateUser
  \/ GroupsPanel \/ \E c \in panelCalls : ServePanel(c) \/ PanelDone(c)

GroupsSpec == GroupsInit /\ [][GroupsNext]_groupVars

---------------------------------------------------------------------------
\* A user is made in the groups that the administrator picked and made for it, or not at
\* all when one of them has gone, but for a click or the button while a group was being
\* made: the picks of the moment it was asked for come back with it.
CreatedAsPicked ==
  \A u \in DOMAIN newUsers : newUsers[u].sure => newUsers[u].in = newUsers[u].meant

=============================================================================
