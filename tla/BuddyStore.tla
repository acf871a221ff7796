----------------------------- MODULE BuddyStore -----------------------------
(***************************************************************************)
(* The archives a peer keeps for a buddy: the pushes it receives, at the   *)
(* same time or one after another, the quota it holds against them, the    *)
(* page of the receiver, which lists them, deletes them and sets the       *)
(* quota, and the page of the sender, which lists what it pushed and       *)
(* deletes there.  A file is named after the second its body began.        *)
(***************************************************************************)
EXTENDS Naturals, FiniteSets, FiniteSetsExt

CONSTANTS Pushes,            \* archives pushed, each of one unit
          LastSecond,         \* bound: the clock
          Quotas             \* the quotas the receiver may set, in units

ASSUME BuddyAssumption == LastSecond \in Nat /\ Quotas \subseteq Nat \ {0}

Unlimited == 0               \* no quota is stored
Seconds == 0..LastSecond

VARIABLES clock,
          push,              \* a push: "new", "arrived", "admitted", "open", "written",
                             \* "refused", "failed" or "kept" once it was answered
          at,                \* the second its file is named after
          files,             \* the pushes whose bytes each file has; a file with none is gone
          receive_quota_bytes, peer_stored_bytes,
          quotaGB,           \* what the receiver typed
          buddyReceived, pushedArchives,     \* the lists of the two pages
          deleted,           \* ghost: files a user deleted
          shared             \* ghost: pushes whose file another push opened too

rcvVars == <<push, at, files, shared>>
quotaVars == <<receive_quota_bytes, peer_stored_bytes, quotaGB>>
listVars == <<buddyReceived, pushedArchives>>
buddyVars == <<clock, rcvVars, quotaVars, listVars, deleted>>

BuddyInit ==
  /\ clock = 0 /\ push = [p \in Pushes |-> "new"] /\ at = [p \in Pushes |-> 0]
  /\ files = [s \in Seconds |-> {}] /\ shared = {} /\ deleted = {}
  /\ receive_quota_bytes = Unlimited /\ peer_stored_bytes = 0 /\ quotaGB = Unlimited
  /\ buddyReceived = {} /\ pushedArchives = {}

ListReceived == {s \in Seconds : files[s] # {}}
TotalStoredBytes == Cardinality(ListReceived)

---------------------------------------------------------------------------
\* The whole body is read, then the quota is looked at.  The length of a pushed body is
\* not known, so an archive counts for nothing until it is stored.
effective == Max({receive_quota_bytes, peer_stored_bytes})

Room == receive_quota_bytes = Unlimited \/ TotalStoredBytes <= effective

\* A mutant: a file is named after the day.
DayName(s) == 0
SecondName(s) == s

BuddyPush(p) ==
  /\ push[p] = "new" /\ push' = [push EXCEPT ![p] = "arrived"]
  /\ UNCHANGED <<clock, at, files, shared, quotaVars, listVars, deleted>>

ensureBuddyReceiveQuota(p) ==
  /\ push[p] = "arrived"
  /\ push' = [push EXCEPT ![p] = IF Room THEN "admitted" ELSE "refused"]
  /\ UNCHANGED <<clock, at, files, shared, quotaVars, listVars, deleted>>

\* The file is created, or one of that name is emptied; then the body is copied.
OpenFile(p) ==
  /\ push[p] = "admitted" /\ push' = [push EXCEPT ![p] = "open"]
  /\ at' = [at EXCEPT ![p] = SecondName(clock)]
  /\ files' = [files EXCEPT ![SecondName(clock)] = {p}]
  /\ shared' = LET same == {q \in Pushes : push[q] \in {"open", "written", "kept"}
                                            /\ at[q] = clock}
               IN IF same = {} THEN shared ELSE shared \cup same \cup {p}
  /\ deleted' = deleted \ {SecondName(clock)}
  /\ UNCHANGED <<clock, quotaVars, listVars>>

\* The copy ends, or fails and removes whatever has the name.
Receive(p) ==
  /\ push[p] = "open"
  /\ \/ /\ push' = [push EXCEPT ![p] = "written"]
        /\ files' = [files EXCEPT ![at[p]] = IF @ = {} THEN {} ELSE @ \cup {p}]
     \/ /\ push' = [push EXCEPT ![p] = "failed"] /\ files' = [files EXCEPT ![at[p]] = {}]
  /\ UNCHANGED <<clock, at, shared, quotaVars, listVars, deleted>>

\* The answer tells the sender the total, which raises what the sender grants in turn.
BuddyReceive(p) ==
  /\ push[p] = "written" /\ push' = [push EXCEPT ![p] = "kept"]
  /\ UNCHANGED <<clock, at, files, shared, quotaVars, listVars, deleted>>

NextSecond ==
  /\ clock < LastSecond /\ clock' = clock + 1
  /\ UNCHANGED <<rcvVars, quotaVars, listVars, deleted>>

---------------------------------------------------------------------------
\* The receiver's page: its list is fetched when it opens and after a deletion.
refetchBuddyReceived ==
  /\ buddyReceived # ListReceived /\ buddyReceived' = ListReceived
  /\ UNCHANGED <<clock, rcvVars, quotaVars, pushedArchives, deleted>>

deleteBuddy(s) ==
  /\ s \in buddyReceived /\ files' = [files EXCEPT ![s] = {}] /\ deleted' = deleted \cup {s}
  /\ UNCHANGED <<clock, push, at, shared, quotaVars, listVars>>

\* The sender's page: what its peer keeps, asked for over the tunnel or directly.
refetchPushedArchives ==
  /\ pushedArchives # ListReceived /\ pushedArchives' = ListReceived
  /\ UNCHANGED <<clock, rcvVars, quotaVars, buddyReceived, deleted>>

deletePushed(s) ==
  /\ s \in pushedArchives /\ files' = [files EXCEPT ![s] = {}] /\ deleted' = deleted \cup {s}
  /\ UNCHANGED <<clock, push, at, shared, quotaVars, listVars>>

\* The quota: typed in whole gigabytes, empty for none, and shown as it is stored.
typeQuota ==
  /\ \E q \in Quotas \cup {Unlimited} : q # quotaGB /\ quotaGB' = q
  /\ UNCHANGED <<clock, rcvVars, receive_quota_bytes, peer_stored_bytes, listVars, deleted>>

setQuota ==
  /\ quotaGB # receive_quota_bytes /\ receive_quota_bytes' = quotaGB
  /\ UNCHANGED <<clock, rcvVars, peer_stored_bytes, quotaGB, listVars, deleted>>

\* What we keep at the peer, as the last push of ours was answered.
UpdateLastPush ==
  /\ \E n \in Quotas \cup {0} : n # peer_stored_bytes /\ peer_stored_bytes' = n
  /\ UNCHANGED <<clock, rcvVars, receive_quota_bytes, quotaGB, listVars, deleted>>

BuddyNext ==
  \/ \E p \in Pushes : \/ BuddyPush(p) \/ ensureBuddyReceiveQuota(p) \/ OpenFile(p)
                       \/ Receive(p) \/ BuddyReceive(p)
  \/ \E s \in Seconds : deleteBuddy(s) \/ deletePushed(s)
  \/ NextSecond \/ refetchBuddyReceived \/ refetchPushedArchives
  \/ typeQuota \/ setQuota \/ UpdateLastPush

BuddySpec == BuddyInit /\ [][BuddyNext]_buddyVars

---------------------------------------------------------------------------
\* An archive whose push was answered is kept whole until somebody deletes it, unless
\* another push opened the file of that second.
AnsweredIsKept ==
  \A p \in Pushes \ shared : push[p] = "kept" =>
      files[at[p]] = {p} \/ at[p] \in deleted

=============================================================================
