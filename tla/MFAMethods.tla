----------------------------- MODULE MFAMethods -----------------------------
(***************************************************************************)
(* The second factors of one account: the dialog that lists, adds and      *)
(* deletes them, open in several tabs, the statement that deletes one      *)
(* unless it is the last that is active, the enrolment of an authenticator *)
(* through a secret that waits for its first code, the enrolment of the    *)
(* e-mail address, and the retirement of methods nobody uses.              *)
(***************************************************************************)
EXTENDS Naturals, FiniteSets

CONSTANTS Tabs, Apps,        \* the authenticators, each a secret of its own
          email              \* the e-mail method

ASSUME MFAAssumption == email \notin Apps

VARIABLES mfa_methods,       \* a method: "none", "active" or "inactive"
          totp_pending,      \* the secret that waits for a code, or "none"
          methods,           \* the list a tab shows
          starting,          \* set-ups that have found no secret waiting
          secret,            \* the secret whose code a tab's set-up shows, or "none"
          deleting,          \* what a tab asked the server to delete, or "none"
          counted,           \* tabs whose statement has counted the active methods
          confirming,        \* the secret the server took to check a tab's code
          enrolled, crossed, \* ghosts: the account had a method; counts overlapped
          lost               \* ghost: tabs whose secret expired, was used, was written over,
                             \* or was not put back

enrolVars == <<totp_pending, starting, secret, confirming, lost>>
deleteVars == <<deleting, counted, crossed>>
mfaVars == <<mfa_methods, methods, enrolled, enrolVars, deleteVars>>

Methods == Apps \cup {email}
ActiveIn(ms) == {m \in Methods : ms[m] = "active"}
NoMethods == [m \in Methods |-> "none"]

MFAInit ==
  /\ mfa_methods = NoMethods /\ methods = [t \in Tabs |-> NoMethods]
  /\ totp_pending = "none" /\ starting = {}
  /\ secret = [t \in Tabs |-> "none"] /\ confirming = secret
  /\ deleting = secret /\ counted = {}
  /\ enrolled = FALSE /\ crossed = FALSE /\ lost = {}

---------------------------------------------------------------------------
\* A tab loads its list when it opens and after its own changes only; a set-up that it
\* shows starts anew.  Bound: not while a call of the tab is under way.
loadMethods(t) ==
  /\ deleting[t] = "none" /\ confirming[t] = "none" /\ t \notin starting
  /\ methods[t] # mfa_methods /\ methods' = [methods EXCEPT ![t] = mfa_methods]
  /\ secret' = [secret EXCEPT ![t] = "none"] /\ lost' = lost \ {t}
  /\ UNCHANGED <<mfa_methods, enrolled, totp_pending, starting, confirming, deleteVars>>

\* The button is off for the last active method of the tab's list.  Bound: nothing is
\* set up while something is being deleted.
handleDelete(t, m) ==
  /\ starting = {} /\ \A u \in Tabs : secret[u] = "none"
  /\ deleting[t] = "none" /\ methods[t][m] # "none"
  /\ methods[t][m] = "active" => Cardinality(ActiveIn(methods[t])) > 1
  /\ deleting' = [deleting EXCEPT ![t] = m]
  /\ UNCHANGED <<mfa_methods, methods, enrolled, enrolVars, counted, crossed>>

\* One statement counts and deletes; another that runs meanwhile is not in its snapshot.
\* A mutant: the statement trusts the list of the tab.
TrustList(m) == TRUE
NotLast(m) == mfa_methods[m] = "active" => Cardinality(ActiveIn(mfa_methods)) > 1

CountActive(t) ==
  /\ deleting[t] # "none" /\ t \notin counted
  /\ IF mfa_methods[deleting[t]] # "none" /\ NotLast(deleting[t])
     THEN counted' = counted \cup {t} /\ crossed' = (crossed \/ counted # {})
          /\ UNCHANGED deleting
     ELSE deleting' = [deleting EXCEPT ![t] = "none"] /\ UNCHANGED <<counted, crossed>>
  /\ UNCHANGED <<mfa_methods, methods, enrolled, enrolVars>>

DeleteMethod(t) ==
  /\ t \in counted /\ counted' = counted \ {t} /\ deleting' = [deleting EXCEPT ![t] = "none"]
  /\ mfa_methods' = [mfa_methods EXCEPT ![deleting[t]] = "none"]
  /\ UNCHANGED <<methods, enrolled, enrolVars, crossed>>

\* A verified login retires methods unused for a month, beside one that was used.
deactivateStaleMFAMethods ==
  /\ \E used \in ActiveIn(mfa_methods), stale \in SUBSET ActiveIn(mfa_methods) :
       /\ used \notin stale /\ stale # {}
       /\ mfa_methods' = [m \in Methods |-> IF m \in stale THEN "inactive"
                                            ELSE mfa_methods[m]]
  /\ crossed' = (crossed \/ counted # {})
  /\ UNCHANGED <<methods, enrolled, enrolVars, deleting, counted>>

\* An administrator's removal of all of them.
Disable ==
  /\ enrolled /\ counted = {} /\ mfa_methods' = NoMethods /\ enrolled' = FALSE
  /\ UNCHANGED <<methods, enrolVars, deleteVars>>

---------------------------------------------------------------------------
Showing(a) == {t \in Tabs : secret[t] = a}

\* The set-up asks for a secret: one that waits is shown.  Bound: the lists are up to date.
TOTPSetup(t) ==
  /\ secret[t] = "none" /\ t \notin starting
  /\ \A u \in Tabs : deleting[u] = "none" /\ methods[u] = mfa_methods
  /\ IF totp_pending # "none"
       THEN secret' = [secret EXCEPT ![t] = totp_pending] /\ UNCHANGED starting
       ELSE starting' = starting \cup {t} /\ UNCHANGED secret
  /\ UNCHANGED <<mfa_methods, methods, enrolled, totp_pending, confirming, lost, deleteVars>>

WrittenOver == IF totp_pending = "none" THEN {} ELSE Showing(totp_pending)

\* No secret was waiting, so a new one is stored, over one stored meanwhile; nobody is shown
\* it when the dialog has gone or the answer is lost.
StoreSecret(t) ==
  /\ t \in starting /\ starting' = starting \ {t}
  /\ \/ \E a \in Apps \ {totp_pending} :
          /\ mfa_methods[a] = "none" /\ \A u \in Tabs : a \notin {secret[u], confirming[u]}
          /\ totp_pending' = a /\ secret' \in {secret, [secret EXCEPT ![t] = a]}
          /\ lost' = lost \cup WrittenOver
     \/ UNCHANGED <<totp_pending, secret, lost>>
  /\ UNCHANGED <<mfa_methods, methods, enrolled, confirming, deleteVars>>

\* The secret waits ten minutes.
PendingExpires ==
  /\ totp_pending # "none" /\ totp_pending' = "none" /\ lost' = lost \cup WrittenOver
  /\ UNCHANGED <<mfa_methods, methods, enrolled, starting, secret, confirming, deleteVars>>

\* Back to the list, before a code or after the backup codes.
onCancel(t) ==
  /\ secret[t] # "none" /\ confirming[t] = "none"
  /\ secret' = [secret EXCEPT ![t] = "none"] /\ lost' = lost \ {t}
  /\ UNCHANGED <<mfa_methods, methods, enrolled, totp_pending, starting, confirming,
                 deleteVars>>

\* The server takes the secret, whichever tab it was shown in, to check the code.
handleVerify(t) ==
  /\ secret[t] # "none" /\ confirming[t] = "none" /\ totp_pending # "none"
  /\ confirming' = [confirming EXCEPT ![t] = totp_pending] /\ totp_pending' = "none"
  /\ UNCHANGED <<mfa_methods, methods, enrolled, starting, secret, lost, deleteVars>>

\* The code is one of the secret that the tab showed: it fits, or the user mistyped.
ConfirmEnroll(t) ==
  /\ confirming[t] # "none" /\ secret[t] = confirming[t]
  /\ mfa_methods' = [mfa_methods EXCEPT ![confirming[t]] = "active"] /\ enrolled' = TRUE
  /\ lost' = lost \cup Showing(confirming[t])
  /\ confirming' = [confirming EXCEPT ![t] = "none"]
  /\ UNCHANGED <<methods, totp_pending, starting, secret, deleteVars>>

\* A wrong code puts the secret back, over one that was made meanwhile.
Restore(a) == totp_pending' = a /\ lost' = (lost \cup WrittenOver) \ Showing(a)

\* Nobody looks at the error of putting it back, and a crash comes before it.
NotRestored(a) == lost' = lost \cup Showing(a) /\ UNCHANGED totp_pending

TOTPConfirm(t) ==
  /\ confirming[t] # "none" /\ (Restore(confirming[t]) \/ NotRestored(confirming[t]))
  /\ confirming' = [confirming EXCEPT ![t] = "none"]
  /\ UNCHANGED <<mfa_methods, methods, enrolled, starting, secret, deleteVars>>

---------------------------------------------------------------------------
\* The code that was mailed for the asking; an address is one method, active again.
ConfirmEmailMFA ==
  /\ mfa_methods[email] # "active"
  /\ mfa_methods' = [mfa_methods EXCEPT ![email] = "active"] /\ enrolled' = TRUE
  /\ UNCHANGED <<methods, enrolVars, deleteVars>>

MFANext ==
  \/ deactivateStaleMFAMethods \/ Disable \/ PendingExpires
  \/ ConfirmEmailMFA
  \/ \E t \in Tabs :
       \/ loadMethods(t) \/ CountActive(t) \/ DeleteMethod(t)
       \/ \E m \in Methods : handleDelete(t, m)
       \/ TOTPSetup(t) \/ StoreSecret(t) \/ onCancel(t)
       \/ handleVerify(t) \/ ConfirmEnroll(t) \/ TOTPConfirm(t)

MFASpec == MFAInit /\ [][MFANext]_mfaVars

---------------------------------------------------------------------------
\* An account that had a second factor keeps one, as long as no count overlapped another
\* deletion or a retirement.
KeptOneMethod == enrolled /\ ~crossed => ActiveIn(mfa_methods) # {}

\* handler.go: "the user can retry without rescanning": what a tab shows is the secret
\* that waits or is being checked, unless it expired, was used, was written over by a set-up
\* or a check of another tab, or was not put back.
RetryWithoutRescan ==
  \A t \in Tabs \ lost : secret[t] # "none" =>
      secret[t] \in {totp_pending} \cup {confirming[u] : u \in Tabs}

\* Neither the last second factor nor a secret that waits for its code is lost.
MethodsKept == KeptOneMethod /\ RetryWithoutRescan

=============================================================================
