---------------------------- MODULE AppPasswords ----------------------------
(***************************************************************************)
(* The app passwords of one user: the two dialogs that list, make and      *)
(* revoke them, and the server's check of one, which is slow and is        *)
(* therefore remembered for a while.  Nothing tells the memory of a        *)
(* revocation, and a check that began before one ends after it.            *)
(***************************************************************************)
EXTENDS Naturals, FiniteSets

CONSTANTS Secrets,           \* passwords the server may generate
          Requests,          \* WebDAV requests under way at once
          CacheTTL           \* ticks a checked password is remembered

ASSUME AppPasswordAssumption == CacheTTL \in Nat \ {0}

VARIABLES app_passwords,     \* "none", "live" or "revoked"
          scoped,            \* those restricted to the one shared file
          passwords,         \* the list of each dialog, fetched when it was
          revealed,          \* the password a dialog shows, once, or "none"
          creatingPassword,          \* creations under way of each dialog
          credCache,         \* ticks a password is still remembered for, 0 for not
          verifying,         \* the password a request has read and is hashing
          since,             \* ticks since the revocation, counted to CacheTTL
          outlived           \* ghost: passwords remembered by a check that a
                             \* revocation overtook

passwordDialogVars == <<passwords, revealed, creatingPassword>>
checkVars == <<credCache, verifying, outlived>>
passwordVars == <<app_passwords, scoped, passwordDialogVars, checkVars, since>>

Dialogs == {"webdav", "share"}
MaxCreating == 2             \* bound: Enter pressed again before the answer

AppPasswordInit ==
  /\ app_passwords = [p \in Secrets |-> "none"] /\ scoped = {}
  /\ passwords = [d \in Dialogs |-> {}] /\ revealed = [d \in Dialogs |-> "none"]
  /\ creatingPassword = [d \in Dialogs |-> 0]
  /\ credCache = [p \in Secrets |-> 0] /\ verifying = [r \in Requests |-> "none"]
  /\ since = [p \in Secrets |-> 0] /\ outlived = {}

Live == {p \in Secrets : app_passwords[p] = "live"}
List(d) == IF d = "share" THEN Live \cap scoped ELSE Live

---------------------------------------------------------------------------
\* The button waits for the answer; the Enter key of the first dialog does not.
create(d) ==
  /\ creatingPassword[d] < (IF d = "webdav" THEN MaxCreating ELSE 1)
  /\ creatingPassword' = [creatingPassword EXCEPT ![d] = @ + 1]
  /\ UNCHANGED <<app_passwords, scoped, passwords, revealed, checkVars, since>>

\* The answer replaces the password that is shown, and the list is fetched again.
CreatePassword(d) ==
  /\ creatingPassword[d] > 0 /\ creatingPassword' = [creatingPassword EXCEPT ![d] = @ - 1]
  /\ \E p \in Secrets :
       /\ app_passwords[p] = "none"
       /\ app_passwords' = [app_passwords EXCEPT ![p] = "live"]
       /\ scoped' = IF d = "share" THEN scoped \cup {p} ELSE scoped
       /\ revealed' = [revealed EXCEPT ![d] = p]
  /\ UNCHANGED <<passwords, checkVars, since>>

\* A creation that fails leaves a message.
CreateFails(d) ==
  /\ creatingPassword[d] > 0 /\ creatingPassword' = [creatingPassword EXCEPT ![d] = @ - 1]
  /\ UNCHANGED <<app_passwords, scoped, passwords, revealed, checkVars, since>>

setRevealed(d) ==
  /\ revealed[d] # "none" /\ revealed' = [revealed EXCEPT ![d] = "none"]
  /\ UNCHANGED <<app_passwords, scoped, passwords, creatingPassword, checkVars, since>>

\* Each dialog fetches when it opens and after its own changes.
fetchPasswords(d) ==
  /\ passwords[d] # List(d) /\ passwords' = [passwords EXCEPT ![d] = List(d)]
  /\ UNCHANGED <<app_passwords, scoped, revealed, creatingPassword, checkVars, since>>

Revoke(d, p) ==
  /\ p \in passwords[d] /\ app_passwords[p] = "live"
  /\ app_passwords' = [app_passwords EXCEPT ![p] = "revoked"]
  /\ since' = [since EXCEPT ![p] = 0]
  /\ UNCHANGED <<scoped, passwordDialogVars, checkVars>>

---------------------------------------------------------------------------
\* A password that is not remembered: the live rows are read, and the hash is compared.
ValidateAppPassword(r, p) ==
  /\ verifying[r] = "none" /\ credCache[p] = 0 /\ p \in Live
  /\ verifying' = [verifying EXCEPT ![r] = p]
  /\ UNCHANGED <<app_passwords, scoped, passwordDialogVars, credCache, outlived, since>>

StoreCredential(r) ==
  /\ verifying[r] # "none" /\ verifying' = [verifying EXCEPT ![r] = "none"]
  /\ credCache' = [credCache EXCEPT ![verifying[r]] = CacheTTL]
  /\ outlived' = IF verifying[r] \in Live THEN outlived ELSE outlived \cup {verifying[r]}
  /\ UNCHANGED <<app_passwords, scoped, passwordDialogVars, since>>

\* A mutant: what is remembered does not grow old.
Ageless(p) == credCache[p]
Aged(p) == IF credCache[p] = 0 THEN 0 ELSE credCache[p] - 1

CacheTick ==
  /\ credCache' = [p \in Secrets |-> Aged(p)]
  /\ since' = [p \in Secrets |-> IF app_passwords[p] = "revoked" /\ since[p] < CacheTTL
                                 THEN since[p] + 1 ELSE since[p]]
  /\ UNCHANGED <<app_passwords, scoped, passwordDialogVars, verifying, outlived>>

AppPasswordNext ==
  \/ \E d \in Dialogs : \/ create(d) \/ CreatePassword(d) \/ CreateFails(d)
                        \/ setRevealed(d) \/ fetchPasswords(d)
                        \/ \E p \in Secrets : Revoke(d, p)
  \/ \E r \in Requests : StoreCredential(r) \/ \E p \in Secrets : ValidateAppPassword(r, p)
  \/ CacheTick

AppPasswordSpec == AppPasswordInit /\ [][AppPasswordNext]_passwordVars

---------------------------------------------------------------------------
\* A request is let in by what is remembered, or by a live row.
Accepted(p) == credCache[p] > 0 \/ p \in Live

\* A revoked password is refused once the time it may be remembered has passed, unless
\* a check under way at the revocation remembered it afterwards.
RefusedInTime ==
  \A p \in Secrets \ outlived :
      app_passwords[p] = "revoked" /\ since[p] = CacheTTL => ~Accepted(p)

=============================================================================
