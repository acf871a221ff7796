------------------------------- MODULE SignIn -------------------------------
(***************************************************************************)
(* Signing in and out of one account from several browsers: the login, the *)
(* second factor, the forgotten and the forced password change, the change *)
(* of a password by a user who is signed in, and the page that polls who   *)
(* is signed in.  What was done with a password is marked with whether it  *)
(* is still the account's.  The server reads an account, compares a slow   *)
(* hash, and acts on what it read; two requests interleave in between.  A  *)
(* change stores the hash first and ends the sessions in a statement of    *)
(* its own, which may fail unseen; an administrator and an invitation set  *)
(* a password and end no session at all.                                   *)
(***************************************************************************)
EXTENDS Naturals, FiniteSets

CONSTANTS Browsers, MaxResets    \* bound: reset tokens

ASSUME SignInAssumption == MaxResets \in Nat

VARIABLES must_change_password, mfa,     \* the account
          token,      \* a reset token: "none", "live" or "used"
          spent, reused,   \* ghosts: tokens that set a password, once and again
          tokenRaced,      \* ghost: tokens two confirmations held at once
          began, live,     \* a browser's session: the password behind it, and its state
          route,      \* the page: "login", "totp", "reset", "forced" or "app"
          me,         \* the page's answer to "who is signed in" names the user
          login,      \* the password a login under way has matched
          pendingLogin,    \* the password behind a second-factor token
          link,       \* the reset token the page holds, in its address or a cookie
          confirming, \* the token a confirmation found live, 0 for none
          changing,   \* a change of password: "no", "matched" the old one, or "stored"
          replaced,   \* browsers with a newer session than their change came with
          overtakenLogins,       \* ghost: sessions begun by a login that a change overtook
          unrevoked   \* ghost: sessions a new password found, and that nothing has ended

accountVars == <<must_change_password, mfa>>
resetVars == <<token, spent, reused, tokenRaced>>
sessionVars == <<began, live, overtakenLogins, unrevoked, replaced>>
formVars == <<login, pendingLogin, link, confirming, changing>>
signVars == <<accountVars, resetVars, sessionVars, formVars, route, me>>

Tokens == 1..MaxResets
NowAt(b, p) == route' = [route EXCEPT ![b] = p]
Signed(b) == began[b] # "none" /\ live[b]
Age(f) == [b \in Browsers |-> IF f[b] = "current" THEN "old" ELSE f[b]]

\* The session that the browser's change of password came with.
OwnSession(b) == {b} \ replaced

SignInit ==
  /\ must_change_password \in BOOLEAN /\ mfa \in BOOLEAN
  /\ token = [t \in Tokens |-> "none"]
  /\ spent = {} /\ reused = {} /\ tokenRaced = {}
  /\ began = [b \in Browsers |-> "none"] /\ live = [b \in Browsers |-> FALSE]
  /\ overtakenLogins = {} /\ unrevoked = {} /\ replaced = {}
  /\ route = [b \in Browsers |-> "login"] /\ me = [b \in Browsers |-> FALSE]
  /\ login = began /\ pendingLogin = began
  /\ link = [b \in Browsers |-> 0] /\ confirming = link
  /\ changing = [b \in Browsers |-> "no"]

---------------------------------------------------------------------------
\* The login matches the password that is stored when it reads the account.
authenticateLogin(b) ==
  /\ route[b] = "login" /\ login[b] = "none"
  /\ login' = [login EXCEPT ![b] = "current"]
  /\ UNCHANGED <<accountVars, resetVars, sessionVars, pendingLogin, link, confirming, changing,
                 route, me>>

\* A session for the password pw; its cookie replaces the browser's.
CreateSession(b, pw) ==
  /\ began' = [began EXCEPT ![b] = pw] /\ live' = [live EXCEPT ![b] = TRUE]
  /\ overtakenLogins' = IF pw = "current" THEN overtakenLogins \ {b} ELSE overtakenLogins \cup {b}
  /\ unrevoked' = unrevoked \ {b}
  /\ replaced' = IF changing[b] = "no" THEN replaced ELSE replaced \cup {b}
  /\ me' = [me EXCEPT ![b] = TRUE] /\ NowAt(b, "app")

GenerateResetToken(t) ==
  /\ token[t] = "none" /\ \A s \in 1..(t - 1) : token[s] # "none"
  /\ token' = [s \in Tokens |-> IF s = t THEN "live"
                               ELSE IF token[s] = "live" THEN "used" ELSE token[s]]

Login(b) ==
  /\ login[b] # "none" /\ login' = [login EXCEPT ![b] = "none"]
  /\ \/ /\ must_change_password /\ NowAt(b, "forced")
        /\ \E t \in Tokens : GenerateResetToken(t) /\ link' = [link EXCEPT ![b] = t]
        /\ UNCHANGED <<sessionVars, me, pendingLogin>>
     \/ /\ ~must_change_password /\ mfa
        /\ pendingLogin' = [pendingLogin EXCEPT ![b] = login[b]] /\ NowAt(b, "totp")
        /\ UNCHANGED <<sessionVars, me, token, link>>
     \/ /\ ~must_change_password /\ ~mfa /\ CreateSession(b, login[b])
        /\ UNCHANGED <<token, link, pendingLogin>>
  /\ UNCHANGED <<accountVars, spent, reused, tokenRaced, confirming, changing>>

\* The right code spends the second-factor token.
TOTPVerify(b) ==
  /\ route[b] = "totp" /\ pendingLogin[b] # "none"
  /\ CreateSession(b, pendingLogin[b]) /\ pendingLogin' = [pendingLogin EXCEPT ![b] = "none"]
  /\ UNCHANGED <<accountVars, resetVars, login, link, confirming, changing>>

\* Five wrong codes, or the token's lifetime; the page links back to the login.
BackToLogin(b) ==
  /\ route[b] \in {"totp", "reset", "forced"} /\ confirming[b] = 0 /\ NowAt(b, "login")
  /\ pendingLogin' = [pendingLogin EXCEPT ![b] = "none"] /\ link' = [link EXCEPT ![b] = 0]
  /\ UNCHANGED <<accountVars, resetVars, sessionVars, login, confirming, changing, me>>

---------------------------------------------------------------------------
\* A forgotten password: a new token is mailed, and spends the one before it.
Request ==
  /\ \E t \in Tokens : GenerateResetToken(t)
  /\ UNCHANGED <<accountVars, sessionVars, formVars, spent, reused, tokenRaced, route, me>>

\* The mailed link is opened in a browser that is on its login page, or in two.
OpenLink(b, t) ==
  /\ route[b] = "login" /\ login[b] = "none" /\ token[t] # "none"
  /\ link' = [link EXCEPT ![b] = t] /\ NowAt(b, "reset")
  /\ UNCHANGED <<accountVars, resetVars, sessionVars, login, pendingLogin, confirming, changing,
                 me>>

Expire(t) ==
  /\ token[t] = "live" /\ token' = [token EXCEPT ![t] = "used"]
  /\ UNCHANGED <<accountVars, sessionVars, formVars, spent, reused, tokenRaced, route, me>>

\* A spent token that no page holds is used again here for a new one.
ForgottenLink(t) ==
  /\ token[t] = "used" /\ \A b \in Browsers : link[b] # t
  /\ token' = [token EXCEPT ![t] = "none"]
  /\ spent' = spent \ {t} /\ reused' = reused \ {t} /\ tokenRaced' = tokenRaced \ {t}
  /\ UNCHANGED <<accountVars, sessionVars, formVars, route, me>>

\* A confirmation looks its token up before its transaction.
PasswordResetConfirm(b) ==
  /\ route[b] \in {"reset", "forced"} /\ confirming[b] = 0
  /\ link[b] # 0 /\ token[link[b]] = "live"
  /\ confirming' = [confirming EXCEPT ![b] = link[b]]
  /\ tokenRaced' = IF \E c \in Browsers : confirming[c] = link[b] THEN tokenRaced \cup {link[b]}
              ELSE tokenRaced
  /\ UNCHANGED <<accountVars, token, spent, reused, sessionVars, login, pendingLogin, link,
                 changing, route, me>>

TokenUsed(t) == token' = [token EXCEPT ![t] = "used"]
\* A mutant: the sessions stay.
SessionsStay == UNCHANGED live
RevokeSessions == live' = [c \in Browsers |-> FALSE]

Confirm(b) ==
  /\ confirming[b] # 0 /\ must_change_password' = FALSE
  /\ began' = Age(began) /\ login' = Age(login) /\ pendingLogin' = Age(pendingLogin)
  /\ TokenUsed(confirming[b]) /\ RevokeSessions
  /\ spent' = spent \cup {confirming[b]}
  /\ reused' = reused \cup (spent \cap {confirming[b]})
  /\ confirming' = [confirming EXCEPT ![b] = 0] /\ link' = [link EXCEPT ![b] = 0]
  /\ unrevoked' = {} /\ NowAt(b, "login")
  /\ UNCHANGED <<mfa, tokenRaced, overtakenLogins, replaced, changing, me>>

\* A statement of the transaction fails, and all of it is undone.
ConfirmFails(b) ==
  /\ confirming[b] # 0 /\ confirming' = [confirming EXCEPT ![b] = 0]
  /\ UNCHANGED <<accountVars, resetVars, sessionVars, login, pendingLogin, link, changing,
                 route, me>>

---------------------------------------------------------------------------
\* A change of password by a user who is signed in: matched first, stored later,
\* whatever became of the session or the password meanwhile.
UpdateMe(b) ==
  /\ route[b] = "app" /\ Signed(b) /\ changing[b] = "no"
  /\ changing' = [changing EXCEPT ![b] = "matched"]
  /\ UNCHANGED <<accountVars, resetVars, sessionVars, login, pendingLogin, link, confirming,
                 route, me>>

maybeUpdatePassword(b) ==
  /\ changing[b] = "matched" /\ login' = Age(login) /\ pendingLogin' = Age(pendingLogin)
  /\ changing' = [changing EXCEPT ![b] = "stored"]
  /\ began' = [c \in Browsers |-> IF c \in OwnSession(b) /\ Signed(c) THEN "current"
                                 ELSE Age(began)[c]]
  /\ unrevoked' = (unrevoked \cup {c \in Browsers : Signed(c)}) \ OwnSession(b)
  /\ UNCHANGED <<accountVars, resetVars, live, overtakenLogins, replaced, link, confirming,
                 route, me>>

\* The statement ends every session but the request's own.
EndOtherSessions(b) == live' = [c \in Browsers |-> c \in OwnSession(b) /\ live[c]]

revokeOtherSessions(b) ==
  /\ changing[b] = "stored" /\ changing' = [changing EXCEPT ![b] = "no"]
  /\ EndOtherSessions(b) /\ unrevoked' = unrevoked \cap OwnSession(b)
  /\ replaced' = replaced \ {b}
  /\ UNCHANGED <<accountVars, resetVars, began, overtakenLogins, login, pendingLogin, link,
                 confirming, route, me>>

\* The hash cannot be stored, and the request is refused; or the sessions cannot be ended,
\* or the server stops before they are, which nobody is told.
ChangeIsCut(b) ==
  /\ changing[b] # "no" /\ changing' = [changing EXCEPT ![b] = "no"]
  /\ replaced' = replaced \ {b}
  /\ UNCHANGED <<accountVars, resetVars, began, live, overtakenLogins, unrevoked, login,
                 pendingLogin, link, confirming, route, me>>

\* A password that is set from outside ends no session.
SetPassword ==
  /\ began' = Age(began) /\ login' = Age(login) /\ pendingLogin' = Age(pendingLogin)
  /\ unrevoked' = unrevoked \cup {c \in Browsers : Signed(c)}
  /\ UNCHANGED <<accountVars, resetVars, live, overtakenLogins, replaced, link, confirming,
                 changing, route, me>>

\* An administrator sets it; a guest who is invited once more chooses one.
ResetPassword == SetPassword
InvitedAgain == SetPassword

\* The page is told it is signed out, whether or not the call reached the server.
handleLogout(b) ==
  /\ route[b] = "app" /\ me[b] /\ changing[b] = "no"
  /\ \/ began' = [began EXCEPT ![b] = "none"] /\ live' = [live EXCEPT ![b] = FALSE]
     \/ UNCHANGED <<began, live>>
  /\ me' = [me EXCEPT ![b] = FALSE] /\ NowAt(b, "login")
  /\ UNCHANGED <<accountVars, resetVars, overtakenLogins, unrevoked, replaced, formVars>>

\* An idle session ends by itself.
IdleTimeout(b) ==
  /\ Signed(b) /\ live' = [live EXCEPT ![b] = FALSE]
  /\ UNCHANGED <<accountVars, resetVars, began, overtakenLogins, unrevoked, replaced,
                 formVars, route, me>>

\* The page asks who is signed in, on its timer and on focus.
refetchMe(b) == me[b] # Signed(b)

AuthProvider(b) ==
  /\ refetchMe(b) /\ me' = [me EXCEPT ![b] = Signed(b)]
  /\ UNCHANGED <<accountVars, resetVars, sessionVars, formVars, route>>

\* Going to a page of the application: asked again, and sent to the login when refused.
beforeLoad(b) ==
  /\ route[b] \in {"login", "app"} /\ login[b] = "none"
  /\ NowAt(b, IF Signed(b) THEN "app" ELSE "login")
  /\ UNCHANGED <<accountVars, resetVars, sessionVars, formVars, me>>

SignNext ==
  \/ Request \/ ResetPassword \/ InvitedAgain
  \/ \E t \in Tokens : Expire(t) \/ ForgottenLink(t) \/ \E b \in Browsers : OpenLink(b, t)
  \/ \E b \in Browsers :
       \/ authenticateLogin(b) \/ Login(b) \/ TOTPVerify(b) \/ BackToLogin(b)
       \/ PasswordResetConfirm(b) \/ Confirm(b) \/ ConfirmFails(b) \/ UpdateMe(b)
       \/ maybeUpdatePassword(b) \/ revokeOtherSessions(b) \/ ChangeIsCut(b)
       \/ handleLogout(b) \/ IdleTimeout(b) \/ AuthProvider(b) \/ beforeLoad(b)

\* Timers tick on a page in view; nobody has to click, nor to navigate.
SignSpec == SignInit /\ [][SignNext]_signVars

---------------------------------------------------------------------------
\* A session ends with the password it was begun for, unless a login that had matched
\* the old password, or the second factor of one, was finished after the change; or the
\* session was there when an administrator, an invitation or a change whose second
\* statement is still to come or has failed set the new one, and nothing ended it since.
NoOldSession ==
  \A b \in Browsers :
    Signed(b) => began[b] = "current" \/ b \in overtakenLogins \cup unrevoked

\* Two confirmations of one token both set a password only if they held it together.
SpentOnce == reused \subseteq tokenRaced

\* A changed password ends what was begun with the old one, and a token is used up.
SignInHolds == NoOldSession /\ SpentOnce

=============================================================================
