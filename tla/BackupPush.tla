----------------------------- MODULE BackupPush -----------------------------
(***************************************************************************)
(* The backup token and the push to the buddy: the page that generates,    *)
(* revokes and types tokens and starts a push, the server that verifies    *)
(* the token, answers at once and pushes in the background under a flag,   *)
(* its scheduler, which pushes by itself, and a server that may stop.      *)
(***************************************************************************)
EXTENDS Naturals, FiniteSets

CONSTANTS MaxTokens,         \* bound: tokens ever generated
          MaxPushes          \* bound: pushes ever started

ASSUME PushAssumption == MaxTokens \in Nat /\ MaxPushes \in Nat

VARIABLES active, issued,    \* the server's token, 0 for none, and how many there were
          peer,              \* a buddy is configured
          push_in_progress,
          pushes, started,   \* background pushes running, and how many there were
          saved_token,       \* sessionStorage, 0 for nothing
          buddyToken,        \* the token in the buddy's field, filled like the others
          has_password, buddyConfig,     \* the page's copies
          cfgAsk, minting, pushing,      \* calls in flight
          resetting,         \* the server has started and not yet cleared the flag
          doubled,           \* ghost: two pushes ran at once, or one ran on after a reset
          unwritten          \* ghost: the last UPDATE of the flag failed

tokenVars == <<active, issued, saved_token, buddyToken, has_password, minting>>
flagVars == <<peer, push_in_progress, pushes, started, resetting, doubled, unwritten>>
pushVars == <<tokenVars, flagVars, buddyConfig, cfgAsk, pushing>>

NotSent == [at |-> "none"]
AskConfig == [at |-> "asked"]
ConfigNow == [peer |-> peer, busy |-> push_in_progress]

PushInit ==
  /\ active \in {0, 1} /\ issued = active
  /\ saved_token \in {0, active} /\ buddyToken = saved_token
  /\ has_password = (active # 0)
  /\ peer \in BOOLEAN /\ push_in_progress = FALSE
  /\ pushes = {} /\ started = 0
  /\ buddyConfig = ConfigNow /\ cfgAsk = NotSent /\ minting = NotSent /\ pushing = NotSent
  /\ resetting = FALSE /\ doubled = FALSE /\ unwritten = FALSE

---------------------------------------------------------------------------
\* Tokens.  One call of generate or revoke at a time is sent, served, answered.
AskMint(what) ==
  /\ minting = NotSent /\ what = "revoke" => has_password
  /\ minting' = [at |-> "asked", what |-> what]
  /\ UNCHANGED <<active, issued, saved_token, buddyToken, has_password, flagVars,
                 buddyConfig, cfgAsk, pushing>>

\* Generate revokes the token before it and stores the new one in one transaction.
ServeMint ==
  /\ minting.at = "asked"
  /\ \/ /\ minting.what = "generate" /\ issued < MaxTokens
        /\ issued' = issued + 1 /\ active' = issued' /\ minting' = [at |-> "made", token |-> issued']
     \/ /\ minting.what = "revoke" /\ active' = 0 /\ minting' = [at |-> "revoked"] /\ UNCHANGED issued
     \/ minting' = [at |-> "failed"] /\ UNCHANGED <<active, issued>>
  /\ UNCHANGED <<saved_token, buddyToken, has_password, flagVars, buddyConfig,
                 cfgAsk, pushing>>

\* The new token goes into every field and into the session; it is shown this once.
TakeMint ==
  /\ minting.at \in {"made", "revoked", "failed"} /\ minting' = NotSent
  /\ \/ /\ minting.at = "made" /\ saved_token' = minting.token
        /\ buddyToken' = minting.token /\ has_password' = TRUE
     \/ /\ minting.at = "revoked" /\ has_password' = FALSE
        /\ UNCHANGED <<saved_token, buddyToken>>
     \/ minting.at = "failed" /\ UNCHANGED <<saved_token, buddyToken, has_password>>
  /\ UNCHANGED <<active, issued, flagVars, buddyConfig, cfgAsk, pushing>>

\* A token typed into the field; a field emptied leaves the session.
TypeToken(n) ==
  /\ has_password /\ n \in 0..issued /\ buddyToken' = n
  /\ saved_token' = IF n = 0 THEN saved_token ELSE n
  /\ UNCHANGED <<active, issued, has_password, minting, flagVars, buddyConfig,
                 cfgAsk, pushing>>

---------------------------------------------------------------------------
\* The buddy's settings, asked for again while a push is under way.
refetchBuddyConfig == cfgAsk' = AskConfig
\* A mutant: the settings are asked for once, and not again.
PollOnce == FALSE
refetchInterval == buddyConfig.busy

PollConfig ==
  /\ cfgAsk = NotSent /\ refetchInterval /\ cfgAsk' = AskConfig
  /\ UNCHANGED <<tokenVars, flagVars, buddyConfig, pushing>>

ServeConfigAsk ==
  /\ cfgAsk.at = "asked" /\ cfgAsk' = [at |-> "served", has |-> ConfigNow]
  /\ UNCHANGED <<tokenVars, flagVars, buddyConfig, pushing>>

TakeBuddyConfig ==
  /\ cfgAsk.at = "served" /\ cfgAsk' = NotSent /\ buddyConfig' = cfgAsk.has
  /\ UNCHANGED <<tokenVars, flagVars, pushing>>

\* The peer's address saved, or cleared together with the field of the token.
SetPeer(on) ==
  /\ peer' = on /\ on # buddyConfig.peer /\ refetchBuddyConfig
  /\ buddyToken' = IF on THEN buddyToken ELSE 0
  /\ UNCHANGED <<active, issued, saved_token, has_password, minting, buddyConfig,
                 push_in_progress, pushes, started, resetting, doubled, unwritten, pushing>>

isPushing == pushing # NotSent \/ buddyConfig.busy

handleBuddyPush ==
  /\ has_password /\ buddyConfig.peer /\ buddyToken # 0 /\ ~isPushing
  /\ pushing' = [at |-> "asked", token |-> buddyToken]
  /\ UNCHANGED <<tokenVars, flagVars, buddyConfig, cfgAsk>>

\* The UPDATE of the flag.  Every caller but the user's reset goes on when it fails.
SetPushInProgress(up) ==
  \/ push_in_progress' = up /\ unwritten' = FALSE
  \/ push_in_progress' = push_in_progress /\ unwritten' = TRUE

\* A push in the background, beside any that runs.
StartPush ==
  /\ started < MaxPushes /\ started' = started + 1 /\ pushes' = pushes \cup {started'}
  /\ SetPushInProgress(TRUE)
  /\ doubled' = (pushes # {}) /\ UNCHANGED <<peer, resetting>>

\* The server: the peer, then the token, then the flag, and the answer.
BuddyPush ==
  /\ pushing.at = "asked"
  /\ \/ peer /\ active # 0 /\ pushing.token = active /\ StartPush
        /\ pushing' = [pushing EXCEPT !.at = "accepted"]
     \/ /\ peer /\ pushing.token # active
        /\ pushing' = [pushing EXCEPT !.at = "forbidden"] /\ UNCHANGED flagVars
     \/ pushing' = [pushing EXCEPT !.at = "failed"] /\ UNCHANGED flagVars
  /\ UNCHANGED <<tokenVars, buddyConfig, cfgAsk>>

\* The refusal of a token makes the page forget it.
pushBuddyArchive ==
  /\ pushing.at \in {"accepted", "forbidden", "failed"} /\ pushing' = NotSent
  /\ IF pushing.at = "accepted" THEN refetchBuddyConfig ELSE UNCHANGED cfgAsk
  /\ IF pushing.at = "forbidden"
     THEN saved_token' = 0 /\ buddyToken' = 0
     ELSE UNCHANGED <<saved_token, buddyToken>>
  /\ UNCHANGED <<active, issued, has_password, minting, flagVars, buddyConfig>>

\* The background push ends, either way, and takes the flag down.
\* A mutant: an error is recorded and the flag is left standing.
LeaveFlag(ok) == IF ok THEN SetPushInProgress(FALSE) ELSE UNCHANGED <<push_in_progress, unwritten>>
TakeDown(ok) == SetPushInProgress(FALSE)
runBuddyPushAsync(p) ==
  /\ p \in pushes /\ pushes' = pushes \ {p} /\ \E ok \in BOOLEAN : TakeDown(ok)
  /\ doubled' = (doubled /\ pushes' # {})
  /\ UNCHANGED <<tokenVars, peer, started, resetting, buddyConfig, cfgAsk, pushing>>

\* The scheduler pushes whatever the flag says.
executeBuddyPush ==
  /\ peer /\ active # 0 /\ StartPush
  /\ UNCHANGED <<tokenVars, buddyConfig, cfgAsk, pushing>>

\* "Reset stuck push": offered whenever the page thinks one is under way.  A reset
\* that fails changes nothing; one whose answer is lost is not followed by a question.
ResetBuddyPushInProgress ==
  /\ buddyConfig.busy /\ pushing = NotSent
  /\ push_in_progress' = FALSE /\ unwritten' = FALSE
  /\ refetchBuddyConfig \/ UNCHANGED cfgAsk
  /\ doubled' = (pushes # {})
  /\ UNCHANGED <<tokenVars, peer, pushes, started, resetting, buddyConfig, pushing>>

\* The server stops, and its pushes with it; it starts again and has the flag to clear.
ServerStops ==
  /\ pushes' = {} /\ resetting' = TRUE /\ doubled' = FALSE
  /\ UNCHANGED <<tokenVars, peer, push_in_progress, started, unwritten,
                 buddyConfig, cfgAsk, pushing>>

\* It does so beside the requests it serves by then, so a push may have started.
startBuddyPushReset ==
  /\ resetting /\ resetting' = FALSE /\ SetPushInProgress(FALSE)
  /\ doubled' = (pushes # {})
  /\ UNCHANGED <<tokenVars, peer, pushes, started, buddyConfig, cfgAsk, pushing>>

PushNext ==
  \/ \E what \in {"generate", "revoke"} : AskMint(what)
  \/ ServeMint \/ TakeMint
  \/ \E n \in 0..MaxTokens : TypeToken(n)
  \/ PollConfig \/ ServeConfigAsk \/ TakeBuddyConfig
  \/ \E on \in BOOLEAN : SetPeer(on)
  \/ handleBuddyPush \/ BuddyPush \/ pushBuddyArchive
  \/ \E p \in pushes : runBuddyPushAsync(p)
  \/ executeBuddyPush \/ ResetBuddyPushInProgress \/ ServerStops \/ startBuddyPushReset

\* Pushes end, a started server clears the flag, and requests are answered; the user does not send them anew for ever.
PushFairness ==
  /\ WF_pushVars(\E p \in pushes : runBuddyPushAsync(p))
  /\ WF_pushVars(startBuddyPushReset) /\ WF_pushVars(PollConfig) /\ WF_pushVars(ServeConfigAsk)
  /\ SF_pushVars(TakeBuddyConfig)

PushSpec == PushInit /\ [][PushNext]_pushVars /\ PushFairness

---------------------------------------------------------------------------
\* The flag is up exactly while a push runs, whatever failed and whenever the server
\* stopped before, except in four windows: until its last UPDATE, which failed, is
\* followed by one that does not; until a server that started has cleared it; and until
\* the pushes end that ran at once, or one that was declared stuck while it ran.
FlagIsTrue == ~doubled /\ ~unwritten /\ ~resetting => push_in_progress = (pushes # {})

\* A page that shows a push under way does not show it for ever, even when the server
\* stops during one, unless an UPDATE that was to take the flag down failed.
PushSeenToEnd == buddyConfig.busy ~> (~buddyConfig.busy \/ unwritten)

=============================================================================
