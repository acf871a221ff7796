------------------------ MODULE AdministrationProofs ------------------------
(***************************************************************************)
(* Theorems about settings and administration: the schedules of the        *)
(* storage page, app passwords, groups, second factors, user accounts, the *)
(* scan report and the scan scheduler, each for any value of its           *)
(* constants.                                                              *)
(***************************************************************************)
EXTENDS ScanPlan, AppPasswords, AdminGroups, MFAMethods, ScanReport, AdminUsers,
        ScanScheduler, FiniteSetTheorems, SequenceTheorems, TLAPS

-----------------------------------------------------------------------------
(* ScanPlan: of a panel it is not behind on, what the page reads and knows is *)
(* what is stored; so a save that puts it at no risk sends just that.           *)

Settings == [Panels -> Plans]

Sent == [at: {"sent"}, panel: Panels, body: Settings]
Saves == {NoSave, [at |-> "stored"]} \cup Sent

PlanTypeOK ==
  /\ plan \in Settings /\ meant \in Settings /\ drafts \in Settings
  /\ scheduleData \in Settings \cup {Unknown}
  /\ reading \in {NoRead, AskSchedule} \cup [at: {"answered"}, copy: Settings]
  /\ saveSchedule \in Saves

CopyIsStored ==
  saveSchedule.at # "stored" =>
    \A p \in Panels \ behind :
      /\ reading = NoRead /\ scheduleData # Unknown => scheduleData[p] = plan[p]
      /\ reading.at = "answered" => reading.copy[p] = plan[p]

SendsWhatIsStored ==
  saveSchedule.at = "sent" =>
    \A p \in Panels \ risky : p # saveSchedule.panel => saveSchedule.body[p] = plan[p]

PlanInv ==
  PlanTypeOK /\ CopyIsStored /\ SendsWhatIsStored /\ OtherPanelKept

LEMMA PlanInitInv == PlanInit => PlanInv
<1> SUFFICES ASSUME PlanInit PROVE PlanInv
    OBVIOUS
<1>1. plan \in Settings /\ drafts \in Settings /\ meant = plan
    BY PlanAssumption DEF PlanInit, Settings, Untouched
<1>2. saveSchedule = NoSave /\ saveSchedule.at = "none" /\ reading.at = "asked"
    BY DEF PlanInit, NoSave, AskSchedule
<1>3. PlanTypeOK BY <1>1, <1>2 DEF PlanInit, PlanTypeOK, Saves
<1>4. CopyIsStored BY <1>2 DEF PlanInit, CopyIsStored
<1>5. SendsWhatIsStored BY <1>2 DEF SendsWhatIsStored
<1> QED BY <1>1, <1>3, <1>4, <1>5 DEF PlanInv, OtherPanelKept

\* Reading the schedules, typing, and a save that fails leave what is stored.
LEMMA PlanReadInv ==
  ASSUME PlanInv, \/ loadScanSchedule \/ TakeSchedule \/ ScheduleUnread \/ RefetchSchedule
                  \/ ScheduleFailed \/ \E k \in Panels : EditPanel(k)
  PROVE  PlanInv'
<1>1. UNCHANGED <<plan, meant, aged, risky>> /\ saveSchedule' \in {saveSchedule, NoSave}
    BY DEF loadScanSchedule, TakeSchedule, ScheduleUnread, RefetchSchedule, ScheduleFailed,
           EditPanel
<1>2. OtherPanelKept' BY <1>1 DEF PlanInv, OtherPanelKept
<1>3. SendsWhatIsStored' BY <1>1 DEF PlanInv, SendsWhatIsStored, NoSave
<1> DEFINE Rest == PlanTypeOK' /\ CopyIsStored'
<1>4. ASSUME loadScanSchedule PROVE Rest
  <2>1. PICK unread \in SUBSET Panels :
          /\ reading' = [at |-> "answered", copy |->
                          [k \in Panels |-> IF k \in unread THEN DEFAULT_SCHED ELSE plan[k]]]
          /\ behind' = unread
      BY <1>4 DEF loadScanSchedule
  <2>2. reading' \in [at: {"answered"}, copy: Settings]
      BY <2>1, PlanAssumption DEF PlanInv, PlanTypeOK, Settings
  <2>3. \A p \in Panels \ behind' : reading'.copy[p] = plan[p] BY <2>1
  <2>5. reading' # NoRead BY <2>1 DEF NoRead
  <2>6. UNCHANGED <<plan, meant, drafts, scheduleData, saveSchedule>>
      BY <1>4 DEF loadScanSchedule
  <2>7. PlanTypeOK' BY <2>2, <2>6 DEF PlanInv, PlanTypeOK
  <2>8. CopyIsStored' BY <2>3, <2>5, <2>6 DEF CopyIsStored
  <2> QED BY <2>7, <2>8
<1>5. ASSUME TakeSchedule PROVE Rest
  <2>1. reading \in [at: {"answered"}, copy: Settings] /\ reading.at = "answered"
      BY <1>5 DEF TakeSchedule, PlanInv, PlanTypeOK, NoRead, AskSchedule
  <2>2. /\ reading' = NoRead /\ scheduleData' = reading.copy
        /\ UNCHANGED <<plan, meant, saveSchedule, behind>>
        /\ drafts' \in {drafts, reading.copy}
      BY <1>5 DEF TakeSchedule, SyncDrafts
  <2>3. PlanTypeOK' BY <2>1, <2>2 DEF PlanInv, PlanTypeOK
  <2>4. reading'.at = "none" BY <2>2 DEF NoRead
  <2>5. CopyIsStored' BY <2>1, <2>2, <2>4 DEF PlanInv, CopyIsStored
  <2> QED BY <2>3, <2>5
<1>6. ASSUME ScheduleUnread PROVE Rest
  <2>1. /\ reading' = NoRead /\ behind' = Panels
        /\ UNCHANGED <<plan, meant, drafts, scheduleData, saveSchedule>>
      BY <1>6 DEF ScheduleUnread
  <2>2. PlanTypeOK' BY <2>1 DEF PlanInv, PlanTypeOK
  <2>3. CopyIsStored' BY <2>1 DEF CopyIsStored
  <2> QED BY <2>2, <2>3
<1>7. ASSUME RefetchSchedule PROVE Rest
  <2>1. /\ reading' = AskSchedule
        /\ UNCHANGED <<plan, meant, drafts, scheduleData, saveSchedule>>
      BY <1>7 DEF RefetchSchedule
  <2>2. PlanTypeOK' BY <2>1 DEF PlanInv, PlanTypeOK
  <2>3. reading' # NoRead /\ reading'.at = "asked" BY <2>1 DEF AskSchedule, NoRead
  <2>4. CopyIsStored' BY <2>3 DEF CopyIsStored
  <2> QED BY <2>2, <2>4
<1>8. ASSUME ScheduleFailed PROVE Rest
  <2>1. behind' = IF saveSchedule.at = "stored" THEN Panels ELSE behind
      BY <1>8 DEF ScheduleFailed
  <2>2. /\ saveSchedule' = NoSave
        /\ UNCHANGED <<plan, meant, drafts, scheduleData, reading>>
      BY <1>8 DEF ScheduleFailed
  <2>3. PlanTypeOK' BY <2>2 DEF PlanInv, PlanTypeOK, Saves
  <2>4. CopyIsStored' BY <2>1, <2>2 DEF PlanInv, CopyIsStored
  <2> QED BY <2>3, <2>4
<1>9. ASSUME NEW k \in Panels, EditPanel(k) PROVE Rest
  <2>1. UNCHANGED <<plan, meant, scheduleData, reading, saveSchedule, behind>>
      BY <1>9 DEF EditPanel
  <2>2. drafts' \in Settings BY <1>9 DEF EditPanel, PlanInv, PlanTypeOK, Settings
  <2>3. PlanTypeOK' BY <2>1, <2>2 DEF PlanInv, PlanTypeOK
  <2>4. CopyIsStored' BY <2>1 DEF PlanInv, CopyIsStored
  <2> QED BY <2>3, <2>4
<1>10. Rest BY <1>4, <1>5, <1>6, <1>7, <1>8, <1>9
<1> QED BY <1>2, <1>3, <1>10 DEF PlanInv

LEMMA PlanSaveInv ==
  ASSUME PlanInv, NEW k \in Panels, SaveSchedule(k)
  PROVE  PlanInv'
<1>1. Body(k) \in Settings
    BY DEF Body, PlanInv, PlanTypeOK, Settings
<1> DEFINE new == [at |-> "sent", panel |-> k, body |-> Body(k)]
<1>a. new \in Sent BY <1>1 DEF Sent
<1>b. new.at = "sent" /\ new.panel = k /\ new.body = Body(k) OBVIOUS
<1> HIDE DEF new
<1>2. PICK post \in Sent : /\ post = new
                           /\ post.at = "sent" /\ post.panel = k /\ post.body = Body(k)
    BY <1>a, <1>b
<1>3. /\ saveSchedule' = post /\ saveSchedule.at = "none" /\ risky' = AtRisk
      /\ UNCHANGED <<plan, scheduleData, reading, drafts, meant, behind, aged>>
    BY <1>2 DEF SaveSchedule, NoSave, new
<1>4. PlanTypeOK' BY <1>3 DEF Saves, PlanInv, PlanTypeOK
<1>5. ASSUME NEW p \in Panels \ risky', p # k PROVE Body(k)[p] = plan[p]
  <2>1. scheduleData # Unknown /\ reading = NoRead /\ p \notin behind
      BY <1>3, <1>5 DEF AtRisk
  <2>2. Body(k)[p] = scheduleData[p] BY <1>5, <2>1 DEF Body
  <2> QED BY <1>3, <1>5, <2>1, <2>2 DEF PlanInv, CopyIsStored
<1>6. SendsWhatIsStored' BY <1>2, <1>3, <1>5 DEF SendsWhatIsStored
<1>7. CopyIsStored' BY <1>2, <1>3 DEF PlanInv, CopyIsStored
<1> QED BY <1>3, <1>4, <1>6, <1>7 DEF PlanInv, OtherPanelKept

\* The panel that was saved is as it was meant; the other is as it was stored, or marked
\* when the copy could lack its last change.
LEMMA PlanPutInv ==
  ASSUME PlanInv, PutSchedule
  PROVE  PlanInv'
<1> DEFINE k == saveSchedule.panel
<1>1. saveSchedule \in Sent /\ saveSchedule.at = "sent"
  <2>1. saveSchedule.at = "sent" BY DEF PutSchedule
  <2>2. saveSchedule # NoSave /\ saveSchedule # [at |-> "stored"] BY <2>1 DEF NoSave
  <2> QED BY <2>1, <2>2 DEF PlanInv, PlanTypeOK, Saves
<1>2. /\ plan' = saveSchedule.body
      /\ meant' = [meant EXCEPT ![k] = saveSchedule.body[k]]
      /\ saveSchedule' = [at |-> "stored"] /\ saveSchedule'.at = "stored"
      /\ aged' = (aged \cup risky) \ {k}
      /\ UNCHANGED <<scheduleData, reading, drafts>>
    BY DEF PutSchedule
<1>3. k \in Panels /\ saveSchedule.body \in Settings BY <1>1 DEF Sent
<1>4. meant' \in Settings BY <1>2, <1>3 DEF PlanInv, PlanTypeOK, Settings
<1>5. PlanTypeOK' BY <1>2, <1>3, <1>4 DEF PlanInv, PlanTypeOK, Saves
<1>6. ASSUME NEW p \in Panels PROVE plan'[p] = meant'[p] \/ p \in aged'
  <2>1. CASE p = k BY <1>2, <1>3, <2>1 DEF PlanInv, PlanTypeOK, Settings
  <2>2. CASE p # k /\ p \in risky BY <1>2, <2>2
  <2>3. CASE p # k /\ p \notin risky
    <3>1. plan'[p] = plan[p] BY <1>1, <1>2, <2>3 DEF PlanInv, SendsWhatIsStored
    <3>2. meant'[p] = meant[p] BY <1>2, <1>3, <2>3 DEF PlanInv, PlanTypeOK, Settings
    <3>3. p \in aged => p \in aged' BY <1>2, <2>3
    <3> QED BY <3>1, <3>2, <3>3 DEF PlanInv, OtherPanelKept
  <2> QED BY <2>1, <2>2, <2>3
<1>7. SendsWhatIsStored' BY <1>2 DEF SendsWhatIsStored
<1>8. CopyIsStored' BY <1>2 DEF CopyIsStored
<1> QED BY <1>5, <1>6, <1>7, <1>8 DEF PlanInv, OtherPanelKept

\* The copy is read again, or its first reading is compared with what is stored.
LEMMA PlanSavedInv ==
  ASSUME PlanInv, ScheduleSaved
  PROVE  PlanInv'
<1>1. /\ saveSchedule' = NoSave /\ saveSchedule'.at = "none"
      /\ drafts' \in {drafts, scheduleData} /\ (drafts' # drafts => scheduleData # Unknown)
      /\ UNCHANGED <<plan, scheduleData, meant, aged>>
    BY DEF ScheduleSaved, NoSave
<1>2. reading' \in {reading, AskSchedule} BY DEF ScheduleSaved, ReadAgain
<1>3. PlanTypeOK' BY <1>1, <1>2 DEF PlanInv, PlanTypeOK, Saves
<1>4. ASSUME scheduleData = Unknown /\ reading # NoRead PROVE CopyIsStored'
  <2>1. /\ reading' = reading
        /\ behind' = behind \cup {p \in Panels : reading.at = "answered"
                                                 /\ reading.copy[p] # plan[p]}
      BY <1>4 DEF ScheduleSaved, ReadAgain
  <2> QED BY <1>1, <1>4, <2>1 DEF CopyIsStored
<1>5. ASSUME ~(scheduleData = Unknown /\ reading # NoRead) PROVE CopyIsStored'
  <2>1. reading' = AskSchedule BY <1>5 DEF ScheduleSaved, ReadAgain
  <2>2. reading' # NoRead /\ reading'.at = "asked" BY <2>1 DEF AskSchedule, NoRead
  <2> QED BY <2>2 DEF CopyIsStored
<1>6. SendsWhatIsStored' BY <1>1 DEF SendsWhatIsStored
<1> QED BY <1>1, <1>3, <1>4, <1>5, <1>6 DEF PlanInv, OtherPanelKept

LEMMA PlanOtherInv ==
  ASSUME PlanInv, NEW k \in Panels, OtherSaves(k)
  PROVE  PlanInv'
<1>1. PICK c \in Plans : /\ plan' = [plan EXCEPT ![k] = c]
                         /\ meant' = [meant EXCEPT ![k] = c]
    BY DEF OtherSaves
<1>2. /\ aged' = aged \ {k} /\ behind' = behind \cup {k} /\ risky' = risky \cup {k}
      /\ UNCHANGED <<scheduleData, reading, drafts, saveSchedule>>
    BY DEF OtherSaves
<1>3. \A p \in Panels \ {k} : plan'[p] = plan[p] /\ meant'[p] = meant[p]
    BY <1>1 DEF PlanInv, PlanTypeOK, Settings
<1>4. PlanTypeOK' BY <1>1, <1>2 DEF PlanInv, PlanTypeOK, Settings
<1>5. plan'[k] = meant'[k] BY <1>1 DEF PlanInv, PlanTypeOK, Settings
<1>6. OtherPanelKept' BY <1>2, <1>3, <1>5 DEF PlanInv, OtherPanelKept
<1>7. SendsWhatIsStored' BY <1>2, <1>3 DEF PlanInv, SendsWhatIsStored
<1>8. CopyIsStored' BY <1>2, <1>3 DEF PlanInv, CopyIsStored
<1> QED BY <1>4, <1>6, <1>7, <1>8 DEF PlanInv

\* Saving one panel of the schedules leaves the other as it was last saved, by whomever:
\* a save clicked while the page's copy is not at risk sends what is stored.
THEOREM SchedulesKept == PlanSpec => []OtherPanelKept
<1>1. PlanInv /\ [PlanNext]_planVars => PlanInv'
  <2> SUFFICES ASSUME PlanInv, [PlanNext]_planVars PROVE PlanInv'
      OBVIOUS
  <2>1. CASE UNCHANGED planVars
      BY <2>1 DEF planVars, PlanInv, PlanTypeOK, CopyIsStored, SendsWhatIsStored, OtherPanelKept
  <2> QED BY <2>1, PlanReadInv, PlanSaveInv, PlanPutInv, PlanSavedInv, PlanOtherInv
      DEF PlanNext
<1>2. PlanInv => OtherPanelKept BY DEF PlanInv
<1> QED BY <1>1, <1>2, PlanInitInv, PTL DEF PlanSpec

-----------------------------------------------------------------------------
(* AppPasswords: what is remembered of a revoked password, and the time since its *)
(* revocation, never exceed the time a password may be remembered.                *)

PasswordTypeOK ==
  /\ app_passwords \in [Secrets -> {"none", "live", "revoked"}]
  /\ credCache \in [Secrets -> 0 .. CacheTTL]
  /\ since \in [Secrets -> 0 .. CacheTTL]
  /\ verifying \in [Requests -> Secrets \cup {"none"}]

Fading ==
  \A p \in Secrets \ outlived :
      app_passwords[p] = "revoked" => credCache[p] + since[p] <= CacheTTL

PasswordInv == PasswordTypeOK /\ Fading

LEMMA DialogInv ==
  ASSUME PasswordInv, NEW d \in Dialogs,
         \/ create(d) \/ CreatePassword(d) \/ CreateFails(d) \/ setRevealed(d)
         \/ fetchPasswords(d)
  PROVE  PasswordInv'
<1>1. UNCHANGED <<checkVars, since>>
    BY DEF create, CreatePassword, CreateFails, setRevealed, fetchPasswords
<1>2. \/ UNCHANGED app_passwords
      \/ \E p \in Secrets : app_passwords[p] = "none"
                            /\ app_passwords' = [app_passwords EXCEPT ![p] = "live"]
    BY DEF create, CreatePassword, CreateFails, setRevealed, fetchPasswords
<1> QED BY <1>1, <1>2 DEF PasswordInv, PasswordTypeOK, Fading, checkVars

LEMMA RevokeInv ==
  ASSUME PasswordInv, NEW d \in Dialogs, NEW p \in Secrets, Revoke(d, p)
  PROVE  PasswordInv'
<1>1. /\ app_passwords' = [app_passwords EXCEPT ![p] = "revoked"]
      /\ since' = [since EXCEPT ![p] = 0]
      /\ UNCHANGED checkVars
    BY DEF Revoke
<1>2. PasswordTypeOK'
    BY <1>1, AppPasswordAssumption DEF PasswordInv, PasswordTypeOK, checkVars
<1>3. ASSUME NEW q \in Secrets \ outlived', app_passwords'[q] = "revoked"
      PROVE  credCache'[q] + since'[q] <= CacheTTL
  <2>1. CASE q = p
      BY <1>1, <2>1, AppPasswordAssumption DEF PasswordInv, PasswordTypeOK, checkVars
  <2>2. CASE q # p
      BY <1>1, <1>3, <2>2 DEF PasswordInv, PasswordTypeOK, Fading, checkVars
  <2> QED BY <2>1, <2>2
<1> QED BY <1>2, <1>3 DEF PasswordInv, Fading

LEMMA CheckInv ==
  ASSUME PasswordInv, NEW r \in Requests,
         StoreCredential(r) \/ \E p \in Secrets : ValidateAppPassword(r, p)
  PROVE  PasswordInv'
<1>1. CASE StoreCredential(r)
  <2> DEFINE p == verifying[r]
  <2>1. p \in Secrets BY <1>1 DEF StoreCredential, PasswordInv, PasswordTypeOK
  <2>2. credCache' = [credCache EXCEPT ![p] = CacheTTL]
        /\ verifying' = [verifying EXCEPT ![r] = "none"]
        /\ outlived' = (IF p \in Live THEN outlived ELSE outlived \cup {p})
        /\ UNCHANGED <<app_passwords, since>>
      BY <1>1 DEF StoreCredential
  <2>3. PasswordTypeOK'
      BY <2>1, <2>2, AppPasswordAssumption DEF PasswordInv, PasswordTypeOK
  <2>4. ASSUME NEW q \in Secrets \ outlived', app_passwords'[q] = "revoked"
        PROVE  credCache'[q] + since'[q] <= CacheTTL
    <3>1. q # p BY <2>2, <2>4 DEF Live
    <3> QED BY <2>1, <2>2, <2>4, <3>1 DEF PasswordInv, PasswordTypeOK, Fading
  <2> QED BY <2>3, <2>4 DEF PasswordInv, Fading
<1>2. ASSUME NEW p \in Secrets, ValidateAppPassword(r, p) PROVE PasswordInv'
    BY <1>2 DEF ValidateAppPassword, PasswordInv, PasswordTypeOK, Fading
<1> QED BY <1>1, <1>2

LEMMA TickInv ==
  ASSUME PasswordInv, CacheTick
  PROVE  PasswordInv'
<1>1. /\ credCache' = [p \in Secrets |-> Aged(p)]
      /\ since' = [p \in Secrets |-> IF app_passwords[p] = "revoked" /\ since[p] < CacheTTL
                                     THEN since[p] + 1 ELSE since[p]]
      /\ UNCHANGED <<app_passwords, verifying, outlived>>
    BY DEF CacheTick
<1>2. ASSUME NEW p \in Secrets
      PROVE  /\ credCache'[p] \in 0 .. CacheTTL /\ since'[p] \in 0 .. CacheTTL
             /\ app_passwords[p] = "revoked" /\ credCache[p] + since[p] <= CacheTTL
                  => credCache'[p] + since'[p] <= CacheTTL
  <2>1. credCache[p] \in 0 .. CacheTTL /\ since[p] \in 0 .. CacheTTL /\ CacheTTL \in Nat
      BY AppPasswordAssumption DEF PasswordInv, PasswordTypeOK
  <2>2. credCache'[p] = IF credCache[p] = 0 THEN 0 ELSE credCache[p] - 1
      BY <1>1 DEF Aged
  <2>3. since'[p] = IF app_passwords[p] = "revoked" /\ since[p] < CacheTTL
                    THEN since[p] + 1 ELSE since[p]
      BY <1>1
  <2> QED BY <2>1, <2>2, <2>3
<1>3. PasswordTypeOK' BY <1>1, <1>2 DEF PasswordInv, PasswordTypeOK
<1>4. Fading' BY <1>1, <1>2 DEF PasswordInv, Fading
<1> QED BY <1>3, <1>4 DEF PasswordInv

\* A revoked app password is refused once the time it may be remembered has passed; the
\* one exception is a check that a revocation overtook.
THEOREM RevokedIsRefused == AppPasswordSpec => []RefusedInTime
<1>1. AppPasswordInit => PasswordInv
    BY AppPasswordAssumption DEF AppPasswordInit, PasswordInv, PasswordTypeOK, Fading
<1>2. PasswordInv /\ [AppPasswordNext]_passwordVars => PasswordInv'
  <2> SUFFICES ASSUME PasswordInv, [AppPasswordNext]_passwordVars PROVE PasswordInv'
      OBVIOUS
  <2>1. CASE UNCHANGED passwordVars
      BY <2>1 DEF passwordVars, checkVars, PasswordInv, PasswordTypeOK, Fading
  <2> QED BY <2>1, DialogInv, RevokeInv, CheckInv, TickInv DEF AppPasswordNext
<1>3. PasswordInv => RefusedInTime
  <2> SUFFICES ASSUME PasswordInv, NEW p \in Secrets \ outlived,
                      app_passwords[p] = "revoked", since[p] = CacheTTL
               PROVE  ~Accepted(p)
      BY DEF RefusedInTime
  <2>1. credCache[p] \in 0 .. CacheTTL /\ CacheTTL \in Nat
        /\ credCache[p] + CacheTTL <= CacheTTL
      BY AppPasswordAssumption DEF PasswordInv, PasswordTypeOK, Fading
  <2>2. credCache[p] = 0 BY <2>1
  <2> QED BY <2>2 DEF Accepted, Live
<1> QED BY <1>1, <1>2, <1>3, PTL DEF AppPasswordSpec

-----------------------------------------------------------------------------
(* AdminGroups: but for clicks while a group is being made, the dialog's picks, or the ones *)
(* that come back with the group, are what was clicked for, and so is what Create sends.     *)

Names == GroupNames \cup {NoName}

PanelCalls == [do: {"create", "update", "remove"}, id: Nat, name: Names, here: BOOLEAN,
               at: {"sent", "refreshing"}]

MadeUsers == [in: SUBSET Nat, meant: SUBSET Nat, sure: BOOLEAN]
Creations == [at: {"posting"}, ids: SUBSET Nat, meant: SUBSET Nat, sure: BOOLEAN]

GroupsTypeOK ==
  /\ groups \in Seq(Names) /\ known \in Seq(Names)
  /\ newUsers \in Seq(MadeUsers)
  /\ asking \in {NotNow, [at |-> "asked"]} \cup [at: {"served"}, has: Seq(Names)]
  /\ shown \in BOOLEAN /\ selected \in SUBSET Nat /\ editId \in Nat
  /\ wanted \in SUBSET Nat /\ unsure \in BOOLEAN
  /\ adding \in {NotNow} \cup [at: {"posting"}, name: GroupNames, had: SUBSET Nat]
                \cup [at: {"refreshing"}, had: SUBSET Nat, id: Nat]
  /\ creating \in {NotNow} \cup Creations
  /\ panelCalls \in SUBSET PanelCalls

PicksOK ==
  /\ ~unsure => /\ adding.at # "refreshing" => selected = wanted
                /\ adding.at = "posting" => adding.had = wanted
                /\ adding.at = "refreshing" => adding.had \cup {adding.id} = wanted
  /\ creating.at = "posting" => (creating.sure => creating.ids = creating.meant)

GroupsInv == GroupsTypeOK /\ PicksOK /\ CreatedAsPicked

LEMMA GroupsInitInv == GroupsInit => GroupsInv
<1> SUFFICES ASSUME GroupsInit PROVE GroupsInv
    OBVIOUS
<1>1. groups \in Seq(Names) BY GroupsAssumption DEF GroupsInit, Names
<1>2. CreatedAsPicked BY DEF GroupsInit, CreatedAsPicked
<1>3. newUsers \in Seq(MadeUsers) /\ editId \in Nat
    BY DEF GroupsInit, NoGroup
<1>5. PicksOK BY DEF GroupsInit, PicksOK, NotNow
<1>4. panelCalls \in SUBSET PanelCalls BY DEF GroupsInit
<1> QED BY <1>1, <1>2, <1>3, <1>4, <1>5 DEF GroupsInit, GroupsInv, GroupsTypeOK

\* The list, and the changes of another administrator.
LEMMA ListInv ==
  ASSUME GroupsInv, AskGroups \/ AnswerGroups \/ TakeGroups \/ OtherAdmin
  PROVE  GroupsInv'
<1>1. UNCHANGED <<newUsers, dialogVars, panelVars>>
    BY DEF AskGroups, AnswerGroups, TakeGroups, OtherAdmin
<1>2. groups' \in Seq(Names)
  <2>1. CASE OtherAdmin
    <3>1. ASSUME NEW n \in GroupNames, groups' = Append(groups, n) PROVE groups' \in Seq(Names)
        BY <3>1 DEF GroupsInv, GroupsTypeOK, Names
    <3>2. ASSUME NEW g \in There, groups' = [groups EXCEPT ![g] = NoName]
          PROVE  groups' \in Seq(Names)
        BY <3>2 DEF GroupsInv, GroupsTypeOK, Names, There
    <3> QED BY <2>1, <3>1, <3>2 DEF OtherAdmin
  <2> QED BY <2>1 DEF AskGroups, AnswerGroups, TakeGroups, GroupsInv, GroupsTypeOK
<1>3. known' \in Seq(Names)
      /\ asking' \in {NotNow, [at |-> "asked"]} \cup [at: {"served"}, has: Seq(Names)]
  <2>1. CASE TakeGroups
    <3>1. asking \in [at: {"served"}, has: Seq(Names)]
        BY <2>1 DEF TakeGroups, GroupsInv, GroupsTypeOK, NotNow
    <3> QED BY <2>1, <3>1 DEF TakeGroups
  <2> QED BY <2>1 DEF AskGroups, AnswerGroups, OtherAdmin, GroupsInv, GroupsTypeOK
<1> QED BY <1>1, <1>2, <1>3
    DEF GroupsInv, GroupsTypeOK, PicksOK, CreatedAsPicked, dialogVars, panelVars

LEMMA ComboboxIs ==
  ASSUME GroupCombobox
  PROVE  /\ UNCHANGED <<groups, newUsers, known, asking, shown, creating, editId, panelCalls>>
         /\ \/ /\ UNCHANGED adding /\ (unsure => unsure') /\ (adding # NotNow => unsure')
               /\ unsure' \in BOOLEAN
               /\ \E g \in KnownIds :
                    \/ selected' = selected \cup {g} /\ wanted' = wanted \cup {g}
                    \/ selected' = selected \ {g} /\ wanted' = wanted \ {g}
            \/ /\ adding = NotNow /\ UNCHANGED <<selected, wanted, unsure>>
               /\ \E n \in GroupNames : adding' = [at |-> "posting", name |-> n, had |-> selected]
<1>1. ASSUME NEW s, NEW w, Picks(s, w)
      PROVE  /\ selected' = s /\ wanted' = w /\ UNCHANGED adding
             /\ unsure' \in BOOLEAN /\ (unsure => unsure') /\ (adding # NotNow => unsure')
    BY <1>1, Zenon DEF Picks
<1>2. \/ \E g \in KnownIds : \/ Picks(selected \cup {g}, wanted \cup {g})
                             \/ Picks(selected \ {g}, wanted \ {g})
      \/ /\ adding = NotNow /\ UNCHANGED <<selected, wanted, unsure>>
         /\ \E n \in GroupNames : adding' = [at |-> "posting", name |-> n, had |-> selected]
    BY Zenon DEF GroupCombobox
<1>3. UNCHANGED <<groups, newUsers, known, asking, shown, creating, editId, panelCalls>>
    BY DEF GroupCombobox, panelVars
<1>4. ASSUME NEW g \in KnownIds,
             \/ Picks(selected \cup {g}, wanted \cup {g}) \/ Picks(selected \ {g}, wanted \ {g})
      PROVE  /\ UNCHANGED adding /\ (unsure => unsure') /\ (adding # NotNow => unsure')
             /\ unsure' \in BOOLEAN
             /\ \E h \in KnownIds : \/ selected' = selected \cup {h} /\ wanted' = wanted \cup {h}
                                    \/ selected' = selected \ {h} /\ wanted' = wanted \ {h}
  <2>1. \/ selected' = selected \cup {g} /\ wanted' = wanted \cup {g}
        \/ selected' = selected \ {g} /\ wanted' = wanted \ {g}
      BY <1>4 DEF Picks
  <2>2. /\ UNCHANGED adding /\ (unsure => unsure') /\ (adding # NotNow => unsure')
        /\ unsure' \in BOOLEAN
      BY <1>1, <1>4, Zenon
  <2> QED BY <2>1, <2>2, Zenon
<1> QED BY <1>2, <1>3, <1>4, Zenon

\* The dialog, but for the call that makes the user.
LEMMA GroupDialogInv ==
  ASSUME GroupsInv,
         \/ OpenNewUser \/ GroupCombobox \/ PostGroup \/ createAndAdd \/ NewUserDialog
  PROVE  GroupsInv'
<1>1. UNCHANGED <<newUsers, known>>
    BY DEF OpenNewUser, GroupCombobox, PostGroup, createAndAdd, NewUserDialog
<1>2. CreatedAsPicked' BY <1>1 DEF GroupsInv, CreatedAsPicked
<1>3. GroupsTypeOK'
  <2>1. CASE OpenNewUser
    <3>1. ASSUME NEW c \in PanelCalls PROVE [c EXCEPT !.here = FALSE] \in PanelCalls
        BY DEF PanelCalls
    <3>2. panelCalls' = {[c EXCEPT !.here = FALSE] : c \in panelCalls}
          /\ panelCalls \subseteq PanelCalls
        BY <2>1 DEF OpenNewUser, GroupsInv, GroupsTypeOK
    <3>3. panelCalls' \in SUBSET PanelCalls BY <3>1, <3>2
    <3> QED BY <2>1, <3>3 DEF OpenNewUser, GroupsInv, GroupsTypeOK, NoGroup
  <2>2. CASE GroupCombobox
    <3>1. KnownIds \subseteq Nat BY DEF KnownIds, GroupsInv, GroupsTypeOK
    <3>2. \/ UNCHANGED <<selected, wanted>>
          \/ \E g \in KnownIds : \/ selected' = selected \cup {g} /\ wanted' = wanted \cup {g}
                                 \/ selected' = selected \ {g} /\ wanted' = wanted \ {g}
        BY <2>2, ComboboxIs
    <3>5. selected' \in SUBSET Nat /\ wanted' \in SUBSET Nat
        BY <3>1, <3>2 DEF GroupsInv, GroupsTypeOK
    <3>6. unsure' \in BOOLEAN BY <2>2, ComboboxIs, Zenon DEF GroupsInv, GroupsTypeOK
    <3>3. \/ UNCHANGED adding
          \/ \E n \in GroupNames : adding' = [at |-> "posting", name |-> n, had |-> selected]
        BY <2>2, ComboboxIs
    <3>4. UNCHANGED <<groups, newUsers, known, asking, shown, creating, editId, panelCalls>>
        BY <2>2, ComboboxIs
    <3> QED BY <3>3, <3>4, <3>5, <3>6 DEF GroupsInv, GroupsTypeOK
  <2>3. CASE PostGroup
    <3>1. adding \in [at: {"posting"}, name: GroupNames, had: SUBSET Nat]
        BY <2>3 DEF PostGroup, GroupsInv, GroupsTypeOK, NotNow
    <3>2. UNCHANGED <<newUsers, known, shown, selected, unsure, creating, editId, panelCalls>>
        BY <2>3 DEF PostGroup, panelVars
    <3>3. groups' \in Seq(Names) /\ Len(groups) + 1 \in Nat
      <4>1. adding.name \in Names /\ groups \in Seq(Names)
          BY <3>1 DEF GroupsInv, GroupsTypeOK, Names
      <4>2. groups' \in {groups, Append(groups, adding.name)} BY <2>3 DEF PostGroup
      <4> QED BY <4>1, <4>2
    <3>4. asking' \in {asking, [at |-> "asked"]}
          /\ adding' \in {NotNow, [at |-> "refreshing", had |-> adding.had,
                                   id |-> Len(groups) + 1]}
        BY <2>3 DEF PostGroup
    <3>5. wanted' \in SUBSET Nat
      <4>1. wanted' \in {wanted, wanted \cup {Len(groups) + 1}} BY <2>3 DEF PostGroup
      <4> QED BY <3>3, <4>1 DEF GroupsInv, GroupsTypeOK
    <3> QED BY <3>1, <3>2, <3>3, <3>4, <3>5 DEF GroupsInv, GroupsTypeOK
  <2>4. CASE createAndAdd
    <3>1. adding \in [at: {"refreshing"}, had: SUBSET Nat, id: Nat]
        BY <2>4 DEF createAndAdd, GroupsInv, GroupsTypeOK, NotNow
    <3> QED BY <2>4, <3>1 DEF createAndAdd, GroupsInv, GroupsTypeOK, panelVars
  <2>5. CASE NewUserDialog
    <3>1. UNCHANGED <<groups, newUsers, known, asking, editId, panelCalls>>
        BY <2>5 DEF NewUserDialog, panelVars
    <3>2. shown' \in {shown, FALSE} /\ selected' \in {selected, {}}
          /\ wanted' \in {wanted, {}} /\ unsure' \in {unsure, FALSE}
          /\ adding' \in {adding, NotNow}
        BY <2>5 DEF NewUserDialog, Unmounted
    <3>3. selected \in SUBSET Nat /\ wanted \in SUBSET Nat /\ {} \in SUBSET Nat
        BY DEF GroupsInv, GroupsTypeOK
    <3>4. creating' \in {NotNow} \cup Creations
      <4>1. ASSUME NEW s \in BOOLEAN
            PROVE  [at |-> "posting", ids |-> selected, meant |-> wanted, sure |-> s] \in Creations
          BY <3>3 DEF Creations
      <4>2. \/ UNCHANGED creating
            \/ creating' = [at |-> "posting", ids |-> selected, meant |-> wanted,
                            sure |-> ~unsure /\ adding = NotNow]
          BY <2>5 DEF NewUserDialog
      <4> QED BY <4>1, <4>2 DEF GroupsInv, GroupsTypeOK
    <3>5. selected' \in SUBSET Nat /\ wanted' \in SUBSET Nat BY <3>2, <3>3
    <3> QED BY <3>1, <3>2, <3>4, <3>5 DEF GroupsInv, GroupsTypeOK
  <2> QED BY <2>1, <2>2, <2>3, <2>4, <2>5
<1>4. PicksOK'
  <2>1. CASE OpenNewUser BY <2>1 DEF OpenNewUser, GroupsInv, PicksOK
  <2>2. CASE GroupCombobox
    <3>1. UNCHANGED creating BY <2>2, ComboboxIs
    <3> SUFFICES ASSUME ~unsure'
                 PROVE  /\ adding'.at # "refreshing" => selected' = wanted'
                        /\ adding'.at = "posting" => adding'.had = wanted'
                        /\ adding'.at = "refreshing" => adding'.had \cup {adding'.id} = wanted'
        BY <3>1 DEF GroupsInv, PicksOK
    <3>2. ~unsure /\ adding = NotNow BY <2>2, ComboboxIs
    <3>3. selected = wanted BY <3>2 DEF GroupsInv, PicksOK, NotNow
    <3>4. \/ /\ adding' = NotNow
             /\ \E g \in KnownIds : \/ selected' = selected \cup {g} /\ wanted' = wanted \cup {g}
                                    \/ selected' = selected \ {g} /\ wanted' = wanted \ {g}
          \/ /\ UNCHANGED <<selected, wanted>>
             /\ \E n \in GroupNames : adding' = [at |-> "posting", name |-> n, had |-> selected]
        BY <2>2, <3>2, ComboboxIs
    <3> QED BY <3>3, <3>4 DEF NotNow
  <2>3. CASE PostGroup
    <3>1. /\ adding.at = "posting" /\ UNCHANGED <<selected, unsure, creating>>
          /\ \/ adding'.at = "refreshing" /\ adding'.had = adding.had
                /\ wanted' = wanted \cup {adding'.id}
             \/ adding' = NotNow /\ UNCHANGED wanted
        BY <2>3 DEF PostGroup
    <3> QED BY <3>1 DEF GroupsInv, PicksOK, NotNow
  <2>4. CASE createAndAdd
      BY <2>4 DEF createAndAdd, GroupsInv, PicksOK, NotNow
  <2>5. CASE NewUserDialog
    <3>1. CASE Unmounted /\ UNCHANGED creating
        BY <3>1 DEF Unmounted, GroupsInv, PicksOK, NotNow
    <3>2. CASE /\ creating' = [at |-> "posting", ids |-> selected, meant |-> wanted,
                               sure |-> ~unsure /\ adding = NotNow]
               /\ UNCHANGED <<shown, selected, wanted, unsure, adding>>
      <4>1. ~unsure /\ adding = NotNow => selected = wanted
          BY DEF GroupsInv, PicksOK, NotNow
      <4>2. creating'.sure => creating'.ids = creating'.meant BY <3>2, <4>1
      <4> QED BY <3>2, <4>2 DEF GroupsInv, PicksOK
    <3> QED BY <2>5, <3>1, <3>2 DEF NewUserDialog
  <2> QED BY <2>1, <2>2, <2>3, <2>4, <2>5
<1> QED BY <1>2, <1>3, <1>4 DEF GroupsInv

LEMMA CreateUserInv ==
  ASSUME GroupsInv, CreateUser
  PROVE  GroupsInv'
<1>1. creating \in Creations /\ (creating.sure => creating.ids = creating.meant)
    BY DEF CreateUser, GroupsInv, GroupsTypeOK, PicksOK, NotNow
<1>2. UNCHANGED <<groups, known, asking, editId, panelCalls>> /\ creating' = NotNow
      /\ (Unmounted \/ UNCHANGED <<shown, selected, wanted, unsure, adding>>)
    BY DEF CreateUser, panelVars
<1> DEFINE made == [in |-> creating.ids, meant |-> creating.meant, sure |-> creating.sure]
<1>3. newUsers' \in {newUsers, Append(newUsers, made)}
    BY DEF CreateUser, Insert
<1>4. made \in MadeUsers /\ (made.sure => made.in = made.meant)
    BY <1>1 DEF Creations, MadeUsers
<1> DEFINE Users == MadeUsers
<1>8. newUsers \in Seq(Users) BY DEF GroupsInv, GroupsTypeOK
<1>9. made \in Users BY <1>4
<1> HIDE DEF made, Users
<1>5. newUsers' \in Seq(Users)
    BY <1>3, <1>8, <1>9
<1>10. PicksOK' BY <1>2 DEF GroupsInv, PicksOK, Unmounted, NotNow
<1>6. ASSUME NEW u \in DOMAIN newUsers', newUsers'[u].sure
      PROVE  newUsers'[u].in = newUsers'[u].meant
  <2>1. \/ u \in DOMAIN newUsers /\ newUsers'[u] = newUsers[u]
        \/ newUsers'[u] = made
    <3>1. CASE newUsers' = Append(newUsers, made)
      <4>1. u \in 1 .. (Len(newUsers) + 1) /\ Len(newUsers) \in Nat
          BY <1>6, <1>8, <1>9, <3>1, AppendProperties
      <4>2. u \in 1 .. Len(newUsers) \/ u = Len(newUsers) + 1 BY <4>1
      <4> QED BY <1>8, <1>9, <3>1, <4>2, AppendProperties
    <3> QED BY <1>3, <1>6, <3>1
  <2> QED BY <1>4, <1>6, <2>1 DEF GroupsInv, CreatedAsPicked
<1>7. CreatedAsPicked' BY <1>6 DEF CreatedAsPicked
<1> QED BY <1>2, <1>5, <1>7, <1>10 DEF GroupsInv, GroupsTypeOK, Unmounted, Users

\* The groups tab.
LEMMA PanelInv ==
  ASSUME GroupsInv, GroupsPanel \/ \E c \in panelCalls : ServePanel(c) \/ PanelDone(c)
  PROVE  GroupsInv'
<1>1. UNCHANGED <<newUsers, known, dialogVars>>
    BY DEF GroupsPanel, ServePanel, PanelDone
<1>2. groups' \in Seq(Names) /\ asking' \in {asking, [at |-> "asked"]}
  <2>1. ASSUME NEW c \in panelCalls, Applied(c) PROVE groups' \in Seq(Names)
    <3>1. c.name \in Names BY <2>1 DEF GroupsInv, GroupsTypeOK, PanelCalls
    <3>2. groups' = Append(groups, c.name)
          \/ \E g \in There, n \in Names : groups' = [groups EXCEPT ![g] = n]
        BY <2>1, <3>1 DEF Applied, Names
    <3>3. ASSUME NEW g \in There, NEW n \in Names, groups' = [groups EXCEPT ![g] = n]
          PROVE  groups' \in Seq(Names)
        BY <3>3 DEF GroupsInv, GroupsTypeOK, There
    <3>4. groups \in Seq(Names) BY DEF GroupsInv, GroupsTypeOK
    <3> QED BY <3>1, <3>2, <3>3, <3>4
  <2> QED BY <2>1 DEF GroupsPanel, ServePanel, PanelDone, GroupsInv, GroupsTypeOK
<1>3. KnownIds \subseteq Nat BY DEF KnownIds, GroupsInv, GroupsTypeOK
<1>4. editId' \in Nat
    BY <1>3 DEF GroupsPanel, PanelSends, ServePanel, PanelDone, NoGroup, GroupsInv, GroupsTypeOK
<1>5. panelCalls' \in SUBSET PanelCalls
  <2>1. CASE GroupsPanel
    <3>1. \/ UNCHANGED panelCalls
          \/ \E do \in {"create", "update", "remove"}, id \in Nat, n \in Names :
                 PanelSends(do, id, n)
        BY <2>1, <1>3 DEF GroupsPanel, NoGroup, Names, GroupsInv, GroupsTypeOK
    <3>2. ASSUME NEW do \in {"create", "update", "remove"}, NEW id \in Nat, NEW n \in Names,
                 PanelSends(do, id, n)
          PROVE  panelCalls' \in SUBSET PanelCalls
      <4>1. [do |-> do, id |-> id, name |-> n, here |-> TRUE, at |-> "sent"] \in PanelCalls
          BY DEF PanelCalls
      <4> QED BY <3>2, <4>1 DEF PanelSends, GroupsInv, GroupsTypeOK
    <3> QED BY <3>1, <3>2 DEF GroupsInv, GroupsTypeOK
  <2>2. ASSUME NEW c \in panelCalls, ServePanel(c) \/ PanelDone(c)
        PROVE  panelCalls' \in SUBSET PanelCalls
    <3>1. panelCalls' \subseteq panelCalls \cup {[c EXCEPT !.at = "refreshing"]}
        BY <2>2 DEF ServePanel, PanelDone
    <3>2. [c EXCEPT !.at = "refreshing"] \in PanelCalls
        BY DEF GroupsInv, GroupsTypeOK, PanelCalls
    <3> QED BY <3>1, <3>2 DEF GroupsInv, GroupsTypeOK
  <2> QED BY <2>1, <2>2
<1> QED BY <1>1, <1>2, <1>4, <1>5
    DEF GroupsInv, GroupsTypeOK, PicksOK, CreatedAsPicked, dialogVars

\* A user is made in the groups that the administrator picked, and made, for it, or not at
\* all when one of them has gone, but for clicks while a group was being made.
THEOREM UsersGetTheirGroups == GroupsSpec => []CreatedAsPicked
<1>1. GroupsInv /\ [GroupsNext]_groupVars => GroupsInv'
  <2> SUFFICES ASSUME GroupsInv, [GroupsNext]_groupVars PROVE GroupsInv'
      OBVIOUS
  <2>1. CASE UNCHANGED groupVars
      BY <2>1 DEF groupVars, dialogVars, panelVars, GroupsInv, GroupsTypeOK, PicksOK,
                  CreatedAsPicked
  <2> QED BY <2>1, ListInv, GroupDialogInv, CreateUserInv, PanelInv DEF GroupsNext
<1>2. GroupsInv => CreatedAsPicked BY DEF GroupsInv
<1> QED BY <1>1, <1>2, GroupsInitInv, PTL DEF GroupsSpec

-----------------------------------------------------------------------------
(* MFAMethods: a statement that has counted leaves another active method, and no *)
(* secret is forgotten while a tab shows it.                                     *)

MFATypeOK ==
  /\ mfa_methods \in [Methods -> {"none", "active", "inactive"}]
  /\ totp_pending \in Apps \cup {"none"}
  /\ secret \in [Tabs -> Apps \cup {"none"}] /\ confirming \in [Tabs -> Apps \cup {"none"}]
  /\ deleting \in [Tabs -> Methods \cup {"none"}]
  /\ counted \in SUBSET Tabs
  /\ enrolled \in BOOLEAN /\ crossed \in BOOLEAN

Another(m) == \E o \in Methods \ {m} : mfa_methods[o] = "active"

CountedInv ==
  /\ \A t \in counted : deleting[t] # "none"
  /\ ~enrolled => mfa_methods = NoMethods
  /\ ~crossed => /\ \A t, u \in counted : t = u
                 /\ \A t \in counted : Another(deleting[t])

MFAInv == MFATypeOK /\ CountedInv /\ KeptOneMethod /\ RetryWithoutRescan

\* Of more than one active method, one is another than m.
LEMMA MoreThanOne ==
  ASSUME NEW m \in Methods, Cardinality(ActiveIn(mfa_methods)) > 1
  PROVE  Another(m)
<1> SUFFICES ASSUME ~Another(m) PROVE FALSE
    OBVIOUS
<1>1. ActiveIn(mfa_methods) = {} \/ ActiveIn(mfa_methods) = {m}
    BY DEF Another, ActiveIn
<1>2. Cardinality(ActiveIn(mfa_methods)) \in {0, 1}
    BY <1>1, FS_EmptySet, FS_Singleton
<1> QED BY <1>2

\* What concerns the list of methods, and deletions, leaves the secrets alone.
LEMMA ListMethodsInv ==
  ASSUME MFAInv, NEW t \in Tabs,
         loadMethods(t) \/ onCancel(t) \/ \E m \in Methods : handleDelete(t, m)
  PROVE  MFAInv'
<1>1. UNCHANGED <<mfa_methods, totp_pending, confirming, enrolled, counted, crossed>>
    BY DEF loadMethods, onCancel, handleDelete, enrolVars, deleteVars
<1>2. \/ UNCHANGED deleting
      \/ deleting[t] = "none" /\ \E m \in Methods : deleting' = [deleting EXCEPT ![t] = m]
    BY DEF loadMethods, onCancel, handleDelete, deleteVars
<1>3. \/ UNCHANGED <<secret, lost>>
      \/ secret' = [secret EXCEPT ![t] = "none"] /\ lost' = lost \ {t}
    BY DEF loadMethods, onCancel, handleDelete, enrolVars
<1>4. MFATypeOK' BY <1>1, <1>2, <1>3 DEF MFAInv, MFATypeOK
<1>5. CountedInv'
  <2>1. \A u \in counted : deleting'[u] = deleting[u]
      BY <1>2 DEF MFAInv, MFATypeOK, CountedInv
  <2> QED BY <1>1, <2>1 DEF MFAInv, CountedInv, Another
<1>6. KeptOneMethod' BY <1>1 DEF MFAInv, KeptOneMethod, ActiveIn
<1>7. RetryWithoutRescan' BY <1>1, <1>3 DEF MFAInv, MFATypeOK, RetryWithoutRescan
<1> QED BY <1>4, <1>5, <1>6, <1>7 DEF MFAInv

LEMMA CountActiveInv ==
  ASSUME MFAInv, NEW t \in Tabs, CountActive(t)
  PROVE  MFAInv'
<1>1. UNCHANGED <<mfa_methods, enrolled, totp_pending, secret, confirming, lost>>
    BY DEF CountActive, enrolVars
<1>2. CASE /\ mfa_methods[deleting[t]] # "none" /\ NotLast(deleting[t])
           /\ counted' = counted \cup {t} /\ crossed' = (crossed \/ counted # {})
           /\ UNCHANGED deleting
  <2> DEFINE m == deleting[t]
  <2>1. m \in Methods /\ m # "none" BY DEF CountActive, MFAInv, MFATypeOK
  <2>2. ASSUME ~crossed PROVE Another(m)
    <3>1. CASE mfa_methods[m] = "active"
        BY <1>2, <2>1, <3>1, MoreThanOne DEF NotLast
    <3>2. CASE mfa_methods[m] # "active"
      <4>1. enrolled BY <1>2, <2>1 DEF MFAInv, CountedInv, NoMethods
      <4>2. ActiveIn(mfa_methods) # {} BY <2>2, <4>1 DEF MFAInv, KeptOneMethod
      <4> QED BY <3>2, <4>2 DEF ActiveIn, Another
    <3> QED BY <3>1, <3>2
  <2>3. MFATypeOK' BY <1>1, <1>2 DEF MFAInv, MFATypeOK
  <2>4. CountedInv' BY <1>1, <1>2, <2>1, <2>2 DEF MFAInv, CountedInv, Another
  <2>5. KeptOneMethod' BY <1>1, <1>2 DEF MFAInv, KeptOneMethod, ActiveIn
  <2> QED BY <1>1, <2>3, <2>4, <2>5 DEF MFAInv, RetryWithoutRescan
<1>3. CASE deleting' = [deleting EXCEPT ![t] = "none"] /\ UNCHANGED <<counted, crossed>>
  <2>1. t \notin counted BY DEF CountActive
  <2>2. MFATypeOK' BY <1>1, <1>3 DEF MFAInv, MFATypeOK
  <2>3. CountedInv'
      BY <1>1, <1>3, <2>1 DEF MFAInv, MFATypeOK, CountedInv, Another
  <2> QED BY <1>1, <1>3, <2>2, <2>3
      DEF MFAInv, KeptOneMethod, ActiveIn, RetryWithoutRescan
<1> QED BY <1>2, <1>3 DEF CountActive

LEMMA DeleteMethodInv ==
  ASSUME MFAInv, NEW t \in Tabs, DeleteMethod(t)
  PROVE  MFAInv'
<1> DEFINE m == deleting[t]
<1>1. /\ t \in counted /\ counted' = counted \ {t}
      /\ deleting' = [deleting EXCEPT ![t] = "none"]
      /\ mfa_methods' = [mfa_methods EXCEPT ![m] = "none"]
      /\ UNCHANGED <<enrolled, totp_pending, secret, confirming, lost, crossed>>
    BY DEF DeleteMethod, enrolVars
<1>2. MFATypeOK' BY <1>1 DEF MFAInv, MFATypeOK
<1>3. ASSUME ~crossed PROVE counted' = {} /\ ActiveIn(mfa_methods') # {}
  <2>1. counted' = {} BY <1>1, <1>3 DEF MFAInv, CountedInv
  <2>2. PICK o \in Methods \ {m} : mfa_methods[o] = "active"
      BY <1>1, <1>3 DEF MFAInv, CountedInv, Another
  <2>3. mfa_methods'[o] = "active" BY <1>1, <2>2 DEF MFAInv, MFATypeOK
  <2> QED BY <2>1, <2>3 DEF ActiveIn
<1>4. ~enrolled => mfa_methods' = NoMethods
  <2> SUFFICES ASSUME ~enrolled PROVE mfa_methods' = NoMethods
      OBVIOUS
  <2>1. mfa_methods = NoMethods BY DEF MFAInv, CountedInv
  <2> QED BY <1>1, <2>1 DEF NoMethods
<1>5. \A u \in counted' : deleting'[u] # "none"
    BY <1>1 DEF MFAInv, MFATypeOK, CountedInv
<1>6. CountedInv' BY <1>1, <1>3, <1>4, <1>5 DEF CountedInv, NoMethods
<1>7. KeptOneMethod' BY <1>1, <1>3 DEF KeptOneMethod
<1> QED BY <1>1, <1>2, <1>6, <1>7 DEF MFAInv, RetryWithoutRescan

\* Methods retired, removed or confirmed.
LEMMA FactorsInv ==
  ASSUME MFAInv, deactivateStaleMFAMethods \/ Disable \/ ConfirmEmailMFA
  PROVE  MFAInv'
<1>1. UNCHANGED <<totp_pending, secret, confirming, lost, deleting, counted>>
    BY DEF deactivateStaleMFAMethods, Disable, ConfirmEmailMFA, enrolVars, deleteVars
<1>2. RetryWithoutRescan' BY <1>1 DEF MFAInv, RetryWithoutRescan
<1>3. CASE deactivateStaleMFAMethods
  <2>1. PICK used \in ActiveIn(mfa_methods), stale \in SUBSET ActiveIn(mfa_methods) :
          /\ used \notin stale /\ stale # {}
          /\ mfa_methods' = [m \in Methods |-> IF m \in stale THEN "inactive"
                                               ELSE mfa_methods[m]]
      BY <1>3 DEF deactivateStaleMFAMethods
  <2>2. crossed' = (crossed \/ counted # {}) /\ UNCHANGED enrolled
      BY <1>3 DEF deactivateStaleMFAMethods
  <2>3. used \in ActiveIn(mfa_methods') BY <2>1 DEF ActiveIn
  <2>4. enrolled BY <2>1 DEF MFAInv, CountedInv, NoMethods, ActiveIn
  <2>5. MFATypeOK' BY <1>1, <2>1, <2>2 DEF MFAInv, MFATypeOK
  <2>6. CountedInv' BY <1>1, <2>2, <2>4 DEF MFAInv, CountedInv
  <2> QED BY <1>2, <2>3, <2>5, <2>6 DEF MFAInv, KeptOneMethod
<1>4. CASE Disable
  <2>1. counted = {} /\ mfa_methods' = NoMethods /\ enrolled' = FALSE /\ UNCHANGED crossed
      BY <1>4 DEF Disable, deleteVars
  <2>2. MFATypeOK' BY <1>1, <2>1 DEF MFAInv, MFATypeOK, NoMethods
  <2>3. CountedInv' BY <1>1, <2>1 DEF CountedInv, NoMethods
  <2> QED BY <1>2, <2>1, <2>2, <2>3 DEF MFAInv, KeptOneMethod
<1>5. CASE ConfirmEmailMFA
  <2>1. mfa_methods' = [mfa_methods EXCEPT ![email] = "active"] /\ enrolled' = TRUE
        /\ UNCHANGED crossed
      BY <1>5 DEF ConfirmEmailMFA, deleteVars
  <2>2. email \in ActiveIn(mfa_methods') BY <2>1 DEF MFAInv, MFATypeOK, ActiveIn, Methods
  <2>3. MFATypeOK' BY <1>1, <2>1 DEF MFAInv, MFATypeOK
  <2>4. \A m : Another(m) => Another(m)' BY <2>1 DEF MFAInv, MFATypeOK, Another
  <2>5. CountedInv' BY <1>1, <2>1, <2>4 DEF MFAInv, CountedInv
  <2> QED BY <1>2, <2>2, <2>3, <2>5 DEF MFAInv, KeptOneMethod
<1> QED BY <1>3, <1>4, <1>5

\* The secrets: set up, expired, taken for a check, put back.
LEMMA SecretsInv ==
  ASSUME MFAInv,
         \/ PendingExpires
         \/ \E t \in Tabs : TOTPSetup(t) \/ StoreSecret(t) \/ handleVerify(t) \/ TOTPConfirm(t)
  PROVE  MFAInv'
<1>1. UNCHANGED <<mfa_methods, enrolled, deleting, counted, crossed>>
    BY DEF PendingExpires, TOTPSetup, StoreSecret, handleVerify, TOTPConfirm, deleteVars
<1>2. CountedInv' /\ KeptOneMethod'
    BY <1>1 DEF MFAInv, CountedInv, Another, KeptOneMethod, ActiveIn, NoMethods
<1>3. CASE PendingExpires
  <2>1. totp_pending' = "none" /\ lost' = lost \cup WrittenOver
        /\ UNCHANGED <<secret, confirming>>
      BY <1>3 DEF PendingExpires
  <2>2. MFATypeOK' BY <1>1, <2>1 DEF MFAInv, MFATypeOK
  <2> QED BY <1>2, <2>1, <2>2 DEF MFAInv, RetryWithoutRescan, WrittenOver, Showing
<1>4. ASSUME NEW t \in Tabs, TOTPSetup(t) PROVE MFAInv'
  <2>1. \/ secret' = [secret EXCEPT ![t] = totp_pending]
        \/ secret' = secret
      BY <1>4 DEF TOTPSetup
  <2>2. UNCHANGED <<totp_pending, confirming, lost>> BY <1>4 DEF TOTPSetup
  <2>3. MFATypeOK' BY <1>1, <2>1, <2>2 DEF MFAInv, MFATypeOK
  <2>4. RetryWithoutRescan' BY <2>1, <2>2 DEF MFAInv, MFATypeOK, RetryWithoutRescan
  <2> QED BY <1>2, <2>3, <2>4 DEF MFAInv
<1>7. ASSUME NEW t \in Tabs, StoreSecret(t) PROVE MFAInv'
  <2>1. UNCHANGED confirming BY <1>7 DEF StoreSecret
  <2>2. CASE UNCHANGED <<totp_pending, secret, lost>>
      BY <1>1, <1>2, <2>1, <2>2 DEF MFAInv, MFATypeOK, RetryWithoutRescan
  <2>3. ASSUME NEW a \in Apps, totp_pending' = a, secret' \in {secret, [secret EXCEPT ![t] = a]},
               lost' = lost \cup WrittenOver
        PROVE  MFAInv'
    <3>1. MFATypeOK' BY <1>1, <2>1, <2>3 DEF MFAInv, MFATypeOK
    <3>2. ASSUME NEW u \in Tabs \ lost', secret'[u] # "none"
          PROVE  secret'[u] = a \/ \E v \in Tabs : secret'[u] = confirming[v]
      <4>1. CASE secret'[u] # secret[u] BY <2>3, <4>1 DEF MFAInv, MFATypeOK
      <4>2. CASE secret'[u] = secret[u]
        <5>1. secret[u] # totp_pending BY <2>3, <3>2, <4>2 DEF WrittenOver, Showing
        <5> QED BY <2>3, <3>2, <4>2, <5>1 DEF MFAInv, RetryWithoutRescan
      <4> QED BY <4>1, <4>2
    <3>3. RetryWithoutRescan' BY <2>1, <2>3, <3>2 DEF RetryWithoutRescan
    <3> QED BY <1>2, <3>1, <3>3 DEF MFAInv
  <2> QED BY <1>7, <2>2, <2>3 DEF StoreSecret
<1>5. ASSUME NEW t \in Tabs, handleVerify(t) PROVE MFAInv'
  <2>1. /\ confirming[t] = "none" /\ totp_pending' = "none"
        /\ confirming' = [confirming EXCEPT ![t] = totp_pending]
        /\ UNCHANGED <<secret, lost>>
      BY <1>5 DEF handleVerify
  <2>2. MFATypeOK' BY <1>1, <2>1 DEF MFAInv, MFATypeOK
  <2>3. ASSUME NEW u \in Tabs \ lost, secret[u] # "none"
        PROVE  \E v \in Tabs : secret[u] = confirming'[v]
    <3>1. CASE secret[u] = totp_pending
        BY <2>1, <3>1 DEF MFAInv, MFATypeOK
    <3>2. ASSUME NEW v \in Tabs, secret[u] = confirming[v]
          PROVE  \E w \in Tabs : secret[u] = confirming'[w]
        BY <2>1, <2>3, <3>2 DEF MFAInv, MFATypeOK
    <3> QED BY <2>3, <3>1, <3>2 DEF MFAInv, RetryWithoutRescan
  <2> QED BY <1>2, <2>1, <2>2, <2>3 DEF MFAInv, RetryWithoutRescan
<1>6. ASSUME NEW t \in Tabs, TOTPConfirm(t) PROVE MFAInv'
  <2>1. /\ confirming[t] # "none"
        /\ confirming' = [confirming EXCEPT ![t] = "none"] /\ UNCHANGED secret
        /\ Restore(confirming[t]) \/ NotRestored(confirming[t])
      BY <1>6 DEF TOTPConfirm
  <2>2. MFATypeOK' BY <1>1, <2>1 DEF MFAInv, MFATypeOK, Restore, NotRestored
  <2>4. ASSUME NEW v \in Tabs, NEW u \in Tabs, secret[u] = confirming[v],
               secret[u] # confirming[t]
        PROVE  secret[u] = confirming'[v]
      BY <2>1, <2>4 DEF MFAInv, MFATypeOK
  <2>3. ASSUME NEW u \in Tabs \ lost', secret[u] # "none"
        PROVE  secret[u] = totp_pending' \/ \E v \in Tabs : secret[u] = confirming'[v]
    <3>1. CASE Restore(confirming[t])
      <4>1. CASE u \in lost BY <2>3, <3>1, <4>1 DEF Restore, Showing
      <4>2. CASE secret[u] = totp_pending BY <2>3, <3>1, <4>2 DEF Restore, WrittenOver, Showing
      <4>3. CASE secret[u] = confirming[t] BY <3>1, <4>3 DEF Restore
      <4> QED BY <2>3, <2>4, <4>1, <4>2, <4>3 DEF MFAInv, RetryWithoutRescan
    <3>2. CASE NotRestored(confirming[t])
      <4>1. secret[u] # confirming[t] /\ u \notin lost /\ UNCHANGED totp_pending
          BY <2>3, <3>2 DEF NotRestored, Showing
      <4> QED BY <2>3, <2>4, <4>1 DEF MFAInv, RetryWithoutRescan
    <3> QED BY <2>1, <3>1, <3>2
  <2> QED BY <1>2, <2>1, <2>2, <2>3 DEF MFAInv, RetryWithoutRescan
<1> QED BY <1>3, <1>4, <1>5, <1>6, <1>7

LEMMA ConfirmEnrollInv ==
  ASSUME MFAInv, NEW t \in Tabs, ConfirmEnroll(t)
  PROVE  MFAInv'
<1> DEFINE a == confirming[t]
<1>1. /\ a # "none" /\ mfa_methods' = [mfa_methods EXCEPT ![a] = "active"]
      /\ enrolled' = TRUE /\ lost' = lost \cup Showing(a)
      /\ confirming' = [confirming EXCEPT ![t] = "none"]
      /\ UNCHANGED <<totp_pending, secret, deleting, counted, crossed>>
    BY DEF ConfirmEnroll, deleteVars
<1>2. a \in Methods BY <1>1 DEF MFAInv, MFATypeOK, Methods
<1>3. MFATypeOK' BY <1>1 DEF MFAInv, MFATypeOK
<1>4. \A m : Another(m) => Another(m)' BY <1>1 DEF MFAInv, MFATypeOK, Another
<1>5. CountedInv' BY <1>1, <1>4 DEF MFAInv, CountedInv
<1>6. KeptOneMethod' BY <1>1, <1>2 DEF MFAInv, MFATypeOK, KeptOneMethod, ActiveIn
<1>7. ASSUME NEW u \in Tabs \ lost', secret[u] # "none"
      PROVE  secret[u] = totp_pending \/ \E v \in Tabs : secret[u] = confirming'[v]
  <2>1. secret[u] # a BY <1>1, <1>7 DEF Showing
  <2>2. ASSUME NEW v \in Tabs, secret[u] = confirming[v] PROVE secret[u] = confirming'[v]
      BY <1>1, <2>1, <2>2 DEF MFAInv, MFATypeOK
  <2> QED BY <1>1, <1>7, <2>2 DEF MFAInv, RetryWithoutRescan
<1>8. RetryWithoutRescan' BY <1>1, <1>7 DEF RetryWithoutRescan
<1> QED BY <1>3, <1>5, <1>6, <1>8 DEF MFAInv

\* An account with second factors keeps one, unless a count overlapped another deletion
\* or a retirement; and a user who mistypes a code can type the next one without scanning
\* again.
THEOREM SecondFactorsKept == MFASpec => []MethodsKept
<1>1. MFAInit => MFAInv
  <2> SUFFICES ASSUME MFAInit PROVE MFAInv
      OBVIOUS
  <2>1. MFATypeOK BY DEF MFAInit, MFATypeOK, NoMethods
  <2> QED BY <2>1 DEF MFAInit, MFAInv, CountedInv, KeptOneMethod, RetryWithoutRescan
<1>2. MFAInv /\ [MFANext]_mfaVars => MFAInv'
  <2> SUFFICES ASSUME MFAInv, [MFANext]_mfaVars PROVE MFAInv'
      OBVIOUS
  <2>1. CASE UNCHANGED mfaVars
    <3>1. UNCHANGED <<mfa_methods, enrolled, totp_pending, secret, confirming, lost,
                      deleting, counted, crossed>>
        BY <2>1 DEF mfaVars, enrolVars, deleteVars
    <3>2. MFATypeOK' BY <3>1 DEF MFAInv, MFATypeOK
    <3>3. CountedInv' BY <3>1 DEF MFAInv, CountedInv, Another, NoMethods
    <3> QED BY <3>1, <3>2, <3>3 DEF MFAInv, KeptOneMethod, ActiveIn, RetryWithoutRescan
  <2> QED BY <2>1, ListMethodsInv, CountActiveInv, DeleteMethodInv, FactorsInv, SecretsInv,
             ConfirmEnrollInv DEF MFANext
<1>3. MFAInv => MethodsKept BY DEF MFAInv, MethodsKept
<1> QED BY <1>1, <1>2, <1>3, PTL DEF MFASpec

-----------------------------------------------------------------------------
(* ScanReport: what is known of a file that a report, a tick box or a call names. *)

ReportCalls == [at: {"sent", "struck"}, op: Ops, ids: SUBSET Blobs, todo: SUBSET Blobs,
                stat: SUBSET Blobs, here: BOOLEAN]

ReportTypeOK ==
  /\ row \in [Blobs -> {"none", "live", "trash"}]
  /\ blob \in [Blobs -> {"none", "sound", "bad"}]
  /\ report \in [Kinds -> (SUBSET Blobs) \cup {Unscanned}]
  /\ scan \in [Kinds -> {NoScan, [at |-> "asked"]}
                        \cup [at: {"answered"}, found: SUBSET Blobs]]
  /\ tickedIds \in [Kinds -> SUBSET Blobs]
  /\ calls \in [1..MaxCalls -> {NoCall} \cup ReportCalls]
  /\ sent \in 0..MaxCalls /\ \A n \in 1..MaxCalls : n > sent => calls[n] = NoCall
  /\ crossedFiles \in SUBSET Blobs /\ preview \in SUBSET Blobs

Flying == {n \in 1..MaxCalls : calls[n].at # "none"}

\* A call that a page left behind, or a restoration that a scan may have missed, is known;
\* what it is about to do to a file is harmless or known.
FlyingOK(n) ==
  /\ calls[n].todo \subseteq calls[n].ids /\ calls[n].stat \subseteq calls[n].ids
  /\ ~calls[n].here => calls[n].ids \subseteq crossedFiles
  /\ calls[n].op = "restoreOrphans" /\ scan["orphan"] # NoScan => calls[n].ids \subseteq crossedFiles
  /\ calls[n].at = "struck" => calls[n].op = "purgeCorrupt"
  /\ calls[n].stat # {} => calls[n].op = "restoreOrphans"
  /\ \A f \in calls[n].ids :
       /\ calls[n].op = "purgeCorrupt" => row[f] # "none"
       /\ calls[n].at = "struck" => row[f] = "trash"
       /\ calls[n].op = "purgeOrphans" /\ row[f] = "live" => f \in crossedFiles
       /\ f \in calls[n].stat /\ blob[f] = "none" /\ row[f] = "none" => f \in crossedFiles

FlyingInv == \A n \in Flying : FlyingOK(n)

\* Two calls of different operations that share a file are known to.
PairsInv ==
  \A n, m \in Flying : calls[n].op # calls[m].op =>
      calls[n].ids \cap calls[m].ids \subseteq crossedFiles

Restoring == {f \in Blobs : \E n \in Flying : calls[n].op = "restoreOrphans" /\ f \in calls[n].ids}

FoundInv ==
  /\ \A k \in Kinds : scan[k] # NoScan => tickedIds[k] = {}
  /\ \A f \in Blobs :
       /\ \/ scan["corrupt"].at = "answered" /\ f \in scan["corrupt"].found
          \/ report["corrupt"] # Unscanned /\ f \in report["corrupt"]
          \/ f \in tickedIds["corrupt"]
          \/ f \in preview
          => row[f] # "none"
       /\ scan["orphan"].at = "answered" /\ f \in scan["orphan"].found /\ row[f] = "live"
          => f \in crossedFiles
       /\ report["orphan"] # Unscanned /\ f \in report["orphan"] /\ row[f] = "live"
          => f \in crossedFiles \cup Restoring

ReportInv == ReportTypeOK /\ FlyingInv /\ PairsInv /\ FoundInv /\ ReportHolds

LEMMA FlyingCall ==
  ASSUME ReportTypeOK, NEW n \in Flying
  PROVE  n \in 1..MaxCalls /\ calls[n] \in ReportCalls
BY DEF ReportTypeOK, Flying, NoCall

LEMMA InFlightIs ==
  ASSUME NEW ops, NEW f
  PROVE  f \in InFlight(ops) <=> \E n \in Flying : calls[n].op \in ops /\ f \in calls[n].ids
BY DEF InFlight, Flying

LEMMA ScansInv ==
  ASSUME ReportInv, NEW k \in Kinds,
         startScan(k) \/ StorageScan(k) \/ ScanEnds(k) \/ ScanFailed(k)
  PROVE  ReportInv'
<1>1. UNCHANGED <<row, blob, preview, calls, sent>>
    BY DEF startScan, StorageScan, ScanEnds, ScanFailed
<1>2. Flying' = Flying /\ Restoring' = Restoring BY <1>1 DEF Flying, Restoring
<1>3. CASE startScan(k)
  <2>1. /\ scan' = [scan EXCEPT ![k] = [at |-> "asked"]]
        /\ tickedIds' = [tickedIds EXCEPT ![k] = {}] /\ UNCHANGED report
        /\ crossedFiles' = IF k = "orphan" THEN crossedFiles \cup InFlight({"restoreOrphans"})
                           ELSE crossedFiles
      BY <1>3 DEF startScan, Unticked
  <2>2. InFlight({"restoreOrphans"}) \subseteq Blobs
      BY InFlightIs, FlyingCall DEF ReportInv, ReportCalls
  <2>3. ReportTypeOK'
      BY <1>1, <2>1, <2>2 DEF ReportInv, ReportTypeOK
  <2>4. ASSUME NEW n \in Flying, calls[n].op = "restoreOrphans", scan'["orphan"] # NoScan
        PROVE  calls[n].ids \subseteq crossedFiles'
    <3>1. CASE k = "orphan"
        BY <2>1, <2>4, <3>1, FlyingCall, InFlightIs DEF ReportInv, ReportCalls
    <3>2. CASE k # "orphan"
        BY <2>1, <2>4, <3>2 DEF ReportInv, ReportTypeOK, FlyingInv, FlyingOK, Kinds
    <3> QED BY <3>1, <3>2
  <2>5. FlyingInv' BY <1>1, <1>2, <2>1, <2>4 DEF ReportInv, FlyingInv, FlyingOK
  <2>6. PairsInv' BY <1>1, <1>2, <2>1 DEF ReportInv, PairsInv
  <2>7. FoundInv'
    <3>1. \A i \in Kinds : scan'[i].at = "answered" => scan'[i] = scan[i]
        BY <2>1 DEF ReportInv, ReportTypeOK
    <3> QED BY <1>1, <1>2, <2>1, <3>1 DEF ReportInv, ReportTypeOK, FoundInv, Kinds
  <2>8. ReportHolds'
      BY <1>1, <2>1 DEF ReportInv, ReportTypeOK, ReportHolds, TickedIsListed, RestoredKept
  <2> QED BY <2>3, <2>5, <2>6, <2>7, <2>8 DEF ReportInv
<1>4. CASE StorageScan(k)
  <2>0. PICK unread \in SUBSET Misread :
          /\ unread # {} => k = "orphan"
          /\ crossedFiles' = crossedFiles \cup unread
          /\ scan' = [scan EXCEPT ![k] =
               [at |-> "answered",
                found |-> IF k = "corrupt" THEN runCorruptScan ELSE runOrphanScan \cup unread]]
      BY <1>4 DEF StorageScan
  <2> DEFINE found == IF k = "corrupt" THEN runCorruptScan ELSE runOrphanScan \cup unread
  <2>1. /\ scan[k].at = "asked" /\ scan' = [scan EXCEPT ![k] = [at |-> "answered", found |-> found]]
        /\ crossedFiles' = crossedFiles \cup unread /\ UNCHANGED <<report, tickedIds>>
      BY <1>4, <2>0 DEF StorageScan
  <2>2. /\ found \in SUBSET Blobs /\ unread \in SUBSET Blobs /\ scan[k] # NoScan
        /\ k = "corrupt" => \A f \in found : row[f] = "live"
        /\ k = "orphan" => \A f \in found : row[f] = "none" \/ f \in unread
      BY <2>1 DEF runCorruptScan, runOrphanScan, NoScan, Misread
  <2> HIDE DEF found
  <2>3. ReportTypeOK' BY <1>1, <2>1, <2>2 DEF ReportInv, ReportTypeOK
  <2>4. \A i \in Kinds : scan'[i] # NoScan => scan[i] # NoScan
      BY <2>1, <2>2 DEF ReportInv, ReportTypeOK
  <2>5. "orphan" \in Kinds BY DEF Kinds
  <2>6. FlyingInv' BY <1>1, <1>2, <2>1, <2>4, <2>5 DEF ReportInv, FlyingInv, FlyingOK
  <2>7. FoundInv'
    <3>1. \A i \in Kinds : \/ scan'[i] = scan[i]
                           \/ i = k /\ scan'[i].at = "answered" /\ scan'[i].found = found
        BY <2>1 DEF ReportInv, ReportTypeOK
    <3> QED BY <1>1, <1>2, <2>1, <2>2, <2>4, <3>1 DEF ReportInv, FoundInv, Kinds
  <2> QED BY <1>1, <1>2, <2>1, <2>3, <2>6, <2>7
      DEF ReportInv, PairsInv, ReportHolds, TickedIsListed, RestoredKept
<1>5. CASE ScanEnds(k) \/ ScanFailed(k)
  <2>1. /\ scan[k] # NoScan /\ scan' = [scan EXCEPT ![k] = NoScan]
        /\ \/ UNCHANGED report
           \/ scan[k].at = "answered" /\ report' = [report EXCEPT ![k] = scan[k].found]
        /\ UNCHANGED <<tickedIds, crossedFiles>>
      BY <1>5 DEF ScanEnds, ScanFailed, NoScan
  <2>2. scan[k].at = "answered" => scan[k].found \in SUBSET Blobs
      BY DEF ReportInv, ReportTypeOK, NoScan
  <2>3. ReportTypeOK' BY <1>1, <2>1, <2>2 DEF ReportInv, ReportTypeOK
  <2>4. \A i \in Kinds : \/ scan'[i] = scan[i]
                         \/ i = k /\ scan'[i] = NoScan
      BY <2>1 DEF ReportInv, ReportTypeOK
  <2>5. "orphan" \in Kinds BY DEF Kinds
  <2>6. FlyingInv' BY <1>1, <1>2, <2>1, <2>4, <2>5 DEF ReportInv, FlyingInv, FlyingOK
  <2>7. \A i \in Kinds : \/ report'[i] = report[i]
                         \/ i = k /\ scan[i].at = "answered" /\ report'[i] = scan[i].found
      BY <2>1 DEF ReportInv, ReportTypeOK
  <2>8. FoundInv'
      BY <1>1, <1>2, <2>1, <2>4, <2>7 DEF ReportInv, FoundInv, Kinds, NoScan
  <2>9. tickedIds[k] = {} BY <2>1 DEF ReportInv, FoundInv
  <2>10. ReportHolds'
      BY <1>1, <2>1, <2>7, <2>9 DEF ReportInv, ReportHolds, TickedIsListed, RestoredKept
  <2> QED BY <1>1, <1>2, <2>1, <2>3, <2>6, <2>8, <2>10 DEF ReportInv, PairsInv
<1> QED BY <1>3, <1>4, <1>5

LEMMA BoxesInv ==
  ASSUME ReportInv, NEW k \in Kinds, toggleAll(k) \/ \E f \in Blobs : toggle(k, f)
  PROVE  ReportInv'
<1>1. UNCHANGED <<row, blob, report, scan, preview, calls, sent, crossedFiles>>
    BY DEF toggleAll, toggle
<1>2. Listed(k) # {} BY DEF toggleAll, toggle
<1>3. scan[k] = NoScan /\ report[k] # Unscanned /\ Listed(k) = report[k]
    BY <1>2 DEF Listed, CanScan
<1>4. PICK t : /\ tickedIds' = [tickedIds EXCEPT ![k] = t]
               /\ t \subseteq tickedIds[k] \cup report[k]
    BY <1>3 DEF toggleAll, toggle, ReportInv, ReportTypeOK
<1>5. report[k] \in SUBSET Blobs BY <1>3 DEF ReportInv, ReportTypeOK
<1>6. ReportTypeOK' BY <1>1, <1>4, <1>5 DEF ReportInv, ReportTypeOK
<1>7. Flying' = Flying /\ Restoring' = Restoring BY <1>1 DEF Flying, Restoring
<1>8. FoundInv'
    BY <1>1, <1>3, <1>4, <1>7 DEF ReportInv, ReportTypeOK, FoundInv, Kinds
<1>9. ReportHolds'
    BY <1>1, <1>3, <1>4
    DEF ReportInv, ReportTypeOK, ReportHolds, TickedIsListed, RestoredKept
<1> QED BY <1>1, <1>6, <1>7, <1>8, <1>9 DEF ReportInv, FlyingInv, FlyingOK, PairsInv

\* A call is sent for files of a report that is shown, or for the one looked at.
LEMMA MutateInv ==
  ASSUME ReportInv, NEW op \in Ops, NEW ids \in SUBSET Blobs, Mutate(op, ids),
         preview' \in SUBSET preview,
         \/ ids \subseteq tickedIds[KindOf(op)] /\ Listed(KindOf(op)) # {}
         \/ op = "purgeCorrupt" /\ ids \subseteq preview
  PROVE  ReportInv'
<1> DEFINE c == [at |-> "sent", op |-> op, ids |-> ids, todo |-> ids, stat |-> {}, here |-> TRUE]
           i == sent + 1
<1>1. /\ sent < MaxCalls /\ sent' = i /\ calls' = [calls EXCEPT ![i] = c]
      /\ crossedFiles' = crossedFiles \cup (ids \cap InFlight(Ops \ {op}))
      /\ UNCHANGED <<row, blob, report, scan, tickedIds>>
    BY DEF Mutate
<1>2. i \in 1..MaxCalls /\ calls[i] = NoCall /\ sent \in Nat /\ MaxCalls \in Nat
    BY <1>1, ReportAssumption DEF ReportInv, ReportTypeOK
<1>3. /\ c \in ReportCalls /\ c.at = "sent" /\ c.op = op /\ c.ids = ids /\ c.todo = ids
      /\ c.stat = {} /\ c.here
    BY DEF ReportCalls
<1> HIDE DEF c
<1>4. ReportTypeOK'
    BY <1>1, <1>2, <1>3 DEF ReportInv, ReportTypeOK
<1>5. Flying' = Flying \cup {i} /\ i \notin Flying
      /\ calls'[i] = c /\ \A n \in Flying : calls'[n] = calls[n]
    BY <1>1, <1>2, <1>3 DEF Flying, NoCall, ReportInv, ReportTypeOK
<1>6. op # "purgeCorrupt" => /\ ids \subseteq tickedIds["orphan"]
                             /\ scan["orphan"] = NoScan /\ report["orphan"] # Unscanned
    BY DEF Listed, CanScan, KindOf
<1>7. op = "purgeCorrupt" => \A f \in ids : row[f] # "none"
    BY DEF KindOf, ReportInv, FoundInv
<1>8. op = "purgeOrphans" => \A f \in ids : row[f] = "live" => f \in crossedFiles'
  <2> SUFFICES ASSUME op = "purgeOrphans", NEW f \in ids, row[f] = "live"
               PROVE  f \in crossedFiles'
      OBVIOUS
  <2>1. f \in report["orphan"] \cup crossedFiles /\ report["orphan"] # Unscanned
      BY <1>6 DEF KindOf, Kinds, ReportInv, ReportHolds, TickedIsListed
  <2>2. f \in crossedFiles \cup Restoring BY <2>1 DEF ReportInv, FoundInv
  <2>3. f \in Restoring => f \in InFlight(Ops \ {op})
      BY InFlightIs DEF Restoring, Ops
  <2> QED BY <1>1, <2>2, <2>3
<1>9. FlyingInv'
  <2>1. ASSUME NEW n \in Flying PROVE FlyingOK(n)'
      BY <1>1, <1>5 DEF ReportInv, FlyingInv, FlyingOK
  <2>2. ASSUME NEW n, n = i PROVE FlyingOK(n)'
    <3>1. calls'[n] = c BY <1>5, <2>2
    <3>2. /\ calls'[n].todo \subseteq calls'[n].ids /\ calls'[n].stat = {} /\ calls'[n].here
          /\ calls'[n].op = "restoreOrphans" => scan'["orphan"] = NoScan
          /\ calls'[n].at # "struck"
        BY <1>1, <1>3, <1>6, <3>1
    <3>3. ASSUME NEW f \in calls'[n].ids
          PROVE  /\ calls'[n].op = "purgeCorrupt" => row'[f] # "none"
                 /\ calls'[n].op = "purgeOrphans" /\ row'[f] = "live" => f \in crossedFiles'
        BY <1>1, <1>3, <1>7, <1>8, <3>1
    <3> QED BY <3>2, <3>3 DEF FlyingOK
  <2> QED BY <1>5, <2>1, <2>2 DEF FlyingInv
<1>10. PairsInv'
  <2>1. ASSUME NEW n \in Flying, calls[n].op # op
        PROVE  calls[n].ids \cap ids \subseteq crossedFiles'
      BY <1>1, <2>1, FlyingCall, InFlightIs DEF ReportInv, ReportCalls
  <2>2. ASSUME NEW n \in Flying, NEW m \in Flying, calls[n].op # calls[m].op
        PROVE  calls[n].ids \cap calls[m].ids \subseteq crossedFiles'
      BY <1>1, <2>2 DEF ReportInv, PairsInv
  <2>3. ASSUME NEW n \in Flying', NEW m \in Flying', calls'[n].op # calls'[m].op
        PROVE  calls'[n].ids \cap calls'[m].ids \subseteq crossedFiles'
    <3>1. CASE n = i /\ m # i BY <1>3, <1>5, <2>1, <2>3, <3>1
    <3>2. CASE n # i /\ m = i BY <1>3, <1>5, <2>1, <2>3, <3>2
    <3>3. CASE n # i /\ m # i BY <1>5, <2>2, <2>3, <3>3
    <3> QED BY <2>3, <3>1, <3>2, <3>3
  <2> QED BY <2>3 DEF PairsInv
<1>11. FoundInv'
  <2>1. Restoring \subseteq Restoring' BY <1>5 DEF Restoring
  <2> QED BY <1>1, <2>1 DEF ReportInv, FoundInv
<1> QED BY <1>1, <1>4, <1>9, <1>10, <1>11
    DEF ReportInv, ReportHolds, TickedIsListed, RestoredKept

\* A step of the server's loops changes a call's progress only.
LEMMA LoopCalls ==
  ASSUME ReportTypeOK, NEW n \in Flying, NEW c \in ReportCalls,
         calls' = [calls EXCEPT ![n] = c],
         c.op = calls[n].op, c.ids = calls[n].ids, c.here = calls[n].here
  PROVE  /\ Flying' = Flying /\ Restoring' = Restoring
         /\ calls' \in [1..MaxCalls -> {NoCall} \cup ReportCalls]
         /\ (\A m \in 1..MaxCalls : m > sent => calls'[m] = NoCall)
         /\ calls'[n] = c /\ \A m \in 1..MaxCalls : m # n => calls'[m] = calls[m]
         /\ \A m \in Flying : /\ calls'[m].op = calls[m].op /\ calls'[m].ids = calls[m].ids
                              /\ calls'[m].here = calls[m].here
<1>1. n \in 1..MaxCalls /\ calls[n] \in ReportCalls /\ c.at # "none"
    BY FlyingCall DEF ReportCalls
<1>2. calls'[n] = c /\ \A m \in 1..MaxCalls : m # n => calls'[m] = calls[m]
    BY <1>1 DEF ReportTypeOK
<1>3. Flying' = Flying BY <1>1, <1>2 DEF Flying
<1>4. \A m \in Flying : /\ calls'[m].op = calls[m].op /\ calls'[m].ids = calls[m].ids
                        /\ calls'[m].here = calls[m].here
    BY <1>2 DEF Flying
<1>5. Restoring' = Restoring BY <1>3, <1>4 DEF Restoring
<1>6. calls' \in [1..MaxCalls -> {NoCall} \cup ReportCalls]
      /\ \A m \in 1..MaxCalls : m > sent => calls'[m] = NoCall
    BY <1>1, <1>2 DEF ReportTypeOK, ReportCalls, NoCall, Flying
<1> QED BY <1>2, <1>3, <1>4, <1>5, <1>6

LEMMA StrikeInv ==
  ASSUME ReportInv, NEW n \in 1..MaxCalls, Strike(n)
  PROVE  ReportInv'
<1> DEFINE c == [calls[n] EXCEPT !.at = "struck"]
<1>1. /\ calls[n].at = "sent" /\ calls[n].op = "purgeCorrupt"
      /\ row' = [f \in Blobs |-> IF f \in calls[n].ids /\ row[f] = "live" THEN "trash" ELSE row[f]]
      /\ calls' = [calls EXCEPT ![n] = c]
      /\ UNCHANGED <<blob, report, scan, tickedIds, preview, sent, crossedFiles>>
    BY DEF Strike
<1>2. n \in Flying /\ calls[n] \in ReportCalls
    BY <1>1, FlyingCall DEF Flying, ReportInv
<1>3. /\ c \in ReportCalls /\ c.at = "struck" /\ c.op = calls[n].op /\ c.ids = calls[n].ids
      /\ c.here = calls[n].here /\ c.todo = calls[n].todo /\ c.stat = calls[n].stat
    BY <1>2 DEF ReportCalls
<1> HIDE DEF c
<1>4. /\ Flying' = Flying /\ Restoring' = Restoring
      /\ calls' \in [1..MaxCalls -> {NoCall} \cup ReportCalls]
      /\ (\A m \in 1..MaxCalls : m > sent => calls'[m] = NoCall)
      /\ calls'[n] = c /\ \A m \in 1..MaxCalls : m # n => calls'[m] = calls[m]
      /\ \A m \in Flying : /\ calls'[m].op = calls[m].op /\ calls'[m].ids = calls[m].ids
                           /\ calls'[m].here = calls[m].here
    BY <1>1, <1>2, <1>3, LoopCalls DEF ReportInv
<1>5. ReportTypeOK' BY <1>1, <1>4 DEF ReportInv, ReportTypeOK
<1>6. \A f \in Blobs : /\ row'[f] = "live" => row[f] = "live"
                       /\ row'[f] = "none" <=> row[f] = "none"
                       /\ row[f] = "trash" => row'[f] = "trash"
    BY <1>1 DEF ReportInv, ReportTypeOK
<1>7. \A m \in Flying : calls[m].ids \in SUBSET Blobs
    BY FlyingCall DEF ReportCalls, ReportInv
<1>8. FlyingInv'
  <2>1. ASSUME NEW m \in Flying, m # n PROVE FlyingOK(m)'
      BY <1>1, <1>4, <1>6, <1>7, <2>1 DEF ReportInv, FlyingInv, FlyingOK, Flying
  <2>2. \A f \in calls[n].ids : row'[f] = "trash"
      BY <1>1, <1>2, <1>7 DEF ReportInv, ReportTypeOK, FlyingInv, FlyingOK
  <2>3. FlyingOK(n)'
      BY <1>1, <1>2, <1>3, <1>4, <2>2 DEF ReportInv, FlyingInv, FlyingOK
  <2> QED BY <1>4, <2>1, <2>3 DEF FlyingInv
<1>9. PairsInv' BY <1>1, <1>4 DEF ReportInv, PairsInv
<1>10. FoundInv' BY <1>1, <1>4, <1>6 DEF ReportInv, FoundInv
<1>11. ReportHolds'
    BY <1>1, <1>6 DEF ReportInv, ReportHolds, TickedIsListed, RestoredKept
<1> QED BY <1>5, <1>8, <1>9, <1>10, <1>11 DEF ReportInv

LEMMA RemoveBytesInv ==
  ASSUME ReportInv, NEW n \in 1..MaxCalls, NEW f \in Blobs, RemoveBytes(n, f)
  PROVE  ReportInv'
<1> DEFINE c == [calls[n] EXCEPT !.todo = @ \ {f}]
<1>1. /\ calls[n].at = "struck" \/ (calls[n].at = "sent" /\ calls[n].op = "purgeOrphans")
      /\ f \in calls[n].todo /\ blob' \in {blob, [blob EXCEPT ![f] = "none"]}
      /\ calls' = [calls EXCEPT ![n] = c]
      /\ UNCHANGED <<row, report, scan, tickedIds, preview, sent, crossedFiles>>
    BY DEF RemoveBytes
<1>2. n \in Flying /\ calls[n] \in ReportCalls
    BY <1>1, FlyingCall DEF Flying, ReportInv
<1>3. /\ c \in ReportCalls /\ c.at = calls[n].at /\ c.op = calls[n].op /\ c.ids = calls[n].ids
      /\ c.here = calls[n].here /\ c.todo \subseteq calls[n].todo /\ c.stat = calls[n].stat
    BY <1>2 DEF ReportCalls
<1> HIDE DEF c
<1>4. /\ Flying' = Flying /\ Restoring' = Restoring
      /\ calls' \in [1..MaxCalls -> {NoCall} \cup ReportCalls]
      /\ (\A m \in 1..MaxCalls : m > sent => calls'[m] = NoCall)
      /\ calls'[n] = c /\ \A m \in 1..MaxCalls : m # n => calls'[m] = calls[m]
      /\ \A m \in Flying : /\ calls'[m].op = calls[m].op /\ calls'[m].ids = calls[m].ids
                           /\ calls'[m].here = calls[m].here
    BY <1>1, <1>2, <1>3, LoopCalls DEF ReportInv
<1>5. ReportTypeOK' BY <1>1, <1>4 DEF ReportInv, ReportTypeOK
<1>6. FlyingOK(n) /\ f \in calls[n].ids BY <1>1, <1>2 DEF ReportInv, FlyingInv, FlyingOK
<1>7. row[f] = "trash" \/ calls[n].op = "purgeOrphans"
    BY <1>1, <1>6 DEF FlyingOK
<1>8. row[f] = "live" => f \in crossedFiles
    BY <1>6, <1>7 DEF FlyingOK
<1>9. ASSUME NEW m \in Flying, f \in calls[m].stat, row[f] = "none"
      PROVE  f \in crossedFiles
  <2>1. calls[m].op = "restoreOrphans" /\ f \in calls[m].ids
      BY <1>9 DEF ReportInv, FlyingInv, FlyingOK
  <2> QED BY <1>2, <1>6, <1>7, <1>9, <2>1 DEF ReportInv, PairsInv
<1>10. \A g \in Blobs : g # f => blob'[g] = blob[g]
    BY <1>1 DEF ReportInv, ReportTypeOK
<1>11. \A m \in Flying : /\ calls[m].ids \in SUBSET Blobs /\ m \in 1..MaxCalls
                         /\ calls'[m].at = calls[m].at /\ calls'[m].stat = calls[m].stat
                         /\ calls'[m].todo \subseteq calls[m].todo
    BY <1>3, <1>4, FlyingCall DEF ReportCalls, ReportInv
<1>12. FlyingInv'
  <2>1. ASSUME NEW m \in Flying PROVE FlyingOK(m)'
    <3>1. FlyingOK(m) BY DEF ReportInv, FlyingInv
    <3>2. ASSUME NEW g \in calls[m].ids, g \in calls[m].stat, blob'[g] = "none", row[g] = "none"
          PROVE  g \in crossedFiles
        BY <1>9, <1>10, <1>11, <3>1, <3>2 DEF FlyingOK
    <3> QED BY <1>1, <1>4, <1>11, <3>1, <3>2 DEF FlyingOK
  <2> QED BY <1>4, <2>1 DEF FlyingInv
<1>13. PairsInv' BY <1>1, <1>4 DEF ReportInv, PairsInv
<1>14. FoundInv' BY <1>1, <1>4 DEF ReportInv, FoundInv
<1>15. ReportHolds'
    BY <1>1, <1>8, <1>10 DEF ReportInv, ReportHolds, TickedIsListed, RestoredKept
<1> QED BY <1>5, <1>12, <1>13, <1>14, <1>15 DEF ReportInv

LEMMA RestoreInv ==
  ASSUME ReportInv, NEW n \in 1..MaxCalls, NEW f \in Blobs,
         Stat(n, f) \/ restoreOrphanFile(n, f)
  PROVE  ReportInv'
<1>1. /\ calls[n].at = "sent" /\ calls[n].op = "restoreOrphans"
      /\ f \in calls[n].todo \/ f \in calls[n].stat
      /\ UNCHANGED <<blob, report, scan, tickedIds, preview, sent, crossedFiles>>
    BY DEF Stat, restoreOrphanFile
<1>2. n \in Flying /\ calls[n] \in ReportCalls /\ FlyingOK(n)
    BY <1>1, FlyingCall DEF Flying, ReportInv, FlyingInv
<1>3. f \in calls[n].ids BY <1>1, <1>2 DEF FlyingOK
<1>4. PICK c \in ReportCalls :
        /\ calls' = [calls EXCEPT ![n] = c]
        /\ c.at = "sent" /\ c.op = "restoreOrphans" /\ c.ids = calls[n].ids
        /\ c.here = calls[n].here /\ c.todo \subseteq calls[n].todo
        /\ \A g \in c.stat : \/ g \in calls[n].stat
                             \/ g = f /\ blob[f] # "none"
  <2>1. CASE Stat(n, f)
    <3>1. CASE calls' = [calls EXCEPT ![n].todo = @ \ {f}]
      <4> DEFINE c == [calls[n] EXCEPT !.todo = @ \ {f}]
      <4>1. c \in ReportCalls /\ calls' = [calls EXCEPT ![n] = c]
          BY <1>2, <2>1, <3>1 DEF Stat, ReportCalls
      <4> QED BY <1>1, <1>2, <4>1 DEF ReportCalls
    <3>2. CASE blob[f] # "none" /\ calls' = [calls EXCEPT ![n].stat = {f}]
      <4> DEFINE c == [calls[n] EXCEPT !.stat = {f}]
      <4>1. c \in ReportCalls /\ calls' = [calls EXCEPT ![n] = c]
          BY <1>2, <2>1, <3>2 DEF Stat, ReportCalls
      <4> QED BY <1>1, <1>2, <3>2, <4>1 DEF ReportCalls
    <3> QED BY <2>1, <3>1, <3>2 DEF Stat
  <2>2. CASE restoreOrphanFile(n, f)
    <3> DEFINE c == [calls[n] EXCEPT !.todo = @ \ {f}, !.stat = {}]
    <3>1. c \in ReportCalls /\ calls' = [calls EXCEPT ![n] = c]
        BY <1>2, <2>2 DEF restoreOrphanFile, ReportCalls
    <3> QED BY <1>1, <1>2, <3>1 DEF ReportCalls
  <2> QED BY <2>1, <2>2
<1>5. /\ Flying' = Flying /\ Restoring' = Restoring
      /\ calls' \in [1..MaxCalls -> {NoCall} \cup ReportCalls]
      /\ (\A m \in 1..MaxCalls : m > sent => calls'[m] = NoCall)
      /\ calls'[n] = c /\ \A m \in 1..MaxCalls : m # n => calls'[m] = calls[m]
      /\ \A m \in Flying : /\ calls'[m].op = calls[m].op /\ calls'[m].ids = calls[m].ids
                           /\ calls'[m].here = calls[m].here
    BY <1>1, <1>2, <1>4, LoopCalls DEF ReportInv
\* A row is made for a file that was not known, or nothing is.
<1>6. \/ UNCHANGED row
      \/ row[f] = "none" /\ f \in calls[n].stat /\ row' = [row EXCEPT ![f] = "live"]
    BY DEF Stat, restoreOrphanFile, ReportInv, ReportTypeOK
<1>7. ReportTypeOK' BY <1>1, <1>5, <1>6 DEF ReportInv, ReportTypeOK
<1>8. \A g \in Blobs : /\ row[g] # "none" => row'[g] = row[g]
                       /\ g # f => row'[g] = row[g]
                       /\ row'[g] # row[g] => g \in calls[n].stat /\ row[g] = "none"
                       /\ row'[g] \in {row[g], "live"}
    BY <1>6 DEF ReportInv, ReportTypeOK
<1>9. ASSUME row'[f] # row[f], NEW m \in Flying, calls[m].op = "purgeOrphans",
             f \in calls[m].ids
      PROVE  f \in crossedFiles
    BY <1>1, <1>2, <1>3, <1>9 DEF ReportInv, PairsInv
<1>10. FlyingInv'
  <2>1. ASSUME NEW m \in Flying PROVE FlyingOK(m)'
    <3>1. FlyingOK(m) /\ calls[m].ids \in SUBSET Blobs /\ m \in 1..MaxCalls
        BY FlyingCall DEF ReportInv, FlyingInv, ReportCalls
    <3>2. /\ calls'[m].at = calls[m].at /\ calls'[m].todo \subseteq calls[m].todo
          /\ \A g \in calls'[m].stat : \/ g \in calls[m].stat
                                       \/ m = n /\ g = f /\ blob[f] # "none"
        BY <1>1, <1>4, <1>5, <3>1
    <3>3. ASSUME NEW g \in calls[m].ids
          PROVE  /\ calls[m].op = "purgeCorrupt" => row'[g] # "none"
                 /\ calls[m].at = "struck" => row'[g] = "trash"
                 /\ calls[m].op = "purgeOrphans" /\ row'[g] = "live" => g \in crossedFiles
                 /\ g \in calls'[m].stat /\ blob[g] = "none" /\ row'[g] = "none"
                      => g \in crossedFiles
        BY <1>8, <1>9, <3>1, <3>2 DEF FlyingOK
    <3>4. /\ calls'[m].stat \subseteq calls[m].ids
          /\ calls'[m].stat # {} => calls[m].op = "restoreOrphans"
        BY <1>1, <1>3, <3>1, <3>2 DEF FlyingOK
    <3> QED BY <1>1, <1>5, <3>1, <3>2, <3>3, <3>4 DEF FlyingOK
  <2> QED BY <1>5, <2>1 DEF FlyingInv
<1>11. PairsInv' BY <1>1, <1>5 DEF ReportInv, PairsInv
<1>12. FoundInv'
  <2>1. f \in Restoring BY <1>1, <1>2, <1>3 DEF Restoring
  <2>2. scan["orphan"].at = "answered" => f \in crossedFiles
      BY <1>1, <1>2, <1>3 DEF FlyingOK, KindOf, NoScan
  <2> QED BY <1>1, <1>5, <1>8, <2>1, <2>2 DEF ReportInv, FoundInv
<1>13. ReportHolds'
  <2>1. row'[f] # row[f] /\ blob[f] = "none" => f \in crossedFiles
      BY <1>2, <1>3, <1>8 DEF FlyingOK
  <2> QED BY <1>1, <1>8, <2>1 DEF ReportInv, ReportHolds, TickedIsListed, RestoredKept
<1> QED BY <1>7, <1>10, <1>11, <1>12, <1>13 DEF ReportInv

\* A call ends: its files leave the report it was made from, or are known.
LEMMA CallEndsInv ==
  ASSUME ReportInv, NEW n \in 1..MaxCalls, Succeeded(n) \/ CallFailed(n)
  PROVE  ReportInv'
<1> DEFINE k == KindOf(calls[n].op)
<1>1. /\ calls[n].at # "none" /\ calls' = [calls EXCEPT ![n] = NoCall]
      /\ UNCHANGED <<row, blob, scan, preview, sent>>
    BY DEF Succeeded, CallFailed
<1>2. n \in Flying /\ calls[n] \in ReportCalls /\ FlyingOK(n) /\ k \in Kinds
    BY <1>1, FlyingCall DEF Flying, ReportInv, FlyingInv, KindOf, Kinds
<1>3. /\ Flying' = Flying \ {n} /\ \A m \in Flying : m # n => calls'[m] = calls[m]
      /\ calls' \in [1..MaxCalls -> {NoCall} \cup ReportCalls]
      /\ \A m \in 1..MaxCalls : m > sent => calls'[m] = NoCall
    BY <1>1 DEF Flying, NoCall, ReportInv, ReportTypeOK
<1>4. calls[n].ids \in SUBSET Blobs BY <1>2 DEF ReportCalls
<1>5. CASE Succeeded(n)
  <2>1. /\ report' = [report EXCEPT ![k] = IF @ = Unscanned THEN @ ELSE @ \ calls[n].ids]
        /\ tickedIds' = IF calls[n].here THEN [tickedIds EXCEPT ![k] = {}] ELSE tickedIds
        /\ UNCHANGED crossedFiles
      BY <1>5 DEF Succeeded, Dropped, Unticked
  <2>2. ReportTypeOK' BY <1>1, <1>2, <1>3, <1>4, <2>1 DEF ReportInv, ReportTypeOK
  <2>3. /\ report'[k] = IF report[k] = Unscanned THEN Unscanned ELSE report[k] \ calls[n].ids
        /\ \A i \in Kinds : i # k => report'[i] = report[i] /\ tickedIds'[i] = tickedIds[i]
        /\ tickedIds'[k] \subseteq tickedIds[k]
        /\ tickedIds'[k] = {} \/ calls[n].ids \subseteq crossedFiles
      BY <1>2, <2>1 DEF ReportInv, ReportTypeOK, FlyingOK
  <2>4. /\ \A i \in Kinds : tickedIds'[i] \subseteq tickedIds[i]
        /\ \A i \in Kinds : report'[i] # Unscanned =>
                report[i] # Unscanned /\ report'[i] \subseteq report[i]
      BY <2>3
  <2>5. \A f \in Restoring \ Restoring' : f \in calls[n].ids /\ k = "orphan"
      BY <1>3 DEF Restoring, KindOf
  <2>6. FoundInv'
      BY <1>1, <1>2, <2>1, <2>3, <2>4, <2>5 DEF ReportInv, FoundInv, Kinds
  <2>7. ReportHolds'
    <3>1. ASSUME NEW i \in Kinds, report'[i] # Unscanned
          PROVE  tickedIds'[i] \subseteq report'[i] \cup crossedFiles
        BY <2>3, <2>4, <3>1 DEF ReportInv, ReportHolds, TickedIsListed
    <3> QED BY <1>1, <2>1, <3>1 DEF ReportInv, ReportHolds, TickedIsListed, RestoredKept
  <2>8. FlyingInv' BY <1>1, <1>3, <2>1 DEF ReportInv, FlyingInv, FlyingOK
  <2>9. PairsInv' BY <1>3, <2>1 DEF ReportInv, PairsInv
  <2> QED BY <2>2, <2>6, <2>7, <2>8, <2>9 DEF ReportInv
<1>6. CASE CallFailed(n)
  <2>1. crossedFiles' = crossedFiles \cup calls[n].ids /\ UNCHANGED <<report, tickedIds>>
      BY <1>6 DEF CallFailed
  <2>2. ReportTypeOK' BY <1>1, <1>3, <1>4, <2>1 DEF ReportInv, ReportTypeOK
  <2>3. \A f \in Restoring \ Restoring' : f \in calls[n].ids
      BY <1>3 DEF Restoring
  <2>4. FoundInv' BY <1>1, <2>1, <2>3 DEF ReportInv, FoundInv
  <2>5. FlyingInv' BY <1>1, <1>3, <2>1 DEF ReportInv, FlyingInv, FlyingOK
  <2>6. PairsInv' BY <1>3, <2>1 DEF ReportInv, PairsInv
  <2>7. ReportHolds'
      BY <1>1, <2>1 DEF ReportInv, ReportHolds, TickedIsListed, RestoredKept
  <2> QED BY <2>2, <2>4, <2>5, <2>6, <2>7 DEF ReportInv
<1> QED BY <1>5, <1>6

LEMMA LeaveInv ==
  ASSUME ReportInv, Leave
  PROVE  ReportInv'
<1>1. /\ tickedIds' = [k \in Kinds |-> {}] /\ preview' = {}
      /\ crossedFiles' = crossedFiles \cup InFlight(Ops)
      /\ calls' = [n \in 1..MaxCalls |->
                    IF calls[n] = NoCall THEN NoCall ELSE [calls[n] EXCEPT !.here = FALSE]]
      /\ UNCHANGED <<row, blob, report, scan, sent>>
    BY DEF Leave
<1>2. \A n \in 1..MaxCalls : n \notin Flying => calls[n] = NoCall
    BY DEF Flying, ReportInv, ReportTypeOK, ReportCalls
<1>3. ASSUME NEW n \in Flying
      PROVE  /\ calls'[n] \in ReportCalls /\ calls'[n].at = calls[n].at
             /\ calls'[n].op = calls[n].op /\ calls'[n].ids = calls[n].ids
             /\ calls'[n].todo = calls[n].todo /\ calls'[n].stat = calls[n].stat
             /\ calls[n].ids \subseteq crossedFiles' /\ calls[n].ids \subseteq Blobs
  <2>1. n \in 1..MaxCalls /\ calls[n] \in ReportCalls /\ calls[n] # NoCall
      BY FlyingCall DEF ReportInv, Flying, NoCall
  <2>2. calls'[n] = [calls[n] EXCEPT !.here = FALSE] BY <1>1, <2>1
  <2>3. calls[n].ids \subseteq InFlight(Ops) BY <2>1, InFlightIs DEF ReportCalls
  <2> QED BY <1>1, <2>1, <2>2, <2>3 DEF ReportCalls
<1>4. Flying' = Flying /\ \A n \in 1..MaxCalls : n \notin Flying => calls'[n] = NoCall
    BY <1>1, <1>2, <1>3 DEF Flying, NoCall
<1>5. InFlight(Ops) \subseteq Blobs BY <1>3, InFlightIs
<1>6. ReportTypeOK'
  <2>1. calls' \in [1..MaxCalls -> {NoCall} \cup ReportCalls]
      BY <1>1, <1>3, <1>4
  <2>2. \A n \in 1..MaxCalls : n > sent => calls'[n] = NoCall
      BY <1>4 DEF ReportInv, ReportTypeOK, Flying, NoCall
  <2> QED BY <1>1, <1>5, <2>1, <2>2 DEF ReportInv, ReportTypeOK
<1>7. FlyingInv'
  <2>1. ASSUME NEW n \in Flying PROVE FlyingOK(n)'
    <3>1. FlyingOK(n) /\ crossedFiles \subseteq crossedFiles'
        BY <1>1 DEF ReportInv, FlyingInv
    <3> QED BY <1>1, <1>3, <3>1 DEF FlyingOK
  <2> QED BY <1>4, <2>1 DEF FlyingInv
<1>8. PairsInv' BY <1>1, <1>3, <1>4 DEF ReportInv, PairsInv
<1>9. Restoring' = Restoring BY <1>3, <1>4 DEF Restoring
<1>10. FoundInv' BY <1>1, <1>9 DEF ReportInv, FoundInv, Kinds
<1>11. ReportHolds' BY <1>1 DEF ReportInv, ReportHolds, TickedIsListed, RestoredKept
<1> QED BY <1>6, <1>7, <1>8, <1>10, <1>11 DEF ReportInv

LEMMA PreviewInv ==
  ASSUME ReportInv, ClosePreview \/ \E f \in Blobs : OpenPreview(f)
  PROVE  ReportInv'
<1>1. UNCHANGED <<row, blob, report, scan, tickedIds, calls, sent, crossedFiles>>
    BY DEF ClosePreview, OpenPreview
<1>2. \/ preview' = {}
      \/ report["corrupt"] # Unscanned /\ preview' \in SUBSET report["corrupt"]
    BY DEF ClosePreview, OpenPreview, Listed
<1>3. preview' \in SUBSET Blobs BY DEF ClosePreview, OpenPreview
<1>4. ReportTypeOK' BY <1>1, <1>3 DEF ReportInv, ReportTypeOK
<1>5. Flying' = Flying /\ Restoring' = Restoring BY <1>1 DEF Flying, Restoring
<1>6. FoundInv' BY <1>1, <1>2, <1>5 DEF ReportInv, FoundInv
<1> QED BY <1>1, <1>4, <1>5, <1>6 DEF ReportInv, FlyingInv, FlyingOK, PairsInv,
        ReportHolds, TickedIsListed, RestoredKept

LEMMA OtherPageInv ==
  ASSUME ReportInv, NEW f \in Blobs, OtherPage(f)
  PROVE  ReportInv'
<1>1. /\ crossedFiles' = crossedFiles \cup {f}
      /\ UNCHANGED <<report, scan, tickedIds, preview, calls, sent>>
    BY DEF OtherPage
<1>2. /\ row' \in [Blobs -> {"none", "live", "trash"}]
      /\ blob' \in [Blobs -> {"none", "sound", "bad"}]
      /\ \A g \in Blobs : g # f => row'[g] = row[g] /\ blob'[g] = blob[g]
      /\ row[f] # "none" => row'[f] # "none"
      /\ row[f] = "trash" => row'[f] = "trash"
    BY DEF OtherPage, ReportInv, ReportTypeOK
<1>3. ReportTypeOK' BY <1>1, <1>2 DEF ReportInv, ReportTypeOK
<1>4. Flying' = Flying /\ Restoring' = Restoring BY <1>1 DEF Flying, Restoring
<1>5. \A n \in Flying : calls[n].ids \in SUBSET Blobs
    BY FlyingCall DEF ReportInv, ReportCalls
<1>6. FlyingInv' BY <1>1, <1>2, <1>4, <1>5 DEF ReportInv, FlyingInv, FlyingOK
<1>7. PairsInv' BY <1>1, <1>4 DEF ReportInv, PairsInv
<1>8. FoundInv' BY <1>1, <1>2, <1>4 DEF ReportInv, FoundInv
<1>9. ReportHolds' BY <1>1, <1>2 DEF ReportInv, ReportHolds, TickedIsListed, RestoredKept
<1> QED BY <1>3, <1>6, <1>7, <1>8, <1>9 DEF ReportInv

\* Delete and Restore act on files that the table shows, and a file that was restored keeps
\* its bytes, whatever calls, scans and visits of the page overlap, but for files whose
\* report was known to be behind.
THEOREM ReportsAreActedOn == ReportSpec => []ReportHolds
<1>1. ReportInit => ReportInv
  <2> SUFFICES ASSUME ReportInit PROVE ReportInv
      OBVIOUS
  <2>1. PICK s \in [Blobs -> {<<"live", "sound">>, <<"live", "bad">>, <<"none", "sound">>}] :
          row = [f \in Blobs |-> s[f][1]] /\ blob = [f \in Blobs |-> s[f][2]]
      BY DEF ReportInit
  <2>2. ASSUME NEW f \in Blobs
        PROVE  row[f] \in {"none", "live"} /\ blob[f] \in {"sound", "bad"}
    <3>1. s[f] \in {<<"live", "sound">>, <<"live", "bad">>, <<"none", "sound">>} BY <2>1
    <3> QED BY <2>1, <3>1
  <2>3. /\ report = [k \in Kinds |-> Unscanned] /\ scan = [k \in Kinds |-> NoScan]
        /\ tickedIds = [k \in Kinds |-> {}] /\ preview = {} /\ sent = 0 /\ crossedFiles = {}
        /\ calls = [n \in 1..MaxCalls |-> NoCall]
      BY DEF ReportInit
  <2>4. Flying = {} BY <2>3 DEF Flying, NoCall
  <2>5. ReportTypeOK BY <2>1, <2>2, <2>3, ReportAssumption DEF ReportTypeOK
  <2>6. FoundInv BY <2>3 DEF FoundInv, Kinds, NoScan
  <2>7. ReportHolds BY <2>2, <2>3 DEF ReportHolds, TickedIsListed, RestoredKept
  <2> QED BY <2>4, <2>5, <2>6, <2>7 DEF ReportInv, FlyingInv, PairsInv
<1>2. ReportInv /\ [ReportNext]_reportVars => ReportInv'
  <2> SUFFICES ASSUME ReportInv, [ReportNext]_reportVars PROVE ReportInv'
      OBVIOUS
  <2>1. CASE UNCHANGED reportVars
    <3>1. UNCHANGED <<row, blob, report, scan, tickedIds, preview, calls, sent, crossedFiles>>
        BY <2>1 DEF reportVars
    <3>2. Flying' = Flying /\ Restoring' = Restoring BY <3>1 DEF Flying, Restoring
    <3>3. FlyingInv' BY <3>1, <3>2 DEF ReportInv, FlyingInv, FlyingOK
    <3> QED BY <3>1, <3>2, <3>3 DEF ReportInv, ReportTypeOK, PairsInv, FoundInv,
            ReportHolds, TickedIsListed, RestoredKept
  <2>2. ASSUME NEW op \in Ops, Click(op) PROVE ReportInv'
    <3>1. tickedIds[KindOf(op)] \in SUBSET Blobs
        BY DEF ReportInv, ReportTypeOK, KindOf, Kinds
    <3> QED BY <2>2, <3>1, MutateInv DEF Click
  <2>3. ASSUME PreviewDelete PROVE ReportInv'
    <3>1. /\ preview \in SUBSET Blobs /\ "purgeCorrupt" \in Ops /\ preview' \in SUBSET preview
          /\ Mutate("purgeCorrupt", preview)
        BY <2>3 DEF PreviewDelete, Ops, ReportInv, ReportTypeOK
    <3> QED BY <3>1, MutateInv
  <2> QED BY <2>1, <2>2, <2>3, ScansInv, BoxesInv, PreviewInv, StrikeInv, RemoveBytesInv,
             RestoreInv, CallEndsInv, LeaveInv, OtherPageInv DEF ReportNext
<1>3. ReportInv => ReportHolds BY DEF ReportInv
<1> QED BY <1>1, <1>2, <1>3, PTL DEF ReportSpec

-----------------------------------------------------------------------------
(* AdminUsers: while no two calls are served at once, the administrator whose call is *)
(* served is active, and what the handler found still holds when it writes.           *)

Levels == {"none", "limited", "full"}
MaxUploads == UserQuotas \cup {NoMax}

UserRows == [role: {"admin", "user", "guest"}, is_active: BOOLEAN, chat: BOOLEAN,
             must_change: BOOLEAN, totp: {"off", "on", "required"}, level: Levels,
             rooms_enabled: BOOLEAN, quota: Int, max_upload: MaxUploads]

Tables == UNION {[S -> UserRows] : S \in SUBSET Accounts}

Served == {"sent", "admitted", "passed", "half", "done"}
OrdersOf(ops, args) == [by: Admins, op: ops, id: Accounts, arg: args, at: Served]
Orders ==
  OrdersOf({"role"}, {"user", "admin"}) \cup OrdersOf({"lock", "chat", "access"}, BOOLEAN)
    \cup OrdersOf({"totp"}, {"off", "required", "unrequired"}) \cup OrdersOf({"product"}, Levels)
    \cup OrdersOf({"edit"}, [quota: Int, max: MaxUploads])
    \cup OrdersOf({"delete", "reset", "promote", "remove"}, {""})

Lists == SUBSET {"users", "guests"}

UsersTypeOK ==
  /\ accounts \in Tables /\ seen \in [Admins -> Tables] /\ torn \in BOOLEAN
  /\ orders \in Seq(Orders)
  /\ rereading \in [Admins -> [at: {"none", "asked"}, lists: Lists]
                              \cup [at: {"served"}, lists: Lists, has: Tables]]

ActiveAdmin(i) == i \in DOMAIN accounts /\ accounts[i].role = "admin" /\ accounts[i].is_active

\* What holds of a call on the server.
OrderOK(c) ==
  /\ c.op = "role" /\ c.arg = "user" => c.by # c.id
  /\ c.at = "half" => c.op \in {"product", "access"}
  /\ ~torn =>
       /\ c.at \in {"admitted", "passed", "half"} => ActiveAdmin(c.by)
       /\ c.at = "passed" => Passes(c)
       /\ c.at = "half" /\ c.id \in DOMAIN accounts =>
            IF c.op = "product" THEN accounts[c.id].level = c.arg
                                ELSE accounts[c.id].rooms_enabled = c.arg

OrdersInv == \A n \in DOMAIN orders : OrderOK(orders[n])

UsersInv == UsersTypeOK /\ OrdersInv /\ AccountsAgree

LEMMA TableIs ==
  ASSUME NEW f
  PROVE  f \in Tables <=> /\ DOMAIN f \in SUBSET Accounts /\ f \in [DOMAIN f -> UserRows]
BY DEF Tables

LEMMA OrderFields ==
  ASSUME NEW c \in Orders
  PROVE  /\ c.by \in Admins /\ c.id \in Accounts /\ c.at \in Served
         /\ c.op = "role" => c.arg \in {"user", "admin"}
         /\ c.op \in {"lock", "chat", "access"} => c.arg \in BOOLEAN
         /\ c.op = "totp" => c.arg \in {"off", "required", "unrequired"}
         /\ c.op = "product" => c.arg \in Levels
         /\ c.op = "edit" => c.arg \in [quota: Int, max: MaxUploads]
         /\ c.op \in {"role", "lock", "chat", "access", "totp", "product", "edit", "delete",
                      "reset", "promote", "remove"}
BY DEF Orders, OrdersOf

LEMMA OrderMoves ==
  ASSUME NEW c \in Orders, NEW w \in Served
  PROVE  LET d == [c EXCEPT !.at = w] IN
         /\ d \in Orders /\ d.at = w /\ d.by = c.by /\ d.op = c.op /\ d.id = c.id /\ d.arg = c.arg
BY DEF Orders, OrdersOf

\* A call gets on: the others are where they were.
LEMMA ReachIs ==
  ASSUME UsersTypeOK, NEW n \in DOMAIN orders, NEW w \in Served, Reach(n, w)
  PROVE  /\ orders[n] \in Orders /\ orders' \in Seq(Orders) /\ DOMAIN orders' = DOMAIN orders
         /\ orders'[n] = [orders[n] EXCEPT !.at = w]
         /\ orders'[n].at = w /\ orders'[n].by = orders[n].by /\ orders'[n].op = orders[n].op
         /\ orders'[n].id = orders[n].id /\ orders'[n].arg = orders[n].arg
         /\ \A m \in DOMAIN orders \ {n} : orders'[m] = orders[m]
<1>1. orders \in Seq(Orders) /\ orders[n] \in Orders BY DEF UsersTypeOK
<1> DEFINE d == [orders[n] EXCEPT !.at = w]
<1>2. /\ d \in Orders /\ d.at = w /\ d.by = orders[n].by /\ d.op = orders[n].op
      /\ d.id = orders[n].id /\ d.arg = orders[n].arg
    BY <1>1, OrderMoves
<1>3. orders' = [orders EXCEPT ![n] = d] BY DEF Reach
<1> HIDE DEF d
<1>4. /\ orders' \in Seq(Orders) /\ DOMAIN orders' = DOMAIN orders /\ orders'[n] = d
      /\ \A m \in DOMAIN orders \ {n} : orders'[m] = orders[m]
    BY <1>1, <1>2, <1>3
<1> QED BY <1>1, <1>2, <1>4 DEF d

\* The pages press buttons, which leaves the accounts alone.
LEMMA PressInv ==
  ASSUME UsersInv, NEW a, NEW op, NEW u, NEW arg, Press(a, op, u, arg),
         [by |-> a, op |-> op, id |-> u, arg |-> arg, at |-> "sent"] \in Orders,
         op = "role" /\ arg = "user" => a # u
  PROVE  UsersInv'
<1> DEFINE c == [by |-> a, op |-> op, id |-> u, arg |-> arg, at |-> "sent"]
<1>1. orders' = Append(orders, c) /\ UNCHANGED <<accounts, seen, rereading, torn>>
    BY DEF Press
<1>2. c \in Orders /\ c.at = "sent" /\ c.by = a /\ c.op = op /\ c.id = u /\ c.arg = arg
    OBVIOUS
<1> HIDE DEF c
<1>3. orders \in Seq(Orders) BY DEF UsersInv, UsersTypeOK
<1>4. orders' \in Seq(Orders) BY <1>1, <1>2, <1>3
<1>5. \A n \in DOMAIN orders : n \in DOMAIN orders' /\ orders'[n] = orders[n]
    BY <1>1, <1>2, <1>3, AppendProperties
<1>6. ASSUME NEW n \in DOMAIN orders' PROVE n \in DOMAIN orders \/ orders'[n] = c
  <2>1. n \in 1 .. (Len(orders) + 1) /\ Len(orders) \in Nat
      BY <1>1, <1>2, <1>3, <1>6, AppendProperties
  <2>2. n \in 1 .. Len(orders) \/ n = Len(orders) + 1 BY <2>1
  <2> QED BY <1>1, <1>2, <1>3, <2>2, AppendProperties
<1>7. ASSUME NEW n \in DOMAIN orders', NEW d, d = orders'[n] PROVE OrderOK(d)'
  <2>1. CASE n \in DOMAIN orders
    <3>1. OrderOK(d) BY <1>5, <1>7, <2>1 DEF UsersInv, OrdersInv
    <3>2. Passes(d)' <=> Passes(d)
        BY <1>1 DEF Passes, ensureRemainingAdmin, otherAdmins, NotOneself, IsGuest
    <3> QED BY <1>1, <3>1, <3>2 DEF OrderOK, ActiveAdmin
  <2>2. CASE d = c BY <1>2, <2>2 DEF OrderOK
  <2> QED BY <1>6, <1>7, <2>1, <2>2
<1>8. OrdersInv' BY <1>7 DEF OrdersInv
<1>9. AccountsAgree'
    BY <1>1, <1>5 DEF UsersInv, AccountsAgree, AdminRemains, RoomsRecordsAgree
<1> QED BY <1>1, <1>4, <1>8, <1>9 DEF UsersInv, UsersTypeOK

LEMMA PageInv ==
  ASSUME UsersInv, NEW a \in Admins,
         \/ \E u \in DOMAIN seen[a] : UserRow(a, u) \/ GuestsPanel(a, u) \/ EditUserDialog(a, u)
         \/ \E u \in Accounts : AccountRow(a, u)
  PROVE  UsersInv'
<1>1. ASSUME NEW u \in DOMAIN seen[a]
      PROVE  u \in Accounts /\ seen[a][u] \in UserRows
    BY TableIs DEF UsersInv, UsersTypeOK
<1>2. ASSUME NEW u \in Accounts, AccountRow(a, u) PROVE UsersInv'
  <2>1. accounts[u] \in UserRows BY <1>2, TableIs DEF AccountRow, UsersInv, UsersTypeOK
  <2>2. PICK arg \in BOOLEAN : Press(a, "access", u, arg)
      BY <1>2, <2>1 DEF AccountRow, UserRows
  <2>3. [by |-> a, op |-> "access", id |-> u, arg |-> arg, at |-> "sent"] \in Orders
      BY DEF Orders, OrdersOf, Served
  <2> QED BY <2>2, <2>3, PressInv
<1>3. ASSUME NEW u \in DOMAIN seen[a], NEW op, NEW arg, Press(a, op, u, arg),
             \/ op = "role" /\ arg \in {"user", "admin"}
             \/ op \in {"lock", "chat"} /\ arg \in BOOLEAN
             \/ op = "totp" /\ arg \in {"off", "required", "unrequired"}
             \/ op = "product" /\ arg \in Levels
             \/ op = "edit" /\ arg \in [quota: Int, max: MaxUploads]
             \/ op \in {"delete", "reset", "promote", "remove"} /\ arg = "",
             op = "role" /\ arg = "user" => a # u
      PROVE  UsersInv'
  <2>1. [by |-> a, op |-> op, id |-> u, arg |-> arg, at |-> "sent"] \in Orders
      BY <1>1, <1>3 DEF Orders, OrdersOf, Served
  <2> QED BY <1>3, <2>1, PressInv
<1>4. ASSUME NEW u \in DOMAIN seen[a], TotpCell(a, u) PROVE UsersInv'
    BY <1>3, <1>4 DEF TotpCell
<1>5. ASSUME NEW u \in DOMAIN seen[a], ProductAccessCell(a, u) PROVE UsersInv'
  <2>1. NextLevel[seen[a][u].level] \in Levels
      BY <1>1 DEF NextLevel, UserRows, Levels
  <2> QED BY <1>3, <1>5, <2>1 DEF ProductAccessCell
<1>6. ASSUME NEW u \in DOMAIN seen[a], UserRow(a, u) PROVE UsersInv'
  <2>1. seen[a][u].chat \in BOOLEAN BY <1>1 DEF UserRows
  <2>2. MayDemote(a, u) => u # a BY DEF MayDemote
  <2> QED BY <1>3, <1>4, <1>5, <1>6, <2>1, <2>2 DEF UserRow
<1>7. ASSUME NEW u \in DOMAIN seen[a], GuestsPanel(a, u) PROVE UsersInv'
  <2>1. seen[a][u].chat \in BOOLEAN /\ seen[a][u].is_active \in BOOLEAN BY <1>1 DEF UserRows
  <2> QED BY <1>3, <1>4, <1>7, <2>1 DEF GuestsPanel
<1>8. ASSUME NEW u \in DOMAIN seen[a], EditUserDialog(a, u) PROVE UsersInv'
  <2>1. PICK typed \in MaxUploads :
          LET bytes == IF typed = NoMax THEN formatQuotaForInput(seen[a][u].quota) ELSE typed
          IN  Press(a, "edit", u, [quota |-> bytes, max |-> typed])
      BY <1>8 DEF EditUserDialog, MaxUploads
  <2>2. seen[a][u].quota \in Int BY <1>1 DEF UserRows
  <2>3. \A x \in Int : \A y \in {1, 100, 1024, 1048576} : Nearest(x, y) \in Int
      BY DEF Nearest
  <2>4. \A x \in Int : formatQuotaForInput(x) \in Int
    <3> TAKE x \in Int
    <3>1. UnitOf(x) \in {1, 1024, 1048576} BY DEF UnitOf
    <3>2. Nearest(100 * x, UnitOf(x)) \in Int BY <2>3, <3>1
    <3>3. Nearest(100 * x, UnitOf(x)) * UnitOf(x) \in Int BY <3>1, <3>2
    <3> QED BY <2>3, <3>3 DEF formatQuotaForInput
  <2>5. (IF typed = NoMax THEN formatQuotaForInput(seen[a][u].quota) ELSE typed) \in Int
      BY <2>2, <2>4, AdminAssumption DEF MaxUploads
  <2> QED BY <1>3, <2>1, <2>5
<1> QED BY <1>2, <1>6, <1>7, <1>8

\* Reading the lists leaves the accounts and the calls alone.
LEMMA ListsInv ==
  ASSUME UsersInv, NEW a \in Admins, OpenUsersPage(a) \/ ServeLists(a) \/ TakeLists(a)
  PROVE  UsersInv'
<1>1. UNCHANGED <<accounts, orders, torn>> BY DEF OpenUsersPage, ServeLists, TakeLists
<1>2. UsersTypeOK'
  <2>1. CASE OpenUsersPage(a)
      BY <2>1 DEF OpenUsersPage, UsersInv, UsersTypeOK, Lists
  <2>2. CASE ServeLists(a)
    <3>1. rereading[a].lists \in Lists BY <2>2 DEF ServeLists, UsersInv, UsersTypeOK
    <3> QED BY <2>2, <3>1 DEF ServeLists, UsersInv, UsersTypeOK
  <2>3. CASE TakeLists(a)
    <3> DEFINE new == Rows(rereading[a].has, rereading[a].lists)
               old == Rows(seen[a], {"users", "guests"} \ rereading[a].lists)
               all == [i \in new \cup old |-> IF i \in new THEN rereading[a].has[i]
                                              ELSE seen[a][i]]
    <3>1. rereading[a].has \in Tables /\ seen[a] \in Tables
        BY <2>3 DEF TakeLists, UsersInv, UsersTypeOK
    <3>2. new \subseteq DOMAIN rereading[a].has /\ old \subseteq DOMAIN seen[a] BY DEF Rows
    <3> HIDE DEF new, old
    <3>3. all \in Tables BY <3>1, <3>2, TableIs
    <3>4. seen' = [seen EXCEPT ![a] = all] /\ rereading' = [rereading EXCEPT ![a] = NotReading]
        BY <2>3 DEF TakeLists, new, old
    <3> HIDE DEF all
    <3> QED BY <1>1, <3>3, <3>4 DEF UsersInv, UsersTypeOK, NotReading, Lists
  <2> QED BY <2>1, <2>2, <2>3
<1>3. ASSUME NEW c, OrderOK(c) PROVE OrderOK(c)'
    BY <1>1, <1>3
    DEF OrderOK, ActiveAdmin, Passes, ensureRemainingAdmin, otherAdmins, NotOneself, IsGuest
<1> QED BY <1>1, <1>2, <1>3
    DEF UsersInv, OrdersInv, AccountsAgree, AdminRemains, RoomsRecordsAgree

\* What the statements of a call do to a row.
LEMMA FirstSets ==
  ASSUME NEW r \in UserRows, NEW c \in Orders, c.op \notin {"delete", "remove"}
  PROVE  /\ First(r, c) \in UserRows
         /\ IF c.op = "role" THEN First(r, c).role = c.arg
            ELSE c.op # "promote" => First(r, c).role = r.role
         /\ IF c.op = "lock" THEN First(r, c).is_active = c.arg
            ELSE First(r, c).is_active = r.is_active
         /\ IF c.op = "product" THEN First(r, c).level = c.arg ELSE First(r, c).level = r.level
         /\ IF c.op = "access" THEN First(r, c).rooms_enabled = c.arg
            ELSE First(r, c).rooms_enabled = r.rooms_enabled
<1>1. CASE c.op = "role" BY <1>1, OrderFields DEF First, UserRows
<1>2. CASE c.op = "promote" BY <1>2, OrderFields DEF First, UserRows
<1>3. CASE c.op = "lock" BY <1>3, OrderFields DEF First, UserRows
<1>4. CASE c.op = "chat" BY <1>4, OrderFields DEF First, UserRows
<1>5. CASE c.op = "reset" BY <1>5, OrderFields DEF First, UserRows
<1>6. CASE c.op = "totp"
  <2>1. TotpAfter(r.totp, c.arg) \in {"off", "on", "required"}
      BY <1>6, OrderFields DEF TotpAfter, UserRows
  <2>2. First(r, c) = [r EXCEPT !.totp = TotpAfter(r.totp, c.arg)] BY <1>6 DEF First
  <2> QED BY <1>6, <2>1, <2>2 DEF UserRows
<1>7. CASE c.op = "edit"
  <2>1. c.arg.quota \in Int /\ (IF c.arg.max = NoMax THEN r.max_upload ELSE c.arg.max) \in MaxUploads
      BY <1>7, OrderFields DEF UserRows
  <2>2. First(r, c) = [r EXCEPT !.quota = c.arg.quota, !.max_upload =
                         IF c.arg.max = NoMax THEN r.max_upload ELSE c.arg.max]
      BY <1>7 DEF First, UserRows
  <2> QED BY <1>7, <2>1, <2>2 DEF UserRows
<1>8. CASE c.op = "product" BY <1>8, OrderFields DEF First, UserRows
<1>9. CASE c.op = "access" BY <1>9, OrderFields DEF First, UserRows
<1> QED BY <1>1, <1>2, <1>3, <1>4, <1>5, <1>6, <1>7, <1>8, <1>9, OrderFields

LEMMA SecondSets ==
  ASSUME NEW r \in UserRows, NEW c \in Orders, c.op \in {"product", "access"},
         IF c.op = "product" THEN r.level = c.arg ELSE r.rooms_enabled = c.arg
  PROVE  /\ Second(r, c) \in UserRows
         /\ Second(r, c).role = r.role /\ Second(r, c).is_active = r.is_active
         /\ Second(r, c).rooms_enabled = (Second(r, c).level # "none")
<1>1. CASE c.op = "product" BY <1>1, OrderFields DEF Second, UserRows, Levels
<1>2. CASE c.op = "access" BY <1>2, OrderFields DEF Second, UserRows, Levels
<1> QED BY <1>1, <1>2

LEMMA SecondType ==
  ASSUME NEW r \in UserRows, NEW c \in Orders, c.op \in {"product", "access"}
  PROVE  Second(r, c) \in UserRows
<1>1. CASE c.op = "product" BY <1>1, OrderFields DEF Second, UserRows, Levels
<1>2. CASE c.op = "access" BY <1>2, OrderFields DEF Second, UserRows, Levels
<1> QED BY <1>1, <1>2

LEMMA PutIs ==
  ASSUME UsersTypeOK, NEW c \in Orders, NEW r, c.id \in DOMAIN accounts => r \in UserRows,
         Put(c, r)
  PROVE  /\ accounts' \in Tables /\ DOMAIN accounts' = DOMAIN accounts
         /\ \A i \in DOMAIN accounts : accounts'[i] = IF i = c.id THEN r ELSE accounts[i]
<1>1. DOMAIN accounts \in SUBSET Accounts /\ accounts \in [DOMAIN accounts -> UserRows]
    BY TableIs DEF UsersTypeOK
<1>2. CASE c.id \in DOMAIN accounts
  <2>1. accounts' = [accounts EXCEPT ![c.id] = r] BY <1>2 DEF Put
  <2>2. accounts' \in [DOMAIN accounts -> UserRows] BY <1>1, <1>2, <2>1
  <2> QED BY <1>1, <1>2, <2>1, <2>2, TableIs
<1>3. CASE c.id \notin DOMAIN accounts
    BY <1>1, <1>3, TableIs DEF Put
<1> QED BY <1>2, <1>3

LEMMA AnswerType ==
  ASSUME UsersTypeOK, NEW n \in DOMAIN orders, NEW lists \in Lists, Answer(n, lists)
  PROVE  /\ Reach(n, "done")
         /\ rereading' \in [Admins -> [at: {"none", "asked"}, lists: Lists]
                                      \cup [at: {"served"}, lists: Lists, has: Tables]]
<1> DEFINE by == orders[n].by
<1>1. orders[n] \in Orders BY DEF UsersTypeOK
<1>2. by \in Admins BY <1>1, OrderFields
<1>3. rereading[by].lists \in Lists BY <1>2 DEF UsersTypeOK
<1>4. rereading[by].lists \cup lists \in Lists BY <1>3 DEF Lists
<1> DEFINE asked == [at |-> "asked", lists |-> rereading[by].lists \cup lists]
<1>5. asked \in [at: {"none", "asked"}, lists: Lists] BY <1>4
<1>6. rereading' = rereading \/ rereading' = [rereading EXCEPT ![by] = asked]
    BY DEF Answer
<1> HIDE DEF asked
<1>7. Reach(n, "done") BY DEF Answer
<1> QED BY <1>2, <1>5, <1>6, <1>7 DEF UsersTypeOK

\* The session is looked up, the handler looks, or the database refuses.
LEMMA LooksInv ==
  ASSUME UsersInv, NEW n \in DOMAIN orders, RequireAdmin(n) \/ Look(n) \/ WriteFails(n)
  PROVE  UsersInv'
<1>1. UNCHANGED <<accounts, seen, rereading>> BY DEF RequireAdmin, Look, WriteFails
<1>2. PICK w \in {"admitted", "passed", "done"} :
        /\ Reach(n, w)
        /\ w = "admitted" => ActiveAdmin(orders[n].by)
        /\ w = "passed" => orders[n].at = "admitted" /\ Passes(orders[n])
        /\ torn' = torn \/ w = "done"
        /\ torn => torn'
        /\ orders[n].at = "half" => torn'
    BY DEF RequireAdmin, Look, WriteFails, ActiveAdmin, UsersInv, UsersTypeOK
<1>3. /\ orders[n] \in Orders /\ orders' \in Seq(Orders) /\ DOMAIN orders' = DOMAIN orders
      /\ orders'[n].at = w /\ orders'[n].by = orders[n].by /\ orders'[n].op = orders[n].op
      /\ orders'[n].id = orders[n].id /\ orders'[n].arg = orders[n].arg
      /\ \A m \in DOMAIN orders \ {n} : orders'[m] = orders[m]
    BY <1>2, ReachIs DEF UsersInv, Served
<1>4. torn' \in BOOLEAN BY DEF RequireAdmin, Look, WriteFails, UsersInv, UsersTypeOK
<1>5. UsersTypeOK' BY <1>1, <1>3, <1>4 DEF UsersInv, UsersTypeOK
<1>6. ASSUME NEW c PROVE ActiveAdmin(c)' <=> ActiveAdmin(c) BY <1>1 DEF ActiveAdmin
<1>7. ASSUME NEW c PROVE Passes(c)' <=> Passes(c)
    BY <1>1 DEF Passes, ensureRemainingAdmin, otherAdmins, NotOneself, IsGuest
<1>8. ASSUME NEW m \in DOMAIN orders, NEW d, d = orders'[m] PROVE OrderOK(d)'
  <2>1. CASE m # n
    <3>1. OrderOK(d) BY <1>3, <1>8, <2>1 DEF UsersInv, OrdersInv
    <3> QED BY <1>1, <1>2, <1>6, <1>7, <3>1 DEF OrderOK
  <2>2. CASE m = n
    <3>1. OrderOK(orders[n]) BY DEF UsersInv, OrdersInv
    <3>2. d.at = w /\ d.by = orders[n].by /\ d.op = orders[n].op /\ d.id = orders[n].id
          /\ d.arg = orders[n].arg
        BY <1>3, <1>8, <2>2
    <3>3. d.op = "role" /\ d.arg = "user" => d.by # d.id BY <3>1, <3>2 DEF OrderOK
    <3>4. ~torn' /\ w \in {"admitted", "passed"} => ActiveAdmin(d.by)'
        BY <1>2, <1>6, <3>1, <3>2 DEF OrderOK
    <3>5. w = "passed" => Passes(d)'
      <4>1. Passes(orders[n]) => Passes(d)
          BY <3>2 DEF Passes, ensureRemainingAdmin, NotOneself
      <4> QED BY <1>2, <1>7, <4>1
    <3> QED BY <3>2, <3>3, <3>4, <3>5 DEF OrderOK
  <2> QED BY <2>1, <2>2
<1>9. OrdersInv' BY <1>3, <1>8 DEF OrdersInv
<1>10. AccountsAgree'
  <2>1. ASSUME NEW m \in DOMAIN orders, orders[m].at = "half", ~torn'
        PROVE  orders'[m] = orders[m]
      BY <1>2, <1>3, <2>1
  <2> QED BY <1>1, <1>2, <1>3, <2>1
      DEF UsersInv, AccountsAgree, AdminRemains, RoomsRecordsAgree
<1> QED BY <1>5, <1>9, <1>10 DEF UsersInv

\* A write that another call overlaps is noted, and nothing more is promised.
LEMMA OverlappedInv ==
  ASSUME UsersInv, UsersTypeOK', torn', NEW n \in DOMAIN orders, NEW w \in {"half", "done"},
         Reach(n, w), w = "half" => orders[n].op \in {"product", "access"}
  PROVE  UsersInv'
<1>1. /\ DOMAIN orders' = DOMAIN orders
      /\ orders'[n].at = w /\ orders'[n].by = orders[n].by /\ orders'[n].op = orders[n].op
      /\ orders'[n].id = orders[n].id /\ orders'[n].arg = orders[n].arg
      /\ \A m \in DOMAIN orders \ {n} : orders'[m] = orders[m]
    BY ReachIs DEF UsersInv, Served
<1>2. ASSUME NEW m \in DOMAIN orders, NEW d, d = orders'[m] PROVE OrderOK(d)'
  <2>1. OrderOK(orders[m]) BY DEF UsersInv, OrdersInv
  <2> QED BY <1>1, <1>2, <2>1 DEF OrderOK
<1> QED BY <1>1, <1>2 DEF UsersInv, OrdersInv, AccountsAgree, AdminRemains, RoomsRecordsAgree

\* One that runs alone.
LEMMA AloneInv ==
  ASSUME UsersInv, UsersTypeOK', NEW n \in DOMAIN orders, ~torn, ~AtOnce(n),
         NEW w \in {"half", "done"}, Reach(n, w),
         \E i : ActiveAdmin(i)',
         w = "half" => /\ orders[n].op \in {"product", "access"} /\ ActiveAdmin(orders[n].by)
                       /\ \A i : ActiveAdmin(i) => ActiveAdmin(i)'
                       /\ orders[n].id \in DOMAIN accounts' =>
                            IF orders[n].op = "product"
                            THEN accounts'[orders[n].id].level = orders[n].arg
                            ELSE accounts'[orders[n].id].rooms_enabled = orders[n].arg,
         \A i \in DOMAIN accounts' :
             \/ w = "half" /\ i = orders[n].id
             \/ accounts'[i].rooms_enabled = (accounts'[i].level # "none")
  PROVE  UsersInv'
<1>1. /\ DOMAIN orders' = DOMAIN orders
      /\ orders'[n].at = w /\ orders'[n].by = orders[n].by /\ orders'[n].op = orders[n].op
      /\ orders'[n].id = orders[n].id /\ orders'[n].arg = orders[n].arg
      /\ \A m \in DOMAIN orders \ {n} : orders'[m] = orders[m]
    BY ReachIs DEF UsersInv, Served
<1>2. ASSUME NEW m \in DOMAIN orders, NEW d, d = orders'[m] PROVE OrderOK(d)'
  <2>1. OrderOK(orders[m]) BY DEF UsersInv, OrdersInv
  <2>2. CASE m # n
    <3>1. d.at \in {"sent", "done"} BY <1>1, <1>2, <2>2 DEF AtOnce
    <3> QED BY <1>1, <1>2, <2>1, <2>2, <3>1 DEF OrderOK
  <2>3. CASE m = n
    <3>1. d.at = w /\ d.by = orders[n].by /\ d.op = orders[n].op /\ d.id = orders[n].id
          /\ d.arg = orders[n].arg
        BY <1>1, <1>2, <2>3
    <3>2. w = "half" => ActiveAdmin(d.by)' BY <3>1
    <3>3. d.op = "role" /\ d.arg = "user" => d.by # d.id BY <2>1, <2>3, <3>1 DEF OrderOK
    <3> QED BY <3>1, <3>2, <3>3 DEF OrderOK
  <2> QED BY <2>2, <2>3
<1>3. AdminRemains' BY DEF AdminRemains, ActiveAdmin
<1>4. RoomsRecordsAgree' BY <1>1 DEF RoomsRecordsAgree
<1> QED BY <1>1, <1>2, <1>3, <1>4 DEF UsersInv, OrdersInv, AccountsAgree

LEMMA WriteInv ==
  ASSUME UsersInv, NEW n \in DOMAIN orders, Write(n)
  PROVE  UsersInv'
<1> DEFINE c == orders[n]
<1>1. c \in Orders /\ c.at = "passed" /\ OrderOK(c)
    BY DEF Write, UsersInv, UsersTypeOK, OrdersInv
<1>2. torn' = (torn \/ AtOnce(n)) /\ UNCHANGED seen BY DEF Write
<1>3. DOMAIN accounts \in SUBSET Accounts /\ accounts \in [DOMAIN accounts -> UserRows]
    BY TableIs DEF UsersInv, UsersTypeOK
<1>4. Invalidated(c) \in Lists BY DEF Invalidated, Lists
<1>5. torn' \in BOOLEAN BY <1>2 DEF UsersInv, UsersTypeOK, AtOnce
<1>6. ASSUME ~torn'
      PROVE  /\ ~torn /\ ~AtOnce(n) /\ ActiveAdmin(c.by) /\ Passes(c)
             /\ \A i \in DOMAIN accounts :
                  accounts[i].rooms_enabled = (accounts[i].level # "none")
  <2>1. ~torn /\ ~AtOnce(n) BY <1>2, <1>6
  <2>2. \A m \in DOMAIN orders : orders[m].at # "half" BY <1>1, <2>1 DEF AtOnce
  <2> QED BY <1>1, <2>1, <2>2
      DEF OrderOK, UsersInv, AccountsAgree, RoomsRecordsAgree
<1>7. CASE c.op \in {"delete", "remove"}
  <2>1. accounts' = [i \in DOMAIN accounts \ {c.id} |-> accounts[i]]
        /\ Answer(n, Invalidated(c))
      BY <1>7 DEF Write
  <2>2. accounts' \in Tables BY <1>3, <2>1, TableIs
  <2>3. UsersTypeOK' /\ Reach(n, "done")
      BY <1>2, <1>4, <1>5, <2>1, <2>2, AnswerType, ReachIs
      DEF UsersInv, UsersTypeOK, Served
  <2>4. ASSUME ~torn' PROVE UsersInv'
    <3>1. c.by # c.id /\ ActiveAdmin(c.by)
        BY <1>6, <1>7, <2>4 DEF Passes, NotOneself, IsGuest, ActiveAdmin
    <3>2. ASSUME NEW i, i # c.id, ActiveAdmin(i) PROVE ActiveAdmin(i)'
        BY <2>1, <3>2 DEF ActiveAdmin
    <3>3. \E i : ActiveAdmin(i)' BY <3>1, <3>2
    <3>4. \A i \in DOMAIN accounts' : accounts'[i].rooms_enabled = (accounts'[i].level # "none")
        BY <1>6, <2>1, <2>4
    <3> QED BY <1>6, <2>3, <2>4, <3>3, <3>4, AloneInv
  <2> QED BY <2>3, <2>4, OverlappedInv
<1>8. CASE c.op \notin {"delete", "remove"}
  <2> DEFINE r == First(accounts[c.id], c)
             w == IF c.op \in {"product", "access"} THEN "half" ELSE "done"
  <2>1. Put(c, r) BY <1>8 DEF Write
  <2>2. c.id \in DOMAIN accounts => accounts[c.id] \in UserRows BY <1>3
  <2>3. c.id \in DOMAIN accounts => r \in UserRows BY <1>1, <1>8, <2>2, FirstSets
  <2>4. /\ accounts' \in Tables /\ DOMAIN accounts' = DOMAIN accounts
        /\ \A i \in DOMAIN accounts : accounts'[i] = IF i = c.id THEN r ELSE accounts[i]
      BY <1>1, <2>1, <2>3, PutIs DEF UsersInv
  <2>5. w \in {"half", "done"} /\ w \in Served /\ (w = "half" => c.op \in {"product", "access"})
      BY DEF Served
  <2>6. /\ Reach(n, w)
        /\ rereading' \in [Admins -> [at: {"none", "asked"}, lists: Lists]
                                     \cup [at: {"served"}, lists: Lists, has: Tables]]
      BY <1>4, <1>8, AnswerType DEF Write, UsersInv, UsersTypeOK
  <2>7. UsersTypeOK' BY <1>2, <1>5, <2>4, <2>5, <2>6, ReachIs DEF UsersInv, UsersTypeOK
  <2>8. ASSUME ~torn' PROVE UsersInv'
    <3>1. ASSUME NEW i, ActiveAdmin(i), i # c.id \/ c.op \notin {"role", "lock", "promote"}
          PROVE  ActiveAdmin(i)'
        BY <1>1, <1>8, <2>2, <2>4, <3>1, FirstSets DEF ActiveAdmin
    <3>2. ActiveAdmin(c.by) /\ Passes(c) BY <1>6, <2>8
    <3>3. \E i : ActiveAdmin(i)'
      <4>1. CASE c.by # c.id \/ c.op \notin {"role", "lock", "promote"} BY <3>1, <3>2, <4>1
      <4>2. CASE c.by = c.id /\ c.op \in {"role", "lock", "promote"}
        <5>1. c.op # "promote" BY <3>2, <4>2 DEF Passes, IsGuest, ActiveAdmin
        <5>2. c.op = "role" => c.arg = "admin" BY <1>1, <4>2, OrderFields DEF OrderOK
        <5>3. c.op = "lock" => c.arg = TRUE
            BY <1>1, <3>2, <4>2, OrderFields DEF Passes, NotOneself
        <5>4. r.role = "admin" /\ r.is_active
            BY <1>1, <1>8, <2>2, <3>2, <4>2, <5>1, <5>2, <5>3, FirstSets DEF ActiveAdmin
        <5>5. ASSUME NEW i, i = c.id PROVE ActiveAdmin(i)'
            BY <2>4, <3>2, <4>2, <5>4, <5>5 DEF ActiveAdmin
        <5> QED BY <5>5
      <4> QED BY <4>1, <4>2
    <3>4. w = "half" => /\ \A i : ActiveAdmin(i) => ActiveAdmin(i)'
                        /\ c.id \in DOMAIN accounts' =>
                             IF c.op = "product" THEN accounts'[c.id].level = c.arg
                                                 ELSE accounts'[c.id].rooms_enabled = c.arg
        BY <1>1, <1>8, <2>2, <2>4, <2>5, <3>1, FirstSets
    <3>5. \A i \in DOMAIN accounts' :
              \/ w = "half" /\ i = c.id
              \/ accounts'[i].rooms_enabled = (accounts'[i].level # "none")
        BY <1>1, <1>6, <1>8, <2>2, <2>4, <2>8, FirstSets
    <3> HIDE DEF w
    <3> QED BY <1>6, <2>5, <2>6, <2>7, <2>8, <3>2, <3>3, <3>4, <3>5, AloneInv
  <2> HIDE DEF w
  <2> QED BY <2>5, <2>6, <2>7, <2>8, OverlappedInv
<1> QED BY <1>7, <1>8

LEMMA WriteSecondInv ==
  ASSUME UsersInv, NEW n \in DOMAIN orders, WriteSecond(n)
  PROVE  UsersInv'
<1> DEFINE c == orders[n]
           r == Second(accounts[c.id], c)
<1>1. c \in Orders /\ c.at = "half" /\ OrderOK(c)
    BY DEF WriteSecond, UsersInv, UsersTypeOK, OrdersInv
<1>2. torn' = (torn \/ AtOnce(n)) /\ UNCHANGED seen BY DEF WriteSecond
<1>3. DOMAIN accounts \in SUBSET Accounts /\ accounts \in [DOMAIN accounts -> UserRows]
    BY TableIs DEF UsersInv, UsersTypeOK
<1>4. Invalidated(c) \in Lists BY DEF Invalidated, Lists
<1>5. torn' \in BOOLEAN BY <1>2 DEF UsersInv, UsersTypeOK, AtOnce
<1>6. c.op \in {"product", "access"} BY <1>1 DEF OrderOK
<1>7. c.id \in DOMAIN accounts => accounts[c.id] \in UserRows /\ r \in UserRows
    BY <1>1, <1>3, <1>6, SecondType
<1>8. Put(c, r) /\ Answer(n, Invalidated(c)) BY DEF WriteSecond
<1>9. /\ accounts' \in Tables /\ DOMAIN accounts' = DOMAIN accounts
      /\ \A i \in DOMAIN accounts : accounts'[i] = IF i = c.id THEN r ELSE accounts[i]
    BY <1>1, <1>7, <1>8, PutIs DEF UsersInv
<1>10. UsersTypeOK' /\ Reach(n, "done")
    BY <1>2, <1>4, <1>5, <1>8, <1>9, AnswerType, ReachIs DEF UsersInv, UsersTypeOK, Served
<1>11. ASSUME ~torn' PROVE UsersInv'
  <2>1. ~torn /\ ~AtOnce(n) BY <1>2, <1>11
  <2>2. \A m \in DOMAIN orders \ {n} : orders[m].at # "half" BY <2>1 DEF AtOnce
  <2>3. \A i \in DOMAIN accounts \ {c.id} :
            accounts[i].rooms_enabled = (accounts[i].level # "none")
      BY <1>1, <2>1, <2>2 DEF UsersInv, AccountsAgree, RoomsRecordsAgree
  <2>4. ActiveAdmin(c.by) BY <1>1, <2>1 DEF OrderOK
  <2>5. c.id \in DOMAIN accounts =>
          /\ r.role = accounts[c.id].role /\ r.is_active = accounts[c.id].is_active
          /\ r.rooms_enabled = (r.level # "none")
    <3>1. c.id \in DOMAIN accounts =>
            IF c.op = "product" THEN accounts[c.id].level = c.arg
                                ELSE accounts[c.id].rooms_enabled = c.arg
        BY <1>1, <2>1 DEF OrderOK
    <3> QED BY <1>1, <1>6, <1>7, <3>1, SecondSets
  <2>6. ASSUME NEW i, ActiveAdmin(i) PROVE ActiveAdmin(i)'
      BY <1>9, <2>5, <2>6 DEF ActiveAdmin
  <2>7. \E i : ActiveAdmin(i)' BY <2>4, <2>6
  <2>8. \A i \in DOMAIN accounts' : accounts'[i].rooms_enabled = (accounts'[i].level # "none")
      BY <1>9, <2>3, <2>5
  <2> QED BY <1>10, <2>1, <2>7, <2>8, AloneInv
<1> QED BY <1>10, <1>11, OverlappedInv

\* Whatever several administrators press, an active one remains, and what is recorded twice
\* of an account's access to Rooms agrees, as long as no two calls were served at once and
\* none broke halfway.
THEOREM AnAdministratorRemains == UsersSpec => []AccountsAgree
<1>1. UsersInit => UsersInv
  <2> SUFFICES ASSUME UsersInit PROVE UsersInv
      OBVIOUS
  <2>1. PICK q \in UserQuotas :
          accounts = [i \in Accounts |->
            [role |-> RoleOf(i), is_active |-> TRUE, chat |-> TRUE, must_change |-> FALSE,
             totp |-> IF i \in Admins THEN "off" ELSE "on", level |-> "full",
             rooms_enabled |-> TRUE, quota |-> q, max_upload |-> NoMax]]
      BY DEF UsersInit
  <2>2. ASSUME NEW i \in Accounts
        PROVE  /\ accounts[i] \in UserRows /\ accounts[i].is_active /\ accounts[i].level = "full"
               /\ accounts[i].rooms_enabled = TRUE
               /\ i \in Admins => accounts[i].role = "admin"
    <3>1. RoleOf(i) \in {"admin", "user", "guest"} BY DEF RoleOf
    <3>2. q \in Int BY AdminAssumption
    <3>3. i \in Admins => RoleOf(i) = "admin" BY DEF RoleOf
    <3> QED BY <2>1, <3>1, <3>2, <3>3 DEF UserRows, Levels, MaxUploads
  <2>3. DOMAIN accounts = Accounts /\ accounts \in [Accounts -> UserRows] BY <2>1, <2>2
  <2>4. accounts \in Tables BY <2>3, TableIs
  <2>5. /\ seen = [a \in Admins |-> accounts] /\ rereading = [a \in Admins |-> NotReading]
        /\ orders = <<>> /\ torn = FALSE
      BY DEF UsersInit
  <2>6. UsersTypeOK
    <3>1. orders \in Seq(Orders) BY <2>5
    <3>2. NotReading \in [at: {"none", "asked"}, lists: Lists] BY DEF NotReading, Lists
    <3> QED BY <2>4, <2>5, <3>1, <3>2 DEF UsersTypeOK
  <2>7. AccountsAgree
      BY <2>2, <2>3, AdminAssumption DEF AccountsAgree, AdminRemains, RoomsRecordsAgree
  <2> QED BY <2>5, <2>6, <2>7 DEF UsersInv, OrdersInv
<1>2. UsersInv /\ [UsersNext]_usersVars => UsersInv'
  <2> SUFFICES ASSUME UsersInv, [UsersNext]_usersVars PROVE UsersInv'
      OBVIOUS
  <2>1. CASE UNCHANGED usersVars
    <3>1. UNCHANGED <<accounts, seen, rereading, orders, torn>> BY <2>1 DEF usersVars
    <3>2. ASSUME NEW c, OrderOK(c) PROVE OrderOK(c)'
        BY <3>1, <3>2 DEF OrderOK, ActiveAdmin, Passes, ensureRemainingAdmin, otherAdmins,
                          NotOneself, IsGuest
    <3>3. UsersTypeOK' BY <3>1 DEF UsersInv, UsersTypeOK
    <3>4. OrdersInv' BY <3>1, <3>2 DEF UsersInv, OrdersInv
    <3>5. AccountsAgree' BY <3>1 DEF UsersInv, AccountsAgree, AdminRemains, RoomsRecordsAgree
    <3> QED BY <3>3, <3>4, <3>5 DEF UsersInv
  <2> QED BY <2>1, PageInv, ListsInv, LooksInv, WriteInv, WriteSecondInv DEF UsersNext
<1>3. UsersInv => AccountsAgree BY DEF UsersInv
<1> QED BY <1>1, <1>2, <1>3, PTL DEF UsersSpec

-----------------------------------------------------------------------------
(* ScanScheduler: the slot a scan owes is its last one, and no tick recorded  *)
(* for that scan is as late; so a tick that comes in time finds it due.       *)

Clock == [day: Int, hour: 0..(Hours - 1)]
UpTo(t) == ~Before(now, t)

\* The slot owed has come, is as the page promises, and the next has not come.
Promised(k) ==
  LET c == schedule[k] IN
  /\ c \in Schedules /\ c.enabled /\ c.interval # "hourly"
  /\ c.interval = "weekly" => owed[k] % WeekDays = c.day
  /\ c.interval = "monthly" => /\ owed[k] % MonthDays = c.day
                               /\ Before(now, At(owed[k] + MonthDays, c.hour))
  /\ UpTo(SlotOf(k))

\* What has run, or is running without serving the slot, did so at an earlier tick.
Unserved(k) ==
  /\ Before(last_run[k], SlotOf(k))
  /\ k \in scanning /\ k \notin serving => Before(tick, SlotOf(k))

SchedulerTypeOK ==
  /\ now \in Clock /\ now.day \in Nat /\ zone \in Zones
  /\ schedule \in [Scans -> Schedules \cup {Off}]
  /\ last_run \in [Scans -> Clock] /\ tick \in Clock
  /\ owed \in [Scans -> Nat \cup {None}] /\ scanning \subseteq Scans

SchedulerInv ==
  /\ SchedulerTypeOK
  /\ UpTo(tick) /\ \A k \in Scans : UpTo(last_run[k])
  /\ \A k \in Scans : owed[k] # None => Promised(k) /\ Unserved(k)
  /\ SlotsServed

LEMMA CalendarIs ==
  /\ Hours \in Nat \ {0} /\ WeekDays \in Nat \ {0} /\ MonthDays \in Nat \ {0}
  /\ \A z \in Zones : z \in Int
  /\ \A c \in Schedules : c.hour \in 0..(Hours - 1) /\ c.day \in Int
  /\ \A c \in Schedules : c.interval \in {"hourly", "daily", "weekly", "monthly"}
<1>1. \A c \in Schedules : c.day \in Int
  <2> SUFFICES ASSUME NEW c \in Schedules PROVE c.day \in Int
      OBVIOUS
  <2>1. PICK n \in Int : c.day \in 0..n
    <3>1. (IF c.interval = "weekly" THEN WeekDays ELSE MonthDays) - 1 \in Int
        BY SchedulerAssumption
    <3> QED BY <3>1, SchedulerAssumption
  <2> QED BY <2>1
<1> QED BY <1>1, SchedulerAssumption

LEMMA ClockIs ==
  ASSUME NEW t \in Clock, NEW d \in Int, NEW h \in 0..(Hours - 1)
  PROVE  /\ t.day \in Int /\ t.hour \in 0..(Hours - 1) /\ t.hour \in Int /\ Hours \in Nat \ {0}
         /\ At(d, h) \in Clock /\ At(d, h).day = d /\ At(d, h).hour = h
<1>1. Hours \in Nat \ {0} BY CalendarIs
<1> QED BY <1>1 DEF Clock, At

LEMMA HourMoves ==
  ASSUME NEW t \in Clock
  PROVE  /\ HourAfter(t) \in Clock /\ Before(t, HourAfter(t))
         /\ \A x \in Clock : ~Before(t, x) => ~Before(HourAfter(t), x) /\ Before(x, HourAfter(t))
         /\ \A x \in Clock : Before(t, x) => ~Before(x, HourAfter(t))
<1>1. /\ t.day \in Int /\ t.hour \in 0..(Hours - 1) /\ Hours \in Nat \ {0}
      /\ \A x \in Clock : x.day \in Int /\ x.hour \in 0..(Hours - 1)
    BY ClockIs, CalendarIs DEF Clock
<1>2. CASE t.hour + 1 < Hours
  <2>1. HourAfter(t) \in Clock /\ HourAfter(t).day = t.day /\ HourAfter(t).hour = t.hour + 1
      BY <1>1, <1>2 DEF HourAfter, At, Clock
  <2> QED BY <1>1, <2>1 DEF Before
<1>3. CASE ~(t.hour + 1 < Hours)
  <2>1. /\ HourAfter(t) \in Clock /\ HourAfter(t).day = t.day + 1 /\ HourAfter(t).hour = 0
        /\ t.hour = Hours - 1
      BY <1>1, <1>3 DEF HourAfter, At, Clock
  <2> QED BY <1>1, <2>1 DEF Before
<1> QED BY <1>2, <1>3

LEMMA ModIs ==
  ASSUME NEW m \in Nat \ {0}, NEW q \in Int, NEW r \in 0..(m - 1), NEW x, x = (m * q) + r
  PROVE  x % m = r
OBVIOUS

LEMMA ModSplits ==
  ASSUME NEW m \in Nat \ {0}, NEW x \in Int
  PROVE  x = (m * (x \div m)) + (x % m) /\ x % m \in 0..(m - 1) /\ x \div m \in Int
OBVIOUS

LEMMA DaysBack ==
  ASSUME NEW m \in Nat \ {0}, NEW d \in Int, NEW s \in Int,
         NEW c \in 0..(m - 1), s % m = c
  PROVE  /\ d - s \in 0..(m - 1) => (d - c) % m = d - s
         /\ d = s + m => (d - c) % m = 0
<1>1. PICK q \in Int : s = (m * q) + c BY ModSplits
<1>2. ASSUME d - s \in 0..(m - 1) PROVE (d - c) % m = d - s
  <2>1. PICK r \in 0..(m - 1) : r = d - s BY <1>2
  <2>2. PICK x \in Int : x = d - c OBVIOUS
  <2>3. x = (m * q) + r BY <1>1, <2>1, <2>2
  <2>4. x % m = r BY <2>3, ModIs
  <2> QED BY <2>1, <2>2, <2>4
<1>3. ASSUME d = s + m PROVE (d - c) % m = 0
  <2>1. PICK x \in Int : x = d - c OBVIOUS
  <2>2. m * (q + 1) = (m * q) + m OBVIOUS
  <2>3. PICK p \in Int : p = q + 1 OBVIOUS
  <2>4. x = (m * p) + 0 BY <1>1, <1>3, <2>1, <2>2, <2>3
  <2>5. 0 \in 0..(m - 1) OBVIOUS
  <2>6. x % m = 0 BY <2>4, <2>5, ModIs
  <2> QED BY <2>1, <2>6
<1> QED BY <1>2, <1>3

LEMMA MonthOn ==
  ASSUME NEW m \in Nat \ {0}, NEW s \in Int
  PROVE  (s + m) % m = s % m
<1>1. PICK q \in Int : s = (m * q) + (s % m) /\ s % m \in 0..(m - 1) BY ModSplits
<1>2. PICK r \in 0..(m - 1) : r = s % m BY <1>1
<1>3. m * (q + 1) = (m * q) + m OBVIOUS
<1>4. PICK p \in Int : p = q + 1 OBVIOUS
<1>5. PICK x \in Int : x = s + m OBVIOUS
<1>6. x = (m * p) + r BY <1>1, <1>2, <1>3, <1>4, <1>5
<1>7. x % m = r BY <1>6, ModIs
<1> QED BY <1>2, <1>5, <1>7

LEMMA BeforeIsTotal ==
  ASSUME NEW x \in Clock, NEW y \in Clock
  PROVE  Before(x, y) \/ Before(y, x) \/ x = y
<1>1. /\ x.day \in Int /\ x.hour \in Int /\ y.day \in Int /\ y.hour \in Int
      /\ x = [day |-> x.day, hour |-> x.hour] /\ y = [day |-> y.day, hour |-> y.hour]
    BY CalendarIs DEF Clock
<1> QED BY <1>1 DEF Before

LEMMA NeverIs ==
  ASSUME SchedulerTypeOK
  PROVE  /\ Never \in Clock /\ UpTo(Never)
         /\ \A k \in Scans : owed[k] # None => Before(Never, SlotOf(k))
<1>1. /\ WeekDays \in Nat \ {0} /\ MonthDays \in Nat \ {0} /\ 0 \in 0..(Hours - 1)
      /\ now.day \in Nat
    BY CalendarIs DEF SchedulerTypeOK
<1>2. Never \in Clock /\ Never.day < 0 BY <1>1 DEF Never, At, Clock
<1>3. now.day > Never.day BY <1>1, <1>2, ClockIs DEF Clock
<1>4. ~Before(now, Never) BY <1>1, <1>2, <1>3 DEF Before, Clock
<1>5. ASSUME NEW k \in Scans, owed[k] # None PROVE Before(Never, SlotOf(k))
    BY <1>1, <1>2, <1>5 DEF SchedulerTypeOK, Before, SlotOf, At, Clock
<1> QED BY <1>2, <1>4, <1>5 DEF UpTo

\* A slot in time is the one the loop looks at.
LEMMA SlotIsLookedAt ==
  ASSUME SchedulerInv, NEW k \in Scans, NEW t \in Clock, UpTo(t), InTime(k, t)
  PROVE  At(SlotDay(schedule[k], t), schedule[k].hour) = SlotOf(k)
<1> DEFINE c == schedule[k]
<1>1. Promised(k) /\ now \in Clock /\ owed[k] \in Int
    BY DEF InTime, SchedulerInv, SchedulerTypeOK
<1>2. c \in Schedules /\ c.interval \in {"daily", "weekly", "monthly"} /\ c.day \in Int
      /\ c.hour \in 0..(Hours - 1)
    BY <1>1, CalendarIs DEF Promised
<1>3. /\ t.day \in Int /\ t.hour \in 0..(Hours - 1) /\ t.hour \in Int
      /\ now.day \in Int /\ now.hour \in 0..(Hours - 1) /\ now.hour \in Int /\ c.hour \in Int
      /\ WeekDays \in Nat \ {0} /\ MonthDays \in Nat \ {0} /\ Hours \in Nat \ {0}
    BY <1>1, <1>2, ClockIs, CalendarIs
<1>4. t.day > owed[k] \/ (t.day = owed[k] /\ t.hour >= c.hour)
    BY <1>1, <1>2, <1>3 DEF InTime, SlotOf, Before, At
<1>5. CASE c.interval = "daily"
    BY <1>5 DEF SlotDay, InTime, SlotOf
<1>6. CASE c.interval = "weekly"
  <2>1. t.day - owed[k] \in 0..(WeekDays - 1) BY <1>1, <1>3, <1>4, <1>6 DEF InTime
  <2>2. owed[k] % WeekDays = c.day BY <1>1, <1>6 DEF Promised
  <2>3. c.day \in 0..(WeekDays - 1) BY <1>2, <1>6, SchedulerAssumption
  <2>4. (t.day - c.day) % WeekDays = t.day - owed[k]
    <3>1. PICK d \in Int, s \in Int, m \in Nat \ {0} :
             d = t.day /\ s = owed[k] /\ m = WeekDays
        BY <1>1, <1>3
    <3>2. PICK e \in 0..(m - 1) : e = c.day BY <2>3, <3>1
    <3>3. s % m = e /\ d - s \in 0..(m - 1) BY <2>1, <2>2, <3>1, <3>2
    <3>4. (d - e) % m = d - s BY <3>3, DaysBack
    <3> QED BY <3>1, <3>2, <3>4
  <2>5. SlotDay(c, t) = t.day - (t.day - owed[k]) BY <1>6, <2>4 DEF SlotDay
  <2> QED BY <1>1, <1>3, <2>5 DEF SlotOf
<1>7. CASE c.interval = "monthly"
  <2>1. owed[k] % MonthDays = c.day /\ Before(now, At(owed[k] + MonthDays, c.hour))
      BY <1>1, <1>7 DEF Promised
  <2>2. /\ \/ now.day < owed[k] + MonthDays
           \/ now.day = owed[k] + MonthDays /\ now.hour < c.hour
        /\ t.day < now.day \/ (t.day = now.day /\ t.hour <= now.hour)
    <3>1. ~Before(now, t) BY DEF UpTo
    <3> QED BY <1>1, <1>3, <2>1, <3>1 DEF Before, At
  <2>3. c.day \in 0..(MonthDays - 1) BY <1>2, <1>7, SchedulerAssumption
  <2>4. CASE t.day - owed[k] \in 0..(MonthDays - 1)
    <3>1. (t.day - c.day) % MonthDays = t.day - owed[k]
        BY <1>1, <1>2, <1>3, <2>1, <2>3, <2>4, DaysBack
    <3>2. ~((t.day - c.day) % MonthDays = 0 /\ t.hour < c.hour) BY <1>1, <1>3, <1>4, <3>1
    <3>3. SlotDay(c, t) = t.day - (t.day - owed[k]) BY <1>7, <3>1, <3>2 DEF SlotDay
    <3> QED BY <1>1, <1>3, <3>3 DEF SlotOf
  <2>5. CASE ~(t.day - owed[k] \in 0..(MonthDays - 1))
    <3>1. t.day = owed[k] + MonthDays /\ t.hour < c.hour BY <1>1, <1>3, <1>4, <2>2, <2>5
    <3>2. (t.day - c.day) % MonthDays = 0
        BY <1>1, <1>2, <1>3, <2>1, <2>3, <3>1, DaysBack
    <3>3. SlotDay(c, t) = t.day - MonthDays BY <1>7, <3>1, <3>2 DEF SlotDay
    <3> QED BY <1>1, <1>3, <3>1, <3>3 DEF SlotOf
  <2> QED BY <2>4, <2>5
<1> QED BY <1>2, <1>5, <1>6, <1>7

LEMMA LoopTicksInv == ASSUME SchedulerInv, runScheduledScans PROVE SchedulerInv'
<1>1. PICK t \in (IF TickTimes = {} THEN {now} ELSE TickTimes),
           off \in SUBSET Scans, forgotten \in SUBSET Scans :
        /\ scanning' = {k \in Scans \ off :
                   isDue(schedule[k], IF k \in forgotten THEN Never ELSE last_run[k], t)}
        /\ tick' = IF scanning' = {} THEN Never ELSE t
        /\ serving' = {k \in scanning' : owed[k] # None /\ ~Before(t, SlotOf(k))}
        /\ skipped' = skipped \cup {k \in Scans \ (off \cup scanning') : InTime(k, t)}
    BY DEF runScheduledScans
<1>2. UNCHANGED <<now, zone, schedule, last_run, owed>> BY DEF runScheduledScans
<1>3. t \in Clock /\ UpTo(t)
  <2>1. now \in Clock /\ tick \in Clock /\ ~Before(now, now)
      BY ClockIs DEF SchedulerInv, SchedulerTypeOK, Before, Clock
  <2>2. HourAfter(tick) \in Clock BY <2>1, HourMoves
  <2> QED BY <1>1, <2>1, <2>2 DEF TickTimes, UpTo
<1>4. tick' \in Clock /\ UpTo(tick)'
  <2>1. tick' \in {t, Never} BY <1>1
  <2>2. Never \in Clock /\ UpTo(Never) BY NeverIs DEF SchedulerInv
  <2> QED BY <1>2, <1>3, <2>1, <2>2 DEF UpTo
<1>5. SchedulerTypeOK' BY <1>1, <1>2, <1>4 DEF SchedulerInv, SchedulerTypeOK
<1>6. ASSUME NEW k \in Scans, owed'[k] # None PROVE Promised(k)' /\ Unserved(k)'
  <2>1. Promised(k) /\ Before(last_run[k], SlotOf(k)) BY <1>2, <1>6 DEF SchedulerInv, Unserved
  <2>2. Promised(k)' BY <1>2, <2>1 DEF Promised, SlotOf, UpTo
  <2>3. SlotOf(k)' = SlotOf(k) BY <1>2 DEF SlotOf
  <2>4. ASSUME k \in scanning', k \notin serving' PROVE Before(tick', SlotOf(k))
      BY <1>1, <1>2, <1>6, <2>4
  <2>5. Unserved(k)' BY <1>2, <2>1, <2>3, <2>4 DEF Unserved
  <2> QED BY <2>2, <2>5
<1>7. ASSUME NEW k \in Scans \ (off \cup scanning'), InTime(k, t) PROVE FALSE
  <2>1. At(SlotDay(schedule[k], t), schedule[k].hour) = SlotOf(k) BY <1>3, <1>7, SlotIsLookedAt
  <2>2. owed[k] # None /\ ~Before(t, SlotOf(k)) BY <1>7 DEF InTime
  <2>3. /\ Promised(k) /\ Before(last_run[k], SlotOf(k)) /\ UpTo(SlotOf(k))
        /\ schedule[k].enabled /\ schedule[k].interval # "hourly"
      BY <1>7, <2>2 DEF SchedulerInv, Promised, Unserved
  <2>4. Before(Never, SlotOf(k)) BY <1>7, <2>2, NeverIs DEF SchedulerInv
  <2>5. isDue(schedule[k], IF k \in forgotten THEN Never ELSE last_run[k], t)
      BY <2>1, <2>2, <2>3, <2>4 DEF isDue
  <2> QED BY <1>1, <1>7, <2>5
<1>8. SlotsServed' BY <1>1, <1>7 DEF SchedulerInv, SlotsServed
<1>9. \A k \in Scans : UpTo(last_run[k])' BY <1>2 DEF SchedulerInv, UpTo
<1> QED BY <1>4, <1>5, <1>6, <1>8, <1>9 DEF SchedulerInv

LEMMA ScanEndsInv ==
  ASSUME SchedulerInv, \/ ServerStops \/ \E k \in Scans : updateLastRun(k) \/ ScanFails(k)
  PROVE  SchedulerInv'
<1>1. UNCHANGED <<now, zone, schedule, serving, skipped>> /\ scanning' \subseteq scanning
    BY DEF ServerStops, updateLastRun, ScanFails, Ends
<1>2. SlotsServed' BY <1>1 DEF SchedulerInv, SlotsServed
<1>3. ASSUME UNCHANGED <<owed, last_run>>, tick' = tick \/ (tick' = Never /\ scanning' = {})
      PROVE  SchedulerInv'
  <2>1. tick' \in Clock /\ UpTo(tick')
      BY <1>3, NeverIs DEF SchedulerInv, SchedulerTypeOK
  <2>2. SchedulerTypeOK' BY <1>1, <1>3, <2>1 DEF SchedulerInv, SchedulerTypeOK
  <2>3. ASSUME NEW k \in Scans, owed'[k] # None PROVE Promised(k)' /\ Unserved(k)'
    <3>1. Promised(k) /\ Unserved(k) BY <1>3, <2>3 DEF SchedulerInv
    <3>2. Promised(k)' BY <1>1, <1>3, <3>1 DEF Promised, SlotOf, UpTo
    <3>3. Unserved(k)' BY <1>1, <1>3, <3>1 DEF Unserved, SlotOf
    <3> QED BY <3>2, <3>3
  <2> QED BY <1>1, <1>2, <1>3, <2>1, <2>2, <2>3 DEF SchedulerInv, UpTo
<1>4. CASE ServerStops BY <1>3, <1>4 DEF ServerStops
<1>5. ASSUME NEW k \in Scans, ScanFails(k) PROVE SchedulerInv'
    BY <1>3, <1>5 DEF ScanFails
<1>6. ASSUME NEW k \in Scans, updateLastRun(k) PROVE SchedulerInv'
  <2>1. /\ k \in scanning /\ scanning' = scanning \ {k} /\ tick' = tick
        /\ last_run' = [last_run EXCEPT ![k] = tick]
        /\ owed' = IF k \in serving THEN [owed EXCEPT ![k] = None] ELSE owed
      BY <1>6 DEF updateLastRun, Ends, Record
  <2>2. SchedulerTypeOK' BY <1>1, <2>1 DEF SchedulerInv, SchedulerTypeOK
  <2>3. ASSUME NEW j \in Scans PROVE UpTo(last_run'[j])
      BY <2>1 DEF SchedulerInv, SchedulerTypeOK
  <2>4. ASSUME NEW j \in Scans, owed'[j] # None PROVE Promised(j)' /\ Unserved(j)'
    <3>1. owed'[j] = owed[j] /\ (j = k => k \notin serving)
        BY <2>1, <2>4 DEF SchedulerInv, SchedulerTypeOK
    <3>2. Promised(j) /\ Unserved(j) BY <2>4, <3>1 DEF SchedulerInv
    <3>3. Promised(j)' BY <1>1, <3>1, <3>2 DEF Promised, SlotOf, UpTo
    <3>4. SlotOf(j)' = SlotOf(j) BY <1>1, <3>1 DEF SlotOf
    <3>5. Before(last_run'[j], SlotOf(j))
        BY <2>1, <3>1, <3>2 DEF SchedulerInv, SchedulerTypeOK, Unserved
    <3>6. Unserved(j)' BY <1>1, <2>1, <3>2, <3>4, <3>5 DEF Unserved
    <3> QED BY <3>3, <3>6
  <2> QED BY <1>1, <1>2, <2>1, <2>2, <2>3, <2>4 DEF SchedulerInv, UpTo
<1> QED BY <1>4, <1>5, <1>6

LEMMA PutScheduleInv ==
  ASSUME SchedulerInv, NEW k \in Scans, PutScanSchedule(k)
  PROVE  SchedulerInv'
<1>1. PICK c \in Schedules \cup {Off} : schedule' = [schedule EXCEPT ![k] = c]
    BY DEF PutScanSchedule
<1>2. /\ owed' = [owed EXCEPT ![k] = None]
      /\ UNCHANGED <<now, zone, last_run, tick, scanning, serving, skipped>>
    BY DEF PutScanSchedule
<1>3. SchedulerTypeOK' BY <1>1, <1>2 DEF SchedulerInv, SchedulerTypeOK
<1>4. ASSUME NEW j \in Scans, owed'[j] # None PROVE Promised(j)' /\ Unserved(j)'
  <2>1. owed'[j] = owed[j] /\ schedule'[j] = schedule[j]
      BY <1>1, <1>2, <1>4 DEF SchedulerInv, SchedulerTypeOK
  <2>2. Promised(j) /\ Unserved(j) BY <1>4, <2>1 DEF SchedulerInv
  <2>3. Promised(j)' BY <1>2, <2>1, <2>2 DEF Promised, SlotOf, UpTo
  <2>4. Unserved(j)' BY <1>2, <2>1, <2>2 DEF Unserved, SlotOf
  <2> QED BY <2>3, <2>4
<1>5. SlotsServed' BY <1>2 DEF SchedulerInv, SlotsServed
<1> QED BY <1>2, <1>3, <1>4, <1>5 DEF SchedulerInv, UpTo

\* A slot that comes is after every tick so far; one that has come and is not replaced is
\* still the last of its scan.
LEMMA HourInv == ASSUME SchedulerInv, HourPasses PROVE SchedulerInv'
<1> DEFINE slots == {k \in Scans : scheduleLabel(schedule[k], HourAfter(now))}
<1>1. /\ now' = HourAfter(now)
      /\ owed' = [k \in Scans |-> IF k \in slots THEN HourAfter(now).day ELSE owed[k]]
      /\ serving' = serving \ slots
      /\ UNCHANGED <<zone, schedule, last_run, tick, scanning, skipped>>
    BY DEF HourPasses
<1>2. now \in Clock /\ now.day \in Nat /\ tick \in Clock /\ last_run \in [Scans -> Clock]
    BY DEF SchedulerInv, SchedulerTypeOK
<1>3. HourAfter(now) \in Clock /\ HourAfter(now).day \in Nat
    BY <1>2, HourMoves DEF HourAfter, At
<1>4. SchedulerTypeOK' BY <1>1, <1>3 DEF SchedulerInv, SchedulerTypeOK
<1>5. ASSUME NEW x \in Clock, UpTo(x) PROVE UpTo(x)' /\ Before(x, now')
    BY <1>1, <1>2, <1>5, HourMoves DEF UpTo
<1>6. ASSUME NEW k \in slots PROVE Promised(k)' /\ Unserved(k)'
  <2>1. scheduleLabel(schedule[k], now') /\ k \in Scans /\ schedule'[k] = schedule[k]
      BY <1>1
  <2>2. schedule[k] \in Schedules
      BY <2>1 DEF SchedulerInv, SchedulerTypeOK, scheduleLabel, Off
  <2>3. /\ owed'[k] = now'.day /\ now'.hour = schedule[k].hour /\ now' \in Clock
        /\ schedule[k].enabled /\ schedule[k].interval # "hourly"
      BY <1>1, <1>3, <2>1 DEF scheduleLabel
  <2>4. /\ SlotOf(k)' = now'
    <3>1. now' = At(now'.day, now'.hour) BY <2>3 DEF Clock, At
    <3> QED BY <2>1, <2>3, <3>1 DEF SlotOf
  <2>5. schedule[k].interval = "weekly" => owed'[k] % WeekDays = schedule[k].day
      BY <2>1, <2>3 DEF scheduleLabel
  <2>6. schedule[k].interval = "monthly" => owed'[k] % MonthDays = schedule[k].day
      BY <2>1, <2>3 DEF scheduleLabel
  <2>7. ~Before(now', now') BY <2>3, ClockIs DEF Before, Clock
  <2>8. Before(now', At(owed'[k] + MonthDays, schedule[k].hour))
    <3>1. now'.day \in Nat /\ MonthDays \in Nat \ {0} BY <1>1, <1>3, CalendarIs
    <3> QED BY <2>3, <3>1 DEF Before, At
  <2>9. Promised(k)' BY <2>1, <2>2, <2>3, <2>4, <2>5, <2>6, <2>7, <2>8 DEF Promised, UpTo
  <2>10. Before(tick', SlotOf(k)') /\ Before(last_run'[k], SlotOf(k)')
      BY <1>1, <1>2, <1>5, <2>1, <2>4 DEF SchedulerInv
  <2>11. Unserved(k)' BY <2>10 DEF Unserved
  <2> QED BY <2>9, <2>11
<1>7. ASSUME NEW k \in Scans \ slots, owed'[k] # None PROVE Promised(k)' /\ Unserved(k)'
  <2>1. owed'[k] = owed[k] /\ schedule'[k] = schedule[k] /\ (k \in serving => k \in serving')
      BY <1>1, <1>7
  <2>2. Promised(k) /\ Unserved(k) /\ owed[k] \in Nat
      BY <1>7, <2>1 DEF SchedulerInv, SchedulerTypeOK
  <2>3. SlotOf(k)' = SlotOf(k) BY <2>1 DEF SlotOf
  <2>4. SlotOf(k) \in Clock
      BY <2>2, CalendarIs, ClockIs DEF SlotOf, Promised, Clock, At
  <2>5. UpTo(SlotOf(k))' BY <1>1, <1>2, <2>2, <2>3, <2>4, HourMoves DEF Promised, UpTo
  <2>6. ASSUME schedule[k].interval = "monthly"
        PROVE  Before(now', At(owed[k] + MonthDays, schedule[k].hour))
    <3> DEFINE next == At(owed[k] + MonthDays, schedule[k].hour)
    <3>1. /\ MonthDays \in Nat \ {0} /\ schedule[k].hour \in 0..(Hours - 1)
          /\ owed[k] % MonthDays = schedule[k].day /\ Before(now, next)
          /\ schedule[k].enabled
        BY <2>2, <2>6, CalendarIs DEF Promised
    <3>2. owed[k] + MonthDays \in Int BY <2>2, <3>1
    <3>3. next \in Clock /\ next.day = owed[k] + MonthDays /\ next.hour = schedule[k].hour
        BY <1>2, <3>1, <3>2, ClockIs
    <3>4. ~Before(next, now') BY <1>1, <1>2, <3>1, <3>3, HourMoves
    <3>5. (owed[k] + MonthDays) % MonthDays = schedule[k].day
      <4>1. PICK m \in Nat \ {0}, s \in Int : m = MonthDays /\ s = owed[k] BY <2>2, <3>1
      <4>2. (s + m) % m = s % m BY MonthOn
      <4> QED BY <3>1, <4>1, <4>2
    <3>6. now' # next
        BY <1>1, <1>7, <2>6, <3>1, <3>3, <3>5 DEF scheduleLabel
    <3>7. Before(now', next)
        BY <1>1, <1>3, <3>3, <3>4, <3>6, BeforeIsTotal
    <3> QED BY <3>7
  <2>7. Promised(k)' BY <2>1, <2>2, <2>3, <2>5, <2>6 DEF Promised
  <2>8. Unserved(k)' BY <1>1, <2>1, <2>2, <2>3 DEF Unserved
  <2> QED BY <2>7, <2>8
<1>8. SlotsServed' BY <1>1 DEF SchedulerInv, SlotsServed
<1>9. UpTo(tick)' /\ \A k \in Scans : UpTo(last_run[k])'
    BY <1>1, <1>2, <1>5 DEF SchedulerInv, UpTo
<1> QED BY <1>4, <1>6, <1>7, <1>8, <1>9 DEF SchedulerInv

\* For any length of day, week and month, any zones and schedules: a tick that finds a slot
\* in time starts the scan that serves it (isDue, runScheduledScans, updateLastRun).
THEOREM EverySlotIsServed == ScanSpec => []SlotsServed
<1>1. ScanInit => SchedulerInv
  <2> SUFFICES ASSUME ScanInit PROVE SchedulerInv
      OBVIOUS
  <2>1. /\ now \in Clock /\ now.day \in Nat /\ tick = Never /\ tick \in Clock
        /\ last_run \in [Scans -> Clock] /\ \A k \in Scans : last_run[k] = Never
    <3>1. Hours \in Nat \ {0} /\ WeekDays \in Nat \ {0} /\ MonthDays \in Nat \ {0}
        BY CalendarIs
    <3>2. Never \in Clock BY <3>1 DEF Never, At, Clock
    <3> QED BY <3>1, <3>2 DEF ScanInit, At, Clock
  <2>2. SchedulerTypeOK BY <2>1 DEF ScanInit, SchedulerTypeOK
  <2>3. UpTo(Never) BY <2>2, NeverIs
  <2>4. \A k \in Scans : owed[k] = None BY DEF ScanInit
  <2> QED BY <2>1, <2>2, <2>3, <2>4 DEF ScanInit, SchedulerInv, SlotsServed
<1>2. SchedulerInv /\ [ScanNext]_scanVars => SchedulerInv'
  <2> SUFFICES ASSUME SchedulerInv, [ScanNext]_scanVars PROVE SchedulerInv'
      OBVIOUS
  <2>1. CASE UNCHANGED scanVars
    <3>1. UNCHANGED <<now, zone, schedule, last_run, tick, scanning, owed, serving, skipped>>
        BY <2>1 DEF scanVars
    <3>2. SchedulerTypeOK' BY <3>1 DEF SchedulerInv, SchedulerTypeOK
    <3>3. ASSUME NEW k \in Scans, owed'[k] # None PROVE Promised(k)' /\ Unserved(k)'
      <4>1. Promised(k) /\ Unserved(k) BY <3>1, <3>3 DEF SchedulerInv
      <4> QED BY <3>1, <4>1 DEF Promised, Unserved, SlotOf, UpTo
    <3> QED BY <3>1, <3>2, <3>3 DEF SchedulerInv, SlotsServed, UpTo
  <2> QED BY <2>1, LoopTicksInv, HourInv, ScanEndsInv, PutScheduleInv DEF ScanNext
<1>3. SchedulerInv => SlotsServed BY DEF SchedulerInv
<1> QED BY <1>1, <1>2, <1>3, PTL DEF ScanSpec
=============================================================================
