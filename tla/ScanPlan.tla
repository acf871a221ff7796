----------------------------- MODULE ScanPlan ------------------------------
(***************************************************************************)
(* The two schedule panels of the storage page.  One request stores both   *)
(* schedules, so a save of one panel sends the page's copy of the other;   *)
(* the copy is read again after each save, and other administrators save   *)
(* too.                                                                    *)
(***************************************************************************)
EXTENDS Naturals

CONSTANTS Plans,             \* what a schedule can be set to
          DEFAULT_SCHED,     \* the schedule of a panel never saved
          Unknown,           \* the page has no copy
          MaxSaves           \* bound: saves of the page

ASSUME PlanAssumption == DEFAULT_SCHED \in Plans /\ Unknown \notin Plans /\ MaxSaves \in Nat

VARIABLES plan,              \* the server's schedules
          scheduleData,      \* the page's copy of them
          reading,           \* the request for it: none, asked, or its answer
          drafts,            \* what the panels show
          scheduleSynced,
          saveSchedule,      \* the save under way
          saves,
          meant,             \* ghost: what each panel was last saved as
          behind,            \* ghost: panels of which the copy may lack a change
          risky,             \* ghost: those it could lack when the save was clicked
          aged               \* ghost: panels written back by a save that was at risk

planVars == <<plan, scheduleData, reading, drafts, scheduleSynced, saveSchedule, saves,
              meant, behind, risky, aged>>

Panels == {"corrupt", "orphan"}
Untouched == [k \in Panels |-> DEFAULT_SCHED]
NoRead == [at |-> "none"]
AskSchedule == [at |-> "asked"]
NoSave == [at |-> "none"]

PlanInit ==
  /\ plan \in [Panels -> Plans] /\ meant = plan
  /\ scheduleData = Unknown /\ reading = AskSchedule
  /\ drafts = Untouched /\ scheduleSynced = FALSE
  /\ saveSchedule = NoSave /\ saves = 0 /\ behind = {} /\ risky = {} /\ aged = {}

---------------------------------------------------------------------------
\* The effect runs with the copy at hand and marks the panels as synced.
SyncDrafts(copy) ==
  IF scheduleSynced THEN UNCHANGED <<drafts, scheduleSynced>>
  ELSE drafts' = copy /\ scheduleSynced' = TRUE

\* A row that cannot be read is left out of the answer, and its panel has the default.
loadScanSchedule ==
  /\ reading = AskSchedule
  /\ \E unread \in SUBSET Panels :
       /\ reading' = [at |-> "answered", copy |->
                       [k \in Panels |-> IF k \in unread THEN DEFAULT_SCHED ELSE plan[k]]]
       /\ behind' = unread
  /\ UNCHANGED <<plan, scheduleData, drafts, scheduleSynced, saveSchedule, saves, meant, aged,
                 risky>>

TakeSchedule ==
  /\ reading.at = "answered"
  /\ scheduleData' = reading.copy /\ reading' = NoRead
  /\ SyncDrafts(reading.copy)
  /\ UNCHANGED <<plan, saveSchedule, saves, meant, behind, aged, risky>>

ScheduleUnread ==
  /\ reading # NoRead /\ reading' = NoRead /\ behind' = Panels
  /\ UNCHANGED <<plan, scheduleData, drafts, scheduleSynced, saveSchedule, saves, meant, aged,
                 risky>>

\* The window gets the focus, or the network comes back.
RefetchSchedule ==
  /\ reading = NoRead /\ reading' = AskSchedule
  /\ UNCHANGED <<plan, scheduleData, drafts, scheduleSynced, saveSchedule, saves, meant, behind,
                 aged, risky>>

EditPanel(k) ==
  /\ \E c \in Plans \ {drafts[k]} : drafts' = [drafts EXCEPT ![k] = c]
  /\ UNCHANGED <<plan, scheduleData, reading, scheduleSynced, saveSchedule, saves, meant, behind,
                 aged, risky>>

Body(k) == [p \in Panels |-> IF p = k \/ scheduleData = Unknown
                             THEN drafts[p] ELSE scheduleData[p]]

\* Save is disabled in both panels while one is saved, but not while the page has no copy
\* or is reading it: then either panel is at risk, else what the copy may lack.
AtRisk == IF scheduleData = Unknown \/ reading # NoRead THEN Panels ELSE behind
SaveSchedule(k) ==
  /\ saveSchedule = NoSave /\ saves < MaxSaves /\ saves' = saves + 1
  /\ saveSchedule' = [at |-> "sent", panel |-> k, body |-> Body(k)] /\ risky' = AtRisk
  /\ UNCHANGED <<plan, scheduleData, reading, drafts, scheduleSynced, meant, behind, aged>>

PutSchedule ==
  /\ saveSchedule.at = "sent"
  /\ LET k == saveSchedule.panel IN
     /\ plan' = saveSchedule.body
     /\ meant' = [meant EXCEPT ![k] = saveSchedule.body[k]]
     /\ aged' = (aged \cup risky) \ {k}
  /\ saveSchedule' = [at |-> "stored"]
  /\ UNCHANGED <<scheduleData, reading, drafts, scheduleSynced, saves, behind, risky>>

\* A mutant: the copy is not read again after a save.
AsItWas == UNCHANGED <<reading, behind>>

\* A read under way is dropped and asks again, but the page's first is waited for, though
\* its answer may be from before the save.
ReadAgain ==
  IF scheduleData = Unknown /\ reading # NoRead
  THEN /\ UNCHANGED reading
       /\ behind' = behind \cup {p \in Panels : reading.at = "answered"
                                                  /\ reading.copy[p] # plan[p]}
  ELSE reading' = AskSchedule /\ UNCHANGED behind

\* The panels sync at once with the copy of before the save, when there is one, and not
\* with the one that follows.
ScheduleSaved ==
  /\ saveSchedule.at = "stored" /\ saveSchedule' = NoSave
  /\ ReadAgain
  /\ IF scheduleData = Unknown THEN scheduleSynced' = FALSE /\ UNCHANGED drafts
     ELSE drafts' = scheduleData /\ scheduleSynced' = TRUE
  /\ UNCHANGED <<plan, scheduleData, saves, meant, aged, risky>>

\* Refused or lost on the way, or its answer lost.
ScheduleFailed ==
  /\ saveSchedule # NoSave /\ saveSchedule' = NoSave
  /\ behind' = IF saveSchedule.at = "stored" THEN Panels ELSE behind
  /\ UNCHANGED <<plan, scheduleData, reading, drafts, scheduleSynced, saves, meant, aged,
                 risky>>

\* Another administrator saves a panel, from a page that is up to date.
OtherSaves(k) ==
  /\ \E c \in Plans \ {plan[k]} : /\ plan' = [plan EXCEPT ![k] = c]
                                  /\ meant' = [meant EXCEPT ![k] = c]
  /\ aged' = aged \ {k} /\ behind' = behind \cup {k} /\ risky' = risky \cup {k}
  /\ UNCHANGED <<scheduleData, reading, drafts, scheduleSynced, saveSchedule, saves>>

PlanNext ==
  \/ loadScanSchedule \/ TakeSchedule \/ ScheduleUnread \/ RefetchSchedule
  \/ PutSchedule \/ ScheduleSaved \/ ScheduleFailed
  \/ \E k \in Panels : EditPanel(k) \/ SaveSchedule(k) \/ OtherSaves(k)

PlanSpec == PlanInit /\ [][PlanNext]_planVars

---------------------------------------------------------------------------
\* A save of one panel leaves the other's stored schedule as it was last saved, unless it
\* was clicked before the page had read back what was saved before, or a reading failed or
\* was cut short, an answer was lost, or another administrator saved since that reading.
OtherPanelKept == \A k \in Panels : plan[k] = meant[k] \/ k \in aged

=============================================================================
