-------------------------- MODULE MCAdministration --------------------------
(***************************************************************************)
(* Settings and administration: the picker of the automatic backup, the    *)
(* archives and restores of a backup device, archives pushed by a buddy,   *)
(* user accounts, their groups, second factors, app passwords, the         *)
(* scheduler of the storage scans, the page that sets it, and the report   *)
(* that page acts on.  They share no state; a behaviour follows one of     *)
(* them, named by part, and the others rest.                               *)
(***************************************************************************)
EXTENDS BackupPicker, BackupArchives, BuddyStore, AdminUsers, AdminGroups, MFAMethods,
        AppPasswords, ScanScheduler, ScanPlan, ScanReport, TLC

CONSTANTS p, q, a, b    \* a folder in a folder, with a file, and a file in the first

VARIABLE part

MCAbove == p :> {} @@ q :> {p} @@ a :> {p, q} @@ b :> {p}
MCSchedules ==
  LET Runs(is, h, d) == [enabled : {TRUE}, interval : is, hour : {h}, day : {d}]
  IN Runs({"daily"}, 0, 0) \cup Runs({"weekly", "monthly"}, Hours - 1, WeekDays - 1)

MCZones == {-1, 1}

vars == <<part, pickerVars, archiveVars, buddyVars, usersVars, groupVars, mfaVars,
          passwordVars, scanVars, planVars, reportVars>>

\* What rests starts from one state.
Init ==
  /\ part \in {"picker", "archives", "buddy", "users", "groups", "mfa", "passwords",
               "scans", "plan", "report"}
  /\ PickerInit /\ (part # "picker" => ~saved.on)
  /\ UsersInit
  /\ PlanInit /\ (part # "plan" => \A k \in Panels : plan[k] = DEFAULT_SCHED)
  /\ ReportInit /\ (part # "report" => \A f \in Blobs : row[f] = "live" /\ blob[f] = "sound")
  /\ ArchivesInit /\ BuddyInit /\ GroupsInit /\ MFAInit /\ AppPasswordInit
  /\ ScanInit /\ (part # "scans" => zone = 1)

OthersRest ==
  /\ part' = part
  /\ part # "picker" => UNCHANGED pickerVars
  /\ part # "archives" => UNCHANGED archiveVars
  /\ part # "buddy" => UNCHANGED buddyVars
  /\ part # "users" => UNCHANGED usersVars
  /\ part # "groups" => UNCHANGED groupVars
  /\ part # "mfa" => UNCHANGED mfaVars
  /\ part # "passwords" => UNCHANGED passwordVars
  /\ part # "scans" => UNCHANGED scanVars
  /\ part # "plan" => UNCHANGED planVars
  /\ part # "report" => UNCHANGED reportVars

Next ==
  \/ part = "picker" /\ PickerNext /\ OthersRest
  \/ part = "archives" /\ ArchivesNext /\ OthersRest
  \/ part = "buddy" /\ BuddyNext /\ OthersRest
  \/ part = "users" /\ UsersNext /\ OthersRest
  \/ part = "groups" /\ GroupsNext /\ OthersRest
  \/ part = "mfa" /\ MFANext /\ OthersRest
  \/ part = "passwords" /\ AppPasswordNext /\ OthersRest
  \/ part = "scans" /\ ScanNext /\ OthersRest
  \/ part = "plan" /\ PlanNext /\ OthersRest
  \/ part = "report" /\ ReportNext /\ OthersRest

Spec == Init /\ [][Next]_vars

\* The gaps that the properties name are not followed further: the theorems do.
Calm ==
  /\ ~failed /\ ~overtaken                                          \* BackupPicker
  /\ ~crashed /\ ~doubled /\ ~unlike                                \* BackupArchives
  /\ ~torn                                                          \* AdminUsers
  /\ ~unsure /\ \A u \in DOMAIN newUsers : newUsers[u].sure         \* AdminGroups
  /\ ~crossed                                                       \* MFAMethods
  /\ aside = 0                                                      \* ScanReport

\* The files of the report are alike.
Alike == Permutations(Blobs)
=============================================================================
