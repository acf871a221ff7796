--------------------------- MODULE ScanScheduler ---------------------------
(***************************************************************************)
(* The scheduled scans of the storage: a loop that ticks every minute and  *)
(* runs the scans that are due, one after the other, each of which may     *)
(* take long, a server that may stop, and an administrator who changes the *)
(* schedules meanwhile.  The schedules are in UTC; the clock the loop      *)
(* reads is the server's.  Time is counted in days and hours of UTC, and   *)
(* months have the same length.                                            *)
(***************************************************************************)
EXTENDS Integers

CONSTANTS Hours, WeekDays, MonthDays,    \* of a day, of a week, of a month
          Zones,             \* hours the server's clock may be ahead of UTC
          Schedules,         \* [enabled, interval, hour, day]
          MaxDays            \* bound

ASSUME SchedulerAssumption ==
  /\ {Hours, WeekDays, MonthDays} \subseteq Nat \ {0} /\ Zones \subseteq Int
  /\ \A z \in Zones : z < Hours /\ z > -Hours
  /\ \A c \in Schedules :
       /\ c.interval \in {"hourly", "daily", "weekly", "monthly"}
       /\ c.hour \in 0..(Hours - 1)
       /\ c.day \in 0..((IF c.interval = "weekly" THEN WeekDays ELSE MonthDays) - 1)

VARIABLES now,               \* [day, hour] of UTC
          zone,
          schedule,          \* what is stored for each scan
          last_run,          \* the time of the tick that each scan last ran at
          tick,              \* the time of the tick under way, or of the last
          scanning,          \* the scans left of the tick under way
          owed,              \* ghost: the day of each scan's last slot, until it is served
          serving,           \* ghost: scans of the tick under way that serve their slot
          skipped            \* ghost: scans whose slot a tick passed over

scanVars == <<now, zone, schedule, last_run, tick, scanning, owed, serving, skipped>>

Scans == {"corrupt", "orphan"}
At(d, h) == [day |-> d, hour |-> h]
Before(x, y) == x.day < y.day \/ (x.day = y.day /\ x.hour < y.hour)
HourAfter(t) == IF t.hour + 1 < Hours THEN At(t.day, t.hour + 1) ELSE At(t.day + 1, 0)

Never == At(-(WeekDays + MonthDays), 0)      \* before any slot
None == -1
Off == [enabled |-> FALSE, interval |-> "daily", hour |-> 0, day |-> 0]

ScanInit ==
  /\ now = At(0, 0) /\ zone \in Zones
  /\ schedule = [k \in Scans |-> Off] /\ last_run = [k \in Scans |-> Never]
  /\ tick = Never /\ scanning = {}
  /\ owed = [k \in Scans |-> None] /\ serving = {} /\ skipped = {}

---------------------------------------------------------------------------
\* What the page promises: "Every hour", "Daily at ... UTC", "... at ... UTC".
scheduleLabel(c, t) ==
  /\ c.enabled /\ c.interval # "hourly" /\ t.hour = c.hour
  /\ c.interval = "weekly" => t.day % WeekDays = c.day
  /\ c.interval = "monthly" => t.day % MonthDays = c.day

\* The date the server's clock shows.
LocalDay(t) == t.day + (IF t.hour + zone >= Hours THEN 1
                        ELSE IF t.hour + zone < 0 THEN -1 ELSE 0)

\* The day of the slot the loop looks at: a daily one is put on the server's date, and only
\* a monthly one that is still to come steps back.
SlotDay(c, t) ==
  LET week == (t.day - c.day) % WeekDays
      month == (t.day - c.day) % MonthDays IN
  CASE c.interval = "daily" -> LocalDay(t)
    [] c.interval = "weekly" -> t.day - week
    [] c.interval = "monthly" -> IF month = 0 /\ t.hour < c.hour THEN t.day - MonthDays
                                 ELSE t.day - month

isDue(c, lastRun, t) ==
  /\ c.enabled
  /\ IF c.interval = "hourly" THEN Before(lastRun, t)
     ELSE LET scheduled == At(SlotDay(c, t), c.hour)
          IN ~Before(t, scheduled) /\ Before(lastRun, scheduled)

\* A slot is the loop's to serve while the server's date is its day, if daily; until the
\* day of the next one, if weekly; until the next one, if monthly.
SlotOf(k) == At(owed[k], schedule[k].hour)
InTime(k, t) ==
  /\ owed[k] # None /\ ~Before(t, SlotOf(k))
  /\ schedule[k].interval = "daily" => LocalDay(t) = owed[k]
  /\ schedule[k].interval = "weekly" => t.day < owed[k] + WeekDays

\* The ticker keeps one tick for a loop that is late: after a scan the next has the time a
\* minute after the last.  The decision is for both scans and from what is read as the tick
\* begins; a row that cannot be read is left out.
TickTimes == {t \in {tick, HourAfter(tick)} : tick # Never /\ ~Before(now, t)}
runScheduledScans ==
  /\ scanning = {}
  /\ \E t \in (IF TickTimes = {} THEN {now} ELSE TickTimes), off, forgotten \in SUBSET Scans :
       /\ scanning' = {k \in Scans \ off :
                         isDue(schedule[k], IF k \in forgotten THEN Never ELSE last_run[k], t)}
       /\ tick' = IF scanning' = {} THEN Never ELSE t
       /\ serving' = {k \in scanning' : owed[k] # None /\ ~Before(t, SlotOf(k))}
       /\ skipped' = skipped \cup {k \in Scans \ (off \cup scanning') : InTime(k, t)}
  /\ UNCHANGED <<now, zone, schedule, last_run, owed>>

\* The orphan scan waits for the other.
Ends(k) ==
  /\ k \in scanning /\ (k = "orphan" => "corrupt" \notin scanning)
  /\ scanning' = scanning \ {k}

\* One that ends is recorded at its tick's time.  A mutant: at the time it ends.
RecordTickTime(k) == last_run' = [last_run EXCEPT ![k] = now]
Record(k) == last_run' = [last_run EXCEPT ![k] = tick]
updateLastRun(k) ==
  /\ Ends(k) /\ Record(k)
  /\ owed' = IF k \in serving THEN [owed EXCEPT ![k] = None] ELSE owed
  /\ UNCHANGED <<now, zone, schedule, tick, serving, skipped>>

\* One that fails, or cannot be recorded, is left to a later tick.
ScanFails(k) ==
  /\ Ends(k)
  /\ UNCHANGED <<now, zone, schedule, last_run, tick, owed, serving, skipped>>

\* A scan under way, and the tick kept, are lost.
ServerStops ==
  /\ tick # Never /\ tick' = Never /\ scanning' = {}
  /\ UNCHANGED <<now, zone, schedule, last_run, owed, serving, skipped>>

\* A new schedule owes nothing before its first slot.
PutScanSchedule(k) ==
  /\ \E c \in Schedules \cup {Off} : /\ c # schedule[k]
                                     /\ schedule' = [schedule EXCEPT ![k] = c]
  /\ owed' = [owed EXCEPT ![k] = None]
  /\ UNCHANGED <<now, zone, last_run, tick, scanning, serving, skipped>>

\* The loop may not look for hours: it scans, the database fails, or the server is down.
HourPasses ==
  /\ now.day < MaxDays /\ now' = HourAfter(now)
  /\ LET slots == {k \in Scans : scheduleLabel(schedule[k], HourAfter(now))} IN
     /\ owed' = [k \in Scans |-> IF k \in slots THEN HourAfter(now).day ELSE owed[k]]
     /\ serving' = serving \ slots
  /\ UNCHANGED <<zone, schedule, last_run, tick, scanning, skipped>>

ScanNext ==
  \/ runScheduledScans \/ ServerStops \/ HourPasses
  \/ \E k \in Scans : updateLastRun(k) \/ ScanFails(k) \/ PutScanSchedule(k)

ScanSpec == ScanInit /\ [][ScanNext]_scanVars

---------------------------------------------------------------------------
\* A tick that finds a slot in time, and not served by a scan recorded since, starts its
\* scan: however long the scans of earlier ticks took, whatever failed, was repeated or
\* came late, and whatever the zone.  (A daily slot in the last hours of the day of UTC is
\* never in time where the server's clock is ahead by as many.)
SlotsServed == skipped = {}

=============================================================================
