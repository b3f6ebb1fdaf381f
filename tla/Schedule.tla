------------------------------ MODULE Schedule ------------------------------
(***************************************************************************)
(* When a job runs (services/scheduling.py, services/runs.py,              *)
(* scheduler.py): a cron expression in local time, the clock of a zone     *)
(* whose offset changes once, and a scheduler that polls, works out the    *)
(* latest due time and enqueues a run only if that is this very minute.    *)
(*                                                                         *)
(* Minutes of UTC are numbers from 0; a wall time is a number too, of      *)
(* which the day's length leaves the time of the day. A cron expression is *)
(* the set of times of the day it matches; days, months and weekdays, and  *)
(* the hours in which the job of broker steering is allowed, are left out. *)
(***************************************************************************)
EXTENDS Integers, FiniteSets, FiniteSetsExt

CONSTANTS
  DayMinutes,   \* the length of a day
  Crons,        \* the sets of times of the day a job may have
  Change,       \* the minute at which the zone's offset changes from 0 ...
  Shifts,       \* ... to one of these
  LastMinute,   \* bound: the last minute looked at
  NoPass        \* no pass is under way

\* The times looked at go past the change, and past what it leaves out.
ASSUME ScheduleAssumption ==
  /\ Change \in Nat /\ LastMinute \in Nat /\ NoPass \notin Int
  /\ \A s \in Shifts : s \in Int /\ Change + s - 1 <= LastMinute

VARIABLES
  cron, shift,  \* the job's schedule and the zone's change, which stay as they are
  clock,        \* the minute it is
  at,           \* the minute a pass of the scheduler has read, or NoPass
  queuedFor,    \* RunRecord.scheduled_for of the job's runs
  jobActive,    \* the job has a queued or running run
  refused,      \* history: due minutes at which a run was active
  missed        \* history: due minutes that no pass read to the end

scheduleVars == <<cron, shift, clock, at, queuedFor, jobActive, refused, missed>>

-----------------------------------------------------------------------------
(* scheduling.py *)

\* The wall time of a minute: value.astimezone(zone).
WallTime(u) == IF u < Change THEN u ELSE u + shift

\* Mutant of UtcOf: a skipped wall time counts with the offset of after.
UtcOfSkippedEarly(w) == IF w < Change THEN w ELSE w - shift

\* The minute of a wall time: astimezone(utc). What a timedelta was taken from
\* has fold 0, so a wall time that is skipped, and one that is repeated, count
\* with the offset of before the change.
UtcOf(w) == IF w < Change + (IF shift > 0 THEN shift ELSE 0) THEN w ELSE w - shift

MatchesCron(w) == (w % DayMinutes) \in cron

\* Walks back over wall times, not over minutes.
LatestDueAt(now) ==
  LET wall == WallTime(now)
      earlier == {w \in 0..(wall - 1) : MatchesCron(w)}
  IN CASE MatchesCron(wall) -> now
       [] ~MatchesCron(wall) /\ earlier # {} -> UtcOf(Max(earlier))
       [] OTHER -> -1

DueAt(now) == LatestDueAt(now) = now

-----------------------------------------------------------------------------
ScheduleInit ==
  /\ cron \in Crons /\ shift \in Shifts
  /\ clock = 0 /\ at = NoPass
  /\ queuedFor = {} /\ jobActive = FALSE
  /\ refused = {} /\ missed = {}

\* A pass reads the clock once, for all jobs.
Poll ==
  /\ at = NoPass
  /\ at' = clock
  /\ UNCHANGED <<cron, shift, clock, queuedFor, jobActive, refused, missed>>

\* The job's turn in the pass, which may come minutes after the clock was read.
\* Two more reasons to refuse a due minute are left out, as any refused minute
\* is: the hours of broker steering, and, for a tuning job, an active run of
\* another tuning job (services/runs.py 103-105).
EnqueueIfDue ==
  /\ at # NoPass
  /\ at' = NoPass
  /\ LET due == DueAt(at) /\ at \notin queuedFor IN
     /\ queuedFor' = IF due /\ ~jobActive THEN queuedFor \cup {at} ELSE queuedFor
     /\ refused' = IF due /\ jobActive THEN refused \cup {at} ELSE refused
     /\ jobActive' = (jobActive \/ due)
  /\ UNCHANGED <<cron, shift, clock, missed>>

RunSettles ==
  /\ jobActive
  /\ jobActive' = FALSE
  /\ UNCHANGED <<cron, shift, clock, at, queuedFor, refused, missed>>

\* A due minute is over, or its pass is, and nothing came of it.
Lost(u) == DueAt(u) /\ u \notin queuedFor \cup refused

MinutePasses ==
  /\ clock < LastMinute
  /\ clock' = clock + 1
  /\ missed' = IF Lost(clock) /\ at # clock THEN missed \cup {clock} ELSE missed
  /\ UNCHANGED <<cron, shift, at, queuedFor, jobActive, refused>>

\* The scheduler dies, or the pass raises before the job's turn.
PassFails ==
  /\ at # NoPass
  /\ at' = NoPass
  /\ missed' = IF Lost(at) /\ at < clock THEN missed \cup {at} ELSE missed
  /\ UNCHANGED <<cron, shift, clock, queuedFor, jobActive, refused>>

ScheduleNext == Poll \/ EnqueueIfDue \/ RunSettles \/ MinutePasses \/ PassFails

ScheduleSpec == ScheduleInit /\ [][ScheduleNext]_scheduleVars

-----------------------------------------------------------------------------
\* The wall times the change leaves out, and the minutes that can stand for one:
\* that wall time's own or, for a skipped one, those as long after the change as
\* the change leaves out.
Skipped(w) == shift > 0 /\ w \in Change..(Change + shift - 1)
StandsFor(u, w) == WallTime(u) = w \/ (Skipped(w) /\ u \in Change..(Change + shift - 1))

\* Every scheduled time of every local day gets its run, also one that the change
\* to summer time skips (it runs as much later), and also when several are
\* skipped, unless a run of the job was active when its minute was polled or no
\* pass read that minute to the end (services/scheduling.py 155-173: the walk back
\* over wall times; services/runs.py 96-109: only in the very minute).
EveryTimeRuns ==
  \A w \in 0..WallTime(LastMinute) :
    /\ MatchesCron(w)
    /\ \A u \in 0..LastMinute : StandsFor(u, w) => u < clock
    => \E u \in queuedFor \cup refused \cup missed \cup {at} : u # NoPass /\ StandsFor(u, w)

=============================================================================
