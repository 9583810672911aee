---------------------------- MODULE RunScheduler ----------------------------
(***************************************************************************)
(* The daemon's background schedulers, SelfHealingScheduler and            *)
(* SessionResurrectionScheduler (src/apps/daemon/src/self-healing and      *)
(* session-resurrection, scheduler.ts): one timer that is re-armed after   *)
(* every scheduled run, manual runs beside it, a run in progress that      *)
(* makes every other one a "skipped" run, a back-off that grows with the   *)
(* failures in a row, and a history table from which a new process takes   *)
(* its status.                                                             *)
(*                                                                         *)
(* A session-resurrection run awaits its ingestion, a self-healing run     *)
(* awaits nothing: which of the two it is, is part of the configuration.   *)
(* Runs are numbered in the order in which they start; the number stands   *)
(* for run id and startedAt.                                               *)
(***************************************************************************)
EXTENDS Integers, FiniteSets, Sequences

CONSTANTS Configs,        \* configurations tried
          HistoryLimit,   \* runs kept in memory
          RetentionLimit, \* runs kept in the table
          Saturation,     \* failures from which the back-off stops growing
          SaveFails,      \* writing a row to the table may fail
          MaxRuns         \* bound on the runs started

\* awaits: other calls are handled during a run.
Config == [awaits : BOOLEAN, enabled : BOOLEAN, runOnStart : BOOLEAN,
           persistHistory : BOOLEAN]

ASSUME SchedulerAssumption ==
  /\ SaveFails \in BOOLEAN
  /\ Configs \subseteq Config
  /\ HistoryLimit \in Nat \ {0}
  /\ RetentionLimit \in Nat /\ HistoryLimit <= RetentionLimit
  /\ Saturation \in Nat /\ MaxRuns \in Nat

VARIABLES config,   \* this.config
          started,  \* this.started
          running,  \* this.running
          flight,   \* runs between their first statement and their finally
          plan,     \* this.timer, nextRunAt and lastScheduledDelayMs
          status,   \* consecutiveFailures, runCount, lastRun and recentRuns
          table,    \* the rows of ..._run_history of this scope
          serial,   \* runs started so far, in any process
          streak,   \* failed runs since the last that succeeded (ghost)
          lost      \* a run could not be written to the table (ghost)

vars == <<config, started, running, flight, plan, status, table, serial, streak, lost>>

Outcome == {"success", "error", "skipped"}

\* "success" is any of indexed, applied, dry-run-only.
Run == [id : Nat, outcome : Outcome]

NoRun == [id |-> 0, outcome |-> "skipped"]

\* delay is the back-off level, -1 when nothing has been scheduled.
Plan == [timer : BOOLEAN, next : BOOLEAN, delay : -1 .. Saturation]

Unplanned == [timer |-> FALSE, next |-> FALSE, delay |-> -1]

TypeOK ==
  /\ config \in Config
  /\ started \in BOOLEAN /\ running \in BOOLEAN
  /\ flight \subseteq [id : Nat, reschedule : BOOLEAN]
  /\ plan \in Plan
  /\ status \in [failures : Nat, count : Nat, last : Run, recent : Seq(Run)]
  /\ table \subseteq Run
  /\ serial \in Nat /\ streak \in Nat /\ lost \in BOOLEAN

-----------------------------------------------------------------------------
(***************************************************************************)
(* The history.                                                            *)
(***************************************************************************)

Failures(failures, outcome) ==
  CASE outcome = "error" -> failures + 1
    [] outcome = "skipped" -> failures
    [] outcome = "success" -> 0

Shortened(runs, n) == SubSeq(runs, 1, IF Len(runs) < n THEN Len(runs) ELSE n)

\* The memory's half of pushRun: the latest completed run comes first.
Pushed(s, run) ==
  [failures |-> Failures(s.failures, run.outcome), count |-> s.count + 1, last |-> run,
   recent |-> Shortened(<<run>> \o s.recent, HistoryLimit)]

\* The n rows that started last.
Newest(rows, n) == {r \in rows : Cardinality({q \in rows : q.id > r.id}) < n}

\* persistRun: the row, then the retention limit; an error is only logged.
Persist(run) ==
  \/ /\ config.persistHistory
     /\ table' = Newest(table \cup {run}, RetentionLimit)
     /\ UNCHANGED lost
  \/ /\ config.persistHistory /\ SaveFails
     /\ lost' = TRUE
     /\ UNCHANGED table
  \/ /\ ~config.persistHistory
     /\ UNCHANGED <<table, lost>>

\* ORDER BY startedAt
DescendingMutant(rows) ==
  [i \in 1 .. Cardinality(rows) |->
     CHOOSE r \in rows : Cardinality({q \in rows : q.id < r.id}) = i - 1]

\* ORDER BY startedAt DESC
Descending(rows) ==
  [i \in 1 .. Cardinality(rows) |->
     CHOOSE r \in rows : Cardinality({q \in rows : q.id > r.id}) = i - 1]

\* The failures before the first run that succeeded; skipped runs do not count.
Leading(runs) ==
  Cardinality({i \in DOMAIN runs : runs[i].outcome = "error"
                 /\ \A j \in 1 .. i : runs[j].outcome # "success"})

\* Failures before a success count too.
HydratedMutant(rows) ==
  LET recent == Descending(Newest(rows, HistoryLimit))
  IN  [failures |-> Cardinality({i \in DOMAIN recent : recent[i].outcome = "error"}),
       count |-> Cardinality(rows), last |-> IF recent = <<>> THEN NoRun ELSE recent[1],
       recent |-> recent]

\* hydratePersistedState
Hydrated(rows) ==
  LET recent == Descending(Newest(rows, HistoryLimit))
  IN  [failures |-> Leading(recent), count |-> Cardinality(rows),
       last |-> IF recent = <<>> THEN NoRun ELSE recent[1], recent |-> recent]

Fresh == [failures |-> 0, count |-> 0, last |-> NoRun, recent |-> <<>>]

-----------------------------------------------------------------------------
(***************************************************************************)
(* The operations.                                                         *)
(***************************************************************************)

Init ==
  /\ config \in Configs
  /\ started = FALSE /\ running = FALSE
  /\ flight = {}
  /\ plan = Unplanned
  /\ status = Fresh
  /\ table = {}
  /\ serial = 0 /\ streak = 0 /\ lost = FALSE

\* A synchronous run ends before anything else happens.
Turn == config.awaits \/ flight = {}

\* Without the upper bound.
DelayMutant(failures) == failures

\* computeBackoffBaseDelayMs, as a level.
Delay(failures) == IF failures < Saturation THEN failures ELSE Saturation

\* scheduleNext: an armed timer is replaced.
ScheduleNext(p, on, failures) ==
  IF on /\ config.enabled
  THEN [timer |-> TRUE, next |-> TRUE, delay |-> Delay(failures)] ELSE p

Push(run) ==
  /\ status' = Pushed(status, run)
  /\ Persist(run)
  /\ streak' = CASE run.outcome = "error" -> streak + 1
                 [] run.outcome = "success" -> 0
                 [] OTHER -> streak

\* Without looking at the flag.
ExecuteMutant(p, on, reschedule) ==
  /\ serial < MaxRuns
  /\ serial' = serial + 1
  /\ running' = TRUE
  /\ flight' = flight \cup {[id |-> serial + 1, reschedule |-> reschedule]}
  /\ plan' = [p EXCEPT !.next = FALSE]
  /\ UNCHANGED <<status, table, streak, lost>>

\* execute up to its await, or all of it if another run is in progress.
Execute(p, on, reschedule) ==
  /\ serial < MaxRuns
  /\ serial' = serial + 1
  /\ \/ /\ running
        /\ Push([id |-> serial + 1, outcome |-> "skipped"])
        /\ plan' = IF reschedule THEN ScheduleNext(p, on, status'.failures) ELSE p
        /\ UNCHANGED <<running, flight>>
     \/ /\ ~running
        /\ running' = TRUE
        /\ flight' = flight \cup {[id |-> serial + 1, reschedule |-> reschedule]}
        /\ plan' = [p EXCEPT !.next = FALSE]
        /\ UNCHANGED <<status, table, streak, lost>>

\* After a failure the next run is not scheduled.
FinishMutant(r, outcome) ==
  /\ r \in flight
  /\ flight' = flight \ {r}
  /\ running' = FALSE
  /\ Push([id |-> r.id, outcome |-> outcome])
  /\ plan' = IF r.reschedule /\ outcome # "error"
             THEN ScheduleNext(plan, started, status'.failures) ELSE plan
  /\ UNCHANGED <<config, started, serial>>

\* execute's finally
Finish(r, outcome) ==
  /\ r \in flight
  /\ flight' = flight \ {r}
  /\ running' = FALSE
  /\ Push([id |-> r.id, outcome |-> outcome])
  /\ plan' = IF r.reschedule THEN ScheduleNext(plan, started, status'.failures) ELSE plan
  /\ UNCHANGED <<config, started, serial>>

Start ==
  /\ Turn
  /\ ~started
  /\ started' = TRUE
  /\ \/ /\ config.enabled /\ config.runOnStart
        /\ Execute(plan, TRUE, TRUE)
     \/ /\ ~(config.enabled /\ config.runOnStart)
        /\ plan' = ScheduleNext(plan, TRUE, status.failures)
        /\ UNCHANGED <<running, flight, status, table, serial, streak, lost>>
  /\ UNCHANGED config

\* The timer of a scheduler that has been stopped stays.
StopMutant ==
  /\ Turn
  /\ started' = FALSE
  /\ plan' = [Unplanned EXCEPT !.timer = plan.timer]
  /\ UNCHANGED <<config, running, flight, status, table, serial, streak, lost>>

\* A run in progress goes on.
Stop ==
  /\ Turn
  /\ started' = FALSE
  /\ plan' = Unplanned
  /\ UNCHANGED <<config, running, flight, status, table, serial, streak, lost>>

\* The plan once the timer has gone off.
Fired == [timer |-> FALSE, next |-> plan.next, delay |-> plan.delay]

\* The timer's callback.
Fire ==
  /\ Turn
  /\ plan.timer
  /\ Execute(Fired, started, TRUE)
  /\ UNCHANGED <<config, started>>

TriggerNow ==
  /\ Turn
  /\ Execute(plan, started, FALSE)
  /\ UNCHANGED <<config, started>>

\* The daemon dies and comes up again, with a new scheduler.
Restart ==
  /\ started' = FALSE /\ running' = FALSE
  /\ flight' = {}
  /\ plan' = Unplanned
  /\ status' = IF config.persistHistory THEN Hydrated(table) ELSE Fresh
  /\ UNCHANGED <<config, table, serial, streak, lost>>

Next ==
  \/ Start \/ Stop \/ Fire \/ TriggerNow \/ Restart
  \/ \E r \in flight, outcome \in {"success", "error"} : Finish(r, outcome)

Spec == Init /\ [][Next]_vars

\* Timers fire, and what a run awaits - its ingestion - settles.
FairSpec ==
  /\ Spec
  /\ WF_vars(Fire)
  /\ WF_vars(\E r \in flight, outcome \in {"success", "error"} : Finish(r, outcome))

-----------------------------------------------------------------------------
\* Runs never overlap: however manual, startup and scheduled triggers, stop,
\* start and restarts interleave, at most one run is between its first statement
\* and its finally, and the flag says so.
OneRun ==
  /\ running <=> flight # {}
  /\ \A r, q \in flight : r = q

\* A scheduler that is on has its next run ahead: a timer is armed, or a run in
\* progress will arm it.  (A manual run in progress, which arms none, has left the
\* timer alone.)  No timer outlives stop, and no run is announced without one.
NeverStalls ==
  /\ started /\ config.enabled => plan.timer \/ \E r \in flight : r.reschedule
  /\ plan.timer => started /\ config.enabled
  /\ plan.next => plan.timer

\* The back-off is never longer than the failures in a row deserve: not after
\* runs skipped, rows pruned and processes restarted, as long as rows are written.
BackoffEarned == lost \/ status.failures <= streak

LatestReal(runs) ==
  LET real == {i \in DOMAIN runs : runs[i].outcome # "skipped"}
  IN  IF real = {} THEN NoRun ELSE runs[CHOOSE i \in real : \A j \in real : i <= j]

\* What a restart would restore agrees with memory, although memory lists runs in
\* the order in which they end and the table in the order in which they start: a run
\* still in progress is not shown; and as long as rows are written, each run memory
\* shows is shown with the same outcome, unless as many later ones as the list holds
\* are, and the latest run that was not skipped is the same one, if both show one.
RestartAgrees ==
  LET shown == Hydrated(table).recent
      before == LatestReal(status.recent)
      after == LatestReal(shown)
  IN  /\ \A r \in flight, i \in DOMAIN shown : shown[i].id # r.id
      /\ config.persistHistory /\ ~lost =>
           /\ \A k \in DOMAIN status.recent :
                \/ \E i \in DOMAIN shown : shown[i] = status.recent[k]
                \/ /\ Len(shown) >= HistoryLimit
                   /\ \A i \in DOMAIN shown : shown[i].id > status.recent[k].id
           /\ before # NoRun /\ after # NoRun => before = after

\* While the scheduler stays on, runs keep being started: each timer fires, each
\* run that fires re-arms it, also when it finds another run in its way.
RunsGoOn ==
  \A n \in 0 .. MaxRuns - 1 :
    (started /\ config.enabled /\ serial = n) ~> (serial > n \/ ~started)
=============================================================================
