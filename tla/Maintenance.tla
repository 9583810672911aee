---------------------------- MODULE Maintenance ----------------------------
(***************************************************************************)
(* What the two schedulers and the dashboard do to the table of memories:  *)
(* the codec of stored content, audit, dry run, the decision to apply, the *)
(* backfill, the counting of outcomes and the trend snapshots.  When they  *)
(* run is RunScheduler's subject; a run here is one step, as its database  *)
(* calls await nothing.                                                    *)
(*                                                                         *)
(* A stored value is plain text or an envelope around a text, sound or     *)
(* damaged.  Texts stand for their kinds: "short" (below the size worth    *)
(* packing), "dense" (packing does not win), "long", "torn" (long, with    *)
(* half a surrogate pair, which UTF-8 replaces: "mended").  A user may     *)
(* also write a text that is itself an envelope.                           *)
(***************************************************************************)
EXTENDS Integers, FiniteSets, Sequences

CONSTANTS RowCount,     \* rows of memories, 1 being the last accessed
          ProjectOfRow, \* row -> project
          Projects,
          Environment,  \* what the variables of the configuration may say
          Windows,      \* windows of the service level, in days
          MaxOps        \* bound on the operations

\* A variable that holds a number holds an integer; an hour is one of the day's four.
ASSUME MaintenanceAssumption ==
  /\ RowCount \in Nat \ {0} /\ ProjectOfRow \in [1 .. RowCount -> Projects]
  /\ MaxOps \in Nat /\ Windows \subseteq Nat
  /\ \A env \in Environment :
       /\ \A value \in {env.history, env.persisted, env.auditLimit, env.backfillLimit,
                         env.maxApplyRows, env.maxAnomalies, env.minPacked} : \A n \in value : n \in Int
       /\ env.windowStart \in 0 .. 3 /\ env.windowEnd \in 0 .. 3

VARIABLES config,       \* the configuration of a scheduler
          table,        \* row -> stored value
          day,          \* the clock
          runs,         \* history: the runs in their order, with day and outcome
          stored,       \* numbers of the runs that have a row in the history table
          lost,         \* history: numbers of those whose row was not written
          lastRun,      \* the report of the last run
          snaps,        \* memory_compaction_snapshots: {[scope, at]}
          asked,        \* history: the scope of the last dashboard
          wrote,        \* history: row -> what its writer wrote
          damaged,      \* history: rows whose stored value was corrupted
          ops

maintVars == <<config, table, day, runs, stored, lost, lastRun, snaps, asked, wrote, damaged, ops>>

Rows == 1 .. RowCount
Global == "global"

-----------------------------------------------------------------------------
(***************************************************************************)
(* The codec (src/core/mempalace/content.compaction.ts).                   *)
(***************************************************************************)
PlainText(t) == [form |-> "plain", text |-> t, harm |-> "none"]
Envelope(t, harm) == [form |-> "envelope", text |-> t, harm |-> harm]

IsCompacted(v) == v.form = "envelope"

\* What a text is after a round trip through UTF-8.
Utf8(t) == IF t = "torn" THEN "mended" ELSE t

CompactForStorage(v) ==
  IF IsCompacted(v) \/ v.text \in {"short", "dense", "preview", "garbage"} THEN v
  ELSE Envelope(Utf8(v.text), "none")

\* A damaged payload leaves the preview.
Resurrect(v) ==
  IF ~IsCompacted(v) THEN v
  ELSE PlainText(IF v.harm = "none" THEN v.text ELSE "preview")

Integrity(v) == IF IsCompacted(v) THEN v.harm ELSE "plain"

-----------------------------------------------------------------------------
(***************************************************************************)
(* The configuration: the value of a variable is the set of the number it  *)
(* holds, {} when it is unset or no number, {0} when it is empty.          *)
(***************************************************************************)
Lesser(a, b) == IF a < b THEN a ELSE b
Greater(a, b) == IF a < b THEN b ELSE a

ParseBoundedInt(value, fallback, min, max) ==
  IF value = {} THEN fallback
  ELSE Lesser(max, Greater(min, CHOOSE n \in value : TRUE))

\* readSelfHealingConfigFromEnv, readSessionResurrectionConfigFromEnv, but for what
\* RunScheduler reads: counts of a few stand for thousands.
ReadConfig(env) ==
  LET history == ParseBoundedInt(env.history, 2, 1, 3)
  IN  [kind |-> env.kind, applyEnabled |-> env.applyEnabled, project |-> env.project,
       history |-> history,
       persisted |-> ParseBoundedInt(env.persisted, 3, history, 4),
       persists |-> env.persists,
       auditLimit |-> ParseBoundedInt(env.auditLimit, RowCount, 1, RowCount),
       backfillLimit |-> ParseBoundedInt(env.backfillLimit, RowCount, 1, RowCount),
       maxApplyRows |-> ParseBoundedInt(env.maxApplyRows, 1, 1, RowCount),
       maxAnomalies |-> ParseBoundedInt(env.maxAnomalies, 0, 0, RowCount),
       minPacked |-> ParseBoundedInt(env.minPacked, 1, 0, RowCount),
       windowStart |-> env.windowStart, windowEnd |-> env.windowEnd]

\* The last hour of the window counts as inside.
IsWithinApplyWindowMutant(hour, start, end) ==
  CASE start = end -> TRUE
    [] start < end -> start <= hour /\ hour <= end
    [] start > end -> start <= hour \/ hour <= end

IsWithinApplyWindow(hour, start, end) ==
  CASE start = end -> TRUE
    [] start < end -> start <= hour /\ hour < end
    [] start > end -> start <= hour \/ hour < end

-----------------------------------------------------------------------------
(***************************************************************************)
(* Audit, backfill and decision.                                           *)
(***************************************************************************)

\* The rows a statement with ORDER BY lastAccessedAt DESC LIMIT ? returns.
Newest(project, limit) ==
  LET of == {r \in Rows : project = Global \/ ProjectOfRow[r] = project}
  IN  {r \in of : Cardinality({q \in of : q < r}) < limit}

AuditMemoryResurrection(project, limit) ==
  LET scanned == Newest(project, limit) IN
  [scanned |-> Cardinality(scanned),
   plain |-> Cardinality({r \in scanned : Integrity(table[r]) = "plain"}),
   anomalies |-> Cardinality({r \in scanned : Integrity(table[r]) \in {"checksum", "decode"}})]

\* The rows a backfill packs: limit counts the packed rows it passes over too.
Backfill(project, limit) ==
  {r \in Newest(project, limit) : ~IsCompacted(table[r]) /\ CompactForStorage(table[r]) # table[r]}

SelfHealingAllows(audit, dry, hour, dryRunOnly) ==
  /\ ~dryRunOnly /\ config.applyEnabled
  /\ audit.anomalies <= config.maxAnomalies
  /\ 5 * audit.plain >= audit.scanned \* minCompactionOpportunityRate
  /\ Cardinality(dry) >= config.minPacked
  /\ IsWithinApplyWindow(hour, config.windowStart, config.windowEnd)

SessionResurrectionAllows(audit, dry, ingestErrors, dryRunOnly) ==
  /\ ~dryRunOnly /\ config.applyEnabled /\ ~ingestErrors
  /\ audit.anomalies <= config.maxAnomalies
  /\ dry # {}

ApplyLimit == IF config.kind = "self-healing" THEN Lesser(config.backfillLimit, config.maxApplyRows)
              ELSE config.backfillLimit

-----------------------------------------------------------------------------
NoRun == [outcome |-> "none"]

MaintInit ==
  /\ config \in {ReadConfig(env) : env \in Environment}
  /\ wrote \in [Rows -> {PlainText("short"), PlainText("long")}]
  /\ table = wrote
  /\ day = 0 /\ runs = <<>> /\ stored = {} /\ lost = {} /\ lastRun = NoRun /\ snaps = {} /\ asked = Global
  /\ damaged = {} /\ ops = 0

Counted == ops < MaxOps /\ ops' = ops + 1

\* The n latest of some runs.
LatestRuns(numbers, n) == {i \in numbers : Cardinality({j \in numbers : j > i}) < n}

\* pushRun: the run's row and the retention limit, either of which may fail, which is
\* only logged.
PushRun(outcome) ==
  LET number == Len(runs) + 1
  IN  /\ runs' = Append(runs, [at |-> day, outcome |-> outcome])
      /\ \/ /\ config.persists
            /\ \/ stored' = LatestRuns(stored \cup {number}, config.persisted)
               \/ stored' = stored \cup {number}
            /\ UNCHANGED lost
         \/ /\ config.persists
            /\ lost' = lost \cup {number}
            /\ UNCHANGED stored
         \/ /\ ~config.persists
            /\ UNCHANGED <<stored, lost>>

\* upsertMemory on main.
Store(r, v) ==
  /\ Counted
  /\ table' = [table EXCEPT ![r] = CompactForStorage(v)]
  /\ wrote' = [wrote EXCEPT ![r] = v]
  /\ damaged' = damaged \ {r}
  /\ UNCHANGED <<config, day, runs, stored, lost, lastRun, snaps, asked>>

\* What a list shows is written back.
RewriteMutant(r) ==
  /\ Counted
  /\ table' = [table EXCEPT ![r] = IF IsCompacted(@) THEN PlainText("preview") ELSE @]
  /\ UNCHANGED <<config, day, runs, stored, lost, lastRun, snaps, asked, wrote, damaged>>

\* A merge, the archivist and the consolidation write back what they read.
Rewrite(r) ==
  /\ Counted
  /\ table' = [table EXCEPT ![r] = CompactForStorage(Resurrect(table[r]))]
  /\ UNCHANGED <<config, day, runs, stored, lost, lastRun, snaps, asked, wrote, damaged>>

\* A stored envelope goes bad: its payload, or so much that it reads as plain text.
Corrupt(r, harm) ==
  /\ Counted /\ IsCompacted(table[r])
  /\ table' = [table EXCEPT ![r] = IF harm = "all" THEN PlainText("garbage") ELSE Envelope(@.text, harm)]
  /\ damaged' = damaged \cup {r}
  /\ UNCHANGED <<config, day, runs, stored, lost, lastRun, snaps, asked, wrote>>

\* A run: audit, dry run, decision, backfill of at most ApplyLimit rows, newest
\* first; fails says whether a statement fails, and in the backfill after which row.
Run(hour, dryRunOnly, ingestErrors, fails) ==
  /\ Counted
  /\ LET audit   == AuditMemoryResurrection(config.project, config.auditLimit)
         dry     == Backfill(config.project, config.backfillLimit)
         allowed == IF config.kind = "self-healing"
                    THEN SelfHealingAllows(audit, dry, hour, dryRunOnly)
                    ELSE SessionResurrectionAllows(audit, dry, ingestErrors, dryRunOnly)
         planned == IF allowed /\ fails # 0 THEN Backfill(config.project, ApplyLimit) ELSE {}
         packed  == {r \in planned : r < fails}
         idle    == IF config.kind = "self-healing" THEN "dry-run-only" ELSE "indexed"
         outcome == IF fails = 0 \/ planned # packed THEN "error"
                    ELSE IF packed # {} THEN "applied" ELSE idle
     IN  /\ table' = [r \in Rows |-> IF r \in packed THEN CompactForStorage(table[r]) ELSE table[r]]
         /\ lastRun' = [outcome |-> outcome, packed |-> packed, hour |-> hour, dryRunOnly |-> dryRunOnly,
                        ingestErrors |-> ingestErrors, before |-> table]
         /\ PushRun(outcome)
  /\ UNCHANGED <<config, day, snaps, asked, wrote, damaged>>

\* execute of a scheduler that runs already, and whose timer or caller comes again.
Skip == /\ Counted /\ PushRun("skipped")
        /\ UNCHANGED <<config, table, day, lastRun, snaps, asked, wrote, damaged>>

NextDay == /\ Counted /\ day' = day + 1
           /\ UNCHANGED <<config, table, runs, stored, lost, lastRun, snaps, asked, wrote, damaged>>

-----------------------------------------------------------------------------
(***************************************************************************)
(* The dashboard and its trend.                                            *)
(***************************************************************************)
RowsOf(p) == {r \in Rows : ProjectOfRow[r] = p}

\* The order of persistDashboardSnapshots: by rows, its ties left as they were.
Precedes(p, q) == Cardinality(RowsOf(p)) > Cardinality(RowsOf(q))

Chosen(limit, project) ==
  LET listed == {p \in Projects : RowsOf(p) # {}} IN
  {c \in SUBSET listed :
     \E most \in SUBSET listed :
       /\ Cardinality(most) = Lesser(limit, Cardinality(listed))
       /\ \A p \in most, q \in listed \ most : ~Precedes(q, p)
       /\ c = IF limit = 0 THEN {} ELSE most \cup ({project} \cap listed)}

Retention == 1

Dashboard(project, limit) ==
  /\ Counted
  /\ \E chosen \in Chosen(limit, project) :
       snaps' = {s \in snaps \cup {[scope |-> p, at |-> day] : p \in chosen \cup {Global}} :
                   s.at >= day - Retention}
  /\ asked' = IF limit = 0 THEN Global ELSE project
  /\ UNCHANGED <<config, table, day, runs, stored, lost, lastRun, wrote, damaged>>

Trend(scope, lookback) == {s \in snaps : s.scope = scope /\ s.at >= day - lookback}

\* The runs a scheduler has in memory.
Recent == {i \in DOMAIN runs : i > Len(runs) - config.history}

\* incrementOutcomeCounter for each of some runs since a day.
CountOutcomesSince(kept, since) ==
  LET within(outcomes) ==
        Cardinality({i \in kept : runs[i].at >= since /\ runs[i].outcome \in outcomes})
  IN  [total |-> within({"applied", "indexed", "dry-run-only", "skipped", "error"}),
       applied |-> within({"applied"}), idle |-> within({"dry-run-only", "indexed"}),
       skipped |-> within({"skipped"}), error |-> within({"error"})]

\* buildSloSnapshot for one window: from memory, if the history table is not kept or
\* cannot be read.
SloWindow(window, readFails) ==
  CountOutcomesSince(IF config.persists /\ ~readFails THEN stored ELSE Recent, day - window)

MaintNext ==
  \/ \E r \in Rows :
       \/ \E t \in {"short", "dense", "long", "torn"} : Store(r, PlainText(t))
       \/ Store(r, Envelope("long", "none"))
       \/ Rewrite(r)
       \/ \E harm \in {"checksum", "decode", "all"} : Corrupt(r, harm)
  \/ \E hour \in 0 .. 3, dryRunOnly, ingestErrors \in BOOLEAN, fails \in 0 .. RowCount + 1 :
       /\ config.kind = "self-healing" => ~ingestErrors
       /\ config.kind # "self-healing" => hour = 0
       /\ Run(hour, dryRunOnly, ingestErrors, fails)
  \/ Skip \/ NextDay
  \/ \E p \in Projects, limit \in 0 .. 1 : Dashboard(p, limit)

MaintSpec == MaintInit /\ [][MaintNext]_maintVars

-----------------------------------------------------------------------------
(***************************************************************************)
(* Properties.                                                             *)
(***************************************************************************)
MaintTypeOK ==
  /\ \A r \in Rows : table[r].form \in {"plain", "envelope"}
  /\ config.history \in 1 .. 3 /\ config.backfillLimit \in 1 .. RowCount
  /\ damaged \subseteq Rows /\ stored \cup lost \subseteq DOMAIN runs

\* Whatever is packed, backfilled and written back, a reader sees what was
\* written, unless the stored value went bad; and no operation damages a value
\* (compactContentForStorage, resurrectContentFromStorage,
\* backfillMemoryCompaction).  Two texts do not survive: half a surrogate pair,
\* and one that is an envelope.
ContentKept ==
  \A r \in Rows \ damaged :
    /\ Integrity(table[r]) \in {"plain", "none"}
    /\ (wrote[r].form = "plain" /\ wrote[r].text # "torn") => Resurrect(table[r]) = wrote[r]

\* A run packs rows only where it was asked to and everything clears it, in its
\* window of the day, of its project and within its limits, none that was packed;
\* and it says so, unless it failed half way.  Of the anomalies it knows those among
\* the rows it audits, the last accessed ones; the rows it packs may be others
\* (evaluateSelfHealingApplyDecision, evaluateSessionResurrectionApplyDecision,
\* auditMemoryResurrection, execute).
RunsCleared ==
  lastRun # NoRun =>
    LET bad  == {r \in Rows : lastRun.before[r].harm # "none"}
        mine == {r \in Rows : config.project = Global \/ ProjectOfRow[r] = config.project}
        open == (config.windowEnd - config.windowStart) % 4
    IN  /\ lastRun.outcome = "applied" => lastRun.packed # {}
        /\ lastRun.packed # {} =>
             /\ lastRun.outcome \in {"applied", "error"}
             /\ config.applyEnabled /\ ~lastRun.dryRunOnly /\ ~lastRun.ingestErrors
             /\ Cardinality(bad \cap Newest(config.project, config.auditLimit)) <= config.maxAnomalies
             /\ lastRun.packed \subseteq mine
             /\ \A r \in lastRun.packed : lastRun.before[r].form = "plain"
             /\ Cardinality(lastRun.packed) <= ApplyLimit
             /\ config.kind = "self-healing" =>
                  (open = 0 \/ (lastRun.hour - config.windowStart) % 4 < open)

\* The reports agree with what happened, although rows of the history fail to be
\* written, to be pruned and to be read.  A window's counts are those of exactly its
\* runs that have been written, while there are no more than the table keeps, and of
\* all of them when memory stands in, while there are no more than it keeps; the
\* table is behind memory by no more than the rows not written.  The trend holds a
\* snapshot of the project asked about as new as any, and none beyond retention
\* (persistRun, countOutcomesSince, buildSloSnapshot, persistDashboardSnapshots).
ReportsAgree ==
  /\ \A w \in Windows :
       LET since    == day - w
           happened == {i \in DOMAIN runs : runs[i].at >= since}
           memory   == CountOutcomesSince(Recent, since)
       IN  /\ config.persists =>
                /\ Cardinality(happened) <= config.persisted =>
                     SloWindow(w, FALSE) = CountOutcomesSince(DOMAIN runs \ lost, since)
                /\ memory.total <= SloWindow(w, FALSE).total + Cardinality(lost \cap happened)
           /\ Cardinality(happened) <= config.history =>
                SloWindow(w, TRUE) = CountOutcomesSince(DOMAIN runs, since)
  /\ snaps # {} =>
       LET newest == CHOOSE at \in {s.at : s \in snaps} : \A s \in snaps : s.at <= at
       IN  /\ \A s \in snaps : s.at >= newest - Retention
           /\ \E s \in Trend(Global, day - newest) : s.at = newest
           /\ RowsOf(asked) # {} => \E s \in snaps : s.scope = asked /\ s.at = newest

\* The schedulers write only when everything clears it, and their reports and the
\* dashboard's agree with what happened (the schedulers' execute, buildSloSnapshot).
RunsSound == RunsCleared /\ ReportsAgree
=============================================================================
