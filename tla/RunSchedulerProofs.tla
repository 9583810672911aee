------------------------- MODULE RunSchedulerProofs -------------------------
(***************************************************************************)
(* Proofs about RunScheduler, for every configuration, history limit,      *)
(* retention limit and number of runs, restarts and failing writes, in     *)
(* three parts: runs never overlap (OneRun) and a scheduler that is on     *)
(* always has its next run ahead of it (NeverStalls); the back-off is      *)
(* earned (BackoffEarned); types, and that what a restart would show       *)
(* agrees with memory (RestartAgrees).                                     *)
(***************************************************************************)
EXTENDS RunScheduler, FiniteSetTheorems, SequenceTheorems, TLAPS

(***************************************************************************)
(* ONE RUN AT A TIME, AND ALWAYS ANOTHER.  Neither is inductive alone:     *)
(* that the timer's callback never finds the scheduler off needs           *)
(* NeverStalls' second part, and that the run which ends is the one that   *)
(* keeps the scheduler alive needs OneRun.                                 *)
(***************************************************************************)

\* What the steps need to know of the types.
Shape ==
  /\ config \in Config
  /\ started \in BOOLEAN /\ running \in BOOLEAN
  /\ plan = [timer |-> plan.timer, next |-> plan.next, delay |-> plan.delay]
  /\ plan.timer \in BOOLEAN /\ plan.next \in BOOLEAN

IInv == Shape /\ OneRun /\ NeverStalls

\* scheduleNext arms the timer if the scheduler is on, and else leaves the plan.
LEMMA Scheduled ==
  ASSUME NEW p, NEW on \in BOOLEAN, NEW failures,
         p = [timer |-> p.timer, next |-> p.next, delay |-> p.delay],
         p.timer \in BOOLEAN, p.next \in BOOLEAN, config \in Config
  PROVE  LET q == ScheduleNext(p, on, failures)
         IN  /\ q = [timer |-> q.timer, next |-> q.next, delay |-> q.delay]
             /\ q.timer \in BOOLEAN /\ q.next \in BOOLEAN
             /\ on /\ config.enabled => q.timer
             /\ ~(on /\ config.enabled) => q = p
BY DEF ScheduleNext, Config

\* execute, called with plan p by a scheduler that is on or off, keeps runs apart;
\* it re-arms or has a run in progress re-arm if its caller asks for it, and
\* otherwise leaves the timer and the runs that will re-arm it.
LEMMA Executed ==
  ASSUME NEW p, NEW on \in BOOLEAN, NEW reschedule \in BOOLEAN,
         p = [timer |-> p.timer, next |-> p.next, delay |-> p.delay],
         p.timer \in BOOLEAN, p.next \in BOOLEAN,
         config \in Config, running \in BOOLEAN, OneRun,
         Execute(p, on, reschedule)
  PROVE  /\ running' \in BOOLEAN
         /\ plan' = [timer |-> plan'.timer, next |-> plan'.next, delay |-> plan'.delay]
         /\ plan'.timer \in BOOLEAN /\ plan'.next \in BOOLEAN
         /\ OneRun'
         /\ flight \subseteq flight'
         /\ reschedule /\ on /\ config.enabled
              => plan'.timer \/ \E r \in flight' : r.reschedule
         /\ p.timer => plan'.timer
         /\ plan'.timer => p.timer \/ (on /\ config.enabled)
         /\ plan'.next => plan'.timer \/ (p.next /\ ~p.timer)
<1>1. CASE /\ running
           /\ plan' = IF reschedule THEN ScheduleNext(p, on, status'.failures) ELSE p
           /\ UNCHANGED <<running, flight>>
  BY <1>1, Scheduled DEF OneRun, ScheduleNext, Config
<1>2. CASE /\ ~running /\ running' = TRUE
           /\ flight' = flight \cup {[id |-> serial + 1, reschedule |-> reschedule]}
           /\ plan' = [p EXCEPT !.next = FALSE]
  <2>1. plan' = [timer |-> p.timer, next |-> FALSE, delay |-> p.delay]
    BY <1>2
  <2>2. flight = {} /\ flight' = {[id |-> serial + 1, reschedule |-> reschedule]}
    BY <1>2 DEF OneRun
  <2>3. OneRun' /\ (reschedule => \E r \in flight' : r.reschedule)
    BY <1>2, <2>2 DEF OneRun
  <2>. QED  BY <1>2, <2>1, <2>2, <2>3
<1>. QED  BY <1>1, <1>2 DEF Execute

\* A new scheduler is off and has no run.
LEMMA SchedulerInit == Init => IInv
<1>. SUFFICES ASSUME Init PROVE IInv
  OBVIOUS
<1>1. Shape
  BY SchedulerAssumption DEF Init, Shape, Unplanned
<1>2. OneRun
  BY DEF Init, OneRun
<1>3. NeverStalls
  BY DEF Init, NeverStalls, Unplanned
<1>. QED  BY <1>1, <1>2, <1>3 DEF IInv

\* Start: the first run of a scheduler is armed, in progress, or made a skipped
\* run that arms the next.
LEMMA StartStep == ASSUME IInv, Start PROVE IInv'
<1>. USE DEF IInv, Shape
<1>1. config' = config /\ started' = TRUE /\ ~started /\ config.enabled \in BOOLEAN
  BY DEF Start, Config
<1>2. ~plan.timer /\ ~plan.next
  BY <1>1 DEF NeverStalls
<1>3. CASE config.enabled /\ Execute(plan, TRUE, TRUE)
  BY <1>1, <1>2, <1>3, Executed DEF NeverStalls
<1>4. CASE /\ plan' = ScheduleNext(plan, TRUE, status.failures)
           /\ UNCHANGED <<running, flight>>
  BY <1>1, <1>2, <1>4, Scheduled DEF NeverStalls, OneRun, ScheduleNext
<1>. QED  BY <1>3, <1>4 DEF Start

\* Stop and a restart leave no timer.
LEMMA OffStep == ASSUME IInv, Stop \/ Restart PROVE IInv'
<1>1. Shape'
  <2>1. config' = config /\ started' = FALSE /\ plan' = Unplanned
    BY DEF Stop, Restart
  <2>2. running' = running \/ running' = FALSE
    BY DEF Stop, Restart
  <2>. QED  BY <2>1, <2>2 DEF IInv, Shape, Unplanned
<1>2. OneRun'
  <2>1. CASE Stop
    BY <2>1 DEF IInv, OneRun, Stop
  <2>2. CASE Restart
    BY <2>2 DEF OneRun, Restart
  <2>. QED  BY <2>1, <2>2
<1>3. NeverStalls'
  BY DEF NeverStalls, Stop, Restart, Unplanned
<1>. QED  BY <1>1, <1>2, <1>3 DEF IInv

\* The timer's callback belongs to a scheduler that is on, and re-arms.
LEMMA FireStep == ASSUME IInv, Fire PROVE IInv'
<1>. DEFINE p == Fired
<1>1. p = [timer |-> FALSE, next |-> plan.next, delay |-> plan.delay]
  BY DEF Fired
<1>. HIDE DEF p
<1>2. UNCHANGED <<config, started>> /\ started /\ config.enabled
  BY DEF IInv, Fire, NeverStalls
<1>3. Execute(p, started, TRUE)
  BY DEF Fire, p
<1>4. CASE running
  BY <1>1, <1>2, <1>3, <1>4, Executed DEF IInv, Shape, NeverStalls, Execute, ScheduleNext
<1>5. CASE ~running
  <2>1. /\ running' = TRUE /\ plan' = [p EXCEPT !.next = FALSE]
        /\ flight' = flight \cup {[id |-> serial + 1, reschedule |-> TRUE]}
    BY <1>3, <1>5 DEF Execute
  <2>2. plan' = [timer |-> FALSE, next |-> FALSE, delay |-> plan.delay]
    BY <1>1, <2>1
  <2>3. flight = {}
    BY <1>5 DEF IInv, OneRun
  <2>4. Shape'
    <3>1. plan'.timer = FALSE /\ plan'.next = FALSE /\ plan'.delay = plan.delay
      BY <2>2
    <3>2. plan' = [timer |-> plan'.timer, next |-> plan'.next, delay |-> plan'.delay]
      BY <2>2, <3>1
    <3>3. config \in Config
      BY DEF IInv, Shape
    <3>. QED  BY <1>2, <2>1, <3>1, <3>2, <3>3 DEF Shape
  <2>5. OneRun'
    <3>1. PICK run : flight' = {run}
      BY <2>1, <2>3
    <3>2. running' = TRUE /\ flight' # {} /\ \A r, q \in flight' : r = q
      <4>1. running' = TRUE
        BY <2>1
      <4>. QED  BY <3>1, <4>1
    <3>. QED  BY <3>2 DEF OneRun
  <2>6. NeverStalls'
    <3>1. \E r \in flight' : r.reschedule
      <4>. DEFINE new == [id |-> serial + 1, reschedule |-> TRUE]
      <4>1. new \in flight' /\ new.reschedule = TRUE
        BY <2>1
      <4>. HIDE DEF new
      <4>. QED  BY <4>1, Zenon
    <3>2. plan'.timer = FALSE /\ plan'.next = FALSE
      BY <2>2
    <3>. QED  BY <3>1, <3>2, Zenon DEF NeverStalls
  <2>. QED  BY <2>4, <2>5, <2>6 DEF IInv
<1>. QED  BY <1>4, <1>5 DEF IInv, Shape

\* A manual run leaves the timer as it is.
LEMMA TriggerStep == ASSUME IInv, TriggerNow PROVE IInv'
<1>1. UNCHANGED <<config, started>> /\ Execute(plan, started, FALSE)
  BY DEF TriggerNow
<1>2. /\ running' \in BOOLEAN /\ OneRun' /\ flight \subseteq flight'
      /\ plan' = [timer |-> plan'.timer, next |-> plan'.next, delay |-> plan'.delay]
      /\ plan'.next \in BOOLEAN
      /\ plan.timer => plan'.timer
      /\ plan'.next => plan'.timer \/ (plan.next /\ ~plan.timer)
  BY <1>1, Executed DEF IInv, Shape
<1>3. plan'.timer = plan.timer
  BY <1>1 DEF IInv, Shape, Execute
<1>. QED  BY <1>1, <1>2, <1>3 DEF IInv, Shape, NeverStalls

\* A run that ends is the only one; if it was to re-arm, it does.
LEMMA FinishStep ==
  ASSUME IInv, NEW r \in flight, NEW outcome, Finish(r, outcome) PROVE IInv'
<1>1. UNCHANGED <<config, started>> /\ flight' = {} /\ running' = FALSE
  BY DEF IInv, OneRun, Finish
<1>2. CASE r.reschedule
  <2>1. plan' = ScheduleNext(plan, started, status'.failures)
    BY <1>2 DEF Finish
  <2>. QED  BY <1>1, <2>1, Scheduled DEF IInv, Shape, OneRun, NeverStalls, ScheduleNext
<1>3. CASE ~r.reschedule
  <2>1. plan' = plan /\ \A q \in flight : ~q.reschedule
    BY <1>3 DEF IInv, OneRun, Finish
  <2>. QED  BY <1>1, <2>1 DEF IInv, Shape, OneRun, NeverStalls
<1>. QED  BY <1>2, <1>3

\* Every step keeps the invariant.
LEMMA SchedulerNext == IInv /\ [Next]_vars => IInv'
<1>. SUFFICES ASSUME IInv, [Next]_vars PROVE IInv'
  OBVIOUS
<1>1. CASE UNCHANGED vars
  BY <1>1 DEF vars, IInv, Shape, OneRun, NeverStalls
<1>. QED
  BY <1>1, StartStep, OffStep, FireStep, TriggerStep, FinishStep DEF Next

\* In every reachable state of every configuration, runs do not overlap and the
\* running flag says whether there is one.
THEOREM RunsDoNotOverlap == Spec => []OneRun
<1>1. IInv => OneRun
  BY DEF IInv
<1>. QED  BY <1>1, SchedulerInit, SchedulerNext, PTL DEF Spec

\* In every reachable state of every configuration, a scheduler that is on has a
\* timer armed or a run in progress that will arm it, and one that is off has none.
THEOREM SchedulerNeverStalls == Spec => []NeverStalls
<1>1. IInv => NeverStalls
  BY DEF IInv
<1>. QED  BY <1>1, SchedulerInit, SchedulerNext, PTL DEF Spec

-----------------------------------------------------------------------------
(***************************************************************************)
(* THE BACK-OFF.  What a new process makes of the table is bounded by the  *)
(* errors after the table's last success: pruning drops only the oldest    *)
(* rows, so that it moves no error after a success it came before; and the *)
(* code counts in its sorted list only errors that no success is above.    *)
(* That list holds each row at its rank, which is where distinct run       *)
(* numbers matter.                                                         *)
(***************************************************************************)

\* The rows that started after r.
Later(rows, r) == {q \in rows : q.id > r.id}

\* The errors after every success.
After(rows) ==
  {r \in rows : r.outcome = "error" /\ \A q \in rows : q.outcome = "success" => q.id < r.id}

Distinct(rows) == \A r, q \in rows : r.id = q.id => r = q

Rows(rows) == IsFiniteSet(rows) /\ rows \subseteq Run /\ Distinct(rows)

-----------------------------------------------------------------------------
(***************************************************************************)
(* The table as a list: Descending and Leading.                            *)
(***************************************************************************)

\* The later of two rows has fewer rows after it.
LEMMA LaterIsFewer ==
  ASSUME NEW S, Rows(S), NEW r \in S, NEW q \in S
  PROVE  /\ Cardinality(Later(S, r)) \in Nat
         /\ q.id > r.id => Cardinality(Later(S, q)) < Cardinality(Later(S, r))
<1>1. IsFiniteSet(Later(S, r)) /\ IsFiniteSet(Later(S, q))
  BY FS_Subset DEF Rows, Later
<1>2. Cardinality(Later(S, r)) \in Nat /\ Cardinality(Later(S, q)) \in Nat
  BY <1>1, FS_CardinalityType
<1>3. ASSUME q.id > r.id PROVE Cardinality(Later(S, q)) < Cardinality(Later(S, r))
  <2>0. r \in Run /\ q \in Run /\ \A x \in S : x.id \in Nat
    BY DEF Rows, Run
  <2>1. Later(S, q) \in SUBSET Later(S, r)
    BY <1>3, <2>0 DEF Later, Run
  <2>2. q \in Later(S, r) /\ q \notin Later(S, q)
    BY <1>3, <2>0 DEF Later, Run
  <2>3. /\ Cardinality(Later(S, q)) <= Cardinality(Later(S, r))
        /\ Cardinality(Later(S, r)) # Cardinality(Later(S, q))
    BY <1>1, <2>1, <2>2, FS_Subset
  <2>. QED  BY <1>2, <2>3
<1>. QED  BY <1>2, <1>3

\* The rows have the ranks 0 to their number less one, each row its own.
LEMMA Ranks ==
  ASSUME NEW S, Rows(S)
  PROVE  /\ \A r, q \in S : Cardinality(Later(S, r)) = Cardinality(Later(S, q)) => r = q
         /\ \A i \in 1 .. Cardinality(S) : \E r \in S : Cardinality(Later(S, r)) = i - 1
         /\ \A r \in S : Cardinality(Later(S, r)) + 1 \in 1 .. Cardinality(S)
<1>. DEFINE n == Cardinality(S)
<1>. DEFINE rank == [r \in S |-> Cardinality(Later(S, r)) + 1]
<1>1. IsFiniteSet(S) /\ n \in Nat
  BY FS_CardinalityType DEF Rows
<1>2. ASSUME NEW r \in S PROVE Cardinality(Later(S, r)) + 1 \in 1 .. n
  <2>1. Later(S, r) \in SUBSET S /\ r \notin Later(S, r)
    BY DEF Later, Rows, Run
  <2>2. Cardinality(Later(S, r)) \in Nat
    BY LaterIsFewer
  <2>3. Cardinality(Later(S, r)) <= n /\ Cardinality(Later(S, r)) # n
    BY <1>1, <2>1, FS_Subset
  <2>. QED  BY <1>1, <2>2, <2>3
<1>3. ASSUME NEW r \in S, NEW q \in S, Cardinality(Later(S, r)) = Cardinality(Later(S, q))
      PROVE  r = q
  <2>1. r.id \in Nat /\ q.id \in Nat
    BY DEF Rows, Run
  <2>2. ~(q.id > r.id) /\ ~(r.id > q.id)
    BY <1>3, LaterIsFewer
  <2>3. r.id = q.id
    BY <2>1, <2>2
  <2>. QED  BY <2>3 DEF Rows, Distinct
<1>4. rank \in Injection(S, 1 .. n)
  <2>1. rank \in [S -> 1 .. n]
    BY <1>2
  <2>2. \A r, q \in S : rank[r] = rank[q] => r = q
    <3>1. \A r \in S : rank[r] = Cardinality(Later(S, r)) + 1 /\ Cardinality(Later(S, r)) \in Nat
      BY LaterIsFewer
    <3>2. \A x, y \in Nat : x + 1 = y + 1 => x = y
      OBVIOUS
    <3>. QED  BY <1>3, <3>1, <3>2
  <2>. QED  BY <2>1, <2>2 DEF Injection, IsInjective
<1>5. IsFiniteSet(1 .. n) /\ Cardinality(1 .. n) = n
  BY <1>1, FS_Interval
<1>. HIDE DEF n
<1>6. rank \in Surjection(S, 1 .. n)
  BY <1>4, <1>5, FS_Injection DEF n
<1>7. \A i \in 1 .. n : \E r \in S : rank[r] = i
  BY <1>6 DEF Surjection
<1>8. ASSUME NEW i \in 1 .. n PROVE \E r \in S : Cardinality(Later(S, r)) = i - 1
  <2>1. PICK r \in S : Cardinality(Later(S, r)) + 1 = i
    BY <1>7
  <2>2. Cardinality(Later(S, r)) \in Nat
    BY LaterIsFewer
  <2>. QED  BY <2>1, <2>2
<1>. QED  BY <1>2, <1>3, <1>8 DEF n

\* The i-th of the sorted list is the row of rank i - 1.
LEMMA Sorted ==
  ASSUME NEW S, Rows(S)
  PROVE  /\ DOMAIN Descending(S) = 1 .. Cardinality(S)
         /\ \A i \in 1 .. Cardinality(S) :
              Descending(S)[i] \in S /\ Cardinality(Later(S, Descending(S)[i])) = i - 1
<1>1. DOMAIN Descending(S) = 1 .. Cardinality(S)
  BY DEF Descending
<1>2. ASSUME NEW i \in 1 .. Cardinality(S)
      PROVE  Descending(S)[i] \in S /\ Cardinality(Later(S, Descending(S)[i])) = i - 1
  <2>1. \E r \in S : Cardinality(Later(S, r)) = i - 1
    BY Ranks
  <2>2. Descending(S)[i] = CHOOSE r \in S : Cardinality(Later(S, r)) = i - 1
    BY DEF Descending, Later
  <2>. QED  BY <2>1, <2>2
<1>. QED  BY <1>1, <1>2

\* The failures hydratePersistedState counts are errors after every success of
\* the rows it read.
LEMMA LeadingBounded ==
  ASSUME NEW S, Rows(S)
  PROVE  /\ IsFiniteSet(After(S))
         /\ Leading(Descending(S)) \in Nat
         /\ Leading(Descending(S)) <= Cardinality(After(S))
<1>. DEFINE runs == Descending(S)
<1>. DEFINE I == {i \in DOMAIN runs : runs[i].outcome = "error"
                    /\ \A j \in 1 .. i : runs[j].outcome # "success"}
<1>1. IsFiniteSet(After(S))
  BY FS_Subset DEF Rows, After
<1>2. Cardinality(S) \in Nat
  BY FS_CardinalityType DEF Rows
<1>3. /\ DOMAIN runs = 1 .. Cardinality(S)
      /\ \A i \in 1 .. Cardinality(S) : runs[i] \in S /\ Cardinality(Later(S, runs[i])) = i - 1
  BY Sorted
<1>4. Leading(runs) = Cardinality(I)
  BY DEF Leading
<1>. HIDE DEF runs
<1>5. ASSUME NEW i \in I PROVE runs[i] \in After(S)
  <2>1. i \in 1 .. Cardinality(S) /\ runs[i] \in S /\ runs[i].outcome = "error"
    BY <1>3
  <2>2. ASSUME NEW q \in S, q.outcome = "success" PROVE q.id < runs[i].id
    <3>1. q.id \in Nat /\ runs[i].id \in Nat
      BY <2>1 DEF Rows, Run
    <3>2. q.id # runs[i].id
      BY <2>1, <2>2 DEF Rows, Distinct
    <3>3. ASSUME q.id > runs[i].id PROVE FALSE
      <4>. DEFINE k == Cardinality(Later(S, q))
      <4>1. k \in Nat /\ k + 1 \in 1 .. Cardinality(S)
        BY LaterIsFewer, Ranks
      <4>2. Cardinality(Later(S, runs[k + 1])) = k /\ runs[k + 1] \in S
        BY <1>3, <4>1
      <4>3. runs[k + 1] = q
        BY <4>2, Ranks
      <4>4. k < Cardinality(Later(S, runs[i]))
        BY <2>1, <3>3, LaterIsFewer
      <4>5. Cardinality(Later(S, runs[i])) = i - 1
        BY <1>3, <2>1
      <4>6. k + 1 \in 1 .. i
        <5>. HIDE DEF k
        <5>. QED  BY <1>2, <2>1, <4>1, <4>4, <4>5
      <4>. QED  BY <2>2, <4>3, <4>6
    <3>. QED  BY <3>1, <3>2, <3>3
  <2>. QED  BY <2>1, <2>2 DEF After
<1>6. [i \in I |-> runs[i]] \in Injection(I, After(S))
  <2>1. ASSUME NEW i \in I, NEW j \in I, runs[i] = runs[j] PROVE i = j
    <3>1. i \in 1 .. Cardinality(S) /\ j \in 1 .. Cardinality(S)
      BY <1>3
    <3>2. i - 1 = j - 1
      BY <1>3, <2>1, <3>1
    <3>. QED  BY <1>2, <3>1, <3>2
  <2>. QED  BY <1>5, <2>1 DEF Injection, IsInjective
<1>. HIDE DEF I
<1>7. IsFiniteSet(I) /\ Cardinality(I) <= Cardinality(After(S))
  BY <1>1, <1>6, FS_Injection
<1>8. Cardinality(I) \in Nat
  BY <1>7, FS_CardinalityType
<1>. QED  BY <1>1, <1>4, <1>7, <1>8 DEF runs
-----------------------------------------------------------------------------
(***************************************************************************)
(* The table: pruning and persistRun.                                      *)
(***************************************************************************)

\* Pruning brings no error after the last success.
LEMMA PrunedFairly ==
  ASSUME NEW S, Rows(S), NEW n \in Nat
  PROVE  /\ Rows(Newest(S, n)) /\ Newest(S, n) \subseteq S
         /\ Cardinality(After(Newest(S, n))) \in Nat
         /\ Cardinality(After(S)) \in Nat
         /\ Cardinality(After(Newest(S, n))) <= Cardinality(After(S))
<1>. DEFINE N == Newest(S, n)
<1>1. N \in SUBSET S /\ \A r \in S : r \in N <=> Cardinality(Later(S, r)) < n
  BY DEF Newest, Later
<1>. HIDE DEF N
<1>2. Rows(N)
  BY <1>1, FS_Subset DEF Rows, Distinct
<1>3. ASSUME NEW r \in After(N) PROVE r \in After(S)
  <2>1. r \in N /\ r \in S /\ r.outcome = "error" /\ r.id \in Nat
    BY <1>1, <1>3 DEF After, Rows, Run
  <2>2. ASSUME NEW q \in S, q.outcome = "success" PROVE q.id < r.id
    <3>1. q.id \in Nat /\ q.id # r.id
      BY <2>1, <2>2 DEF Rows, Run, Distinct
    <3>2. CASE q \in N
      BY <1>3, <2>2, <3>2 DEF After
    <3>3. CASE q \notin N
      <4>1. /\ Cardinality(Later(S, r)) \in Nat /\ Cardinality(Later(S, q)) \in Nat
            /\ q.id > r.id => Cardinality(Later(S, q)) < Cardinality(Later(S, r))
        BY <2>1, LaterIsFewer
      <4>2. Cardinality(Later(S, r)) < n /\ ~(Cardinality(Later(S, q)) < n)
        BY <1>1, <2>1, <3>3
      <4>3. ~(q.id > r.id)
        BY <4>1, <4>2
      <4>. QED  BY <2>1, <3>1, <4>3
    <3>. QED  BY <3>2, <3>3
  <2>. QED  BY <2>1, <2>2 DEF After
<1>4. IsFiniteSet(After(S)) /\ After(N) \in SUBSET After(S)
  BY <1>3, FS_Subset DEF Rows, After
<1>5. IsFiniteSet(After(N)) /\ Cardinality(After(N)) <= Cardinality(After(S))
  BY <1>4, FS_Subset
<1>6. Cardinality(After(N)) \in Nat /\ Cardinality(After(S)) \in Nat
  BY <1>4, <1>5, FS_CardinalityType
<1>. QED  BY <1>1, <1>2, <1>5, <1>6 DEF N

\* A run that ended after every run of the rows: an error is one more after the
\* last success, after a success there is none, and a skipped run changes nothing.
LEMMA Extended ==
  ASSUME NEW S, Rows(S), NEW run \in Run,
         \A q \in S : q.id # run.id,
         run.outcome # "skipped" => \A q \in S : q.outcome # "skipped" => q.id < run.id
  PROVE  /\ Rows(S \cup {run})
         /\ run.outcome = "error" => Cardinality(After(S \cup {run})) <= Cardinality(After(S)) + 1
         /\ run.outcome = "success" => Cardinality(After(S \cup {run})) = 0
         /\ run.outcome = "skipped" => Cardinality(After(S \cup {run})) <= Cardinality(After(S))
<1>. DEFINE T == S \cup {run}
<1>1. Rows(T)
  BY FS_AddElement DEF Rows, Distinct
<1>2. IsFiniteSet(After(S)) /\ Cardinality(After(S)) \in Nat
  BY FS_Subset, FS_CardinalityType DEF Rows, After
<1>3. After(T) \subseteq After(S) \cup {run}
  BY DEF After
<1>4. CASE run.outcome = "error"
  <2>1. /\ IsFiniteSet(After(S) \cup {run})
        /\ Cardinality(After(S) \cup {run}) <= Cardinality(After(S)) + 1
        /\ Cardinality(After(S) \cup {run}) \in Nat
    <3>. DEFINE A == After(S)
    <3>1. /\ IsFiniteSet(A \cup {run})
          /\ Cardinality(A \cup {run}) = Cardinality(A) \/ Cardinality(A \cup {run}) = Cardinality(A) + 1
      <4>. HIDE DEF A
      <4>. QED  BY <1>2, FS_AddElement DEF A
    <3>. HIDE DEF A
    <3>. QED  BY <1>2, <3>1 DEF A
  <2>2. After(T) \in SUBSET (After(S) \cup {run})
    BY <1>3
  <2>3. /\ IsFiniteSet(After(T))
        /\ Cardinality(After(T)) <= Cardinality(After(S) \cup {run})
    BY <2>1, <2>2, FS_Subset
  <2>4. Cardinality(After(T)) \in Nat
    BY <2>3, FS_CardinalityType
  <2>5. Cardinality(After(T)) <= Cardinality(After(S)) + 1
    BY <1>2, <2>1, <2>3, <2>4
  <2>. QED  BY <1>1, <1>4, <2>5
<1>5. CASE run.outcome = "success"
  <2>1. After(T) = {}
    <3>. SUFFICES ASSUME NEW r \in After(T) PROVE FALSE
      OBVIOUS
    <3>1. r \in S /\ r.outcome = "error" /\ run.id < r.id
      BY <1>5 DEF After
    <3>2. r.id < run.id
      BY <1>5, <3>1
    <3>3. r.id \in Nat /\ run.id \in Nat
      BY <3>1 DEF Rows, Run
    <3>. QED  BY <3>1, <3>2, <3>3
  <2>2. Cardinality(After(T)) = 0
    BY <2>1, FS_EmptySet
  <2>. QED  BY <1>1, <1>5, <2>2
<1>6. CASE run.outcome = "skipped"
  <2>1. After(T) \in SUBSET After(S)
    BY <1>3, <1>6 DEF After
  <2>2. Cardinality(After(T)) <= Cardinality(After(S))
    BY <1>2, <2>1, FS_Subset
  <2>. QED  BY <1>1, <1>6, <2>2
<1>. QED  BY <1>1, <1>4, <1>5, <1>6 DEF Run, Outcome

-----------------------------------------------------------------------------
(***************************************************************************)
(* The invariant.                                                          *)
(***************************************************************************)
Typed ==
  /\ serial \in Nat /\ streak \in Nat /\ lost \in BOOLEAN /\ status.failures \in Nat
  /\ flight \subseteq [id : Nat, reschedule : BOOLEAN]
  /\ Rows(table)

\* Numbers are given in order; the run in progress is later than every run that
\* was not skipped.
Ordered ==
  /\ \A q \in table : q.id <= serial
  /\ \A r \in flight : r.id <= serial
  /\ \A r \in flight, q \in table : q.id # r.id /\ (q.outcome # "skipped" => q.id < r.id)

\* The table does not show more failures in a row than there were.
Recorded == config.persistHistory /\ ~lost => Cardinality(After(table)) <= streak

BInv == IInv /\ Typed /\ Ordered /\ Recorded /\ BackoffEarned

\* pushRun and persistRun of a run later than those it must be later than.
LEMMA PushStep ==
  ASSUME Typed, Recorded, BackoffEarned, config' = config, NEW run \in Run, Push(run),
         \A q \in table : q.id # run.id,
         run.outcome # "skipped" => \A q \in table : q.outcome # "skipped" => q.id < run.id
  PROVE  /\ streak' \in Nat /\ lost' \in BOOLEAN /\ status'.failures \in Nat /\ Rows(table')
         /\ \A q \in table' : q \in table \/ q = run
         /\ Recorded' /\ BackoffEarned'
<1>1. status'.failures = Failures(status.failures, run.outcome)
  BY DEF Push, Pushed
<1>2. run.outcome \in {"success", "error", "skipped"}
  BY DEF Run, Outcome
<1>3. /\ run.outcome = "error" => status'.failures = status.failures + 1 /\ streak' = streak + 1
      /\ run.outcome = "success" => status'.failures = 0 /\ streak' = 0
      /\ run.outcome = "skipped" => status'.failures = status.failures /\ streak' = streak
  BY <1>1, <1>2 DEF Push, Failures
<1>4. lost => lost'
  BY DEF Push, Persist
<1>5. streak' \in Nat /\ lost' \in BOOLEAN /\ status'.failures \in Nat
  <2>1. lost' \in BOOLEAN
    BY DEF Typed, Push, Persist
  <2>. QED  BY <1>2, <1>3, <2>1 DEF Typed
<1>6. BackoffEarned'
  BY <1>2, <1>3, <1>4 DEF Typed, BackoffEarned
<1>7. CASE table' = Newest(table \cup {run}, RetentionLimit) /\ UNCHANGED lost
  <2>. DEFINE T == table \cup {run}
  <2>1. /\ Rows(T)
        /\ run.outcome = "error" => Cardinality(After(T)) <= Cardinality(After(table)) + 1
        /\ run.outcome = "success" => Cardinality(After(T)) = 0
        /\ run.outcome = "skipped" => Cardinality(After(T)) <= Cardinality(After(table))
    BY Extended DEF Typed
  <2>. HIDE DEF T
  <2>2. /\ Rows(table') /\ table' \subseteq T
        /\ Cardinality(After(table')) \in Nat /\ Cardinality(After(T)) \in Nat
        /\ Cardinality(After(table')) <= Cardinality(After(T))
    BY <1>7, <2>1, PrunedFairly, SchedulerAssumption DEF T
  <2>3. Cardinality(After(table)) \in Nat
    BY PrunedFairly, SchedulerAssumption DEF Typed
  <2>4. Cardinality(After(table)) <= streak => Cardinality(After(table')) <= streak'
    BY <1>2, <1>3, <2>1, <2>2, <2>3 DEF Typed
  <2>5. Recorded'
    BY <1>7, <2>4 DEF Recorded
  <2>. QED  BY <1>5, <1>6, <2>2, <2>5 DEF T
<1>8. CASE (~config.persistHistory \/ lost' = TRUE) /\ UNCHANGED table
  BY <1>5, <1>6, <1>8 DEF Typed, Recorded
<1>. QED  BY <1>7, <1>8 DEF Push, Persist

\* execute: a run that is skipped is later than all, a run that begins too.
LEMMA ExecuteStep ==
  ASSUME BInv, config' = config, NEW p, NEW on, NEW reschedule \in BOOLEAN, Execute(p, on, reschedule)
  PROVE  Typed' /\ Ordered' /\ Recorded' /\ BackoffEarned'
<1>. DEFINE new == serial + 1
<1>1. new \in Nat /\ serial' = new /\ serial <= new /\ ~(new <= serial)
  BY DEF Execute, BInv, Typed
<1>2. \A q \in table : q.id \in Nat /\ q.id <= new /\ q.id # new /\ q.id < new
  BY <1>1 DEF BInv, Ordered, Typed, Rows, Run
<1>3. \A r \in flight : r.id \in Nat /\ r.id <= new /\ r.id # new
  BY <1>1 DEF BInv, Ordered, Typed
<1>. DEFINE run == [id |-> new, outcome |-> "skipped"]
<1>4. CASE Push(run) /\ UNCHANGED flight
  <2>1. run \in Run /\ run.outcome = "skipped" /\ run.id = new
    BY <1>1 DEF Run, Outcome
  <2>. HIDE DEF run
  <2>2. /\ streak' \in Nat /\ lost' \in BOOLEAN /\ status'.failures \in Nat /\ Rows(table')
        /\ \A q \in table' : q \in table \/ q = run
        /\ Recorded' /\ BackoffEarned'
    BY <1>2, <1>4, <2>1, PushStep DEF BInv
  <2>3. Typed'
    BY <1>1, <1>4, <2>2 DEF Typed, BInv
  <2>4. Ordered'
    BY <1>1, <1>2, <1>3, <1>4, <2>1, <2>2 DEF Ordered, BInv
  <2>. QED  BY <2>2, <2>3, <2>4
<1>5. CASE /\ ~running /\ flight' = flight \cup {[id |-> new, reschedule |-> reschedule]}
           /\ UNCHANGED <<status, table, streak, lost>>
  <2>1. flight' = {[id |-> new, reschedule |-> reschedule]}
    BY <1>5 DEF BInv, IInv, OneRun
  <2>2. Typed'
    BY <1>1, <1>5, <2>1 DEF Typed, BInv
  <2>3. Ordered'
    BY <1>1, <1>2, <1>5, <2>1 DEF Ordered
  <2>4. Recorded' /\ BackoffEarned'
    BY <1>5 DEF BInv, Recorded, BackoffEarned
  <2>. QED  BY <2>2, <2>3, <2>4
<1>. QED  BY <1>4, <1>5 DEF Execute

\* The run that ends is the only one in progress.
LEMMA FinishRecorded ==
  ASSUME BInv, NEW r \in flight, NEW outcome \in {"success", "error"}, Finish(r, outcome)
  PROVE  Typed' /\ Ordered' /\ Recorded' /\ BackoffEarned'
<1>. DEFINE run == [id |-> r.id, outcome |-> outcome]
<1>1. r.id \in Nat /\ flight' = {} /\ UNCHANGED <<config, serial>> /\ Push(run)
  BY DEF Finish, BInv, IInv, OneRun, Typed
<1>2. run \in Run /\ run.id = r.id
  BY <1>1 DEF Run, Outcome
<1>3. /\ \A q \in table : q.id # run.id
      /\ \A q \in table : q.outcome # "skipped" => q.id < run.id
      /\ run.id <= serial
  BY <1>2 DEF BInv, Ordered
<1>. HIDE DEF run
<1>4. /\ streak' \in Nat /\ lost' \in BOOLEAN /\ status'.failures \in Nat /\ Rows(table')
      /\ \A q \in table' : q \in table \/ q = run
      /\ Recorded' /\ BackoffEarned'
  BY <1>1, <1>2, <1>3, PushStep DEF BInv
<1>5. Typed'
  BY <1>1, <1>4 DEF Typed, BInv
<1>6. Ordered'
  BY <1>1, <1>3, <1>4 DEF Ordered, BInv
<1>. QED  BY <1>4, <1>5, <1>6

\* What a new process takes from the table is no more than the failures in a row.
LEMMA RestartRecorded ==
  ASSUME BInv, Restart PROVE Typed' /\ Ordered' /\ Recorded' /\ BackoffEarned'
<1>1. flight' = {} /\ UNCHANGED <<config, table, serial, streak, lost>>
  BY DEF Restart
<1>. DEFINE N == Newest(table, HistoryLimit)
<1>2. CASE config.persistHistory
  <2>1. status'.failures = Leading(Descending(N))
    BY <1>2 DEF Restart, Hydrated
  <2>2. /\ Rows(N) /\ Cardinality(After(N)) \in Nat /\ Cardinality(After(table)) \in Nat
        /\ Cardinality(After(N)) <= Cardinality(After(table))
    BY PrunedFairly, SchedulerAssumption DEF BInv, Typed
  <2>. HIDE DEF N
  <2>3. Leading(Descending(N)) \in Nat /\ Leading(Descending(N)) <= Cardinality(After(N))
    BY <2>2, LeadingBounded
  <2>4. status'.failures \in Nat
    BY <2>1, <2>3
  <2>5. ~lost => Cardinality(After(table)) <= streak
    BY <1>2 DEF BInv, Recorded
  <2>6. BackoffEarned'
    BY <1>1, <2>1, <2>2, <2>3, <2>5 DEF BackoffEarned, BInv, Typed
  <2>. QED  BY <1>1, <2>4, <2>6 DEF BInv, Typed, Ordered, Recorded
<1>3. CASE ~config.persistHistory
  <2>1. status'.failures = 0
    BY <1>3 DEF Restart, Fresh
  <2>. QED  BY <1>1, <2>1 DEF BInv, Typed, Ordered, Recorded, BackoffEarned
<1>. QED  BY <1>2, <1>3

\* Nothing has failed at the start.
LEMMA BackoffInit == Init => BInv
<1>. SUFFICES ASSUME Init PROVE BInv
  OBVIOUS
<1>1. IInv
  BY SchedulerInit
<1>2. table = {} /\ flight = {} /\ status.failures = 0 /\ serial = 0 /\ streak = 0 /\ lost = FALSE
  BY DEF Init, Fresh
<1>3. After(table) = {} /\ Cardinality(After(table)) = 0 /\ Rows(table)
  BY <1>2, FS_EmptySet DEF After, Rows, Distinct
<1>4. Typed
  <2>1. lost \in BOOLEAN
    BY <1>2, Zenon
  <2>2. serial \in Nat /\ streak \in Nat /\ status.failures \in Nat
    BY <1>2
  <2>3. flight \subseteq [id : Nat, reschedule : BOOLEAN]
    BY <1>2
  <2>. QED  BY <1>3, <2>1, <2>2, <2>3 DEF Typed
<1>5. Ordered /\ Recorded /\ BackoffEarned
  BY <1>2, <1>3 DEF Ordered, Recorded, BackoffEarned
<1>. QED  BY <1>1, <1>4, <1>5 DEF BInv

\* Every step keeps what a backoff was earned by.
LEMMA BackoffNext == BInv /\ [Next]_vars => BInv'
<1>. SUFFICES ASSUME BInv, [Next]_vars PROVE BInv'
  OBVIOUS
<1>1. IInv'
  BY SchedulerNext DEF BInv
<1>2. CASE UNCHANGED <<config, flight, status, table, serial, streak, lost>>
  BY <1>1, <1>2 DEF BInv, Typed, Ordered, Recorded, BackoffEarned
<1>3. CASE config' = config /\ (Execute(plan, TRUE, TRUE) \/ Execute(Fired, started, TRUE)
                                \/ Execute(plan, started, FALSE))
  BY <1>1, <1>3, ExecuteStep DEF BInv
<1>4. CASE Restart
  BY <1>1, <1>4, RestartRecorded DEF BInv
<1>5. CASE \E r \in flight, outcome \in {"success", "error"} : Finish(r, outcome)
  BY <1>1, <1>5, FinishRecorded DEF BInv
<1>6. CASE Start \/ Fire \/ TriggerNow \/ Stop \/ UNCHANGED vars
  BY <1>2, <1>3, <1>6 DEF Start, Fire, TriggerNow, Stop, vars
<1>. QED  BY <1>4, <1>5, <1>6 DEF Next

\* In every reachable state of every configuration and for every limit, as long as
\* each run could be written to the table, the failures the back-off is computed
\* from are no more than the failed runs since the last success, in any process
\* (pushRun, persistRun, hydratePersistedState, computeBackoffBaseDelayMs).
THEOREM BackoffIsEarned == Spec => []BackoffEarned
<1>1. BInv => BackoffEarned
  BY DEF BInv
<1>. QED  BY <1>1, BackoffInit, BackoffNext, PTL DEF Spec

-----------------------------------------------------------------------------
(***************************************************************************)
(* RESTARTS.  Memory keeps the runs in the order in which they ended, the  *)
(* table in the order in which they began, and both forget their oldest.   *)
(* The runs that were not skipped end as they begin; and whichever of the  *)
(* two forgets the latest of them has forgotten all that are older.        *)
(***************************************************************************)

(***************************************************************************)
(* Lists of runs.                                                          *)
(***************************************************************************)

Real(runs) == {i \in DOMAIN runs : runs[i].outcome # "skipped"}

\* A set of numbers has a least one.
LEMMA LeastNatural ==
  ASSUME NEW T, T \subseteq Nat, T # {}
  PROVE  \E i \in T : \A j \in T : i <= j
<1>. DEFINE R == {ss \in Nat \X Nat : ss[1] < ss[2]}
<1>1. OpToRel(<, Nat) = R
  BY Zenon DEF OpToRel
<1>2. IsWellFoundedOn(R, Nat)
  BY <1>1, NatLessThanWellFounded, Zenon
<1>. HIDE DEF R
<1>3. PICK i \in T : \A j \in T : ~(<<j, i>> \in R)
  BY <1>2, WFMin
<1>4. ASSUME NEW j \in T PROVE i <= j
  <2>1. <<j, i>> \in Nat \X Nat /\ <<j, i>>[1] = j /\ <<j, i>>[2] = i
    OBVIOUS
  <2>2. ~(j < i)
    <3>1. ASSUME j < i PROVE <<j, i>> \in R
      BY <2>1, <3>1 DEF R
    <3>. QED  BY <1>3, <3>1
  <2>. QED  BY <2>1, <2>2
<1>. QED  BY <1>4

\* LatestReal is the first of a list that was not skipped, if there is one.
LEMMA FirstReal ==
  ASSUME NEW runs \in Seq(Run)
  PROVE  /\ LatestReal(runs) = NoRun <=> Real(runs) = {}
         /\ \A i \in Real(runs) : (\A j \in Real(runs) : i <= j) => LatestReal(runs) = runs[i]
         /\ LatestReal(runs) # NoRun =>
              \E i \in Real(runs) : LatestReal(runs) = runs[i] /\ \A j \in Real(runs) : i <= j
<1>1. Real(runs) \subseteq Nat /\ DOMAIN runs = 1 .. Len(runs) /\ Len(runs) \in Nat
  BY LenProperties DEF Real
<1>2. CASE Real(runs) = {}
  BY <1>2 DEF LatestReal, Real
<1>3. CASE Real(runs) # {}
  <2>1. PICK i \in Real(runs) : \A j \in Real(runs) : i <= j
    BY <1>1, <1>3, LeastNatural
  <2>2. \A j \in Real(runs) : i <= j
    BY <2>1
  <2>3. \A k \in Real(runs) : (\A j \in Real(runs) : k <= j) => k = i
    BY <1>1, <2>2
  <2>4. LatestReal(runs) = runs[CHOOSE k \in Real(runs) : \A j \in Real(runs) : k <= j]
    BY <1>3 DEF LatestReal, Real
  <2>5. (CHOOSE k \in Real(runs) : \A j \in Real(runs) : k <= j) = i
    BY <2>2, <2>3
  <2>6. LatestReal(runs) = runs[i] /\ runs[i].outcome # "skipped" /\ i \in Real(runs)
    BY <2>4, <2>5 DEF Real
  <2>7. LatestReal(runs) # NoRun
    BY <2>6 DEF NoRun
  <2>. QED  BY <1>3, <2>2, <2>3, <2>6, <2>7
<1>. QED  BY <1>2, <1>3

\* A list with one more at its head, cut to a length.
LEMMA PushedList ==
  ASSUME NEW runs \in Seq(Run), NEW run \in Run, NEW n \in Nat \ {0}
  PROVE  /\ Shortened(<<run>> \o runs, n) \in Seq(Run)
         /\ Len(Shortened(<<run>> \o runs, n)) \in 1 .. Len(runs) + 1
         /\ Shortened(<<run>> \o runs, n)[1] = run
         /\ \A i \in 2 .. Len(Shortened(<<run>> \o runs, n)) :
              Shortened(<<run>> \o runs, n)[i] = runs[i - 1]
<1>. DEFINE all == <<run>> \o runs
<1>1. Len(runs) \in Nat
  BY LenProperties
<1>2. <<run>> \in Seq(Run) /\ Len(<<run>>) = 1 /\ <<run>>[1] = run
  OBVIOUS
<1>3. /\ all \in Seq(Run) /\ Len(all) = Len(runs) + 1
      /\ \A i \in 1 .. Len(runs) + 1 : all[i] = IF i <= 1 THEN <<run>>[i] ELSE runs[i - 1]
  BY <1>2, ConcatProperties
<1>4. /\ all[1] = run
      /\ \A i \in 2 .. Len(runs) + 1 : all[i] = runs[i - 1]
      /\ \A i \in 1 .. Len(runs) + 1 : all[i] \in Run
  <2>1. all[1] = run
    BY <1>1, <1>2, <1>3
  <2>2. \A i \in 2 .. Len(runs) + 1 : all[i] = runs[i - 1]
    BY <1>1, <1>3
  <2>3. \A i \in 1 .. Len(runs) + 1 : all[i] \in Run
    BY <1>3, ElementOfSeq
  <2>. QED  BY <2>1, <2>2, <2>3
<1>. DEFINE m == IF Len(all) < n THEN Len(all) ELSE n
<1>5. m \in 1 .. Len(runs) + 1
  BY <1>1, <1>3
<1>6. Shortened(all, n) = SubSeq(all, 1, m)
  BY DEF Shortened
<1>. HIDE DEF all, m
<1>7. \A i \in 1 .. m : all[i] \in Run
  BY <1>1, <1>4, <1>5
<1>8. /\ SubSeq(all, 1, m) \in Seq(Run)
      /\ Len(SubSeq(all, 1, m)) = IF 1 <= m THEN m - 1 + 1 ELSE 0
      /\ \A i \in 1 .. m - 1 + 1 : SubSeq(all, 1, m)[i] = all[1 + i - 1]
  BY <1>5, <1>7, SubSeqProperties
<1>9. Len(SubSeq(all, 1, m)) = m /\ \A i \in 1 .. m : SubSeq(all, 1, m)[i] = all[i]
  <2>1. m - 1 + 1 = m /\ 1 <= m /\ \A i \in 1 .. m : 1 + i - 1 = i
    BY <1>1, <1>5
  <2>. QED  BY <1>8, <2>1
<1>10. SubSeq(all, 1, m)[1] = run /\ \A i \in 2 .. m : SubSeq(all, 1, m)[i] = runs[i - 1]
  BY <1>1, <1>4, <1>5, <1>9
<1>. QED  BY <1>5, <1>6, <1>8, <1>9, <1>10 DEF all

\* The latest of a longer list is the new run, or what it was, or forgotten.
LEMMA LatestPushed ==
  ASSUME NEW runs \in Seq(Run), NEW run \in Run, NEW n \in Nat \ {0}
  PROVE  /\ run.outcome # "skipped" => LatestReal(Shortened(<<run>> \o runs, n)) = run
         /\ run.outcome = "skipped" =>
              LatestReal(Shortened(<<run>> \o runs, n)) \in {NoRun, LatestReal(runs)}
<1>. DEFINE list == Shortened(<<run>> \o runs, n)
<1>1. /\ list \in Seq(Run) /\ Len(list) \in 1 .. Len(runs) + 1 /\ list[1] = run
      /\ \A i \in 2 .. Len(list) : list[i] = runs[i - 1]
  <2>1. /\ Shortened(<<run>> \o runs, n) \in Seq(Run)
        /\ Len(Shortened(<<run>> \o runs, n)) \in 1 .. Len(runs) + 1
        /\ Shortened(<<run>> \o runs, n)[1] = run
        /\ \A i \in 2 .. Len(Shortened(<<run>> \o runs, n)) :
             Shortened(<<run>> \o runs, n)[i] = runs[i - 1]
    BY PushedList
  <2>2. list = Shortened(<<run>> \o runs, n)
    OBVIOUS
  <2>. HIDE DEF list
  <2>. QED  BY <2>1, <2>2
<1>2. DOMAIN list = 1 .. Len(list) /\ DOMAIN runs = 1 .. Len(runs) /\ Len(runs) \in Nat
  BY <1>1, LenProperties
<1>. HIDE DEF list
<1>3. ASSUME run.outcome # "skipped" PROVE LatestReal(list) = run
  <2>1. 1 \in Real(list) /\ \A j \in Real(list) : 1 <= j
    BY <1>1, <1>2, <1>3 DEF Real
  <2>. QED  BY <1>1, <2>1, FirstReal
<1>4. ASSUME run.outcome = "skipped", LatestReal(list) # NoRun
      PROVE  LatestReal(list) = LatestReal(runs)
  <2>1. PICK i \in Real(list) : LatestReal(list) = list[i] /\ \A j \in Real(list) : i <= j
    BY <1>1, <1>4, FirstReal
  <2>2. i \in 2 .. Len(list) /\ i - 1 \in Real(runs) /\ list[i] = runs[i - 1]
    BY <1>1, <1>2, <1>4 DEF Real
  <2>3. ASSUME NEW j \in Real(runs) PROVE i - 1 <= j
    <3>1. j \in 1 .. Len(runs)
      BY <1>2 DEF Real
    <3>2. CASE j + 1 <= Len(list)
      <4>1. j + 1 \in 2 .. Len(list) /\ (j + 1) - 1 = j
        BY <1>1, <1>2, <3>1, <3>2
      <4>2. j + 1 \in Real(list)
        BY <1>1, <1>2, <4>1 DEF Real
      <4>. QED  BY <2>1, <2>2, <3>1, <4>2
    <3>3. CASE ~(j + 1 <= Len(list))
      BY <1>1, <1>2, <2>2, <3>1, <3>3
    <3>. QED  BY <3>2, <3>3
  <2>4. LatestReal(runs) = runs[i - 1]
    BY <2>2, <2>3, FirstReal
  <2>. QED  BY <2>1, <2>2, <2>4
<1>. QED  BY <1>3, <1>4 DEF list

\* The latest of the sorted rows is the last to have started, of those not skipped.
LEMMA LatestSorted ==
  ASSUME NEW S, Rows(S)
  PROVE  /\ Descending(S) \in Seq(Run)
         /\ LatestReal(Descending(S)) # NoRun =>
              /\ LatestReal(Descending(S)) \in S /\ LatestReal(Descending(S)).outcome # "skipped"
              /\ \A q \in S : q.outcome # "skipped" => q.id <= LatestReal(Descending(S)).id
<1>. DEFINE runs == Descending(S)
<1>1. Cardinality(S) \in Nat /\ S \subseteq Run
  BY FS_CardinalityType DEF Rows
<1>2. /\ DOMAIN runs = 1 .. Cardinality(S)
      /\ \A i \in 1 .. Cardinality(S) : runs[i] \in S /\ Cardinality(Later(S, runs[i])) = i - 1
  BY Sorted
<1>3. runs = [i \in 1 .. Cardinality(S) |-> CHOOSE r \in S : Cardinality(Later(S, r)) = i - 1]
  BY DEF Descending, Later
<1>4. runs \in [1 .. Cardinality(S) -> Run]
  <2>1. ASSUME NEW i \in 1 .. Cardinality(S)
        PROVE  (CHOOSE r \in S : Cardinality(Later(S, r)) = i - 1) \in Run
    BY <1>1, Ranks
  <2>. HIDE DEF runs
  <2>. QED  BY <1>3, <2>1
<1>. HIDE DEF runs
<1>5. runs \in Seq(Run)
  BY <1>1, <1>4, SeqDef
<1>6. ASSUME LatestReal(runs) # NoRun
      PROVE  /\ LatestReal(runs) \in S /\ LatestReal(runs).outcome # "skipped"
             /\ \A q \in S : q.outcome # "skipped" => q.id <= LatestReal(runs).id
  <2>1. PICK i \in Real(runs) : LatestReal(runs) = runs[i] /\ \A j \in Real(runs) : i <= j
    BY <1>5, <1>6, FirstReal
  <2>2. i \in 1 .. Cardinality(S) /\ runs[i] \in S /\ runs[i].outcome # "skipped"
    BY <1>2 DEF Real
  <2>3. ASSUME NEW q \in S, q.outcome # "skipped" PROVE q.id <= runs[i].id
    <3>. DEFINE k == Cardinality(Later(S, q))
    <3>1. k \in Nat /\ k + 1 \in 1 .. Cardinality(S)
      BY LaterIsFewer, Ranks
    <3>2. Cardinality(Later(S, runs[k + 1])) = (k + 1) - 1 /\ runs[k + 1] \in S
      BY <1>2, <3>1
    <3>3. runs[k + 1] = q
      BY <3>1, <3>2, Ranks
    <3>4. i <= k + 1
      BY <1>2, <2>1, <2>3, <3>1, <3>3 DEF Real
    <3>5. Cardinality(Later(S, runs[i])) = i - 1
      BY <1>2, <2>2
    <3>6. q.id > runs[i].id => k < Cardinality(Later(S, runs[i]))
      BY <2>2, LaterIsFewer
    <3>7. ~(q.id > runs[i].id)
      <4>. HIDE DEF k
      <4>. QED  BY <1>1, <2>2, <3>1, <3>4, <3>5, <3>6
    <3>8. q.id \in Nat /\ runs[i].id \in Nat
      BY <1>1, <2>2 DEF Run
    <3>. QED  BY <3>7, <3>8
  <2>. QED  BY <2>1, <2>2, <2>3
<1>. QED  BY <1>5, <1>6 DEF runs

\* Pruning keeps what is later than what it keeps.
LEMMA KeepsLater ==
  ASSUME NEW S, Rows(S), NEW n \in Nat, NEW q \in Newest(S, n), NEW r \in S, q.id <= r.id
  PROVE  r \in Newest(S, n)
<1>1. q \in S /\ Cardinality(Later(S, q)) < n
  BY DEF Newest, Later
<1>2. q.id \in Nat /\ r.id \in Nat
  BY <1>1 DEF Rows, Run
<1>3. CASE q.id = r.id
  BY <1>1, <1>3 DEF Rows, Distinct
<1>4. CASE q.id # r.id
  <2>1. r.id > q.id
    BY <1>2, <1>4
  <2>2. /\ Cardinality(Later(S, q)) \in Nat /\ Cardinality(Later(S, r)) \in Nat
        /\ Cardinality(Later(S, r)) < Cardinality(Later(S, q))
    BY <1>1, <2>1, LaterIsFewer
  <2>3. Cardinality(Later(S, r)) < n
    BY <1>1, <2>2
  <2>. QED  BY <2>3 DEF Newest, Later
<1>. QED  BY <1>3, <1>4

\* r is a row, or n rows started after it.
Within(rows, r, n) == r \in rows \/ Cardinality(Later(rows, r)) >= n

\* Pruning to no more than m rows keeps a row, or keeps only later ones.
LEMMA KeepsWithin ==
  ASSUME NEW S, Rows(S), NEW m \in Nat, NEW n \in Nat, n <= m, NEW r \in Run, Within(S, r, m)
  PROVE  /\ r \in Newest(S, n) \/ (/\ Cardinality(Newest(S, n)) >= n
                                   /\ \A s \in Newest(S, n) : s.id > r.id)
         /\ Within(Newest(S, n), r, n)
<1>. DEFINE N == Newest(S, n)
<1>1. N \in SUBSET S /\ \A s \in S : s \in N <=> Cardinality(Later(S, s)) < n
  BY DEF Newest, Later
<1>. HIDE DEF N
<1>2. IsFiniteSet(S) /\ Cardinality(S) \in Nat /\ IsFiniteSet(N) /\ Cardinality(N) \in Nat
  BY <1>1, FS_Subset, FS_CardinalityType DEF Rows
<1>3. r.id \in Nat /\ \A s \in S : s.id \in Nat
  BY DEF Rows, Run
<1>4. ASSUME r \notin N PROVE Cardinality(N) >= n /\ \A s \in N : s.id > r.id
  <2>1. Later(S, r) \in SUBSET S
    BY DEF Later
  <2>2. IsFiniteSet(Later(S, r)) /\ Cardinality(Later(S, r)) <= Cardinality(S)
        /\ Cardinality(Later(S, r)) \in Nat
    BY <1>2, <2>1, FS_Subset, FS_CardinalityType
  <2>3. Cardinality(Later(S, r)) >= n
    BY <1>1, <1>4, <2>2 DEF Within
  <2>4. ASSUME NEW s \in N PROVE s.id > r.id
    <3>1. s \in S /\ Cardinality(Later(S, s)) < n
      BY <1>1
    <3>2. IsFiniteSet(Later(S, s)) /\ Cardinality(Later(S, s)) \in Nat
      BY <1>2, FS_Subset, FS_CardinalityType DEF Later
    <3>3. CASE ~(s.id > r.id)
      <4>1. Later(S, r) \in SUBSET Later(S, s)
        BY <1>3, <3>1, <3>3 DEF Later
      <4>2. Cardinality(Later(S, r)) <= Cardinality(Later(S, s))
        BY <3>2, <4>1, FS_Subset
      <4>. QED  BY <2>2, <2>3, <3>1, <3>2, <4>2
    <3>. QED  BY <3>3
  <2>5. Cardinality(N) >= n
    <3>. DEFINE rank == [s \in N |-> Cardinality(Later(S, s)) + 1]
    <3>1. \A s \in N : Cardinality(Later(S, s)) \in Nat /\ Cardinality(Later(S, s)) < n
      BY <1>1, LaterIsFewer
    <3>2. rank \in [N -> 1 .. n]
      BY <3>1
    <3>3. ASSUME NEW i \in 1 .. n PROVE \E s \in N : rank[s] = i
      <4>1. i \in 1 .. Cardinality(S)
        BY <1>2, <2>2, <2>3
      <4>2. PICK s \in S : Cardinality(Later(S, s)) = i - 1
        BY <4>1, Ranks
      <4>3. s \in N
        BY <1>1, <4>2
      <4>. QED  BY <4>2, <4>3
    <3>4. rank \in Surjection(N, 1 .. n)
      BY <3>2, <3>3 DEF Surjection
    <3>. HIDE DEF rank
    <3>5. Cardinality(1 .. n) <= Cardinality(N)
      BY <1>2, <3>4, FS_Surjection
    <3>6. Cardinality(1 .. n) = n
      BY FS_Interval
    <3>. QED  BY <1>2, <3>5, <3>6
  <2>. QED  BY <2>4, <2>5
<1>5. r \notin N => Later(N, r) = N
  BY <1>4 DEF Later
<1>. QED  BY <1>4, <1>5 DEF N, Within

-----------------------------------------------------------------------------
(***************************************************************************)
(* The invariant.                                                          *)
(***************************************************************************)
Status == [failures : Nat, count : Nat, last : Run, recent : Seq(Run)]

\* The latest run of memory is no older than any of the table's, and is one of
\* them if there are any.
Latest == LatestReal(status.recent)

Agreed ==
  config.persistHistory /\ ~lost /\ Latest # NoRun =>
    \A q \in table : q.outcome # "skipped" => q.id <= Latest.id /\ Latest \in table

\* A run of memory is in the table, or as many later ones as it holds are.
Covered ==
  config.persistHistory /\ ~lost =>
    \A k \in DOMAIN status.recent : Within(table, status.recent[k], RetentionLimit)

SInv == BInv /\ TypeOK /\ Agreed /\ Covered

\* Pushing a run keeps memory and table together.
LEMMA PushAgreed ==
  ASSUME Typed, TypeOK, Agreed, config' = config, NEW run \in Run, Push(run),
         status'.failures \in Nat, \A q \in table : q.id # run.id,
         run.outcome # "skipped" => \A q \in table : q.outcome # "skipped" => q.id < run.id
  PROVE  status' \in Status /\ Agreed'
<1>1. /\ status.recent \in Seq(Run) /\ status.count \in Nat
      /\ HistoryLimit \in Nat \ {0} /\ RetentionLimit \in Nat
  BY SchedulerAssumption DEF TypeOK
<1>2. status' = [failures |-> Failures(status.failures, run.outcome), count |-> status.count + 1,
                 last |-> run, recent |-> Shortened(<<run>> \o status.recent, HistoryLimit)]
  BY DEF Push, Pushed
<1>3. status'.recent = Shortened(<<run>> \o status.recent, HistoryLimit)
  BY <1>2
<1>4. status' \in Status
  <2>1. status'.recent \in Seq(Run)
    <3>1. Shortened(<<run>> \o status.recent, HistoryLimit) \in Seq(Run)
      BY <1>1, PushedList
    <3>. QED  BY <1>3, <3>1
  <2>2. Failures(status.failures, run.outcome) \in Nat
    BY <1>2
  <2>. QED  BY <1>1, <1>2, <1>3, <2>1, <2>2 DEF Status
<1>5. /\ run.outcome # "skipped" => Latest' = run
      /\ run.outcome = "skipped" => Latest' \in {NoRun, Latest}
  BY <1>1, <1>3, LatestPushed DEF Latest
<1>6. CASE ~config.persistHistory \/ lost'
  BY <1>4, <1>6 DEF Agreed
<1>7. CASE /\ config.persistHistory /\ UNCHANGED lost /\ ~lost
           /\ table' = Newest(table \cup {run}, RetentionLimit)
  <2>. DEFINE T == table \cup {run}
  <2>1. Rows(T)
    BY Extended DEF Typed
  <2>2. table' \subseteq T
    BY <1>7 DEF Newest
  <2>3. \A q \in table', r \in T : q.id <= r.id => r \in table'
    <3>. HIDE DEF T
    <3>. QED  BY <1>1, <1>7, <2>1, KeepsLater DEF T
  <2>4. run.id \in Nat /\ \A q \in table : q.id \in Nat
    BY DEF Typed, Rows, Run
  <2>5. CASE run.outcome # "skipped"
    <3>1. \A q \in table' : q.outcome # "skipped" => q.id <= run.id
      BY <2>2, <2>4, <2>5
    <3>. QED  BY <1>4, <1>5, <2>3, <2>5, <3>1 DEF Agreed
  <2>6. CASE run.outcome = "skipped" /\ Latest' # NoRun
    <3>1. Latest' = Latest /\ Latest # NoRun
      BY <1>5, <2>6
    <3>2. ASSUME NEW q \in table', q.outcome # "skipped" PROVE q.id <= Latest.id /\ Latest \in table'
      <4>1. q \in table
        BY <2>2, <2>6, <3>2
      <4>2. q.id <= Latest.id /\ Latest \in table
        BY <1>7, <3>1, <3>2, <4>1 DEF Agreed
      <4>. QED  BY <2>3, <4>2
    <3>. QED  BY <1>4, <3>1, <3>2 DEF Agreed
  <2>. QED  BY <1>4, <2>5, <2>6 DEF Agreed
<1>8. lost' \in BOOLEAN /\ (lost => lost')
  BY DEF Typed, Push, Persist
<1>. QED  BY <1>6, <1>7, <1>8 DEF Push, Persist

\* Pushing a run loses none of memory's others.
LEMMA PushCovered ==
  ASSUME Typed, TypeOK, Covered, config' = config, NEW run \in Run, Push(run),
         \A q \in table : q.id # run.id,
         run.outcome # "skipped" => \A q \in table : q.outcome # "skipped" => q.id < run.id
  PROVE  Covered'
<1>1. /\ status.recent \in Seq(Run) /\ HistoryLimit \in Nat \ {0} /\ RetentionLimit \in Nat
      /\ Rows(table) /\ IsFiniteSet(table) /\ lost \in BOOLEAN
  BY SchedulerAssumption DEF TypeOK, Typed, Rows
<1>2. status'.recent = Shortened(<<run>> \o status.recent, HistoryLimit)
  BY DEF Push, Pushed
<1>3. /\ status'.recent \in Seq(Run)
      /\ Len(status'.recent) \in 1 .. Len(status.recent) + 1
      /\ status'.recent[1] = run
      /\ \A i \in 2 .. Len(status'.recent) : status'.recent[i] = status.recent[i - 1]
  BY <1>1, <1>2, PushedList
<1>4. /\ DOMAIN status'.recent = 1 .. Len(status'.recent)
      /\ DOMAIN status.recent = 1 .. Len(status.recent) /\ Len(status.recent) \in Nat
  BY <1>1, <1>3, LenProperties
<1>5. CASE /\ config.persistHistory /\ ~lost
           /\ table' = Newest(table \cup {run}, RetentionLimit)
  <2>. DEFINE T == table \cup {run}
  <2>1. Rows(T) /\ IsFiniteSet(T)
    BY Extended DEF Typed, Rows
  <2>2. ASSUME NEW k \in DOMAIN status'.recent
        PROVE  status'.recent[k] \in Run /\ Within(T, status'.recent[k], RetentionLimit)
    <3>1. CASE k = 1
      BY <1>3, <3>1 DEF Within
    <3>2. CASE k # 1
      <4>. DEFINE r == status.recent[k - 1]
      <4>1. k \in 2 .. Len(status'.recent) /\ k - 1 \in DOMAIN status.recent
        BY <1>3, <1>4, <3>2
      <4>2. status'.recent[k] = r /\ r \in Run
        BY <1>1, <1>3, <1>4, <4>1, ElementOfSeq
      <4>3. Within(table, r, RetentionLimit)
        BY <1>5, <4>1 DEF Covered
      <4>. HIDE DEF r
      <4>4. Within(T, r, RetentionLimit)
        <5>1. CASE r \in table
          BY <5>1 DEF Within
        <5>2. CASE Cardinality(Later(table, r)) >= RetentionLimit
          <6>1. Later(table, r) \in SUBSET Later(T, r) /\ Later(T, r) \in SUBSET T
            BY DEF Later
          <6>. HIDE DEF T
          <6>2. IsFiniteSet(Later(T, r)) /\ IsFiniteSet(Later(table, r))
                /\ Cardinality(Later(table, r)) <= Cardinality(Later(T, r))
            BY <2>1, <6>1, FS_Subset
          <6>3. Cardinality(Later(table, r)) \in Nat /\ Cardinality(Later(T, r)) \in Nat
            BY <6>2, FS_CardinalityType
          <6>4. Cardinality(Later(T, r)) >= RetentionLimit
            BY <1>1, <5>2, <6>2, <6>3
          <6>. QED  BY <6>4 DEF Within
        <5>. QED  BY <4>3, <5>1, <5>2 DEF Within
      <4>. QED  BY <4>2, <4>4
    <3>. QED  BY <3>1, <3>2
  <2>. HIDE DEF T
  <2>3. \A k \in DOMAIN status'.recent : Within(table', status'.recent[k], RetentionLimit)
    <3>. SUFFICES ASSUME NEW k \in DOMAIN status'.recent
                  PROVE  Within(table', status'.recent[k], RetentionLimit)
      OBVIOUS
    <3>. DEFINE r == status'.recent[k]
    <3>1. r \in Run /\ Within(T, r, RetentionLimit) /\ table' = Newest(T, RetentionLimit)
      BY <1>5, <2>2 DEF T
    <3>. HIDE DEF r
    <3>2. Within(Newest(T, RetentionLimit), r, RetentionLimit)
      BY <1>1, <2>1, <3>1, KeepsWithin
    <3>. QED  BY <3>1, <3>2 DEF r
  <2>. QED  BY <2>3 DEF Covered
<1>6. CASE ~config.persistHistory \/ lost'
  BY <1>6 DEF Covered
<1>. QED  BY <1>1, <1>5, <1>6 DEF Push, Persist

\* scheduleNext leaves a plan.
LEMMA PlanType ==
  ASSUME NEW p \in Plan, NEW on, NEW failures \in Nat
  PROVE  ScheduleNext(p, on, failures) \in Plan
BY SchedulerAssumption DEF ScheduleNext, Delay, Plan

\* execute, in any step.
LEMMA ExecuteAgreed ==
  ASSUME SInv, config' = config, NEW p \in Plan, NEW on, NEW reschedule \in BOOLEAN,
         Execute(p, on, reschedule), Typed'
  PROVE  plan' \in Plan /\ status' \in Status /\ Agreed' /\ Covered'
<1>0. status'.failures \in Nat /\ serial + 1 \in Nat /\ Typed /\ TypeOK
      /\ Agreed /\ Covered
  BY DEF Typed, SInv, BInv
<1>. DEFINE run == [id |-> serial + 1, outcome |-> "skipped"]
<1>1. CASE /\ Push(run)
           /\ plan' = IF reschedule THEN ScheduleNext(p, on, status'.failures) ELSE p
  <2>1. run \in Run /\ run.outcome = "skipped" /\ run.id = serial + 1
    BY <1>0 DEF Run, Outcome
  <2>2. \A q \in table : q.id # run.id
    BY <2>1 DEF SInv, BInv, Ordered, Typed, Rows, Run
  <2>. HIDE DEF run
  <2>3. status' \in Status /\ Agreed' /\ Covered'
    BY <1>0, <1>1, <2>1, <2>2, PushAgreed, PushCovered
  <2>4. plan' \in Plan
    BY <1>0, <1>1, PlanType
  <2>. QED  BY <2>3, <2>4
<1>2. CASE plan' = [p EXCEPT !.next = FALSE] /\ UNCHANGED <<status, table, lost>>
  <2>1. plan' \in Plan
    BY <1>2 DEF Plan
  <2>2. status' \in Status
    BY <1>0, <1>2 DEF TypeOK, Status
  <2>3. Agreed' /\ Covered'
    BY <1>0, <1>2 DEF Agreed, Latest, Covered
  <2>. QED  BY <2>1, <2>2, <2>3
<1>. QED  BY <1>1, <1>2 DEF Execute

\* The end of a run.
LEMMA FinishAgreed ==
  ASSUME SInv, NEW r \in flight, NEW outcome \in {"success", "error"}, Finish(r, outcome), Typed'
  PROVE  plan' \in Plan /\ status' \in Status /\ Agreed' /\ Covered'
<1>. DEFINE run == [id |-> r.id, outcome |-> outcome]
<1>1. /\ Typed /\ TypeOK /\ Agreed /\ Covered /\ config' = config /\ Push(run)
      /\ status'.failures \in Nat /\ r.id \in Nat /\ plan \in Plan
  BY DEF Finish, SInv, BInv, Typed, TypeOK
<1>2. run \in Run /\ run.id = r.id
  BY <1>1 DEF Run, Outcome
<1>3. /\ \A q \in table : q.id # run.id
      /\ \A q \in table : q.outcome # "skipped" => q.id < run.id
  BY <1>2 DEF SInv, BInv, Ordered
<1>. HIDE DEF run
<1>4. status' \in Status /\ Agreed' /\ Covered'
  BY <1>1, <1>2, <1>3, PushAgreed, PushCovered
<1>5. plan' \in Plan
  BY <1>1, PlanType DEF Finish
<1>. QED  BY <1>4, <1>5

\* What a new process shows is the latest of the table.
LEMMA RestartAgreed ==
  ASSUME SInv, Restart, Typed' PROVE plan' \in Plan /\ status' \in Status /\ Agreed' /\ Covered'
<1>. DEFINE N == Newest(table, HistoryLimit)
<1>0. Rows(table) /\ HistoryLimit \in Nat /\ UNCHANGED <<config, table, lost>>
  BY SchedulerAssumption DEF SInv, BInv, Typed, Restart
<1>1. plan' \in Plan
  BY SchedulerAssumption DEF Restart, Unplanned, Plan
<1>2. CASE config.persistHistory
  <2>1. Rows(N) /\ N \subseteq table
    BY <1>0, PrunedFairly
  <2>2. /\ Descending(N) \in Seq(Run)
        /\ LatestReal(Descending(N)) # NoRun =>
             /\ LatestReal(Descending(N)) \in N
             /\ \A q \in N : q.outcome # "skipped" => q.id <= LatestReal(Descending(N)).id
    BY <2>1, LatestSorted
  <2>3. status' = Hydrated(table) /\ status'.recent = Descending(N)
    BY <1>2 DEF Restart, Hydrated
  <2>4. status' \in Status
    <3>1. status' = [failures |-> Leading(Descending(N)), count |-> Cardinality(table),
                     last |-> IF Descending(N) = <<>> THEN NoRun ELSE Descending(N)[1],
                     recent |-> Descending(N)]
      BY <2>3 DEF Hydrated
    <3>2. Leading(Descending(N)) \in Nat /\ Cardinality(table) \in Nat
      BY <1>0, <2>1, LeadingBounded, FS_CardinalityType DEF Rows
    <3>3. (IF Descending(N) = <<>> THEN NoRun ELSE Descending(N)[1]) \in Run
      <4>. HIDE DEF N
      <4>1. NoRun \in Run
        BY DEF NoRun, Run, Outcome
      <4>2. Descending(N) # <<>> => Descending(N)[1] \in Run
        BY <2>2
      <4>. QED  BY <4>1, <4>2
    <3>. HIDE DEF N
    <3>. QED  BY <2>2, <3>1, <3>2, <3>3 DEF Status
  <2>5. Latest' = LatestReal(Descending(N))
    BY <2>3 DEF Latest
  <2>6. ASSUME Latest' # NoRun, NEW q \in table, q.outcome # "skipped"
        PROVE  q.id <= Latest'.id /\ Latest' \in table
    <3>. DEFINE m == LatestReal(Descending(N))
    <3>1. m \in N /\ m \in table /\ (q \in N => q.id <= m.id)
      BY <2>1, <2>2, <2>5, <2>6
    <3>. HIDE DEF m
    <3>2. m.id \in Nat /\ q.id \in Nat
      BY <1>0, <3>1 DEF Rows, Run
    <3>3. q \notin N => ~(m.id <= q.id)
      BY <1>0, <3>1, KeepsLater
    <3>4. q.id <= m.id
      BY <3>1, <3>2, <3>3
    <3>. QED  BY <2>5, <3>1, <3>4 DEF m
  <2>7. Agreed'
    BY <1>0, <2>6 DEF Agreed
  <2>8. Covered'
    <3>1. Cardinality(N) \in Nat /\ DOMAIN Descending(N) = 1 .. Cardinality(N)
          /\ \A k \in 1 .. Cardinality(N) : Descending(N)[k] \in N
      BY <2>1, Sorted, FS_CardinalityType DEF Rows
    <3>2. \A k \in DOMAIN status'.recent : status'.recent[k] \in table
      BY <2>1, <2>3, <3>1
    <3>. QED  BY <1>0, <3>2 DEF Covered, Within
  <2>. QED  BY <1>1, <2>4, <2>7, <2>8
<1>3. CASE ~config.persistHistory
  <2>1. status' = Fresh
    BY <1>3 DEF Restart
  <2>2. status' \in Status
    BY <2>1 DEF Fresh, Status, NoRun, Run, Outcome
  <2>. QED  BY <1>0, <1>1, <1>3, <2>2 DEF Agreed, Covered
<1>. QED  BY <1>2, <1>3

\* The fresh status agrees with the empty table.
LEMMA StatusInit == Init => SInv
<1>. SUFFICES ASSUME Init PROVE SInv
  OBVIOUS
<1>1. BInv
  BY BackoffInit
<1>2. plan \in Plan
  BY SchedulerAssumption DEF Init, Unplanned, Plan
<1>3. status \in Status
  BY DEF Init, Fresh, Status, NoRun, Run, Outcome
<1>4. Agreed /\ Covered
  BY DEF Init, Agreed, Covered, Fresh
<1>5. TypeOK
  BY <1>1, <1>2, <1>3 DEF TypeOK, BInv, IInv, Shape, Typed, Rows, Status
<1>. QED  BY <1>1, <1>4, <1>5 DEF SInv

\* Every step keeps the status in agreement with the table.
LEMMA StatusNext == SInv /\ [Next]_vars => SInv'
<1>. SUFFICES ASSUME SInv, [Next]_vars PROVE SInv'
  OBVIOUS
<1>1. BInv'
  BY BackoffNext DEF SInv
<1>2. Typed' /\ TypeOK /\ Agreed /\ Covered /\ plan \in Plan /\ status \in Status
  BY <1>1 DEF BInv, SInv, TypeOK, Status
<1>3. ASSUME plan' \in Plan, status' \in Status, Agreed', Covered' PROVE SInv'
  <2>1. TypeOK'
    BY <1>1, <1>3 DEF TypeOK, BInv, IInv, Shape, Typed, Rows, Status
  <2>. QED  BY <1>1, <1>3, <2>1 DEF SInv
<1>4. CASE UNCHANGED <<config, status, table, lost>> /\ plan' \in Plan
  BY <1>2, <1>3, <1>4 DEF Agreed, Latest, Covered
<1>5. CASE config' = config /\ (Execute(plan, TRUE, TRUE) \/ Execute(Fired, started, TRUE)
                                \/ Execute(plan, started, FALSE))
  <2>1. Fired \in Plan
    BY <1>2 DEF Fired, Plan
  <2>. QED  BY <1>2, <1>3, <1>5, <2>1, ExecuteAgreed
<1>6. CASE Restart
  BY <1>2, <1>3, <1>6, RestartAgreed
<1>7. CASE \E r \in flight, outcome \in {"success", "error"} : Finish(r, outcome)
  BY <1>2, <1>3, <1>7, FinishAgreed
<1>8. CASE Start
  <2>1. status.failures \in Nat
    BY <1>2 DEF Status
  <2>2. plan' = ScheduleNext(plan, TRUE, status.failures) => plan' \in Plan
    BY <1>2, <2>1, PlanType
  <2>. QED  BY <1>4, <1>5, <1>8, <2>2 DEF Start
<1>9. CASE Stop \/ UNCHANGED vars
  <2>1. Unplanned \in Plan
    BY SchedulerAssumption DEF Unplanned, Plan
  <2>. QED  BY <1>2, <1>4, <1>9, <2>1 DEF Stop, vars
<1>10. CASE Fire \/ TriggerNow
  BY <1>5, <1>10 DEF Fire, TriggerNow
<1>. QED  BY <1>6, <1>7, <1>8, <1>9, <1>10 DEF Next

\* In every reachable state of every configuration the scheduler's state has its
\* type: the list of recent runs, hydrated or pushed, is a list of runs, and the
\* back-off stays within its levels (hydratePersistedState, scheduleNext).
THEOREM TypeCorrect == Spec => []TypeOK
<1>1. SInv => TypeOK
  BY DEF SInv
<1>. QED  BY <1>1, StatusInit, StatusNext, PTL DEF Spec

\* A restart shows what memory shows, whatever the limits of memory and table and
\* however many runs were skipped, pruned or overtaken: no run still in progress; and
\* if every run could be written, each of memory's runs or only later ones, and the
\* same latest run that was not skipped (pushRun, persistRun, hydratePersistedState).
THEOREM RestartsAgree == Spec => []RestartAgrees
<1>1. ASSUME SInv PROVE RestartAgrees
  <2>. DEFINE N == Newest(table, HistoryLimit)
  <2>. DEFINE after == LatestReal(Descending(N))
  <2>1. /\ Rows(table) /\ HistoryLimit \in Nat /\ RetentionLimit \in Nat
        /\ HistoryLimit <= RetentionLimit /\ status.recent \in Seq(Run)
    BY <1>1, SchedulerAssumption DEF SInv, BInv, Typed, TypeOK
  <2>2. Rows(N) /\ N \subseteq table
    BY <2>1, PrunedFairly
  <2>3. Hydrated(table).recent = Descending(N)
    BY DEF Hydrated
  <2>4. /\ Cardinality(N) \in Nat /\ Descending(N) \in Seq(Run)
        /\ DOMAIN Descending(N) = 1 .. Cardinality(N) /\ Len(Descending(N)) = Cardinality(N)
        /\ \A i \in 1 .. Cardinality(N) :
             Descending(N)[i] \in N /\ Cardinality(Later(N, Descending(N)[i])) = i - 1
    <3>. HIDE DEF N
    <3>1. Cardinality(N) \in Nat /\ Descending(N) \in Seq(Run)
      BY <2>2, LatestSorted, FS_CardinalityType DEF Rows
    <3>2. DOMAIN Descending(N) = 1 .. Len(Descending(N)) /\ Len(Descending(N)) \in Nat
      BY <3>1, LenProperties
    <3>. QED  BY <2>2, <3>1, <3>2, Sorted
  <2>5. ASSUME NEW r \in flight, NEW i \in DOMAIN Descending(N)
        PROVE  Descending(N)[i].id # r.id
    <3>1. Descending(N)[i] \in table
      BY <2>2, <2>4
    <3>. HIDE DEF N
    <3>. QED  BY <1>1, <3>1 DEF SInv, BInv, Ordered
  <2>6. ASSUME config.persistHistory, ~lost, NEW k \in DOMAIN status.recent
        PROVE  \/ \E i \in DOMAIN Descending(N) : Descending(N)[i] = status.recent[k]
               \/ /\ Len(Descending(N)) >= HistoryLimit
                  /\ \A i \in DOMAIN Descending(N) : Descending(N)[i].id > status.recent[k].id
    <3>. DEFINE r == status.recent[k]
    <3>1. r \in Run /\ Within(table, r, RetentionLimit)
      <4>1. k \in 1 .. Len(status.recent)
        BY <2>1, LenProperties
      <4>. QED  BY <1>1, <2>1, <2>6, <4>1, ElementOfSeq DEF SInv, Covered
    <3>. HIDE DEF r
    <3>2. r \in N \/ (Cardinality(N) >= HistoryLimit /\ \A q \in N : q.id > r.id)
      BY <2>1, <3>1, KeepsWithin
    <3>3. ASSUME r \in N PROVE \E i \in DOMAIN Descending(N) : Descending(N)[i] = r
      <4>. HIDE DEF N
      <4>. DEFINE j == Cardinality(Later(N, r))
      <4>1. j \in Nat /\ j + 1 \in 1 .. Cardinality(N)
        BY <2>2, <3>3, LaterIsFewer, Ranks
      <4>2. Descending(N)[j + 1] \in N /\ Cardinality(Later(N, Descending(N)[j + 1])) = j
        BY <2>4, <4>1
      <4>3. Descending(N)[j + 1] = r
        BY <2>2, <3>3, <4>2, Ranks
      <4>. QED  BY <2>4, <4>1, <4>3
    <3>4. ASSUME Cardinality(N) >= HistoryLimit, \A q \in N : q.id > r.id
          PROVE  /\ Len(Descending(N)) >= HistoryLimit
                 /\ \A i \in DOMAIN Descending(N) : Descending(N)[i].id > r.id
      <4>. HIDE DEF N
      <4>. QED  BY <2>4, <3>4
    <3>. QED  BY <3>2, <3>3, <3>4 DEF r
  <2>7. ASSUME config.persistHistory, ~lost, Latest # NoRun, after # NoRun PROVE Latest = after
    <3>1. /\ after \in N /\ after.outcome # "skipped"
          /\ \A q \in N : q.outcome # "skipped" => q.id <= after.id
      BY <2>2, <2>7, LatestSorted
    <3>2. after \in table
      BY <2>2, <3>1
    <3>. HIDE DEF after
    <3>3. after.id <= Latest.id /\ Latest \in table
      BY <1>1, <2>7, <3>1, <3>2 DEF SInv, Agreed
    <3>4. Latest \in N
      BY <2>1, <3>1, <3>3, KeepsLater
    <3>5. Latest.outcome # "skipped"
      BY <2>1, <2>7, FirstReal DEF Latest, Real
    <3>6. Latest.id <= after.id
      BY <3>1, <3>4, <3>5
    <3>7. Latest.id \in Nat /\ after.id \in Nat
      BY <2>1, <3>2, <3>3 DEF Rows, Run
    <3>8. Latest.id = after.id
      BY <3>3, <3>6, <3>7
    <3>. QED  BY <2>1, <3>2, <3>3, <3>8 DEF Rows, Distinct
  <2>. HIDE DEF N
  <2>. QED  BY <2>3, <2>5, <2>6, <2>7 DEF RestartAgrees, Latest
<1>2. SInv => RestartAgrees
  BY <1>1
<1>. QED  BY <1>2, StatusInit, StatusNext, PTL DEF Spec
=============================================================================
