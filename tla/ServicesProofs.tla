---------------------------- MODULE ServicesProofs ----------------------------
(***************************************************************************)
(* Theorems about the services beside the memory tables, each for any      *)
(* values of its constants.                                                *)
(***************************************************************************)
EXTENDS LlmService, MemoryIndex, Maintenance, EventStream, McpServer,
        FiniteSetTheorems, SequenceTheorems, WellFoundedInduction, TLAPS

-----------------------------------------------------------------------------
(***************************************************************************)
(* Calls of the language model.                                            *)
(***************************************************************************)
Call ==
  [phase : {"idle", "fetch", "probe", "await", "stat", "read", "ended"}, fetches : Nat, refused : BOOLEAN,
   read : Nat, owed : Trainer \cup {None}, answer : {"none", "error", "empty", "remote", "mini"},
   model : Trainer \cup {None, 0}, used : Nat]

Training == [phase : {"collecting", "writing", "stat", "done"}, alone : BOOLEAN]

LlmTyped ==
  /\ starts \in Nat /\ health \in [error : BOOLEAN, later : BOOLEAN]
  /\ ask \in [Caller -> Call]
  /\ file \in [model : Trainer \cup {None}, torn : BOOLEAN, time : Nat]
  /\ runtimeCache \in [model : Trainer \cup {None, 0}, time : Nat]
  /\ training \in [Trainer -> Training]
  /\ trained \in Trainer \cup {None}

\* The local model may answer a call that the remote one was asked for f times.
MayServe(f, failed) ==
  settings.mode # "disabled" /\ (Remote => ~Strict /\ f > 0 /\ failed)

\* A call is where its settings and the failures so far let it be.
CallOK(call, failed) ==
  /\ call.phase \in {"fetch", "probe", "await"} => Remote
  /\ call.phase \in {"stat", "read"} => MayServe(call.fetches, failed)
  /\ call.phase = "fetch" => call.fetches = IF call.refused THEN 1 ELSE 0
  /\ call.phase \in {"probe", "await"} => call.fetches = 1 /\ call.refused
  /\ call.fetches <= 2 /\ (call.fetches = 2 => call.refused)
  /\ call.phase # "ended" => call.answer = "none"
  /\ call.answer = "mini" => MayServe(call.fetches, failed)
  /\ call.answer = "remote" => Remote
  /\ call.answer = "error" => (Strict /\ Remote) \/ settings.mode = "disabled"
  /\ call.answer = "empty" => settings.mode = "disabled"

\* A model that was trained alone is in the file, whole, and the cache of the file
\* as it is now is of it.
FileFresh ==
  /\ runtimeCache.time <= file.time
  /\ \A t \in Trainer : /\ training[t].phase = "writing" => trained = None
                        /\ t \in Busy /\ training[t].alone => Busy = {t}
                        /\ training[t].phase = "stat" /\ trained # None => t = trained
  /\ trained # None =>
       /\ file.model = trained /\ ~file.torn
       /\ runtimeCache.model > 0 /\ runtimeCache.time = file.time => runtimeCache.model = trained

\* A call that is owed a model was owed it by the last training; it has been served it.
Owed(call, last) ==
  call.owed # None => call.owed = last /\ (call.answer = "mini" => call.model = last)

LlmInv ==
  /\ LlmTyped /\ OneStart /\ FileFresh
  /\ \A c \in Caller : /\ CallOK(ask[c], health.error) /\ Owed(ask[c], trained)
                       /\ ask[c].read <= file.time

\* Nothing is called at the start, and no file read.
LEMMA LlmStart == LlmInit => LlmInv
<1> SUFFICES ASSUME LlmInit PROVE LlmInv
  OBVIOUS
<1>1. \A c \in Caller : ask[c] = Idle
  BY DEF LlmInit
<1>2. Idle \in Call
  BY DEF Idle, Call
<1>3. LlmTyped
  BY <1>2 DEF LlmInit, LlmTyped, Training
<1>4. OneStart
  BY <1>1 DEF LlmInit, OneStart, Waiting, Idle
<1>5. FileFresh
  BY DEF LlmInit, FileFresh, Busy
<1>6. CallOK(Idle, health.error) /\ Owed(Idle, trained) /\ Idle.read <= file.time
  <2>1. /\ Idle.phase = "idle" /\ Idle.fetches = 0 /\ Idle.answer = "none" /\ Idle.owed = None
        /\ Idle.read = 0
    BY DEF Idle
  <2>2. file.time = 0
    BY DEF LlmInit
  <2> QED
    BY <2>1, <2>2 DEF CallOK, Owed
<1> QED
  BY <1>1, <1>3, <1>4, <1>5, <1>6 DEF LlmInv

\* The settings stay, so what was found of calls after a step holds then.
LEMMA LlmPrimed ==
  ASSUME settings' = settings, LlmTyped', OneStart', FileFresh',
         \A c \in Caller : /\ CallOK(ask'[c], health'.error) /\ Owed(ask'[c], trained')
                           /\ ask'[c].read <= file'.time
  PROVE  LlmInv'
  BY DEF LlmInv, CallOK, MayServe, Owed, Remote, Strict

\* A failure more forbids nothing.
LEMMA FailureAllows ==
  ASSUME NEW call, NEW failed, NEW later, failed => later, CallOK(call, failed)
  PROVE  CallOK(call, later)
  BY DEF CallOK, MayServe

\* A step of one call, which leaves the file and the trainings alone.
LEMMA OneCall ==
  ASSUME LlmInv, NEW c \in Caller, NEW k \in Call, ask' = [ask EXCEPT ![c] = k],
         UNCHANGED <<settings, file, training, trained>>,
         health' \in [error : BOOLEAN, later : BOOLEAN], health.error => health'.error,
         runtimeCache' \in [model : Trainer \cup {None, 0}, time : Nat], starts' \in Nat,
         OneStart', FileFresh',
         CallOK(k, health'.error), Owed(k, trained), k.read <= file.time
  PROVE  LlmInv'
<1>1. /\ settings' = settings /\ file' = file /\ training' = training /\ trained' = trained
      /\ ask'[c] = k /\ \A d \in Caller : d # c => ask'[d] = ask[d]
      /\ ask' \in [Caller -> Call]
  BY DEF LlmInv, LlmTyped
<1>2. LlmTyped'
  BY <1>1 DEF LlmInv, LlmTyped
<1>3. ASSUME NEW d \in Caller
      PROVE  CallOK(ask'[d], health'.error) /\ Owed(ask'[d], trained') /\ ask'[d].read <= file'.time
  <2>1. CASE d = c
    BY <1>1, <2>1
  <2>2. CASE d # c
    <3>1. CallOK(ask[d], health.error) /\ Owed(ask[d], trained) /\ ask[d].read <= file.time
      BY DEF LlmInv
    <3> QED
      BY <1>1, <2>2, <3>1, FailureAllows
  <2> QED
    BY <2>1, <2>2
<1> QED
  BY <1>1, <1>2, <1>3, LlmPrimed

\* One call's step starts no wait, and the cache is what it was.
LEMMA NoWait ==
  ASSUME LlmInv, NEW c \in Caller, NEW k \in Call, ask' = [ask EXCEPT ![c] = k],
         k.phase # "await", starts' = starts
  PROVE  OneStart'
<1>1. Waiting' \subseteq Waiting
  BY DEF Waiting, LlmInv, LlmTyped
<1> QED
  BY <1>1 DEF LlmInv, OneStart

\* A call begins.
LEMMA AskInv ==
  ASSUME LlmInv, NEW c \in Caller, Ask(c)
  PROVE  LlmInv'
<1> DEFINE fresh == [Idle EXCEPT !.used = ask[c].used + 1, !.owed = trained]
<1>1. /\ UNCHANGED <<settings, service, starts, file, runtimeCache, training, trained>>
      /\ ask[c] \in Call /\ health \in [error : BOOLEAN, later : BOOLEAN] /\ file.time \in Nat
      /\ starts \in Nat /\ trained \in Trainer \cup {None}
  BY DEF Ask, LlmInv, LlmTyped
<1>2. ask[c].used + 1 \in Nat
  BY <1>1 DEF Call
<1>3. /\ fresh \in Call
      /\ fresh.phase = "idle" /\ fresh.fetches = 0 /\ fresh.answer = "none" /\ fresh.owed = trained
      /\ fresh.read = 0 /\ fresh.refused = FALSE
  BY <1>1, <1>2 DEF Idle, Call
<1>4. FileFresh'
  BY <1>1 DEF LlmInv, FileFresh, Busy
<1>5. runtimeCache' \in [model : Trainer \cup {None, 0}, time : Nat]
  BY <1>1 DEF LlmInv, LlmTyped
<1>6. CASE settings.mode = "disabled"
  <2>1. PICK answer \in {"error", "empty"} :
          /\ Asked(c, [fresh EXCEPT !.phase = "ended", !.answer = answer])
          /\ health' = IF answer = "error" THEN RecordLlmError(health) ELSE health
    BY <1>6, Zenon DEF Ask
  <2> DEFINE k == [fresh EXCEPT !.phase = "ended", !.answer = answer]
  <2> HIDE DEF fresh
  <2>2. /\ k.phase = "ended" /\ k.fetches = 0 /\ k.answer = answer /\ k.owed = trained
        /\ k.read = 0
    BY <1>3 DEF Call
  <2>3. k \in Call
    BY <1>3 DEF Call
  <2> HIDE DEF k
  <2>4. health' \in [error : BOOLEAN, later : BOOLEAN] /\ (health.error => health'.error)
    BY <1>1, <2>1 DEF RecordLlmError
  <2>5. CallOK(k, health'.error) /\ Owed(k, trained) /\ k.read <= file.time
    BY <1>1, <1>6, <2>2 DEF CallOK, Owed, Remote
  <2>6. ask' = [ask EXCEPT ![c] = k] /\ k.phase # "await"
    BY <2>1, <2>2 DEF Asked, k
  <2> QED
    BY <1>1, <1>4, <1>5, <2>3, <2>4, <2>5, <2>6, NoWait, OneCall
<1>7. CASE settings.mode # "disabled"
  <2> DEFINE k == [fresh EXCEPT !.phase = IF Remote THEN "fetch" ELSE "stat"]
  <2>1. ask' = [ask EXCEPT ![c] = k] /\ health' = health
    BY <1>7, Zenon DEF Ask, Asked
  <2> HIDE DEF fresh
  <2>2. /\ k.phase = (IF Remote THEN "fetch" ELSE "stat") /\ k.fetches = 0 /\ k.answer = "none"
        /\ k.owed = trained /\ k.read = 0 /\ k.refused = FALSE
    BY <1>3 DEF Call
  <2>3. k \in Call /\ k.phase # "await"
    BY <1>3, <2>2 DEF Call
  <2> HIDE DEF k
  <2>4. CallOK(k, health'.error) /\ Owed(k, trained) /\ k.read <= file.time
    BY <1>1, <1>7, <2>2 DEF CallOK, MayServe, Owed
  <2> QED
    BY <1>1, <1>4, <1>5, <2>1, <2>3, <2>4, NoWait, OneCall DEF k
<1> QED
  BY <1>6, <1>7
\* A remote failure hands the call to the local model, or ends it.
LEMMA RemoteFailsInv ==
  ASSUME LlmInv, NEW c \in Caller, NEW call \in Call, health' = [error |-> TRUE, later |-> FALSE],
         ask' = [ask EXCEPT ![c] = IF Strict THEN [call EXCEPT !.phase = "ended", !.answer = "error"]
                                   ELSE [call EXCEPT !.phase = "stat"]],
         Owed(call, trained), call.read <= file.time, Remote, call.answer = "none",
         call.fetches > 0, call.fetches <= 2, call.fetches = 2 => call.refused,
         UNCHANGED <<settings, service, starts, file, runtimeCache, training, trained>>
  PROVE  LlmInv'
<1> DEFINE k == IF Strict THEN [call EXCEPT !.phase = "ended", !.answer = "error"]
                ELSE [call EXCEPT !.phase = "stat"]
<1>1. ask' = [ask EXCEPT ![c] = k] /\ health' = [error |-> TRUE, later |-> FALSE]
  OBVIOUS
<1>2. /\ k \in Call /\ k.fetches = call.fetches /\ k.refused = call.refused /\ k.owed = call.owed
      /\ k.read = call.read /\ k.phase = (IF Strict THEN "ended" ELSE "stat")
      /\ k.answer = (IF Strict THEN "error" ELSE "none")
  BY DEF Call
<1> HIDE DEF k
<1>3. settings.mode # "disabled"
  BY DEF Remote
<1>4. CallOK(k, TRUE) /\ Owed(k, trained) /\ k.read <= file.time
  BY <1>2, <1>3 DEF CallOK, MayServe, Owed, Call
<1>5. FileFresh' /\ runtimeCache' \in [model : Trainer \cup {None, 0}, time : Nat] /\ starts' \in Nat
  BY DEF LlmInv, LlmTyped, FileFresh, Busy
<1>6. health' \in [error : BOOLEAN, later : BOOLEAN] /\ health'.error = TRUE
  BY <1>1
<1>7. OneStart'
  BY <1>1, <1>2, NoWait
<1> QED
  BY <1>1, <1>2, <1>4, <1>5, <1>6, <1>7, OneCall

\* A turn of postJson,
LEMMA PostJsonInv ==
  ASSUME LlmInv, NEW c \in Caller, PostJson(c)
  PROVE  LlmInv'
<1> DEFINE sent == [ask[c] EXCEPT !.fetches = @ + 1]
<1>1. /\ UNCHANGED <<settings, service, starts, file, runtimeCache, training, trained>>
      /\ ask[c].phase = "fetch"
      /\ \/ /\ Asked(c, [sent EXCEPT !.phase = "ended", !.answer = "remote"])
            /\ health' = RecordLlmSuccess(health)
         \/ RemoteFails(c, sent)
         \/ /\ ~ask[c].refused
            /\ Asked(c, [sent EXCEPT !.refused = TRUE, !.phase = "probe"])
            /\ health' = health
  BY Zenon DEF PostJson
<1>2. /\ ask[c] \in Call /\ health \in [error : BOOLEAN, later : BOOLEAN]
      /\ CallOK(ask[c], health.error) /\ Owed(ask[c], trained) /\ ask[c].read <= file.time
  BY DEF LlmInv, LlmTyped
<1>3. /\ sent \in Call /\ sent.phase = "fetch" /\ sent.fetches = ask[c].fetches + 1
      /\ sent.refused = ask[c].refused /\ sent.owed = ask[c].owed /\ sent.read = ask[c].read
      /\ sent.answer = ask[c].answer
  BY <1>1, <1>2 DEF Call
<1> HIDE DEF sent
<1>4. /\ Remote /\ ask[c].answer = "none"
      /\ ask[c].fetches = IF ask[c].refused THEN 1 ELSE 0
  BY <1>1, <1>2 DEF CallOK
<1>5. sent.fetches = (IF sent.refused THEN 2 ELSE 1) /\ sent.answer = "none"
  BY <1>3, <1>4
<1>6. FileFresh' /\ runtimeCache' \in [model : Trainer \cup {None, 0}, time : Nat] /\ starts' \in Nat
  BY <1>1 DEF LlmInv, LlmTyped, FileFresh, Busy
<1>7. CASE /\ Asked(c, [sent EXCEPT !.phase = "ended", !.answer = "remote"])
           /\ health' = RecordLlmSuccess(health)
  <2> DEFINE k == [sent EXCEPT !.phase = "ended", !.answer = "remote"]
  <2>1. /\ k \in Call /\ k.phase = "ended" /\ k.answer = "remote" /\ k.fetches = sent.fetches
        /\ k.refused = sent.refused /\ k.owed = sent.owed /\ k.read = sent.read
    BY <1>3 DEF Call
  <2>2. ask' = [ask EXCEPT ![c] = k]
    BY <1>7 DEF Asked
  <2> HIDE DEF k
  <2>3. health' \in [error : BOOLEAN, later : BOOLEAN] /\ health'.error = health.error
    BY <1>2, <1>7 DEF RecordLlmSuccess
  <2>4. CallOK(k, health'.error) /\ Owed(k, trained) /\ k.read <= file.time
    BY <1>2, <1>3, <1>4, <1>5, <2>1 DEF CallOK, Owed
  <2>5. OneStart'
    BY <1>1, <2>1, <2>2, NoWait
  <2> QED
    BY <1>1, <1>6, <2>1, <2>2, <2>3, <2>4, <2>5, OneCall
<1>8. CASE RemoteFails(c, sent)
  <2>1. sent.fetches > 0 /\ sent.fetches <= 2 /\ (sent.fetches = 2 => sent.refused)
    BY <1>5
  <2>2. /\ health' = [error |-> TRUE, later |-> FALSE]
        /\ ask' = [ask EXCEPT ![c] = IF Strict THEN [sent EXCEPT !.phase = "ended", !.answer = "error"]
                                     ELSE [sent EXCEPT !.phase = "stat"]]
    BY <1>8, Zenon DEF RemoteFails, RecordLlmError, Asked
  <2>3. Owed(sent, trained) /\ sent.read <= file.time
    BY <1>2, <1>3, <1>4, <1>5 DEF Owed
  <2> QED
    BY <1>1, <1>3, <1>4, <1>5, <2>1, <2>2, <2>3, RemoteFailsInv
<1>9. CASE /\ ~ask[c].refused /\ health' = health
           /\ Asked(c, [sent EXCEPT !.refused = TRUE, !.phase = "probe"])
  <2> DEFINE k == [sent EXCEPT !.refused = TRUE, !.phase = "probe"]
  <2>1. /\ k \in Call /\ k.phase = "probe" /\ k.answer = "none" /\ k.fetches = 1
        /\ k.refused = TRUE /\ k.owed = sent.owed /\ k.read = sent.read
    BY <1>3, <1>5, <1>9 DEF Call
  <2>2. ask' = [ask EXCEPT ![c] = k]
    BY <1>9 DEF Asked
  <2> HIDE DEF k
  <2>3. CallOK(k, health'.error) /\ Owed(k, trained) /\ k.read <= file.time
    BY <1>2, <1>3, <1>4, <2>1 DEF CallOK, Owed
  <2>4. OneStart'
    BY <1>1, <2>1, <2>2, NoWait
  <2> QED
    BY <1>1, <1>2, <1>6, <1>9, <2>1, <2>2, <2>3, <2>4, OneCall
<1> QED
  BY <1>1, <1>7, <1>8, <1>9

\* a look at the service, which starts it or joins a start,
LEMMA EnsureInv ==
  ASSUME LlmInv, NEW c \in Caller, EnsureLocalQwenService(c)
  PROVE  LlmInv'
<1>1. /\ UNCHANGED <<settings, file, runtimeCache, training, health, trained>>
      /\ ask[c].phase = "probe"
      /\ \/ Asked(c, [ask[c] EXCEPT !.phase = "fetch"]) /\ starts' = starts
         \/ Asked(c, [ask[c] EXCEPT !.phase = "await"]) /\ starts' = IF starts = 0 THEN 1 ELSE starts
  BY DEF EnsureLocalQwenService
<1>2. /\ ask[c] \in Call /\ health \in [error : BOOLEAN, later : BOOLEAN] /\ starts \in Nat
      /\ CallOK(ask[c], health.error) /\ Owed(ask[c], trained) /\ ask[c].read <= file.time
      /\ starts <= 1
  BY DEF LlmInv, LlmTyped, OneStart
<1>3. PICK phase \in {"fetch", "await"} :
        /\ ask' = [ask EXCEPT ![c] = [ask[c] EXCEPT !.phase = phase]]
        /\ phase = "fetch" => starts' = starts
        /\ phase = "await" => starts' = 1
  BY <1>1, <1>2 DEF Asked
<1> DEFINE k == [ask[c] EXCEPT !.phase = phase]
<1>4. /\ k \in Call /\ k.phase = phase /\ k.answer = ask[c].answer /\ k.fetches = ask[c].fetches
      /\ k.refused = ask[c].refused /\ k.owed = ask[c].owed /\ k.read = ask[c].read
  BY <1>2 DEF Call
<1>5. ask' = [ask EXCEPT ![c] = k]
  BY <1>3
<1> HIDE DEF k
<1>6. CallOK(k, health'.error) /\ Owed(k, trained) /\ k.read <= file.time
  BY <1>1, <1>2, <1>4 DEF CallOK, Owed
<1>7. FileFresh' /\ runtimeCache' \in [model : Trainer \cup {None, 0}, time : Nat] /\ starts' \in Nat
  BY <1>1, <1>2, <1>3 DEF LlmInv, LlmTyped, FileFresh, Busy
<1>8. OneStart'
  <2>1. CASE phase = "fetch"
    BY <1>3, <1>4, <1>5, <2>1, NoWait
  <2>2. CASE phase = "await"
    BY <1>3, <2>2 DEF OneStart
  <2> QED
    BY <2>1, <2>2
<1> QED
  BY <1>1, <1>2, <1>4, <1>5, <1>6, <1>7, <1>8, OneCall

\* and the end of a start, for all that wait for it.
LEMMA StartEnds ==
  ASSUME LlmInv, LocalServiceStarted \/ StartTimesOut
  PROVE  LlmInv'
<1>1. /\ UNCHANGED <<settings, file, runtimeCache, training, trained>>
      /\ starts > 0 /\ starts' = starts - 1
      /\ ask \in [Caller -> Call] /\ health \in [error : BOOLEAN, later : BOOLEAN] /\ starts \in Nat
      /\ starts <= 1
  BY DEF LocalServiceStarted, StartTimesOut, LlmInv, LlmTyped, OneStart
<1>2. /\ health' \in [error : BOOLEAN, later : BOOLEAN] /\ (health.error => health'.error)
      /\ (StartTimesOut /\ Waiting # {}) => health'.error
  <2>1. health' = health \/ health' = [error |-> TRUE, later |-> FALSE]
    BY DEF LocalServiceStarted, StartTimesOut, RecordLlmError
  <2>2. ASSUME StartTimesOut, Waiting # {}
        PROVE  health'.error
    BY <2>2 DEF StartTimesOut, RecordLlmError
  <2>3. health' \in [error : BOOLEAN, later : BOOLEAN]
    <3>1. [error |-> TRUE, later |-> FALSE] \in [error : BOOLEAN, later : BOOLEAN]
      OBVIOUS
    <3>2. CASE health' = health
      BY <1>1, <3>2, Zenon
    <3>3. CASE health' = [error |-> TRUE, later |-> FALSE]
      BY <3>1, <3>3, Zenon
    <3> QED
      BY <2>1, <3>2, <3>3
  <2>4. health.error => health'.error
    BY <1>1, <2>1
  <2> QED
    BY <2>2, <2>3, <2>4
<1>3. ASSUME NEW d \in Caller
      PROVE  /\ ask'[d] \in Call /\ ask'[d].phase # "await"
             /\ CallOK(ask'[d], health'.error) /\ Owed(ask'[d], trained) /\ ask'[d].read <= file.time
  <2>1. /\ ask[d] \in Call /\ CallOK(ask[d], health'.error) /\ Owed(ask[d], trained)
        /\ ask[d].read <= file.time
    BY <1>2, FailureAllows DEF LlmInv, LlmTyped
  <2>2. CASE d \notin Waiting
    <3>1. ask'[d] = ask[d]
      BY <2>2 DEF LocalServiceStarted, StartTimesOut
    <3>2. ask[d].phase # "await"
      BY <2>2 DEF Waiting
    <3> QED
      BY <2>1, <3>1, <3>2
  <2>3. CASE d \in Waiting
    <3>1. /\ ask[d].phase = "await" /\ Remote /\ ask[d].fetches = 1 /\ ask[d].refused
          /\ ask[d].answer = "none" /\ settings.mode # "disabled"
      BY <2>1, <2>3 DEF Waiting, CallOK, Remote
    <3>2. CASE LocalServiceStarted
      <4>1. ask'[d] = [ask[d] EXCEPT !.phase = "fetch"]
        BY <2>3, <3>2 DEF LocalServiceStarted
      <4> DEFINE k == [ask[d] EXCEPT !.phase = "fetch"]
      <4>2. /\ k \in Call /\ k.phase = "fetch" /\ k.answer = ask[d].answer /\ k.fetches = ask[d].fetches
            /\ k.refused = ask[d].refused /\ k.owed = ask[d].owed /\ k.read = ask[d].read
        BY <2>1 DEF Call
      <4> HIDE DEF k
      <4>3. CallOK(k, health'.error) /\ Owed(k, trained) /\ k.read <= file.time
        BY <2>1, <3>1, <4>2 DEF CallOK, Owed
      <4> QED
        BY <4>1, <4>2, <4>3 DEF k
    <3>3. CASE StartTimesOut
      <4> DEFINE k == [ask[d] EXCEPT !.phase = IF Strict THEN "ended" ELSE "stat",
                                     !.answer = IF Strict THEN "error" ELSE @]
      <4>1. ask'[d] = k
        BY <2>3, <3>3 DEF StartTimesOut
      <4>2. /\ k \in Call /\ k.phase = (IF Strict THEN "ended" ELSE "stat")
            /\ k.answer = (IF Strict THEN "error" ELSE "none") /\ k.fetches = 1
            /\ k.refused = ask[d].refused /\ k.owed = ask[d].owed /\ k.read = ask[d].read
        BY <2>1, <3>1 DEF Call
      <4> HIDE DEF k
      <4>3. health'.error
        BY <1>2, <2>3, <3>3
      <4>4. CallOK(k, health'.error) /\ Owed(k, trained) /\ k.read <= file.time
        BY <2>1, <3>1, <4>2, <4>3 DEF CallOK, MayServe, Owed
      <4> QED
        BY <4>1, <4>2, <4>4
    <3> QED
      BY <3>2, <3>3
  <2> QED
    BY <2>2, <2>3
<1>4. DOMAIN ask' = Caller /\ ask' = [c \in Caller |-> ask'[c]]
  BY DEF LocalServiceStarted, StartTimesOut
<1>5. ask' \in [Caller -> Call]
  BY <1>3, <1>4
<1>6. LlmTyped'
  BY <1>1, <1>2, <1>5 DEF LlmInv, LlmTyped
<1>7. OneStart' /\ FileFresh'
  BY <1>1, <1>3 DEF LlmInv, FileFresh, Busy, OneStart, Waiting
<1> QED
  BY <1>1, <1>3, <1>6, <1>7, LlmPrimed

\* The service itself is in no call.
LEMMA ServiceChangesInv ==
  ASSUME LlmInv, ServiceChanges
  PROVE  LlmInv'
<1>1. UNCHANGED <<settings, starts, ask, file, runtimeCache, training, health, trained>>
  BY DEF ServiceChanges
<1>2. LlmTyped' /\ OneStart' /\ FileFresh'
  BY <1>1 DEF LlmInv, LlmTyped, OneStart, Waiting, FileFresh, Busy
<1> QED
  BY <1>1, <1>2, LlmPrimed DEF LlmInv

\* The local model answers a call that may be answered so, with the model that is owed,
\* and what is cached then is of the file as it is, of an older one or of none.
LEMMA MiniAnswersInv ==
  ASSUME LlmInv, NEW c \in Caller, NEW model \in Trainer \cup {None, 0}, MiniAnswers(c, model),
         ask[c].phase \in {"stat", "read"}, trained # None => ask[c].owed = None \/ model = trained,
         UNCHANGED <<settings, starts, file, training, trained>>,
         runtimeCache' \in [model : Trainer \cup {None, 0}, time : Nat], FileFresh'
  PROVE  LlmInv'
<1> DEFINE k == [ask[c] EXCEPT !.phase = "ended", !.answer = "mini", !.model = model]
<1>1. /\ ask' = [ask EXCEPT ![c] = k] /\ health' = RecordLlmSuccess(health)
  BY Zenon DEF MiniAnswers, Asked, Finished
<1>2. /\ ask[c] \in Call /\ health \in [error : BOOLEAN, later : BOOLEAN] /\ starts \in Nat
      /\ CallOK(ask[c], health.error) /\ Owed(ask[c], trained) /\ ask[c].read <= file.time
  BY DEF LlmInv, LlmTyped
<1>3. /\ k \in Call /\ k.phase = "ended" /\ k.answer = "mini" /\ k.model = model
      /\ k.fetches = ask[c].fetches /\ k.refused = ask[c].refused /\ k.owed = ask[c].owed
      /\ k.read = ask[c].read
  BY <1>2 DEF Call
<1> HIDE DEF k
<1>4. health' \in [error : BOOLEAN, later : BOOLEAN] /\ health'.error = health.error
  BY <1>1, <1>2 DEF RecordLlmSuccess
<1>5. CallOK(k, health'.error)
  BY <1>2, <1>3, <1>4 DEF CallOK
<1>6. Owed(k, trained) /\ k.read <= file.time
  BY <1>2, <1>3 DEF Owed
<1>7. OneStart'
  BY <1>1, <1>3, NoWait
<1> QED
  BY <1>1, <1>2, <1>3, <1>4, <1>5, <1>6, <1>7, OneCall

\* A model is made up only when none has been trained that must serve.
LEMMA EphemeralInv ==
  ASSUME LlmInv, NEW c \in Caller, Ephemeral(c), ask[c].phase \in {"stat", "read"}, trained = None,
         UNCHANGED <<settings, starts, file, training, trained>>
  PROVE  LlmInv'
<1>1. /\ runtimeCache \in [model : Trainer \cup {None, 0}, time : Nat]
      /\ file.time \in Nat /\ runtimeCache.time <= file.time
  BY DEF LlmInv, LlmTyped, FileFresh
<1>2. runtimeCache' = runtimeCache \/ runtimeCache' = [model |-> 0, time |-> 0]
  BY DEF Ephemeral
<1>3. /\ runtimeCache' \in [model : Trainer \cup {None, 0}, time : Nat]
      /\ runtimeCache'.time <= file.time
  <2>1. CASE runtimeCache' = runtimeCache
    BY <1>1, <2>1
  <2>2. CASE runtimeCache' = [model |-> 0, time |-> 0]
    BY <1>1, <2>2
  <2> QED
    BY <1>2, <2>1, <2>2
<1>4. FileFresh'
  BY <1>3 DEF LlmInv, FileFresh, Busy
<1> QED
  BY <1>3, <1>4, MiniAnswersInv DEF Ephemeral

\* The file is looked at: the cache serves, or the file is to be read.
LEMMA StatModelInv ==
  ASSUME LlmInv, NEW c \in Caller, StatModel(c)
  PROVE  LlmInv'
<1>1. /\ ask[c].phase = "stat" /\ UNCHANGED <<settings, service, starts, file, training, trained>>
  BY DEF StatModel
<1>2. /\ ask[c] \in Call /\ health \in [error : BOOLEAN, later : BOOLEAN] /\ starts \in Nat
      /\ CallOK(ask[c], health.error) /\ Owed(ask[c], trained) /\ file.time \in Nat
      /\ runtimeCache \in [model : Trainer \cup {None, 0}, time : Nat]
      /\ FileFresh /\ trained \in Trainer \cup {None}
  BY DEF LlmInv, LlmTyped
<1>3. CASE file.model = None
  <2>1. trained = None
    BY <1>2, <1>3, LlmAssumption DEF FileFresh, None
  <2> QED
    BY <1>1, <1>3, <2>1, EphemeralInv DEF StatModel
<1>4. CASE file.model # None /\ runtimeCache.model > 0 /\ runtimeCache.time = file.time
  <2>1. MiniAnswers(c, runtimeCache.model) /\ runtimeCache' = runtimeCache
    BY <1>4 DEF StatModel
  <2>2. FileFresh'
    BY <1>1, <1>2, <2>1 DEF FileFresh, Busy
  <2>3. trained # None => runtimeCache.model = trained
    BY <1>2, <1>4 DEF FileFresh
  <2> QED
    BY <1>1, <1>2, <2>1, <2>2, <2>3, MiniAnswersInv
<1>5. CASE file.model # None /\ ~(runtimeCache.model > 0 /\ runtimeCache.time = file.time)
  <2> DEFINE k == [ask[c] EXCEPT !.phase = "read", !.read = file.time]
  <2>1. ask' = [ask EXCEPT ![c] = k] /\ runtimeCache' = runtimeCache /\ health' = health
    BY <1>5 DEF StatModel, Asked
  <2>2. /\ k \in Call /\ k.phase = "read" /\ k.answer = ask[c].answer /\ k.fetches = ask[c].fetches
        /\ k.refused = ask[c].refused /\ k.owed = ask[c].owed /\ k.read = file.time
    BY <1>2 DEF Call
  <2> HIDE DEF k
  <2>3. CallOK(k, health'.error) /\ Owed(k, trained) /\ k.read <= file.time
    BY <1>1, <1>2, <2>1, <2>2 DEF CallOK, Owed
  <2>4. FileFresh'
    BY <1>1, <1>2, <2>1 DEF FileFresh, Busy
  <2>5. OneStart'
    BY <1>1, <2>1, <2>2, NoWait
  <2> QED
    BY <1>1, <1>2, <2>1, <2>2, <2>3, <2>4, <2>5, OneCall
<1> QED
  BY <1>3, <1>4, <1>5

\* The file is read, and cached with the time it was looked at.
LEMMA ReadModelInv ==
  ASSUME LlmInv, NEW c \in Caller, ReadModel(c)
  PROVE  LlmInv'
<1>1. /\ ask[c].phase = "read" /\ UNCHANGED <<settings, service, starts, file, training, trained>>
  BY DEF ReadModel
<1>2. /\ ask[c] \in Call /\ ask[c].read <= file.time /\ file.time \in Nat
      /\ file.model \in Trainer \cup {None} /\ FileFresh /\ ask[c].read \in Nat
  BY DEF LlmInv, LlmTyped, Call
<1>3. CASE file.torn
  <2>1. trained = None
    BY <1>2, <1>3 DEF FileFresh
  <2> QED
    BY <1>1, <1>3, <2>1, EphemeralInv DEF ReadModel
<1>4. CASE ~file.torn
  <2>1. MiniAnswers(c, file.model) /\ runtimeCache' = [model |-> file.model, time |-> ask[c].read]
    BY <1>4 DEF ReadModel
  <2>2. trained # None => file.model = trained
    BY <1>2 DEF FileFresh
  <2>3. FileFresh'
    BY <1>1, <1>2, <2>1, <2>2 DEF FileFresh, Busy
  <2>4. runtimeCache' \in [model : Trainer \cup {None, 0}, time : Nat]
    BY <1>2, <2>1
  <2> QED
    BY <1>1, <1>2, <2>1, <2>2, <2>3, <2>4, MiniAnswersInv
<1> QED
  BY <1>3, <1>4

\* The steps of a training: what is owed is settled anew, and the file is of another time,
LEMMA WriteModelInv ==
  ASSUME LlmInv, NEW t \in Trainer, WriteModel(t)
  PROVE  LlmInv'
<1>1. /\ training[t].phase = "collecting" /\ trained' = None
      /\ UNCHANGED <<settings, service, starts, runtimeCache, health>>
      /\ file' = [file EXCEPT !.model = t, !.torn = TRUE, !.time = @ + 1]
      /\ training' = [u \in Trainer |-> IF u = t THEN [phase |-> "writing", alone |-> Busy = {}]
                                        ELSE [training[u] EXCEPT !.alone = @ /\ u \notin Busy]]
      /\ ask' = [c \in Caller |-> [ask[c] EXCEPT !.owed = None]]
  BY DEF WriteModel
<1>2. /\ ask \in [Caller -> Call] /\ training \in [Trainer -> Training]
      /\ file \in [model : Trainer \cup {None}, torn : BOOLEAN, time : Nat]
      /\ runtimeCache.time \in Nat /\ runtimeCache.time <= file.time /\ FileFresh
  BY DEF LlmInv, LlmTyped, FileFresh
<1>3. /\ file' \in [model : Trainer \cup {None}, torn : BOOLEAN, time : Nat]
      /\ file'.time = file.time + 1 /\ file.time \in Nat
  <2> DEFINE later == file.time + 1
  <2>1. file.time \in Nat /\ later \in Nat /\ later = file.time + 1
    BY <1>2
  <2>2. file' = [file EXCEPT !.model = t, !.torn = TRUE, !.time = later]
    BY <1>1, Zenon
  <2> HIDE DEF later
  <2>3. file' \in [model : Trainer \cup {None}, torn : BOOLEAN, time : Nat] /\ file'.time = later
    BY <1>2, <2>1, <2>2
  <2> QED
    BY <2>1, <2>3
<1>4. ASSUME NEW u \in Trainer
      PROVE  /\ training'[u] \in Training
             /\ training'[u].phase = (IF u = t THEN "writing" ELSE training[u].phase)
             /\ u \in Busy' <=> u \in Busy \/ u = t
             /\ u \in Busy' /\ training'[u].alone => u = t /\ Busy = {}
  <2>1. training[u] \in Training
    BY <1>2
  <2>2. CASE u = t
    <3>1. training'[u] = [phase |-> "writing", alone |-> Busy = {}]
      BY <1>1, <2>2
    <3> DEFINE alone == Busy = {}
    <3>2. alone \in BOOLEAN /\ (alone => Busy = {})
      BY Zenon
    <3>3. training'[u] = [phase |-> "writing", alone |-> alone]
      BY <3>1
    <3> HIDE DEF alone
    <3>4. training'[u] \in Training /\ training'[u].phase = "writing" /\ training'[u].alone = alone
      BY <3>2, <3>3 DEF Training
    <3>5. u \in Busy'
      BY <3>4 DEF Busy
    <3> QED
      BY <2>2, <3>2, <3>4, <3>5
  <2>3. CASE u # t
    <3> DEFINE alone == training[u].alone /\ u \notin Busy
    <3>1. training'[u] = [training[u] EXCEPT !.alone = alone]
      BY <1>1, <2>3
    <3>2. alone \in BOOLEAN
      BY Zenon
    <3>3. alone => u \notin Busy
      OBVIOUS
    <3> HIDE DEF alone
    <3>4. /\ training'[u] \in Training /\ training'[u].phase = training[u].phase
          /\ training'[u].alone = alone
      BY <2>1, <3>1, <3>2 DEF Training
    <3> QED
      BY <2>3, <3>3, <3>4 DEF Busy
  <2> QED
    BY <2>2, <2>3
<1>5. ASSUME NEW d \in Caller
      PROVE  /\ ask'[d] \in Call /\ ask'[d].phase = ask[d].phase
             /\ CallOK(ask'[d], health.error) /\ Owed(ask'[d], trained') /\ ask'[d].read <= file'.time
  <2> DEFINE k == [ask[d] EXCEPT !.owed = None]
  <2>1. /\ ask[d] \in Call /\ CallOK(ask[d], health.error) /\ ask[d].read <= file.time /\ ask'[d] = k
    BY <1>1 DEF LlmInv, LlmTyped
  <2>2. /\ k \in Call /\ k.phase = ask[d].phase /\ k.answer = ask[d].answer
        /\ k.fetches = ask[d].fetches /\ k.refused = ask[d].refused /\ k.owed = None
        /\ k.read = ask[d].read
    BY <2>1 DEF Call
  <2> HIDE DEF k
  <2>3. CallOK(k, health.error) /\ Owed(k, trained')
    BY <2>1, <2>2 DEF CallOK, Owed
  <2>4. k.read <= file'.time
    BY <1>3, <2>1, <2>2 DEF Call
  <2> QED
    BY <2>1, <2>2, <2>3, <2>4
<1>6. LlmTyped'
  <2>1. ask' \in [Caller -> Call] /\ training' \in [Trainer -> Training]
    BY <1>1, <1>4, <1>5
  <2> QED
    BY <1>1, <1>3, <2>1 DEF LlmInv, LlmTyped
<1>7. OneStart'
  BY <1>1, <1>5 DEF LlmInv, OneStart, Waiting
<1>8. FileFresh'
  <2>1. \A u \in Trainer : u \in Busy' /\ training'[u].alone => Busy' = {u}
    <3> SUFFICES ASSUME NEW u \in Trainer, u \in Busy', training'[u].alone
                 PROVE  \A v \in Trainer : v \in Busy' <=> v = u
      BY DEF Busy
    <3> QED
      BY <1>4
  <2> QED
    BY <1>1, <1>2, <1>3, <2>1 DEF FileFresh
<1> QED
  BY <1>1, <1>5, <1>6, <1>7, <1>8, LlmPrimed

\* the file is whole again when its one writer is done,
LEMMA ModelWrittenInv ==
  ASSUME LlmInv, NEW t \in Trainer, ModelWritten(t)
  PROVE  LlmInv'
<1>1. /\ training[t].phase = "writing"
      /\ training' = [training EXCEPT ![t] = [training[t] EXCEPT !.phase = "stat"]]
      /\ trained' = IF training[t].alone THEN t ELSE None
      /\ UNCHANGED <<settings, service, starts, ask, runtimeCache, health>>
  BY DEF ModelWritten
<1>2. PICK torn \in IF training[t].alone THEN {FALSE} ELSE BOOLEAN :
        file' = [model |-> t, torn |-> torn, time |-> file.time + 1]
  BY DEF ModelWritten
<1>3. /\ training \in [Trainer -> Training] /\ training[t] \in Training
      /\ file.time \in Nat /\ file.time + 1 \in Nat
      /\ runtimeCache.time \in Nat /\ runtimeCache.time <= file.time /\ FileFresh
      /\ trained = None
  BY <1>1 DEF LlmInv, LlmTyped, FileFresh
<1>4. /\ file'.model = t /\ file'.time = file.time + 1 /\ (training[t].alone => ~file'.torn)
      /\ file' \in [model : Trainer \cup {None}, torn : BOOLEAN, time : Nat]
  BY <1>2, <1>3
<1>5. ASSUME NEW u \in Trainer
      PROVE  /\ training'[u] \in Training /\ training'[u].alone = training[u].alone
             /\ training'[u].phase = (IF u = t THEN "stat" ELSE training[u].phase)
             /\ u \in Busy' <=> u \in Busy
  <2> DEFINE k == [training[t] EXCEPT !.phase = "stat"]
  <2>1. k \in Training /\ k.phase = "stat" /\ k.alone = training[t].alone
    BY <1>3 DEF Training
  <2>2. training'[u] = IF u = t THEN k ELSE training[u]
    BY <1>1, <1>3
  <2> HIDE DEF k
  <2>3. training[u] \in Training
    BY <1>3
  <2>4. CASE u = t
    BY <1>1, <2>1, <2>2, <2>4 DEF Busy
  <2>5. CASE u # t
    BY <2>2, <2>3, <2>5 DEF Busy
  <2> QED
    BY <2>4, <2>5
<1>6. LlmTyped'
  <2>1. training' \in [Trainer -> Training]
    BY <1>1, <1>3, <1>5
  <2>2. trained' \in Trainer \cup {None}
    BY <1>1
  <2> QED
    BY <1>1, <1>4, <2>1, <2>2 DEF LlmInv, LlmTyped
<1>7. FileFresh'
  <2>1. Busy' = Busy
    BY <1>5 DEF Busy
  <2>2. training[t].alone => Busy = {t}
    BY <1>1, <1>3 DEF FileFresh, Busy
  <2>3. ASSUME NEW u \in Trainer
        PROVE  /\ training'[u].phase = "writing" => trained' = None
               /\ u \in Busy' /\ training'[u].alone => Busy' = {u}
               /\ training'[u].phase = "stat" /\ trained' # None => u = trained'
    <3>1. u \in Busy /\ training[u].alone => Busy = {u}
      BY <1>3 DEF FileFresh
    <3>2. training[u].phase \in {"writing", "stat"} => u \in Busy
      BY DEF Busy
    <3>3. training[t].alone => (u \in Busy => u = t)
      BY <2>2
    <3>4. training'[u].phase = "writing" => u # t /\ u \in Busy
      BY <1>5, <3>2
    <3>5. training'[u].phase = "stat" => u = t \/ u \in Busy
      BY <1>5, <3>2
    <3> QED
      BY <1>1, <1>5, <2>1, <3>1, <3>3, <3>4, <3>5
  <2>4. runtimeCache'.time # file'.time /\ runtimeCache'.time <= file'.time
    BY <1>1, <1>3, <1>4
  <2>5. trained' # None => file'.model = trained' /\ ~file'.torn
    BY <1>1, <1>4
  <2> QED
    BY <2>3, <2>4, <2>5 DEF FileFresh
<1>8. OneStart'
  BY <1>1 DEF LlmInv, OneStart, Waiting
<1>9. ASSUME NEW d \in Caller
      PROVE  /\ CallOK(ask'[d], health'.error) /\ Owed(ask'[d], trained') /\ ask'[d].read <= file'.time
  <2>1. /\ ask[d] \in Call /\ CallOK(ask[d], health.error) /\ Owed(ask[d], trained)
        /\ ask[d].read <= file.time
    BY DEF LlmInv, LlmTyped
  <2>2. ask[d].owed = None
    BY <1>3, <2>1 DEF Owed
  <2>3. ask[d].read <= file'.time
    BY <1>3, <1>4, <2>1 DEF Call
  <2> QED
    BY <1>1, <2>1, <2>2, <2>3 DEF Owed
<1> QED
  BY <1>1, <1>6, <1>7, <1>8, <1>9, LlmPrimed

\* and cached.
LEMMA CacheTrainedInv ==
  ASSUME LlmInv, NEW t \in Trainer, CacheTrained(t)
  PROVE  LlmInv'
<1>1. /\ training[t].phase = "stat"
      /\ training' = [training EXCEPT ![t] = [training[t] EXCEPT !.phase = "done"]]
      /\ runtimeCache' = [model |-> t, time |-> file.time]
      /\ UNCHANGED <<settings, service, starts, ask, file, health, trained>>
  BY DEF CacheTrained
<1>2. /\ training \in [Trainer -> Training] /\ training[t] \in Training
      /\ file.time \in Nat /\ FileFresh /\ (trained # None => t = trained)
  BY <1>1 DEF LlmInv, LlmTyped, FileFresh
<1>3. ASSUME NEW u \in Trainer
      PROVE  /\ training'[u] \in Training /\ training'[u].alone = training[u].alone
             /\ training'[u].phase = (IF u = t THEN "done" ELSE training[u].phase)
             /\ u \in Busy' <=> u \in Busy /\ u # t
  <2> DEFINE k == [training[t] EXCEPT !.phase = "done"]
  <2>1. k \in Training /\ k.phase = "done" /\ k.alone = training[t].alone
    BY <1>2 DEF Training
  <2>2. training'[u] = IF u = t THEN k ELSE training[u]
    BY <1>1, <1>2
  <2> HIDE DEF k
  <2>3. training[u] \in Training
    BY <1>2
  <2>4. CASE u = t
    BY <2>1, <2>2, <2>4 DEF Busy
  <2>5. CASE u # t
    BY <2>2, <2>3, <2>5 DEF Busy
  <2> QED
    BY <2>4, <2>5
<1>4. runtimeCache' \in [model : Trainer \cup {None, 0}, time : Nat]
  BY <1>1, <1>2
<1>5. LlmTyped'
  <2>1. training' \in [Trainer -> Training]
    BY <1>1, <1>2, <1>3
  <2> QED
    BY <1>1, <1>4, <2>1 DEF LlmInv, LlmTyped
<1>6. FileFresh'
  <2>1. ASSUME NEW u \in Trainer
        PROVE  /\ training'[u].phase = "writing" => trained' = None
               /\ u \in Busy' /\ training'[u].alone => Busy' = {u}
               /\ training'[u].phase = "stat" /\ trained' # None => u = trained'
    <3>1. /\ training[u].phase = "writing" => trained = None
          /\ u \in Busy /\ training[u].alone => Busy = {u}
          /\ training[u].phase = "stat" /\ trained # None => u = trained
      BY <1>2 DEF FileFresh
    <3>2. Busy' \subseteq Busy
      BY <1>3 DEF Busy
    <3> QED
      BY <1>1, <1>3, <3>1, <3>2
  <2>2. runtimeCache'.model = t /\ runtimeCache'.time = file.time
    BY <1>1
  <2>3. /\ runtimeCache'.time <= file'.time
        /\ trained' # None => /\ file'.model = trained' /\ ~file'.torn
                              /\ runtimeCache'.model = trained'
    BY <1>1, <1>2, <2>2 DEF FileFresh
  <2> QED
    BY <2>1, <2>3 DEF FileFresh
<1>7. OneStart'
  BY <1>1 DEF LlmInv, OneStart, Waiting
<1> QED
  BY <1>1, <1>5, <1>6, <1>7, LlmPrimed DEF LlmInv

\* With the process its calls, its trainings and its cache end; the file stays as it is.
LEMMA RestartsInv ==
  ASSUME LlmInv, Restarts
  PROVE  LlmInv'
<1>1. /\ ask' = [c \in Caller |-> [Idle EXCEPT !.used = ask[c].used]]
      /\ training' = [t \in Trainer |-> IF training[t].phase = "collecting" THEN training[t]
                                        ELSE [training[t] EXCEPT !.phase = "done"]]
      /\ starts' = 0 /\ runtimeCache' = [model |-> None, time |-> 0]
      /\ health' = [error |-> FALSE, later |-> FALSE]
      /\ settings' = settings /\ file' = file /\ trained' = trained
  BY DEF Restarts
<1>2. file.time \in Nat /\ FileFresh
  BY DEF LlmInv, LlmTyped
<1>3. ASSUME NEW d \in Caller
      PROVE  /\ ask'[d] \in Call /\ ask'[d].phase = "idle" /\ ask'[d].owed = None /\ ask'[d].read = 0
             /\ CallOK(ask'[d], health'.error)
  <2>1. ask[d] \in Call
    BY DEF LlmInv, LlmTyped
  <2> DEFINE k == [Idle EXCEPT !.used = ask[d].used]
  <2>2. /\ k \in Call /\ k.phase = "idle" /\ k.owed = None /\ k.read = 0 /\ k.fetches = 0
        /\ k.answer = "none"
    BY <2>1 DEF Idle, Call
  <2>3. ask'[d] = k
    BY <1>1
  <2> HIDE DEF k
  <2>4. CallOK(k, health'.error)
    BY <2>2 DEF CallOK
  <2> QED
    BY <2>2, <2>3, <2>4
<1>4. ASSUME NEW u \in Trainer
      PROVE  training'[u] \in Training /\ training'[u].phase \in {"collecting", "done"}
  <2>1. training[u] \in Training
    BY DEF LlmInv, LlmTyped
  <2>2. training'[u] = IF training[u].phase = "collecting" THEN training[u]
                       ELSE [training[u] EXCEPT !.phase = "done"]
    BY <1>1
  <2> QED
    BY <2>1, <2>2 DEF Training
<1>5. LlmTyped'
  <2>1. ask' \in [Caller -> Call] /\ training' \in [Trainer -> Training]
    BY <1>1, <1>3, <1>4
  <2> QED
    BY <1>1, <2>1 DEF LlmInv, LlmTyped
<1>6. FileFresh'
  <2>1. Busy' = {} /\ \A u \in Trainer : training'[u].phase \notin {"writing", "stat"}
    BY <1>4 DEF Busy
  <2>2. /\ runtimeCache'.model = None /\ runtimeCache'.time = 0 /\ ~(None > 0)
    BY <1>1 DEF None
  <2> QED
    BY <1>1, <1>2, <2>1, <2>2 DEF FileFresh
<1>7. OneStart'
  <2>1. Waiting' = {}
    BY <1>3 DEF Waiting
  <2>2. starts' = 0
    BY <1>1
  <2> QED
    BY <2>1, <2>2 DEF OneStart
<1>8. ASSUME NEW d \in Caller
      PROVE  Owed(ask'[d], trained') /\ ask'[d].read <= file'.time
  <2>1. Owed(ask'[d], trained')
    BY <1>3 DEF Owed
  <2>2. file' = file /\ 0 <= file.time
    BY <1>1, <1>2
  <2>3. ask'[d].read <= file'.time
    BY <1>3, <2>2
  <2> QED
    BY <2>1, <2>3
<1>9. settings' = settings
  BY <1>1
<1> QED
  BY <1>3, <1>5, <1>6, <1>7, <1>8, <1>9, LlmPrimed

\* Every step keeps it.
LEMMA LlmStep == LlmInv /\ [LlmNext]_llmVars => LlmInv'
<1> SUFFICES ASSUME LlmInv, [LlmNext]_llmVars PROVE LlmInv'
  OBVIOUS
<1>1. CASE \E c \in Caller : Ask(c) \/ CallStep(c)
  BY <1>1, AskInv, PostJsonInv, EnsureInv, StatModelInv, ReadModelInv DEF CallStep
<1>2. CASE LocalServiceStarted \/ StartTimesOut
  BY <1>2, StartEnds
<1>3. CASE ServiceChanges
  BY <1>3, ServiceChangesInv
<1>4. CASE \E t \in Trainer : WriteModel(t) \/ ModelWritten(t) \/ CacheTrained(t)
  BY <1>4, WriteModelInv, ModelWrittenInv, CacheTrainedInv
<1>5. CASE CrashLlm \/ SpawnFails
  BY <1>5, RestartsInv DEF CrashLlm, SpawnFails
<1>6. CASE UNCHANGED llmVars
  <2>1. LlmTyped' /\ OneStart' /\ FileFresh'
    BY <1>6 DEF llmVars, LlmInv, LlmTyped, OneStart, Waiting, FileFresh, Busy
  <2> QED
    BY <1>6, <2>1, LlmPrimed DEF llmVars, LlmInv
<1> QED
  BY <1>1, <1>2, <1>3, <1>4, <1>5, <1>6 DEF LlmNext

\* The local model answers only where it may and then whenever it may, nobody waits for a
\* start that is not under way, nor is one begun beside another, and a call that begins
\* after a training is answered by its model unless another training writes meanwhile:
\* for any callers, trainings and settings and any number of crashes.
THEOREM LocalModelSound == LlmSpec => []LlmSound
<1>1. LlmInv => LlmSound
  <2> SUFFICES ASSUME LlmInv PROVE LlmSound
    OBVIOUS
  <2>1. ASSUME NEW c \in Caller
        PROVE  ask[c] \in Call /\ CallOK(ask[c], health.error) /\ Owed(ask[c], trained)
    BY DEF LlmInv, LlmTyped
  <2>2. AnswersAsConfigured
    <3> SUFFICES ASSUME NEW c \in Caller
                 PROVE  /\ ask[c].answer = "mini" => ~Strict \/ ~Remote
                        /\ ask[c].answer = "mini" /\ Remote => ask[c].fetches > 0 /\ health.error
                        /\ ask[c].answer = "remote" => Remote
                        /\ settings.mode = "disabled" => ask[c].answer \in {"none", "error", "empty"}
                        /\ ask[c].fetches <= 2 /\ (ask[c].fetches = 2 => ask[c].refused)
      BY DEF AnswersAsConfigured
    <3>1. settings.mode = "disabled" => ~Remote
      BY DEF Remote
    <3> QED
      BY <2>1, <3>1 DEF CallOK, MayServe, Call
  <2>3. LocalModelSaves
    BY <2>1 DEF LocalModelSaves, CallOK
  <2>4. ModelFresh
    BY <2>1 DEF ModelFresh, Owed
  <2> QED
    BY <2>2, <2>3, <2>4 DEF LlmSound, LlmInv
<1> QED
  BY <1>1, LlmStart, LlmStep, PTL DEF LlmSpec

-----------------------------------------------------------------------------
(***************************************************************************)
(* The vector index beside the tables.                                     *)
(***************************************************************************)
Held == Id \X Text
Filter == {AllProjects} \cup {ProjectOf[id] : id \in Id}

Put      == [at : {"put"}, ids : SUBSET Id, text : Text, ensured : BOOLEAN]
Removal   == [at : {"remove"}, ids : SUBSET Id, ensured : BOOLEAN]
Querying == [at : {"embed", "query"}, filter : Filter, floor : BOOLEAN, lexical : SUBSET Held, ids : {{}}, ensured : BOOLEAN,
             seen : SUBSET Held]
Found    == [at : {"found"}, filter : Filter, floor : BOOLEAN, found : SUBSET Held, seen : SUBSET Held, lexical : SUBSET Held]

TaskState == {NoTask} \cup Put \cup Removal \cup Querying \cup Found

Tables == [Id -> Text \cup {Absent}]

\* What an operation under way is about to make of its ids.
Writes(k) == IF k.at \in {"put", "remove"} THEN k.ids ELSE {}
Value(k)  == IF k.at = "put" THEN k.text ELSE Absent

\* A match that a search of this filter may return.
Allowed(m, filter) == m[1] \in MainId /\ (filter = AllProjects \/ ProjectOf[m[1]] = filter)

\* A search has seen what the tables hold, and has from them only what it may return.
SeenOK(k, texts) ==
  k.at \in {"embed", "query"} =>
    /\ Now(texts) \subseteq k.seen /\ k.lexical \subseteq k.seen
    /\ \A m \in k.lexical : Allowed(m, k.filter)

FoundOK(k) ==
  k.at = "found" =>
    /\ k.found \subseteq k.seen
    /\ \A m \in k.found : Allowed(m, k.filter)
    /\ ~k.floor /\ Cardinality(k.found) < TopK => k.lexical \subseteq k.found

TaskOK(k, texts) == k \in TaskState /\ SeenOK(k, texts) /\ FoundOK(k)

\* An id that is not shaken is written by one operation, with what its row holds.
Settling ==
  \A id \in Id \ shaken : \A t \in Task : id \in Writes(task[t]) =>
    /\ rows[id] = Value(task[t])
    /\ \A u \in Task : id \in Writes(task[u]) => u = t

IndexInv ==
  /\ rows \in Tables /\ vectors \in Tables /\ task \in [Task -> TaskState] /\ shaken \subseteq Id
  /\ \A t \in Task : TaskOK(task[t], rows)
  /\ Settling /\ IndexFollowsTables

\* An id is pending when an operation is about to write it.
LEMMA PendingIsWritten ==
  ASSUME NEW tasks \in [Task -> TaskState], NEW id
  PROVE  id \in Pending(tasks) <=> \E t \in Task : id \in Writes(tasks[t])
  BY DEF Pending, Writes

\* A task that notes what the tables hold is the task it was.
NotedOne(k, texts) ==
  IF "seen" \in DOMAIN k /\ k.at # "found" THEN [k EXCEPT !.seen = @ \cup Now(texts)] ELSE k

\* What the tables hold are texts of ids.
LEMMA NowHeld ==
  ASSUME NEW texts \in Tables
  PROVE  Now(texts) \subseteq Held
  BY DEF Tables, Now, Held

\* A search that notes what the tables hold has seen it, another task is as it was.
LEMMA NotedOneOK ==
  ASSUME NEW k \in TaskState, NEW before, NEW texts \in Tables, TaskOK(k, before)
  PROVE  /\ TaskOK(NotedOne(k, texts), texts)
         /\ Writes(NotedOne(k, texts)) = Writes(k) /\ Value(NotedOne(k, texts)) = Value(k)
<1>1. CASE k \in Querying
  <2> DEFINE n == [k EXCEPT !.seen = k.seen \cup Now(texts)]
  <2>1. NotedOne(k, texts) = n
    BY <1>1 DEF NotedOne, Querying
  <2>2. /\ n \in Querying /\ n.at = k.at /\ n.seen = k.seen \cup Now(texts) /\ n.lexical = k.lexical
        /\ n.filter = k.filter
    BY <1>1, NowHeld DEF Querying
  <2>3. k.at \in {"embed", "query"}
    BY <1>1 DEF Querying
  <2> HIDE DEF n
  <2>4. n \in TaskState /\ SeenOK(n, texts) /\ FoundOK(n)
    BY <2>2, <2>3 DEF TaskState, TaskOK, SeenOK, FoundOK
  <2>5. Writes(n) = Writes(k) /\ Value(n) = Value(k)
    BY <2>2, <2>3 DEF Writes, Value
  <2> QED
    BY <2>1, <2>4, <2>5 DEF TaskOK
<1>2. CASE k \notin Querying
  <2>1. NotedOne(k, texts) = k
    BY <1>2 DEF NotedOne, TaskState, NoTask, Put, Removal, Found
  <2>2. k.at \notin {"embed", "query"}
    BY <1>2 DEF TaskState, NoTask, Put, Removal, Found
  <2> QED
    BY <2>1, <2>2 DEF TaskOK, SeenOK
<1> QED
  BY <1>1, <1>2

\* Nothing is under way at the start, and what does not follow is shaken.
LEMMA IndexStart == IndexInit => IndexInv
<1> SUFFICES ASSUME IndexInit PROVE IndexInv
  OBVIOUS
<1>1. \A t \in Task : task[t] = NoTask
  BY DEF IndexInit
<1>2. NoTask \in TaskState /\ NoTask.at = "idle"
  BY DEF NoTask, TaskState
<1>3. TaskOK(NoTask, rows) /\ Writes(NoTask) = {}
  BY <1>2 DEF TaskOK, SeenOK, FoundOK, Writes
<1>4. /\ rows \in Tables /\ vectors \in Tables /\ task \in [Task -> TaskState]
      /\ shaken = {id \in Id : vectors[id] # rows[id]}
  BY <1>2 DEF IndexInit, Tables
<1>5. Settling
  BY <1>1, <1>3 DEF Settling
<1>6. IndexFollowsTables
  BY <1>4 DEF IndexFollowsTables
<1> QED
  BY <1>1, <1>3, <1>4, <1>5, <1>6 DEF IndexInv

\* A step that begins or ends no write keeps both halves of the agreement.
LEMMA WritesKept ==
  ASSUME IndexInv, UNCHANGED <<provider, rows, vectors, shaken>>, task' \in [Task -> TaskState],
         \A u \in Task : Writes(task'[u]) = Writes(task[u]) /\ Value(task'[u]) = Value(task[u])
  PROVE  Settling' /\ IndexFollowsTables'
<1>1. Settling'
  BY DEF IndexInv, Settling
<1>2. ASSUME NEW id PROVE id \in Pending(task') <=> id \in Pending(task)
  BY PendingIsWritten DEF IndexInv
<1>3. IndexFollowsTables'
  BY <1>2 DEF IndexInv, IndexFollowsTables
<1> QED
  BY <1>1, <1>3

\* So it is when one task steps that writes nothing, before or after.
LEMMA OneTask ==
  ASSUME IndexInv, UNCHANGED <<provider, rows, vectors, shaken>>, NEW t \in Task, NEW k,
         task' = [task EXCEPT ![t] = k], TaskOK(k, rows),
         Writes(k) = Writes(task[t]), Value(k) = Value(task[t])
  PROVE  IndexInv'
<1>1. task \in [Task -> TaskState] /\ k \in TaskState
  BY DEF IndexInv, TaskOK
<1>2. task' \in [Task -> TaskState] /\ \A u \in Task : task'[u] = IF u = t THEN k ELSE task[u]
  BY <1>1
<1>3. Settling' /\ IndexFollowsTables'
  BY <1>2, WritesKept
<1>4. \A u \in Task : TaskOK(task'[u], rows)
  BY <1>2 DEF IndexInv
<1>5. \A u \in Task : TaskOK(task'[u], rows')
  BY <1>4
<1> QED
  BY <1>2, <1>3, <1>5 DEF IndexInv

\* A write begins: of rows that no other is about to write, the table and the write
\* agree, the others are shaken.
LEMMA WriteBegins ==
  ASSUME IndexInv, UNCHANGED <<provider, vectors>>, NEW t \in Task, task[t] = NoTask,
         NEW k \in Put \cup Removal, rows' \in Tables,
         \A id \in Id : rows'[id] = IF id \in k.ids THEN Value(k) ELSE rows[id],
         \A u \in Task : task'[u] = NotedOne(IF u = t THEN k ELSE task[u], rows'),
         task' = [u \in Task |-> task'[u]],
         shaken' = (shaken \ k.ids) \cup (k.ids \cap Pending(task))
  PROVE  IndexInv'
<1>1. /\ task \in [Task -> TaskState] /\ k \in TaskState /\ k.ids \subseteq Id /\ Writes(k) = k.ids
      /\ shaken \subseteq Id
  BY DEF IndexInv, TaskState, Writes, Put, Removal
<1>2. TaskOK(k, rows)
  BY <1>1 DEF TaskOK, SeenOK, FoundOK, Put, Removal
<1>3. ASSUME NEW u \in Task
      PROVE  /\ TaskOK(task'[u], rows')
             /\ Writes(task'[u]) = (IF u = t THEN k.ids ELSE Writes(task[u]))
             /\ Value(task'[u]) = (IF u = t THEN Value(k) ELSE Value(task[u]))
  <2> DEFINE old == IF u = t THEN k ELSE task[u]
  <2>1. old \in TaskState /\ TaskOK(old, rows) /\ task'[u] = NotedOne(old, rows')
    BY <1>1, <1>2 DEF IndexInv
  <2>2. Writes(old) = (IF u = t THEN k.ids ELSE Writes(task[u])) /\ Value(old) = (IF u = t THEN Value(k) ELSE Value(task[u]))
    BY <1>1
  <2> HIDE DEF old
  <2>3. TaskOK(NotedOne(old, rows'), rows') /\ Writes(NotedOne(old, rows')) = Writes(old)
        /\ Value(NotedOne(old, rows')) = Value(old)
    BY <2>1, NotedOneOK
  <2> QED
    BY <2>1, <2>2, <2>3
<1>4. task' \in [Task -> TaskState]
  BY <1>3 DEF TaskOK
<1>5. Writes(task[t]) = {}
  BY DEF Writes, NoTask
<1>6. ASSUME NEW id
      PROVE  /\ id \in Pending(task) <=> \E u \in Task : id \in Writes(task[u])
             /\ id \in Pending(task') <=> id \in Pending(task) \/ id \in k.ids
  <2>1. id \in Pending(task) <=> \E u \in Task : id \in Writes(task[u])
    BY <1>1, PendingIsWritten
  <2>2. id \in Pending(task') <=> \E u \in Task : id \in Writes(task'[u])
    BY <1>4, PendingIsWritten
  <2> QED
    BY <1>3, <1>5, <2>1, <2>2
<1>7. ASSUME NEW id \in Id \ shaken', NEW u \in Task, id \in Writes(task'[u])
      PROVE  /\ rows'[id] = Value(task'[u])
             /\ \A w \in Task : id \in Writes(task'[w]) => w = u
  <2>1. CASE id \in k.ids
    <3>1. \A w \in Task : id \notin Writes(task[w])
      BY <1>6, <2>1
    <3>2. u = t
      BY <1>3, <1>7, <3>1
    <3> QED
      BY <1>3, <2>1, <3>1, <3>2
  <2>2. CASE id \notin k.ids
    <3>1. id \in Id \ shaken /\ rows'[id] = rows[id] /\ u # t /\ id \in Writes(task[u])
      BY <1>3, <1>7, <2>2
    <3>2. rows[id] = Value(task[u]) /\ \A w \in Task : id \in Writes(task[w]) => w = u
      BY <3>1 DEF IndexInv, Settling
    <3> QED
      BY <1>3, <2>2, <3>1, <3>2
  <2> QED
    BY <2>1, <2>2
<1>8. Settling'
  BY <1>7 DEF Settling
<1>9. ASSUME NEW id \in Id \ (shaken' \cup Pending(task'))
      PROVE  vectors'[id] = rows'[id] \/ (provider' = "chroma" /\ rows'[id] = Absent)
  <2>1. id \notin k.ids /\ id \notin Pending(task) /\ id \notin shaken
    BY <1>6
  <2> QED
    BY <2>1 DEF IndexInv, IndexFollowsTables
<1>10. IndexFollowsTables'
  BY <1>9 DEF IndexFollowsTables
<1>11. shaken' \subseteq Id /\ vectors' \in Tables
  BY <1>1 DEF IndexInv
<1> QED
  BY <1>3, <1>4, <1>8, <1>10, <1>11 DEF IndexInv

\* upsertMemory: the row, and its vector or the memory of none,
LEMMA UpsertInv ==
  ASSUME IndexInv, NEW t \in Task, NEW id \in Id, NEW text \in Text, Upsert(t, id, text)
  PROVE  IndexInv'
<1>1. /\ task[t] = NoTask /\ UNCHANGED <<provider, vectors>>
      /\ rows' = [rows EXCEPT ![id] = text] /\ rows \in Tables /\ task \in [Task -> TaskState]
      /\ vectors \in Tables /\ shaken \subseteq Id
  BY DEF Upsert, IndexInv
<1>2. rows' \in Tables /\ \A i \in Id : rows'[i] = IF i = id THEN text ELSE rows[i]
  BY <1>1 DEF Tables
<1>3. CASE cooldown
  <2>1. task' = Noted(task, rows') /\ shaken' = shaken \cup {id}
    BY <1>3 DEF Upsert
  <2>2. task' = [u \in Task |-> NotedOne(task[u], rows')]
    BY <2>1, Zenon DEF Noted, NotedOne
  <2>3. ASSUME NEW u \in Task
        PROVE  /\ TaskOK(task'[u], rows') /\ Writes(task'[u]) = Writes(task[u])
               /\ Value(task'[u]) = Value(task[u])
    <3>1. task[u] \in TaskState /\ TaskOK(task[u], rows)
      BY <1>1 DEF IndexInv
    <3> QED
      BY <1>2, <2>2, <3>1, NotedOneOK
  <2>4. task' \in [Task -> TaskState]
    BY <2>2, <2>3 DEF TaskOK
  <2>5. Settling'
    BY <1>2, <2>1, <2>3 DEF IndexInv, Settling
  <2>6. ASSUME NEW i PROVE i \in Pending(task') <=> i \in Pending(task)
    BY <1>1, <2>3, <2>4, PendingIsWritten
  <2>7. IndexFollowsTables'
    BY <1>1, <1>2, <2>1, <2>6 DEF IndexInv, IndexFollowsTables
  <2> QED
    BY <1>1, <1>2, <2>1, <2>3, <2>4, <2>5, <2>7 DEF IndexInv
<1>4. CASE ~cooldown
  <2> DEFINE known == ready \/ collections \/ provider = "memory"
             call == [at |-> "put", ids |-> {id}, text |-> text, ensured |-> FALSE]
             k == [at |-> "put", ids |-> {id}, text |-> text, ensured |-> known]
  <2>1. /\ task' = Noted([task EXCEPT ![t] = [call EXCEPT !.ensured = known]], rows')
        /\ shaken' = (shaken \ {id}) \cup ({id} \cap Pending(task))
    BY <1>4, Zenon DEF Upsert, Begin
  <2>2. [call EXCEPT !.ensured = known] = k
    OBVIOUS
  <2>3. known \in BOOLEAN
    BY Zenon
  <2> HIDE DEF known
  <2>4. k \in Put /\ k.ids = {id} /\ Value(k) = text
    BY <2>3 DEF Put, Value
  <2> HIDE DEF k, call
  <2>5. task' = [u \in Task |-> NotedOne([task EXCEPT ![t] = k][u], rows')]
    <3>1. task' = Noted([task EXCEPT ![t] = k], rows')
      BY <2>1, <2>2
    <3> QED
      BY <3>1, Zenon DEF Noted, NotedOne
  <2>6. \A u \in Task : task'[u] = NotedOne(IF u = t THEN k ELSE task[u], rows')
    BY <1>1, <2>5
  <2>7. task' = [u \in Task |-> task'[u]]
    BY <2>5
  <2>8. \A i \in Id : rows'[i] = IF i \in k.ids THEN Value(k) ELSE rows[i]
    BY <1>2, <2>4
  <2> QED
    BY <1>1, <1>2, <2>1, <2>4, <2>6, <2>7, <2>8, WriteBegins
<1> QED
  BY <1>3, <1>4

\* and the deletions, one or many.
LEMMA DeleteManyInv ==
  ASSUME IndexInv, NEW t \in Task, NEW ids \in SUBSET Id, DeleteMany(t, ids)
  PROVE  IndexInv'
<1> DEFINE k == [at |-> "remove", ids |-> ids, ensured |-> TRUE]
<1>1. /\ task[t] = NoTask /\ UNCHANGED <<provider, vectors>>
      /\ rows' = [id \in Id |-> IF id \in ids THEN Absent ELSE rows[id]]
      /\ task' = Noted([task EXCEPT ![t] = k], rows')
      /\ shaken' = (shaken \ ids) \cup (ids \cap Pending(task))
  BY Zenon DEF DeleteMany
<1>2. rows \in Tables /\ task \in [Task -> TaskState]
  BY DEF IndexInv
<1>3. k \in Removal /\ k.ids = ids /\ Value(k) = Absent
  BY DEF Removal, Value
<1> HIDE DEF k
<1>4. rows' \in Tables /\ \A id \in Id : rows'[id] = IF id \in k.ids THEN Value(k) ELSE rows[id]
  BY <1>1, <1>2, <1>3 DEF Tables
<1>5. task' = [u \in Task |-> NotedOne([task EXCEPT ![t] = k][u], rows')]
  BY <1>1, Zenon DEF Noted, NotedOne
<1>6. \A u \in Task : task'[u] = NotedOne(IF u = t THEN k ELSE task[u], rows')
  BY <1>2, <1>5
<1>7. task' = [u \in Task |-> task'[u]]
  BY <1>5
<1> QED
  BY <1>1, <1>3, <1>4, <1>6, <1>7, WriteBegins

\* What is best of finitely many, when fewer than asked for, is all.
LEMMA BestOfFew ==
  ASSUME NEW merged \in SUBSET Held, NEW best \in Best(merged, TopK)
  PROVE  best \subseteq merged /\ (Cardinality(best) < TopK => best = merged)
<1>1. best \subseteq merged
      /\ Cardinality(best) = IF Cardinality(merged) < TopK THEN Cardinality(merged) ELSE TopK
  BY DEF Best
<1>2. IsFiniteSet({Match, Other})
  <2>1. IsFiniteSet({}) /\ {Match, Other} = ({} \cup {Match}) \cup {Other}
    BY FS_EmptySet
  <2>2. IsFiniteSet({} \cup {Match})
    BY <2>1, FS_AddElement
  <2>3. IsFiniteSet(({} \cup {Match}) \cup {Other})
    BY <2>2, FS_AddElement
  <2> QED
    BY <2>1, <2>3, Zenon
<1>3. IsFiniteSet(Held)
  BY <1>2, MemoryIndexAssumption, FS_Product DEF Held, Id, Text
<1>4. IsFiniteSet(merged)
  BY <1>3, FS_Subset
<1>5. Cardinality(merged) = Cardinality(best) => best = merged
  BY <1>1, <1>4, FS_Subset
<1>6. TopK \in Nat
  BY MemoryIndexAssumption
<1> QED
  BY <1>1, <1>5, <1>6

\* A search ends with the best of what it merged.
LEMMA ResultsInv ==
  ASSUME IndexInv, NEW t \in Task, task[t].at \in {"embed", "query"}, NEW merged \in SUBSET Held,
         Results(t, merged), merged \subseteq task[t].seen, task[t].lexical \subseteq merged,
         \A m \in merged : Allowed(m, task[t].filter), UNCHANGED <<provider, rows, vectors, shaken>>
  PROVE  IndexInv'
<1>9. PICK high \in SUBSET merged :
        /\ ~task[t].floor => high = merged
        /\ \E best \in Best(high, TopK) :
             task' = [task EXCEPT ![t] = [at |-> "found", filter |-> task[t].filter, floor |-> task[t].floor,
                                          found |-> best, seen |-> task[t].seen, lexical |-> task[t].lexical]]
  BY DEF Results
<1>1. PICK best \in Best(high, TopK) :
        task' = [task EXCEPT ![t] = [at |-> "found", filter |-> task[t].filter, floor |-> task[t].floor,
                                     found |-> best, seen |-> task[t].seen, lexical |-> task[t].lexical]]
  BY <1>9
<1> DEFINE k == [at |-> "found", filter |-> task[t].filter, floor |-> task[t].floor, found |-> best,
                 seen |-> task[t].seen, lexical |-> task[t].lexical]
<1>2. task[t] \in TaskState
  BY DEF IndexInv
<1>3. task[t] \in Querying
  BY <1>2 DEF TaskState, NoTask, Put, Removal, Found
<1>4. best \subseteq merged /\ (~task[t].floor /\ Cardinality(best) < TopK => best = merged)
  <2>1. best \subseteq high /\ (Cardinality(best) < TopK => best = high)
    BY <1>9, BestOfFew
  <2> QED
    BY <1>9, <2>1
<1>5. /\ k \in Found /\ k.at = "found" /\ k.found = best /\ k.seen = task[t].seen
      /\ k.lexical = task[t].lexical /\ k.filter = task[t].filter /\ k.floor = task[t].floor
  BY <1>3, <1>4 DEF Found, Querying
<1>6. task' = [task EXCEPT ![t] = k]
  BY <1>1
<1> HIDE DEF k
<1>7. TaskOK(k, rows)
  BY <1>4, <1>5 DEF TaskOK, TaskState, SeenOK, FoundOK
<1>8. Writes(k) = Writes(task[t]) /\ Value(k) = Value(task[t])
  BY <1>5 DEF Writes, Value
<1> QED
  BY <1>6, <1>7, <1>8, OneTask

\* searchMemories: what the tables match,
LEMMA SearchInv ==
  ASSUME IndexInv, NEW t \in Task, NEW filter \in Filter, NEW floor \in BOOLEAN, Search(t, filter, floor)
  PROVE  IndexInv'
<1>1. PICK lexical \in Best(Lexical(filter), 3 * TopK) :
        task' = [task EXCEPT ![t] = [at |-> "embed", filter |-> filter, floor |-> floor, lexical |-> lexical, ids |-> {},
                                     ensured |-> FALSE, seen |-> Now(rows)]]
  BY DEF Search
<1>2. task[t] = NoTask /\ UNCHANGED <<provider, rows, vectors, shaken>> /\ rows \in Tables
  BY DEF Search, IndexInv
<1> DEFINE k == [at |-> "embed", filter |-> filter, floor |-> floor, lexical |-> lexical, ids |-> {}, ensured |-> FALSE,
                 seen |-> Now(rows)]
<1>3. lexical \subseteq Lexical(filter)
  BY DEF Best
<1>4. /\ Lexical(filter) \subseteq Now(rows) /\ Now(rows) \subseteq Held
      /\ \A m \in Lexical(filter) : Allowed(m, filter)
  <2>1. Match # Absent
    BY MemoryIndexAssumption
  <2> QED
    BY <1>2, <2>1, NowHeld DEF Lexical, Now, Allowed, Id
<1>5. /\ k \in Querying /\ k.at = "embed" /\ k.lexical = lexical /\ k.filter = filter
      /\ k.seen = Now(rows)
  BY <1>3, <1>4 DEF Querying
<1>6. task' = [task EXCEPT ![t] = k]
  BY <1>1
<1> HIDE DEF k
<1>7. TaskOK(k, rows)
  BY <1>3, <1>4, <1>5 DEF TaskOK, TaskState, SeenOK, FoundOK
<1>8. Writes(k) = Writes(task[t]) /\ Value(k) = Value(task[t])
  BY <1>2, <1>5 DEF Writes, Value, NoTask
<1> QED
  BY <1>2, <1>6, <1>7, <1>8, OneTask

\* then those alone, in a cooldown, or a call of the index,
LEMMA EmbeddedInv ==
  ASSUME IndexInv, NEW t \in Task, Embedded(t)
  PROVE  IndexInv'
<1>1. /\ task[t].at = "embed" /\ UNCHANGED <<provider, vectors, shaken>> /\ rows' = rows
      /\ task \in [Task -> TaskState] /\ task[t] \in TaskState /\ TaskOK(task[t], rows) /\ rows \in Tables
  BY DEF Embedded, IndexInv
<1>2. task[t] \in Querying
  BY <1>1 DEF TaskState, NoTask, Put, Removal, Found
<1>3. CASE cooldown
  <2>1. Results(t, task[t].lexical)
    BY <1>3 DEF Embedded
  <2>2. /\ task[t].lexical \in SUBSET Held /\ task[t].lexical \subseteq task[t].seen
        /\ \A m \in task[t].lexical : Allowed(m, task[t].filter)
    BY <1>1, <1>2 DEF Querying, TaskOK, SeenOK
  <2> QED
    BY <1>1, <2>1, <2>2, ResultsInv
<1>4. CASE ~cooldown
  <2> DEFINE known == ready \/ collections \/ provider = "memory"
             k == [[task[t] EXCEPT !.at = "query"] EXCEPT !.ensured = known]
  <2>1. task' = Noted([task EXCEPT ![t] = k], rows')
    BY <1>4, Zenon DEF Embedded, Begin
  <2>2. known \in BOOLEAN
    BY Zenon
  <2> HIDE DEF known
  <2>3. /\ k \in Querying /\ k.at = "query" /\ k.lexical = task[t].lexical /\ k.filter = task[t].filter
        /\ k.seen = task[t].seen
    BY <1>2, <2>2 DEF Querying
  <2> HIDE DEF k
  <2>4. TaskOK(k, rows) /\ Writes(k) = Writes(task[t]) /\ Value(k) = Value(task[t])
    BY <1>1, <2>3 DEF TaskOK, TaskState, SeenOK, FoundOK, Writes, Value
  <2>5. task' = [u \in Task |-> NotedOne([task EXCEPT ![t] = k][u], rows')]
    BY <2>1, Zenon DEF Noted, NotedOne
  <2>6. ASSUME NEW u \in Task
        PROVE  /\ TaskOK(task'[u], rows') /\ Writes(task'[u]) = Writes(task[u])
               /\ Value(task'[u]) = Value(task[u])
    <3> DEFINE old == IF u = t THEN k ELSE task[u]
    <3>1. task'[u] = NotedOne(old, rows')
      BY <1>1, <2>5
    <3>2. TaskOK(old, rows) /\ Writes(old) = Writes(task[u]) /\ Value(old) = Value(task[u])
      BY <2>4 DEF IndexInv
    <3> HIDE DEF old
    <3>3. old \in TaskState /\ rows' \in Tables
      BY <1>1, <3>2 DEF TaskOK
    <3> QED
      BY <3>1, <3>2, <3>3, NotedOneOK
  <2>7. task' \in [Task -> TaskState]
    BY <2>5, <2>6 DEF TaskOK
  <2>8. Settling' /\ IndexFollowsTables'
    BY <1>1, <2>6, <2>7, WritesKept
  <2> QED
    BY <1>1, <2>6, <2>7, <2>8 DEF IndexInv
<1> QED
  BY <1>3, <1>4

\* whose collection is there at last,
LEMMA EnsuredInv ==
  ASSUME IndexInv, NEW t \in Task, Ensured(t)
  PROVE  IndexInv'
<1>1. /\ task[t].at \in {"put", "query"} /\ UNCHANGED <<provider, rows, vectors, shaken>>
      /\ task' = [task EXCEPT ![t] = [task[t] EXCEPT !.ensured = TRUE]]
      /\ task[t] \in TaskState /\ TaskOK(task[t], rows)
  BY DEF Ensured, IndexInv
<1> DEFINE k == [task[t] EXCEPT !.ensured = TRUE]
<1>2. task' = [task EXCEPT ![t] = k]
  BY <1>1
<1>3. CASE task[t] \in Put
  <2>1. k \in Put /\ k.at = "put" /\ k.ids = task[t].ids /\ k.text = task[t].text
    BY <1>3 DEF Put
  <2>2. task[t].at = "put"
    BY <1>3 DEF Put
  <2> HIDE DEF k
  <2>3. TaskOK(k, rows) /\ Writes(k) = Writes(task[t]) /\ Value(k) = Value(task[t])
    BY <2>1, <2>2 DEF TaskOK, TaskState, SeenOK, FoundOK, Writes, Value
  <2> QED
    BY <1>1, <1>2, <2>3, OneTask
<1>4. CASE task[t] \in Querying
  <2>1. /\ k \in Querying /\ k.at = task[t].at /\ k.lexical = task[t].lexical
        /\ k.filter = task[t].filter /\ k.seen = task[t].seen
    BY <1>4 DEF Querying
  <2> HIDE DEF k
  <2>2. task[t].at = "query"
    BY <1>1, <1>4 DEF Querying
  <2>3. TaskOK(k, rows) /\ Writes(k) = Writes(task[t]) /\ Value(k) = Value(task[t])
    BY <1>1, <2>1, <2>2 DEF TaskOK, TaskState, SeenOK, FoundOK, Writes, Value
  <2> QED
    BY <1>1, <1>2, <2>3, OneTask
<1>5. task[t] \in Put \cup Querying
  BY <1>1 DEF TaskState, NoTask, Removal, Found
<1> QED
  BY <1>3, <1>4, <1>5

\* A write ends: its vectors are what it was to make of them, or its ids are shaken.
LEMMA WriteEnds ==
  ASSUME IndexInv, NEW t \in Task, task[t].at \in {"put", "remove"},
         UNCHANGED <<provider, rows>>, task' = [task EXCEPT ![t] = NoTask],
         vectors' \in Tables, shaken \subseteq shaken', shaken' \subseteq Id,
         \A id \in Id : id \notin task[t].ids => vectors'[id] = vectors[id],
         \A id \in task[t].ids : \/ id \in shaken'
                                 \/ vectors'[id] = Value(task[t])
                                 \/ provider = "chroma" /\ Value(task[t]) = Absent
  PROVE  IndexInv'
<1>1. /\ task \in [Task -> TaskState] /\ NoTask \in TaskState /\ NoTask.at = "idle"
      /\ Writes(task[t]) = task[t].ids
  BY DEF IndexInv, TaskState, NoTask, Writes
<1>2. /\ task' \in [Task -> TaskState]
      /\ \A u \in Task : task'[u] = IF u = t THEN NoTask ELSE task[u]
  BY <1>1
<1>3. TaskOK(NoTask, rows) /\ Writes(NoTask) = {}
  BY <1>1 DEF TaskOK, SeenOK, FoundOK, Writes
<1>4. \A u \in Task : TaskOK(task'[u], rows)
  BY <1>2, <1>3 DEF IndexInv
<1>5. Settling'
  BY <1>2, <1>3 DEF IndexInv, Settling
<1>6. ASSUME NEW id \in Id \ (shaken' \cup Pending(task'))
      PROVE  vectors'[id] = rows[id] \/ (provider = "chroma" /\ rows[id] = Absent)
  <2>1. id \notin shaken /\ \A u \in Task : u # t => id \notin Writes(task[u])
    BY <1>2, PendingIsWritten
  <2>2. CASE id \in task[t].ids
    <3>1. rows[id] = Value(task[t])
      BY <1>1, <2>1, <2>2 DEF IndexInv, Settling
    <3> QED
      BY <2>2, <3>1
  <2>3. CASE id \notin task[t].ids
    <3>1. id \notin Pending(task)
      BY <1>1, <2>1, <2>3, PendingIsWritten
    <3> QED
      BY <2>1, <2>3, <3>1 DEF IndexInv, IndexFollowsTables
  <2> QED
    BY <2>2, <2>3
<1>7. IndexFollowsTables'
  BY <1>6 DEF IndexFollowsTables
<1> QED
  BY <1>2, <1>4, <1>5, <1>7 DEF IndexInv

\* What a backend does to the vectors.
LEMMA EffectOf ==
  ASSUME IndexInv, NEW t \in Task, task[t].at \in {"put", "remove"}
  PROVE  /\ Effect(task[t]) \in Tables /\ task[t].ids \subseteq Id
         /\ \A id \in Id : id \notin task[t].ids => Effect(task[t])[id] = vectors[id]
         /\ \A id \in task[t].ids : \/ Effect(task[t])[id] = Value(task[t])
                                    \/ provider = "chroma" /\ Value(task[t]) = Absent
<1>1. task[t] \in Put \cup Removal /\ vectors \in Tables
  BY DEF IndexInv, TaskState, NoTask, Querying, Found
<1>2. task[t].ids \subseteq Id /\ (task[t].at = "put" => task[t].text \in Text)
  BY <1>1 DEF Put, Removal
<1> QED
  BY <1>1, <1>2 DEF Effect, Tables, Value

\* a write of the index done,
LEMMA WroteInv ==
  ASSUME IndexInv, NEW t \in Task, Wrote(t)
  PROVE  IndexInv'
<1>1. /\ task[t].at \in {"put", "remove"} /\ vectors' = Effect(task[t])
      /\ task' = [task EXCEPT ![t] = NoTask] /\ UNCHANGED <<provider, rows, shaken>>
      /\ shaken \subseteq Id
  BY DEF Wrote, IndexInv
<1> QED
  BY <1>1, EffectOf, WriteEnds

\* a query answered, whose hits are taken as the rows are now,
LEMMA QueriedInv ==
  ASSUME IndexInv, NEW t \in Task, Queried(t)
  PROVE  IndexInv'
<1>1. /\ task[t].at = "query" /\ UNCHANGED <<provider, rows, vectors, shaken>>
      /\ task[t] \in TaskState /\ TaskOK(task[t], rows) /\ rows \in Tables
  BY DEF Queried, IndexInv
<1>2. task[t] \in Querying
  BY <1>1 DEF TaskState, NoTask, Put, Removal, Found
<1>3. PICK hits \in SUBSET Id : Results(t, Merged(task[t], hits))
  BY DEF Queried, Best
<1> DEFINE merged == Merged(task[t], hits)
<1>4. merged \subseteq task[t].lexical \cup Now(rows) /\ task[t].lexical \subseteq merged
  BY DEF Merged, Now
<1>5. \A m \in merged : m \in task[t].lexical \/ Allowed(m, task[t].filter)
  <2> SUFFICES ASSUME NEW m \in merged, m \notin task[t].lexical PROVE Allowed(m, task[t].filter)
    OBVIOUS
  <2>1. PICK id \in MainId :
          m = <<id, rows[id]>> /\ (task[t].filter = AllProjects \/ ProjectOf[id] = task[t].filter)
    BY DEF Merged
  <2>2. m[1] = id
    BY <2>1
  <2> QED
    BY <2>1, <2>2 DEF Allowed
<1> HIDE DEF merged
<1>6. /\ task[t].lexical \subseteq Held /\ task[t].lexical \subseteq task[t].seen
      /\ Now(rows) \subseteq task[t].seen /\ Now(rows) \subseteq Held
      /\ \A m \in task[t].lexical : Allowed(m, task[t].filter)
  BY <1>1, <1>2, NowHeld DEF TaskOK, SeenOK, Querying
<1>7. Results(t, merged)
  BY <1>3 DEF merged
<1> QED
  BY <1>1, <1>4, <1>5, <1>6, <1>7, ResultsInv

\* and a call that failed, before or after it took effect.
LEMMA CallFailsInv ==
  ASSUME IndexInv, NEW t \in Task, NEW applied \in BOOLEAN, CallFails(t, applied)
  PROVE  IndexInv'
<1>1. /\ task[t].at \in {"put", "remove", "query"} /\ UNCHANGED <<provider, rows>>
      /\ applied => task[t].at # "query"
      /\ vectors' = IF applied THEN Effect(task[t]) ELSE vectors
      /\ task[t] \in TaskState /\ TaskOK(task[t], rows) /\ shaken \subseteq Id /\ vectors \in Tables
  BY DEF CallFails, IndexInv
<1>2. CASE task[t].at = "query"
  <2>1. Results(t, task[t].lexical) /\ UNCHANGED <<vectors, shaken>>
    BY <1>1, <1>2 DEF CallFails
  <2>2. task[t] \in Querying
    BY <1>1, <1>2 DEF TaskState, NoTask, Put, Removal, Found
  <2>3. /\ task[t].lexical \in SUBSET Held /\ task[t].lexical \subseteq task[t].seen
        /\ \A m \in task[t].lexical : Allowed(m, task[t].filter)
    BY <1>1, <1>2, <2>2 DEF Querying, TaskOK, SeenOK
  <2> QED
    BY <1>1, <1>2, <2>1, <2>3, ResultsInv
<1>3. CASE task[t].at # "query"
  <2>1. task' = [task EXCEPT ![t] = NoTask] /\ shaken' = shaken \cup task[t].ids
    BY <1>3 DEF CallFails
  <2>2. /\ task[t].ids \subseteq Id /\ vectors' \in Tables
        /\ \A id \in Id : id \notin task[t].ids => vectors'[id] = vectors[id]
    BY <1>1, <1>3, EffectOf
  <2>3. \A id \in task[t].ids : id \in shaken'
    BY <2>1
  <2>4. shaken \subseteq shaken' /\ shaken' \subseteq Id
    BY <1>1, <2>1, <2>2
  <2> QED
    BY <1>1, <1>3, <2>1, <2>2, <2>3, <2>4, WriteEnds
<1> QED
  BY <1>2, <1>3

\* Every step keeps it.
LEMMA IndexStep == IndexInv /\ [IndexNext]_indexVars => IndexInv'
<1> SUFFICES ASSUME IndexInv, [IndexNext]_indexVars PROVE IndexInv'
  OBVIOUS
<1>1. ASSUME NEW t \in Task, NEW id \in Id, DeleteOne(t, id)
      PROVE  IndexInv'
  <2>1. DeleteMany(t, {id}) /\ {id} \in SUBSET Id
    BY <1>1 DEF DeleteOne
  <2> QED
    BY <2>1, DeleteManyInv
<1>2. ASSUME NEW t \in Task, Returned(t)
      PROVE  IndexInv'
  <2>1. /\ task[t].at = "found" /\ UNCHANGED <<provider, rows, vectors, shaken>>
        /\ task' = [task EXCEPT ![t] = NoTask]
    BY <1>2 DEF Returned
  <2>2. NoTask \in TaskState /\ NoTask.at = "idle"
    BY DEF NoTask, TaskState
  <2>3. TaskOK(NoTask, rows) /\ Writes(NoTask) = Writes(task[t]) /\ Value(NoTask) = Value(task[t])
    BY <2>1, <2>2 DEF TaskOK, SeenOK, FoundOK, Writes, Value
  <2> QED
    BY <2>1, <2>3, OneTask
<1>3. ASSUME UNCHANGED <<provider, rows, vectors, task, shaken>>
      PROVE  IndexInv'
  <2>1. Settling' /\ IndexFollowsTables'
    BY <1>3, WritesKept DEF IndexInv
  <2> QED
    BY <1>3, <2>1 DEF IndexInv
<1>4. CASE \E t \in Task :
             \/ \E id \in Id, text \in Text : Upsert(t, id, text)
             \/ \E ids \in SUBSET Id \ {{}} : DeleteMany(t, ids)
             \/ \E id \in Id : DeleteOne(t, id)
             \/ \E f \in Filter, floor \in BOOLEAN : Search(t, f, floor)
  BY <1>1, <1>4, UpsertInv, DeleteManyInv, SearchInv
<1>5. CASE \E t \in Task :
             \/ Embedded(t) \/ Ensured(t) \/ Wrote(t) \/ Queried(t) \/ Returned(t)
             \/ \E applied \in BOOLEAN : CallFails(t, applied)
  BY <1>2, <1>5, EmbeddedInv, EnsuredInv, WroteInv, QueriedInv, CallFailsInv
<1>6. CASE Cooled \/ UNCHANGED indexVars
  BY <1>3, <1>6 DEF Cooled, indexVars
<1> QED
  BY <1>4, <1>5, <1>6 DEF IndexNext, Filter

\* The vector of a memory follows its row unless its last write was skipped, failed or
\* raced, and a search gives only what the tables held while it ran, of its project, and
\* all that the tables matched if it was not full: for any ids, texts and backends,
\* however many operations overlap.
THEOREM IndexFollows == IndexSpec => []IndexSound
<1>1. IndexInv => IndexSound
  <2>1. IndexInv => SearchesSound
    BY DEF IndexInv, TaskOK, FoundOK, SearchesSound, Allowed
  <2> QED
    BY <2>1 DEF IndexInv, IndexSound
<1> QED
  BY <1>1, IndexStart, IndexStep, PTL DEF IndexSpec

-----------------------------------------------------------------------------
(***************************************************************************)
(* The runs of the schedulers over the table of memories.                  *)
(***************************************************************************)
IsPlain(v)    == v = PlainText(v.text)
IsEnvelope(v) == v = Envelope(v.text, v.harm) /\ v.harm \in {"none", "checksum", "decode"}

\* A stored value is sound unless its row was damaged, and reads as it was written.
RowKept(r) ==
  /\ IsPlain(table[r]) \/ IsEnvelope(table[r])
  /\ IsPlain(wrote[r]) \/ wrote[r].form = "envelope"
  /\ r \notin damaged =>
       /\ Integrity(table[r]) \in {"plain", "none"}
       /\ (wrote[r].form = "plain" /\ wrote[r].text # "torn") => Resurrect(table[r]) = wrote[r]

TableKept ==
  table = [r \in Rows |-> table[r]] /\ wrote = [r \in Rows |-> wrote[r]] /\ \A r \in Rows : RowKept(r)

\* What the codec makes of a value.
LEMMA CodecKeeps ==
  ASSUME NEW v, IsPlain(v) \/ IsEnvelope(v)
  PROVE  /\ IsPlain(CompactForStorage(v)) \/ IsEnvelope(CompactForStorage(v))
         /\ IsPlain(Resurrect(v))
         /\ Integrity(v) \in {"plain", "none"} => Integrity(CompactForStorage(v)) \in {"plain", "none"}
         /\ IsPlain(v) => Integrity(CompactForStorage(v)) \in {"plain", "none"}
         /\ (IsPlain(v) /\ v.text # "torn") => Resurrect(CompactForStorage(v)) = v
         /\ IsEnvelope(v) => CompactForStorage(v) = v
  BY DEF IsPlain, IsEnvelope, CompactForStorage, IsCompacted, Resurrect, Integrity, PlainText, Envelope, Utf8

\* One row is another value: it is kept if the new value is.
LEMMA RowStep ==
  ASSUME TableKept, NEW r \in Rows, NEW v, table' = [table EXCEPT ![r] = v],
         NEW w, wrote' = [wrote EXCEPT ![r] = w],
         IsPlain(v) \/ IsEnvelope(v), IsPlain(w) \/ w.form = "envelope",
         damaged \ {r} \subseteq damaged', damaged' \subseteq damaged \cup {r},
         r \notin damaged' =>
           /\ Integrity(v) \in {"plain", "none"}
           /\ (w.form = "plain" /\ w.text # "torn") => Resurrect(v) = w
  PROVE  TableKept'
<1>1. /\ \A q \in Rows : table'[q] = IF q = r THEN v ELSE table[q]
      /\ \A q \in Rows : wrote'[q] = IF q = r THEN w ELSE wrote[q]
      /\ table' = [q \in Rows |-> table'[q]] /\ wrote' = [q \in Rows |-> wrote'[q]]
  BY DEF TableKept
<1>2. ASSUME NEW q \in Rows PROVE RowKept(q)'
  <2>1. RowKept(q)
    BY DEF TableKept
  <2>2. CASE q = r
    BY <1>1, <2>2 DEF RowKept
  <2>3. CASE q # r
    BY <1>1, <2>1, <2>3 DEF RowKept
  <2> QED
    BY <2>2, <2>3
<1> QED
  BY <1>1, <1>2 DEF TableKept

\* The value a user wrote, compacted,
LEMMA StoreKept ==
  ASSUME TableKept, NEW r \in Rows, NEW v, Store(r, v),
         IsPlain(v) \/ v = Envelope("long", "none")
  PROVE  TableKept'
<1>1. /\ table' = [table EXCEPT ![r] = CompactForStorage(v)] /\ wrote' = [wrote EXCEPT ![r] = v]
      /\ damaged' = damaged \ {r}
  BY DEF Store
<1>2. IsPlain(v) \/ (IsEnvelope(v) /\ v.form = "envelope" /\ v.harm = "none")
  BY DEF IsEnvelope, Envelope
<1>3. /\ IsPlain(CompactForStorage(v)) \/ IsEnvelope(CompactForStorage(v))
      /\ Integrity(CompactForStorage(v)) \in {"plain", "none"}
  <2>1. v.harm = "none" /\ v.form = "envelope" => Integrity(v) = "none"
    BY DEF Integrity, IsCompacted
  <2> QED
    BY <1>2, <2>1, CodecKeeps
<1>4. (v.form = "plain" /\ v.text # "torn") => Resurrect(CompactForStorage(v)) = v
  BY <1>2, CodecKeeps
<1> QED
  BY <1>1, <1>2, <1>3, <1>4, RowStep

\* what was read, written back,
LEMMA RewriteKept ==
  ASSUME TableKept, NEW r \in Rows, Rewrite(r)
  PROVE  TableKept'
<1> DEFINE v == CompactForStorage(Resurrect(table[r]))
<1>1. table' = [table EXCEPT ![r] = v] /\ wrote' = wrote /\ damaged' = damaged
  BY DEF Rewrite
<1>2. RowKept(r) /\ wrote' = [wrote EXCEPT ![r] = wrote[r]]
  BY <1>1 DEF TableKept
<1>3. IsPlain(Resurrect(table[r]))
  BY <1>2, CodecKeeps DEF RowKept
<1>4. (IsPlain(v) \/ IsEnvelope(v)) /\ Integrity(v) \in {"plain", "none"}
  BY <1>3, CodecKeeps
<1>5. Resurrect(table[r]) = wrote[r] /\ wrote[r].text # "torn" => Resurrect(v) = wrote[r]
  BY <1>3, CodecKeeps
<1> HIDE DEF v
<1> QED
  BY <1>1, <1>2, <1>4, <1>5, RowStep DEF RowKept

\* a value gone bad,
LEMMA CorruptKept ==
  ASSUME TableKept, NEW r \in Rows, NEW harm \in {"checksum", "decode", "all"}, Corrupt(r, harm)
  PROVE  TableKept'
<1> DEFINE v == IF harm = "all" THEN PlainText("garbage") ELSE Envelope(table[r].text, harm)
<1>1. table' = [table EXCEPT ![r] = v] /\ wrote' = wrote /\ damaged' = damaged \cup {r}
  BY DEF Corrupt
<1>2. RowKept(r) /\ wrote' = [wrote EXCEPT ![r] = wrote[r]]
  BY <1>1 DEF TableKept
<1>3. IsPlain(v) \/ IsEnvelope(v)
  BY DEF IsPlain, IsEnvelope, PlainText, Envelope
<1> HIDE DEF v
<1> QED
  BY <1>1, <1>2, <1>3, RowStep DEF RowKept

\* and the rows a run packs.
LEMMA PackKept ==
  ASSUME TableKept, NEW packed \in SUBSET Rows, UNCHANGED <<wrote, damaged>>,
         table' = [r \in Rows |-> IF r \in packed THEN CompactForStorage(table[r]) ELSE table[r]]
  PROVE  TableKept'
<1>1. ASSUME NEW r \in Rows PROVE RowKept(r)'
  <2>1. RowKept(r) /\ table'[r] = IF r \in packed THEN CompactForStorage(table[r]) ELSE table[r]
    BY DEF TableKept
  <2>2. /\ IsPlain(CompactForStorage(table[r])) \/ IsEnvelope(CompactForStorage(table[r]))
        /\ Integrity(table[r]) \in {"plain", "none"} => Integrity(CompactForStorage(table[r])) \in {"plain", "none"}
    BY <2>1, CodecKeeps DEF RowKept
  <2>3. /\ Resurrect(table[r]) = wrote[r] /\ wrote[r].text # "torn"
           => Resurrect(CompactForStorage(table[r])) = wrote[r]
    <3>1. CASE IsPlain(table[r])
      <4>1. Resurrect(table[r]) = table[r]
        BY <3>1 DEF IsPlain, Resurrect, IsCompacted, PlainText
      <4> QED
        BY <3>1, <4>1, CodecKeeps
    <3>2. CASE IsEnvelope(table[r])
      BY <3>2, CodecKeeps
    <3> QED
      BY <2>1, <3>1, <3>2 DEF RowKept
  <2> QED
    BY <2>1, <2>2, <2>3 DEF RowKept
<1>2. table' = [r \in Rows |-> table'[r]] /\ wrote' = [r \in Rows |-> wrote'[r]]
  BY DEF TableKept
<1> QED
  BY <1>1, <1>2 DEF TableKept

-----------------------------------------------------------------------------
(***************************************************************************)
(* Counting rows and runs.                                                 *)
(***************************************************************************)

\* A set of numbers up to n has a greatest.
LEMMA Greatest ==
  ASSUME NEW n \in Nat, NEW S \in SUBSET (0 .. n), S # {}
  PROVE  \E m \in S : \A s \in S : s <= m
<1> DEFINE R == {ss \in Nat \X Nat : ss[1] < ss[2]}
           T == {i \in Nat : n - i \in S}
<1>1. IsWellFoundedOn(R, Nat)
  BY NatLessThanWellFounded DEF OpToRel
<1>2. T \subseteq Nat /\ T # {}
  <2>1. PICK s \in S : TRUE
    OBVIOUS
  <2>2. n - s \in Nat /\ n - (n - s) = s
    OBVIOUS
  <2> QED
    BY <2>1, <2>2
<1> HIDE DEF R
<1>3. PICK x \in T : \A y \in T : ~(<<y, x>> \in R)
  BY <1>1, <1>2, WFMin
<1>4. ASSUME NEW s \in S PROVE s <= n - x
  <2>1. n - s \in Nat /\ n - (n - s) = s
    OBVIOUS
  <2>2. n - s \in T
    BY <2>1
  <2>3. ~(n - s < x)
    BY <1>2, <1>3, <2>2 DEF R
  <2> QED
    BY <1>2, <2>1, <2>3
<1> QED
  BY <1>4

\* The rows of a project, and the newest of them.
RowsIn(project) == {r \in Rows : project = Global \/ ProjectOfRow[r] = project}

\* They are finitely many.
LEMMA RowsFinite ==
  ASSUME NEW S \in SUBSET Rows
  PROVE  IsFiniteSet(S) /\ Cardinality(S) \in Nat
<1>1. IsFiniteSet(Rows)
  BY MaintenanceAssumption, FS_Interval DEF Rows
<1>2. IsFiniteSet(S)
  BY <1>1, FS_Subset
<1> QED
  BY <1>2, FS_CardinalityType

\* The newest rows of a project are as many as asked for at most.
LEMMA NewestBound ==
  ASSUME NEW project, NEW limit \in Nat
  PROVE  /\ Newest(project, limit) \subseteq RowsIn(project)
         /\ Cardinality(Newest(project, limit)) <= limit
<1> DEFINE before(r) == {q \in RowsIn(project) : q < r}
           S == Newest(project, limit)
<1>1. \A n : Newest(project, n) = {r \in RowsIn(project) : Cardinality(before(r)) < n}
  BY DEF Newest, RowsIn
<1>2. \A r \in Rows : before(r) \subseteq Rows /\ Cardinality(before(r)) \in Nat
  BY RowsFinite DEF RowsIn
<1>4. S \subseteq RowsIn(project)
  BY <1>1
<1>5. Cardinality(S) <= limit
  <2>1. CASE S = {}
    BY <2>1, FS_EmptySet
  <2>2. CASE S # {}
    <3>1. RowCount \in Nat /\ S \subseteq Rows /\ Rows \subseteq 0 .. RowCount
      BY <1>4, MaintenanceAssumption DEF RowsIn, Rows
    <3>2. PICK m \in S : \A s \in S : s <= m
      BY <2>2, <3>1, Greatest
    <3>3. S \ {m} \subseteq before(m)
      <4> SUFFICES ASSUME NEW s \in S, s # m PROVE s \in before(m)
        OBVIOUS
      <4>1. s \in RowsIn(project)
        BY <1>4
      <4> HIDE DEF S
      <4>2. s \in Rows /\ m \in Rows
        BY <3>1
      <4>3. s \in Nat /\ m \in Nat
        BY <4>2 DEF Rows
      <4>4. s < m
        BY <3>2, <4>3
      <4> QED
        BY <4>1, <4>4
    <3>4. Cardinality(before(m)) < limit /\ Cardinality(before(m)) \in Nat
      BY <1>1, <1>2, <3>1, <3>2
    <3>5. IsFiniteSet(S) /\ Cardinality(S) \in Nat /\ IsFiniteSet(before(m))
      BY <1>2, <3>1, RowsFinite
    <3>6. Cardinality(S \ {m}) = Cardinality(S) - 1
      BY <3>2, <3>5, FS_RemoveElement
    <3>7. Cardinality(S \ {m}) <= Cardinality(before(m))
      BY <3>3, <3>5, FS_Subset
    <3> QED
      BY <3>4, <3>5, <3>6, <3>7
  <2> QED
    BY <2>1, <2>2
<1> QED
  BY <1>4, <1>5

\* A configuration is one read from the environment: its bounds are kept.
ConfigOK ==
  /\ config.history \in Nat /\ config.persisted \in Nat /\ config.history <= config.persisted
  /\ config.backfillLimit \in 1 .. RowCount /\ config.maxApplyRows \in 1 .. RowCount
  /\ config.windowStart \in 0 .. 3 /\ config.windowEnd \in 0 .. 3

\* A number read from a variable is within its bounds, whatever the variable holds.
LEMMA Bounded ==
  ASSUME NEW value, \A n \in value : n \in Int, NEW min \in Int, NEW max \in Int, min <= max,
         NEW fallback \in min .. max
  PROVE  ParseBoundedInt(value, fallback, min, max) \in min .. max
<1>1. CASE value = {}
  BY <1>1 DEF ParseBoundedInt
<1>2. CASE value # {}
  <2> DEFINE n == CHOOSE n \in value : TRUE
  <2>1. n \in Int
    BY <1>2
  <2>2. ParseBoundedInt(value, fallback, min, max) = Lesser(max, Greater(min, n))
    BY <1>2 DEF ParseBoundedInt
  <2> HIDE DEF n
  <2> QED
    BY <2>1, <2>2 DEF Lesser, Greater
<1> QED
  BY <1>1, <1>2

\* Whatever the environment says, the configuration read from it is one a scheduler can
\* work with.
LEMMA ConfigRead ==
  ASSUME NEW env \in Environment, config = ReadConfig(env)
  PROVE  ConfigOK
<1> DEFINE kept == ParseBoundedInt(env.history, 2, 1, 3)
<1>1. /\ \A n \in env.history : n \in Int
      /\ \A n \in env.persisted : n \in Int
      /\ \A n \in env.backfillLimit : n \in Int
      /\ \A n \in env.maxApplyRows : n \in Int
      /\ env.windowStart \in 0 .. 3 /\ env.windowEnd \in 0 .. 3
      /\ RowCount \in Nat \ {0}
  BY MaintenanceAssumption
<1>2. /\ config.history = kept
      /\ config.persisted = ParseBoundedInt(env.persisted, 3, kept, 4)
      /\ config.backfillLimit = ParseBoundedInt(env.backfillLimit, RowCount, 1, RowCount)
      /\ config.maxApplyRows = ParseBoundedInt(env.maxApplyRows, 1, 1, RowCount)
      /\ config.windowStart = env.windowStart /\ config.windowEnd = env.windowEnd
  BY DEF ReadConfig
<1>3. kept \in 1 .. 3
  BY <1>1, Bounded
<1> HIDE DEF kept
<1>4. config.persisted \in kept .. 4
  BY <1>1, <1>2, <1>3, Bounded
<1>5. config.backfillLimit \in 1 .. RowCount
  BY <1>1, <1>2, Bounded
<1>6. config.maxApplyRows \in 1 .. RowCount
  BY <1>1, <1>2, Bounded
<1> QED
  BY <1>1, <1>2, <1>3, <1>4, <1>5, <1>6 DEF ConfigOK

\* Inside its window an hour is less after the start than the end is, around midnight too.
LEMMA WindowOpen ==
  ASSUME NEW hour \in 0 .. 3, NEW start \in 0 .. 3, NEW end \in 0 .. 3, IsWithinApplyWindow(hour, start, end)
  PROVE  (end - start) % 4 = 0 \/ (hour - start) % 4 < (end - start) % 4
<1>1. \A x \in -3 .. 3 : x % 4 = IF x < 0 THEN x + 4 ELSE x
  OBVIOUS
<1>2. end - start \in -3 .. 3 /\ hour - start \in -3 .. 3
  OBVIOUS
<1>3. /\ (end - start) % 4 = IF end - start < 0 THEN end - start + 4 ELSE end - start
      /\ (hour - start) % 4 = IF hour - start < 0 THEN hour - start + 4 ELSE hour - start
  BY <1>1, <1>2
<1>4. \/ start = end
      \/ start < end /\ start <= hour /\ hour < end
      \/ start > end /\ (start <= hour \/ hour < end)
  <2>1. CASE start = end
    BY <2>1
  <2>2. CASE start < end
    <3>1. ~(start = end) /\ ~(start > end)
      BY <2>2
    <3> QED
      BY <2>2, <3>1 DEF IsWithinApplyWindow
  <2>3. CASE start > end
    <3>1. ~(start = end) /\ ~(start < end)
      BY <2>3
    <3> QED
      BY <2>3, <3>1 DEF IsWithinApplyWindow
  <2> QED
    BY <2>1, <2>2, <2>3
<1> QED
  BY <1>3, <1>4

\* A run clears itself: it packs only what it may.
LEMMA RunClears ==
  ASSUME TableKept, ConfigOK, NEW hour \in 0 .. 3, NEW dryRunOnly \in BOOLEAN, NEW ingestErrors \in BOOLEAN,
         NEW fails \in 0 .. RowCount + 1, config.kind = "self-healing" => ~ingestErrors,
         Run(hour, dryRunOnly, ingestErrors, fails)
  PROVE  /\ RunsCleared'
         /\ \E packed \in SUBSET Rows :
              table' = [r \in Rows |-> IF r \in packed THEN CompactForStorage(table[r]) ELSE table[r]]
         /\ \E outcome \in {"error", "applied", "dry-run-only", "indexed"} : PushRun(outcome)
<1> DEFINE audit   == AuditMemoryResurrection(config.project, config.auditLimit)
           dry     == Backfill(config.project, config.backfillLimit)
           allowed == IF config.kind = "self-healing"
                      THEN SelfHealingAllows(audit, dry, hour, dryRunOnly)
                      ELSE SessionResurrectionAllows(audit, dry, ingestErrors, dryRunOnly)
           planned == IF allowed /\ fails # 0 THEN Backfill(config.project, ApplyLimit) ELSE {}
           packed  == {r \in planned : r < fails}
           idle    == IF config.kind = "self-healing" THEN "dry-run-only" ELSE "indexed"
           outcome == IF fails = 0 \/ planned # packed THEN "error"
                      ELSE IF packed # {} THEN "applied" ELSE idle
           mine    == RowsIn(config.project)
           audited == Newest(config.project, config.auditLimit)
           bad     == {r \in Rows : table[r].harm # "none"}
<1>1. /\ table' = [r \in Rows |-> IF r \in packed THEN CompactForStorage(table[r]) ELSE table[r]]
      /\ lastRun' = [outcome |-> outcome, packed |-> packed, hour |-> hour, dryRunOnly |-> dryRunOnly,
                     ingestErrors |-> ingestErrors, before |-> table]
      /\ PushRun(outcome)
      /\ config' = config
  BY Zenon DEF Run
<1>2. outcome \in {"error", "applied", "dry-run-only", "indexed"}
  OBVIOUS
<1>3. packed \subseteq planned /\ (outcome = "applied" => packed # {})
      /\ (packed # {} => outcome \in {"applied", "error"})
  OBVIOUS
<1> HIDE DEF outcome, packed
<1>4. ApplyLimit \in Nat
  BY DEF ApplyLimit, ConfigOK, Lesser
<1>5. /\ planned \subseteq Newest(config.project, ApplyLimit) /\ (planned # {} => allowed)
      /\ \A r \in planned : ~IsCompacted(table[r])
  BY DEF Backfill
<1>6. packed \subseteq mine /\ Cardinality(packed) <= ApplyLimit
  <2>1. /\ Newest(config.project, ApplyLimit) \subseteq mine
        /\ Cardinality(Newest(config.project, ApplyLimit)) <= ApplyLimit
    BY <1>4, NewestBound
  <2>2. /\ IsFiniteSet(Newest(config.project, ApplyLimit))
        /\ Cardinality(Newest(config.project, ApplyLimit)) \in Nat
    BY <2>1, RowsFinite DEF RowsIn
  <2>3. packed \subseteq Newest(config.project, ApplyLimit)
    BY <1>3, <1>5
  <2>4. Cardinality(packed) <= Cardinality(Newest(config.project, ApplyLimit)) /\ Cardinality(packed) \in Nat
    BY <2>2, <2>3, FS_Subset, FS_CardinalityType
  <2> QED
    BY <1>4, <2>1, <2>2, <2>3, <2>4
<1>7. audit.anomalies = Cardinality(bad \cap audited)
  <2>1. audited \subseteq Rows
    BY DEF Newest
  <2>2. ASSUME NEW r \in Rows
        PROVE  Integrity(table[r]) \in {"checksum", "decode"} <=> table[r].harm # "none"
    BY DEF TableKept, RowKept, IsPlain, IsEnvelope, PlainText, Envelope, Integrity, IsCompacted
  <2>3. {r \in audited : Integrity(table[r]) \in {"checksum", "decode"}} = bad \cap audited
    BY <2>1, <2>2
  <2>4. audit.anomalies = Cardinality({r \in audited : Integrity(table[r]) \in {"checksum", "decode"}})
    BY DEF AuditMemoryResurrection
  <2> QED
    BY <2>3, <2>4
<1>15. \A r \in packed : table[r].form = "plain"
  <2> SUFFICES ASSUME NEW r \in packed PROVE table[r].form = "plain"
    OBVIOUS
  <2>1. r \in Rows /\ ~IsCompacted(table[r])
    BY <1>3, <1>5, <1>6 DEF RowsIn
  <2> QED
    BY <2>1 DEF TableKept, RowKept, IsPlain, IsEnvelope, PlainText, Envelope, IsCompacted
<1> HIDE DEF audit, dry, mine, audited, bad, planned
<1>8. allowed => /\ config.applyEnabled /\ ~dryRunOnly /\ ~ingestErrors
                 /\ audit.anomalies <= config.maxAnomalies
                 /\ config.kind = "self-healing" => IsWithinApplyWindow(hour, config.windowStart, config.windowEnd)
  BY DEF SelfHealingAllows, SessionResurrectionAllows
<1>9. IsWithinApplyWindow(hour, config.windowStart, config.windowEnd) =>
        LET open == (config.windowEnd - config.windowStart) % 4
        IN  open = 0 \/ (hour - config.windowStart) % 4 < open
  BY WindowOpen DEF ConfigOK
<1>10. packed # {} =>
         /\ outcome \in {"applied", "error"}
         /\ config.applyEnabled /\ ~dryRunOnly /\ ~ingestErrors
         /\ Cardinality(bad \cap audited) <= config.maxAnomalies
         /\ config.kind = "self-healing" =>
              LET open == (config.windowEnd - config.windowStart) % 4
              IN  open = 0 \/ (hour - config.windowStart) % 4 < open
  BY <1>3, <1>5, <1>7, <1>8, <1>9
<1>11. /\ lastRun'.outcome = outcome /\ lastRun'.packed = packed /\ lastRun'.hour = hour
       /\ lastRun'.dryRunOnly = dryRunOnly /\ lastRun'.ingestErrors = ingestErrors
       /\ lastRun'.before = table
  BY <1>1
<1>12. ApplyLimit' = ApplyLimit /\ Newest(config.project, config.auditLimit)' = audited
  BY <1>1 DEF ApplyLimit, Newest, audited
<1>13. RunsCleared'
  BY <1>1, <1>3, <1>6, <1>15, <1>10, <1>11, <1>12 DEF RunsCleared, mine, bad, RowsIn
<1>14. packed \subseteq Rows
  BY <1>6 DEF mine, RowsIn
<1> QED
  BY <1>1, <1>2, <1>13, <1>14

-----------------------------------------------------------------------------
(***************************************************************************)
(* The reports of the runs and the dashboard.                              *)
(***************************************************************************)
Outcomes == {"applied", "indexed", "dry-run-only", "skipped", "error"}
Outcome  == [at : Nat, outcome : Outcomes]

\* The runs are told in their order; a run whose row was written has it, or as many
\* later ones have as the table keeps.
RunsTold ==
  /\ runs \in Seq(Outcome) /\ day \in Nat
  /\ \A i \in 1 .. Len(runs) :
       runs[i].at <= day /\ \A j \in 1 .. Len(runs) : i < j => runs[i].at <= runs[j].at
  /\ stored \subseteq 1 .. Len(runs) /\ lost \subseteq 1 .. Len(runs) /\ stored \cap lost = {}
  /\ config.persists =>
       \A i \in (1 .. Len(runs)) \ lost :
         i \in stored \/ Cardinality({j \in stored : j > i}) >= config.persisted

\* The snapshots of day a, the newest, and no others but those kept.
NewestAt(a) ==
  /\ \A s \in snaps : s.at <= a /\ a - Retention <= s.at
  /\ \E s \in snaps : s.scope = Global /\ s.at = a
  /\ RowsOf(asked) # {} => \E s \in snaps : s.scope = asked /\ s.at = a

SnapsKept ==
  /\ \A s \in snaps : s.at \in Nat /\ s.at <= day
  /\ snaps # {} => \E a \in Nat : NewestAt(a)

\* Numbers up to n are finitely many.
LEMMA NumbersFinite ==
  ASSUME NEW n \in Nat, NEW S \in SUBSET (1 .. n)
  PROVE  IsFiniteSet(S) /\ Cardinality(S) \in Nat
<1>1. IsFiniteSet(1 .. n)
  BY FS_Interval
<1>2. IsFiniteSet(S)
  BY <1>1, FS_Subset
<1> QED
  BY <1>2, FS_CardinalityType

\* Of some runs those since a day, of some outcomes.
Within(kept, since, outcomes) == {i \in kept : runs[i].at >= since /\ runs[i].outcome \in outcomes}

\* The counts are of these.
LEMMA CountsAre ==
  ASSUME NEW kept, NEW since
  PROVE  CountOutcomesSince(kept, since) =
           [total |-> Cardinality(Within(kept, since, Outcomes)),
            applied |-> Cardinality(Within(kept, since, {"applied"})),
            idle |-> Cardinality(Within(kept, since, {"dry-run-only", "indexed"})),
            skipped |-> Cardinality(Within(kept, since, {"skipped"})),
            error |-> Cardinality(Within(kept, since, {"error"}))]
  BY DEF CountOutcomesSince, Within, Outcomes

\* Runs that have the same since a day are counted the same.
LEMMA CountsSame ==
  ASSUME NEW since, NEW S, NEW T, \A i : runs[i].at >= since => (i \in S <=> i \in T)
  PROVE  CountOutcomesSince(S, since) = CountOutcomesSince(T, since)
<1>1. \A outcomes : Within(S, since, outcomes) = Within(T, since, outcomes)
  BY DEF Within
<1> QED
  BY <1>1, CountsAre

\* Pruning keeps a run's row, or as many later ones as are to be kept.
LEMMA PrunedRuns ==
  ASSUME NEW n \in Nat, NEW S \in SUBSET (1 .. n), NEW most \in Nat, NEW i \in 1 .. n,
         i \in S \/ Cardinality({j \in S : j > i}) >= most
  PROVE  i \in LatestRuns(S, most) \/ Cardinality({j \in LatestRuns(S, most) : j > i}) >= most
<1> DEFINE K == LatestRuns(S, most)
           after(k) == {j \in S : j > k}
           kept(k) == {j \in K : j > k}
<1>0. S \subseteq 1 .. n /\ \A k \in S : k \in Nat /\ 1 <= k /\ k <= n
  OBVIOUS
<1>1. K \subseteq S /\ \A k \in S : k \in K <=> Cardinality(after(k)) < most
  BY DEF LatestRuns
<1> HIDE DEF K
<1>2. \A k : /\ IsFiniteSet(after(k)) /\ Cardinality(after(k)) \in Nat
             /\ IsFiniteSet(kept(k)) /\ Cardinality(kept(k)) \in Nat
  BY <1>1, NumbersFinite
<1>3. CASE S \ K = {}
  <2>1. S = K
    BY <1>1, <1>3
  <2> QED
    BY <2>1 DEF K
<1>4. CASE S \ K # {}
  <2>1. (S \ K) \in SUBSET (0 .. n)
    <3> SUFFICES ASSUME NEW k \in S PROVE k \in 0 .. n
      OBVIOUS
    <3> QED
      BY <1>0
  <2>2. PICK m \in S \ K : \A k \in S \ K : k <= m
    BY <1>4, <2>1, Greatest
  <2>3. m \in 1 .. n /\ Cardinality(after(m)) >= most
    <3>1. m \in S /\ ~(Cardinality(after(m)) < most)
      BY <1>1, <2>2
    <3>2. Cardinality(after(m)) \in Nat
      BY <1>2
    <3> QED
      BY <1>0, <3>1, <3>2
  <2>4. \A j \in after(m) : j \in K
    <3> SUFFICES ASSUME NEW j \in S, j > m PROVE j \in K
      OBVIOUS
    <3> QED
      BY <1>0, <2>2, <2>3
  <2>5. ASSUME i \notin K PROVE Cardinality(kept(i)) >= most
    <3>1. CASE i <= m
      <4>1. after(m) \in SUBSET kept(i)
        <5> SUFFICES ASSUME NEW j \in S, j > m PROVE j \in K /\ j > i
          OBVIOUS
        <5> QED
          BY <1>0, <2>3, <2>4, <3>1
      <4>2. Cardinality(after(m)) <= Cardinality(kept(i))
        <5>1. IsFiniteSet(kept(i))
          BY <1>2
        <5> HIDE DEF after, kept
        <5> QED
          BY <4>1, <5>1, FS_Subset
      <4>3. Cardinality(after(m)) \in Nat /\ Cardinality(kept(i)) \in Nat
        BY <1>2
      <4> QED
        BY <2>3, <4>2, <4>3
    <3>2. CASE ~(i <= m)
      <4>1. i \notin S
        BY <2>2, <2>5, <3>2
      <4>2. after(i) \in SUBSET kept(i)
        <5> SUFFICES ASSUME NEW j \in S, j > i PROVE j \in K
          OBVIOUS
        <5> QED
          BY <1>0, <2>3, <2>4, <3>2
      <4>3. Cardinality(after(i)) <= Cardinality(kept(i))
        <5>1. IsFiniteSet(kept(i))
          BY <1>2
        <5> HIDE DEF after, kept
        <5> QED
          BY <4>2, <5>1, FS_Subset
      <4>4. Cardinality(after(i)) \in Nat /\ Cardinality(kept(i)) \in Nat
        BY <1>2
      <4> QED
        BY <4>1, <4>3, <4>4
    <3> QED
      BY <3>1, <3>2
  <2> QED
    BY <2>5 DEF K
<1> QED
  BY <1>3, <1>4

\* A run more, whatever becomes of its row.
LEMMA RunAdded ==
  ASSUME RunsTold, ConfigOK, NEW outcome \in Outcomes, UNCHANGED <<config, day>>, PushRun(outcome)
  PROVE  RunsTold'
<1> DEFINE n == Len(runs)
           run == [at |-> day, outcome |-> outcome]
<1>1. runs \in Seq(Outcome) /\ n \in Nat /\ day \in Nat
  BY DEF RunsTold
<1>2. run \in Outcome /\ run.at = day
  BY <1>1 DEF Outcome
<1>3. runs' = Append(runs, run)
  BY DEF PushRun
<1> HIDE DEF run
<1>4. /\ runs' \in Seq(Outcome) /\ Len(runs') = n + 1 /\ runs'[n + 1] = run
      /\ \A i \in 1 .. n : runs'[i] = runs[i]
  BY <1>1, <1>2, <1>3, AppendProperties
<1> HIDE DEF n
<1>5. ASSUME NEW i \in 1 .. n + 1
      PROVE  runs'[i].at <= day /\ \A j \in 1 .. n + 1 : i < j => runs'[i].at <= runs'[j].at
  <2>1. CASE i = n + 1
    BY <1>1, <1>2, <1>4, <2>1
  <2>2. CASE i # n + 1
    <3>1. i \in 1 .. n /\ runs'[i] = runs[i]
      BY <1>1, <1>4, <2>2
    <3>2. runs[i].at <= day /\ \A j \in 1 .. n : i < j => runs[i].at <= runs[j].at
      BY <3>1 DEF RunsTold, n
    <3>3. ASSUME NEW j \in 1 .. n + 1, i < j PROVE runs'[i].at <= runs'[j].at
      <4>1. CASE j = n + 1
        BY <1>2, <1>4, <3>1, <3>2, <4>1
      <4>2. CASE j # n + 1
        <5>1. j \in 1 .. n /\ runs'[j] = runs[j]
          BY <1>1, <1>4, <4>2
        <5> QED
          BY <3>1, <3>2, <3>3, <5>1
      <4> QED
        BY <4>1, <4>2
    <3> QED
      BY <3>1, <3>2, <3>3
  <2> QED
    BY <2>1, <2>2
<1>6. /\ stored \subseteq 1 .. n /\ lost \subseteq 1 .. n /\ stored \cap lost = {}
      /\ config.persists =>
           \A i \in (1 .. n) \ lost :
             i \in stored \/ Cardinality({j \in stored : j > i}) >= config.persisted
  BY DEF RunsTold, n
<1>7. config.persisted \in Nat /\ 1 .. n \subseteq 1 .. n + 1 /\ n + 1 \in 1 .. n + 1 /\ n + 1 \notin 1 .. n
  BY <1>1 DEF ConfigOK
<1>8. /\ stored' \subseteq 1 .. n + 1 /\ lost' \subseteq 1 .. n + 1 /\ stored' \cap lost' = {}
      /\ config.persists =>
           \A i \in (1 .. n + 1) \ lost' :
             i \in stored' \/ Cardinality({j \in stored' : j > i}) >= config.persisted
  <2> DEFINE S == stored \cup {n + 1}
  <2>1. S \subseteq 1 .. n + 1 /\ S \cap lost = {}
    BY <1>6, <1>7
  <2>2. ASSUME config.persists, NEW i \in (1 .. n + 1) \ lost
        PROVE  i \in S \/ Cardinality({j \in S : j > i}) >= config.persisted
    <3>1. CASE i = n + 1 \/ i \in stored
      BY <3>1
    <3>2. CASE ~(i = n + 1 \/ i \in stored)
      <4> DEFINE A == {j \in stored : j > i}
                 B == {j \in S : j > i}
      <4>1. i \in (1 .. n) \ lost
        BY <1>1, <2>2, <3>2
      <4>2. Cardinality(A) >= config.persisted
        BY <1>6, <2>2, <3>2, <4>1
      <4>3. A \in SUBSET B /\ A \in SUBSET (1 .. n + 1) /\ B \in SUBSET (1 .. n + 1)
        BY <2>1
      <4> HIDE DEF A, B
      <4>4. IsFiniteSet(B) /\ Cardinality(B) \in Nat /\ Cardinality(A) \in Nat
        <5>1. n + 1 \in Nat
          BY <1>1
        <5> QED
          BY <4>3, <5>1, NumbersFinite
      <4>5. Cardinality(A) <= Cardinality(B)
        BY <4>3, <4>4, FS_Subset
      <4>6. Cardinality(B) >= config.persisted
        BY <1>7, <4>2, <4>4, <4>5
      <4> QED
        BY <4>6 DEF B
    <3> QED
      BY <3>1, <3>2
  <2> HIDE DEF S
  <2>3. CASE config.persists /\ stored' = LatestRuns(S, config.persisted) /\ lost' = lost
    <3>1. stored' \subseteq S
      BY <2>3 DEF LatestRuns
    <3>2. ASSUME NEW i \in (1 .. n + 1) \ lost'
          PROVE  i \in stored' \/ Cardinality({j \in stored' : j > i}) >= config.persisted
      <4>1. i \in S \/ Cardinality({j \in S : j > i}) >= config.persisted
        BY <2>2, <2>3, <3>2
      <4>2. n + 1 \in Nat /\ i \in 1 .. n + 1 /\ S \in SUBSET (1 .. n + 1)
        BY <1>1, <2>1
      <4>3. \/ i \in LatestRuns(S, config.persisted)
            \/ Cardinality({j \in LatestRuns(S, config.persisted) : j > i}) >= config.persisted
        BY <1>7, <4>1, <4>2, PrunedRuns
      <4> QED
        BY <2>3, <4>3
    <3> QED
      BY <1>6, <1>7, <2>1, <2>3, <3>1, <3>2
  <2>4. CASE config.persists /\ stored' = S /\ lost' = lost
    BY <1>6, <1>7, <2>1, <2>2, <2>4
  <2>5. CASE config.persists /\ lost' = lost \cup {n + 1} /\ stored' = stored
    <3>1. lost' \subseteq 1 .. n + 1 /\ stored' \cap lost' = {} /\ stored' \subseteq 1 .. n + 1
      BY <1>6, <1>7, <2>5
    <3>2. \A i \in (1 .. n + 1) \ lost' : i \in (1 .. n) \ lost
      BY <1>1, <2>5
    <3> QED
      BY <1>6, <2>5, <3>1, <3>2
  <2>6. CASE ~config.persists /\ UNCHANGED <<stored, lost>>
    BY <1>6, <1>7, <2>6
  <2> QED
    BY <2>3, <2>4, <2>5, <2>6 DEF PushRun, S, n
<1> QED
  BY <1>1, <1>4, <1>5, <1>8 DEF RunsTold

\* A dashboard's snapshots are of its day, and none is kept too long.
LEMMA SnapsTaken ==
  ASSUME SnapsKept, day \in Nat, NEW project, NEW limit, Dashboard(project, limit),
         project \in Projects
  PROVE  SnapsKept'
<1>1. PICK chosen \in Chosen(limit, project) :
        snaps' = {s \in snaps \cup {[scope |-> p, at |-> day] : p \in chosen \cup {Global}} :
                    s.at >= day - Retention}
  BY DEF Dashboard
<1>2. day' = day /\ asked' = IF limit = 0 THEN Global ELSE project
  BY DEF Dashboard
<1>3. \A s \in snaps' : s.at \in Nat /\ s.at <= day /\ day - Retention <= s.at
  BY <1>1 DEF SnapsKept, Retention
<1>4. ASSUME NEW p \in chosen \cup {Global}
      PROVE  \E s \in snaps' : s.scope = p /\ s.at = day
  <2> DEFINE s == [scope |-> p, at |-> day]
  <2>1. s.scope = p /\ s.at = day /\ s.at >= day - Retention
    BY DEF Retention
  <2>2. s \in snaps'
    BY <1>1, <2>1
  <2> QED
    BY <2>1, <2>2
<1>5. limit # 0 /\ RowsOf(project) # {} => project \in chosen
  BY DEF Chosen
<1>6. NewestAt(day)'
  <2>1. RowsOf(asked') # {} => asked' \in chosen \cup {Global}
    BY <1>2, <1>5
  <2>2. RowsOf(asked)' = RowsOf(asked')
    BY DEF RowsOf
  <2> QED
    BY <1>2, <1>3, <1>4, <2>1, <2>2 DEF NewestAt
<1> QED
  BY <1>2, <1>3, <1>6 DEF SnapsKept

\* The reports agree with runs that are told and snapshots that are kept.
LEMMA ReportsFollow ==
  ASSUME ConfigOK, RunsTold, SnapsKept
  PROVE  ReportsAgree
<1>1. ASSUME NEW w \in Windows
      PROVE  LET since    == day - w
                 happened == {i \in DOMAIN runs : runs[i].at >= since}
                 memory   == CountOutcomesSince(Recent, since)
             IN  /\ config.persists =>
                      /\ Cardinality(happened) <= config.persisted =>
                           SloWindow(w, FALSE) = CountOutcomesSince(DOMAIN runs \ lost, since)
                      /\ memory.total <= SloWindow(w, FALSE).total + Cardinality(lost \cap happened)
                 /\ Cardinality(happened) <= config.history =>
                      SloWindow(w, TRUE) = CountOutcomesSince(DOMAIN runs, since)
  <2> DEFINE since == day - w
             n == Len(runs)
             happened == {i \in DOMAIN runs : runs[i].at >= since}
  <2>1. /\ config.history \in Nat /\ config.persisted \in Nat /\ config.history <= config.persisted
        /\ since \in Int /\ n \in Nat /\ DOMAIN runs = 1 .. n
    BY MaintenanceAssumption DEF ConfigOK, RunsTold
  <2>2. /\ stored \subseteq 1 .. n /\ lost \subseteq 1 .. n /\ stored \cap lost = {}
        /\ config.persists =>
             \A i \in (1 .. n) \ lost :
               i \in stored \/ Cardinality({j \in stored : j > i}) >= config.persisted
    BY DEF RunsTold
  <2>3. \A i \in 1 .. n : runs[i].at \in Nat /\ runs[i].outcome \in Outcomes
    <3>1. \A i \in 1 .. n : runs[i] \in Outcome
      BY DEF RunsTold
    <3> QED
      BY <3>1 DEF Outcome
  <2>4. \A i \in happened, j \in 1 .. n : i < j => j \in happened
    <3> SUFFICES ASSUME NEW i \in happened, NEW j \in 1 .. n, i < j PROVE j \in happened
      OBVIOUS
    <3>1. i \in 1 .. n /\ runs[i].at >= since /\ runs[i].at <= runs[j].at
      BY <2>1 DEF RunsTold
    <3> QED
      BY <2>1, <2>3, <3>1
  <2>5. happened \in SUBSET (1 .. n)
    BY <2>1
  <2>6. \A i \in 1 .. n : i \in happened <=> runs[i].at >= since
    BY <2>1
  <2> HIDE DEF since, n, happened
  <2>7. /\ SloWindow(w, FALSE) = CountOutcomesSince(IF config.persists THEN stored ELSE Recent, since)
        /\ SloWindow(w, TRUE) = CountOutcomesSince(Recent, since)
    BY DEF SloWindow, since
  <2>8. IsFiniteSet(happened) /\ Cardinality(happened) \in Nat
    BY <2>1, <2>5, NumbersFinite
  \* More runs than a set holds are not after one of it.
  <2>9. ASSUME NEW i \in happened, NEW A \in SUBSET (1 .. n), \A j \in A : j > i
        PROVE  Cardinality(A) \in Nat /\ Cardinality(A) < Cardinality(happened)
    <3>1. A \in SUBSET (happened \ {i})
      BY <2>1, <2>4, <2>5, <2>9
    <3>2. /\ IsFiniteSet(happened \ {i}) /\ Cardinality(happened \ {i}) = Cardinality(happened) - 1
      BY <2>8, FS_RemoveElement
    <3>3. IsFiniteSet(A) /\ Cardinality(A) \in Nat
      BY <2>1, NumbersFinite
    <3>4. Cardinality(A) <= Cardinality(happened \ {i})
      BY <3>1, <3>2, FS_Subset
    <3> QED
      BY <2>8, <3>2, <3>3, <3>4
  <2>10. ASSUME config.persists, Cardinality(happened) <= config.persisted
         PROVE  SloWindow(w, FALSE) = CountOutcomesSince(DOMAIN runs \ lost, since)
    <3>1. ASSUME NEW i, runs[i].at >= since PROVE i \in stored <=> i \in DOMAIN runs \ lost
      <4>1. ASSUME i \in DOMAIN runs \ lost PROVE i \in stored
        <5> DEFINE A == {j \in stored : j > i}
        <5>1. i \in 1 .. n /\ i \in happened
          BY <2>1, <2>6, <3>1, <4>1
        <5>2. i \in stored \/ Cardinality(A) >= config.persisted
          BY <2>2, <2>10, <4>1, <5>1
        <5>3. A \in SUBSET (1 .. n) /\ \A j \in A : j > i
          BY <2>2
        <5> HIDE DEF A
        <5>4. Cardinality(A) \in Nat /\ Cardinality(A) < Cardinality(happened)
          BY <2>9, <5>1, <5>3
        <5> QED
          BY <2>1, <2>8, <2>10, <5>2, <5>4
      <4>2. i \in stored => i \in DOMAIN runs \ lost
        BY <2>1, <2>2
      <4> QED
        BY <4>1, <4>2
    <3>2. CountOutcomesSince(stored, since) = CountOutcomesSince(DOMAIN runs \ lost, since)
      BY <3>1, CountsSame
    <3> QED
      BY <2>7, <2>10, <3>2
  <2>11. ASSUME config.persists
         PROVE  CountOutcomesSince(Recent, since).total
                  <= SloWindow(w, FALSE).total + Cardinality(lost \cap happened)
    <3> DEFINE few  == Within(Recent, since, Outcomes)
               had  == Within(stored, since, Outcomes)
               rest == lost \cap happened
    <3>1. few \in SUBSET (1 .. n) /\ had \in SUBSET (1 .. n) /\ rest \in SUBSET (1 .. n)
      BY <2>1, <2>2 DEF Within, Recent
    <3>2. ASSUME NEW i \in few PROVE i \in had \cup rest
      <4> DEFINE A == {j \in stored : j > i}
      <4>1. i \in 1 .. n /\ i > n - config.history /\ runs[i].at >= since /\ runs[i].outcome \in Outcomes
        BY <2>1 DEF Within, Recent, n
      <4>2. CASE i \in lost
        BY <2>6, <4>1, <4>2
      <4>3. CASE i \notin lost
        <5>1. i \in stored \/ Cardinality(A) >= config.persisted
          BY <2>2, <2>11, <4>1, <4>3
        <5>2. A \in SUBSET (i + 1 .. n)
          <6> SUFFICES ASSUME NEW j \in stored, j > i PROVE j \in i + 1 .. n
            OBVIOUS
          <6>1. j \in 1 .. n
            BY <2>2
          <6> QED
            BY <2>1, <4>1, <6>1
        <5>3. /\ IsFiniteSet(i + 1 .. n)
              /\ Cardinality(i + 1 .. n) = IF i + 1 > n THEN 0 ELSE n - (i + 1) + 1
          BY <2>1, <4>1, FS_Interval
        <5> HIDE DEF A
        <5>4. Cardinality(A) <= Cardinality(i + 1 .. n) /\ IsFiniteSet(A)
          BY <5>2, <5>3, FS_Subset
        <5>5. Cardinality(A) \in Nat
          BY <5>4, FS_CardinalityType
        <5>6. Cardinality(i + 1 .. n) = n - i
          BY <2>1, <4>1, <5>3
        <5>7. Cardinality(A) < config.persisted
          BY <2>1, <4>1, <5>4, <5>5, <5>6
        <5>8. i \in stored
          BY <2>1, <5>1, <5>5, <5>7
        <5> QED
          BY <4>1, <5>8 DEF Within
      <4> QED
        BY <4>2, <4>3
    <3>3. /\ CountOutcomesSince(Recent, since).total = Cardinality(few)
          /\ SloWindow(w, FALSE).total = Cardinality(had)
      <4>1. SloWindow(w, FALSE) = CountOutcomesSince(stored, since)
        BY <2>7, <2>11
      <4>2. /\ CountOutcomesSince(Recent, since).total = Cardinality(few)
            /\ CountOutcomesSince(stored, since).total = Cardinality(had)
        BY CountsAre
      <4> HIDE DEF few, had
      <4> QED
        BY <4>1, <4>2
    <3> HIDE DEF few, had, rest
    <3>4. /\ IsFiniteSet(had) /\ Cardinality(had) \in Nat /\ IsFiniteSet(rest) /\ Cardinality(rest) \in Nat
          /\ IsFiniteSet(few) /\ Cardinality(few) \in Nat
          /\ IsFiniteSet(had \cap rest) /\ Cardinality(had \cap rest) \in Nat
      <4>1. had \cap rest \in SUBSET (1 .. n)
        BY <3>1
      <4> QED
        BY <2>1, <3>1, <4>1, NumbersFinite
    <3>5. /\ IsFiniteSet(had \cup rest)
          /\ Cardinality(had \cup rest) = Cardinality(had) + Cardinality(rest) - Cardinality(had \cap rest)
      BY <3>4, FS_Union
    <3>6. few \in SUBSET (had \cup rest)
      BY <3>2
    <3>7. Cardinality(few) <= Cardinality(had \cup rest)
      BY <3>5, <3>6, FS_Subset
    <3>8. Cardinality(few) <= Cardinality(had) + Cardinality(rest)
      BY <3>4, <3>5, <3>7
    <3> QED
      BY <3>3, <3>8 DEF rest
  <2>12. ASSUME Cardinality(happened) <= config.history
         PROVE  SloWindow(w, TRUE) = CountOutcomesSince(DOMAIN runs, since)
    <3>1. ASSUME NEW i, runs[i].at >= since PROVE i \in Recent <=> i \in DOMAIN runs
      <4>1. ASSUME i \in DOMAIN runs PROVE i \in Recent
        <5>1. i \in 1 .. n /\ i \in happened
          BY <2>1, <2>6, <3>1, <4>1
        <5>2. Cardinality(i + 1 .. n) \in Nat /\ Cardinality(i + 1 .. n) < Cardinality(happened)
          <6> DEFINE A == i + 1 .. n
          <6>1. A \in SUBSET (1 .. n) /\ \A j \in A : j > i
            BY <2>1, <5>1
          <6> HIDE DEF A
          <6>2. Cardinality(A) \in Nat /\ Cardinality(A) < Cardinality(happened)
            BY <2>9, <5>1, <6>1
          <6> QED
            BY <6>2 DEF A
        <5>3. Cardinality(i + 1 .. n) = IF i + 1 > n THEN 0 ELSE n - (i + 1) + 1
          BY <2>1, <5>1, FS_Interval
        <5>4. Cardinality(i + 1 .. n) = n - i
          BY <2>1, <5>1, <5>3
        <5>5. i > n - config.history
          BY <2>1, <2>8, <2>12, <5>1, <5>2, <5>4
        <5> QED
          BY <2>1, <5>1, <5>5 DEF Recent, n
      <4> QED
        BY <4>1 DEF Recent
    <3>2. CountOutcomesSince(Recent, since) = CountOutcomesSince(DOMAIN runs, since)
      BY <3>1, CountsSame
    <3> QED
      BY <2>7, <3>2
  <2> QED
    BY <2>10, <2>11, <2>12 DEF since, happened
<1>2. ASSUME snaps # {}
      PROVE  LET newest == CHOOSE at \in {s.at : s \in snaps} : \A s \in snaps : s.at <= at
             IN  /\ \A s \in snaps : s.at >= newest - Retention
                 /\ \E s \in Trend(Global, day - newest) : s.at = newest
                 /\ RowsOf(asked) # {} => \E s \in snaps : s.scope = asked /\ s.at = newest
  <2> DEFINE newest == CHOOSE at \in {s.at : s \in snaps} : \A s \in snaps : s.at <= at
  <2>1. PICK a \in Nat : NewestAt(a)
    BY <1>2 DEF SnapsKept
  <2>2. a \in {s.at : s \in snaps} /\ \A s \in snaps : s.at <= a
    BY <2>1 DEF NewestAt
  <2>3. newest \in {s.at : s \in snaps} /\ \A s \in snaps : s.at <= newest
    BY <2>2
  <2>4. newest \in Nat
    BY <2>3 DEF SnapsKept
  <2> HIDE DEF newest
  <2>5. newest = a
    BY <2>2, <2>3, <2>4
  <2>6. PICK s \in snaps : s.scope = Global /\ s.at = a
    BY <2>1 DEF NewestAt
  <2>7. day \in Nat /\ day - (day - a) = a
    BY DEF RunsTold
  <2>8. s \in Trend(Global, day - a)
    BY <2>6, <2>7 DEF Trend
  <2>9. /\ \A t \in snaps : t.at >= a - Retention
        /\ RowsOf(asked) # {} => \E t \in snaps : t.scope = asked /\ t.at = a
    <3>1. \A t \in snaps : a - Retention <= t.at /\ t.at \in Nat
      BY <2>1 DEF NewestAt, SnapsKept
    <3> QED
      BY <2>1, <3>1 DEF NewestAt, Retention
  <2> QED
    BY <2>5, <2>6, <2>8, <2>9 DEF newest
<1> QED
  BY <1>1, <1>2 DEF ReportsAgree

MaintInv == ConfigOK /\ TableKept /\ damaged \subseteq Rows /\ RunsCleared /\ RunsTold /\ SnapsKept

\* A fresh table, and no run and no snapshot.
LEMMA MaintStart == MaintInit => MaintInv
<1> SUFFICES ASSUME MaintInit PROVE MaintInv
  OBVIOUS
<1>1. ConfigOK
  BY ConfigRead DEF MaintInit
<1>2. TableKept
  <2>1. table = wrote /\ wrote \in [Rows -> {PlainText("short"), PlainText("long")}]
    BY DEF MaintInit
  <2>2. ASSUME NEW r \in Rows PROVE RowKept(r)
    <3>1. PICK t \in {"short", "long"} : wrote[r] = PlainText(t) /\ table[r] = PlainText(t)
      BY <2>1
    <3> QED
      BY <3>1 DEF RowKept, IsPlain, PlainText, Integrity, IsCompacted, Resurrect
  <2> QED
    BY <2>1, <2>2 DEF TableKept
<1>3. RunsCleared /\ SnapsKept /\ damaged \subseteq Rows
  BY DEF MaintInit, RunsCleared, SnapsKept
<1>4. RunsTold
  <2>1. runs = <<>> /\ day = 0 /\ stored = {} /\ lost = {}
    BY DEF MaintInit
  <2>2. runs \in Seq(Outcome) /\ Len(runs) = 0
    BY <2>1
  <2> QED
    BY <2>1, <2>2 DEF RunsTold
<1> QED
  BY <1>1, <1>2, <1>3, <1>4 DEF MaintInv

\* What no step but a run or a dashboard touches.
LEMMA MaintRest ==
  ASSUME MaintInv, UNCHANGED <<config, runs, stored, lost, lastRun, snaps, asked>>, day' \in Nat, day <= day',
         TableKept', damaged' \subseteq Rows
  PROVE  MaintInv'
<1>1. /\ config' = config /\ runs' = runs /\ stored' = stored /\ lost' = lost
      /\ lastRun' = lastRun /\ snaps' = snaps /\ asked' = asked
  OBVIOUS
<1>2. ConfigOK'
  BY <1>1 DEF MaintInv, ConfigOK
<1>3. RunsCleared'
  BY <1>1 DEF MaintInv, RunsCleared, ApplyLimit, Newest
<1>4. RunsTold'
  <2>1. runs \in Seq(Outcome) /\ day \in Nat /\ \A i \in 1 .. Len(runs) : runs[i].at <= day
    BY DEF MaintInv, RunsTold
  <2>2. \A i \in 1 .. Len(runs) : runs[i].at \in Nat
    <3> SUFFICES ASSUME NEW i \in 1 .. Len(runs) PROVE runs[i].at \in Nat
      OBVIOUS
    <3>1. runs[i] \in Outcome
      BY <2>1
    <3> QED
      BY <3>1 DEF Outcome
  <2>3. \A i \in 1 .. Len(runs) : runs[i].at <= day'
    BY <2>2, <2>1
  <2> QED
    BY <1>1, <2>1, <2>3 DEF MaintInv, RunsTold
<1>5. SnapsKept'
  <2>1. \A s \in snaps : s.at \in Nat /\ s.at <= day
    BY DEF MaintInv, SnapsKept
  <2>2. \A s \in snaps : s.at \in Nat /\ s.at <= day'
    BY <2>1 DEF MaintInv, RunsTold
  <2>3. \A a : NewestAt(a)' <=> NewestAt(a)
    BY <1>1 DEF NewestAt, RowsOf
  <2> QED
    BY <1>1, <2>2, <2>3 DEF MaintInv, SnapsKept
<1> QED
  BY <1>2, <1>3, <1>4, <1>5 DEF MaintInv

\* Every step keeps it.
LEMMA MaintStep == MaintInv /\ [MaintNext]_maintVars => MaintInv'
<1> SUFFICES ASSUME MaintInv, [MaintNext]_maintVars PROVE MaintInv'
  OBVIOUS
<1>1. TableKept /\ ConfigOK /\ day \in Nat /\ damaged \subseteq Rows
  BY DEF MaintInv, RunsTold
<1>2. ASSUME NEW r \in Rows, NEW v, Store(r, v), IsPlain(v) \/ v = Envelope("long", "none")
      PROVE  MaintInv'
  <2>1. /\ UNCHANGED <<config, runs, stored, lost, lastRun, snaps, asked>> /\ day' = day
        /\ damaged' \subseteq Rows
    BY <1>1, <1>2 DEF Store
  <2>2. TableKept'
    BY <1>1, <1>2, StoreKept
  <2> QED
    BY <1>1, <2>1, <2>2, MaintRest
<1>3. ASSUME NEW r \in Rows, Rewrite(r)
      PROVE  MaintInv'
  <2>1. /\ UNCHANGED <<config, runs, stored, lost, lastRun, snaps, asked>> /\ day' = day
        /\ damaged' \subseteq Rows
    BY <1>1, <1>3 DEF Rewrite
  <2>2. TableKept'
    BY <1>1, <1>3, RewriteKept
  <2> QED
    BY <1>1, <2>1, <2>2, MaintRest
<1>4. ASSUME NEW r \in Rows, NEW harm \in {"checksum", "decode", "all"}, Corrupt(r, harm)
      PROVE  MaintInv'
  <2>1. /\ UNCHANGED <<config, runs, stored, lost, lastRun, snaps, asked>> /\ day' = day
        /\ damaged' \subseteq Rows
    BY <1>1, <1>4 DEF Corrupt
  <2>2. TableKept'
    BY <1>1, <1>4, CorruptKept
  <2> QED
    BY <1>1, <2>1, <2>2, MaintRest
<1>5. ASSUME NEW hour \in 0 .. 3, NEW dryRunOnly \in BOOLEAN, NEW ingestErrors \in BOOLEAN,
             NEW fails \in 0 .. RowCount + 1, config.kind = "self-healing" => ~ingestErrors,
             Run(hour, dryRunOnly, ingestErrors, fails)
      PROVE  MaintInv'
  <2>1. UNCHANGED <<config, day, snaps, asked, wrote, damaged>>
    BY <1>5 DEF Run
  <2>2. /\ RunsCleared'
        /\ \E packed \in SUBSET Rows :
             table' = [r \in Rows |-> IF r \in packed THEN CompactForStorage(table[r]) ELSE table[r]]
        /\ \E outcome \in {"error", "applied", "dry-run-only", "indexed"} : PushRun(outcome)
    BY <1>1, <1>5, RunClears
  <2>3. TableKept'
    BY <1>1, <2>1, <2>2, PackKept
  <2>4. RunsTold'
    BY <2>1, <2>2, RunAdded DEF MaintInv, Outcomes
  <2>5. ConfigOK' /\ SnapsKept' /\ damaged' \subseteq Rows
    BY <1>1, <2>1 DEF MaintInv, ConfigOK, SnapsKept, NewestAt, RowsOf
  <2> QED
    BY <2>2, <2>3, <2>4, <2>5 DEF MaintInv
<1>6. CASE Skip
  <2>1. /\ UNCHANGED <<config, table, day, lastRun, snaps, asked, wrote, damaged>>
        /\ PushRun("skipped")
    BY <1>6 DEF Skip
  <2>2. RunsTold'
    BY <2>1, RunAdded DEF MaintInv, Outcomes
  <2>3. TableKept'
    BY <1>1, <2>1 DEF TableKept, RowKept
  <2>4. RunsCleared'
    BY <2>1 DEF MaintInv, RunsCleared, ApplyLimit, Newest
  <2>5. ConfigOK' /\ SnapsKept' /\ damaged' \subseteq Rows
    BY <1>1, <2>1 DEF MaintInv, ConfigOK, SnapsKept, NewestAt, RowsOf
  <2> QED
    BY <2>2, <2>3, <2>4, <2>5 DEF MaintInv
<1>7. CASE NextDay
  <2>1. /\ UNCHANGED <<config, runs, stored, lost, lastRun, snaps, asked, table, wrote, damaged>>
        /\ day' = day + 1
    BY <1>7 DEF NextDay
  <2>2. TableKept' /\ day' \in Nat /\ day <= day'
    BY <1>1, <2>1 DEF TableKept, RowKept
  <2> QED
    BY <1>1, <2>1, <2>2, MaintRest
<1>8. ASSUME NEW p \in Projects, NEW limit \in 0 .. 1, Dashboard(p, limit)
      PROVE  MaintInv'
  <2>1. UNCHANGED <<config, table, day, runs, stored, lost, lastRun, wrote, damaged>>
    BY <1>8 DEF Dashboard
  <2>2. SnapsKept'
    BY <1>1, <1>8, SnapsTaken DEF MaintInv
  <2>3. ConfigOK' /\ RunsTold' /\ damaged' \subseteq Rows
    BY <1>1, <2>1 DEF MaintInv, ConfigOK, RunsTold
  <2>4. TableKept'
    BY <1>1, <2>1 DEF TableKept, RowKept
  <2>5. RunsCleared'
    BY <2>1 DEF MaintInv, RunsCleared, ApplyLimit, Newest
  <2> QED
    BY <2>2, <2>3, <2>4, <2>5 DEF MaintInv
<1>9. CASE UNCHANGED maintVars
  <2>1. /\ UNCHANGED <<config, runs, stored, lost, lastRun, snaps, asked, table, wrote, damaged>>
        /\ day' = day
    BY <1>9 DEF maintVars
  <2>2. TableKept'
    BY <1>1, <2>1 DEF TableKept, RowKept
  <2> QED
    BY <1>1, <2>1, <2>2, MaintRest
<1>10. \A t : IsPlain(PlainText(t))
  BY DEF IsPlain, PlainText
<1> QED
  BY <1>2, <1>3, <1>4, <1>5, <1>6, <1>7, <1>8, <1>9, <1>10 DEF MaintNext

\* The invariant holds in every reachable state.
LEMMA MaintAlways == MaintSpec => []MaintInv
  BY MaintStart, MaintStep, PTL DEF MaintSpec

\* Whatever is packed, backfilled, written back or goes bad, a reader sees what was
\* written as long as the stored value is sound, and no operation damages one: for any
\* number of rows and operations.
THEOREM ContentSurvives == MaintSpec => []ContentKept
<1>1. MaintInv => ContentKept
  BY DEF MaintInv, TableKept, RowKept, ContentKept
<1> QED
  BY <1>1, MaintAlways, PTL

\* A run packs only what it was cleared for, and the reports agree with the runs and the
\* snapshots there were: for any rows, configurations and operations.
THEOREM RunsAreSound == MaintSpec => []RunsSound
<1>1. MaintInv => RunsSound
  BY ReportsFollow DEF MaintInv, RunsSound
<1> QED
  BY <1>1, MaintAlways, PTL

-----------------------------------------------------------------------------
(***************************************************************************)
(* The event stream.                                                       *)
(***************************************************************************)
Conn ==
  [peer : {"none", "live", "dead"}, alive : BOOLEAN, sent : Seq(Nat), unread : Nat, pinged : BOOLEAN,
   cut : BOOLEAN, peak : Nat, from : Nat]

\* Where the deltas of a connection begin that was made when so many were emitted.
Backlog == IF ReplayLimit < RingSize THEN ReplayLimit ELSE RingSize
Start(from) == IF from > Backlog THEN from - Backlog + 1 ELSE 1

\* The ring holds the last of n deltas, in order.
RingOK(deltas, n) ==
  /\ deltas \in Seq(Nat)
  /\ Len(deltas) = IF n < RingSize THEN n ELSE RingSize
  /\ \A i \in 1 .. Len(deltas) : deltas[i] = n - Len(deltas) + i

\* What a socket was handed of n deltas: in order, and while it kept up all of them
\* from the start.
SentOK(k, n) ==
  /\ \A i \in 1 .. Len(k.sent) : k.sent[i] \in 1 .. n
  /\ \A i, j \in 1 .. Len(k.sent) : i < j => k.sent[i] < k.sent[j]
  /\ k.peer # "none" /\ k.peak <= MaxBuffered =>
       /\ Len(k.sent) = n - Start(k.from) + 1
       /\ \A i \in 1 .. Len(k.sent) : k.sent[i] = Start(k.from) + i - 1

\* A connection that is open has answered or has a ping to answer, and one that was
\* cut had one; the most that waited in a socket is no less than what waits.
PeerOK(k, n) ==
  /\ k.from <= n /\ k.unread <= k.peak
  /\ k.peer # "none" => ~k.cut /\ (k.alive \/ k.pinged)
  /\ k.cut => k.pinged

StreamInv ==
  /\ emitted \in Seq(Project \cup {NoProject})
  /\ RingOK(ring, Len(emitted))
  /\ conn \in [Client -> Conn]
  /\ \A c \in Client : SentOK(conn[c], Len(emitted)) /\ PeerOK(conn[c], Len(emitted))
  /\ "ws" \in server => "stopping" \in server /\ \A c \in Client : ~Connected(c)

\* A backlog is not empty, and a connection does not begin before the first delta.
LEMMA BacklogIs == Backlog \in Nat \ {0} /\ \A from \in Nat : Start(from) \in Nat \ {0} /\ Start(from) <= from + 1
  BY EventStreamAssumption DEF Backlog, Start

\* No connection has been handed anything.
LEMMA UnconnectedOK ==
  ASSUME NEW n \in Nat, NEW k, k \in Conn, k.peer = "none", k.sent = <<>>, k.from = 0, k.unread = 0,
         k.cut => k.pinged
  PROVE  SentOK(k, n) /\ PeerOK(k, n)
  BY DEF SentOK, PeerOK, Conn

\* The ring, with the next delta and without the oldest if it was full, holds the last ones.
LEMMA RingGrows ==
  ASSUME NEW deltas, NEW n \in Nat, RingOK(deltas, n), NEW grown, grown = Append(deltas, n + 1)
  PROVE  RingOK(IF Len(grown) > RingSize THEN Tail(grown) ELSE grown, n + 1)
<1>1. /\ deltas \in Seq(Nat) /\ grown \in Seq(Nat) /\ Len(grown) = Len(deltas) + 1 /\ RingSize \in Nat \ {0}
      /\ \A i \in 1 .. Len(deltas) : grown[i] = n - Len(deltas) + i
      /\ grown[Len(deltas) + 1] = n + 1
  BY EventStreamAssumption DEF RingOK
<1>2. \A i \in 1 .. Len(grown) : grown[i] = n - Len(deltas) + i
  BY <1>1
<1>3. CASE Len(grown) > RingSize
  <2>1. Len(deltas) = RingSize /\ n >= RingSize
    BY <1>1, <1>3 DEF RingOK
  <2>2. /\ Tail(grown) \in Seq(Nat) /\ Len(Tail(grown)) = Len(grown) - 1
        /\ \A i \in 1 .. Len(Tail(grown)) : Tail(grown)[i] = grown[i + 1]
    BY <1>1, HeadTailProperties
  <2>3. Len(Tail(grown)) = RingSize
    BY <1>1, <2>1, <2>2
  <2>4. ASSUME NEW i \in 1 .. RingSize
        PROVE  Tail(grown)[i] = (n + 1) - RingSize + i
    <3>1. i + 1 \in 1 .. Len(grown) /\ Tail(grown)[i] = grown[i + 1]
      BY <1>1, <2>1, <2>2, <2>3
    <3>2. grown[i + 1] = n - Len(deltas) + (i + 1)
      BY <1>2, <3>1
    <3> QED
      BY <1>1, <2>1, <3>1, <3>2
  <2>6. ~(n + 1 < RingSize)
    BY <1>1, <2>1
  <2>7. RingOK(Tail(grown), n + 1)
    BY <2>2, <2>3, <2>4, <2>6 DEF RingOK
  <2> QED
    BY <1>3, <2>7
<1>4. CASE ~(Len(grown) > RingSize)
  BY <1>1, <1>2, <1>4 DEF RingOK
<1> QED
  BY <1>3, <1>4

\* What a connection is handed leaves it a connection.
LEMMA ConnEdited ==
  ASSUME NEW k \in Conn, NEW sent \in Seq(Nat), NEW unread \in Nat, NEW most \in Nat
  PROVE  [k EXCEPT !.sent = sent, !.unread = unread, !.peak = most] \in Conn
  BY DEF Conn

\* A socket that takes a delta has all of them in order; one that does not has more
\* waiting than the limit.
LEMMA HandedOK ==
  ASSUME NEW k \in Conn, NEW n \in Nat, SentOK(k, n), PeerOK(k, n)
  PROVE  /\ Handed(k, n + 1) \in Conn /\ Handed(k, n + 1).peer = k.peer
         /\ SentOK(Handed(k, n + 1), n + 1) /\ PeerOK(Handed(k, n + 1), n + 1)
<1> DEFINE h == Handed(k, n + 1)
           most == IF k.unread + 1 > k.peak THEN k.unread + 1 ELSE k.peak
           all  == Append(k.sent, n + 1)
<1>1. CASE k.peer # "none" /\ k.unread <= MaxBuffered
  <2>1. h = [k EXCEPT !.sent = all, !.unread = k.unread + 1, !.peak = most]
    BY <1>1 DEF Handed
  <2>3. k.sent \in Seq(Nat) /\ k.unread \in Nat /\ k.peak \in Nat /\ k.from \in Nat /\ MaxBuffered \in Nat
    BY EventStreamAssumption DEF Conn
  <2>8. most \in Nat /\ most >= k.peak /\ most >= k.unread + 1 /\ all \in Seq(Nat)
    BY <2>3
  <2>9. h = [k EXCEPT !.sent = all, !.unread = k.unread + 1, !.peak = most] /\ all = Append(k.sent, n + 1)
    BY <2>1
  <2>13. k.unread + 1 \in Nat
    BY <2>3
  <2> HIDE DEF h, most, all
  <2>10. h \in Conn
    <3>1. [k EXCEPT !.sent = all, !.unread = k.unread + 1, !.peak = most] \in Conn
      BY <2>8, <2>13, ConnEdited
    <3> QED
      BY <2>9, <3>1
  <2>11. /\ h.peer = k.peer /\ h.from = k.from /\ h.cut = k.cut /\ h.pinged = k.pinged /\ h.alive = k.alive
         /\ h.unread = k.unread + 1
    BY <2>9 DEF Conn
  <2>12. h.sent = all /\ h.peak = most
    BY <2>9 DEF Conn
  <2>2. /\ h \in Conn /\ h.peer = k.peer /\ h.from = k.from /\ h.cut = k.cut /\ h.pinged = k.pinged
        /\ h.alive = k.alive /\ h.sent = Append(k.sent, n + 1) /\ h.unread = k.unread + 1
        /\ h.peak = most
    BY <2>9, <2>10, <2>11, <2>12
  <2>4. /\ Len(h.sent) = Len(k.sent) + 1 /\ h.sent[Len(k.sent) + 1] = n + 1
        /\ \A i \in 1 .. Len(k.sent) : h.sent[i] = k.sent[i]
    BY <2>2, <2>3
  <2>5. PeerOK(h, n + 1)
    BY <2>2, <2>3, <2>8 DEF PeerOK
  <2>6. h.peak <= MaxBuffered => k.peak <= MaxBuffered
    BY <2>2, <2>3, <2>8
  <2>7. SentOK(h, n + 1)
    <3>1. Len(k.sent) \in Nat
      BY <2>3
    <3>2. \A i \in 1 .. Len(h.sent) : i = Len(k.sent) + 1 \/ i \in 1 .. Len(k.sent)
      BY <2>4, <3>1
    <3>3. \A i \in 1 .. Len(h.sent) : h.sent[i] \in 1 .. n + 1
      <4> SUFFICES ASSUME NEW i \in 1 .. Len(h.sent) PROVE h.sent[i] \in 1 .. n + 1
        OBVIOUS
      <4>1. n \in Nat /\ n + 1 \in 1 .. n + 1 /\ \A x \in 1 .. n : x \in 1 .. n + 1
        BY <2>8
      <4>2. CASE i = Len(k.sent) + 1
        BY <2>4, <4>1, <4>2
      <4>3. CASE i \in 1 .. Len(k.sent)
        BY <2>4, <4>1, <4>3 DEF SentOK
      <4> QED
        BY <3>2, <4>2, <4>3
    <3>4. \A i, j \in 1 .. Len(h.sent) : i < j => h.sent[i] < h.sent[j]
      <4>1. SUFFICES ASSUME NEW i \in 1 .. Len(h.sent), NEW j \in 1 .. Len(h.sent), i < j
                     PROVE  h.sent[i] < h.sent[j]
        OBVIOUS
      <4>2. i \in 1 .. Len(k.sent) /\ k.sent[i] \in 1 .. n
        BY <2>4, <3>1, <4>1 DEF SentOK
      <4>3. CASE j = Len(k.sent) + 1
        BY <2>4, <4>2, <4>3
      <4>4. CASE j \in 1 .. Len(k.sent)
        BY <2>4, <4>1, <4>2, <4>4 DEF SentOK
      <4> QED
        BY <3>2, <4>3, <4>4
    <3>5. ASSUME h.peer # "none", h.peak <= MaxBuffered
          PROVE  /\ Len(h.sent) = (n + 1) - Start(h.from) + 1
                 /\ \A i \in 1 .. Len(h.sent) : h.sent[i] = Start(h.from) + i - 1
      <4>1. /\ Len(k.sent) = n - Start(k.from) + 1
            /\ \A i \in 1 .. Len(k.sent) : k.sent[i] = Start(k.from) + i - 1
        BY <2>2, <2>6, <3>5 DEF SentOK
      <4>2. Start(k.from) \in Nat /\ h.from = k.from
        BY <2>2, <2>3, BacklogIs
      <4>3. ASSUME NEW i \in 1 .. Len(h.sent)
            PROVE  h.sent[i] = Start(k.from) + i - 1
        <5>1. CASE i = Len(k.sent) + 1
          <6>1. h.sent[i] = n + 1
            BY <2>4, <5>1
          <6>2. Start(k.from) + i - 1 = n + 1
            BY <3>1, <4>1, <4>2, <5>1
          <6> QED
            BY <6>1, <6>2
        <5>2. CASE i \in 1 .. Len(k.sent)
          BY <2>4, <4>1, <5>2
        <5> QED
          BY <3>2, <5>1, <5>2
      <4>4. Len(k.sent) + 1 = (n + 1) - Start(k.from) + 1
        BY <4>1, <4>2
      <4> QED
        BY <2>4, <4>2, <4>3, <4>4
    <3> QED
      BY <3>3, <3>4, <3>5 DEF SentOK
  <2> QED
    BY <2>2, <2>5, <2>7 DEF h
<1>2. CASE ~(k.peer # "none" /\ k.unread <= MaxBuffered)
  <2>1. h = k
    BY <1>2 DEF Handed
  <2>2. k.peer # "none" => k.peak > MaxBuffered
    BY <1>2, EventStreamAssumption DEF PeerOK, Conn
  <2>3. PeerOK(k, n + 1)
    BY DEF PeerOK, Conn
  <2>4. SentOK(k, n + 1)
    BY <2>2, EventStreamAssumption DEF SentOK, Conn
  <2> QED
    BY <2>1, <2>3, <2>4
<1> QED
  BY <1>1, <1>2

\* The ring is replayed from where a connection made now begins.
LEMMA StartIs ==
  ASSUME NEW n \in Nat, NEW most, most = IF n < RingSize THEN n ELSE RingSize,
         NEW first, first = IF most > ReplayLimit THEN most - ReplayLimit + 1 ELSE 1
  PROVE  n - most + first = Start(n)
<1>1. RingSize \in Nat \ {0} /\ ReplayLimit \in Nat \ {0}
  BY EventStreamAssumption
<1>2. CASE ReplayLimit < RingSize
  <2>1. Start(n) = IF n > ReplayLimit THEN n - ReplayLimit + 1 ELSE 1
    BY <1>2 DEF Start, Backlog
  <2>2. most > ReplayLimit <=> n > ReplayLimit
    BY <1>1, <1>2
  <2> QED
    BY <1>1, <1>2, <2>1, <2>2
<1>3. CASE ~(ReplayLimit < RingSize)
  <2>1. Start(n) = IF n > RingSize THEN n - RingSize + 1 ELSE 1
    BY <1>3 DEF Start, Backlog
  <2>2. ~(most > ReplayLimit)
    BY <1>1, <1>3
  <2> QED
    BY <1>1, <1>3, <2>1, <2>2
<1> QED
  BY <1>2, <1>3

\* The ring is replayed from a backlog on, or from the first delta.
LEMMA ReplayIs ==
  ASSUME RingOK(ring, Len(emitted)), Len(emitted) \in Nat
  PROVE  /\ Replay \in Seq(Nat) /\ Len(Replay) = Len(emitted) - Start(Len(emitted)) + 1
         /\ \A i \in 1 .. Len(Replay) : Replay[i] = Start(Len(emitted)) + i - 1
<1> DEFINE n     == Len(emitted)
           most  == Len(ring)
           first == IF most > ReplayLimit THEN most - ReplayLimit + 1 ELSE 1
<1>1. /\ n \in Nat /\ ring \in Seq(Nat) /\ most \in Nat
      /\ RingSize \in Nat \ {0} /\ ReplayLimit \in Nat \ {0}
      /\ most = IF n < RingSize THEN n ELSE RingSize
  BY EventStreamAssumption DEF RingOK
<1>2. first \in 1 .. most + 1
  BY <1>1
<1>3. Replay = SubSeq(ring, first, most)
  BY DEF Replay
<1>4. \A i \in 1 .. most : ring[i] = n - most + i
  BY DEF RingOK
<1>5. n - most + first = Start(n)
  <2>1. first = IF most > ReplayLimit THEN most - ReplayLimit + 1 ELSE 1
    OBVIOUS
  <2> HIDE DEF n, most, first
  <2> QED
    BY <1>1, <2>1, StartIs
<1> HIDE DEF n, most, first
<1>6. /\ Replay \in Seq(Nat) /\ Len(Replay) = most - first + 1
      /\ \A i \in 1 .. most - first + 1 : Replay[i] = ring[first + i - 1]
  <2>1. \A i \in first .. Len(ring) : ring[i] \in Nat
    BY <1>1, <1>2
  <2>2. first \in Nat /\ Len(ring) = most
    BY <1>1, <1>2 DEF most
  <2> QED
    BY <1>1, <1>2, <1>3, <2>1, <2>2, SubSeqProperties
<1>7. Len(Replay) = n - Start(n) + 1
  BY <1>1, <1>2, <1>5, <1>6
<1>8. ASSUME NEW i \in 1 .. Len(Replay)
      PROVE  Replay[i] = Start(n) + i - 1
  <2>1. first + i - 1 \in 1 .. most
    BY <1>1, <1>2, <1>6
  <2>2. ring[first + i - 1] = n - most + (first + i - 1)
    BY <1>4, <2>1
  <2>3. Replay[i] = ring[first + i - 1]
    BY <1>6
  <2> QED
    BY <1>1, <1>2, <1>5, <2>2, <2>3
<1> QED
  BY <1>6, <1>7, <1>8 DEF n

\* A delta is emitted: the ring, and every socket.
LEMMA EmitStep ==
  ASSUME StreamInv, NEW p \in Project \cup {NoProject}, Emit(p)
  PROVE  StreamInv'
<1> DEFINE n == Len(emitted)
<1>1. /\ n \in Nat /\ emitted' \in Seq(Project \cup {NoProject}) /\ Len(emitted') = n + 1
  BY DEF Emit, StreamInv
<1>2. RingOK(ring, n)'
  <2>1. ring' = IF Len(Append(ring, n + 1)) > RingSize THEN Tail(Append(ring, n + 1)) ELSE Append(ring, n + 1)
    BY DEF Emit
  <2>2. RingOK(ring, n)
    BY DEF StreamInv
  <2> HIDE DEF n
  <2>3. RingOK(ring', n + 1)
    BY <1>1, <2>1, <2>2, RingGrows
  <2> QED
    BY <1>1, <2>3 DEF RingOK, n
<1>3. server' = server
  BY DEF Emit
<1>4. conn' = [c \in Client |-> IF "ws" \in server THEN conn[c] ELSE Handed(conn[c], n + 1)]
  BY DEF Emit
<1>5. /\ conn \in [Client -> Conn] /\ ("ws" \in server => "stopping" \in server /\ \A c \in Client : ~Connected(c))
      /\ \A c \in Client : SentOK(conn[c], n) /\ PeerOK(conn[c], n)
  BY DEF StreamInv
<1> HIDE DEF n
<1>6. ASSUME NEW c \in Client
      PROVE  /\ conn'[c] \in Conn /\ conn'[c].peer = conn[c].peer
             /\ SentOK(conn'[c], n + 1) /\ PeerOK(conn'[c], n + 1)
  <2>1. conn[c] \in Conn /\ SentOK(conn[c], n) /\ PeerOK(conn[c], n)
    BY <1>5
  <2>2. CASE "ws" \in server
    <3>1. conn'[c] = conn[c] /\ conn[c].peer = "none"
      BY <1>4, <1>5, <2>2 DEF Connected
    <3>2. SentOK(conn[c], n + 1)
      <4>1. \A i \in 1 .. Len(conn[c].sent) : conn[c].sent[i] \in 1 .. n + 1
        BY <1>1, <2>1 DEF SentOK
      <4> QED
        BY <2>1, <3>1, <4>1 DEF SentOK
    <3>3. PeerOK(conn[c], n + 1)
      BY <1>1, <2>1, <3>1 DEF PeerOK, Conn
    <3> QED
      BY <2>1, <3>1, <3>2, <3>3
  <2>3. CASE "ws" \notin server
    <3>1. conn'[c] = Handed(conn[c], n + 1)
      BY <1>4, <2>3
    <3> QED
      BY <1>1, <2>1, <3>1, HandedOK
  <2> QED
    BY <2>2, <2>3
<1>7. conn' \in [Client -> Conn]
  BY <1>4, <1>6
<1>8. \A c \in Client : SentOK(conn'[c], Len(emitted')) /\ PeerOK(conn'[c], Len(emitted'))
  BY <1>1, <1>6
<1>9. "ws" \in server' => "stopping" \in server' /\ \A c \in Client : ~Connected(c)'
  BY <1>3, <1>5, <1>6 DEF Connected
<1>10. RingOK(ring', Len(emitted'))
  BY <1>2, <1>1 DEF n
<1> QED
  BY <1>1, <1>7, <1>8, <1>9, <1>10 DEF StreamInv

\* A step that emits nothing keeps what it leaves of every connection in order.
LEMMA ConnsKept ==
  ASSUME StreamInv, UNCHANGED <<emitted, ring>>, NEW now \in [Client -> Conn], conn' = now,
         \A c \in Client : SentOK(now[c], Len(emitted)) /\ PeerOK(now[c], Len(emitted)),
         "ws" \in server' => "stopping" \in server' /\ \A c \in Client : now[c].peer = "none"
  PROVE  StreamInv'
<1>1. /\ emitted' = emitted /\ ring' = ring /\ emitted \in Seq(Project \cup {NoProject})
      /\ RingOK(ring, Len(emitted))
  BY DEF StreamInv
<1>2. \A c \in Client : SentOK(conn'[c], Len(emitted')) /\ PeerOK(conn'[c], Len(emitted'))
  BY <1>1
<1>3. "ws" \in server' => "stopping" \in server' /\ \A c \in Client : ~Connected(c)'
  BY DEF Connected
<1> QED
  BY <1>1, <1>2, <1>3 DEF StreamInv

\* What a beat leaves of a connection.
LEMMA BeatOK ==
  ASSUME NEW k \in Conn, NEW n \in Nat, SentOK(k, n), PeerOK(k, n)
  PROVE  /\ Beat(k) \in Conn /\ SentOK(Beat(k), n) /\ PeerOK(Beat(k), n)
         /\ k.peer = "none" => Beat(k).peer = "none"
<1>1. CASE k.peer = "none"
  BY <1>1 DEF Beat
<1>2. CASE k.peer # "none" /\ ~k.alive
  <2> DEFINE b == Beat(k)
  <2>1. b = [Unconnected EXCEPT !.cut = TRUE, !.pinged = k.pinged]
    BY <1>2 DEF Beat
  <2>2. /\ b = [peer |-> "none", alive |-> FALSE, sent |-> <<>>, unread |-> 0, pinged |-> k.pinged,
                cut |-> TRUE, peak |-> 0, from |-> 0]
        /\ k.pinged
    BY <1>2, <2>1 DEF Unconnected, PeerOK, Conn
  <2>3. b \in Conn /\ b.peer = "none" /\ b.sent = <<>> /\ b.from = 0 /\ b.unread = 0 /\ (b.cut => b.pinged)
    BY <2>2 DEF Conn
  <2> HIDE DEF b
  <2>4. SentOK(b, n) /\ PeerOK(b, n)
    BY <2>3, UnconnectedOK
  <2> QED
    BY <1>2, <2>3, <2>4 DEF b
<1>3. CASE k.peer # "none" /\ k.alive
  <2> DEFINE b == Beat(k)
  <2>1. b = [k EXCEPT !.alive = FALSE, !.pinged = TRUE]
    BY <1>3 DEF Beat
  <2>2. b \in Conn
    BY <2>1 DEF Conn
  <2>3. /\ b.peer = k.peer /\ b.sent = k.sent /\ b.unread = k.unread /\ b.peak = k.peak
        /\ b.from = k.from /\ b.cut = k.cut /\ b.pinged
    BY <2>1 DEF Conn
  <2> HIDE DEF b
  <2>4. SentOK(b, n) /\ PeerOK(b, n)
    BY <2>2, <2>3 DEF SentOK, PeerOK
  <2> QED
    BY <1>3, <2>2, <2>4 DEF b
<1> QED
  BY <1>1, <1>2, <1>3

\* One connection changes, and is in order.
LEMMA ConnStep ==
  ASSUME StreamInv, UNCHANGED <<emitted, ring, server>>, NEW c \in Client, NEW k \in Conn,
         conn' = [conn EXCEPT ![c] = k], SentOK(k, Len(emitted)), PeerOK(k, Len(emitted)),
         "ws" \in server => k.peer = "none"
  PROVE  StreamInv'
<1> DEFINE now == [conn EXCEPT ![c] = k]
<1>1. conn \in [Client -> Conn] /\ now \in [Client -> Conn] /\ conn' = now
  BY DEF StreamInv
<1>2. \A d \in Client : now[d] = IF d = c THEN k ELSE conn[d]
  BY <1>1
<1>3. /\ \A d \in Client : SentOK(conn[d], Len(emitted)) /\ PeerOK(conn[d], Len(emitted))
      /\ "ws" \in server => "stopping" \in server /\ \A d \in Client : conn[d].peer = "none"
  BY DEF StreamInv, Connected
<1> HIDE DEF now
<1>4. \A d \in Client : SentOK(now[d], Len(emitted)) /\ PeerOK(now[d], Len(emitted))
  BY <1>2, <1>3
<1>5. "ws" \in server' => "stopping" \in server' /\ \A d \in Client : now[d].peer = "none"
  BY <1>2, <1>3
<1> QED
  BY <1>1, <1>4, <1>5, ConnsKept

\* A connection is made: it is handed the replay.
LEMMA ConnectStep ==
  ASSUME StreamInv, NEW c \in Client, Connect(c)
  PROVE  StreamInv'
<1> DEFINE n == Len(emitted)
           m == 1 + Len(Replay)
           r == Replay
           u == Unconnected
           k == [u EXCEPT !.peer = "live", !.alive = TRUE, !.sent = r, !.unread = m, !.peak = m, !.from = n]
<1>1. /\ n \in Nat /\ "ws" \notin server /\ UNCHANGED <<emitted, ring, server>>
      /\ RingOK(ring, Len(emitted))
  BY DEF Connect, StreamInv
<1>2. conn' = [conn EXCEPT ![c] = k]
  BY DEF Connect
<1>3. /\ Replay \in Seq(Nat) /\ Len(Replay) = n - Start(n) + 1
      /\ \A i \in 1 .. Len(Replay) : Replay[i] = Start(n) + i - 1
  BY <1>1, ReplayIs
<1>4. Start(n) \in Nat \ {0} /\ Start(n) <= n + 1
  BY <1>1, BacklogIs
<1>5. /\ k \in Conn
      /\ k.peer = "live" /\ k.alive /\ k.sent = Replay /\ k.unread = 1 + Len(Replay) /\ ~k.cut
      /\ k.peak = 1 + Len(Replay) /\ k.from = n
  <2>1. u \in Conn /\ ~u.cut
    BY DEF Unconnected, Conn
  <2>2. m \in Nat /\ r \in Seq(Nat) /\ n \in Nat
    BY <1>1, <1>3
  <2> HIDE DEF m, r, u, n
  <2>3. k \in Conn
    BY <2>1, <2>2 DEF Conn
  <2>4. k.peer = "live" /\ k.alive /\ k.sent = r /\ k.unread = m
    BY <2>1 DEF Conn
  <2>5. ~k.cut /\ k.peak = m /\ k.from = n
    BY <2>1 DEF Conn
  <2> QED
    BY <2>3, <2>4, <2>5 DEF m, r
<1> HIDE DEF k, n, m, r, u
<1>7. SentOK(k, n)
  <2>1. \A i \in 1 .. Len(Replay) : Replay[i] \in 1 .. n
    BY <1>1, <1>3, <1>4
  <2>2. \A i, j \in 1 .. Len(Replay) : i < j => Replay[i] < Replay[j]
    BY <1>1, <1>3, <1>4
  <2> QED
    BY <1>3, <1>5, <2>1, <2>2 DEF SentOK
<1>8. PeerOK(k, n)
  <2>1. Len(Replay) \in Nat
    BY <1>3
  <2> QED
    BY <1>1, <1>5, <2>1 DEF PeerOK
<1> QED
  BY <1>1, <1>2, <1>5, <1>7, <1>8, ConnStep DEF n

\* The peer reads, dies, leaves or answers.
LEMMA PeerStep ==
  ASSUME StreamInv, NEW c \in Client, Read(c) \/ Die(c) \/ Leave(c) \/ Pong(c)
  PROVE  StreamInv'
<1> DEFINE n == Len(emitted)
<1>1. /\ n \in Nat /\ conn \in [Client -> Conn] /\ conn[c] \in Conn /\ SentOK(conn[c], n) /\ PeerOK(conn[c], n)
      /\ conn[c].peer = "live" /\ UNCHANGED <<emitted, ring, server>> /\ "ws" \notin server
  BY DEF StreamInv, Connected, Read, Die, Leave, Pong
<1>2. CASE Read(c)
  <2> DEFINE k == [conn[c] EXCEPT !.unread = conn[c].unread - 1]
  <2>1. conn' = [conn EXCEPT ![c] = k] /\ conn[c].unread > 0
    BY <1>2 DEF Read
  <2>2. conn[c].unread - 1 \in Nat
    BY <1>1, <2>1 DEF Conn
  <2>3. k \in Conn
    BY <1>1, <2>2 DEF Conn
  <2>4. /\ k.peer = conn[c].peer /\ k.sent = conn[c].sent /\ k.unread = conn[c].unread - 1
        /\ k.peak = conn[c].peak /\ k.from = conn[c].from /\ k.cut = conn[c].cut
        /\ k.pinged = conn[c].pinged /\ k.alive = conn[c].alive
    BY <1>1 DEF Conn
  <2> HIDE DEF k, n
  <2>5. SentOK(k, n)
    BY <1>1, <2>4 DEF SentOK
  <2>6. PeerOK(k, n)
    BY <1>1, <2>4 DEF PeerOK, Conn
  <2> QED
    BY <1>1, <2>1, <2>3, <2>5, <2>6, ConnStep DEF n
<1>3. CASE Die(c)
  <2> DEFINE k == [conn[c] EXCEPT !.peer = "dead"]
  <2>1. conn' = [conn EXCEPT ![c] = k]
    BY <1>3 DEF Die
  <2>2. k \in Conn
    BY <1>1 DEF Conn
  <2>3. /\ k.peer = "dead" /\ k.sent = conn[c].sent /\ k.unread = conn[c].unread
        /\ k.peak = conn[c].peak /\ k.from = conn[c].from /\ k.cut = conn[c].cut
        /\ k.pinged = conn[c].pinged /\ k.alive = conn[c].alive
    BY <1>1 DEF Conn
  <2> HIDE DEF k, n
  <2>4. SentOK(k, n)
    BY <1>1, <2>3 DEF SentOK
  <2>5. PeerOK(k, n)
    BY <1>1, <2>3 DEF PeerOK
  <2> QED
    BY <1>1, <2>1, <2>2, <2>4, <2>5, ConnStep DEF n
<1>4. CASE Leave(c)
  <2>1. conn' = [conn EXCEPT ![c] = Unconnected]
    BY <1>4 DEF Leave
  <2>2. Unconnected \in Conn /\ SentOK(Unconnected, n) /\ PeerOK(Unconnected, n)
    <3>1. /\ Unconnected \in Conn /\ Unconnected.peer = "none" /\ Unconnected.sent = <<>>
          /\ Unconnected.from = 0 /\ Unconnected.unread = 0 /\ ~Unconnected.cut
      BY DEF Unconnected, Conn
    <3> QED
      BY <1>1, <3>1, UnconnectedOK
  <2> QED
    BY <1>1, <2>1, <2>2, ConnStep
<1>5. CASE Pong(c)
  <2> DEFINE k == [conn[c] EXCEPT !.alive = TRUE, !.pinged = FALSE]
  <2>1. conn' = [conn EXCEPT ![c] = k]
    BY <1>1, <1>5 DEF Pong
  <2>2. k \in Conn
    BY <1>1 DEF Conn
  <2>3. /\ k.peer = conn[c].peer /\ k.sent = conn[c].sent /\ k.unread = conn[c].unread
        /\ k.peak = conn[c].peak /\ k.from = conn[c].from /\ k.cut = conn[c].cut /\ k.alive
    BY <1>1 DEF Conn
  <2> HIDE DEF k, n
  <2>4. SentOK(k, n)
    BY <1>1, <2>3 DEF SentOK
  <2>5. PeerOK(k, n)
    BY <1>1, <2>3 DEF PeerOK
  <2> QED
    BY <1>1, <2>1, <2>2, <2>4, <2>5, ConnStep DEF n
<1> QED
  BY <1>2, <1>3, <1>4, <1>5

\* Nothing is emitted, and no one is connected.
LEMMA StreamStart == StreamInit => StreamInv
<1> SUFFICES ASSUME StreamInit PROVE StreamInv
  OBVIOUS
<1>1. emitted = <<>> /\ ring = <<>> /\ server = {} /\ conn = [c \in Client |-> Unconnected]
  BY DEF StreamInit
<1>2. /\ Unconnected \in Conn /\ Unconnected.peer = "none" /\ Unconnected.sent = <<>>
      /\ Unconnected.from = 0 /\ Unconnected.unread = 0 /\ ~Unconnected.cut
  BY DEF Unconnected, Conn
<1>3. SentOK(Unconnected, 0) /\ PeerOK(Unconnected, 0)
  BY <1>2, UnconnectedOK
<1>4. RingOK(<<>>, 0)
  BY EventStreamAssumption DEF RingOK
<1>5. Len(emitted) = 0 /\ emitted \in Seq(Project \cup {NoProject})
  BY <1>1
<1> QED
  BY <1>1, <1>2, <1>3, <1>4, <1>5 DEF StreamInv

\* Every step keeps the stream in order.
LEMMA StreamStep == StreamInv /\ [StreamNext]_streamVars => StreamInv'
<1> SUFFICES ASSUME StreamInv, [StreamNext]_streamVars PROVE StreamInv'
  OBVIOUS
<1>1. ASSUME NEW p \in Project \cup {NoProject}, Emit(p) PROVE StreamInv'
  BY <1>1, EmitStep
<1>2. ASSUME NEW c \in Client, NEW p \in Project \cup {NoProject}, Inbound(c, p) PROVE StreamInv'
  BY <1>2, EmitStep DEF Inbound
<1>3. ASSUME NEW c \in Client, Connect(c) PROVE StreamInv'
  BY <1>3, ConnectStep
<1>4. ASSUME NEW c \in Client, Read(c) \/ Die(c) \/ Leave(c) \/ Pong(c) PROVE StreamInv'
  BY <1>4, PeerStep
<1>5. CASE Heartbeat
  <2> DEFINE now == [c \in Client |-> Beat(conn[c])]
  <2>1. conn' = now /\ "ws" \notin server' /\ UNCHANGED <<emitted, ring>>
    BY <1>5 DEF Heartbeat
  <2>2. \A c \in Client : conn[c] \in Conn /\ SentOK(conn[c], Len(emitted)) /\ PeerOK(conn[c], Len(emitted))
    BY DEF StreamInv
  <2>3. Len(emitted) \in Nat
    BY DEF StreamInv
  <2>4. \A c \in Client : /\ now[c] \in Conn /\ SentOK(now[c], Len(emitted)) /\ PeerOK(now[c], Len(emitted))
    BY <2>2, <2>3, BeatOK
  <2>5. now \in [Client -> Conn]
    BY <2>4
  <2> HIDE DEF now
  <2> QED
    BY <2>1, <2>4, <2>5, ConnsKept
<1>6. CASE Stop \/ WsClosed \/ HttpClosed
  <2>1. /\ conn' = conn /\ UNCHANGED <<emitted, ring>>
        /\ "ws" \in server' => "stopping" \in server' /\ \A c \in Client : conn[c].peer = "none"
    BY <1>6 DEF Stop, WsClosed, HttpClosed, StreamInv, Connected
  <2>2. conn \in [Client -> Conn] /\ \A c \in Client : SentOK(conn[c], Len(emitted)) /\ PeerOK(conn[c], Len(emitted))
    BY DEF StreamInv
  <2> QED
    BY <2>1, <2>2, ConnsKept
<1>7. CASE UNCHANGED streamVars
  <2>1. emitted' = emitted /\ ring' = ring /\ conn' = conn /\ server' = server
    BY <1>7 DEF streamVars
  <2> QED
    BY <2>1, Zenon DEF StreamInv, Connected
<1> QED
  BY <1>1, <1>2, <1>3, <1>4, <1>5, <1>6, <1>7 DEF StreamNext

\* A connection that kept up has been handed all from its start.
LEMMA StreamHolds == StreamInv => StreamUnbroken
<1> SUFFICES ASSUME StreamInv, NEW c \in Client
             PROVE  /\ \A i, j \in DOMAIN conn[c].sent : i < j => conn[c].sent[i] < conn[c].sent[j]
                    /\ (Connected(c) /\ conn[c].peak <= MaxBuffered) =>
                         \A p \in Project :
                           Heard(c, p) = {d \in Deltas : d >= Begins(c) /\ emitted[d] \in {p, NoProject}}
                    /\ conn[c].cut => conn[c].pinged
  BY DEF StreamUnbroken
<1> DEFINE sent == conn[c].sent
           n    == Len(emitted)
           from == conn[c].from
<1>1. /\ sent \in Seq(Nat) /\ DOMAIN sent = 1 .. Len(sent) /\ Len(sent) \in Nat /\ from \in Nat
      /\ n \in Nat /\ Deltas = 1 .. n
  BY DEF StreamInv, Conn, Deltas
<1>2. SentOK(conn[c], n) /\ PeerOK(conn[c], n)
  BY DEF StreamInv
<1>3. \A i, j \in DOMAIN sent : i < j => sent[i] < sent[j]
  BY <1>1, <1>2 DEF SentOK
<1>4. ASSUME Connected(c), conn[c].peak <= MaxBuffered, NEW p \in Project
      PROVE  Heard(c, p) = {d \in Deltas : d >= Begins(c) /\ emitted[d] \in {p, NoProject}}
  <2>1. Len(sent) = n - Start(from) + 1 /\ \A i \in 1 .. Len(sent) : sent[i] = Start(from) + i - 1
    BY <1>2, <1>4 DEF SentOK, Connected
  <2>2. Begins(c) = Start(from) /\ Start(from) \in Nat \ {0}
    BY <1>1, BacklogIs DEF Begins, Start, Backlog
  <2> HIDE DEF sent, n, from
  <2>3. {sent[i] : i \in DOMAIN sent} = Start(from) .. n
    <3>1. \A i \in 1 .. Len(sent) : sent[i] \in Start(from) .. n
      BY <1>1, <2>1, <2>2
    <3>2. ASSUME NEW d \in Start(from) .. n
          PROVE  \E i \in 1 .. Len(sent) : sent[i] = d
      <4>1. d - Start(from) + 1 \in 1 .. Len(sent)
        BY <1>1, <2>1, <2>2
      <4>2. sent[d - Start(from) + 1] = d
        BY <1>1, <2>1, <2>2, <4>1
      <4> QED
        BY <4>1, <4>2
    <3> QED
      BY <1>1, <3>1, <3>2
  <2>4. \A d : d \in Start(from) .. n <=> d \in Deltas /\ d >= Begins(c)
    BY <1>1, <2>2
  <2>5. Heard(c, p) = {d \in Start(from) .. n : emitted[d] \in {p, NoProject}}
    BY <2>3 DEF Heard, sent
  <2> QED
    BY <2>4, <2>5
<1> QED
  BY <1>2, <1>3, <1>4 DEF PeerOK

\* A client is handed every delta once and in order; while no more than the limit
\* ever waited in its socket it misses nothing from its backlog on, whatever is
\* emitted, replayed, dropped for other clients or closed meanwhile; and only a
\* client that left a ping unanswered is cut off (onDelta, replay, the heartbeat).
THEOREM StreamIsUnbroken == StreamSpec => []StreamUnbroken
<1>1. StreamSpec => []StreamInv
  BY StreamStart, StreamStep, PTL DEF StreamSpec
<1> QED
  BY <1>1, StreamHolds, PTL

-----------------------------------------------------------------------------
(***************************************************************************)
(* The MCP server, for any stream of frames, cut into chunks and           *)
(* interleaved in any way.                                                 *)
(***************************************************************************)
(***************************************************************************)
(* The inductive invariant.  All of it is about how many tokens have been  *)
(* taken from the buffer: an even number while every frame had a length,   *)
(* an odd one since the first that had none.                               *)
(***************************************************************************)
Silent(m) ==
  \/ m.kind = "notification" /\ m.method # "initialize"
  \/ m.kind = "request" /\ m.method = "notifications/initialized"

\* The buffer holds what has been received and not been taken.
Holds(buf, taken) ==
  /\ buf \in Seq([frame : Nat, header : BOOLEAN])
  /\ taken \in Nat
  /\ taken + Len(buf) <= Tokens
  /\ \A i \in 1 .. Len(buf) : buf[i] = Token(taken + i)

Parity(taken) ==
  \A k \in Nat : /\ taken = 2 * k => Sound(k)
                 /\ taken = 2 * k - 1 => ~Sound(k)

\* Nothing can be taken: there is no header, or one whose body is to come.
Resting(buf, taken) ==
  \/ Len(buf) = 0
  \/ Len(buf) = 1 /\ \A k \in Nat : taken = 2 * k => script[k + 1].length

\* A flush is at a frame it will answer as it should.
Serves(w) ==
  /\ w.frame \in Frame
  /\ w.awaits \in {"write", "nothing", "daemon"}
  /\ ~Sound(w.frame) => w.awaits = "write" /\ w.answer = "parse error"
  /\ Sound(w.frame) => (w.awaits = "nothing" <=> Silent(script[w.frame].message))

FlushesOK(fl) ==
  /\ \A w \in fl : Serves(w)
  /\ \A v, w \in fl : v.frame = w.frame => v = w

\* The answer to a frame no flush is at any more.
Settled(f, answer) ==
  IF ~Sound(f) THEN answer = <<"parse error">>
  ELSE IF Silent(script[f].message) THEN answer = <<>>
  ELSE \E x : answer = <<x>>

\* A frame is still to come, or a flush is at it, or it is settled.
FrameOK(f, taken, fl, answer) ==
  \/ 2 * f - 1 > taken /\ answer = <<>> /\ \A w \in fl : w.frame # f
  \/ 2 * f - 1 <= taken /\ answer = <<>> /\ \E w \in fl : w.frame = f
  \/ 2 * f - 1 <= taken /\ Settled(f, answer) /\ \A w \in fl : w.frame # f

\* The buffer, the tokens taken, the flushes and the answers fit.
Fits(buf, taken, fl, ans) ==
  /\ script \in Script
  /\ Holds(buf, taken) /\ Parity(taken) /\ FlushesOK(fl)
  /\ \A f \in Frame : FrameOK(f, taken, fl, ans[f])
  /\ DOMAIN ans = Frame
  /\ Resting(buf, taken) \/ fl # {}

Inv == received \in Nat /\ Fits(buffer, received - Len(buffer), flushes, answers)

-----------------------------------------------------------------------------
(***************************************************************************)
(* Tokens.                                                                 *)
(***************************************************************************)

\* An odd token is a header, an even one a body.
LEMMA TokenOf ==
  ASSUME NEW k \in Nat
  PROVE  /\ Token(2 * k - 1).frame = k /\ Token(2 * k - 1).header
         /\ Token(2 * k).frame = k /\ ~Token(2 * k).header
<1>1. (2 * k - 1 + 1) \div 2 = k /\ (2 * k + 1) \div 2 = k
  OBVIOUS
<1>2. (2 * k - 1) % 2 = 1 /\ (2 * k) % 2 = 0
  OBVIOUS
<1>3. Token(2 * k - 1).frame = k /\ Token(2 * k).frame = k
  BY <1>1 DEF Token
<1>4. \A n \in Int : Token(n).header <=> n % 2 = 1
  BY DEF Token
<1>5. Token(2 * k - 1).header /\ ~Token(2 * k).header
  BY <1>2, <1>4
<1> QED
  BY <1>3, <1>5

\* Every number of tokens is even or odd.
LEMMA Halves ==
  ASSUME NEW n \in Nat
  PROVE  \E k \in Nat : n = 2 * k \/ n = 2 * k - 1
<1>1. n = 2 * (n \div 2) + (n % 2) /\ n \div 2 \in Nat /\ n % 2 \in {0, 1}
  OBVIOUS
<1>2. CASE n % 2 = 0
  <2>1. n = 2 * (n \div 2)
    BY <1>1, <1>2
  <2> QED
    BY <1>1, <2>1
<1>3. CASE n % 2 = 1
  <2>1. n = 2 * (n \div 2 + 1) - 1 /\ n \div 2 + 1 \in Nat
    BY <1>1, <1>3
  <2> QED
    BY <2>1
<1> QED
  BY <1>1, <1>2, <1>3

\* The router answers nothing to the messages that want no answer, and to no other.
LEMMA AnswerSilent ==
  ASSUME NEW m, m.kind \in {"garbage", "other", "notification", "request"}
  PROVE  Answer(m) = NoAnswer <=> Silent(m)
<1>1. CallTool(m) # NoAnswer
  <2>1. CallTool(m) \in {"invalid params", "unknown tool", "tool error", "result", ToDaemon}
    BY DEF CallTool, ExecuteTool
  <2> QED
    BY <2>1, McpAssumption
<1>2. CASE m.kind \in {"garbage", "other"}
  <2>1. Answer(m) \in {"parse error", "invalid request"}
    BY <1>2 DEF Answer
  <2> QED
    BY <1>2, <2>1, McpAssumption DEF Silent
<1>3. CASE m.kind \in {"notification", "request"}
  <2>1. CASE m.method = "notifications/initialized"
    <3>1. Answer(m) = NoAnswer
      BY <1>3, <2>1 DEF Answer
    <3> QED
      BY <1>3, <2>1, <3>1 DEF Silent
  <2>2. CASE m.method = "initialize"
    <3>1. Answer(m) = "result"
      BY <1>3, <2>2 DEF Answer
    <3> QED
      BY <1>3, <2>2, <3>1, McpAssumption DEF Silent
  <2>3. CASE m.method \notin {"notifications/initialized", "initialize"} /\ m.kind = "notification"
    <3>1. Answer(m) = NoAnswer
      BY <2>3 DEF Answer
    <3> QED
      BY <2>3, <3>1 DEF Silent
  <2>4. CASE m.method \notin {"notifications/initialized", "initialize"} /\ m.kind = "request"
    <3>1. Answer(m) \in {"not initialized", "result", "method not found", CallTool(m)}
      BY <2>4 DEF Answer, AnswerRequest
    <3> QED
      BY <1>1, <2>4, <3>1, McpAssumption DEF Silent
  <2> QED
    BY <1>3, <2>1, <2>2, <2>3, <2>4
<1> QED
  BY <1>2, <1>3

\* A header is first in the buffer when an even number of tokens has been taken,
\* and second when an odd number has.
LEMMA HeaderPlace ==
  ASSUME NEW buf, NEW taken, Holds(buf, taken), NEW k \in Nat
  PROVE  /\ taken = 2 * k /\ Len(buf) >= 1 =>
              /\ Headers(buf) # {} /\ HeaderEnd(buf) = 1 /\ buf[1].frame = k + 1
         /\ taken = 2 * k - 1 /\ Len(buf) >= 2 =>
              /\ Headers(buf) # {} /\ HeaderEnd(buf) = 2 /\ buf[2].frame = k + 1
         /\ taken = 2 * k - 1 /\ Len(buf) < 2 => Headers(buf) = {}
         /\ Len(buf) = 0 => Headers(buf) = {}
<1>1. /\ DOMAIN buf = 1 .. Len(buf) /\ Len(buf) \in Nat /\ taken \in Nat
      /\ \A i \in 1 .. Len(buf) : buf[i] = Token(taken + i)
  BY DEF Holds
<1>2. CASE taken = 2 * k /\ Len(buf) >= 1
  <2>1. taken + 1 = 2 * (k + 1) - 1 /\ k + 1 \in Nat
    BY <1>2
  <2>5. buf[1] = Token(2 * (k + 1) - 1)
    BY <1>1, <1>2, <2>1
  <2>2. buf[1].frame = k + 1 /\ buf[1].header
    BY <2>1, <2>5, TokenOf
  <2>3. 1 \in Headers(buf) /\ \A j \in Headers(buf) : 1 <= j
    BY <1>1, <1>2, <2>2 DEF Headers
  <2>4. HeaderEnd(buf) = 1
    <3> DEFINE e == HeaderEnd(buf)
    <3>1. e \in Headers(buf) /\ \A j \in Headers(buf) : e <= j
      BY <2>3 DEF HeaderEnd
    <3>2. e \in Nat /\ e <= 1 /\ 1 <= e
      BY <1>1, <2>3, <3>1 DEF Headers
    <3> QED
      BY <3>2
  <2> QED
    BY <1>2, <2>2, <2>3, <2>4
<1>3. CASE taken = 2 * k - 1 /\ Len(buf) >= 2
  <2>1. taken + 2 = 2 * (k + 1) - 1 /\ taken + 1 = 2 * k /\ k + 1 \in Nat
    BY <1>3
  <2>5. buf[2] = Token(2 * (k + 1) - 1) /\ buf[1] = Token(2 * k)
    BY <1>1, <1>3, <2>1
  <2>2. /\ buf[2].frame = k + 1 /\ buf[2].header
        /\ buf[1].frame = k /\ ~buf[1].header
    BY <2>1, <2>5, TokenOf
  <2>3. 2 \in Headers(buf) /\ \A j \in Headers(buf) : 2 <= j
    BY <1>1, <1>3, <2>2 DEF Headers
  <2>4. HeaderEnd(buf) = 2
    <3> DEFINE e == HeaderEnd(buf)
    <3>1. e \in Headers(buf) /\ \A j \in Headers(buf) : e <= j
      BY <2>3 DEF HeaderEnd
    <3>2. e \in Nat /\ e <= 2 /\ 2 <= e
      BY <1>1, <2>3, <3>1 DEF Headers
    <3> QED
      BY <3>2
  <2> QED
    BY <1>3, <2>2, <2>3, <2>4
<1>4. CASE taken = 2 * k - 1 /\ Len(buf) < 2
  <2>2. Len(buf) = 1 => buf[1] = Token(2 * k)
    BY <1>1, <1>4
  <2>1. Len(buf) = 1 => ~buf[1].header
    BY <2>2, TokenOf
  <2> QED
    BY <1>1, <1>4, <2>1 DEF Headers
<1>5. CASE Len(buf) = 0
  BY <1>1, <1>5 DEF Headers
<1> QED
  BY <1>2, <1>3, <1>4, <1>5

-----------------------------------------------------------------------------
(***************************************************************************)
(* A flush takes a frame.                                                  *)
(***************************************************************************)

\* What a flush's way through the buffer comes to: nothing to take, ...
Rests(buf, base, others, buf2, fl2) ==
  buf2 = buf /\ fl2 = others /\ Resting(buf, base)

\* ... a frame spoiled by the want of a length, its own or an earlier one's, ...
Spoils(n, buf, base, others, buf2, fl2) ==
  /\ base = 2 * n - 2 \/ base = 2 * n - 3
  /\ 2 * n - 1 - base <= Len(buf)
  /\ base = 2 * n - 2 => ~script[n].length
  /\ buf2 = SubSeq(buf, 2 * n - base, Len(buf))
  /\ fl2 = others \cup {At(n, "write", "parse error")}

\* ... or a frame handed to the router, which answers a.
Hands(n, a, buf, base, others, buf2, fl2) ==
  /\ base = 2 * n - 2 /\ 2 <= Len(buf)
  /\ script[n].length
  /\ buf2 = SubSeq(buf, 3, Len(buf))
  /\ a = NoAnswer <=> Silent(script[n].message)
  /\ fl2 = others \cup {At(n, Awaits(a), a)}

\* The router hears of that frame's message only.
Unheard == initialized' = initialized /\ requests' = requests

HeardBy(n, a) ==
  /\ a = Answer(script[n].message)
  /\ initialized' = (initialized \/ Initializes(script[n].message))
  /\ requests' = IF a = ToDaemon THEN Sent(n) ELSE requests

\* Advance does one of the three.
LEMMA Takes ==
  ASSUME NEW buf, NEW others, NEW base, script \in Script,
         Holds(buf, base), Advance(buf, others)
  PROVE  \/ Rests(buf, base, others, buffer', flushes') /\ Unheard
         \/ \E n \in Frame : Spoils(n, buf, base, others, buffer', flushes') /\ Unheard
         \/ \E n \in Frame : \E a :
              Hands(n, a, buf, base, others, buffer', flushes') /\ HeardBy(n, a)
<1>1. PICK k \in Nat : base = 2 * k \/ base = 2 * k - 1
  BY Halves DEF Holds
<1>2. /\ Len(buf) \in Nat /\ base \in Nat /\ base + Len(buf) <= 2 * Len(script)
      /\ Len(script) \in Nat /\ Frame = 1 .. Len(script)
  BY McpAssumption DEF Holds, Tokens, Frame
<1>7. ASSUME Headers(buf) # {}, ~HeaderValid(buf)
      PROVE  /\ flushes' = others \cup {At(buf[HeaderEnd(buf)].frame, "write", "parse error")}
             /\ buffer' = SubSeq(buf, HeaderEnd(buf) + 1, Len(buf))
             /\ Unheard
  BY <1>7, Zenon DEF Advance, Unheard
<1>8. ASSUME Headers(buf) = {} \/ (HeaderValid(buf) /\ ~Complete(buf))
      PROVE  buffer' = buf /\ flushes' = others /\ Unheard
  BY <1>8, Zenon DEF Advance, Unheard
<1>3. CASE base = 2 * k /\ Len(buf) = 0
  <2>1. Headers(buf) = {}
    BY <1>1, <1>3, HeaderPlace
  <2>2. buffer' = buf /\ flushes' = others /\ Unheard
    BY <1>8, <2>1
  <2> QED
    BY <1>3, <2>2 DEF Rests, Resting
<1>4. CASE base = 2 * k /\ Len(buf) >= 1
  <2> DEFINE n == k + 1
  <2>1. Headers(buf) # {} /\ HeaderEnd(buf) = 1 /\ buf[1].frame = n
    BY <1>1, <1>4, HeaderPlace
  <2>2. n \in Frame /\ base = 2 * n - 2 /\ 1 \in Int
    BY <1>2, <1>4
  <2>3. CASE ~script[n].length
    <3>1. ~HeaderValid(buf)
      BY <2>1, <2>3 DEF HeaderValid
    <3>2. /\ flushes' = others \cup {At(n, "write", "parse error")}
          /\ buffer' = SubSeq(buf, 2, Len(buf)) /\ Unheard
      <4>1. HeaderEnd(buf) + 1 = 2
        BY <2>1
      <4> QED
        BY <1>7, <2>1, <3>1, <4>1, Zenon
    <3>3. 2 * n - base = 2 /\ 2 * n - 1 - base <= Len(buf)
      BY <1>2, <1>4, <2>2
    <3> QED
      BY <2>2, <2>3, <3>2, <3>3 DEF Spoils
  <2>4. CASE script[n].length /\ Len(buf) = 1
    <3>1. HeaderValid(buf) /\ ~Complete(buf)
      BY <2>1, <2>4 DEF HeaderValid, Complete
    <3>2. buffer' = buf /\ flushes' = others /\ Unheard
      BY <1>8, <3>1
    <3>3. \A j \in Nat : base = 2 * j => script[j + 1].length
      <4> SUFFICES ASSUME NEW j \in Nat, base = 2 * j
                   PROVE  script[j + 1].length
        OBVIOUS
      <4>1. j = k
        BY <1>4
      <4> QED
        BY <2>4, <4>1
    <3> QED
      BY <2>4, <3>2, <3>3 DEF Rests, Resting
  <2>5. CASE script[n].length /\ Len(buf) > 1
    <3> DEFINE a == Answer(script[n].message)
    <3>1. HeaderValid(buf) /\ Complete(buf)
      BY <2>1, <2>5 DEF HeaderValid, Complete
    <3>2. /\ flushes' = others \cup {At(n, Awaits(a), a)}
          /\ buffer' = SubSeq(buf, 3, Len(buf)) /\ HeardBy(n, a)
      BY <2>1, <3>1, Zenon DEF Advance, HeardBy
    <3>3. script[n].message.kind \in {"garbage", "other", "notification", "request"}
      BY <2>2, McpAssumption DEF Frame
    <3>4. a = NoAnswer <=> Silent(script[n].message)
      BY <3>3, AnswerSilent
    <3> HIDE DEF a
    <3>5. 2 <= Len(buf)
      BY <1>2, <2>5
    <3> QED
      BY <2>2, <2>5, <3>2, <3>4, <3>5 DEF Hands
  <2>6. script[n].length \in BOOLEAN
    BY <2>2, McpAssumption DEF Frame
  <2> QED
    <3>1. Len(buf) = 1 \/ Len(buf) > 1
      <4>1. \A x \in Nat : x >= 1 => x = 1 \/ x > 1
        OBVIOUS
      <4> QED
        BY <1>2, <1>4, <4>1
    <3> QED
      BY <2>3, <2>4, <2>5, <2>6, <3>1
<1>5. CASE base = 2 * k - 1 /\ Len(buf) < 2
  <2>1. Headers(buf) = {}
    BY <1>1, <1>5, HeaderPlace
  <2>2. buffer' = buf /\ flushes' = others /\ Unheard
    BY <1>8, <2>1
  <2>3. \A j \in Nat : base # 2 * j
    BY <1>5
  <2>4. Len(buf) = 0 \/ Len(buf) = 1
    <3>1. \A x \in Nat : x < 2 => x = 0 \/ x = 1
      OBVIOUS
    <3> QED
      BY <1>2, <1>5, <3>1
  <2> QED
    BY <2>2, <2>3, <2>4 DEF Rests, Resting
<1>6. CASE base = 2 * k - 1 /\ Len(buf) >= 2
  <2> DEFINE n == k + 1
  <2>1. Headers(buf) # {} /\ HeaderEnd(buf) = 2 /\ buf[2].frame = n
    BY <1>1, <1>6, HeaderPlace
  <2>2. /\ n \in Frame /\ base = 2 * n - 3 /\ base # 2 * n - 2
        /\ 2 * n - base = 3 /\ 2 * n - 1 - base <= Len(buf)
    BY <1>2, <1>6
  <2>3. ~HeaderValid(buf)
    BY <2>1 DEF HeaderValid
  <2>4. /\ flushes' = others \cup {At(n, "write", "parse error")}
        /\ buffer' = SubSeq(buf, 3, Len(buf)) /\ Unheard
    <3>1. HeaderEnd(buf) + 1 = 3
      BY <2>1
    <3> QED
      BY <1>7, <2>1, <2>3, <3>1, Zenon
  <2> QED
    BY <2>2, <2>4 DEF Spoils
<1> QED
  BY <1>1, <1>2, <1>3, <1>4, <1>5, <1>6

\* What remains of the buffer holds what has not been taken.
LEMMA HoldsRest ==
  ASSUME NEW buf, NEW base, Holds(buf, base), NEW n \in Nat, n <= Len(buf)
  PROVE  /\ Holds(SubSeq(buf, n + 1, Len(buf)), base + n)
         /\ Len(SubSeq(buf, n + 1, Len(buf))) = Len(buf) - n
<1> DEFINE rest == SubSeq(buf, n + 1, Len(buf))
           S == [frame : Nat, header : BOOLEAN]
<1>1. /\ buf \in Seq(S) /\ Len(buf) \in Nat /\ base \in Nat
      /\ base + Len(buf) <= Tokens
      /\ \A i \in 1 .. Len(buf) : buf[i] = Token(base + i)
  BY DEF Holds
<1> HIDE DEF S
<1>2. rest \in Seq(S) /\ Len(rest) = Len(buf) - n
  BY <1>1
<1>3. \A i \in 1 .. Len(rest) : rest[i] = Token(base + n + i)
  <2> SUFFICES ASSUME NEW i \in 1 .. Len(rest)
               PROVE  rest[i] = Token(base + n + i)
    OBVIOUS
  <2>1. rest[i] = buf[n + i] /\ n + i \in 1 .. Len(buf)
    <3>1. i \in Nat /\ i >= 1 /\ i <= Len(buf) - n
      BY <1>1, <1>2
    <3>2. n + i \in 1 .. Len(buf) /\ i \in 1 .. Len(buf) - (n + 1) + 1
      BY <1>1, <3>1
    <3>3. rest[i] = buf[n + 1 + i - 1]
      BY <1>1, <3>2
    <3> QED
      BY <3>1, <3>2, <3>3
  <2>2. buf[n + i] = Token(base + (n + i)) /\ base + (n + i) = base + n + i
    BY <1>1, <2>1
  <2> QED
    BY <2>1, <2>2
<1>4. base + n \in Nat /\ base + n + Len(rest) = base + Len(buf)
  <2>1. Len(rest) = Len(buf) - n /\ Len(buf) \in Nat /\ base \in Nat /\ n \in Nat
    BY <1>1, <1>2
  <2> HIDE DEF rest
  <2> QED
    BY <2>1
<1>5. base + n + Len(rest) <= Tokens
  BY <1>1, <1>4
<1> QED
  BY <1>2, <1>3, <1>4, <1>5 DEF Holds, S

\* The flush that takes a frame is the only one at it, and the frames before and
\* behind it stay as they are.
LEMMA Enters ==
  ASSUME NEW others, NEW base \in Nat, NEW base2 \in Nat, NEW ans, NEW w, script \in Script,
         FlushesOK(others), \A f \in Frame : FrameOK(f, base, others, ans[f]),
         Serves(w), base < 2 * w.frame - 1, 2 * w.frame - 1 <= base2, base2 <= 2 * w.frame,
         base >= 2 * w.frame - 3
  PROVE  /\ FlushesOK(others \cup {w})
         /\ \A f \in Frame : FrameOK(f, base2, others \cup {w}, ans[f])
<1>1. Frame = 1 .. Len(script) /\ Len(script) \in Nat /\ w.frame \in Frame
  BY McpAssumption DEF Frame, Serves
<1>2. w.frame \in Nat
  BY <1>1
<1>3. \A v \in others : v.frame # w.frame
  BY <1>1, <1>2 DEF FrameOK
<1>4. FlushesOK(others \cup {w})
  BY <1>3 DEF FlushesOK
<1>5. ASSUME NEW f \in Frame PROVE FrameOK(f, base2, others \cup {w}, ans[f])
  <2>1. f \in Nat /\ FrameOK(f, base, others, ans[f])
    BY <1>1
  <2>2. CASE f = w.frame
    <3>1. ans[f] = <<>> /\ 2 * f - 1 <= base2
      BY <1>2, <2>1, <2>2 DEF FrameOK
    <3> QED
      BY <2>2, <3>1 DEF FrameOK
  <2>3. CASE f # w.frame
    <3>1. 2 * f - 1 > base <=> 2 * f - 1 > base2
      BY <1>2, <2>1, <2>3
    <3>2. (2 * f - 1 <= base <=> 2 * f - 1 <= base2)
      BY <1>2, <2>1, <2>3
    <3>3. \A v : (v \in others \cup {w} /\ v.frame = f) <=> (v \in others /\ v.frame = f)
      BY <2>3
    <3> QED
      BY <2>1, <3>1, <3>2, <3>3 DEF FrameOK
  <2> QED
    BY <2>2, <2>3
<1> QED
  BY <1>4, <1>5

\* A flush's way through the buffer keeps the invariant.
LEMMA Advances ==
  ASSUME NEW buf, NEW base, NEW others, NEW buf2, NEW fl2, NEW ans, script \in Script,
         Holds(buf, base), Parity(base), FlushesOK(others),
         \A f \in Frame : FrameOK(f, base, others, ans[f]),
         \/ Rests(buf, base, others, buf2, fl2)
         \/ \E n \in Frame : Spoils(n, buf, base, others, buf2, fl2)
         \/ \E n \in Frame : \E a : Hands(n, a, buf, base, others, buf2, fl2)
  PROVE  /\ Holds(buf2, base + Len(buf) - Len(buf2))
         /\ Parity(base + Len(buf) - Len(buf2))
         /\ FlushesOK(fl2)
         /\ \A f \in Frame : FrameOK(f, base + Len(buf) - Len(buf2), fl2, ans[f])
         /\ Resting(buf2, base + Len(buf) - Len(buf2)) \/ fl2 # {}
<1>1. /\ Len(buf) \in Nat /\ base \in Nat
      /\ Frame = 1 .. Len(script) /\ Len(script) \in Nat
  BY McpAssumption DEF Holds, Frame
<1>2. ASSUME NEW n \in Frame, Spoils(n, buf, base, others, buf2, fl2)
      PROVE  /\ Holds(buf2, base + Len(buf) - Len(buf2)) /\ Parity(base + Len(buf) - Len(buf2))
             /\ FlushesOK(fl2) /\ fl2 # {}
             /\ \A f \in Frame : FrameOK(f, base + Len(buf) - Len(buf2), fl2, ans[f])
  <2> DEFINE d == 2 * n - 1 - base
             w == At(n, "write", "parse error")
  <2>0. /\ base = 2 * n - 2 \/ base = 2 * n - 3
        /\ 2 * n - 1 - base <= Len(buf)
        /\ base = 2 * n - 2 => ~script[n].length
        /\ buf2 = SubSeq(buf, 2 * n - base, Len(buf))
        /\ fl2 = others \cup {At(n, "write", "parse error")}
    BY <1>2 DEF Spoils
  <2>11. base = 2 * n - 2 \/ base = 2 * n - 3
    BY <2>0
  <2>1. n \in Nat /\ n >= 1 /\ d \in Nat /\ d <= Len(buf) /\ d + 1 = 2 * n - base /\ base + d = 2 * n - 1
    <3>1. n \in Nat /\ n >= 1 /\ base \in Nat
      BY <1>1
    <3>2. d \in Nat /\ d + 1 = 2 * n - base /\ base + d = 2 * n - 1
      BY <2>11, <3>1
    <3>3. d <= Len(buf)
      BY <2>0
    <3> QED
      BY <3>1, <3>2, <3>3
  <2>2. Holds(buf2, 2 * n - 1) /\ Len(buf2) = Len(buf) - d
    <3> HIDE DEF d
    <3> QED
      BY <2>0, <2>1, HoldsRest
  <2>3. base + Len(buf) - Len(buf2) = 2 * n - 1
    BY <1>1, <2>1, <2>2
  <2>4. ~Sound(n)
    <3>1. CASE base = 2 * n - 2
      <4>1. n \in 1 .. n /\ ~script[n].length
        <5>1. n \in 1 .. n
          BY <2>1
        <5> QED
          BY <2>0, <3>1, <5>1, Zenon
      <4> QED
        BY <4>1, Zenon DEF Sound
    <3>2. CASE base = 2 * n - 3
      <4>1. n - 1 \in Nat /\ base = 2 * (n - 1) - 1
        BY <2>1, <3>2
      <4>2. ~Sound(n - 1)
        BY <4>1 DEF Parity
      <4>3. \A f \in 1 .. n - 1 : f \in 1 .. n
        BY <2>1
      <4> QED
        BY <4>2, <4>3 DEF Sound
    <3> QED
      BY <2>0, <3>1, <3>2
  <2>5. Parity(2 * n - 1)
    <3> SUFFICES ASSUME NEW k \in Nat
                 PROVE  2 * n - 1 # 2 * k /\ (2 * n - 1 = 2 * k - 1 => ~Sound(k))
      BY DEF Parity
    <3>1. 2 * n - 1 # 2 * k
      BY <2>1
    <3>2. 2 * n - 1 = 2 * k - 1 => n = k
      BY <2>1
    <3> QED
      BY <2>4, <3>1, <3>2
  <2>6. w.frame = n /\ w.awaits = "write" /\ w.answer = "parse error"
    BY DEF At
  <2>7. Serves(w)
    BY <2>4, <2>6 DEF Serves
  <2>8. base < 2 * n - 1 /\ 2 * n - 1 <= 2 * n - 1 /\ 2 * n - 1 <= 2 * n /\ base >= 2 * n - 3 /\ 2 * n - 1 \in Nat
    BY <2>11, <2>1
  <2> HIDE DEF w
  <2>9. /\ FlushesOK(others \cup {w})
        /\ \A f \in Frame : FrameOK(f, 2 * n - 1, others \cup {w}, ans[f])
    <3>1. /\ base < 2 * w.frame - 1 /\ base >= 2 * w.frame - 3
          /\ 2 * w.frame - 1 <= 2 * n - 1 /\ 2 * n - 1 <= 2 * w.frame
      BY <2>6, <2>8
    <3>2. base \in Nat
      BY <1>1
    <3> QED
      BY <2>7, <2>8, <3>1, <3>2, Enters, Zenon
  <2>10. fl2 = others \cup {w}
    BY <2>0 DEF w
  <2> QED
    BY <2>2, <2>3, <2>5, <2>9, <2>10
<1>3. ASSUME NEW n \in Frame, NEW a, Hands(n, a, buf, base, others, buf2, fl2)
      PROVE  /\ Holds(buf2, base + Len(buf) - Len(buf2)) /\ Parity(base + Len(buf) - Len(buf2))
             /\ FlushesOK(fl2) /\ fl2 # {}
             /\ \A f \in Frame : FrameOK(f, base + Len(buf) - Len(buf2), fl2, ans[f])
  <2> DEFINE w == At(n, Awaits(a), a)
  <2>0. /\ base = 2 * n - 2 /\ 2 <= Len(buf)
        /\ script[n].length
        /\ buf2 = SubSeq(buf, 3, Len(buf))
        /\ a = NoAnswer <=> Silent(script[n].message)
        /\ fl2 = others \cup {At(n, Awaits(a), a)}
    BY <1>3 DEF Hands
  <2>1. n \in Nat /\ n >= 1 /\ base = 2 * n - 2 /\ base + 2 = 2 * n
    <3>1. n \in Nat /\ n >= 1 /\ base = 2 * n - 2
      BY <1>1, <2>0
    <3> QED
      BY <3>1
  <2>2. Holds(buf2, 2 * n) /\ Len(buf2) = Len(buf) - 2
    <3>1. buf2 = SubSeq(buf, 2 + 1, Len(buf)) /\ 2 \in Nat /\ 2 <= Len(buf)
      BY <2>0
    <3>2. Holds(buf2, base + 2) /\ Len(buf2) = Len(buf) - 2
      BY <3>1, HoldsRest
    <3> QED
      BY <2>1, <3>2
  <2>3. base + Len(buf) - Len(buf2) = 2 * n
    BY <1>1, <2>1, <2>2
  <2>4. Sound(n)
    <3>1. n - 1 \in Nat /\ base = 2 * (n - 1)
      BY <2>1
    <3>2. Sound(n - 1)
      BY <3>1 DEF Parity
    <3>3. \A f \in 1 .. n : f = n \/ f \in 1 .. n - 1
      BY <2>1
    <3> QED
      BY <2>0, <3>2, <3>3 DEF Sound
  <2>5. Parity(2 * n)
    <3> SUFFICES ASSUME NEW k \in Nat
                 PROVE  2 * n # 2 * k - 1 /\ (2 * n = 2 * k => Sound(k))
      BY DEF Parity
    <3>1. 2 * n # 2 * k - 1
      BY <2>1
    <3>2. 2 * n = 2 * k => n = k
      BY <2>1
    <3> QED
      BY <2>4, <3>1, <3>2
  <2>6. w.frame = n /\ w.awaits = Awaits(a)
    BY DEF At
  <2>7. Serves(w)
    <3>1. Awaits(a) \in {"write", "nothing", "daemon"} /\ (Awaits(a) = "nothing" <=> a = NoAnswer)
      BY DEF Awaits
    <3> QED
      BY <2>0, <2>4, <2>6, <3>1 DEF Serves
  <2>8. base < 2 * n - 1 /\ 2 * n - 1 <= 2 * n /\ 2 * n <= 2 * n /\ base >= 2 * n - 3 /\ 2 * n \in Nat
    BY <2>1
  <2> HIDE DEF w
  <2>9. /\ FlushesOK(others \cup {w})
        /\ \A f \in Frame : FrameOK(f, 2 * n, others \cup {w}, ans[f])
    <3>1. /\ base < 2 * w.frame - 1 /\ base >= 2 * w.frame - 3
          /\ 2 * w.frame - 1 <= 2 * n /\ 2 * n <= 2 * w.frame
      BY <2>6, <2>8
    <3>2. base \in Nat
      BY <1>1
    <3> QED
      BY <2>7, <2>8, <3>1, <3>2, Enters, Zenon
  <2>10. fl2 = others \cup {w}
    BY <2>0 DEF w
  <2> QED
    BY <2>2, <2>3, <2>5, <2>9, <2>10
<1>4. CASE Rests(buf, base, others, buf2, fl2)
  <2>1. base + Len(buf) - Len(buf2) = base
    BY <1>1, <1>4 DEF Rests
  <2> QED
    BY <1>4, <2>1 DEF Rests
<1> QED
  BY <1>2, <1>3, <1>4

-----------------------------------------------------------------------------
(***************************************************************************)
(* The steps.                                                              *)
(***************************************************************************)

\* What fits after a step is the invariant after it.
LEMMA Primed ==
  ASSUME script' = script, received' \in Nat,
         Fits(buffer', received' - Len(buffer'), flushes', answers')
  PROVE  Inv'
  BY DEF Inv, Fits, Holds, Parity, FlushesOK, FrameOK, Resting, Serves, Settled, Silent, Sound,
         Frame, Token, Tokens

\* A step that ends with a flush's way through the buffer: buf is the buffer it
\* finds, others the flushes that await something else, ans the answers written.
LEMMA AdvanceInv ==
  ASSUME NEW buf, NEW base, NEW others, script \in Script,
         Holds(buf, base), Parity(base), FlushesOK(others),
         \A f \in Frame : FrameOK(f, base, others, answers'[f]),
         DOMAIN answers' = Frame,
         Advance(buf, others), script' = script, received' = base + Len(buf)
  PROVE  Inv'
<1>1. \/ Rests(buf, base, others, buffer', flushes')
      \/ \E n \in Frame : Spoils(n, buf, base, others, buffer', flushes')
      \/ \E n \in Frame : \E a : Hands(n, a, buf, base, others, buffer', flushes')
  BY Takes
<1> DEFINE ans == answers'
           fl2 == flushes'
           buf2 == buffer'
           base2 == base + Len(buf) - Len(buf2)
<1>2. \A f \in Frame : FrameOK(f, base, others, ans[f])
  OBVIOUS
<1> HIDE DEF ans, fl2, buf2
<1>3. /\ Holds(buf2, base2) /\ Parity(base2) /\ FlushesOK(fl2)
      /\ \A f \in Frame : FrameOK(f, base2, fl2, ans[f])
      /\ Resting(buf2, base2) \/ fl2 # {}
  BY <1>1, <1>2, Advances DEF fl2, buf2
<1>4. base2 = received' - Len(buf2) /\ received' \in Nat
  <2>1. base \in Nat /\ Len(buf) \in Nat
    BY DEF Holds
  <2> QED
    BY <2>1
<1>5. Fits(buf2, received' - Len(buf2), fl2, ans)
  BY <1>3, <1>4 DEF Fits, ans
<1> QED
  BY <1>4, <1>5, Primed DEF ans, fl2, buf2

\* A chunk is what comes next in the stream.
LEMMA HoldsMore ==
  ASSUME Inv, NEW size \in Nat, received + size <= Tokens
  PROVE  LET more == [i \in 1 .. size |-> Token(received + i)]
         IN  /\ Holds(buffer \o more, received - Len(buffer))
             /\ Len(buffer \o more) = Len(buffer) + size
<1> DEFINE more == [i \in 1 .. size |-> Token(received + i)]
           base == received - Len(buffer)
           S == [frame : Nat, header : BOOLEAN]
           all == buffer \o more
<1>1. /\ buffer \in Seq(S) /\ Len(buffer) \in Nat /\ base \in Nat /\ received \in Nat
      /\ \A i \in 1 .. Len(buffer) : buffer[i] = Token(base + i)
  BY DEF Inv, Fits, Holds
<1>2. \A i \in 1 .. size : Token(received + i) \in S
  <2> SUFFICES ASSUME NEW i \in 1 .. size
               PROVE  Token(received + i) \in S
    OBVIOUS
  <2>1. received + i + 1 \in Nat /\ (received + i + 1) \div 2 \in Nat
    BY <1>1
  <2> QED
    BY <2>1 DEF Token
<1>3. more \in Seq(S) /\ Len(more) = size /\ \A i \in 1 .. size : more[i] = Token(received + i)
  BY <1>2
<1> HIDE DEF more, S
<1>4. all \in Seq(S) /\ Len(all) = Len(buffer) + size
  <2>1. buffer \in Seq(S) /\ more \in Seq(S) /\ Len(more) = size
    BY <1>1, <1>3
  <2>2. \A s, t \in Seq(S) : s \o t \in Seq(S) /\ Len(s \o t) = Len(s) + Len(t)
    OBVIOUS
  <2> QED
    BY <2>1, <2>2
<1>5. \A i \in 1 .. Len(all) : all[i] = Token(base + i)
  <2> SUFFICES ASSUME NEW i \in 1 .. Len(all)
               PROVE  all[i] = Token(base + i)
    OBVIOUS
  <2>1. i \in 1 .. Len(buffer) + size
    BY <1>4
  <2>2. CASE i <= Len(buffer)
    <3>1. all[i] = buffer[i] /\ i \in 1 .. Len(buffer)
      BY <1>1, <1>3, <2>1, <2>2
    <3> QED
      BY <1>1, <3>1
  <2>3. CASE i > Len(buffer)
    <3> DEFINE j == i - Len(buffer)
    <3>1. all[i] = more[j] /\ j \in 1 .. size
      BY <1>1, <1>3, <2>1, <2>3
    <3>2. received + j = base + i
      BY <1>1, <2>1
    <3> QED
      BY <1>3, <3>1, <3>2
  <2> QED
    BY <1>1, <2>1, <2>2, <2>3
<1>6. base + Len(all) <= Tokens
  <2>1. base + Len(all) = received + size
    <3> HIDE DEF all
    <3> QED
      BY <1>1, <1>4
  <2> QED
    BY <2>1
<1> QED
  BY <1>1, <1>4, <1>5, <1>6 DEF Holds, S, more

\* A flush that ends leaves its frame settled, if it wrote what it should have.
LEMMA Leaves ==
  ASSUME Inv, NEW w \in flushes, NEW ans,
         Settled(w.frame, ans[w.frame]),
         \A f \in Frame : f # w.frame => ans[f] = answers[f]
  PROVE  /\ FlushesOK(flushes \ {w})
         /\ \A f \in Frame : FrameOK(f, received - Len(buffer), flushes \ {w}, ans[f])
<1> DEFINE base == received - Len(buffer)
<1>1. /\ FlushesOK(flushes) /\ \A f \in Frame : FrameOK(f, base, flushes, answers[f])
      /\ w.frame \in Frame
  BY DEF Inv, Fits, FlushesOK, Serves
<1>2. FlushesOK(flushes \ {w}) /\ \A v \in flushes \ {w} : v.frame # w.frame
  BY <1>1 DEF FlushesOK
<1> HIDE DEF base
<1>3. FrameOK(w.frame, base, flushes \ {w}, ans[w.frame])
  BY <1>1, <1>2 DEF FrameOK
<1>4. ASSUME NEW f \in Frame, f # w.frame
      PROVE  FrameOK(f, base, flushes \ {w}, ans[f])
  <2>1. ans[f] = answers[f] /\ FrameOK(f, base, flushes, answers[f])
    BY <1>1, <1>4
  <2> QED
    BY <1>4, <2>1 DEF FrameOK
<1> QED
  BY <1>2, <1>3, <1>4 DEF base

\* The flush is at a frame nothing has been written for.
LEMMA Unanswered ==
  ASSUME Inv, NEW w \in flushes
  PROVE  w.frame \in Frame /\ answers[w.frame] = <<>>
  BY DEF Inv, Fits, FlushesOK, Serves, FrameOK

\* The server starts with nothing received.
LEMMA InvInit == McpInit => Inv
<1> SUFFICES ASSUME McpInit PROVE Inv
  OBVIOUS
<1>1. /\ script \in Script /\ Len(script) \in Nat /\ Frame = 1 .. Len(script)
      /\ received = 0 /\ buffer = <<>> /\ flushes = {} /\ answers = [f \in Frame |-> <<>>]
  BY McpAssumption DEF McpInit, Frame
<1>2. Len(buffer) = 0 /\ received - Len(buffer) = 0
  <2>1. buffer = <<>> /\ received = 0
    BY <1>1
  <2>2. Len(buffer) = 0
    BY <2>1
  <2>3. 0 - 0 = 0
    OBVIOUS
  <2> QED
    BY <2>1, <2>2, <2>3, Zenon
<1>3. Holds(buffer, 0)
  BY <1>1 DEF Holds, Tokens
<1>4. Parity(0)
  <2> SUFFICES ASSUME NEW k \in Nat
               PROVE  0 # 2 * k - 1 /\ (0 = 2 * k => Sound(k))
    BY DEF Parity
  <2>1. 0 # 2 * k - 1 /\ (0 = 2 * k => k = 0)
    OBVIOUS
  <2> QED
    BY <2>1 DEF Sound
<1>5. FlushesOK(flushes)
  BY <1>1 DEF FlushesOK
<1>6. \A f \in Frame : FrameOK(f, 0, flushes, answers[f])
  BY <1>1 DEF FrameOK
<1> QED
  BY <1>1, <1>2, <1>3, <1>4, <1>5, <1>6 DEF Inv, Fits, Resting

\* A chunk read from standard input,
LEMMA ChunkInv ==
  ASSUME Inv, NEW size \in 1 .. Tokens, Chunk(size)
  PROVE  Inv'
<1> DEFINE buf == buffer \o [i \in 1 .. size |-> Token(received + i)]
           base == received - Len(buffer)
<1>1. size \in Nat /\ received + size <= Tokens
  <2>1. Tokens \in Nat
    <3>1. Len(script) \in Nat
      BY McpAssumption DEF Inv, Fits
    <3> QED
      BY <3>1 DEF Tokens
  <2> QED
    BY <2>1 DEF Chunk
<1>2. Holds(buf, base) /\ Len(buf) = Len(buffer) + size
  BY <1>1, HoldsMore
<1>3. /\ script' = script /\ answers' = answers /\ received' = received + size
      /\ Advance(buf, flushes)
  BY DEF Chunk
<1>4. /\ script \in Script /\ Parity(base) /\ FlushesOK(flushes) /\ DOMAIN answers = Frame
      /\ \A f \in Frame : FrameOK(f, base, flushes, answers[f])
      /\ received \in Nat /\ Len(buffer) \in Nat
  BY DEF Inv, Fits, Holds
<1> HIDE DEF buf
<1>5. received' = base + Len(buf)
  BY <1>1, <1>2, <1>3, <1>4
<1> HIDE DEF base
<1>6. DOMAIN answers' = Frame /\ \A f \in Frame : FrameOK(f, base, flushes, answers'[f])
  BY <1>3, <1>4
<1> QED
  BY <1>2, <1>3, <1>4, <1>5, <1>6, AdvanceInv

\* A flush that goes on once its frame is settled.
LEMMA GoesOnInv ==
  ASSUME Inv, NEW w \in flushes, Advance(buffer, flushes \ {w}),
         script' = script, received' = received, DOMAIN answers' = Frame,
         Settled(w.frame, answers'[w.frame]),
         \A f \in Frame : f # w.frame => answers'[f] = answers[f]
  PROVE  Inv'
<1> DEFINE base == received - Len(buffer)
           ans == answers'
<1>1. /\ script \in Script /\ Holds(buffer, base) /\ Parity(base)
      /\ received \in Nat /\ Len(buffer) \in Nat
  BY DEF Inv, Fits, Holds
<1>2. Settled(w.frame, ans[w.frame]) /\ \A f \in Frame : f # w.frame => ans[f] = answers[f]
  OBVIOUS
<1> HIDE DEF ans
<1>3. /\ FlushesOK(flushes \ {w})
      /\ \A f \in Frame : FrameOK(f, base, flushes \ {w}, ans[f])
  BY <1>2, Leaves
<1>4. received' = base + Len(buffer)
  BY <1>1
<1> HIDE DEF base
<1>5. \A f \in Frame : FrameOK(f, base, flushes \ {w}, answers'[f])
  BY <1>3 DEF ans
<1> QED
  BY <1>1, <1>3, <1>4, <1>5, AdvanceInv

\* an answer written
LEMMA WrittenInv ==
  ASSUME Inv, NEW w \in flushes, Written(w)
  PROVE  Inv'
<1>1. /\ w.awaits = "write" /\ script' = script /\ received' = received
      /\ answers' = [answers EXCEPT ![w.frame] = Append(@, w.answer)]
      /\ Advance(buffer, flushes \ {w})
  BY DEF Written
<1>2. w.frame \in Frame /\ answers[w.frame] = <<>> /\ DOMAIN answers = Frame /\ Serves(w)
  BY Unanswered DEF Inv, Fits, FlushesOK
<1>3. /\ DOMAIN answers' = Frame /\ answers'[w.frame] = Append(<<>>, w.answer)
      /\ \A f \in Frame : f # w.frame => answers'[f] = answers[f]
  BY <1>1, <1>2
<1>4. answers'[w.frame] = <<w.answer>>
  BY <1>3
<1>5. Settled(w.frame, answers'[w.frame])
  BY <1>1, <1>2, <1>4 DEF Serves, Settled
<1> QED
  BY <1>1, <1>3, <1>5, GoesOnInv

\* and one held back keep the invariant,
LEMMA IgnoredInv ==
  ASSUME Inv, NEW w \in flushes, Ignored(w)
  PROVE  Inv'
<1>1. /\ w.awaits = "nothing" /\ script' = script /\ received' = received
      /\ answers' = answers /\ Advance(buffer, flushes \ {w})
  BY DEF Ignored
<1>2. w.frame \in Frame /\ answers[w.frame] = <<>> /\ DOMAIN answers = Frame /\ Serves(w)
  BY Unanswered DEF Inv, Fits, FlushesOK
<1>3. Settled(w.frame, answers'[w.frame])
  BY <1>1, <1>2 DEF Serves, Settled
<1> QED
  BY <1>1, <1>2, <1>3, GoesOnInv

\* What the daemon does changes neither the buffer nor which frames are under way.
LEMMA DaemonInv ==
  ASSUME Inv, NEW w \in flushes, w.awaits = "daemon",
         NEW answer, flushes' = (flushes \ {w}) \cup {At(w.frame, "write", answer)},
         script' = script, received' = received, buffer' = buffer, answers' = answers
  PROVE  Inv'
<1> DEFINE base == received - Len(buffer)
           v == At(w.frame, "write", answer)
           fl2 == (flushes \ {w}) \cup {v}
<1>1. /\ FlushesOK(flushes) /\ \A f \in Frame : FrameOK(f, base, flushes, answers[f])
      /\ Serves(w) /\ received \in Nat
  BY DEF Inv, Fits, FlushesOK
<1>2. v.frame = w.frame /\ v.awaits = "write"
  BY DEF At
<1>3. Serves(v)
  BY <1>1, <1>2 DEF Serves
<1> HIDE DEF v, base
<1>4. FlushesOK(fl2)
  BY <1>1, <1>2, <1>3 DEF FlushesOK
<1>5. \A f : (\E u \in fl2 : u.frame = f) <=> (\E u \in flushes : u.frame = f)
  BY <1>2
<1>6. \A f \in Frame : FrameOK(f, base, fl2, answers[f])
  BY <1>1, <1>5 DEF FrameOK
<1>7. fl2 # {}
  OBVIOUS
<1> HIDE DEF fl2
<1>8. Fits(buffer, base, fl2, answers)
  BY <1>4, <1>6, <1>7 DEF Inv, Fits, base
<1>9. flushes' = fl2
  BY DEF fl2, v
<1>10. Fits(buffer', received' - Len(buffer'), flushes', answers')
  BY <1>8, <1>9 DEF base
<1> QED
  BY <1>1, <1>10, Primed

\* and so does every other step.
LEMMA InvNext == Inv /\ [McpNext]_mcpVars => Inv'
<1> SUFFICES ASSUME Inv, [McpNext]_mcpVars PROVE Inv'
  OBVIOUS
<1>0. received \in Nat /\ Fits(buffer, received - Len(buffer), flushes, answers)
  BY DEF Inv
<1>1. ASSUME NEW size \in 1 .. Tokens, Chunk(size) PROVE Inv'
  BY <1>1, ChunkInv
<1>2. ASSUME NEW w \in flushes, Written(w) PROVE Inv'
  BY <1>2, WrittenInv
<1>3. ASSUME NEW w \in flushes, Ignored(w) PROVE Inv'
  BY <1>3, IgnoredInv
<1>4. ASSUME NEW w \in flushes, DaemonAnswers(w) PROVE Inv'
  BY <1>4, DaemonInv DEF DaemonAnswers
<1>5. ASSUME NEW w \in flushes, DaemonFails(w) PROVE Inv'
  <2>1. /\ w.awaits = "daemon"
        /\ flushes' = (flushes \ {w}) \cup {At(w.frame, "write", "tool error")}
        /\ script' = script /\ received' = received /\ buffer' = buffer /\ answers' = answers
    BY <1>5 DEF DaemonFails
  <2> QED
    BY <2>1, DaemonInv
<1>6. ASSUME NEW n \in DOMAIN requests, DaemonDoes(n) PROVE Inv'
  <2>1. /\ script' = script /\ received' = received /\ buffer' = buffer /\ answers' = answers
        /\ flushes' = flushes
    BY <1>6 DEF DaemonDoes
  <2>2. Fits(buffer', received' - Len(buffer'), flushes', answers')
    BY <1>0, <2>1
  <2> QED
    BY <1>0, <2>1, <2>2, Primed
<1>7. CASE UNCHANGED mcpVars
  <2>1. /\ script' = script /\ received' = received /\ buffer' = buffer /\ answers' = answers
        /\ flushes' = flushes
    BY <1>7 DEF mcpVars
  <2>2. Fits(buffer', received' - Len(buffer'), flushes', answers')
    BY <1>0, <2>1
  <2> QED
    BY <1>0, <2>1, <2>2, Primed
<1> QED
  BY <1>1, <1>2, <1>3, <1>4, <1>5, <1>6, <1>7 DEF McpNext

-----------------------------------------------------------------------------
(***************************************************************************)
(* What the invariant says of the answers.                                 *)
(***************************************************************************)

\* A buffer at rest has no frame to take.
LEMMA RestIsDone ==
  ASSUME Inv, Resting(buffer, received - Len(buffer))
  PROVE  ~Complete(buffer)
<1> DEFINE base == received - Len(buffer)
<1>1. Holds(buffer, base) /\ Len(buffer) \in Nat
  BY DEF Inv, Fits, Holds
<1>2. Len(buffer) = 0 \/ Len(buffer) = 1
  BY DEF Resting
<1>3. ~(Len(buffer) > 1)
  <2>1. \A x \in Nat : x = 0 \/ x = 1 => ~(x > 1)
    OBVIOUS
  <2> QED
    BY <1>1, <1>2, <2>1
<1> QED
  BY <1>3 DEF Complete

\* However the input is cut and the flushes overlap, every request is answered
\* once, nothing else but garbage is, and no frame is left lying, whatever the
\* stream of frames is (flush, handle).
THEOREM EachAnsweredOnce == McpSpec => []RequestsAnsweredOnce
<1>1. Inv => RequestsAnsweredOnce
  <2> SUFFICES ASSUME Inv PROVE RequestsAnsweredOnce
    OBVIOUS
  <2> DEFINE base == received - Len(buffer)
  <2>1. NothingStranded
    BY RestIsDone DEF NothingStranded, Inv, Fits
  <2>2. ASSUME NEW f \in Frame PROVE Len(answers[f]) <= 1
    <3>1. FrameOK(f, base, flushes, answers[f])
      BY DEF Inv, Fits
    <3> HIDE DEF base
    <3>2. answers[f] = <<>> \/ \E x : answers[f] = <<x>>
      BY <3>1 DEF FrameOK, Settled
    <3>3. Len(<<>>) <= 1 /\ \A x : Len(<<x>>) <= 1
      OBVIOUS
    <3> QED
      BY <3>2, <3>3
  <2>3. ASSUME NEW f \in Frame, received = Tokens, flushes = {}
        PROVE  Settled(f, answers[f])
    <3>1. FrameOK(f, base, flushes, answers[f])
      BY DEF Inv, Fits
    <3>2. Len(buffer) = 0 \/ Len(buffer) = 1
      BY <2>3 DEF Inv, Fits, Resting
    <3>3. f \in 1 .. Len(script) /\ Len(script) \in Nat /\ Tokens = 2 * Len(script)
      BY McpAssumption DEF Inv, Fits, Frame, Tokens
    <3>4. 2 * f - 1 <= base
      <4>1. base = 2 * Len(script) \/ base = 2 * Len(script) - 1
        <5>1. received = 2 * Len(script) /\ 2 * Len(script) \in Nat
          BY <2>3, <3>3
        <5>2. \A x \in Nat : x - 0 = x
          OBVIOUS
        <5> QED
          BY <3>2, <5>1, <5>2
      <4> HIDE DEF base
      <4> QED
        BY <3>3, <4>1
    <3>5. f \in Nat /\ base \in Nat
      BY <3>3 DEF Inv, Fits, Holds
    <3> HIDE DEF base
    <3> QED
      BY <2>3, <3>1, <3>4, <3>5 DEF FrameOK
  <2>4. ASSUME NEW f \in Frame, received = Tokens, flushes = {}
        PROVE  IF ~Sound(f) THEN answers[f] = <<"parse error">>
               ELSE (answers[f] = <<>>) = Silent(script[f].message)
    <3>1. Settled(f, answers[f])
      BY <2>3, <2>4
    <3>2. \A x : <<x>> # <<>>
      OBVIOUS
    <3>3. Silent(script[f].message) \in BOOLEAN
      BY DEF Silent
    <3> QED
      BY <3>1, <3>2, <3>3 DEF Settled
  <2> QED
    BY <2>1, <2>2, <2>4 DEF RequestsAnsweredOnce, Silent
<1>2. McpInit => Inv
  BY InvInit
<1>3. Inv /\ [McpNext]_mcpVars => Inv'
  BY InvNext
<1> QED
  BY <1>1, <1>2, <1>3, PTL DEF McpSpec

-----------------------------------------------------------------------------
(***************************************************************************)
(* What reaches the daemon.                                                *)
(***************************************************************************)

\* The schema of each tool asks for no more than its implementation does.
LEMMA SchemasCovered ==
  ASSUME NEW t \in DOMAIN Definitions
  PROVE  Definitions[t].required \subseteq Needs(t)
<1>1. ASSUME t \in DOMAIN MemoryTools PROVE MemoryTools[t].required \subseteq Needs(t)
  BY <1>1 DEF MemoryTools, Tool, Needs, QueryNeeds
<1>2. ASSUME t \in DOMAIN HistoryTools PROVE HistoryTools[t].required \subseteq Needs(t)
  BY <1>2 DEF HistoryTools, Tool, Needs, QueryNeeds, BranchNeeds
<1>3. ASSUME t \in DOMAIN UpkeepTools PROVE UpkeepTools[t].required \subseteq Needs(t)
  BY <1>3 DEF UpkeepTools, Tool, Needs, WriteNeeds
<1> QED
  BY <1>1, <1>2, <1>3 DEF Definitions

\* The daemon is asked for what a tool of the catalog with its arguments asks, and
\* only once a client has initialized.
LEMMA ToDaemonEarned ==
  ASSUME NEW m, m.kind \in {"garbage", "other", "notification", "request"}, Answer(m) = ToDaemon
  PROVE  /\ initialized
         /\ m.name \in DOMAIN Definitions /\ Definitions[m.name].required \subseteq m.args
         /\ Definitions[m.name].mutation => mutations
<1>1. ToDaemon \notin {"result", "tool error", "unknown tool", "invalid params", "parse error",
                       "invalid request", "not initialized", "method not found", NoAnswer}
  BY McpAssumption
<1>2. initialized /\ AnswerRequest(m) = ToDaemon
  BY <1>1 DEF Answer
<1>3. CallTool(m) = ToDaemon
  BY <1>1, <1>2 DEF AnswerRequest
<1>4. m.name \in Catalog /\ ExecuteTool(m.name, m.args) = ToDaemon
  BY <1>1, <1>3 DEF CallTool
<1>5. Needs(m.name) \subseteq m.args
  BY <1>1, <1>4 DEF ExecuteTool
<1>6. m.name \in DOMAIN Definitions /\ (mutations \/ ~Definitions[m.name].mutation)
  BY <1>4 DEF Catalog
<1>7. Definitions[m.name].required \subseteq Needs(m.name)
  BY <1>6, SchemasCovered
<1> QED
  BY <1>2, <1>5, <1>6, <1>7

\* A frame calls a tool that exists, with all its arguments, and a mutation only where allowed.
Lawful(f) ==
  LET m == script[f].message
  IN  /\ m.name \in DOMAIN Definitions /\ Definitions[m.name].required \subseteq m.args
      /\ Definitions[m.name].mutation => mutations

\* An initialize is among the frames taken.
Began(taken) == \E i \in Frame : 2 * i <= taken /\ Initializes(script[i].message)

\* A request is for a frame that has been taken, after an initialize.
Earned(f, taken) ==
  /\ f \in Frame /\ 2 * f <= taken /\ Lawful(f)
  /\ \E i \in 1 .. f - 1 : Initializes(script[i].message)

\* Until the daemon has done a request no flush reports, and none has reported, its success.
Honest(f, request, fl, answer) ==
  request # "done" =>
    /\ answer # <<"result">>
    /\ \A w \in fl : w.frame = f => ~(w.awaits = "write" /\ w.answer = "result")

Calls(taken, init, reqs, fl, ans) ==
  /\ init \in BOOLEAN
  /\ init => Began(taken)
  /\ \A f \in DOMAIN reqs : Earned(f, taken) /\ Honest(f, reqs[f], fl, ans[f])

CallsInv == Inv /\ Calls(received - Len(buffer), initialized, requests, flushes, answers)

\* A flush's way through the buffer keeps the calls earned.
LEMMA AdvanceCalls ==
  ASSUME NEW buf, NEW base, NEW others, NEW ans, script \in Script,
         Holds(buf, base), Advance(buf, others),
         \A f \in Frame : FrameOK(f, base, others, ans[f]),
         Calls(base, initialized, requests, others, ans)
  PROVE  Calls(base + Len(buf) - Len(buffer'), initialized', requests', flushes', ans)
<1>1. /\ Len(buf) \in Nat /\ base \in Nat /\ Frame = 1 .. Len(script) /\ Len(script) \in Nat
  BY McpAssumption DEF Holds, Frame
<1>2. initialized \in BOOLEAN /\ (initialized => Began(base))
  BY DEF Calls
<1>3. ASSUME NEW f \in DOMAIN requests
      PROVE  Earned(f, base) /\ Honest(f, requests[f], others, ans[f])
  BY DEF Calls
<1>4. ASSUME NEW further \in Nat, base <= further
      PROVE  /\ Began(base) => Began(further)
             /\ \A f : Earned(f, base) => Earned(f, further)
  <2>1. \A f \in Frame : 2 * f <= base => 2 * f <= further
    BY <1>1, <1>4
  <2> QED
    BY <2>1 DEF Began, Earned
<1>5. CASE Rests(buf, base, others, buffer', flushes') /\ Unheard
  <2>1. base + Len(buf) - Len(buffer') = base
    BY <1>1, <1>5 DEF Rests
  <2>2. flushes' = others /\ initialized' = initialized /\ requests' = requests
    BY <1>5 DEF Rests, Unheard
  <2> QED
    BY <2>1, <2>2, Zenon
<1>6. ASSUME NEW n \in Frame, Spoils(n, buf, base, others, buffer', flushes'), Unheard
      PROVE  Calls(base + Len(buf) - Len(buffer'), initialized', requests', flushes', ans)
  <2> DEFINE d == 2 * n - 1 - base
  <2>1. /\ d \in Nat /\ d <= Len(buf) /\ buffer' = SubSeq(buf, d + 1, Len(buf))
    <3>1. /\ base = 2 * n - 2 \/ base = 2 * n - 3
          /\ 2 * n - 1 - base <= Len(buf) /\ buffer' = SubSeq(buf, 2 * n - base, Len(buf))
      BY <1>6 DEF Spoils
    <3>2. n \in Nat /\ d + 1 = 2 * n - base
      BY <1>1
    <3>3. d \in Nat
      BY <1>1, <3>1, <3>2
    <3> QED
      BY <3>1, <3>2, <3>3
  <2>2. base + Len(buf) - Len(buffer') = base + d /\ base + d \in Nat /\ base <= base + d
    <3> HIDE DEF d
    <3> DEFINE rest == Len(buffer')
    <3>1. rest = Len(buf) - d
      BY <2>1, HoldsRest
    <3> HIDE DEF rest
    <3>2. base + Len(buf) - rest = base + d /\ base + d \in Nat /\ base <= base + d
      BY <1>1, <2>1, <3>1
    <3> QED
      BY <3>2 DEF rest
  <2> HIDE DEF d
  <2>3. /\ flushes' = others \cup {At(n, "write", "parse error")}
        /\ initialized' = initialized /\ requests' = requests
    BY <1>6 DEF Spoils, Unheard
  <2>4. ASSUME NEW f \in DOMAIN requests
        PROVE  Earned(f, base + d) /\ Honest(f, requests[f], flushes', ans[f])
    <3>1. At(n, "write", "parse error").answer # "result"
      BY DEF At
    <3> QED
      BY <1>3, <1>4, <2>2, <2>3, <3>1 DEF Honest
  <2> QED
    BY <1>2, <1>4, <2>2, <2>3, <2>4 DEF Calls
<1>7. ASSUME NEW n \in Frame, NEW a, Hands(n, a, buf, base, others, buffer', flushes'), HeardBy(n, a)
      PROVE  Calls(base + Len(buf) - Len(buffer'), initialized', requests', flushes', ans)
  <2> DEFINE m == script[n].message
             w == At(n, Awaits(a), a)
  <2>1. /\ base = 2 * n - 2 /\ 2 <= Len(buf) /\ buffer' = SubSeq(buf, 2 + 1, Len(buf))
        /\ flushes' = others \cup {w}
    BY <1>7 DEF Hands
  <2>2. /\ base + Len(buf) - Len(buffer') = 2 * n /\ 2 * n \in Nat /\ base <= 2 * n
        /\ n \in Nat /\ 2 * n > base
    <3> DEFINE rest == Len(buffer')
    <3>1. rest = Len(buf) - 2
      BY <2>1, HoldsRest
    <3>2. n \in Nat
      BY <1>1
    <3> HIDE DEF m, w, rest
    <3>3. /\ base + Len(buf) - rest = 2 * n /\ 2 * n \in Nat /\ base <= 2 * n
          /\ n \in Nat /\ 2 * n > base
      BY <1>1, <2>1, <3>1, <3>2
    <3> QED
      BY <3>3 DEF rest
  <2>3. /\ a = Answer(m) /\ initialized' = (initialized \/ Initializes(m))
        /\ requests' = IF a = ToDaemon THEN Sent(n) ELSE requests
    BY <1>7 DEF HeardBy
  <2>4. w.frame = n /\ w.awaits = Awaits(a) /\ w.answer = a
    BY DEF At
  <2>5. n \notin DOMAIN requests
    <3>1. ~(2 * n <= base)
      BY <1>1, <2>2
    <3> QED
      BY <1>3, <3>1 DEF Earned
  <2>6. initialized' \in BOOLEAN /\ (initialized' => Began(2 * n))
    <3>1. Initializes(m) => Began(2 * n)
      BY <2>2 DEF Began
    <3>2. initialized' \in BOOLEAN
      <4>1. Initializes(m) \in BOOLEAN
        BY DEF Initializes
      <4> HIDE DEF m
      <4> QED
        BY <1>2, <2>3, <4>1
    <3>3. initialized' => initialized \/ Initializes(m)
      BY <2>3
    <3>4. Began(base) => Began(2 * n)
      BY <1>4, <2>2
    <3> QED
      BY <1>2, <3>1, <3>2, <3>3, <3>4
  <2> HIDE DEF w, m
  <2>7. ASSUME NEW f \in DOMAIN requests
        PROVE  Earned(f, 2 * n) /\ Honest(f, requests[f], flushes', ans[f])
    BY <1>3, <1>4, <2>1, <2>2, <2>4, <2>5 DEF Honest
  <2>8. CASE a # ToDaemon
    BY <2>2, <2>3, <2>6, <2>7, <2>8 DEF Calls
  <2>9. CASE a = ToDaemon
    <3>1. /\ DOMAIN requests' = DOMAIN requests \cup {n} /\ requests'[n] = "sent"
          /\ \A f \in DOMAIN requests : requests'[f] = requests[f]
      BY <2>3, <2>5, <2>9 DEF Sent
    <3>2. m.kind \in {"garbage", "other", "notification", "request"}
      BY McpAssumption DEF Frame, m
    <3>3. initialized /\ Lawful(n)
      <4>1. /\ initialized
            /\ m.name \in DOMAIN Definitions /\ Definitions[m.name].required \subseteq m.args
            /\ Definitions[m.name].mutation => mutations
        <5>1. Answer(m) = ToDaemon
          BY <2>3, <2>9
        <5>2. /\ initialized /\ m.name \in DOMAIN Definitions
              /\ Definitions[m.name].required \subseteq m.args
          BY <3>2, <5>1, ToDaemonEarned
        <5>3. Definitions[m.name].mutation => mutations
          BY <3>2, <5>1, ToDaemonEarned
        <5> QED
          BY <5>2, <5>3
      <4> QED
        BY <4>1, Zenon DEF Lawful, m
    <3>4. \E i \in 1 .. n - 1 : Initializes(script[i].message)
      <4>1. PICK i \in Frame : 2 * i <= base /\ Initializes(script[i].message)
        BY <1>2, <3>3 DEF Began
      <4>2. i \in 1 .. n - 1
        BY <1>1, <2>1, <2>2, <4>1
      <4> QED
        BY <4>1, <4>2
    <3>5. Earned(n, 2 * n)
      BY <2>2, <3>3, <3>4 DEF Earned
    <3>6. ans[n] = <<>> /\ \A v \in others : v.frame # n
      <4>1. FrameOK(n, base, others, ans[n])
        OBVIOUS
      <4>2. 2 * n - 1 > base /\ ~(2 * n - 1 <= base)
        BY <1>1, <2>1, <2>2
      <4> QED
        BY <4>1, <4>2 DEF FrameOK
    <3>7. a # "result" /\ <<>> # <<"result">>
      BY <2>9, McpAssumption
    <3>8. Honest(n, requests'[n], flushes', ans[n])
      BY <2>1, <2>4, <3>6, <3>7 DEF Honest
    <3> QED
      BY <2>2, <2>6, <2>7, <3>1, <3>5, <3>8 DEF Calls
  <2> QED
    BY <2>8, <2>9
<1> QED
  BY <1>5, <1>6, <1>7, Takes

\* What fits after a step is the invariant after it.
LEMMA CallsPrimed ==
  ASSUME Inv', script' = script, mutations' = mutations, NEW taken,
         taken = received' - Len(buffer'),
         Calls(taken, initialized', requests', flushes', answers')
  PROVE  CallsInv'
<1>1. Calls(received - Len(buffer), initialized, requests, flushes, answers)'
  BY DEF Calls, Began, Earned, Lawful, Honest, Frame
<1> QED
  BY <1>1 DEF CallsInv

\* The server starts with nothing called.
LEMMA CallsStart == McpInit => CallsInv
<1> SUFFICES ASSUME McpInit PROVE CallsInv
  OBVIOUS
<1>1. initialized = FALSE /\ DOMAIN requests = {}
  BY DEF McpInit
<1> QED
  BY <1>1, InvInit DEF CallsInv, Calls

\* A chunk, an answer written
LEMMA ChunkCalls ==
  ASSUME CallsInv, NEW size \in 1 .. Tokens, Chunk(size)
  PROVE  CallsInv'
<1> DEFINE buf == buffer \o [i \in 1 .. size |-> Token(received + i)]
           base == received - Len(buffer)
<1>0. Inv /\ Inv' /\ Calls(base, initialized, requests, flushes, answers)
  BY ChunkInv DEF CallsInv
<1>1. size \in Nat /\ received + size <= Tokens
  <2>1. Tokens \in Nat
    BY <1>0, McpAssumption DEF Inv, Fits, Tokens
  <2> QED
    BY <2>1 DEF Chunk
<1>2. Holds(buf, base) /\ Len(buf) = Len(buffer) + size
  BY <1>0, <1>1, HoldsMore
<1>3. /\ script' = script /\ mutations' = mutations /\ answers' = answers
      /\ received' = received + size /\ Advance(buf, flushes)
  BY DEF Chunk
<1>4. /\ script \in Script /\ \A f \in Frame : FrameOK(f, base, flushes, answers[f])
      /\ received \in Nat /\ Len(buffer) \in Nat
  BY <1>0 DEF Inv, Fits, Holds
<1> HIDE DEF buf
<1>5. received' = base + Len(buf)
  BY <1>1, <1>2, <1>3, <1>4
<1> HIDE DEF base
<1>6. Calls(base + Len(buf) - Len(buffer'), initialized', requests', flushes', answers)
  BY <1>0, <1>2, <1>3, <1>4, AdvanceCalls
<1> DEFINE taken == base + Len(buf) - Len(buffer')
           rest == Len(buffer')
<1>7. taken = received' - Len(buffer')
  <2>1. rest \in Nat /\ base \in Nat /\ Len(buf) \in Nat
    BY <1>0, <1>2 DEF Inv, Fits, Holds
  <2> HIDE DEF rest
  <2>2. base + Len(buf) - rest = received' - rest
    BY <1>5, <2>1
  <2> QED
    BY <2>2 DEF rest
<1>8. Calls(taken, initialized', requests', flushes', answers')
  BY <1>3, <1>6
<1> HIDE DEF taken
<1> QED
  BY <1>0, <1>3, <1>7, <1>8, CallsPrimed

\* and one held back keep the calls earned:
LEMMA GoesOnCalls ==
  ASSUME CallsInv, Inv', NEW w \in flushes, Advance(buffer, flushes \ {w}),
         script' = script, mutations' = mutations, received' = received,
         Settled(w.frame, answers'[w.frame]),
         \A f \in Frame : f # w.frame => answers'[f] = answers[f],
         answers'[w.frame] = <<"result">> => w.awaits = "write" /\ w.answer = "result"
  PROVE  CallsInv'
<1> DEFINE base == received - Len(buffer)
           ans == answers'
<1>1. /\ Inv /\ Calls(base, initialized, requests, flushes, answers)
      /\ script \in Script /\ Holds(buffer, base) /\ received \in Nat /\ Len(buffer) \in Nat
  <2>1. Inv /\ Calls(base, initialized, requests, flushes, answers)
    BY DEF CallsInv
  <2>2. script \in Script /\ Holds(buffer, base) /\ received \in Nat
    BY <2>1, Zenon DEF Inv, Fits
  <2>3. Len(buffer) \in Nat
    BY <2>2 DEF Holds
  <2> QED
    BY <2>1, <2>2, <2>3
<1>2. /\ Settled(w.frame, ans[w.frame]) /\ \A f \in Frame : f # w.frame => ans[f] = answers[f]
      /\ ans[w.frame] = <<"result">> => w.awaits = "write" /\ w.answer = "result"
  OBVIOUS
<1>3. received' = base + Len(buffer)
  BY <1>1
<1> HIDE DEF ans
<1>4. \A f \in Frame : FrameOK(f, base, flushes \ {w}, ans[f])
  BY <1>1, <1>2, Leaves
<1>5. Calls(base, initialized, requests, flushes \ {w}, ans)
  <2>1. ASSUME NEW f \in DOMAIN requests
        PROVE  Earned(f, base) /\ Honest(f, requests[f], flushes \ {w}, ans[f])
    <3>1. Earned(f, base) /\ Honest(f, requests[f], flushes, answers[f]) /\ f \in Frame
      BY <1>1 DEF Calls, Earned
    <3> QED
      BY <1>2, <3>1 DEF Honest
  <2> QED
    BY <1>1, <2>1 DEF Calls
<1> HIDE DEF base
<1>6. Calls(base + Len(buffer) - Len(buffer'), initialized', requests', flushes', ans)
  BY <1>1, <1>4, <1>5, AdvanceCalls
<1> DEFINE taken == base + Len(buffer) - Len(buffer')
           rest == Len(buffer')
<1>7. taken = received' - Len(buffer')
  <2>1. rest \in Nat /\ base \in Nat /\ Len(buffer) \in Nat
    BY <1>1 DEF Inv, Fits, Holds
  <2> HIDE DEF rest
  <2>2. base + Len(buffer) - rest = received' - rest
    BY <1>3, <2>1
  <2> QED
    BY <2>2 DEF rest
<1>8. Calls(taken, initialized', requests', flushes', answers')
  BY <1>6 DEF ans
<1> HIDE DEF taken
<1> QED
  BY <1>7, <1>8, CallsPrimed

\* a success that is written is the daemon's.
LEMMA WrittenCalls ==
  ASSUME CallsInv, NEW w \in flushes, Written(w) \/ Ignored(w)
  PROVE  CallsInv'
<1>0. Inv
  BY DEF CallsInv
<1>1. /\ script' = script /\ mutations' = mutations /\ received' = received
      /\ Advance(buffer, flushes \ {w})
  BY DEF Written, Ignored
<1>2. w.frame \in Frame /\ answers[w.frame] = <<>> /\ DOMAIN answers = Frame /\ Serves(w)
  BY <1>0, Unanswered DEF Inv, Fits, FlushesOK
<1>3. CASE Written(w)
  <2>1. /\ w.awaits = "write" /\ answers' = [answers EXCEPT ![w.frame] = Append(@, w.answer)]
    BY <1>3 DEF Written
  <2>2. /\ answers'[w.frame] = Append(<<>>, w.answer)
        /\ \A f \in Frame : f # w.frame => answers'[f] = answers[f]
    BY <1>2, <2>1
  <2>3. answers'[w.frame] = <<w.answer>>
    BY <2>2
  <2>4. Settled(w.frame, answers'[w.frame])
    BY <1>2, <2>1, <2>3 DEF Serves, Settled
  <2>5. \A x : <<x>> = <<"result">> => x = "result"
    OBVIOUS
  <2> QED
    BY <1>0, <1>1, <1>3, <2>1, <2>2, <2>3, <2>4, <2>5, WrittenInv, GoesOnCalls
<1>4. CASE Ignored(w)
  <2>1. w.awaits = "nothing" /\ answers' = answers
    BY <1>4 DEF Ignored
  <2>2. Settled(w.frame, answers'[w.frame])
    BY <1>2, <2>1 DEF Serves, Settled
  <2>3. answers'[w.frame] # <<"result">>
    <3>1. <<>> # <<"result">>
      OBVIOUS
    <3> QED
      BY <1>2, <2>1, <3>1
  <2> QED
    BY <1>0, <1>1, <1>4, <2>1, <2>2, <2>3, IgnoredInv, GoesOnCalls
<1> QED
  BY <1>3, <1>4

\* What the daemon does, answers or fails to keeps the calls earned.
LEMMA DaemonCalls ==
  ASSUME CallsInv, Inv',
         \/ \E n \in DOMAIN requests : DaemonDoes(n)
         \/ \E w \in flushes : DaemonAnswers(w) \/ DaemonFails(w)
  PROVE  CallsInv'
<1> DEFINE base == received - Len(buffer)
<1>1. /\ initialized \in BOOLEAN
      /\ initialized => Began(base)
      /\ \A f \in DOMAIN requests : Earned(f, base) /\ Honest(f, requests[f], flushes, answers[f])
  BY DEF CallsInv, Calls
<1>2. /\ script' = script /\ mutations' = mutations /\ received' = received /\ buffer' = buffer
      /\ initialized' = initialized /\ answers' = answers
  BY DEF DaemonDoes, DaemonAnswers, DaemonFails
<1>3. DOMAIN requests' = DOMAIN requests
  BY DEF DaemonDoes, DaemonAnswers, DaemonFails
<1> HIDE DEF base
<1>4. ASSUME NEW f \in DOMAIN requests
      PROVE  Honest(f, requests'[f], flushes', answers[f])
  <2>1. Honest(f, requests[f], flushes, answers[f])
    BY <1>1
  <2>2. ASSUME NEW n \in DOMAIN requests, DaemonDoes(n)
        PROVE  Honest(f, requests'[f], flushes', answers[f])
    <3>1. requests'[f] = "done" \/ requests'[f] = requests[f]
      BY <2>2 DEF DaemonDoes
    <3>2. flushes' = flushes
      BY <2>2 DEF DaemonDoes
    <3> QED
      BY <2>1, <3>1, <3>2 DEF Honest
  <2>3. ASSUME NEW w \in flushes, DaemonAnswers(w)
        PROVE  Honest(f, requests'[f], flushes', answers[f])
    <3>1. /\ requests' = requests /\ requests[w.frame] = "done"
          /\ flushes' = (flushes \ {w}) \cup {At(w.frame, "write", "result")}
      BY <2>3 DEF DaemonAnswers
    <3>2. At(w.frame, "write", "result").frame = w.frame
      BY DEF At
    <3> QED
      BY <2>1, <3>1, <3>2 DEF Honest
  <2>4. ASSUME NEW w \in flushes, DaemonFails(w)
        PROVE  Honest(f, requests'[f], flushes', answers[f])
    <3>1. requests[f] = "done" => requests'[f] = "done"
      BY <2>4 DEF DaemonFails
    <3>2. flushes' = (flushes \ {w}) \cup {At(w.frame, "write", "tool error")}
      BY <2>4 DEF DaemonFails
    <3>3. At(w.frame, "write", "tool error").answer = "tool error"
      BY DEF At
    <3> QED
      BY <2>1, <3>1, <3>2, <3>3 DEF Honest
  <2> QED
    BY <2>2, <2>3, <2>4
<1>5. Calls(base, initialized', requests', flushes', answers')
  BY <1>1, <1>2, <1>3, <1>4 DEF Calls
<1> QED
  BY <1>2, <1>5, CallsPrimed DEF base

\* Every step keeps the calls earned.
LEMMA CallsNext == CallsInv /\ [McpNext]_mcpVars => CallsInv'
<1> SUFFICES ASSUME CallsInv, [McpNext]_mcpVars PROVE CallsInv'
  OBVIOUS
<1>1. Inv'
  BY InvNext DEF CallsInv
<1>2. CASE UNCHANGED mcpVars
  <2>1. /\ script' = script /\ mutations' = mutations /\ received' = received /\ buffer' = buffer
        /\ initialized' = initialized /\ flushes' = flushes /\ requests' = requests
        /\ answers' = answers
    BY <1>2 DEF mcpVars
  <2>2. Calls(received' - Len(buffer'), initialized', requests', flushes', answers')
    BY <2>1 DEF CallsInv
  <2> QED
    BY <1>1, <2>1, <2>2, CallsPrimed
<1> QED
  BY <1>1, <1>2, ChunkCalls, WrittenCalls, DaemonCalls DEF McpNext

\* Whatever a client sends and however its frames overlap, only a call of a listed
\* tool with its required fields, after an initialize, reaches the daemon, a writing
\* one only where they are enabled, and a success is reported only once the daemon
\* has done what was asked (handle, executeCortexaTool, requestJson).
THEOREM CallsAreEarned == McpSpec => []CallsEarned
<1>1. CallsInv => CallsEarned
  BY DEF CallsInv, Calls, Earned, Lawful, Honest, CallsEarned
<1> QED
  BY <1>1, CallsStart, CallsNext, PTL DEF McpSpec
=============================================================================
