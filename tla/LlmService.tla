---------------------------- MODULE LlmService ----------------------------
(***************************************************************************)
(* Calls of a language model (src/core/llm/cortexa-llm.service.ts): which  *)
(* of the remote service and the local model answers, the start of the     *)
(* service on this machine, and the local model's runtime                  *)
(* (src/core/llm/mini-llm.service.ts): its file, which a training          *)
(* replaces while calls read it, its cache and the model made up when      *)
(* there is no file.                                                       *)
(*                                                                         *)
(* A model is the number of the training that made it; 0 is a model made   *)
(* from a prompt.  Every write gives the file another time.                *)
(***************************************************************************)
EXTENDS Integers, FiniteSets

CONSTANTS Caller,       \* whoever calls the model, one call at a time
          Trainer,      \* trainings, in the daemon and on its routes
          Settings,     \* the environment: [mode, strict, autoStart, trainers]
          MaxAsks,      \* bound on the calls of a caller
          MaxCrashes    \* bound on the crashes

ASSUME LlmAssumption == Trainer \subseteq Nat \ {0} /\ MaxAsks \in Nat \ {0} /\ MaxCrashes \in Nat

VARIABLES settings,
          service,      \* the process at qwenServiceUrl: "down", "starting" or "up"
          starts,       \* start loops running: localServiceStartPromise is set when one is
          ask,          \* Caller -> its call
          file,         \* the model's file: [model, torn, time]; model is -1: no file
          runtimeCache, \* [model, time]; model is -1: none, time is 0: made from a prompt
          training,     \* Trainer -> its training
          health,       \* lastError, and whether the last success is later
          trained,      \* history: the training whose model a new call must use, or -1
          crashes

llmVars == <<settings, service, starts, ask, file, runtimeCache, training, health, trained, crashes>>

-----------------------------------------------------------------------------
None == -1

Idle == [phase |-> "idle", fetches |-> 0, refused |-> FALSE, read |-> 0, owed |-> None,
         answer |-> "none", model |-> None, used |-> 0]

Remote == settings.mode \in {"qwen-http", "auto"}
Strict == settings.mode = "qwen-http" \/ settings.strict

LlmInit ==
  /\ settings \in Settings
  /\ service \in {"down", "up"} /\ starts = 0
  /\ ask = [c \in Caller |-> Idle]
  /\ file = [model |-> None, torn |-> FALSE, time |-> 0]
  /\ runtimeCache = [model |-> None, time |-> 0]
  /\ training = [t \in Trainer |-> [phase |-> IF t \in settings.trainers THEN "collecting" ELSE "done", alone |-> TRUE]]
  /\ health = [error |-> FALSE, later |-> FALSE]
  /\ trained = None /\ crashes = 0

\* recordLlmSuccess and recordLlmError.
RecordLlmSuccess(h) == [error |-> h.error, later |-> TRUE]
RecordLlmError(h)   == [error |-> TRUE, later |-> FALSE]

Asked(c, changes) == ask' = [ask EXCEPT ![c] = changes]

Finished(c, answer, model) == [ask[c] EXCEPT !.phase = "ended", !.answer = answer, !.model = model]

\* completeJson and suggestTags: the mode decides.  Disabled, a completion is an
\* error and a suggestion is empty.
Ask(c) ==
  /\ ask[c].phase \in {"idle", "ended"} /\ ask[c].used < MaxAsks
  /\ LET fresh == [Idle EXCEPT !.used = ask[c].used + 1, !.owed = trained]
     IN  IF settings.mode = "disabled"
         THEN \E answer \in {"error", "empty"} :
                   /\ Asked(c, [fresh EXCEPT !.phase = "ended", !.answer = answer])
                   /\ health' = IF answer = "error" THEN RecordLlmError(health) ELSE health
         ELSE /\ Asked(c, [fresh EXCEPT !.phase = IF Remote THEN "fetch" ELSE "stat"])
              /\ UNCHANGED health
  /\ UNCHANGED <<settings, service, starts, file, runtimeCache, training, trained, crashes>>

\* The local model answers in auto, strict or not.
RemoteFailsMutant(c, call) ==
  /\ health' = RecordLlmError(health)
  /\ Asked(c, IF settings.mode = "qwen-http" THEN [call EXCEPT !.phase = "ended", !.answer = "error"]
              ELSE [call EXCEPT !.phase = "stat"])

\* A remote failure: it is thrown when strict, otherwise the local model answers.
RemoteFails(c, call) ==
  /\ health' = RecordLlmError(health)
  /\ Asked(c, IF Strict THEN [call EXCEPT !.phase = "ended", !.answer = "error"]
              ELSE [call EXCEPT !.phase = "stat"])

\* One turn of postJson.  A refused connection starts the service, once; an
\* answer that cannot be used, a timeout and a second refusal are failures.
PostJson(c) ==
  /\ ask[c].phase = "fetch"
  /\ LET sent == [ask[c] EXCEPT !.fetches = @ + 1]
     IN  \/ /\ service = "up"
            /\ Asked(c, [sent EXCEPT !.phase = "ended", !.answer = "remote"])
            /\ health' = RecordLlmSuccess(health)
         \/ /\ service # "down" \/ ask[c].refused
            /\ RemoteFails(c, sent)
         \/ /\ ~ask[c].refused
            /\ Asked(c, [sent EXCEPT !.refused = TRUE, !.phase = "probe"])
            /\ UNCHANGED health
  /\ UNCHANGED <<settings, service, starts, file, runtimeCache, training, trained, crashes>>

\* ensureLocalQwenService: a service that answers in time is left alone, another
\* is spawned unless its start is being waited for.
EnsureLocalQwenService(c) ==
  /\ ask[c].phase = "probe"
  /\ \/ /\ ~settings.autoStart \/ service = "up"
        /\ Asked(c, [ask[c] EXCEPT !.phase = "fetch"])
        /\ UNCHANGED <<service, starts>>
     \/ /\ settings.autoStart
        /\ Asked(c, [ask[c] EXCEPT !.phase = "await"])
        /\ IF starts = 0
           THEN starts' = 1 /\ service' = IF service = "down" THEN "starting" ELSE service
           ELSE UNCHANGED <<starts, service>>
  /\ UNCHANGED <<settings, file, runtimeCache, training, health, trained, crashes>>

Waiting == {c \in Caller : ask[c].phase = "await"}

\* The start loop ends when the service answers or its time is over; those that
\* wait for it go on together.
LocalServiceStarted ==
  /\ starts > 0 /\ service = "up"
  /\ starts' = starts - 1
  /\ ask' = [c \in Caller |-> IF c \in Waiting THEN [ask[c] EXCEPT !.phase = "fetch"] ELSE ask[c]]
  /\ UNCHANGED <<settings, service, file, runtimeCache, training, health, trained, crashes>>

StartTimesOut ==
  /\ starts > 0
  /\ starts' = starts - 1
  /\ ask' = [c \in Caller |-> IF c \notin Waiting THEN ask[c]
                              ELSE [ask[c] EXCEPT !.phase = IF Strict THEN "ended" ELSE "stat",
                                                  !.answer = IF Strict THEN "error" ELSE @]]
  /\ health' = IF Waiting = {} THEN health ELSE RecordLlmError(health)
  /\ UNCHANGED <<settings, service, file, runtimeCache, training, trained, crashes>>

\* The service comes up or goes on its own.
ServiceChanges ==
  /\ service' = CASE service = "starting" -> "up" [] service = "up" -> "down" [] OTHER -> service
  /\ service' # service /\ (service = "up" => crashes < MaxCrashes)
  /\ crashes' = IF service = "up" THEN crashes + 1 ELSE crashes
  /\ UNCHANGED <<settings, starts, ask, file, runtimeCache, training, health, trained>>

-----------------------------------------------------------------------------
(***************************************************************************)
(* The local model.                                                        *)
(***************************************************************************)
MiniAnswers(c, model) ==
  /\ Asked(c, Finished(c, "mini", model))
  /\ health' = RecordLlmSuccess(health)

\* ensureRuntime without a file that can be used: the model made up from the
\* first prompt serves, whatever the prompt is now.
Ephemeral(c) ==
  /\ MiniAnswers(c, 0)
  /\ runtimeCache' = IF runtimeCache.model = 0 THEN runtimeCache ELSE [model |-> 0, time |-> 0]

\* loadModelFromDisk up to its read: the cache serves while the file's time is
\* the one it was read at.
StatModel(c) ==
  /\ ask[c].phase = "stat"
  /\ IF file.model = None THEN Ephemeral(c)
     ELSE IF runtimeCache.model > 0 /\ runtimeCache.time = file.time
          THEN MiniAnswers(c, runtimeCache.model) /\ UNCHANGED runtimeCache
          ELSE /\ Asked(c, [ask[c] EXCEPT !.phase = "read", !.read = file.time])
               /\ UNCHANGED <<runtimeCache, health>>
  /\ UNCHANGED <<settings, service, starts, file, training, trained, crashes>>

ReadModel(c) ==
  /\ ask[c].phase = "read"
  /\ IF file.torn THEN Ephemeral(c)
     ELSE MiniAnswers(c, file.model) /\ runtimeCache' = [model |-> file.model, time |-> ask[c].read]
  /\ UNCHANGED <<settings, service, starts, file, training, trained, crashes>>

Busy == {t \in Trainer : training[t].phase \in {"writing", "stat"}}

\* trainMiniLlm, its corpus collected: the file is written in place, with no
\* regard to another training or to calls that read it.
WriteModel(t) ==
  /\ training[t].phase = "collecting"
  /\ training' = [u \in Trainer |-> IF u = t THEN [phase |-> "writing", alone |-> Busy = {}]
                                    ELSE [training[u] EXCEPT !.alone = @ /\ u \notin Busy]]
  /\ file' = [file EXCEPT !.model = t, !.torn = TRUE, !.time = @ + 1]
  /\ trained' = None
  /\ ask' = [c \in Caller |-> [ask[c] EXCEPT !.owed = None]]
  /\ UNCHANGED <<settings, service, starts, runtimeCache, health, crashes>>

\* Two writers at once may leave a file of neither.
ModelWritten(t) ==
  /\ training[t].phase = "writing"
  /\ training' = [training EXCEPT ![t].phase = "stat"]
  /\ \E torn \in IF training[t].alone THEN {FALSE} ELSE BOOLEAN :
       file' = [model |-> t, torn |-> torn, time |-> file.time + 1]
  /\ trained' = IF training[t].alone THEN t ELSE None
  /\ UNCHANGED <<settings, service, starts, ask, runtimeCache, health, crashes>>

\* The model is cached with the time the file has now.
CacheTrained(t) ==
  /\ training[t].phase = "stat"
  /\ training' = [training EXCEPT ![t].phase = "done"]
  /\ runtimeCache' = [model |-> t, time |-> file.time]
  /\ UNCHANGED <<settings, service, starts, ask, file, health, trained, crashes>>

\* The process dies and starts again: a write under way leaves a torn file.
Restarts ==
  /\ crashes < MaxCrashes
  /\ crashes' = crashes + 1
  /\ ask' = [c \in Caller |-> [Idle EXCEPT !.used = ask[c].used]]
  /\ training' = [t \in Trainer |-> IF training[t].phase = "collecting" THEN training[t]
                                    ELSE [training[t] EXCEPT !.phase = "done"]]
  /\ starts' = 0 /\ runtimeCache' = [model |-> None, time |-> 0]
  /\ health' = [error |-> FALSE, later |-> FALSE]
  /\ UNCHANGED <<settings, file, trained>>

\* The process is killed; a service it spawned lives on.
CrashLlm == Restarts /\ UNCHANGED service

\* There is no Python to spawn: nobody listens for the error of the child, and it
\* ends the process that wanted the service.
SpawnFails == starts > 0 /\ service = "starting" /\ Restarts /\ service' = "down"

CallStep(c) == PostJson(c) \/ EnsureLocalQwenService(c) \/ StatModel(c) \/ ReadModel(c)

LlmNext ==
  \/ \E c \in Caller : Ask(c) \/ CallStep(c)
  \/ LocalServiceStarted \/ StartTimesOut \/ ServiceChanges
  \/ \E t \in Trainer : WriteModel(t) \/ ModelWritten(t) \/ CacheTrained(t)
  \/ CrashLlm \/ SpawnFails

\* Every request has a timeout, the start loop a deadline, a read ends.
LlmFairness ==
  /\ \A c \in Caller : WF_llmVars(CallStep(c))
  /\ WF_llmVars(StartTimesOut)

LlmSpec == LlmInit /\ [][LlmNext]_llmVars /\ LlmFairness

-----------------------------------------------------------------------------
(***************************************************************************)
(* Properties.                                                             *)
(***************************************************************************)
LlmTypeOK ==
  /\ settings \in Settings /\ service \in {"down", "starting", "up"}
  /\ starts \in Nat /\ crashes \in 0..MaxCrashes
  /\ \A c \in Caller : /\ ask[c].phase \in {"idle", "fetch", "probe", "await", "stat", "read", "ended"}
                       /\ ask[c].used \in 0..MaxAsks
  /\ file.model \in Trainer \cup {None} /\ runtimeCache.model \in Trainer \cup {None, 0}

\* The local model never answers for a remote one that must: only when it is the
\* mode, or in auto, not strict, after the remote failed.  The service is asked
\* at most twice, the second time only after a refusal.
AnswersAsConfigured ==
  \A c \in Caller :
    /\ ask[c].answer = "mini" => ~Strict \/ ~Remote
    /\ ask[c].answer = "mini" /\ Remote => ask[c].fetches > 0 /\ health.error
    /\ ask[c].answer = "remote" => Remote
    /\ settings.mode = "disabled" => ask[c].answer \in {"none", "error", "empty"}
    /\ ask[c].fetches <= 2 /\ (ask[c].fetches = 2 => ask[c].refused)

\* Where the local model may answer, no call fails, whatever state the service,
\* the start loop or the file are in.
LocalModelSaves == \A c \in Caller : ask[c].answer = "error" => (Strict /\ Remote) \/ settings.mode = "disabled"

\* A call waits for a start only while a loop runs that will end its wait, and
\* there is one loop: the service is not spawned while its start is waited for.
OneStart == starts <= 1 /\ (Waiting # {} => starts = 1)

\* A call that begins when a training has written its file, and during which no
\* other is written, is answered by that training's model: neither the cache, nor
\* a read begun before, nor a made up model stands in its way.
ModelFresh == \A c \in Caller : ask[c].answer = "mini" /\ ask[c].owed # None => ask[c].model = ask[c].owed

LlmSound == AnswersAsConfigured /\ LocalModelSaves /\ OneStart /\ ModelFresh

\* Every call ends: in an answer, an error, or with the process.
EveryCallEnds == \A c \in Caller : ask[c].phase # "idle" ~> ask[c].phase \in {"idle", "ended"}

=============================================================================
