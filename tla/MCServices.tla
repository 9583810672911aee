----------------------------- MODULE MCServices -----------------------------
(***************************************************************************)
(* Small instances of the services that share no state: a behaviour drives *)
(* one of them, part, and leaves the others as they start.                 *)
(***************************************************************************)
EXTENDS TLC, McpServer, EventStream, MemoryIndex, Maintenance, LlmService

VARIABLE part           \* the service of this behaviour

\* Frames of an MCP client.
Message(kind, method, name, args) ==
  [kind |-> kind, method |-> method, params |-> name # "none", name |-> name, args |-> args]

MCFrame(message) == [length |-> TRUE, message |-> message]

Initialize == MCFrame(Message("request", "initialize", "none", {}))
Initialized == MCFrame(Message("notification", "notifications/initialized", "none", {}))
Ingest(args) == MCFrame(Message("request", "tools/call", "ingest", args))
Garbage == MCFrame(Message("garbage", "none", "none", {}))
NoLength == [length |-> FALSE, message |-> Message("request", "ping", "none", {})]

MCScript ==
  {<<a, b, c>> : a \in {Initialize, NoLength},
                 b \in {Initialized, Ingest({"path"}), NoLength},
                 c \in {Ingest({"path"}), Ingest({}), Garbage,
                        MCFrame(Message("request", "tools/call", "query", {"query"}))}}
  \cup {<<Ingest({"path"})>>}

MCProjectOf == ("a" :> "p") @@ ("x" :> "q")

\* Environments of the schedulers.
Env(kind, kept, persisted, limit, most, anomalies, start, end) ==
  [kind |-> kind, applyEnabled |-> TRUE, project |-> Global,
   history |-> kept, persisted |-> persisted, persists |-> TRUE, auditLimit |-> {1}, backfillLimit |-> limit,
   maxApplyRows |-> most, maxAnomalies |-> anomalies, minPacked |-> {}, windowStart |-> start, windowEnd |-> end]

MCEnvironment ==
  {Env("self-healing", {2}, {1}, {2}, {}, {}, 3, 1),
   [Env("self-healing", {2}, {1}, {2}, {}, {}, 3, 1) EXCEPT !.persists = FALSE, !.project = "p"],
   Env("session-resurrection", {}, {}, {2}, {9}, {1}, 0, 0),
        [Env("self-healing", {}, {}, {}, {}, {}, 1, 3) EXCEPT !.applyEnabled = FALSE]}

MCProjectOfRow == <<"p", "q">>

Setting(mode, strict, autoStart, trainers) ==
  [mode |-> mode, strict |-> strict, autoStart |-> autoStart, trainers |-> trainers]

MCSettings ==
  {Setting("qwen-http", FALSE, TRUE, {}), Setting("auto", FALSE, TRUE, {}), Setting("auto", TRUE, FALSE, {}),
   Setting("mini-local", TRUE, TRUE, {1, 2}), Setting("disabled", TRUE, TRUE, {})}

-----------------------------------------------------------------------------
Parts == {"mcp", "stream", "index", "maintenance", "llm"}

servicesVars == <<part, mcpVars, streamVars, indexVars, maintVars, llmVars>>

\* A service that is not driven starts in one way.
One(set) == CHOOSE x \in set : TRUE

ServicesInit ==
  /\ part \in Parts
  /\ script \in (IF part = "mcp" THEN Script ELSE {One(Script)}) /\ mutations \in (IF part = "mcp" THEN BOOLEAN ELSE {FALSE})
  /\ McpInit
  /\ StreamInit
  /\ provider \in (IF part = "index" THEN {"qdrant", "chroma", "memory"} ELSE {"memory"})
  /\ rows \in {[id \in Id |-> Match]}
  /\ vectors \in {rows} \cup {v \in [Id -> {Other, Absent}] : part = "index" /\ v["a"] # v["x"]}
  /\ IndexInit
  /\ config \in {ReadConfig(env) : env \in IF part = "maintenance" THEN Environment ELSE {One(Environment)}}
  /\ wrote \in {[r \in Rows |-> PlainText(IF r = 1 THEN "long" ELSE "short")]}
  /\ MaintInit
  /\ settings \in (IF part = "llm" THEN Settings ELSE {One(Settings)})
  /\ service \in (IF part = "llm" /\ Remote THEN {"down", "up"} ELSE {"down"})
  /\ LlmInit

ServicesNext ==
  \/ /\ part = "mcp" /\ McpNext
     /\ UNCHANGED <<part, streamVars, indexVars, maintVars, llmVars>>
  \/ /\ part = "stream" /\ StreamNext
     /\ UNCHANGED <<part, mcpVars, indexVars, maintVars, llmVars>>
  \/ /\ part = "index" /\ IndexNext
     /\ UNCHANGED <<part, mcpVars, streamVars, maintVars, llmVars>>
  \/ /\ part = "maintenance" /\ MaintNext
     /\ UNCHANGED <<part, mcpVars, streamVars, indexVars, llmVars>>
  \/ /\ part = "llm" /\ LlmNext
     /\ UNCHANGED <<part, mcpVars, streamVars, indexVars, maintVars>>

ServicesSpec ==
  /\ ServicesInit /\ [][ServicesNext]_servicesVars
  /\ McpFairness /\ StreamFairness /\ LlmFairness

-----------------------------------------------------------------------------
ServicesTypeOK ==
  McpTypeOK /\ StreamTypeOK /\ IndexTypeOK /\ MaintTypeOK /\ LlmTypeOK

\* What must happen does: an MCP request is answered, a dead peer of the stream is
\* cut off, a call of the language model ends.
ServicesProgress == EveryRequestAnswered /\ DeadPeersAreCut /\ EveryCallEnds
=============================================================================
