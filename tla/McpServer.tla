----------------------------- MODULE McpServer -----------------------------
(***************************************************************************)
(* The MCP server (src/apps/mcp-server/src): frames of JSON-RPC read from  *)
(* standard input, the protocol's router, the tools and the daemon they    *)
(* call over HTTP.                                                         *)
(*                                                                         *)
(* Every chunk of input starts a flush of the shared buffer, and a flush   *)
(* that awaits a tool or a write leaves the buffer to the others.  A frame *)
(* is two tokens, its header (up to the empty line) and its body; a chunk  *)
(* is any run of tokens.  A cut inside a token leaves the buffer without   *)
(* the token, as a cut in front of it does.                                *)
(***************************************************************************)
EXTENDS Integers, FiniteSets, Sequences

CONSTANTS Script,       \* the streams of frames a client may send
          NoAnswer,     \* the router answers nothing
          ToDaemon      \* the answer waits for the daemon

\* What a frame holds: [length, message].  The daemon's part is no answer of ours.
ASSUME McpAssumption ==
  /\ \A s \in Script :
       /\ Len(s) \in Nat /\ DOMAIN s = 1 .. Len(s)
       /\ \A f \in DOMAIN s : /\ s[f].length \in BOOLEAN
                             /\ s[f].message.kind \in {"garbage", "other", "notification", "request"}
  /\ NoAnswer # ToDaemon
  /\ {NoAnswer, ToDaemon} \cap {"result", "tool error", "unknown tool", "invalid params", "parse error",
                                "invalid request", "not initialized", "method not found"} = {}

VARIABLES script,       \* the frames of this client
          mutations,    \* CORTEXA_MCP_ENABLE_MUTATIONS
          received,     \* tokens received so far
          buffer,       \* StdioJsonRpcTransport.buffer: a sequence of tokens
          initialized,  \* McpProtocolRouter.initialized
          flushes,      \* the frame each flush is at, and what it awaits
          requests,     \* requests at the daemon: frame -> "sent", "given up", "done"
          answers       \* frame -> the answers written for it

mcpVars == <<script, mutations, received, buffer, initialized, flushes, requests, answers>>

Frame == DOMAIN script

\* The n-th token of the stream: odd ones are headers, even ones bodies.
Token(n) == [frame |-> (n + 1) \div 2, header |-> n % 2 = 1]

Tokens == 2 * Len(script)

-----------------------------------------------------------------------------
(***************************************************************************)
(* The tools.                                                              *)
(***************************************************************************)

Tool(required, mutation) == [required |-> required, mutation |-> mutation]

\* TOOL_DEFINITIONS: the tools of memory and agents, of history and branches, of
\* upkeep and writing.
MemoryTools ==
  [t \in {"health", "agent_list", "query", "context", "plan", "context_suggest", "agent_run"} |->
     CASE t \in {"health", "agent_list"} -> Tool({}, FALSE)
       [] t = "agent_run" -> Tool({"agent", "text"}, TRUE)
       [] OTHER -> Tool({"query"}, FALSE)]

HistoryTools ==
  [t \in {"temporal_query", "temporal_diff", "branch_list", "branch_create", "branch_merge", "branch_switch"} |->
     CASE t = "temporal_query" -> Tool({"query", "projectId", "asOf"}, FALSE)
       [] t = "temporal_diff" -> Tool({"projectId", "from", "to"}, FALSE)
       [] t = "branch_list" -> Tool({"projectId"}, FALSE)
       [] t = "branch_create" -> Tool({"projectId", "branch"}, TRUE)
       [] t = "branch_merge" -> Tool({"projectId", "sourceBranch", "targetBranch"}, TRUE)
       [] OTHER -> Tool({"projectId", "toBranch"}, TRUE)]

UpkeepTools ==
  [t \in {"compaction_stats", "compaction_dashboard", "self_heal_status", "self_heal_trigger",
          "ingest", "evolve", "encode_mcp_ctx", "decode_mcp_ctx"} |->
     CASE t = "self_heal_trigger" -> Tool({}, TRUE)
       [] t = "ingest" -> Tool({"path"}, TRUE)
       [] t = "evolve" -> Tool({"text"}, TRUE)
       [] t = "encode_mcp_ctx" -> Tool({"intent", "scope", "concepts", "entities", "constraints"}, FALSE)
       [] t = "decode_mcp_ctx" -> Tool({"payload"}, FALSE)
       [] OTHER -> Tool({}, FALSE)]

Definitions ==
  [t \in DOMAIN MemoryTools \cup DOMAIN HistoryTools \cup DOMAIN UpkeepTools |->
     IF t \in DOMAIN MemoryTools THEN MemoryTools[t]
     ELSE IF t \in DOMAIN HistoryTools THEN HistoryTools[t] ELSE UpkeepTools[t]]

IsMutationTool(name) == name \in DOMAIN Definitions /\ Definitions[name].mutation

Catalog == {t \in DOMAIN Definitions : mutations \/ ~Definitions[t].mutation}

\* What executeCortexaTool asks of the arguments before it calls the daemon.
QueryNeeds(name) ==
  CASE name \in {"query", "context", "plan", "context_suggest"} -> {"query"}
    [] name = "temporal_query" -> {"query", "projectId", "asOf"}
    [] name = "temporal_diff" -> {"projectId", "from", "to"}
    [] name = "agent_run" -> {"text", "agent"}
    [] OTHER -> {}

BranchNeeds(name) ==
  CASE name = "branch_list" -> {"projectId"}
    [] name = "branch_create" -> {"projectId", "branch"}
    [] name = "branch_merge" -> {"projectId", "sourceBranch", "targetBranch"}
    [] name = "branch_switch" -> {"projectId", "toBranch"}
    [] OTHER -> {}

WriteNeeds(name) ==
  CASE name = "ingest" -> {"path"}
    [] name = "evolve" -> {"text"}
    [] name = "encode_mcp_ctx" -> {"intent", "scope", "concepts", "entities", "constraints"}
    [] name = "decode_mcp_ctx" -> {"payload"}
    [] OTHER -> {}

Needs(name) == QueryNeeds(name) \cup BranchNeeds(name) \cup WriteNeeds(name)

\* The tools served without the daemon.
Codecs == {"encode_mcp_ctx", "decode_mcp_ctx"}

\* The arguments are left to the daemon.
ExecuteToolMutant(name, args) ==
  IF ~mutations /\ IsMutationTool(name) THEN "tool error"
  ELSE IF name \in Codecs THEN "result"
  ELSE ToDaemon

\* A tool's answer, or that the daemon is asked first.
ExecuteTool(name, args) ==
  IF (~mutations /\ IsMutationTool(name)) \/ ~(Needs(name) \subseteq args) THEN "tool error"
  ELSE IF name \in Codecs THEN "result"
  ELSE ToDaemon

-----------------------------------------------------------------------------
(***************************************************************************)
(* The router: a message is a record of                                    *)
(*   kind    "garbage" (not JSON), "other" (no request), "notification" or *)
(*           "request" (one with an id)                                    *)
(*   method, and for tools/call: params (an object or not), name, args     *)
(***************************************************************************)
CallTool(m) ==
  IF ~m.params \/ m.name = "" THEN "invalid params"
  ELSE IF m.name \notin Catalog THEN "unknown tool"
  ELSE ExecuteTool(m.name, m.args)

\* A request once the client has initialized.
AnswerRequest(m) ==
  IF m.method \in {"ping", "tools/list", "resources/list", "prompts/list"} THEN "result"
  ELSE IF m.method = "tools/call" THEN CallTool(m)
  ELSE "method not found"

Answer(m) ==
  IF m.kind = "garbage" THEN "parse error"
  ELSE IF m.kind = "other" THEN "invalid request"
  ELSE IF m.method = "notifications/initialized" THEN NoAnswer
  ELSE IF m.method = "initialize" THEN "result"
  ELSE IF m.kind = "notification" THEN NoAnswer
  ELSE IF ~initialized THEN "not initialized"
  ELSE AnswerRequest(m)

Initializes(m) == m.kind \in {"request", "notification"} /\ m.method = "initialize"

-----------------------------------------------------------------------------
(***************************************************************************)
(* The transport.                                                          *)
(***************************************************************************)
McpInit ==
  /\ script \in Script /\ mutations \in BOOLEAN
  /\ received = 0 /\ buffer = <<>> /\ initialized = FALSE
  /\ flushes = {} /\ requests = <<>>
  /\ answers = [f \in Frame |-> <<>>]

Headers(buf) == {i \in DOMAIN buf : buf[i].header}

\* The end of the first header in the buffer.
HeaderEnd(buf) == CHOOSE i \in Headers(buf) : \A j \in Headers(buf) : i <= j

\* What precedes a header, a body left over, spoils its first line, the length.
HeaderValid(buf) == HeaderEnd(buf) = 1 /\ script[buf[1].frame].length

\* The frame a flush would take from the buffer.
Complete(buf) == Headers(buf) # {} /\ HeaderValid(buf) /\ Len(buf) > 1

At(frame, awaits, answer) == [frame |-> frame, awaits |-> awaits, answer |-> answer]

\* What a flush awaits that has handed its frame's message to the router.
Awaits(answer) ==
  IF answer = NoAnswer THEN "nothing" ELSE IF answer = ToDaemon THEN "daemon" ELSE "write"

\* The request for frame n goes out.
Sent(n) == [f \in DOMAIN requests \cup {n} |-> IF f = n THEN "sent" ELSE requests[f]]

\* The rest of a frame's way through flush, up to its next await; others are the
\* flushes that await something else.
Advance(buf, others) ==
  IF Headers(buf) = {} \/ (HeaderValid(buf) /\ ~Complete(buf))
  THEN /\ flushes' = others /\ buffer' = buf
       /\ UNCHANGED <<initialized, requests>>
  ELSE IF ~HeaderValid(buf)
  THEN /\ flushes' = others \cup {At(buf[HeaderEnd(buf)].frame, "write", "parse error")}
       /\ buffer' = SubSeq(buf, HeaderEnd(buf) + 1, Len(buf))
       /\ UNCHANGED <<initialized, requests>>
  ELSE LET n == buf[1].frame
           m == script[n].message
       IN  /\ flushes' = others \cup {At(n, Awaits(Answer(m)), Answer(m))}
           /\ buffer' = SubSeq(buf, 3, Len(buf))
           /\ initialized' = (initialized \/ Initializes(m))
           /\ requests' = IF Answer(m) = ToDaemon THEN Sent(n) ELSE requests

\* A chunk of standard input, and the flush it starts.
Chunk(size) ==
  /\ received + size <= Tokens
  /\ received' = received + size
  /\ Advance(buffer \o [i \in 1 .. size |-> Token(received + i)], flushes)
  /\ UNCHANGED <<script, mutations, answers>>

\* A flush that takes one frame only.
WrittenMutant(w) ==
  /\ w \in flushes /\ w.awaits = "write"
  /\ answers' = [answers EXCEPT ![w.frame] = Append(@, w.answer)]
  /\ flushes' = flushes \ {w}
  /\ UNCHANGED <<script, mutations, received, buffer, initialized, requests>>

\* The answer is written, and the flush goes on with what the buffer then holds.
Written(w) ==
  /\ w \in flushes /\ w.awaits = "write"
  /\ answers' = [answers EXCEPT ![w.frame] = Append(@, w.answer)]
  /\ Advance(buffer, flushes \ {w})
  /\ UNCHANGED <<script, mutations, received>>

\* A message without an answer: the flush goes on.  (No chunk arrives between;
\* here one may.)
Ignored(w) ==
  /\ w \in flushes /\ w.awaits = "nothing"
  /\ Advance(buffer, flushes \ {w})
  /\ UNCHANGED <<script, mutations, received, answers>>

\* The daemon does what a request asks, in time or after the client gave up.
DaemonDoes(n) ==
  /\ n \in DOMAIN requests /\ requests[n] \in {"sent", "given up"}
  /\ requests' = [requests EXCEPT ![n] = "done"]
  /\ UNCHANGED <<script, mutations, received, buffer, initialized, flushes, answers>>

\* The daemon's answer reaches the tool.
DaemonAnswers(w) ==
  /\ w \in flushes /\ w.awaits = "daemon" /\ requests[w.frame] = "done"
  /\ flushes' = (flushes \ {w}) \cup {At(w.frame, "write", "result")}
  /\ UNCHANGED <<script, mutations, received, buffer, initialized, requests, answers>>

\* The request fails, or its timer aborts it: the tool answers with an error, and
\* the daemon may have done it, or may yet.
DaemonFails(w) ==
  /\ w \in flushes /\ w.awaits = "daemon"
  /\ flushes' = (flushes \ {w}) \cup {At(w.frame, "write", "tool error")}
  /\ requests' = [requests EXCEPT ![w.frame] = IF @ = "sent" THEN "given up" ELSE @]
  /\ UNCHANGED <<script, mutations, received, buffer, initialized, answers>>

McpNext ==
  \/ \E size \in 1 .. Tokens : Chunk(size)
  \/ \E w \in flushes : Written(w) \/ Ignored(w) \/ DaemonAnswers(w) \/ DaemonFails(w)
  \/ \E n \in DOMAIN requests : DaemonDoes(n)

McpSpec == McpInit /\ [][McpNext]_mcpVars

-----------------------------------------------------------------------------
(***************************************************************************)
(* Properties.                                                             *)
(***************************************************************************)
McpTypeOK ==
  /\ received \in 0 .. Tokens /\ initialized \in BOOLEAN /\ Len(buffer) <= received
  /\ \A w \in flushes : w.frame \in Frame /\ w.awaits \in {"write", "nothing", "daemon"}
  /\ DOMAIN requests \subseteq Frame

\* Frames up to the first one without a length.
Sound(n) == \A f \in 1 .. n : script[f].length

\* No flush leaves a frame in the buffer unless another one is under way to it.
NothingStranded == Complete(buffer) => flushes # {}

\* However the input is cut and the flushes overlap, every request is answered
\* once and nothing else but garbage is, and no frame is left lying; a frame
\* without a length takes all that follow it along (flush, handle).
RequestsAnsweredOnce ==
  /\ NothingStranded
  /\ \A f \in Frame :
       /\ Len(answers[f]) <= 1
       /\ (received = Tokens /\ flushes = {}) =>
            LET m == script[f].message
                silent == \/ m.kind = "notification" /\ m.method # "initialize"
                          \/ m.kind = "request" /\ m.method = "notifications/initialized"
            IN  IF ~Sound(f) THEN answers[f] = <<"parse error">>
                ELSE (answers[f] = <<>>) = silent

\* What reaches the daemon is a call of a tool the catalog lists, with the fields
\* its schema requires, after an initialize, and a writing one only where they are
\* enabled; and no tool reports a success the daemon did not (handle,
\* executeCortexaTool, requestJson).
CallsEarned ==
  \A f \in DOMAIN requests :
    LET m == script[f].message IN
    /\ m.name \in DOMAIN Definitions /\ Definitions[m.name].required \subseteq m.args
    /\ Definitions[m.name].mutation => mutations
    /\ \E i \in 1 .. f - 1 : Initializes(script[i].message)
    /\ answers[f] = <<"result">> => requests[f] = "done"

\* Writes complete, and the daemon answers or its timer runs out.
McpFairness ==
  \A n \in UNION {DOMAIN s : s \in Script} :
    WF_mcpVars(\E w \in flushes : w.frame = n /\ (Written(w) \/ Ignored(w) \/ DaemonFails(w)))

\* A request that has been received is answered at last (flush, requestJson).
EveryRequestAnswered ==
  \A n \in UNION {DOMAIN s : s \in Script} :
    (/\ n \in Frame /\ received >= 2 * n
     /\ script[n].message.kind = "request" /\ script[n].message.method # "notifications/initialized")
      ~> (n \in Frame /\ answers[n] # <<>>)
=============================================================================
