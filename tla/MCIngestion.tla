---------------------------- MODULE MCIngestion ----------------------------
(***************************************************************************)
(* A small instance of Ingestion, and inputs for the pure functions of     *)
(* IngestSelection.  A behaviour either runs ingests (job = NoJob) or      *)
(* calls one of the functions once.                                        *)
(***************************************************************************)
EXTENDS Ingestion, IngestSelection

CONSTANTS NoJob, Pending

VARIABLE job            \* the call: its function, its input and its result

MCContent == {<<"a", "b">>, <<"a", "blank">>}

-----------------------------------------------------------------------------
\* A project of two files, a directory of its own, one of SKIP_DIRS and a link.
Entry(name, kind) == [name |-> name, kind |-> kind]

Roots == {<<Entry("a.ts", "file"), Entry("lib", "dir"), Entry("dist", "dir"), Entry("link", "link")>>,
          <<Entry("dist", "dir"), Entry("link", "link"), Entry("lib", "dir"), Entry("b.py", "file")>>}

Trees == {(<<>> :> root) @@ (<<"lib">> :> lib) @@ (<<"dist">> :> <<Entry("a.ts", "file")>>) :
            root \in Roots, lib \in {<<>>, <<Entry("b.py", "file"), Entry("a.ts", "file"), Entry("sub", "dir")>>}}

Files == {<<"a.ts">>, <<"b.py">>, <<"lib", "a.ts">>, <<"lib", "b.py">>, <<"dist", "a.ts">>}

\* Types of the fields of a policy as validateIngestPolicy finds them.
PolicyTypes == {[top |-> [maxFileBytes |-> t, chat |-> "good"], chat |-> [roots |-> c], redaction |-> [f \in {} |-> f]] :
                  t \in {"good", "bad"}, c \in {"good", "bad"}}

Policies == {[types |-> t, include |-> i, exclude |-> e, languages |-> l, maxFileBytes |-> b,
              maxChatFiles |-> Undefined, chats |-> c] :
               t \in PolicyTypes, i \in {{}, {{<<"a.ts">>, <<"lib", "a.ts">>}}}, e \in {{}, {{<<"a.ts">>}}},
               l \in {{}, {"python"}, {"unknown"}}, b \in {Undefined, 1}, c \in {Undefined, TRUE}}

Default == [policyFile |-> "default", env |-> Undefined, maxFileBytes |-> 2, maxChatFiles |-> 2,
            skipped |-> {"dist"}, extensions |-> {".ts", ".py"}, short |-> {},
            extension |-> ("a.ts" :> ".ts") @@ ("b.py" :> ".py"),
            extensionsOf |-> ("python" :> {".py"})]

\* Workspaces of the project, of a folder of it, of another project; one with
\* two sessions and a file that is none.
Session(name, json) == [name |-> name, json |-> json]

Workspaces == {[parses |-> p, folder |-> f, listed |-> {}, files |-> fs] :
                 p \in BOOLEAN, f \in {{<<"home", "project", "lib">>}, {<<"home", "other">>}},
                 fs \in {<<Session("x", TRUE), Session("y", FALSE), Session("z", TRUE)>>, <<Session("w", TRUE)>>}}

StorageRoots == {<<>>} \cup {<<v, w>> : v, w \in Workspaces}

ProjectPath == <<"home", "project">>

\* One storage root with the one session of a workspace of the project.
OneChat == << <<[parses |-> TRUE, folder |-> {<<"home">>}, listed |-> {}, files |-> <<Session("v", TRUE)>>]>> >>

Project(tree, policies, roots) ==
  [tree |-> tree, files |-> Files, policies |-> policies, roots |-> roots, path |-> ProjectPath,
   size |-> [f \in Files |-> Len(f)]]

Requests == [policy : {Undefined}, path : {Undefined, "named"}, maxFiles : {0, 2, 9},
             maxChatFiles : {Undefined}, chats : BOOLEAN]

FileJobs == {[fn |-> "plan", request |-> r, project |-> Project(t, ("named" :> p), OneChat), out |-> Pending] :
               r \in Requests, t \in Trees, p \in Policies}
            \cup {[fn |-> "plan", request |-> r, project |-> Project(t, [f \in {} |-> f], OneChat), out |-> Pending] :
               r \in Requests, t \in Trees}

ChatJobs == {[fn |-> "chats", roots |-> <<v, w>>, max |-> m, out |-> Pending] :
               v \in StorageRoots, w \in {OneChat[1], <<>>}, m \in 0 .. 4}

\* Texts of paragraphs, and white space of some lengths.
Texts == {[paragraphs |-> ps, length |-> JoinedLength(ps)] : ps \in SeqOf(1 .. 4, 4) \cup {<<9>>, <<2, 9, 2>>}}
         \cup {[paragraphs |-> <<>>, length |-> n] : n \in {1, 6, 7, 14}}

ChunkJobs == {[fn |-> "chunks", text |-> t, chunkMax |-> 6, max |-> m, out |-> Pending] : t \in Texts, m \in 1 .. 4}

Items == {[prompt |-> p, response |-> r, role |-> Undefined, content |-> ""] : p \in {"", "P"}, r \in {"", "R"}}
         \cup {[prompt |-> "", response |-> "", role |-> r, content |-> c] :
                 r \in {"user", "assistant"}, c \in {"", "C", "D"}}

SessionJobs == {[fn |-> "session", items |-> is, out |-> Pending] : is \in SeqOf(Items, 3)}

Records == {[op |-> "snapshot", requests |-> r] : r \in {<<>>, (0 :> ("message" :> 1)) @@ (1 :> ("response" :> 1))}}
           \cup {[op |-> "patch", index |-> i, field |-> f, value |-> v] :
                   i \in 0 .. 1, f \in {"message", "response"}, v \in 2 .. 3}

LogJobs == {[fn |-> "log", records |-> rs, out |-> Pending] : rs \in SeqOf(Records, 3)}

Result ==
  CASE job.fn = "plan"    -> PlanRun(job.request, job.project, Default)
    [] job.fn = "chats"   -> DiscoverChats(job.roots, ProjectPath, job.max)
    [] job.fn = "chunks"  -> Segments(job.text.paragraphs, job.text.length, job.chunkMax, job.max)
    [] job.fn = "session" -> ParseSession(job.items)
    [] job.fn = "log"     -> ReplayLog(job.records)

-----------------------------------------------------------------------------
Init ==
  /\ IngestInit
  /\ \/ job = NoJob
     \/ /\ file = [s \in Source |-> <<"a", "b">>] /\ ~onBranch
        /\ job \in FileJobs \cup ChatJobs \cup ChunkJobs \cup SessionJobs \cup LogJobs

Call == /\ job # NoJob /\ job.out = Pending
        /\ job' = [job EXCEPT !.out = Result]
        /\ UNCHANGED ingestVars

Next == Call \/ (job = NoJob /\ IngestNext /\ UNCHANGED job)

vars == <<ingestVars, job>>

Spec == Init /\ [][Next]_vars

-----------------------------------------------------------------------------
Returned(fn) == job # NoJob /\ job.fn = fn /\ job.out # Pending

\* The files an ingest reads are those in reach that the policy and the limits
\* allow, all of them when the limit was not met, and none under a policy that is
\* missing or malformed; the chat sessions are those of the workspaces of the
\* project, of all workspaces only where none is the project's (walkFiles,
\* discoverChatSessionFiles, resolveIngestPolicy).
FilesExact ==
  /\ Returned("plan") =>
       LET policies == job.project.policies
           rules    == IF job.request.path = Undefined THEN NoPolicy ELSE policies[job.request.path]
           broken   == job.request.path # Undefined /\
                         \/ job.request.path \notin DOMAIN policies
                         \/ \E part \in DOMAIN rules.types :
                              \E f \in DOMAIN rules.types[part] : rules.types[part][f] = "bad"
           limit    == IF rules.maxFileBytes = Undefined THEN 2 ELSE rules.maxFileBytes
           reach    == {f \in FilesInReach(job.project.tree, {"dist"}, Files) :
                          /\ rules.languages = {} \/ ("python" \in rules.languages /\ Last(f) = "b.py")
                          /\ rules.include = {} \/ f \in UNION rules.include
                          /\ f \notin UNION rules.exclude}
           small    == {f \in reach : Len(f) <= limit}
       IN  IF broken THEN job.out = NotFound
           ELSE /\ job.out.code \subseteq small
                /\ Cardinality(job.out.code) <= job.request.maxFiles
                /\ Cardinality(reach) <= job.request.maxFiles => job.out.code = small
                /\ job.out.chats = (IF rules.chats = TRUE \/ (rules.chats = Undefined /\ job.request.chats)
                                    THEN {"v"} ELSE {})
  /\ Returned("chats") =>
       LET reach == UNION {ChatsInReach(root, ProjectPath) : root \in Range(job.roots)}
       IN  /\ job.out \subseteq reach
           /\ Cardinality(job.out) = (IF Cardinality(reach) <= job.max THEN Cardinality(reach) ELSE job.max)

\* Taking a file apart loses nothing and invents nothing: the chunks are the
\* paragraphs in order, or the white space of a file without any; the segments add
\* up to the chunks they are of and fit their limit, a chunk is larger than its limit
\* only if a paragraph is; the turns of a chat say what its items say, in order,
\* but for a prompt overtaken by an explicit turn; and every field of a request
\* in an event log is what was last written to it (chunkByParagraph,
\* splitByMaxChars, parseCopilotSession, extractItemsFromEventLog).
TextKept ==
  /\ Returned("chunks") =>
       LET text   == job.text
           chunks == ChunkByParagraph(text.paragraphs, text.length, job.chunkMax)
           sum(s) == FoldLeft(LAMBDA a, n : a + n, 0, s)
       IN  /\ IF text.paragraphs # <<>> THEN FlattenSeq(chunks) = text.paragraphs
              ELSE sum(FlattenSeq(chunks)) = text.length
           /\ \A i \in DOMAIN chunks :
                /\ Len(chunks[i]) > 1 => JoinedLength(chunks[i]) <= job.chunkMax
                /\ sum(job.out[i]) = JoinedLength(chunks[i])
                /\ \A n \in Range(job.out[i]) : n \in 1 .. job.max
  /\ Returned("session") => SaidBy(job.out) = Said(job.items)
  /\ Returned("log") =>
       \A i \in 0 .. 1, f \in {"message", "response"} :
         LastWord(job.records, i, f) =
           IF i \in DOMAIN job.out /\ f \in DOMAIN job.out[i] THEN job.out[i][f] ELSE Undefined
=============================================================================
