-------------------------- MODULE IngestSelection --------------------------
(***************************************************************************)
(* What an ingest looks at and how it takes a file apart: the walk over a  *)
(* project, the discovery of chat sessions, the policy, chunks and turns   *)
(* (src/core/ingestion/ingest.pipeline.ts, ingest.policy.ts, code.parser.  *)
(* ts, chunker.ts, copilot.parser.ts).  Pure operators; the reference each *)
(* is compared with follows it.                                            *)
(*                                                                         *)
(* A path is a sequence of names, a glob the set of paths it matches, a    *)
(* text its length where only lengths matter and a name elsewhere.         *)
(***************************************************************************)
EXTENDS Integers, FiniteSets, Sequences, SequencesExt

CONSTANTS Undefined,    \* the undefined of JavaScript
          NotFound      \* the policy file that was asked for is missing

\* a ?? b ?? ... ?? last
FirstDefined(values) ==
  LET defined == SelectSeq(values, LAMBDA v : v # Undefined)
  IN  IF defined = <<>> THEN Undefined ELSE Head(defined)

-----------------------------------------------------------------------------
(***************************************************************************)
(* The policy.                                                             *)
(***************************************************************************)

\* resolvePolicyPath, resolveIngestPolicy: the policy of the request, else the
\* file it names, which must be there, else the default file if there is one.
PolicyOf(request, files, default) ==
  IF request.policy # Undefined THEN request.policy
  ELSE IF request.path # Undefined
       THEN IF request.path \in DOMAIN files THEN files[request.path] ELSE NotFound
  ELSE IF default \in DOMAIN files THEN files[default] ELSE Undefined

\* validateIngestPolicy: every field that is there must have its type, and so
\* must those of chat and redaction when these are objects.
PolicyErrors(policy) ==
  LET types == policy.types
      wrong(fields) == {f \in DOMAIN fields : fields[f] = "bad"}
      nested == {f \in {"chat", "redaction"} \cap DOMAIN types.top : types.top[f] = "good"}
  IN  wrong(types.top) \cup UNION {wrong(types[f]) : f \in nested}

\* buildPathMatcher: an exclusion beats every inclusion, no inclusion means all.
IncludesPath(path, include, exclude) ==
  /\ \A glob \in exclude : path \notin glob
  /\ include = {} \/ \E glob \in include : path \in glob

\* resolveLanguageExtensions: each language stands for its extensions, a word
\* short enough for an extension also for itself; a list of which nothing is
\* known allows nothing, no list allows CODE_EXTENSIONS.
AllowedExtensions(languages, extensionsOf, short, default) ==
  IF languages = {} THEN default
  ELSE UNION {extensionsOf[l] : l \in languages \cap DOMAIN extensionsOf} \cup (languages \cap short)

\* The settings of runIngestion: the policy decides before the request, the
\* environment and the defaults.
Settings(policy, request, env, default) ==
  [maxFileBytes |-> FirstDefined(<<policy.maxFileBytes, env, default.maxFileBytes>>),
   maxChatFiles |-> FirstDefined(<<policy.maxChatFiles, request.maxChatFiles, default.maxChatFiles>>),
   chats        |-> FirstDefined(<<policy.chats, request.chats, FALSE>>),
   maxFiles     |-> request.maxFiles]

-----------------------------------------------------------------------------
(***************************************************************************)
(* The files of a project.  A tree gives every readable directory the      *)
(* sequence of its entries [name, kind].                                   *)
(***************************************************************************)

Full(found, max) == Cardinality(found) >= max

\* With the directories of SKIP_DIRS entered.
VisitMutant(walk, dir, entry, skipped, wanted, max) ==
  LET path == Append(dir, entry.name)
  IN  IF Full(walk.found, max) THEN walk
      ELSE IF entry.kind = "dir" THEN [walk EXCEPT !.stack = Append(@, path)]
      ELSE IF entry.kind = "file" /\ path \in wanted
           THEN [walk EXCEPT !.found = @ \cup {path}]
      ELSE walk

\* One entry of a directory: links are never followed, nor the directories with
\* a name of SKIP_DIRS.
Visit(walk, dir, entry, skipped, wanted, max) ==
  LET path == Append(dir, entry.name)
  IN  IF Full(walk.found, max) THEN walk
      ELSE IF entry.kind = "dir" /\ entry.name \notin skipped
           THEN [walk EXCEPT !.stack = Append(@, path)]
      ELSE IF entry.kind = "file" /\ path \in wanted
           THEN [walk EXCEPT !.found = @ \cup {path}]
      ELSE walk

\* walkFiles: depth first with a stack, up to max files; a directory that cannot
\* be read is passed over.
WalkFiles(tree, skipped, wanted, max) ==
  LET visitAll(walk, dir) ==
        FoldLeft(LAMBDA w, e : Visit(w, dir, e, skipped, wanted, max),
                 [walk EXCEPT !.stack = Front(@)], tree[dir])
      dirs == Cardinality(DOMAIN tree) + Cardinality(UNION {Range(tree[d]) : d \in DOMAIN tree})
      steps[n \in 0 .. dirs] ==
        IF n = 0 THEN [stack |-> << <<>> >>, found |-> {}]
        ELSE LET w == steps[n - 1]
             IN  IF w.stack = <<>> \/ Full(w.found, max) THEN w
                 ELSE IF Last(w.stack) \notin DOMAIN tree THEN [w EXCEPT !.stack = Front(@)]
                 ELSE visitAll(w, Last(w.stack))
  IN  steps[dirs].found

\* Every wanted file all of whose directories can be entered.
FilesInReach(tree, skipped, wanted) ==
  LET entry(dir, name, kind) ==
        dir \in DOMAIN tree /\ [name |-> name, kind |-> kind] \in Range(tree[dir])
  IN  {path \in wanted :
         /\ entry(Front(path), Last(path), "file")
         /\ \A i \in 1 .. Len(path) - 1 :
              entry(SubSeq(path, 1, i - 1), path[i], "dir") /\ path[i] \notin skipped}

-----------------------------------------------------------------------------
(***************************************************************************)
(* Chat sessions.  A storage root is a sequence of workspaces, each with   *)
(* the folders its workspace.json names and the files of its transcript    *)
(* directories.                                                            *)
(***************************************************************************)

\* readWorkspaceFoldersFromStorageFolder: the folder named directly and those a
\* named workspace file lists; what cannot be parsed names nothing.
FoldersOf(workspace) ==
  IF workspace.parses THEN workspace.folder \cup workspace.listed ELSE {}

\* workspaceFolderMatchesProject: the project, a folder of it, or one around it.
MatchesProject(workspace, project) ==
  \E folder \in FoldersOf(workspace) : IsPrefix(folder, project) \/ IsPrefix(project, folder)

\* collectChatFilesInDirectory, collectFromWorkspaceFolder
CollectChats(found, workspace, max) ==
  FoldLeft(LAMBDA out, f : IF Full(out, max) \/ ~f.json THEN out ELSE out \cup {f.name},
           found, workspace.files)

\* collectFromWorkspaceStorageRoot: the workspaces of the project, and when the
\* root has none, all of them.
CollectRoot(found, root, project, max) ==
  LET matches  == SelectSeq(root, LAMBDA w : MatchesProject(w, project))
      selected == IF matches = <<>> THEN root ELSE matches
  IN  FoldLeft(LAMBDA out, w : CollectChats(out, w, max), found, selected)

\* discoverChatSessionFiles
DiscoverChats(roots, project, max) ==
  FoldLeft(LAMBDA out, root : CollectRoot(out, root, project, max), {}, roots)

JsonNames(workspace) == {f.name : f \in {g \in Range(workspace.files) : g.json}}

\* The sessions of one root that concern the project.
ChatsInReach(root, project) ==
  LET of == {w \in Range(root) : \E folder \in FoldersOf(w) :
               IsPrefix(folder, project) \/ IsPrefix(project, folder)}
  IN  UNION {JsonNames(w) : w \in IF of = {} THEN Range(root) ELSE of}

-----------------------------------------------------------------------------
(***************************************************************************)
(* What a run of the pipeline will read.                                   *)
(***************************************************************************)

NoPolicy == [types |-> [top |-> [f \in {} |-> f]], include |-> {}, exclude |-> {}, languages |-> {},
             maxFileBytes |-> Undefined, maxChatFiles |-> Undefined, chats |-> Undefined]

\* runIngestion up to its loops: a policy that is missing or malformed stops it;
\* else the code files it walks to, less those too large, and the chat sessions.
PlanRun(request, project, default) ==
  LET policy   == PolicyOf(request, project.policies, default.policyFile)
      refused  == policy = NotFound \/ (policy # Undefined /\ PolicyErrors(policy) # {})
      rules    == IF policy = Undefined THEN NoPolicy ELSE policy
      settings == Settings(rules, request, default.env, default)
      allowed  == AllowedExtensions(rules.languages, default.extensionsOf, default.short, default.extensions)
      wanted   == {f \in project.files : /\ default.extension[Last(f)] \in allowed
                                         /\ IncludesPath(f, rules.include, rules.exclude)}
      walked   == WalkFiles(project.tree, default.skipped, wanted, settings.maxFiles)
  IN  IF refused THEN NotFound
      ELSE [code  |-> {f \in walked : project.size[f] <= settings.maxFileBytes},
            chats |-> IF settings.chats
                      THEN DiscoverChats(project.roots, project.path, settings.maxChatFiles) ELSE {}]

-----------------------------------------------------------------------------
(***************************************************************************)
(* Chunks of code.  A paragraph is its length.                             *)
(***************************************************************************)

\* The length of paragraphs joined by an empty line.
JoinedLength(paragraphs) ==
  IF paragraphs = <<>> THEN 0
  ELSE FoldLeft(LAMBDA sum, n : sum + n, 0, paragraphs) + 2 * (Len(paragraphs) - 1)

\* splitByMaxChars, chunkText: slices of max characters and the rest.
Slice(length, max) ==
  IF length <= max THEN <<length>>
  ELSE [i \in 1 .. (length + max - 1) \div max |->
          IF i * max <= length THEN max ELSE length % max]

\* chunkByParagraph: paragraphs are joined while they fit; a text of the length
\* given that has none, nothing but white space, is cut into slices.
ChunkByParagraph(paragraphs, length, max) ==
  LET add(acc, p) ==
        IF acc.current # <<>> /\ JoinedLength(Append(acc.current, p)) > max
        THEN [chunks |-> Append(acc.chunks, acc.current), current |-> <<p>>]
        ELSE [acc EXCEPT !.current = Append(@, p)]
      all == FoldLeft(add, [chunks |-> <<>>, current |-> <<>>], paragraphs)
  IN  IF all.current # <<>> THEN Append(all.chunks, all.current)
      ELSE IF length = 0 THEN <<>>
      ELSE [i \in DOMAIN Slice(length, max) |-> <<Slice(length, max)[i]>>]

\* The segments of a file that become memories (runIngestion): its chunks, cut at
\* maxChunkChars.
Segments(paragraphs, length, chunkMax, max) ==
  LET chunks == ChunkByParagraph(paragraphs, length, chunkMax)
  IN  [i \in DOMAIN chunks |-> Slice(JoinedLength(chunks[i]), max)]

-----------------------------------------------------------------------------
(***************************************************************************)
(* Turns of a chat session.  An item of a session has the texts that the   *)
(* parser found in it, "" for none: prompt and response of an explicit     *)
(* turn, or a role with a content.                                         *)
(***************************************************************************)

Unsaid == ""

\* parseExplicitTurn, inferRole, extractRoleContent: what an item is taken for.
KindOf(item) ==
  IF item.prompt # Unsaid \/ item.response # Unsaid THEN "turn"
  ELSE IF item.role = Undefined \/ item.content = Unsaid THEN "noise"
  ELSE item.role

Turn(prompt, response) == [prompt |-> prompt, response |-> response]

Flush(acc) ==
  IF acc.pending = Unsaid THEN acc.turns ELSE Append(acc.turns, Turn(acc.pending, Unsaid))

\* One item of the loop of parseCopilotSession.  An explicit turn forgets the
\* prompt that waits for its answer.
ParseItem(acc, item) ==
  CASE KindOf(item) = "turn" ->
         [turns |-> Append(acc.turns, Turn(item.prompt, item.response)), pending |-> Unsaid]
    [] KindOf(item) = "user" -> [turns |-> Flush(acc), pending |-> item.content]
    [] KindOf(item) = "assistant" ->
         [turns |-> Append(acc.turns, Turn(acc.pending, item.content)), pending |-> Unsaid]
    [] OTHER -> acc

\* A prompt that nothing follows is forgotten.
ParseSessionMutant(items) ==
  FoldLeft(ParseItem, [turns |-> <<>>, pending |-> Unsaid], items).turns

\* parseCopilotSession
ParseSession(items) ==
  Flush(FoldLeft(ParseItem, [turns |-> <<>>, pending |-> Unsaid], items))

\* What the items say, in their order, but for a prompt an explicit turn follows
\* before anything else was said.
Said(items) ==
  LET heard == SelectSeq(items, LAMBDA i : KindOf(i) # "noise")
      dropped(n) == /\ KindOf(heard[n]) = "user" /\ n < Len(heard)
                    /\ KindOf(heard[n + 1]) = "turn"
      texts(n) == IF dropped(n) THEN <<>>
                  ELSE IF KindOf(heard[n]) = "turn" THEN <<heard[n].prompt, heard[n].response>>
                  ELSE <<heard[n].content>>
  IN  SelectSeq(FlattenSeq([n \in DOMAIN heard |-> texts(n)]), LAMBDA t : t # Unsaid)

\* What the turns say, in their order.
SaidBy(turns) ==
  SelectSeq(FlattenSeq([n \in DOMAIN turns |-> <<turns[n].prompt, turns[n].response>>]),
            LAMBDA t : t # Unsaid)

-----------------------------------------------------------------------------
(***************************************************************************)
(* An event log of a session: snapshots of all requests, and patches of    *)
(* one field of one of them.                                               *)
(***************************************************************************)

\* What a record says of one field of one request, or Undefined.
FieldIn(record, index, field) ==
  IF record.op = "snapshot"
  THEN IF index \in DOMAIN record.requests /\ field \in DOMAIN record.requests[index]
       THEN record.requests[index][field] ELSE Undefined
  ELSE IF record.index = index /\ record.field = field THEN record.value ELSE Undefined

\* extractItemsFromEventLog: a snapshot is laid over the requests known so far, a
\* patch sets one field, of a request that may not be known yet.
ReplayRecord(requests, record) ==
  IF record.op = "snapshot"
  THEN [i \in DOMAIN requests \cup DOMAIN record.requests |->
          IF i \notin DOMAIN record.requests THEN requests[i]
          ELSE IF i \notin DOMAIN requests THEN record.requests[i]
          ELSE record.requests[i] @@ requests[i]]
  ELSE (record.index :> ((record.field :> record.value) @@
           (IF record.index \in DOMAIN requests THEN requests[record.index] ELSE <<>>)))
       @@ requests

ReplayLog(records) == FoldLeft(ReplayRecord, <<>>, records)

\* The last record that speaks of a field decides.
LastWord(records, index, field) ==
  LET words == SelectSeq([n \in DOMAIN records |-> FieldIn(records[n], index, field)],
                         LAMBDA v : v # Undefined)
  IN  IF words = <<>> THEN Undefined ELSE Last(words)
=============================================================================
