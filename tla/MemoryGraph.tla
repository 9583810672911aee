---------------------------- MODULE MemoryGraph ----------------------------
(***************************************************************************)
(* The graph of memories: indexMemoryGraph, which draws memories and their *)
(* history as nodes and edges in the database                              *)
(* (src/core/graph/memory.graph.indexer.ts), and the library's graph in    *)
(* memory with its traversal (src/packages/core/src/graph).                *)
(*                                                                         *)
(* A node is a pair of its class and what it stands for; an edge of the    *)
(* database is identified by its ends, type and scope, one of the library  *)
(* by its project, ends and type.  A traversal tells edges apart by ends   *)
(* and type only, so it follows one of those that projects have in common. *)
(***************************************************************************)
EXTENDS Integers, FiniteSets, Sequences, SequencesExt

CONSTANTS KeptId,       \* ids of memories
          Contents,     \* what a memory may be: [kind, session, files]
          NoSession,
          FileOrder,    \* the files, in the order memories name them
          ListLimit,    \* limit of listMemories
          SnapLimit,    \* snapshotLimit
          MaxLinks,     \* links of one chat turn to code: 12
          LastDay,      \* bound on the clock
          Vertex,       \* nodes of the library's graph
          LibraryEdge,  \* the edges it may get: [project, from, to, type, weight]
          WalkOptions,  \* options of traversals: [start, deepest, most, minWeight]
          MaxEdges      \* bound on its edges

ASSUME MemoryGraphAssumption ==
  /\ ListLimit \in Nat \ {0} /\ SnapLimit \in Nat \ {0} /\ MaxLinks \in Nat \ {0}
  /\ LastDay \in Nat /\ MaxEdges \in Nat
  /\ FileOrder \in Seq(UNION {c.files : c \in Contents})
  /\ \A c \in Contents : c.files \subseteq {FileOrder[i] : i \in DOMAIN FileOrder}
  /\ \A e \in LibraryEdge : e.weight \in Nat
  /\ \A o \in WalkOptions : /\ o.start \in Vertex /\ o.minWeight \in Int
                             /\ o.deepest \in Nat \ {0} /\ o.most \in Nat \ {0}

VARIABLES memories,     \* memories in use, last accessed first: [id, content, at]
          history,      \* memory_snapshots, newest first: [id, content, at, operation]
          now,          \* the day
          nodes,        \* graph_nodes: node -> [label, at]
          edges,        \* graph_edges
          indexed,      \* history: what the last run scanned, until something changes
          library,      \* GraphService.edges, in the map's order
          walk          \* the last traversal

graphVars == <<memories, history, now, nodes, edges, indexed, library, walk>>

-----------------------------------------------------------------------------
\* A finite set in a total order, given as its pairs: k - 1 members are before the k-th.
InOrder(set, order) ==
  [k \in 1..Cardinality(set) |-> CHOOSE x \in set : Cardinality({y \in set : <<y, x>> \in order}) = k - 1]

\* The entries of a list that are in set: Array.filter.
Filter(list, set) ==
  LET places == {i \in DOMAIN list : list[i] \in set}
      order  == InOrder(places, {p \in places \X places : p[1] < p[2]})
  IN  [k \in DOMAIN order |-> list[order[k]]]

MemoryRow == [id : KeptId, content : Contents, at : 0..LastDay]

SnapshotRow == [id : KeptId, content : Contents, at : 0..LastDay, operation : {"upsert", "delete"}]

-----------------------------------------------------------------------------
MemoryNode(id) == <<"memory", id>>
DayNode(d)     == <<"day", d>>
SessionNode(s) == <<"session", s>>

\* The scope leads with the relation, so that ids of different relations differ.
Edge(from, to, relation, rest) == [from |-> from, to |-> to, scope |-> <<relation, rest>>]

\* What is listed: the newest, of them those not before since.
Listed(limit, since) == Filter(SubSeq(memories, 1, IF Len(memories) < limit THEN Len(memories) ELSE limit),
                               {m \in MemoryRow : m.at >= since})

Snapshots(limit, since) ==
  LET recent == Filter(history, {s \in SnapshotRow : s.at >= since})
  IN  SubSeq(recent, 1, IF Len(recent) < limit THEN Len(recent) ELSE limit)

\* Edges of one memory to its day and its session.
MemoryEdges(m) ==
  {Edge(MemoryNode(m.id), DayNode(m.at), "memory_time_bucket", m.at)}
  \cup IF m.content.session = NoSession THEN {}
       ELSE {Edge(MemoryNode(m.id), SessionNode(m.content.session), "memory_session", m.id),
             Edge(SessionNode(m.content.session), DayNode(m.at), "session_time_bucket", m.at)}

\* Links of a chat turn: file by file in the order of its tags, and in a file the
\* code last accessed first, until MaxLinks are drawn.  Their count is part of the
\* edge's identity.  A target is the place of the file and that of the code memory.
Targets(list, m) ==
  {t \in (DOMAIN FileOrder) \X (DOMAIN list) :
     /\ list[t[2]].content.kind = "code_entity"
     /\ FileOrder[t[1]] \in m.content.files \cap list[t[2]].content.files}

Sooner(s, t) == s[1] < t[1] \/ (s[1] = t[1] /\ s[2] < t[2])

ChatLinks(list, m) ==
  LET targets == Targets(list, m)
      order   == InOrder(targets, {p \in targets \X targets : Sooner(p[1], p[2])})
  IN  {Edge(MemoryNode(m.id), MemoryNode(list[order[k][2]].id), "chat_to_code", <<FileOrder[order[k][1]], k - 1>>) :
         k \in {j \in DOMAIN order : j <= MaxLinks}}

\* Edges of one snapshot.
SnapshotEdges(s) ==
  {Edge(DayNode(s.at), MemoryNode(s.id), "snapshot_event", <<s.at, s.operation>>)}
  \cup IF s.content.session = NoSession THEN {}
       ELSE {Edge(SessionNode(s.content.session), MemoryNode(s.id), "session_snapshot", s.at)}

\* The nodes that memories or snapshots are drawn as.
NodesOf(list) ==
  UNION {{MemoryNode(list[i].id), DayNode(list[i].at)}
           \cup (IF list[i].content.session = NoSession THEN {} ELSE {SessionNode(list[i].content.session)}) :
         i \in DOMAIN list}

\* upsertNode and upsertGraphRows: the last row of a memory gives its node the label;
\* days and sessions are their own label.
LabelNodes(before, list) ==
  LET last(k) == CHOOSE i \in DOMAIN list : /\ MemoryNode(list[i].id) = k
                                            /\ \A j \in DOMAIN list : j > i => MemoryNode(list[j].id) # k
  IN  [k \in DOMAIN before \cup NodesOf(list) |->
         IF k \notin NodesOf(list) THEN before[k]
         ELSE IF k[1] = "memory" THEN <<"memory", list[last(k)].content>> ELSE k]

NoIndex == [done |-> FALSE]

GraphInit ==
  /\ memories = <<>> /\ history = <<>> /\ now = 0
  /\ nodes = <<>> /\ edges = {} /\ indexed = NoIndex
  /\ library = <<>> /\ walk = NoIndex

\* upsertMemory and deleteMemory with their snapshots; a day holds one of each
\* memory, so that scopes tell them apart.
Without(id) == Filter(memories, {m \in MemoryRow : m.id # id})

\* The snapshot is dated a day ahead.
RememberMutant(id, content) ==
  /\ ~\E i \in DOMAIN history : history[i].id = id /\ history[i].at = now
  /\ memories' = <<[id |-> id, content |-> content, at |-> now]>> \o Without(id)
  /\ history' = <<[id |-> id, content |-> content, at |-> now + 1, operation |-> "upsert"]>> \o history
  /\ indexed' = NoIndex
  /\ UNCHANGED <<now, nodes, edges, library, walk>>

Remember(id, content) ==
  /\ ~\E i \in DOMAIN history : history[i].id = id /\ history[i].at = now
  /\ memories' = <<[id |-> id, content |-> content, at |-> now]>> \o Without(id)
  /\ history' = <<[id |-> id, content |-> content, at |-> now, operation |-> "upsert"]>> \o history
  /\ indexed' = NoIndex
  /\ UNCHANGED <<now, nodes, edges, library, walk>>

Forget(id) ==
  /\ ~\E i \in DOMAIN history : history[i].id = id /\ history[i].at = now
  /\ \E i \in DOMAIN memories :
       /\ memories[i].id = id
       /\ history' = <<[id |-> id, content |-> memories[i].content, at |-> now, operation |-> "delete"]>> \o history
  /\ memories' = Without(id)
  /\ indexed' = NoIndex
  /\ UNCHANGED <<now, nodes, edges, library, walk>>

NextGraphDay == /\ now < LastDay /\ now' = now + 1 /\ indexed' = NoIndex
                /\ UNCHANGED <<memories, history, nodes, edges, library, walk>>

\* indexMemoryGraph: nothing is ever taken from the tables.
IndexMemoryGraph(since) ==
  LET list  == Listed(ListLimit, since)
      snaps == Snapshots(SnapLimit, since)
      chats == {i \in DOMAIN list : list[i].content.kind = "chat_turn"}
  IN  /\ nodes' = LabelNodes(nodes, list \o snaps)
      /\ edges' = edges \cup (UNION {MemoryEdges(list[i]) : i \in DOMAIN list})
                        \cup (UNION {ChatLinks(list, list[i]) : i \in chats})
                        \cup (UNION {SnapshotEdges(snaps[i]) : i \in DOMAIN snaps})
      /\ indexed' = [done |-> TRUE, since |-> since, list |-> list]
      /\ UNCHANGED <<memories, history, now, library, walk>>

-----------------------------------------------------------------------------
(***************************************************************************)
(* The library's graph.                                                    *)
(***************************************************************************)
\* edgeKey of the service, and that of a traversal.
Key(e) == <<e.project, e.from, e.to, e.type>>

Route(e) == <<e.from, e.to, e.type>>

\* An edge with a known key takes the old one's place in the map.
AddEdge(e) ==
  /\ library' = IF \E i \in DOMAIN library : Key(library[i]) = Key(e)
                THEN [i \in DOMAIN library |-> IF Key(library[i]) = Key(e) THEN e ELSE library[i]]
                ELSE Append(library, e)
  /\ Len(library') <= MaxEdges
  /\ walk' = NoIndex
  /\ UNCHANGED <<memories, history, now, nodes, edges, indexed>>

RemoveNode(v) ==
  /\ library' = Filter(library, {e \in LibraryEdge : e.from # v /\ e.to # v})
  /\ walk' = NoIndex
  /\ UNCHANGED <<memories, history, now, nodes, edges, indexed>>

\* removeEdge: the edge of some id, if there is one.
RemoveEdge(i) ==
  /\ library' = RemoveAt(library, i)
  /\ walk' = NoIndex
  /\ UNCHANGED <<memories, history, now, nodes, edges, indexed>>

\* The edges of a node in the stable order of sort: the heaviest first.
Outgoing(v, minWeight) ==
  LET places == {i \in DOMAIN library : library[i].from = v /\ library[i].weight >= minWeight}
      order  == InOrder(places, {p \in places \X places :
                  \/ library[p[1]].weight > library[p[2]].weight
                  \/ library[p[1]].weight = library[p[2]].weight /\ p[1] < p[2]})
  IN  [k \in DOMAIN order |-> library[order[k]]]

\* The far end is queued as near as the node itself.
CrossMutant(s, e, depth, most) ==
  IF Len(s.out) >= most \/ \E i \in DOMAIN s.out : Route(s.out[i]) = Route(e) THEN s
  ELSE [queue   |-> IF e.to \in s.visited THEN s.queue ELSE Append(s.queue, [node |-> e.to, depth |-> depth]),
        visited |-> s.visited \cup {e.to},
        out     |-> Append(s.out, e)]

\* An edge met: one of its route is put out once, and its far end is queued at its first visit.
Cross(s, e, depth, most) ==
  IF Len(s.out) >= most \/ \E i \in DOMAIN s.out : Route(s.out[i]) = Route(e) THEN s
  ELSE [queue   |-> IF e.to \in s.visited THEN s.queue ELSE Append(s.queue, [node |-> e.to, depth |-> depth + 1]),
        visited |-> s.visited \cup {e.to},
        out     |-> Append(s.out, e)]

CrossAll(s, es, depth, most) ==
  LET crossed[n \in 0..Len(es)] == IF n = 0 THEN s ELSE Cross(crossed[n - 1], es[n], depth, most)
  IN  crossed[Len(es)]

\* One turn of the loop: the head of the queue is expanded unless it is too deep.
Expand(s, o) ==
  IF s.queue = <<>> \/ Len(s.out) >= o.most THEN s
  ELSE LET current == Head(s.queue)
           rest    == [s EXCEPT !.queue = Tail(@)]
       IN  IF current.depth >= o.deepest THEN rest
           ELSE CrossAll(rest, Outgoing(current.node, o.minWeight), current.depth, o.most)

\* traverseGraph: no node is queued twice, so as many turns as the start and the ends
\* of edges are enough.
TraverseGraph(o) ==
  LET begun == [queue |-> <<[node |-> o.start, depth |-> 0]>>, visited |-> {o.start}, out |-> <<>>]
      turn[n \in 0..Len(library) + 1] == IF n = 0 THEN begun ELSE Expand(turn[n - 1], o)
  IN  turn[Len(library) + 1]

ReachableFrom(o) ==
  /\ library # <<>>
  /\ walk' = [done |-> TRUE, options |-> o, out |-> TraverseGraph(o).out, visited |-> TraverseGraph(o).visited]
  /\ UNCHANGED <<memories, history, now, nodes, edges, indexed, library>>

LibraryNext ==
  \/ \E e \in LibraryEdge : AddEdge(e)
  \/ \E v \in Vertex : RemoveNode(v)
  \/ \E i \in DOMAIN library : RemoveEdge(i)
  \/ \E o \in WalkOptions : ReachableFrom(o)

IndexerNext ==
  \/ \E id \in KeptId, content \in Contents : Remember(id, content)
  \/ \E id \in KeptId : Forget(id)
  \/ NextGraphDay
  \/ \E since \in 0..now : IndexMemoryGraph(since)

GraphNext == IndexerNext \/ LibraryNext

GraphSpec == GraphInit /\ [][GraphNext]_graphVars

-----------------------------------------------------------------------------
(***************************************************************************)
(* Properties.                                                             *)
(***************************************************************************)
GraphTypeOK ==
  /\ memories \in Seq(MemoryRow) /\ history \in Seq(SnapshotRow) /\ library \in Seq(LibraryEdge)
  /\ now \in 0..LastDay
  /\ \A i \in DOMAIN memories : memories[i].at <= now
  /\ \A i \in DOMAIN history : history[i].at <= now

\* The tables are a graph: both ends of an edge are among the nodes, whatever
\* was written before and however little a run scans (graph_edges, graph_nodes
\* have no foreign key).
EdgesHaveEnds == \A e \in edges : e.from \in DOMAIN nodes /\ e.to \in DOMAIN nodes

\* A chat turn's memory has its link to a target, among the edges drawn.
LinkedTo(list, drawn, m, t) ==
  \E e \in drawn : /\ e.from = MemoryNode(m.id) /\ e.to = MemoryNode(list[t[2]].id)
                  /\ e.scope[1] = "chat_to_code" /\ e.scope[2][1] = FileOrder[t[1]]

\* After a run every memory it listed hangs at its day, one of a chat at its
\* session, which hangs at the same day; and a chat turn is linked to every listed
\* code memory of each of its files, unless as many as MaxLinks come before it and
\* are linked.
MemoriesAreLinked ==
  indexed.done =>
    \A i \in DOMAIN indexed.list :
      LET list == indexed.list
          m    == list[i]
      IN  /\ \E e \in edges : e.from = MemoryNode(m.id) /\ e.to = DayNode(m.at)
          /\ m.content.session # NoSession =>
               \E e, f \in edges : /\ e.from = MemoryNode(m.id) /\ e.to = SessionNode(m.content.session)
                                   /\ f.from = e.to /\ f.to = DayNode(m.at)
          /\ m.content.kind = "chat_turn" =>
               \A t \in Targets(list, m) :
                 \/ LinkedTo(list, edges, m, t)
                 \/ Cardinality({s \in Targets(list, m) : Sooner(s, t) /\ LinkedTo(list, edges, m, s)}) >= MaxLinks

\* Nodes at most d steps from the start over edges of list heavy enough.
Near(list, o) ==
  LET near[d \in 0..o.deepest] ==
        IF d = 0 THEN {o.start}
        ELSE near[d - 1] \cup {list[i].to : i \in {j \in DOMAIN list :
               list[j].from \in near[d - 1] /\ list[j].weight >= o.minWeight}}
  IN  near

\* A traversal gives of each route within its depth one edge, the heaviest whatever
\* its project, the nearer before the farther, and stops short of all routes only at
\* its limit; the nodes are the start and what its edges lead to.
TraversalExact ==
  walk.done =>
    LET o     == walk.options
        out   == walk.out
        within == {library[i] : i \in {j \in DOMAIN library :
                     library[j].from \in Near(library, o)[o.deepest - 1] /\ library[j].weight >= o.minWeight}}
        given == {out[i] : i \in DOMAIN out}
    IN  /\ \A i, j \in DOMAIN out : Route(out[i]) = Route(out[j]) => i = j
        /\ Len(out) <= o.most
        /\ given \subseteq within
        /\ \A e \in given, h \in within : Route(h) = Route(e) => h.weight <= e.weight
        /\ Len(out) < o.most => \A h \in within : \E e \in given : Route(e) = Route(h)
        /\ \A i, j \in DOMAIN out, d \in 0..o.deepest :
             i < j /\ out[j].from \in Near(library, o)[d] => out[i].from \in Near(library, o)[d]
        /\ walk.visited = {o.start} \cup {e.to : e \in given}

\* No edge of the library is there twice, whatever replaces another or is removed.
UniqueEdges == \A i, j \in DOMAIN library : Key(library[i]) = Key(library[j]) => i = j

GraphSound == EdgesHaveEnds /\ MemoriesAreLinked /\ TraversalExact /\ UniqueEdges

=============================================================================
