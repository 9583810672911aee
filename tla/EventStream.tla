---------------------------- MODULE EventStream ----------------------------
(***************************************************************************)
(* The daemon's event stream: the agent bus and its ring of past deltas,   *)
(* the web socket server that replays and broadcasts them, its heartbeat,  *)
(* the clients that subscribe, and the closing of the daemon.              *)
(*                                                                         *)
(* A delta is its place in the order of emission, its project is kept in   *)
(* emitted.  What a socket has buffered is counted in deltas.              *)
(***************************************************************************)
EXTENDS Integers, FiniteSets, Sequences

CONSTANTS Client,       \* subscribers, each with one connection at a time
          Project,      \* projects of deltas; NoProject: a delta of none
          NoProject,
          RingSize,     \* deltas the bus keeps for replay
          ReplayLimit,  \* CORTEXA_STREAM_REPLAY_LIMIT
          MaxBuffered,  \* CORTEXA_STREAM_MAX_BUFFERED_BYTES
          MaxEvents     \* bound on the deltas

ASSUME EventStreamAssumption ==
  RingSize \in Nat \ {0} /\ ReplayLimit \in Nat \ {0} /\ MaxBuffered \in Nat /\ MaxEvents \in Nat

VARIABLES emitted,      \* the projects of all deltas, in order
          ring,         \* TypedAgentBus.history
          conn,         \* Client -> its connection
          server        \* what of the daemon is closed: a subset of {"stopping", "ws", "http"}

streamVars == <<emitted, ring, conn, server>>

Deltas == DOMAIN emitted

-----------------------------------------------------------------------------
\* peer: "none", "live", or "dead" (it answers nothing more and does not close);
\* alive: aliveMap; sent: the deltas handed to the socket; unread: those of them
\* the peer has not read; and as history pinged (a ping is unanswered), peak (the
\* most that was unread) and from (the deltas emitted before the connection).
Unconnected == [peer |-> "none", alive |-> FALSE, sent |-> <<>>, unread |-> 0,
                pinged |-> FALSE, cut |-> FALSE, peak |-> 0, from |-> 0]

Connected(c) == conn[c].peer # "none"

StreamInit ==
  /\ emitted = <<>> /\ ring = <<>> /\ server = {}
  /\ conn = [c \in Client |-> Unconnected]

\* The oldest of the ring in place of the newest.
ReplayMutant == SubSeq(ring, 1, IF Len(ring) > ReplayLimit THEN ReplayLimit ELSE Len(ring))

\* TypedAgentBus.replay.
Replay == SubSeq(ring, IF Len(ring) > ReplayLimit THEN Len(ring) - ReplayLimit + 1 ELSE 1, Len(ring))

\* The delta a socket is handed, unless too much is waiting in it.
Handed(k, delta) ==
  IF k.peer # "none" /\ k.unread <= MaxBuffered
  THEN [k EXCEPT !.sent = Append(@, delta), !.unread = @ + 1,
                 !.peak = IF k.unread + 1 > @ THEN k.unread + 1 ELSE @]
  ELSE k

\* A ring that is never trimmed.
EmitMutant(p) ==
  /\ Len(emitted) < MaxEvents
  /\ emitted' = Append(emitted, p) /\ ring' = Append(ring, Len(emitted) + 1)
  /\ conn' = [c \in Client |-> IF "ws" \in server THEN conn[c] ELSE Handed(conn[c], Len(emitted) + 1)]
  /\ UNCHANGED server

\* emitEvent and its listener: the ring, then every client.
Emit(p) ==
  LET delta == Len(emitted) + 1
      grown == Append(ring, delta)
  IN  /\ delta <= MaxEvents
      /\ emitted' = Append(emitted, p)
      /\ ring' = IF Len(grown) > RingSize THEN Tail(grown) ELSE grown
      /\ conn' = [c \in Client |-> IF "ws" \in server THEN conn[c] ELSE Handed(conn[c], delta)]
      /\ UNCHANGED server

\* A client's message: a well-formed delta is emitted to all, the sender included.
Inbound(c, p) == Connected(c) /\ conn[c].peer = "live" /\ Emit(p)

\* A connection: the hello, which counts in the buffer, and the replay, which is
\* sent whatever the buffer holds.
Connect(c) ==
  /\ ~Connected(c) /\ "stopping" \notin server
  /\ conn' = [conn EXCEPT ![c] = [Unconnected EXCEPT
                !.peer = "live", !.alive = TRUE, !.sent = Replay, !.unread = 1 + Len(Replay),
                !.peak = 1 + Len(Replay), !.from = Len(emitted)]]
  /\ UNCHANGED <<emitted, ring, server>>

Read(c) ==
  /\ conn[c].peer = "live" /\ conn[c].unread > 0
  /\ conn' = [conn EXCEPT ![c].unread = @ - 1]
  /\ UNCHANGED <<emitted, ring, server>>

Die(c) ==
  /\ conn[c].peer = "live"
  /\ conn' = [conn EXCEPT ![c].peer = "dead"]
  /\ UNCHANGED <<emitted, ring, server>>

\* The peer closes, and forgets what it has seen.
Leave(c) ==
  /\ conn[c].peer = "live"
  /\ conn' = [conn EXCEPT ![c] = Unconnected]
  /\ UNCHANGED <<emitted, ring, server>>

\* A beat that never gives a peer up.
BeatMutant(k) == IF k.peer = "none" THEN k ELSE [k EXCEPT !.alive = FALSE, !.pinged = TRUE]

\* One beat for one connection: a ping, or the end of one that did not answer the
\* last.
Beat(k) ==
  IF k.peer = "none" THEN k
  ELSE IF ~k.alive THEN [Unconnected EXCEPT !.cut = TRUE, !.pinged = k.pinged]
  ELSE [k EXCEPT !.alive = FALSE, !.pinged = TRUE]

Heartbeat ==
  /\ "ws" \notin server
  /\ conn' = [c \in Client |-> Beat(conn[c])]
  /\ UNCHANGED <<emitted, ring, server>>

Pong(c) ==
  /\ conn[c].peer = "live" /\ conn[c].pinged
  /\ conn' = [conn EXCEPT ![c].alive = TRUE, ![c].pinged = FALSE]
  /\ UNCHANGED <<emitted, ring, server>>

\* close: no new connections; the web socket server is closed when its last client
\* is gone, the HTTP server when its requests are.
Stop == /\ "stopping" \notin server /\ server' = server \cup {"stopping"}
        /\ UNCHANGED <<emitted, ring, conn>>

WsClosed == /\ "stopping" \in server /\ "ws" \notin server /\ ~\E c \in Client : Connected(c)
            /\ server' = server \cup {"ws"}
            /\ UNCHANGED <<emitted, ring, conn>>

HttpClosed == /\ "stopping" \in server /\ "http" \notin server
              /\ server' = server \cup {"http"}
              /\ UNCHANGED <<emitted, ring, conn>>

StreamNext ==
  \/ \E p \in Project \cup {NoProject} : Emit(p)
  \/ \E c \in Client, p \in Project \cup {NoProject} : Inbound(c, p)
  \/ \E c \in Client : Connect(c) \/ Read(c) \/ Die(c) \/ Leave(c) \/ Pong(c)
  \/ Heartbeat \/ Stop \/ WsClosed \/ HttpClosed

\* Timers fire; a server without clients closes; requests come to an end.
StreamFairness == WF_streamVars(Heartbeat) /\ WF_streamVars(WsClosed) /\ WF_streamVars(HttpClosed)

StreamSpec == StreamInit /\ [][StreamNext]_streamVars /\ StreamFairness

-----------------------------------------------------------------------------
(***************************************************************************)
(* Properties.                                                             *)
(***************************************************************************)
StreamTypeOK ==
  /\ emitted \in Seq(Project \cup {NoProject}) /\ Len(ring) <= RingSize
  /\ server \subseteq {"stopping", "ws", "http"}
  /\ \A c \in Client : conn[c].peer \in {"none", "live", "dead"} /\ conn[c].unread \in Nat

\* What a subscription hands on: deltas of its project and of none.
Heard(c, filter) == {d \in {conn[c].sent[i] : i \in DOMAIN conn[c].sent} : emitted[d] \in {filter, NoProject}}

\* Where a client's deltas begin, if it keeps up.
Begins(c) == LET backlog == IF ReplayLimit < RingSize THEN ReplayLimit ELSE RingSize
             IN  IF conn[c].from > backlog THEN conn[c].from - backlog + 1 ELSE 1

\* A client sees the deltas in order and each once; one that never had more than
\* the limit waiting in its socket has seen, from a backlog on, all of its project
\* without a gap; and only a client that left a ping unanswered is cut off
\* (onDelta, replay, the heartbeat of startWsServer).
StreamUnbroken ==
  \A c \in Client :
    /\ \A i, j \in DOMAIN conn[c].sent : i < j => conn[c].sent[i] < conn[c].sent[j]
    /\ (Connected(c) /\ conn[c].peak <= MaxBuffered) =>
         \A p \in Project :
           Heard(c, p) = {d \in Deltas : d >= Begins(c) /\ emitted[d] \in {p, NoProject}}
    /\ conn[c].cut => conn[c].pinged

\* A peer that died without closing is cut off, also while the daemon is closing,
\* so that it cannot keep the daemon from closing (the heartbeat, close).
DeadPeersAreCut == \A c \in Client : (conn[c].peer = "dead") ~> ~Connected(c)
=============================================================================
