---------------------------- MODULE ContextStream ----------------------------
(***************************************************************************)
(* The daemon's live context streams (src/apps/daemon/src/context-stream,  *)
(* service.ts) for one project and branch: a watcher's file events are     *)
(* queued and debounced, taken one at a time through an awaited context    *)
(* compilation, and become suggestions that expire.  start replaces the    *)
(* stream of the key; start and stop both await the old watcher's close.   *)
(*                                                                         *)
(* A file stands for its suggestion hash.  A Runtime is one                *)
(* ContextStreamRuntime with its watcher; a new stream takes one not used  *)
(* before.  The watcher (chokidar) delivers nothing once it is told to     *)
(* close, and answers everyone who awaits its close at once; that its      *)
(* answers and what start does next are microtasks, which run before       *)
(* anything else, is Settled.                                              *)
(***************************************************************************)
EXTENDS Integers, Sequences, FiniteSets

CONSTANTS Runtime, File, Client, Null,
          Ttl, Dedupe, Window, \* suggestionTtlMs, dedupeWindowMs, the 60 s of the rate
          MaxPerWindow,        \* maxSuggestionsPerMinute
          MaxEvents,           \* bound on watcher events
          MaxTime              \* bound on the clock

ASSUME StreamAssumption ==
  /\ Null \notin Runtime \cup File
  /\ Ttl \in Nat /\ Dedupe \in Nat \ {0} /\ Window \in Nat
  /\ MaxPerWindow \in Nat \ {0} /\ MaxEvents \in Nat /\ MaxTime \in Nat

VARIABLES now,       \* Date.now()
          events,    \* watcher events so far
          current,   \* the runtime in the streams map under the key, or Null
          watch,     \* runtime -> its watcher: none, open, closed
          op,        \* client -> the start or stop it is in
          queue,     \* runtime -> pendingEvents
          busy,      \* runtime -> the event being compiled (processing), or Null
          timer,     \* runtime -> debounceTimer is armed
          orphans,   \* runtime -> armed debounce timers no field holds any more
          seen,      \* runtime -> file -> recentSuggestionHashes, -1 without entry
          window,    \* runtime -> recentSuggestionWindow
          active,    \* runtime -> file -> expiresAt of its active suggestion, -1 without
          expiries   \* expiry timers armed

life == <<current, watch, op>>
work == <<queue, busy, timer, orphans>>
memo == <<seen, window, active, expiries>>
vars == <<now, events, life, work, memo>>

Never == -1

Expiry == [runtime : Runtime, file : File, due : Nat]

TypeOK ==
  /\ now \in Nat /\ events \in Nat
  /\ current \in Runtime \cup {Null}
  /\ watch \in [Runtime -> {"none", "open", "closed"}]
  /\ op \in [Client -> {<<"idle", Null>>, <<"create", Null>>}
                       \cup ({"start", "stop"} \X Runtime)]
  /\ queue \in [Runtime -> Seq(File)]
  /\ busy \in [Runtime -> File \cup {Null}]
  /\ timer \in [Runtime -> BOOLEAN] /\ orphans \in [Runtime -> Nat]
  /\ seen \in [Runtime -> [File -> Nat \cup {Never}]]
  /\ window \in [Runtime -> Seq(Nat)]
  /\ active \in [Runtime -> [File -> Nat \cup {Never}]]
  /\ expiries \subseteq Expiry

Init ==
  /\ now = 1 /\ events = 0
  /\ current = Null
  /\ watch = [r \in Runtime |-> "none"]
  /\ op = [c \in Client |-> <<"idle", Null>>]
  /\ queue = [r \in Runtime |-> <<>>]
  /\ busy = [r \in Runtime |-> Null]
  /\ timer = [r \in Runtime |-> FALSE] /\ orphans = [r \in Runtime |-> 0]
  /\ seen = [r \in Runtime |-> [f \in File |-> Never]]
  /\ window = [r \in Runtime |-> <<>>]
  /\ active = [r \in Runtime |-> [f \in File |-> Never]]
  /\ expiries = {}

Settled == \A c \in Client : op[c][1] # "create"

Tick ==
  /\ Settled
  /\ now < MaxTime
  /\ now' = now + 1
  /\ UNCHANGED <<events, life, work, memo>>

-----------------------------------------------------------------------------
(***************************************************************************)
(* start and stop                                                          *)
(***************************************************************************)

\* stop up to its await: the timers the stream still knows are cleared.
Shut(r) ==
  /\ watch' = [watch EXCEPT ![r] = "closed"]
  /\ queue' = [queue EXCEPT ![r] = <<>>]
  /\ timer' = [timer EXCEPT ![r] = FALSE]
  /\ active' = [active EXCEPT ![r] = [f \in File |-> Never]]
  /\ expiries' = {e \in expiries : e.runtime # r \/ e.due # active[r][e.file]}
  /\ UNCHANGED <<busy, orphans, seen, window>>

\* A new runtime goes into the map.
Open(r) ==
  /\ watch[r] = "none"
  /\ watch' = [watch EXCEPT ![r] = "open"]
  /\ current' = r

\* The bound on runtimes leaves one for every start under way and one more.
Spare ==
  Cardinality({c \in Client : op[c][1] = "start"})
    < Cardinality({r \in Runtime : watch[r] = "none"})

\* start on a key without a stream has nothing to wait for.
StartFresh(c, r) ==
  /\ Settled /\ op[c][1] = "idle" /\ current = Null /\ Spare
  /\ Open(r)
  /\ UNCHANGED <<now, events, op, work, memo>>

\* stop on a key without a stream returns false.
StopAbsent(c) ==
  /\ Settled /\ op[c][1] = "idle" /\ current = Null
  /\ UNCHANGED vars

\* start or stop on a key with a stream.
Begin(c, kind) ==
  /\ Settled /\ op[c][1] = "idle" /\ current # Null
  /\ kind = "start" => Spare
  /\ Shut(current)
  /\ op' = [op EXCEPT ![c] = <<kind, current>>]
  /\ UNCHANGED <<now, events, current>>

Waiting(r) == {c \in Client : op[c] \in {<<"start", r>>, <<"stop", r>>}}

\* stop leaves the key in the map.
ClosedMutant(r) ==
  /\ Settled /\ Waiting(r) # {}
  /\ op' = [c \in Client |-> IF c \notin Waiting(r) THEN op[c]
                             ELSE IF op[c][1] = "start" THEN <<"create", Null>>
                             ELSE <<"idle", Null>>]
  /\ UNCHANGED <<now, events, current, watch, work, memo>>

\* The watcher answers, and whoever waited takes the key out of the map.
Closed(r) ==
  /\ Settled /\ Waiting(r) # {}
  /\ current' = Null
  /\ op' = [c \in Client |-> IF c \notin Waiting(r) THEN op[c]
                             ELSE IF op[c][1] = "start" THEN <<"create", Null>>
                             ELSE <<"idle", Null>>]
  /\ UNCHANGED <<now, events, watch, work, memo>>

\* start after its stop.
Create(c, r) ==
  /\ op[c][1] = "create"
  /\ Open(r)
  /\ op' = [op EXCEPT ![c] = <<"idle", Null>>]
  /\ UNCHANGED <<now, events, work, memo>>

-----------------------------------------------------------------------------
(***************************************************************************)
(* Events                                                                  *)
(***************************************************************************)

\* handleWatcherEvent, of any watcher of the key: the event goes to the runtime
\* in the map, whose debounce starts anew.
WatcherEvent(r, f) ==
  /\ Settled
  /\ watch[r] = "open" /\ events < MaxEvents
  /\ events' = events + 1
  /\ queue' = IF current = Null THEN queue
              ELSE [queue EXCEPT ![current] = Append(@, f)]
  /\ timer' = IF current = Null THEN timer ELSE [timer EXCEPT ![current] = TRUE]
  /\ UNCHANGED <<now, life, busy, orphans, memo>>

\* The suggestions still within the rate's window.  They were made one after the
\* other, so that those the filter drops come first.
Recent(w) ==
  LET old == CHOOSE k \in 0 .. Len(w) :
               \A i \in DOMAIN w : now - w[i] > Window <=> i <= k
  IN  SubSeq(w, old + 1, Len(w))

\* Without the duplicate check.
PassesMutant(r, f, w, s) == Len(Recent(w)) < MaxPerWindow

\* Without the rate limit.
PassesRateMutant(r, f, w, s) == s[f] = Never \/ now - s[f] >= Dedupe

\* The event is not suppressed: the rate limit and the duplicate check let it by.
Passes(r, f, w, s) ==
  /\ Len(Recent(w)) < MaxPerWindow
  /\ s[f] = Never \/ now - s[f] >= Dedupe

\* processQueuedEvents, and for suppressed events its own continuation: the first
\* k events are suppressed (for low confidence or risk, if for nothing else), the
\* next passes and is awaited.  The field forgets its timer, without clearing it.
Take(r, armed, loose, w, s) ==
  \E k \in 0 .. Len(queue[r]) :
    LET rest == SubSeq(queue[r], k + 1, Len(queue[r]))
    IN  /\ \/ /\ rest = <<>>
              /\ queue' = [queue EXCEPT ![r] = <<>>]
              /\ busy' = [busy EXCEPT ![r] = Null]
              /\ window' = [window EXCEPT ![r] = w]
           \/ /\ rest # <<>>
              /\ Passes(r, rest[1], w, s)
              /\ queue' = [queue EXCEPT ![r] = Tail(rest)]
              /\ busy' = [busy EXCEPT ![r] = rest[1]]
              /\ window' = [window EXCEPT ![r] = Recent(w)]
        /\ timer' = [timer EXCEPT ![r] = armed /\ queue[r] = <<>>]
        /\ orphans' = [orphans EXCEPT ![r] =
                         loose + IF armed /\ queue[r] # <<>> THEN 1 ELSE 0]

\* A debounce timer's callback; while an event is being compiled it does nothing.
Callback(r, armed, loose) ==
  \/ /\ busy[r] = Null
     /\ Take(r, armed, loose, window[r], seen[r])
  \/ /\ busy[r] # Null
     /\ timer' = [timer EXCEPT ![r] = armed]
     /\ orphans' = [orphans EXCEPT ![r] = loose]
     /\ UNCHANGED <<queue, busy, window>>

Debounced(r) ==
  /\ Settled
  /\ \/ timer[r] /\ Callback(r, FALSE, orphans[r])
     \/ orphans[r] > 0 /\ Callback(r, timer[r], orphans[r] - 1)
  /\ UNCHANGED <<now, events, life, seen, active, expiries>>

\* Without going on to the next event.
UnsuggestedMutant(r) ==
  /\ Settled /\ busy[r] # Null
  /\ busy' = [busy EXCEPT ![r] = Null]
  /\ UNCHANGED <<now, events, life, queue, timer, orphans, memo>>

\* After the compilation there is no context, or an error: on to the next event.
Unsuggested(r) ==
  /\ Settled /\ busy[r] # Null
  /\ Take(r, timer[r], orphans[r], window[r], seen[r])
  /\ UNCHANGED <<now, events, life, seen, active, expiries>>

\* Without the expiry timer.
SuggestedMutant(r) ==
  LET f == busy[r]
  IN  /\ Settled /\ f # Null
      /\ seen' = [seen EXCEPT ![r][f] = now]
      /\ active' = [active EXCEPT ![r][f] = now + Ttl]
      /\ Take(r, timer[r], orphans[r], Append(window[r], now),
              [seen[r] EXCEPT ![f] = now])
      /\ UNCHANGED <<now, events, life, expiries>>

\* There is context, whether or not the stream is still in the map: a suggestion,
\* remembered, active, with a timer of its own; on to the next event.
Suggested(r) ==
  LET f == busy[r]
  IN  /\ Settled /\ f # Null
      /\ seen' = [seen EXCEPT ![r][f] = now]
      /\ active' = [active EXCEPT ![r][f] = now + Ttl]
      /\ expiries' = expiries \cup {[runtime |-> r, file |-> f, due |-> now + Ttl]}
      /\ Take(r, timer[r], orphans[r], Append(window[r], now),
              [seen[r] EXCEPT ![f] = now])
      /\ UNCHANGED <<now, events, life>>

\* The entry is emptied, not deleted.
ExpireMutant(e) ==
  /\ Settled /\ e.due <= now
  /\ expiries' = expiries \ {e}
  /\ active' = [active EXCEPT ![e.runtime][e.file] = Null]
  /\ UNCHANGED <<now, events, life, work, seen, window>>

\* The expiry timer looks its suggestion up by hash.
Expire(e) ==
  /\ Settled /\ e.due <= now
  /\ expiries' = expiries \ {e}
  /\ active' = [active EXCEPT ![e.runtime][e.file] = Never]
  /\ UNCHANGED <<now, events, life, work, seen, window>>

\* ack with "applied" or "suppressed"; a plain "ack" changes nothing.
Ack(f) ==
  /\ Settled
  /\ current # Null /\ active[current][f] # Never
  /\ active' = [active EXCEPT ![current][f] = Never]
  /\ UNCHANGED <<now, events, life, work, seen, window, expiries>>

Next ==
  \/ Tick
  \/ \E c \in Client :
       \/ \E kind \in {"start", "stop"} : Begin(c, kind)
       \/ StopAbsent(c)
       \/ \E r \in Runtime : StartFresh(c, r) \/ Create(c, r)
  \/ \E r \in Runtime :
       \/ Closed(r) \/ Debounced(r) \/ Unsuggested(r) \/ Suggested(r)
       \/ \E f \in File : WatcherEvent(r, f)
  \/ \E e \in expiries : Expire(e)
  \/ \E f \in File : Ack(f)

Spec == Init /\ [][Next]_vars

\* Debounce timers fire, compileContext settles, and microtasks run.
FairSpec ==
  /\ Spec
  /\ \A r \in Runtime : WF_vars(Debounced(r)) /\ WF_vars(Unsuggested(r) \/ Suggested(r))
  /\ \A c \in Client : WF_vars(\E r \in Runtime : Create(c, r))

-----------------------------------------------------------------------------
\* No wake-up is lost: an event that waits has a compilation in progress, whose
\* end will take it, or a debounce timer armed - though timers are forgotten by
\* their field, fire during compilations for nothing, and are cleared by stop.
NoLostWakeup ==
  \A r \in Runtime :
    queue[r] # <<>> => busy[r] # Null \/ timer[r] \/ orphans[r] > 0

\* No suggestion outlives its expiresAt: its own timer or an older one of the same
\* hash is armed for that instant at the latest, also after acks, duplicates and a
\* suggestion made by a stream that has been stopped.
NoneOutlivesTtl ==
  \A r \in Runtime, f \in File :
    active[r][f] # Never =>
      \E e \in expiries : e.runtime = r /\ e.file = f /\ e.due <= active[r][f]

\* Suggestions of one stream for one file are the dedupe window apart, though the
\* check is made before the await and the suggestion after it.
Deduplicated ==
  [][\A r \in Runtime, f \in File :
       seen'[r][f] # seen[r][f] /\ seen[r][f] # Never
         => seen'[r][f] - seen[r][f] >= Dedupe]_vars

\* A stream makes no more suggestions within any window than its limit, though a
\* suggestion is counted only once its context is compiled.
RateLimited ==
  \A r \in Runtime : \A i \in DOMAIN window[r] :
    Cardinality({j \in 1 .. i : window[r][i] - window[r][j] <= Window}) <= MaxPerWindow

\* The stream that status lists is alive: its watcher is open, or someone who told
\* it to close is about to take it out.
NoDeadStream ==
  current # Null => watch[current] = "open" \/ Waiting(current) # {}

\* Every event that waits is taken up once file changes cease for a while.
QueueDrains == \A r \in Runtime : queue[r] # <<>> ~> queue[r] = <<>>

-----------------------------------------------------------------------------
(***************************************************************************)
(* What the repository's documents say and the code does not do.           *)
(***************************************************************************)

\* src/apps/daemon/src/routes/route-docs.ts:20, "/context/stream/stop", "Stop live
\* context stream watcher.": with no stream in the map and no request in progress,
\* no watcher of the key is left open.
StopStopsWatcher ==
  current = Null /\ (\A c \in Client : op[c][1] = "idle")
    => \A r \in Runtime : watch[r] # "open"
=============================================================================
