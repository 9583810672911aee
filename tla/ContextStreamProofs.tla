------------------------ MODULE ContextStreamProofs ------------------------
(***************************************************************************)
(* Proofs about ContextStream, for any runtimes, files and clients, and    *)
(* whatever the limits: no event is left waiting, no suggestion outlives   *)
(* its time, the stream in the map is alive, and suggestions are neither   *)
(* too many nor, for one file, too close.                                  *)
(*                                                                         *)
(* The last two need Checked and Counted: what the checks found before the *)
(* compilation still holds when the compilation ends, because nothing else *)
(* of the runtime can make a suggestion meanwhile.                         *)
(***************************************************************************)
EXTENDS ContextStream, FiniteSetTheorems, SequenceTheorems, WellFoundedInduction, TLAPS

\* The event being compiled may still become a suggestion.
Checked ==
  \A r \in Runtime : busy[r] # Null =>
    seen[r][busy[r]] = Never \/ now - seen[r][busy[r]] >= Dedupe

\* The suggestions a stream counts were made one after the other, and there is room
\* for the one being compiled.
Log(w) ==
  /\ w \in Seq(Nat)
  /\ \A i \in DOMAIN w : w[i] <= now
  /\ \A i, j \in DOMAIN w : i <= j => w[i] <= w[j]
  /\ Len(w) <= MaxPerWindow

Counted ==
  \A r \in Runtime :
    /\ Log(window[r])
    /\ busy[r] # Null => Len(window[r]) < MaxPerWindow

IInv == TypeOK /\ NoLostWakeup /\ NoneOutlivesTtl /\ NoDeadStream /\ Checked /\ Counted

-----------------------------------------------------------------------------
\* A set of numbers has a least one.
LEMMA LeastNumber ==
  ASSUME NEW T, T \subseteq Nat, T # {}
  PROVE  \E i \in T : \A j \in T : i <= j
<1>. DEFINE R == {ss \in Nat \X Nat : ss[1] < ss[2]}
<1>1. OpToRel(<, Nat) = R
  BY Zenon DEF OpToRel
<1>2. IsWellFoundedOn(R, Nat)
  BY <1>1, NatLessThanWellFounded, Zenon
<1>. HIDE DEF R
<1>3. PICK i \in T : \A j \in T : ~(<<j, i>> \in R)
  BY <1>2, WFMin
<1>4. ASSUME NEW j \in T, j < i PROVE FALSE
  <2>1. <<j, i>> \in R
    BY <1>4 DEF R
  <2>. QED  BY <1>3, <2>1
<1>. QED  BY <1>4

\* Of suggestions made one after the other, those that are too old come first; the
\* others, which the filter keeps, are the suggestions within the window.
LEMMA RecentOnes ==
  ASSUME now \in Nat, NEW w, Log(w)
  PROVE  \E k \in 0 .. Len(w) :
           /\ Recent(w) = SubSeq(w, k + 1, Len(w))
           /\ \A i \in DOMAIN w : now - w[i] > Window <=> i <= k
<1>. DEFINE OldOnes(k) == \A i \in DOMAIN w : now - w[i] > Window <=> i <= k
            fresh == {i \in 1 .. Len(w) : now - w[i] <= Window}
<1>1. w \in Seq(Nat) /\ DOMAIN w = 1 .. Len(w) /\ Len(w) \in Nat
  BY DEF Log
<1>2. \A i \in 1 .. Len(w) : w[i] \in Nat
  BY <1>1
<1>3. \E k \in 0 .. Len(w) : OldOnes(k)
  <2>1. CASE fresh = {}
    <3>1. OldOnes(Len(w))
      BY <1>1, <1>2, <2>1, StreamAssumption
    <3>. HIDE DEF OldOnes
    <3>. QED  BY <1>1, <3>1
  <2>2. CASE fresh # {}
    <3>1. PICK m \in fresh : \A j \in fresh : m <= j
      <4>. HIDE DEF fresh
      <4>1. fresh \subseteq Nat
        BY DEF fresh
      <4>. QED  BY <2>2, <4>1, LeastNumber
    <3>2. m \in 1 .. Len(w) /\ now - w[m] <= Window
      BY <3>1
    <3>3. ASSUME NEW i \in 1 .. Len(w), i <= m - 1 PROVE now - w[i] > Window
      <4>1. i \notin fresh
        BY <3>1, <3>2, <3>3
      <4>. QED  BY <1>2, <3>3, <4>1, StreamAssumption
    <3>4. ASSUME NEW i \in 1 .. Len(w), ~(i <= m - 1) PROVE ~(now - w[i] > Window)
      <4>1. w[m] <= w[i]
        <5>1. m \in 1 .. Len(w) /\ i \in 1 .. Len(w) /\ m <= i
          BY <3>2, <3>4
        <5>. QED  BY <1>1, <5>1 DEF Log
      <4>. QED  BY <1>2, <3>2, <4>1, StreamAssumption
    <3>5. OldOnes(m - 1)
      BY <1>1, <3>3, <3>4
    <3>. HIDE DEF OldOnes
    <3>. QED  BY <1>1, <3>2, <3>5
  <2>. QED  BY <2>1, <2>2
<1>. DEFINE old == CHOOSE k \in 0 .. Len(w) : OldOnes(k)
<1>. HIDE DEF OldOnes
<1>4. old \in 0 .. Len(w) /\ OldOnes(old)
  BY <1>3
<1>5. Recent(w) = SubSeq(w, old + 1, Len(w))
  BY Zenon DEF Recent, OldOnes
<1>. HIDE DEF old
<1>. QED  BY <1>4, <1>5 DEF OldOnes

\* What the filter keeps was made one after the other too.
LEMMA RecentLog ==
  ASSUME now \in Nat, NEW w, Log(w) PROVE Log(Recent(w))
<1>1. PICK k \in 0 .. Len(w) : Recent(w) = SubSeq(w, k + 1, Len(w))
  BY RecentOnes
<1>2. w \in Seq(Nat) /\ DOMAIN w = 1 .. Len(w) /\ Len(w) \in Nat
  BY DEF Log
<1>. DEFINE u == SubSeq(w, k + 1, Len(w))
<1>3. /\ u \in Seq(Nat) /\ Len(u) = Len(w) - k /\ DOMAIN u = 1 .. Len(u)
      /\ \A i \in 1 .. Len(u) : u[i] = w[k + i]
  <2>1. \A i \in k + 1 .. Len(w) : w[i] \in Nat
    BY <1>2
  <2>2. /\ u \in Seq(Nat)
        /\ Len(u) = IF k + 1 <= Len(w) THEN Len(w) - (k + 1) + 1 ELSE 0
        /\ \A i \in 1 .. Len(w) - (k + 1) + 1 : u[i] = w[(k + 1) + (i - 1)]
    BY <1>2, <2>1, SubSeqProperties
  <2>. HIDE DEF u
  <2>3. Len(u) = Len(w) - k
    <3>1. \A n \in Nat : \A m \in 0 .. n :
            (IF m + 1 <= n THEN n - (m + 1) + 1 ELSE 0) = n - m
      OBVIOUS
    <3>. QED  BY <1>2, <2>2, <3>1, Zenon
  <2>4. \A i \in 1 .. Len(u) : (k + 1) + (i - 1) = k + i
    BY <1>2, <2>3
  <2>5. Len(w) - (k + 1) + 1 = Len(u)
    BY <1>2, <2>3
  <2>. QED  BY <2>2, <2>3, <2>4, <2>5
<1>. HIDE DEF u
<1>4. ASSUME NEW i \in 1 .. Len(u) PROVE k + i \in DOMAIN w /\ u[i] = w[k + i]
  BY <1>2, <1>3, <1>4
<1>5. \A i \in DOMAIN u : u[i] <= now
  BY <1>3, <1>4 DEF Log
<1>6. ASSUME NEW i \in DOMAIN u, NEW j \in DOMAIN u, i <= j PROVE u[i] <= u[j]
  <2>1. k + i <= k + j
    BY <1>2, <1>3, <1>6
  <2>. QED  BY <1>3, <1>4, <2>1 DEF Log
<1>7. Len(u) <= MaxPerWindow
  BY <1>2, <1>3, StreamAssumption DEF Log
<1>. QED  BY <1>1, <1>3, <1>5, <1>6, <1>7 DEF Log, u

\* A suggestion for which there is room is the last to have been made.
LEMMA SuggestedLog ==
  ASSUME now \in Nat, NEW u, Log(u), Len(u) < MaxPerWindow
  PROVE  Log(Append(u, now))
<1>. DEFINE w == Append(u, now)
            n == Len(u)
<1>1. u \in Seq(Nat) /\ n \in Nat /\ DOMAIN u = 1 .. n
  BY DEF Log
<1>2. /\ w \in Seq(Nat) /\ Len(w) = n + 1 /\ DOMAIN w = 1 .. n + 1
      /\ w[n + 1] = now /\ \A i \in 1 .. n : w[i] = u[i]
  BY <1>1
<1>3. n + 1 <= MaxPerWindow
  BY <1>1, StreamAssumption
<1>. HIDE DEF w, n
<1>4. ASSUME NEW i \in 1 .. n + 1 PROVE i = n + 1 \/ i \in DOMAIN u
  BY <1>1
<1>5. \A i \in 1 .. n + 1 : w[i] <= now
  BY <1>1, <1>2, <1>4 DEF Log
<1>6. ASSUME NEW i \in 1 .. n + 1, NEW j \in 1 .. n + 1, i <= j PROVE w[i] <= w[j]
  <2>1. CASE j = n + 1
    BY <1>2, <1>5, <2>1
  <2>2. CASE j \in 1 .. n
    <3>1. i \in 1 .. n
      BY <1>1, <1>6, <2>2
    <3>. QED  BY <1>1, <1>2, <1>6, <2>2, <3>1 DEF Log
  <2>. QED  BY <1>1, <1>4, <2>1, <2>2
<1>. QED  BY <1>2, <1>3, <1>5, <1>6 DEF Log, w

-----------------------------------------------------------------------------
\* Taking events off a queue empties it or leaves a compilation in progress, of
\* an event both checks have let by; other runtimes are left alone.
LEMMA Taken ==
  ASSUME TypeOK, NEW r \in Runtime, NEW armed \in BOOLEAN, NEW loose \in Nat,
         NEW w, Log(w), NEW s, Take(r, armed, loose, w, s)
  PROVE  /\ queue' \in [Runtime -> Seq(File)]
         /\ busy' \in [Runtime -> File \cup {Null}]
         /\ timer' \in [Runtime -> BOOLEAN] /\ orphans' \in [Runtime -> Nat]
         /\ queue'[r] # <<>> => busy'[r] # Null
         /\ busy'[r] # Null => s[busy'[r]] = Never \/ now - s[busy'[r]] >= Dedupe
         /\ window' \in [Runtime -> Seq(Nat)] /\ Log(window'[r])
         /\ busy'[r] # Null => Len(window'[r]) < MaxPerWindow
         /\ \A q \in Runtime \ {r} :
              /\ queue'[q] = queue[q] /\ busy'[q] = busy[q] /\ window'[q] = window[q]
              /\ timer'[q] = timer[q] /\ orphans'[q] = orphans[q]
<1>1. PICK k \in 0 .. Len(queue[r]) :
        LET rest == SubSeq(queue[r], k + 1, Len(queue[r]))
        IN  /\ \/ /\ rest = <<>>
                  /\ queue' = [queue EXCEPT ![r] = <<>>]
                  /\ busy' = [busy EXCEPT ![r] = Null]
                  /\ window' = [window EXCEPT ![r] = w]
               \/ /\ rest # <<>>
                  /\ Passes(r, rest[1], w, s)
                  /\ queue' = [queue EXCEPT ![r] = Tail(rest)]
                  /\ busy' = [busy EXCEPT ![r] = rest[1]]
                  /\ window' = [window EXCEPT ![r] = Recent(w)]
            /\ timer' = [timer EXCEPT ![r] = armed /\ queue[r] = <<>>]
            /\ orphans' = [orphans EXCEPT ![r] =
                             loose + IF armed /\ queue[r] # <<>> THEN 1 ELSE 0]
  BY DEF Take
<1>. DEFINE rest == SubSeq(queue[r], k + 1, Len(queue[r]))
<1>2. rest \in Seq(File)
  BY DEF TypeOK
<1>3. timer' \in [Runtime -> BOOLEAN] /\ orphans' \in [Runtime -> Nat]
  BY <1>1 DEF TypeOK
<1>4. \A q \in Runtime \ {r} : timer'[q] = timer[q] /\ orphans'[q] = orphans[q]
  BY <1>1 DEF TypeOK
<1>5. w \in Seq(Nat) /\ Log(Recent(w)) /\ Recent(w) \in Seq(Nat)
  BY RecentLog DEF TypeOK, Log
<1>6. CASE /\ queue' = [queue EXCEPT ![r] = <<>>]
           /\ busy' = [busy EXCEPT ![r] = Null]
           /\ window' = [window EXCEPT ![r] = w]
  <2>1. /\ window' \in [Runtime -> Seq(Nat)] /\ window'[r] = w
        /\ \A q \in Runtime \ {r} : window'[q] = window[q]
    BY <1>5, <1>6 DEF TypeOK
  <2>. QED  BY <1>3, <1>4, <1>6, <2>1 DEF TypeOK
<1>7. CASE /\ rest # <<>>
           /\ Passes(r, rest[1], w, s)
           /\ queue' = [queue EXCEPT ![r] = Tail(rest)]
           /\ busy' = [busy EXCEPT ![r] = rest[1]]
           /\ window' = [window EXCEPT ![r] = Recent(w)]
  <2>1. rest[1] \in File /\ Tail(rest) \in Seq(File)
    BY <1>2, <1>7
  <2>. HIDE DEF rest
  <2>2. rest[1] # Null
    BY <2>1, StreamAssumption
  <2>3. /\ s[rest[1]] = Never \/ now - s[rest[1]] >= Dedupe
        /\ Len(Recent(w)) < MaxPerWindow
    BY <1>7 DEF Passes
  <2>4. /\ window' \in [Runtime -> Seq(Nat)] /\ window'[r] = Recent(w)
        /\ \A q \in Runtime \ {r} : window'[q] = window[q]
    BY <1>5, <1>7 DEF TypeOK
  <2>. QED  BY <1>3, <1>4, <1>5, <1>7, <2>1, <2>2, <2>3, <2>4 DEF TypeOK
<1>. QED  BY <1>1, <1>6, <1>7

-----------------------------------------------------------------------------
\* No stream, no request, nothing to wait for.
LEMMA StreamInit == Init => IInv
<1>. SUFFICES ASSUME Init PROVE IInv
  OBVIOUS
<1>1. TypeOK
  BY DEF Init, TypeOK, Never
<1>2. NoLostWakeup /\ NoneOutlivesTtl /\ NoDeadStream /\ Checked
  BY DEF Init, NoLostWakeup, NoneOutlivesTtl, NoDeadStream, Checked
<1>3. Counted
  BY StreamAssumption DEF Init, Counted, Log
<1>. QED  BY <1>1, <1>2, <1>3 DEF IInv

\* As time passes an event that is not a duplicate does not become one.
LEMMA TickStep == ASSUME IInv, Tick PROVE IInv'
<1>1. now' = now + 1 /\ UNCHANGED <<events, life, work, memo>>
  BY DEF Tick
<1>2. TypeOK'
  BY <1>1 DEF IInv, TypeOK, life, work, memo
<1>3. Checked'
  <2>1. \A r \in Runtime : busy[r] # Null => seen[r][busy[r]] \in Nat \cup {Never}
    BY DEF IInv, TypeOK
  <2>. QED
    BY <1>1, <2>1, StreamAssumption DEF IInv, TypeOK, Checked, work, memo, Never
<1>4. NoLostWakeup' /\ NoneOutlivesTtl' /\ NoDeadStream'
  BY <1>1 DEF IInv, NoLostWakeup, NoneOutlivesTtl, NoDeadStream, Waiting, life, work, memo
<1>5. Counted'
  <2>1. \A r \in Runtime : \A i \in DOMAIN window[r] : window[r][i] <= now + 1
    BY DEF IInv, TypeOK, Counted, Log
  <2>. QED  BY <1>1, <2>1 DEF IInv, Counted, Log, work, memo
<1>. QED  BY <1>2, <1>3, <1>4, <1>5 DEF IInv

\* A request that closes the stream's watcher takes its events and suggestions
\* away, and is the one that will take the stream out of the map.
LEMMA BeginStep ==
  ASSUME IInv, NEW c \in Client, NEW kind \in {"start", "stop"}, Begin(c, kind)
  PROVE  IInv'
<1>. DEFINE r == current
<1>1. /\ r \in Runtime
      /\ Shut(r)
      /\ op' = [op EXCEPT ![c] = <<kind, r>>]
      /\ UNCHANGED <<now, events, current>>
  BY DEF IInv, TypeOK, Begin
<1>2. TypeOK'
  <2>1. queue' \in [Runtime -> Seq(File)]
    BY <1>1 DEF IInv, TypeOK, Shut
  <2>2. active' \in [Runtime -> [File -> Nat \cup {Never}]]
    BY <1>1 DEF IInv, TypeOK, Shut
  <2>3. op' \in [Client -> {<<"idle", Null>>, <<"create", Null>>}
                           \cup ({"start", "stop"} \X Runtime)]
    BY <1>1 DEF IInv, TypeOK
  <2>. QED  BY <1>1, <2>1, <2>2, <2>3 DEF IInv, TypeOK, Shut
<1>3. NoLostWakeup'
  BY <1>1 DEF IInv, TypeOK, NoLostWakeup, Shut
<1>4. NoneOutlivesTtl'
  <2>. SUFFICES ASSUME NEW q \in Runtime, NEW f \in File, active'[q][f] # Never
                PROVE  \E e \in expiries' : e.runtime = q /\ e.file = f /\ e.due <= active'[q][f]
    BY DEF NoneOutlivesTtl
  <2>1. q # r /\ active'[q][f] = active[q][f]
    BY <1>1 DEF IInv, TypeOK, Shut
  <2>2. PICK e \in expiries : e.runtime = q /\ e.file = f /\ e.due <= active[q][f]
    BY <2>1 DEF IInv, NoneOutlivesTtl
  <2>3. e \in expiries'
    BY <1>1, <2>1, <2>2 DEF Shut
  <2>. QED  BY <2>1, <2>2, <2>3
<1>5. NoDeadStream'
  <2>1. op'[c] = <<kind, r>>
    BY <1>1 DEF IInv, TypeOK
  <2>2. c \in Waiting(r)'
    BY <1>1, <2>1 DEF Waiting
  <2>. QED  BY <1>1, <2>2 DEF NoDeadStream
<1>6. Checked' /\ Counted'
  BY <1>1 DEF IInv, Checked, Counted, Log, Shut
<1>. QED  BY <1>2, <1>3, <1>4, <1>5, <1>6 DEF IInv

\* A new stream is alive.
LEMMA OpenStep ==
  ASSUME IInv, NEW c \in Client, NEW r \in Runtime, StartFresh(c, r) \/ Create(c, r)
  PROVE  IInv'
<1>1. Open(r) /\ UNCHANGED <<now, events, work, memo>>
  BY DEF StartFresh, Create
<1>2. op' = op \/ op' = [op EXCEPT ![c] = <<"idle", Null>>]
  BY DEF StartFresh, Create
<1>3. op' \in [Client -> {<<"idle", Null>>, <<"create", Null>>}
                         \cup ({"start", "stop"} \X Runtime)]
  BY <1>2 DEF IInv, TypeOK
<1>4. TypeOK'
  BY <1>1, <1>3 DEF IInv, TypeOK, Open, work, memo
<1>5. NoDeadStream'
  BY <1>1 DEF IInv, TypeOK, NoDeadStream, Open
<1>6. NoLostWakeup' /\ NoneOutlivesTtl' /\ Checked' /\ Counted'
  BY <1>1 DEF IInv, NoLostWakeup, NoneOutlivesTtl, Checked, Counted, Log, work, memo
<1>. QED  BY <1>4, <1>5, <1>6 DEF IInv

\* Once the watcher has answered, no stream is in the map.
LEMMA ClosedStep == ASSUME IInv, NEW r \in Runtime, Closed(r) PROVE IInv'
<1>1. /\ current' = Null
      /\ op' = [c \in Client |-> IF c \notin Waiting(r) THEN op[c]
                                 ELSE IF op[c][1] = "start" THEN <<"create", Null>>
                                 ELSE <<"idle", Null>>]
      /\ UNCHANGED <<now, events, watch, work, memo>>
  BY DEF Closed
<1>2. op' \in [Client -> {<<"idle", Null>>, <<"create", Null>>}
                         \cup ({"start", "stop"} \X Runtime)]
  BY <1>1 DEF IInv, TypeOK
<1>3. TypeOK'
  BY <1>1, <1>2 DEF IInv, TypeOK, work, memo
<1>4. NoLostWakeup' /\ NoneOutlivesTtl' /\ NoDeadStream' /\ Checked' /\ Counted'
  BY <1>1 DEF IInv, NoLostWakeup, NoneOutlivesTtl, NoDeadStream, Checked, Counted, Log,
              work, memo
<1>. QED  BY <1>3, <1>4 DEF IInv

\* A file event arms the debounce of the runtime it is queued in.
LEMMA EventStep ==
  ASSUME IInv, NEW r \in Runtime, NEW f \in File, WatcherEvent(r, f) PROVE IInv'
<1>1. /\ queue' = IF current = Null THEN queue
                  ELSE [queue EXCEPT ![current] = Append(@, f)]
      /\ timer' = IF current = Null THEN timer ELSE [timer EXCEPT ![current] = TRUE]
      /\ UNCHANGED <<now, life, busy, orphans, memo>>
  BY DEF WatcherEvent
<1>2. TypeOK'
  <2>0. events' \in Nat
    BY DEF IInv, TypeOK, WatcherEvent
  <2>1. CASE current = Null
    BY <1>1, <2>0, <2>1 DEF IInv, TypeOK, life, memo
  <2>2. CASE current \in Runtime
    <3>1. Append(queue[current], f) \in Seq(File)
      BY <2>2 DEF IInv, TypeOK
    <3>2. queue' \in [Runtime -> Seq(File)] /\ timer' \in [Runtime -> BOOLEAN]
      BY <1>1, <2>2, <3>1, StreamAssumption DEF IInv, TypeOK
    <3>. QED  BY <1>1, <2>0, <3>2 DEF IInv, TypeOK, life, memo
  <2>. QED  BY <2>1, <2>2 DEF IInv, TypeOK
<1>3. NoLostWakeup'
  BY <1>1 DEF IInv, TypeOK, NoLostWakeup
<1>4. NoneOutlivesTtl' /\ NoDeadStream' /\ Checked' /\ Counted'
  BY <1>1 DEF IInv, NoneOutlivesTtl, NoDeadStream, Waiting, Checked, Counted, Log, life,
              memo
<1>. QED  BY <1>2, <1>3, <1>4 DEF IInv

-----------------------------------------------------------------------------
\* A debounce timer that fires takes the queue up, or finds a compilation that will.
LEMMA DebouncedStep == ASSUME IInv, NEW r \in Runtime, Debounced(r) PROVE IInv'
<1>1. UNCHANGED <<now, events, life, seen, active, expiries>>
  BY DEF Debounced
<1>2. PICK armed \in BOOLEAN, loose \in Nat : Callback(r, armed, loose)
  <2>1. orphans[r] \in Nat /\ (orphans[r] > 0 => orphans[r] - 1 \in Nat)
    BY DEF IInv, TypeOK
  <2>2. timer[r] \in BOOLEAN
    BY DEF IInv, TypeOK
  <2>3. Callback(r, FALSE, orphans[r]) \/ (orphans[r] > 0 /\ Callback(r, timer[r], orphans[r] - 1))
    BY DEF Debounced
  <2>. QED  BY <2>1, <2>2, <2>3
<1>3. NoneOutlivesTtl' /\ NoDeadStream'
  BY <1>1 DEF IInv, NoneOutlivesTtl, NoDeadStream, Waiting, life
<1>4. CASE Take(r, armed, loose, window[r], seen[r])
  <2>. DEFINE s == seen[r]
  <2>1. Take(r, armed, loose, window[r], s) /\ Log(window[r])
    BY <1>4 DEF IInv, Counted
  <2>2. /\ queue' \in [Runtime -> Seq(File)]
        /\ busy' \in [Runtime -> File \cup {Null}]
        /\ timer' \in [Runtime -> BOOLEAN] /\ orphans' \in [Runtime -> Nat]
        /\ queue'[r] # <<>> => busy'[r] # Null
        /\ busy'[r] # Null => s[busy'[r]] = Never \/ now - s[busy'[r]] >= Dedupe
        /\ window' \in [Runtime -> Seq(Nat)] /\ Log(window'[r])
        /\ busy'[r] # Null => Len(window'[r]) < MaxPerWindow
        /\ \A q \in Runtime \ {r} :
             /\ queue'[q] = queue[q] /\ busy'[q] = busy[q] /\ window'[q] = window[q]
             /\ timer'[q] = timer[q] /\ orphans'[q] = orphans[q]
    BY <2>1, Taken DEF IInv
  <2>3. TypeOK'
    BY <1>1, <2>2 DEF IInv, TypeOK, life
  <2>4. NoLostWakeup'
    BY <2>2 DEF IInv, NoLostWakeup
  <2>5. Checked' /\ Counted'
    BY <1>1, <2>2 DEF IInv, Checked, Counted, Log
  <2>. QED  BY <1>3, <2>3, <2>4, <2>5 DEF IInv
<1>5. CASE /\ busy[r] # Null
           /\ timer' = [timer EXCEPT ![r] = armed]
           /\ orphans' = [orphans EXCEPT ![r] = loose]
           /\ UNCHANGED <<queue, busy, window>>
  <2>1. TypeOK'
    BY <1>1, <1>5 DEF IInv, TypeOK, life
  <2>2. NoLostWakeup'
    BY <1>5 DEF IInv, TypeOK, NoLostWakeup
  <2>3. Checked' /\ Counted'
    BY <1>1, <1>5 DEF IInv, Checked, Counted, Log
  <2>. QED  BY <1>3, <2>1, <2>2, <2>3 DEF IInv
<1>. QED  BY <1>2, <1>4, <1>5 DEF Callback

\* A compilation without a suggestion goes on to the next event.
LEMMA UnsuggestedStep == ASSUME IInv, NEW r \in Runtime, Unsuggested(r) PROVE IInv'
<1>1. /\ Take(r, timer[r], orphans[r], window[r], seen[r])
      /\ UNCHANGED <<now, events, life, seen, active, expiries>>
  BY DEF Unsuggested
<1>. DEFINE s == seen[r]
<1>2. /\ queue' \in [Runtime -> Seq(File)]
      /\ busy' \in [Runtime -> File \cup {Null}]
      /\ timer' \in [Runtime -> BOOLEAN] /\ orphans' \in [Runtime -> Nat]
      /\ queue'[r] # <<>> => busy'[r] # Null
      /\ busy'[r] # Null => s[busy'[r]] = Never \/ now - s[busy'[r]] >= Dedupe
      /\ window' \in [Runtime -> Seq(Nat)] /\ Log(window'[r])
      /\ busy'[r] # Null => Len(window'[r]) < MaxPerWindow
      /\ \A q \in Runtime \ {r} :
           /\ queue'[q] = queue[q] /\ busy'[q] = busy[q] /\ window'[q] = window[q]
           /\ timer'[q] = timer[q] /\ orphans'[q] = orphans[q]
  <2>1. timer[r] \in BOOLEAN /\ orphans[r] \in Nat /\ Log(window[r])
    BY DEF IInv, TypeOK, Counted
  <2>. QED  BY <1>1, <2>1, Taken DEF IInv
<1>3. TypeOK'
  BY <1>1, <1>2 DEF IInv, TypeOK, life
<1>4. NoLostWakeup'
  BY <1>2 DEF IInv, NoLostWakeup
<1>5. Checked' /\ Counted'
  BY <1>1, <1>2 DEF IInv, Checked, Counted, Log
<1>6. NoneOutlivesTtl' /\ NoDeadStream'
  BY <1>1 DEF IInv, NoneOutlivesTtl, NoDeadStream, Waiting, life
<1>. QED  BY <1>3, <1>4, <1>5, <1>6 DEF IInv

\* A suggestion has its own timer, and is a duplicate of none: the next event is
\* checked against it.
LEMMA SuggestedStep == ASSUME IInv, NEW r \in Runtime, Suggested(r) PROVE IInv'
<1>. DEFINE f == busy[r]
            s == [seen[r] EXCEPT ![f] = now]
            due == now + Ttl
            w == Append(window[r], now)
<1>1. /\ f # Null
      /\ seen' = [seen EXCEPT ![r][f] = now]
      /\ active' = [active EXCEPT ![r][f] = due]
      /\ expiries' = expiries \cup {[runtime |-> r, file |-> f, due |-> due]}
      /\ Take(r, timer[r], orphans[r], w, s)
      /\ UNCHANGED <<now, events, life>>
  BY DEF Suggested
<1>2. f \in File /\ due \in Nat
  BY <1>1, StreamAssumption DEF IInv, TypeOK
<1>3. /\ queue' \in [Runtime -> Seq(File)]
      /\ busy' \in [Runtime -> File \cup {Null}]
      /\ timer' \in [Runtime -> BOOLEAN] /\ orphans' \in [Runtime -> Nat]
      /\ queue'[r] # <<>> => busy'[r] # Null
      /\ busy'[r] # Null => s[busy'[r]] = Never \/ now - s[busy'[r]] >= Dedupe
      /\ window' \in [Runtime -> Seq(Nat)] /\ Log(window'[r])
      /\ busy'[r] # Null => Len(window'[r]) < MaxPerWindow
      /\ \A q \in Runtime \ {r} :
           /\ queue'[q] = queue[q] /\ busy'[q] = busy[q] /\ window'[q] = window[q]
           /\ timer'[q] = timer[q] /\ orphans'[q] = orphans[q]
  <2>1. timer[r] \in BOOLEAN /\ orphans[r] \in Nat
    BY DEF IInv, TypeOK
  <2>2. Log(w)
    <3>1. Log(window[r]) /\ Len(window[r]) < MaxPerWindow /\ now \in Nat
      BY <1>1 DEF IInv, TypeOK, Counted
    <3>. QED  BY <3>1, SuggestedLog
  <2>. HIDE DEF s, w
  <2>. QED  BY <1>1, <2>1, <2>2, Taken DEF IInv
<1>4. seen'[r] = s /\ \A q \in Runtime \ {r} : seen'[q] = seen[q]
  BY <1>1 DEF IInv, TypeOK
<1>. HIDE DEF s, f, due, w
<1>5. TypeOK'
  <2>1. seen' \in [Runtime -> [File -> Nat \cup {Never}]]
    BY <1>1, <1>2 DEF IInv, TypeOK
  <2>2. active' \in [Runtime -> [File -> Nat \cup {Never}]]
    BY <1>1, <1>2 DEF IInv, TypeOK
  <2>3. expiries' \subseteq Expiry
    BY <1>1, <1>2 DEF IInv, TypeOK, Expiry
  <2>. QED  BY <1>1, <1>3, <2>1, <2>2, <2>3 DEF IInv, TypeOK, life
<1>6. NoLostWakeup'
  BY <1>3 DEF IInv, NoLostWakeup
<1>7. Checked' /\ Counted'
  BY <1>1, <1>3, <1>4 DEF IInv, Checked, Counted, Log
<1>8. NoneOutlivesTtl'
  <2>. SUFFICES ASSUME NEW q \in Runtime, NEW g \in File, active'[q][g] # Never
                PROVE  \E e \in expiries' : e.runtime = q /\ e.file = g /\ e.due <= active'[q][g]
    BY DEF NoneOutlivesTtl
  <2>1. CASE q = r /\ g = f
    <3>1. active'[q][g] = due
      BY <1>1, <1>2, <2>1 DEF IInv, TypeOK
    <3>. DEFINE e == [runtime |-> r, file |-> f, due |-> due]
    <3>2. e \in expiries'
      BY <1>1
    <3>3. e.runtime = q /\ e.file = g /\ e.due <= active'[q][g]
      BY <1>2, <2>1, <3>1
    <3>. QED  BY <3>2, <3>3
  <2>2. CASE ~(q = r /\ g = f)
    <3>1. active'[q][g] = active[q][g]
      BY <1>1, <1>2, <2>2 DEF IInv, TypeOK
    <3>. QED  BY <1>1, <3>1 DEF IInv, NoneOutlivesTtl
  <2>. QED  BY <2>1, <2>2
<1>9. NoDeadStream'
  BY <1>1 DEF IInv, NoDeadStream, Waiting, life
<1>. QED  BY <1>5, <1>6, <1>7, <1>8, <1>9 DEF IInv

\* An expiry timer ends the suggestion of its hash, whichever it is.
LEMMA ExpireStep == ASSUME IInv, NEW e \in expiries, Expire(e) PROVE IInv'
<1>1. /\ expiries' = expiries \ {e}
      /\ active' = [active EXCEPT ![e.runtime][e.file] = Never]
      /\ UNCHANGED <<now, events, life, work, seen, window>>
  BY DEF Expire
<1>2. TypeOK'
  <2>1. active' \in [Runtime -> [File -> Nat \cup {Never}]]
    BY <1>1 DEF IInv, TypeOK
  <2>. QED  BY <1>1, <2>1 DEF IInv, TypeOK, life, work
<1>3. NoneOutlivesTtl'
  <2>. SUFFICES ASSUME NEW q \in Runtime, NEW g \in File, active'[q][g] # Never
                PROVE  \E d \in expiries' : d.runtime = q /\ d.file = g /\ d.due <= active'[q][g]
    BY DEF NoneOutlivesTtl
  <2>1. ~(e.runtime = q /\ e.file = g) /\ active'[q][g] = active[q][g]
    BY <1>1 DEF IInv, TypeOK
  <2>. QED  BY <1>1, <2>1 DEF IInv, NoneOutlivesTtl
<1>4. NoLostWakeup' /\ NoDeadStream' /\ Checked' /\ Counted'
  BY <1>1 DEF IInv, NoLostWakeup, NoDeadStream, Waiting, Checked, Counted, Log, life, work
<1>. QED  BY <1>2, <1>3, <1>4 DEF IInv

\* An acknowledged suggestion is no longer active; its timer stays.
LEMMA AckStep == ASSUME IInv, NEW f \in File, Ack(f) PROVE IInv'
<1>1. /\ current \in Runtime
      /\ active' = [active EXCEPT ![current][f] = Never]
      /\ UNCHANGED <<now, events, life, work, seen, window, expiries>>
  BY DEF IInv, TypeOK, Ack
<1>2. TypeOK'
  <2>1. active' \in [Runtime -> [File -> Nat \cup {Never}]]
    BY <1>1 DEF IInv, TypeOK
  <2>. QED  BY <1>1, <2>1 DEF IInv, TypeOK, life, work
<1>3. NoneOutlivesTtl'
  <2>1. \A q \in Runtime, g \in File :
          active'[q][g] = Never \/ active'[q][g] = active[q][g]
    BY <1>1 DEF IInv, TypeOK
  <2>. QED  BY <1>1, <2>1 DEF IInv, NoneOutlivesTtl
<1>4. NoLostWakeup' /\ NoDeadStream' /\ Checked' /\ Counted'
  BY <1>1 DEF IInv, NoLostWakeup, NoDeadStream, Waiting, Checked, Counted, Log, life, work
<1>. QED  BY <1>2, <1>3, <1>4 DEF IInv

\* Every step keeps the invariant.
LEMMA StreamNext == IInv /\ [Next]_vars => IInv'
<1>. SUFFICES ASSUME IInv, [Next]_vars PROVE IInv'
  OBVIOUS
<1>1. CASE UNCHANGED vars
  <2>1. TypeOK'
    BY <1>1 DEF IInv, TypeOK, vars, life, work, memo
  <2>2. NoLostWakeup' /\ NoneOutlivesTtl' /\ NoDeadStream' /\ Checked' /\ Counted'
    BY <1>1 DEF IInv, NoLostWakeup, NoneOutlivesTtl, NoDeadStream, Waiting, Checked,
                Counted, Log, vars, life, work, memo
  <2>. QED  BY <2>1, <2>2 DEF IInv
<1>2. ASSUME NEW c \in Client, StopAbsent(c) PROVE IInv'
  BY <1>1, <1>2 DEF StopAbsent
<1>. QED
  BY <1>1, <1>2, TickStep, BeginStep, OpenStep, ClosedStep, EventStep, DebouncedStep,
     UnsuggestedStep, SuggestedStep, ExpireStep, AckStep DEF Next

-----------------------------------------------------------------------------
\* The invariant holds in every reachable state.
LEMMA StreamInvariant == Spec => []IInv
  BY StreamInit, StreamNext, PTL DEF Spec

\* No wake-up is lost, for any clients, runtimes and files: what waits in a queue
\* will be taken up by a compilation in progress or an armed timer.
THEOREM NoWakeupLost == Spec => []NoLostWakeup
<1>1. IInv => NoLostWakeup
  BY DEF IInv
<1>. QED  BY <1>1, StreamInvariant, PTL

\* No suggestion outlives its expiresAt.
THEOREM SuggestionsExpire == Spec => []NoneOutlivesTtl
<1>1. IInv => NoneOutlivesTtl
  BY DEF IInv
<1>. QED  BY <1>1, StreamInvariant, PTL

\* The stream in the map is alive, however many starts and stops are in progress.
THEOREM StreamsAlive == Spec => []NoDeadStream
<1>1. IInv => NoDeadStream
  BY DEF IInv
<1>. QED  BY <1>1, StreamInvariant, PTL

\* The types are right, the expiry timers and the counted suggestions included.
THEOREM StreamTyped == Spec => []TypeOK
<1>1. IInv => TypeOK
  BY DEF IInv
<1>. QED  BY <1>1, StreamInvariant, PTL

\* A stream makes no more suggestions within any window than its limit, for any
\* window and limit, though a suggestion is counted only after its compilation.
THEOREM SuggestionsLimited == Spec => []RateLimited
<1>1. ASSUME IInv PROVE RateLimited
  <2>. SUFFICES ASSUME NEW r \in Runtime, NEW i \in DOMAIN window[r]
                PROVE  Cardinality({j \in 1 .. i : window[r][i] - window[r][j] <= Window})
                         <= MaxPerWindow
    BY DEF RateLimited
  <2>. DEFINE within == {j \in 1 .. i : window[r][i] - window[r][j] <= Window}
  <2>1. i \in Nat /\ i <= Len(window[r]) /\ Len(window[r]) <= MaxPerWindow
    BY <1>1 DEF IInv, Counted, Log
  <2>2. Len(window[r]) \in Nat
    BY <1>1 DEF IInv, Counted, Log
  <2>3. IsFiniteSet(1 .. i) /\ Cardinality(1 .. i) = i
    <3>1. /\ IsFiniteSet(1 .. i)
          /\ Cardinality(1 .. i) = IF 1 <= i THEN i - 1 + 1 ELSE 0
      BY <2>1, FS_Interval
    <3>. QED  BY <2>1, <3>1
  <2>4. within \subseteq 1 .. i
    OBVIOUS
  <2>. HIDE DEF within
  <2>5. Cardinality(within) \in Nat /\ Cardinality(within) <= i
    BY <2>3, <2>4, FS_Subset, FS_CardinalityType
  <2>6. Cardinality(within) <= MaxPerWindow
    BY <2>1, <2>2, <2>5, StreamAssumption
  <2>. QED  BY <2>6 DEF within
<1>. QED  BY <1>1, StreamInvariant, PTL

\* Suggestions of one stream for one file are the dedupe window apart.
THEOREM SuggestionsDeduplicated == Spec => Deduplicated
<1>. DEFINE Apart == \A r \in Runtime, f \in File :
                       seen'[r][f] # seen[r][f] /\ seen[r][f] # Never
                         => seen'[r][f] - seen[r][f] >= Dedupe
<1>1. ASSUME IInv, [Next]_vars PROVE [Apart]_vars
  <2>1. CASE seen' = seen
    BY <2>1
  <2>2. ASSUME NEW r \in Runtime, Suggested(r) PROVE Apart
    <3>1. /\ seen' = [seen EXCEPT ![r][busy[r]] = now]
          /\ busy[r] # Null /\ busy[r] \in File
      BY <1>1, <2>2 DEF IInv, TypeOK, Suggested
    <3>2. seen[r][busy[r]] = Never \/ now - seen[r][busy[r]] >= Dedupe
      BY <1>1, <3>1 DEF IInv, Checked
    <3>3. \A q \in Runtime, f \in File :
            seen'[q][f] = IF q = r /\ f = busy[r] THEN now ELSE seen[q][f]
      BY <1>1, <3>1 DEF IInv, TypeOK
    <3>. QED  BY <3>2, <3>3
  <2>3. seen' = seen \/ \E r \in Runtime : Suggested(r)
    BY <1>1 DEF Next, vars, memo, Tick, Begin, Shut, StopAbsent, StartFresh, Create, Closed,
                WatcherEvent, Debounced, Unsuggested, Expire, Ack
  <2>. QED  BY <2>1, <2>2, <2>3
<1>. QED  BY <1>1, StreamInvariant, PTL DEF Spec, Deduplicated
=============================================================================
