----------------------------- MODULE LiveProofs -----------------------------
(***************************************************************************)
(* Proofs about Live for every set of tabs and topics and every bound.     *)
(*                                                                         *)
(* The registry's promise is inductive as it stands.  That a quiet tab is  *)
(* fresh is not: it needs what ties a tab to the one handler that serves   *)
(* it, that a first chunk only comes once that handler listens, and, per   *)
(* topic, where the latest change is on its way: in the handler's queue,   *)
(* in a refetch that has not read yet, in one that has, or in the cache.   *)
(*                                                                         *)
(* After them, proofs about Lifecycle, the processes that serve the        *)
(* streams, for any number of processes and releases.                      *)
(***************************************************************************)
EXTENDS Live, Lifecycle, FiniteSetTheorems, TLAPS

\* A tab's row against the handlers S: an open tab is served by a handler of
\* its own that has not been told the tab is gone, and a first chunk came from
\* a handler that listens.
TabOK(row, t, S) ==
    /\ row.pc # "open" => row.stream = None /\ ~row.firstChunkSeen
    /\ row.pc = "open" =>
         /\ row.stream \in Streams /\ row.stream[1] = t
         /\ S[row.stream].pc # "free" /\ S[row.stream].ctx # "gone"
         /\ row.firstChunkSeen => S[row.stream].pc \in {"listening", "closing"}
    /\ row.pc \in {"open", "backoff"} => row.failures < MaxFailures

\* A handler that is not told otherwise serves the stream its tab has open.
ServesTab(s, x, T) ==
    x.pc # "free" /\ x.ctx # "gone" => T[s[1]].pc = "open" /\ T[s[1]].stream = s

Queued(q, k) == \E i \in 1..Len(q) : q[i] = k

\* The latest change of k is in the cache or on its way there.
Fresh(row, q, k, n) ==
    \/ Queued(q, k)
    \/ row.fetch[k] = Asked
    \/ row.fetch[k] = n
    \/ row.fetch[k] = NoFetch /\ row.cache[k] = n

FreshOK(row, S, D) ==
    /\ row.pc = "open" /\ row.firstChunkSeen
    /\ S[row.stream].pc = "listening" /\ S[row.stream].ctx = "live"
    => \A k \in Topics : Fresh(row, S[row.stream].notif, k, D[k])

LiveInv ==
    /\ TypeOK
    /\ RegistryNamesLive
    /\ \A t \in Tabs : TabOK(tab[t], t, stream)
    /\ \A s \in Streams : ServesTab(s, stream[s], tab)
    /\ \A t \in Tabs : FreshOK(tab[t], stream, db)
-----------------------------------------------------------------------------
(* Types, rows and queues                                                  *)

\* The types of the handlers' and the tabs' rows, one by one.
LEMMA Typed ==
    ASSUME TypeOK
    PROVE  /\ \A s \in Streams : /\ s[1] \in Tabs
                                 /\ stream[s] \in Stream
                                 /\ stream[s].notif \in Seq(Topics)
           /\ \A t \in Tabs : /\ tab[t] \in Tab
                              /\ tab[t].failures \in 0..MaxFailures
                              /\ tab[t].firstChunkSeen \in BOOLEAN
                              /\ tab[t].cache \in [Topics -> Nat]
                              /\ tab[t].fetch \in [Topics -> Int]
           /\ \A k \in Topics : db[k] \in Nat
<1>1. \A s \in Streams : s[1] \in Tabs
  BY Zenon DEF Streams
<1>2. \A s \in Streams : stream[s] \in Stream
  BY Zenon DEF TypeOK
<1>3. \A s \in Streams : stream[s].notif \in Seq(Topics)
  BY <1>2, Zenon DEF Stream
<1>4. \A t \in Tabs : tab[t] \in Tab
  BY Zenon DEF TypeOK
<1>5. \A t \in Tabs : /\ tab[t].failures \in 0..MaxFailures
                      /\ tab[t].firstChunkSeen \in BOOLEAN
                      /\ tab[t].cache \in [Topics -> Nat]
                      /\ tab[t].fetch \in [Topics -> Int]
  BY <1>4, Zenon DEF Tab
<1>6. \A k \in Topics : db[k] \in Nat
  BY Zenon DEF TypeOK
<1> QED
  BY <1>1, <1>2, <1>3, <1>4, <1>5, <1>6, Zenon

\* What Append, Head and Tail do to the topics in a queue.
LEMMA Queues ==
    ASSUME NEW q \in Seq(Topics), NEW k \in Topics
    PROVE  /\ Append(q, k) \in Seq(Topics)
           /\ Queued(Append(q, k), k)
           /\ \A j \in Topics : Queued(q, j) => Queued(Append(q, k), j)
           /\ q # <<>> => /\ Head(q) \in Topics /\ Tail(q) \in Seq(Topics)
                          /\ \A j \in Topics : Queued(q, j) => j = Head(q) \/ Queued(Tail(q), j)
           /\ ~Queued(<<>>, k)
<1>1. Len(q) \in Nat /\ Append(q, k) \in Seq(Topics) /\ Len(Append(q, k)) = Len(q) + 1
  OBVIOUS
<1>2. /\ Append(q, k)[Len(q) + 1] = k
      /\ \A i \in 1..Len(q) : Append(q, k)[i] = q[i]
  OBVIOUS
<1>3. Queued(Append(q, k), k)
  BY <1>1, <1>2 DEF Queued
<1>4. ASSUME NEW j \in Topics, Queued(q, j)
      PROVE  Queued(Append(q, k), j)
  <2>1. PICK i \in 1..Len(q) : q[i] = j
    BY <1>4, Zenon DEF Queued
  <2>2. i \in 1..Len(Append(q, k)) /\ Append(q, k)[i] = j
    BY <1>1, <1>2, <2>1
  <2> QED
    BY <2>2, Zenon DEF Queued
<1>5. ASSUME q # <<>>
      PROVE  /\ Head(q) \in Topics /\ Tail(q) \in Seq(Topics)
             /\ \A j \in Topics : Queued(q, j) => j = Head(q) \/ Queued(Tail(q), j)
  <2>1. /\ Head(q) \in Topics /\ Tail(q) \in Seq(Topics) /\ Head(q) = q[1]
        /\ Len(Tail(q)) = Len(q) - 1
        /\ \A i \in 1..Len(Tail(q)) : Tail(q)[i] = q[i + 1]
    BY <1>5
  <2>2. ASSUME NEW j \in Topics, Queued(q, j), j # Head(q)
        PROVE  Queued(Tail(q), j)
    <3>1. PICK i \in 1..Len(q) : q[i] = j
      BY <2>2, Zenon DEF Queued
    <3>2. i # 1
      BY <2>1, <2>2, <3>1, Zenon
    <3>3. i - 1 \in 1..Len(Tail(q)) /\ (i - 1) + 1 = i
      BY <1>1, <2>1, <3>1, <3>2
    <3>4. Tail(q)[i - 1] = j
      BY <2>1, <3>1, <3>3, Zenon
    <3> QED
      BY <3>3, <3>4, Zenon DEF Queued
  <2> QED
    BY <2>1, <2>2, Zenon
<1>6. ~Queued(<<>>, k)
  BY DEF Queued
<1> QED
  BY <1>1, <1>3, <1>4, <1>5, <1>6, Zenon

\* A handler's row with some fields set is one.
LEMMA StreamWith ==
    ASSUME NEW x \in Stream
    PROVE  /\ FreeStream \in Stream
           /\ \A pc \in {"free", "taken", "listening", "closing"} :
                [x EXCEPT !.pc = pc] \in Stream
           /\ \A pc \in {"free", "taken", "listening", "closing"}, q \in Seq(Topics) :
                [x EXCEPT !.pc = pc, !.notif = q] \in Stream
           /\ \A c \in {"live", "evicted", "gone"}, q \in Seq(Topics) :
                [x EXCEPT !.ctx = c, !.notif = q] \in Stream
           /\ \A q \in Seq(Topics) : [x EXCEPT !.notif = q] \in Stream
<1>1. FreeStream \in Stream
  BY DEF FreeStream, Stream
<1>2. \A pc \in {"free", "taken", "listening", "closing"} : [x EXCEPT !.pc = pc] \in Stream
  BY Zenon DEF Stream
<1>3. \A pc \in {"free", "taken", "listening", "closing"}, q \in Seq(Topics) :
        [x EXCEPT !.pc = pc, !.notif = q] \in Stream
  BY Zenon DEF Stream
<1>4. \A c \in {"live", "evicted", "gone"}, q \in Seq(Topics) :
        [x EXCEPT !.ctx = c, !.notif = q] \in Stream
  BY Zenon DEF Stream
<1>5. \A q \in Seq(Topics) : [x EXCEPT !.notif = q] \in Stream
  BY Zenon DEF Stream
<1> QED
  BY <1>1, <1>2, <1>3, <1>4, <1>5, Zenon

\* What a chunk about ks makes of the row x.
AfterChunk(x, y, ks) ==
    /\ y.pc = x.pc /\ y.stream = x.stream /\ y.cache = x.cache
    /\ y.failures = 0 /\ y.firstChunkSeen = TRUE
    /\ \A k \in Topics : \/ y.fetch[k] = Asked
                         \/ x.firstChunkSeen /\ k \notin ks /\ y.fetch[k] = x.fetch[k]

\* The topics of a chunk are asked for again, and all of them on the first.
LEMMA ChunkIs ==
    ASSUME NEW row \in Tab, NEW ks \in SUBSET Topics
    PROVE  Chunk(row, ks) \in Tab /\ AfterChunk(row, Chunk(row, ks), ks)
<1> DEFINE js == ks \cup (IF row.firstChunkSeen THEN {} ELSE Topics)
           f == [k \in Topics |-> IF k \in js THEN Asked ELSE row.fetch[k]]
           a == [row EXCEPT !.fetch = f]
           b == [a EXCEPT !.firstChunkSeen = TRUE, !.failures = 0]
<1>1. row.fetch \in [Topics -> Int] /\ MaxFailures \in Nat /\ Asked \in Int
  BY ConstantsAssumption DEF Tab, Asked
<1>2. f \in [Topics -> Int]
  BY <1>1, Zenon
<1>3. \A k \in Topics : f[k] = Asked \/ (row.firstChunkSeen /\ k \notin ks /\ f[k] = row.fetch[k])
  BY Zenon
<1>4. Chunk(row, ks) = b
  BY Zenon DEF Chunk, Invalidate
<1> HIDE DEF f
<1>5. a \in Tab /\ a.pc = row.pc /\ a.stream = row.stream /\ a.cache = row.cache /\ a.fetch = f
  BY <1>2, Zenon DEF Tab
<1> HIDE DEF a
<1>6. 0 \in 0..MaxFailures
  BY <1>1
<1>7. \A y \in Tab, c \in BOOLEAN, i \in 0..MaxFailures :
        [y EXCEPT !.firstChunkSeen = c, !.failures = i] \in Tab
  BY Zenon DEF Tab
<1>8. b \in Tab
  BY <1>5, <1>6, <1>7, Zenon
<1>9. /\ b.pc = row.pc /\ b.stream = row.stream /\ b.cache = row.cache /\ b.fetch = f
      /\ b.failures = 0 /\ b.firstChunkSeen = TRUE
  BY <1>5, Zenon DEF Tab
<1> HIDE DEF b
<1> QED
  <2>1. AfterChunk(row, b, ks)
    BY <1>3, <1>9, Zenon DEF AfterChunk
  <2> QED
    BY <1>4, <1>8, <2>1, Zenon

\* After the catch block the tab has no stream, and waits only if it may try again.
LEMMA FailedIs ==
    ASSUME NEW row \in Tab, row.failures < MaxFailures
    PROVE  /\ Failed(row) \in Tab
           /\ Failed(row).pc \in {"surrendered", "backoff"}
           /\ Failed(row).stream = None /\ Failed(row).firstChunkSeen = FALSE
           /\ Failed(row).pc = "backoff" => Failed(row).failures < MaxFailures
<1>1. row.failures \in 0..MaxFailures /\ MaxFailures \in Nat
  BY ConstantsAssumption, Zenon DEF Tab
<1>2. PICK n \in 0..MaxFailures : n = row.failures + 1
  BY <1>1
<1>3. PICK pc \in {"surrendered", "backoff"} :
        pc = IF row.failures + 1 >= MaxFailures THEN "surrendered" ELSE "backoff"
  BY Zenon
<1> DEFINE y == [row EXCEPT !.failures = n, !.stream = None, !.firstChunkSeen = FALSE, !.pc = pc]
<1>4. Failed(row) = y
  BY <1>2, <1>3, Zenon DEF Failed
<1>5. \A v \in {"surrendered", "backoff"}, c \in BOOLEAN, i \in 0..MaxFailures :
        [row EXCEPT !.failures = i, !.stream = None, !.firstChunkSeen = c, !.pc = v] \in Tab
  BY Zenon DEF Tab
<1>6. y \in Tab
  BY <1>2, <1>3, <1>5, Zenon
<1>7. y.pc = pc /\ y.stream = None /\ y.firstChunkSeen = FALSE /\ y.failures = n
  BY Zenon DEF Tab
<1> HIDE DEF y
<1> QED
  BY <1>1, <1>2, <1>3, <1>4, <1>6, <1>7

-----------------------------------------------------------------------------
(* Steps of a tab that leave the handlers alone, and the other way round   *)

\* A tab moves without opening or closing a stream.
LEMMA TabMoves ==
    ASSUME LiveInv, NEW t \in Tabs, NEW row \in Tab, tab' = [tab EXCEPT ![t] = row],
           TabOK(row, t, stream), FreshOK(row, stream, db),
           row.pc = "open" <=> tab[t].pc = "open", row.stream = tab[t].stream,
           UNCHANGED <<db, writing, active, stream>>
    PROVE  LiveInv'
<1>1. TypeOK /\ TypeOK'
  BY Zenon DEF LiveInv, TypeOK
<1>2. tab'[t] = row /\ \A u \in Tabs \ {t} : tab'[u] = tab[u]
  BY <1>1, Zenon DEF TypeOK
<1>3. RegistryNamesLive'
  BY Zenon DEF LiveInv, RegistryNamesLive, Running
<1>4. \A u \in Tabs : TabOK(tab'[u], u, stream)
  BY <1>2, Zenon DEF LiveInv
<1>5. \A s \in Streams : ServesTab(s, stream[s], tab')
  BY <1>1, <1>2, Typed DEF LiveInv, ServesTab
<1>6. \A u \in Tabs : FreshOK(tab'[u], stream, db)
  BY <1>2, Zenon DEF LiveInv
<1> QED
  BY <1>1, <1>3, <1>4, <1>5, <1>6, Zenon DEF LiveInv

\* A handler moves on: from waiting for a connection to listening, or to its
\* deferred calls.
LEMMA StreamMoves ==
    ASSUME LiveInv, NEW s \in Streams, NEW x \in Stream, stream' = [stream EXCEPT ![s] = x],
           Running(s), x.ctx = stream[s].ctx,
           x.pc = "closing" \/ (x.pc = "listening" /\ stream[s].pc = "taken"),
           UNCHANGED <<db, writing, active, tab>>
    PROVE  LiveInv'
<1>1. TypeOK /\ TypeOK'
  BY Zenon DEF LiveInv, TypeOK
<1>2. stream'[s] = x /\ \A z \in Streams \ {s} : stream'[z] = stream[z]
  BY <1>1, Zenon DEF TypeOK
<1>3. RegistryNamesLive'
  BY <1>2, Zenon DEF LiveInv, RegistryNamesLive, Running
<1>4. \A u \in Tabs : TabOK(tab[u], u, stream')
  BY <1>2 DEF LiveInv, TabOK, Running
<1>5. \A z \in Streams : ServesTab(z, stream'[z], tab)
  BY <1>2 DEF LiveInv, ServesTab, Running
<1>6. ASSUME NEW u \in Tabs
      PROVE  FreshOK(tab[u], stream', db)
  <2>1. TabOK(tab[u], u, stream) /\ FreshOK(tab[u], stream, db)
    BY Zenon DEF LiveInv
  <2>2. CASE tab[u].pc = "open" /\ tab[u].firstChunkSeen /\ tab[u].stream = s
    <3>1. stream[s].pc \in {"listening", "closing"}
      BY <2>1, <2>2, Zenon DEF TabOK
    <3> QED
      BY <1>2, <2>2, <3>1, Zenon DEF FreshOK
  <2>3. CASE tab[u].pc = "open" /\ tab[u].firstChunkSeen /\ tab[u].stream # s
    <3>1. tab[u].stream \in Streams
      BY <2>1, <2>3, Zenon DEF TabOK
    <3> QED
      BY <1>2, <2>1, <2>3, <3>1, Zenon DEF FreshOK
  <2>4. CASE ~(tab[u].pc = "open" /\ tab[u].firstChunkSeen)
    BY <2>4, Zenon DEF FreshOK
  <2> QED
    BY <2>2, <2>3, <2>4, Zenon
<1> QED
  BY <1>1, <1>3, <1>4, <1>5, <1>6, Zenon DEF LiveInv

\* A transaction begins or rolls back: nobody is told.
LEMMA QuietKeeps ==
    ASSUME LiveInv, writing' \in Topics \cup {None}, UNCHANGED <<db, active, stream, tab>>
    PROVE  LiveInv'
<1>1. TypeOK' /\ RegistryNamesLive'
  BY Zenon DEF LiveInv, TypeOK, RegistryNamesLive, Running
<1> QED
  BY <1>1, Zenon DEF LiveInv

\* A handler gets its connection and listens.
LEMMA ListenKeeps ==
    ASSUME LiveInv, NEW s \in Streams, Listen(s)
    PROVE  LiveInv'
<1>1. PICK x : x = [stream[s] EXCEPT !.pc = "listening"]
  BY Zenon
<1>2. stream[s] \in Stream /\ stream[s].pc = "taken"
  BY Zenon DEF LiveInv, TypeOK, Listen
<1>3. x \in Stream /\ x.pc = "listening" /\ x.ctx = stream[s].ctx
  BY <1>1, <1>2, Zenon DEF Stream
<1>4. stream' = [stream EXCEPT ![s] = x] /\ UNCHANGED <<db, writing, active, tab>>
  BY <1>1, Zenon DEF Listen
<1> QED
  BY <1>2, <1>3, <1>4, StreamMoves, Zenon DEF Running

\* A handler leaves its loop.
LEMMA ReturnKeeps ==
    ASSUME LiveInv, NEW s \in Streams, ReturnDone(s) \/ ReturnBroken(s)
    PROVE  LiveInv'
<1>1. stream[s] \in Stream /\ stream \in [Streams -> Stream]
  BY Zenon DEF LiveInv, TypeOK
<1>2. CASE ReturnDone(s)
  <2>1. PICK x : x = [stream[s] EXCEPT !.pc = "closing"]
    BY Zenon
  <2>2. x \in Stream /\ x.pc = "closing" /\ x.ctx = stream[s].ctx
    BY <1>1, <2>1, Zenon DEF Stream
  <2>3. stream' = [stream EXCEPT ![s] = x] /\ Running(s) /\ UNCHANGED <<db, writing, active, tab>>
    BY <1>2, <2>1, Zenon DEF ReturnDone
  <2> QED
    BY <2>2, <2>3, StreamMoves, Zenon
<1>3. CASE ReturnBroken(s)
  <2>1. PICK x : x = [stream[s] EXCEPT !.pc = "closing", !.notif = <<>>]
    BY Zenon
  <2>a. x.pc = "closing" /\ x.ctx = stream[s].ctx
    BY <1>1, <2>1, Zenon DEF Stream
  <2>b. <<>> \in Seq(Topics)
    OBVIOUS
  <2>2. x \in Stream /\ x.pc = "closing" /\ x.ctx = stream[s].ctx
    BY <1>1, <2>1, <2>a, <2>b, StreamWith, Zenon
  <2>3. stream' = [stream EXCEPT ![s] = x]
    BY <1>1, <1>3, <2>1, Zenon DEF ReturnBroken
  <2>4. Running(s) /\ UNCHANGED <<db, writing, active, tab>>
    BY <1>3, Zenon DEF ReturnBroken
  <2> QED
    BY <2>2, <2>3, <2>4, StreamMoves, Zenon
<1> QED
  BY <1>2, <1>3, Zenon

\* Mount and Unauthenticated: a tab without a stream stays without one.
LEMMA ClosedTabMoves ==
    ASSUME LiveInv, NEW t \in Tabs, NEW row \in Tab, tab' = [tab EXCEPT ![t] = row],
           tab[t].pc # "open", row.pc # "open", row.stream = tab[t].stream,
           row.firstChunkSeen = tab[t].firstChunkSeen,
           row.pc = "backoff" => row.failures < MaxFailures,
           UNCHANGED <<db, writing, active, stream>>
    PROVE  LiveInv'
<1>1. TabOK(tab[t], t, stream)
  BY Zenon DEF LiveInv
<1>2. TabOK(row, t, stream) /\ FreshOK(row, stream, db)
  BY <1>1, Zenon DEF TabOK, FreshOK
<1> QED
  BY <1>2, TabMoves, Zenon

\* The effect runs.
LEMMA MountKeeps ==
    ASSUME LiveInv, NEW t \in Tabs, Mount(t)
    PROVE  LiveInv'
<1>1. tab[t] \in Tab /\ tab \in [Tabs -> Tab] /\ MaxFailures \in Nat \ {0}
  BY ConstantsAssumption, Zenon DEF LiveInv, TypeOK
<1>2. PICK row : row = [tab[t] EXCEPT !.pc = "backoff", !.failures = 0]
  BY Zenon
<1>a. \A y \in Tab, i \in 0..MaxFailures : [y EXCEPT !.pc = "backoff", !.failures = i] \in Tab
  BY Zenon DEF Tab
<1>b. 0 \in 0..MaxFailures /\ 0 < MaxFailures
  BY <1>1
<1>c. row \in Tab
  BY <1>1, <1>2, <1>a, <1>b, Zenon
<1>3. /\ row.pc = "backoff" /\ row.failures < MaxFailures
      /\ row.stream = tab[t].stream /\ row.firstChunkSeen = tab[t].firstChunkSeen
  BY <1>1, <1>2, <1>b, Zenon DEF Tab
<1>4. tab' = [tab EXCEPT ![t] = row]
  BY <1>1, <1>2, Zenon DEF Mount
<1>5. tab[t].pc # "open" /\ UNCHANGED <<db, writing, active, stream>>
  BY Zenon DEF Mount, Stopped
<1> QED
  BY <1>3, <1>4, <1>5, <1>c, ClosedTabMoves, Zenon

\* The access token is refused.
LEMMA UnauthenticatedKeeps ==
    ASSUME LiveInv, NEW t \in Tabs, Unauthenticated(t)
    PROVE  LiveInv'
<1>1. tab[t] \in Tab
  BY Zenon DEF LiveInv, TypeOK
<1>2. PICK row : row = [tab[t] EXCEPT !.pc = "signedOut"]
  BY Zenon
<1>3. /\ row \in Tab /\ row.pc = "signedOut"
      /\ row.stream = tab[t].stream /\ row.firstChunkSeen = tab[t].firstChunkSeen
  BY <1>1, <1>2, Zenon DEF Tab
<1>4. /\ tab' = [tab EXCEPT ![t] = row] /\ tab[t].pc # "open"
      /\ UNCHANGED <<db, writing, active, stream>>
  BY <1>2, Zenon DEF Unauthenticated
<1> QED
  BY <1>3, <1>4, ClosedTabMoves, Zenon

\* The row y differs from the row x in what it knows of k at most, and of k
\* it knows as much.
Refetched(x, y, k) ==
    /\ y.pc = x.pc /\ y.stream = x.stream /\ y.failures = x.failures
    /\ y.firstChunkSeen = x.firstChunkSeen
    /\ \A j \in Topics \ {k} : y.fetch[j] = x.fetch[j] /\ y.cache[j] = x.cache[j]
    /\ \A q : Fresh(x, q, k, db[k]) => Fresh(y, q, k, db[k])

\* A refetch reads, or its answer arrives, for one topic.
LEMMA FetchMoves ==
    ASSUME LiveInv, NEW t \in Tabs, NEW k \in Topics, NEW row \in Tab,
           tab' = [tab EXCEPT ![t] = row], Refetched(tab[t], row, k),
           UNCHANGED <<db, writing, active, stream>>
    PROVE  LiveInv'
<1>1. TabOK(tab[t], t, stream) /\ FreshOK(tab[t], stream, db)
  BY Zenon DEF LiveInv
<1>2. /\ row.pc = tab[t].pc /\ row.stream = tab[t].stream
      /\ row.failures = tab[t].failures /\ row.firstChunkSeen = tab[t].firstChunkSeen
  BY Zenon DEF Refetched
<1>3. TabOK(row, t, stream)
  BY <1>1, <1>2, Zenon DEF TabOK
<1>4. \A j \in Topics : \A q : Fresh(tab[t], q, j, db[j]) => Fresh(row, q, j, db[j])
  BY Zenon DEF Fresh, Refetched
<1>5. FreshOK(row, stream, db)
  BY <1>1, <1>2, <1>4, Zenon DEF FreshOK
<1> QED
  BY <1>2, <1>3, <1>5, TabMoves, Zenon

\* A list handler reads what is committed.
LEMMA FetchReadKeeps ==
    ASSUME LiveInv, NEW t \in Tabs, NEW k \in Topics, FetchRead(t, k)
    PROVE  LiveInv'
<1>1. /\ tab[t] \in Tab /\ tab \in [Tabs -> Tab] /\ tab[t].fetch \in [Topics -> Int]
      /\ db[k] \in Int
  BY Typed DEF LiveInv, TypeOK
<1>2. PICK f : f = [tab[t].fetch EXCEPT ![k] = db[k]]
  BY Zenon
<1>3. f \in [Topics -> Int] /\ f[k] = db[k] /\ \A j \in Topics \ {k} : f[j] = tab[t].fetch[j]
  BY <1>1, <1>2, Zenon
<1>4. PICK row : row = [tab[t] EXCEPT !.fetch = f]
  BY Zenon
<1>5. /\ row \in Tab /\ row.pc = tab[t].pc /\ row.stream = tab[t].stream
      /\ row.failures = tab[t].failures /\ row.firstChunkSeen = tab[t].firstChunkSeen
      /\ row.cache = tab[t].cache /\ row.fetch = f
  BY <1>1, <1>3, <1>4, Zenon DEF Tab
<1>6. tab' = [tab EXCEPT ![t] = row]
  BY <1>1, <1>2, <1>4, Zenon DEF FetchRead
<1>7. \A q : Fresh(row, q, k, db[k])
  BY <1>3, <1>5, Zenon DEF Fresh
<1>8. \A j \in Topics \ {k} : /\ row.fetch[j] = tab[t].fetch[j]
                                /\ row.cache[j] = tab[t].cache[j]
  BY <1>3, <1>5, Zenon
<1>9. \A q : Fresh(tab[t], q, k, db[k]) => Fresh(row, q, k, db[k])
  BY <1>7, Zenon
<1>10. Refetched(tab[t], row, k)
  BY <1>5, <1>8, <1>9, Zenon DEF Refetched
<1> QED
  BY <1>5, <1>6, <1>10, FetchMoves, Zenon DEF FetchRead

\* What was read arrives in the cache.
LEMMA FetchDoneKeeps ==
    ASSUME LiveInv, NEW t \in Tabs, NEW k \in Topics, FetchDone(t, k)
    PROVE  LiveInv'
<1>1. /\ tab[t] \in Tab /\ tab \in [Tabs -> Tab] /\ tab[t].fetch \in [Topics -> Int]
      /\ tab[t].cache \in [Topics -> Nat] /\ tab[t].fetch[k] \in Nat
  BY Typed DEF LiveInv, TypeOK, FetchDone
<1>2. PICK c, f : /\ c = [tab[t].cache EXCEPT ![k] = tab[t].fetch[k]]
                  /\ f = [tab[t].fetch EXCEPT ![k] = NoFetch]
  BY Zenon
<1>3. /\ c \in [Topics -> Nat] /\ f \in [Topics -> Int]
      /\ c[k] = tab[t].fetch[k] /\ f[k] = NoFetch
      /\ \A j \in Topics \ {k} : f[j] = tab[t].fetch[j] /\ c[j] = tab[t].cache[j]
  BY <1>1, <1>2 DEF NoFetch
<1>4. PICK row : row = [tab[t] EXCEPT !.cache = c, !.fetch = f]
  BY Zenon
<1>5. /\ row \in Tab /\ row.pc = tab[t].pc /\ row.stream = tab[t].stream
      /\ row.failures = tab[t].failures /\ row.firstChunkSeen = tab[t].firstChunkSeen
      /\ row.cache = c /\ row.fetch = f
  BY <1>1, <1>3, <1>4, Zenon DEF Tab
<1>6. tab' = [tab EXCEPT ![t] = row]
  BY <1>1, <1>2, <1>4, Zenon DEF FetchDone
<1>7. \A q : Fresh(tab[t], q, k, db[k]) => Fresh(row, q, k, db[k])
  BY <1>1, <1>3, <1>5 DEF Fresh, Asked, NoFetch
<1>8. \A j \in Topics \ {k} : /\ row.fetch[j] = tab[t].fetch[j]
                                /\ row.cache[j] = tab[t].cache[j]
  BY <1>3, <1>5, Zenon
<1>9. \A q : Fresh(tab[t], q, k, db[k]) => Fresh(row, q, k, db[k])
  BY <1>7, Zenon
<1>10. Refetched(tab[t], row, k)
  BY <1>5, <1>8, <1>9, Zenon DEF Refetched
<1> QED
  BY <1>5, <1>6, <1>10, FetchMoves, Zenon DEF FetchDone
-----------------------------------------------------------------------------
(* A commit reaches every queue that listens                               *)

\* A commit puts the topic into the queue of every stream that listens.
LEMMA CommitKeeps ==
    ASSUME LiveInv, Commit
    PROVE  LiveInv'
<1>1. TypeOK /\ UNCHANGED <<active, tab>> /\ writing' = None
  BY Zenon DEF LiveInv, Commit
<1>2. PICK k \in Topics : k = writing
  BY <1>1, Zenon DEF Commit, TypeOK
<1>3. db' \in [Topics -> Nat] /\ \A j \in Topics \ {k} : db'[j] = db[j]
  BY <1>1, <1>2 DEF Commit, TypeOK
<1>4. \A q \in Seq(Topics) : Append(q, k) \in Seq(Topics)
  BY <1>2
<1>5. \A x \in Stream : /\ [x EXCEPT !.notif = Append(x.notif, k)] \in Stream
                        /\ [x EXCEPT !.notif = Append(x.notif, k)].pc = x.pc
                        /\ [x EXCEPT !.notif = Append(x.notif, k)].ctx = x.ctx
                        /\ [x EXCEPT !.notif = Append(x.notif, k)].notif = Append(x.notif, k)
  <2> SUFFICES ASSUME NEW x \in Stream
               PROVE  /\ [x EXCEPT !.notif = Append(x.notif, k)] \in Stream
                      /\ [x EXCEPT !.notif = Append(x.notif, k)].pc = x.pc
                      /\ [x EXCEPT !.notif = Append(x.notif, k)].ctx = x.ctx
                      /\ [x EXCEPT !.notif = Append(x.notif, k)].notif = Append(x.notif, k)
    BY Zenon
  <2>1. PICK q \in Seq(Topics) : q = Append(x.notif, k)
    BY <1>4, Zenon DEF Stream
  <2>2. [x EXCEPT !.notif = q] \in Stream
    BY StreamWith, Zenon
  <2>3. /\ [x EXCEPT !.notif = q].pc = x.pc /\ [x EXCEPT !.notif = q].ctx = x.ctx
        /\ [x EXCEPT !.notif = q].notif = q
    BY Zenon DEF Stream
  <2> QED
    BY <2>1, <2>2, <2>3, Zenon
<1>6. \A s \in Streams : stream[s] \in Stream /\ stream[s].notif \in Seq(Topics)
  BY <1>1, Typed, Zenon
<1>7. stream' = [s \in Streams |->
                   IF stream[s].pc = "listening" /\ stream[s].ctx = "live"
                   THEN [stream[s] EXCEPT !.notif = Append(stream[s].notif, k)] ELSE stream[s]]
  BY <1>2, Zenon DEF Commit, Notified
<1>8. \A s \in Streams :
        /\ stream'[s] \in Stream
        /\ stream'[s].pc = stream[s].pc /\ stream'[s].ctx = stream[s].ctx
        /\ stream[s].pc = "listening" /\ stream[s].ctx = "live"
             => stream'[s].notif = Append(stream[s].notif, k)
  BY <1>5, <1>6, <1>7, Zenon
<1>9. stream' \in [Streams -> Stream]
  BY <1>5, <1>6, <1>7, Zenon
<1>10. TypeOK'
  BY <1>1, <1>3, <1>9, Zenon DEF TypeOK
<1>11. RegistryNamesLive'
  BY <1>1, <1>8, Zenon DEF LiveInv, RegistryNamesLive, Running
<1>12. \A t \in Tabs : TabOK(tab[t], t, stream')
  BY <1>8 DEF LiveInv, TabOK
<1>13. \A s \in Streams : ServesTab(s, stream'[s], tab)
  BY <1>8, Zenon DEF LiveInv, ServesTab
<1>14. ASSUME NEW t \in Tabs
       PROVE  FreshOK(tab[t], stream', db')
  <2> SUFFICES ASSUME tab[t].pc = "open", tab[t].firstChunkSeen,
                      stream'[tab[t].stream].pc = "listening",
                      stream'[tab[t].stream].ctx = "live",
                      NEW j \in Topics
               PROVE  Fresh(tab[t], stream'[tab[t].stream].notif, j, db'[j])
    BY Zenon DEF FreshOK
  <2>1. PICK s \in Streams : s = tab[t].stream
    BY Zenon DEF LiveInv, TabOK
  <2>2. stream[s].pc = "listening" /\ stream[s].ctx = "live"
    BY <1>8, <2>1, Zenon
  <2>3. stream'[s].notif = Append(stream[s].notif, k) /\ stream[s].notif \in Seq(Topics)
    BY <1>6, <1>8, <2>2, Zenon
  <2>4. Fresh(tab[t], stream[s].notif, j, db[j])
    BY <2>1, <2>2, Zenon DEF LiveInv, FreshOK
  <2>5. Queued(stream'[s].notif, k) /\ (Queued(stream[s].notif, j) => Queued(stream'[s].notif, j))
    BY <2>3, Queues
  <2> QED
    BY <1>3, <2>1, <2>4, <2>5, Zenon DEF Fresh
<1> QED
  BY <1>1, <1>10, <1>11, <1>12, <1>13, <1>14, Zenon DEF LiveInv
-----------------------------------------------------------------------------
(* Steps of a tab and of one of its handlers together                      *)

\* With the handler s changed to x and the tab t to row, the handlers of t
\* serve the stream it has open.
HandlersServe(t, s, x, row) ==
    /\ x.pc # "free" /\ x.ctx # "gone" => row.pc = "open" /\ row.stream = s
    /\ \A z \in Streams \ {s} :
         /\ z[1] = t /\ stream[z].pc # "free" /\ stream[z].ctx # "gone"
         => row.pc = "open" /\ row.stream = z

\* A tab and one of its own handlers change together; the others are not touched.
LEMMA BothMove ==
    ASSUME LiveInv, NEW s \in Streams, NEW x \in Stream, NEW t \in Tabs, s[1] = t,
           NEW row \in Tab,
           tab' = [tab EXCEPT ![t] = row], stream' = [stream EXCEPT ![s] = x],
           active' \in Streams \cup {None}, UNCHANGED <<db, writing>>,
           RegistryNamesLive', HandlersServe(t, s, x, row),
           TabOK(row, t, stream'), FreshOK(row, stream', db)
    PROVE  LiveInv'
<1>1. TypeOK /\ TypeOK'
  BY Zenon DEF LiveInv, TypeOK
<1>2. /\ tab'[t] = row /\ \A u \in Tabs \ {t} : tab'[u] = tab[u]
      /\ stream'[s] = x /\ \A z \in Streams \ {s} : stream'[z] = stream[z]
  BY <1>1, Zenon DEF TypeOK
<1>3. \A z \in Streams : z[1] \in Tabs
  BY <1>1, Typed, Zenon
<1>4. \A z \in Streams : ServesTab(z, stream'[z], tab')
  BY <1>2, <1>3 DEF LiveInv, ServesTab, HandlersServe
<1>5. ASSUME NEW u \in Tabs \ {t}
      PROVE  TabOK(tab'[u], u, stream') /\ FreshOK(tab'[u], stream', db)
  <2>1. tab'[u] = tab[u] /\ TabOK(tab[u], u, stream) /\ FreshOK(tab[u], stream, db)
    BY <1>2, Zenon DEF LiveInv
  <2>2. CASE tab[u].pc = "open"
    <3>1. stream'[tab[u].stream] = stream[tab[u].stream]
      BY <1>2, <2>1, <2>2, Zenon DEF TabOK
    <3> QED
      BY <2>1, <3>1, Zenon DEF TabOK, FreshOK
  <2>3. CASE tab[u].pc # "open"
    BY <2>1, <2>3, Zenon DEF TabOK, FreshOK
  <2> QED
    BY <2>2, <2>3, Zenon
<1>6. TabOK(tab'[t], t, stream') /\ FreshOK(tab'[t], stream', db)
  BY <1>2, Zenon
<1>7. \A u \in Tabs : TabOK(tab'[u], u, stream') /\ FreshOK(tab'[u], stream', db)
  BY <1>5, <1>6, Zenon
<1> QED
  BY <1>1, <1>4, <1>7, Zenon DEF LiveInv

\* The one handler that serves t is the only one with nothing to tell it.
LEMMA OneServes ==
    ASSUME LiveInv, NEW t \in Tabs, NEW s \in Streams, s[1] = t,
           NEW x, x.pc = "free" \/ x.ctx = "gone", tab[t].pc = "open" => tab[t].stream = s,
           NEW row
    PROVE  HandlersServe(t, s, x, row)
<1>1. ASSUME NEW z \in Streams \ {s}, z[1] = t, stream[z].pc # "free", stream[z].ctx # "gone"
      PROVE  FALSE
  <2>1. ServesTab(z, stream[z], tab)
    BY Zenon DEF LiveInv
  <2>2. tab[t].pc = "open" /\ tab[t].stream = z
    BY <1>1, <2>1, Zenon DEF ServesTab
  <2> QED
    BY <2>2, Zenon
<1> QED
  BY <1>1, Zenon DEF HandlersServe

\* A notification reaches the tab, or a heartbeat does.
LEMMA WaitKeeps ==
    ASSUME LiveInv, NEW s \in Streams, WaitForNotification(s)
    PROVE  LiveInv'
<1>1. TypeOK /\ MaxFailures \in Nat \ {0}
  BY ConstantsAssumption, Zenon DEF LiveInv
<1>2. PICK t \in Tabs : t = s[1]
  BY <1>1, Typed, Zenon
<1>3. /\ tab[t] \in Tab /\ stream[s] \in Stream /\ stream[s].notif \in Seq(Topics)
      /\ tab \in [Tabs -> Tab] /\ stream \in [Streams -> Stream]
  BY <1>1, Typed, Zenon DEF TypeOK
<1>4. /\ stream[s].pc = "listening" /\ stream[s].ctx = "live"
      /\ UNCHANGED <<db, writing, active>>
  BY Zenon DEF WaitForNotification
<1>5. tab[t].pc = "open" /\ tab[t].stream = s
  <2>1. ServesTab(s, stream[s], tab)
    BY Zenon DEF LiveInv
  <2> QED
    BY <1>2, <1>4, <2>1, Zenon DEF ServesTab
<1>6. TabOK(tab[t], t, stream) /\ FreshOK(tab[t], stream, db)
  BY Zenon DEF LiveInv
<1>7. CASE stream[s].notif = <<>>
  <2>1. PICK row : row = Chunk(tab[t], {})
    BY Zenon
  <2>2. /\ row \in Tab /\ row.pc = tab[t].pc /\ row.stream = tab[t].stream
        /\ row.cache = tab[t].cache /\ row.failures = 0 /\ row.firstChunkSeen = TRUE
        /\ \A k \in Topics : \/ row.fetch[k] = Asked
                             \/ /\ tab[t].firstChunkSeen
                                /\ row.fetch[k] = tab[t].fetch[k]
    <3>1. row \in Tab /\ AfterChunk(tab[t], row, {})
      BY <1>3, <2>1, ChunkIs, Zenon
    <3> QED
      BY <3>1, Zenon DEF AfterChunk
  <2>3. tab' = [tab EXCEPT ![t] = row] /\ UNCHANGED stream
    BY <1>2, <1>7, <2>1, Zenon DEF WaitForNotification
  <2>4. TabOK(row, t, stream)
    BY <1>1, <1>4, <1>5, <1>6, <2>2 DEF TabOK
  <2>5. FreshOK(row, stream, db)
    BY <1>4, <1>5, <1>6, <2>2 DEF FreshOK, Fresh
  <2> QED
    BY <1>4, <2>2, <2>3, <2>4, <2>5, TabMoves, Zenon
<1>8. CASE stream[s].notif # <<>>
  <2>1. PICK q \in Seq(Topics) : q = stream[s].notif
    BY <1>3, Zenon
  <2>a. Head(q) \in Topics /\ Tail(q) \in Seq(Topics)
    BY <1>8, <2>1
  <2>2. PICK h \in Topics, r \in Seq(Topics) : h = Head(q) /\ r = Tail(q)
    BY <2>a, Zenon
  <2>3. \A j \in Topics : Queued(q, j) => j = h \/ Queued(r, j)
    BY <1>8, <2>1, <2>2, Queues, Zenon
  <2>4. PICK row : row = Chunk(tab[t], {h})
    BY Zenon
  <2>5. /\ row \in Tab /\ row.pc = tab[t].pc /\ row.stream = tab[t].stream
        /\ row.cache = tab[t].cache /\ row.failures = 0 /\ row.firstChunkSeen = TRUE
        /\ \A k \in Topics : \/ row.fetch[k] = Asked
                             \/ /\ tab[t].firstChunkSeen /\ k # h
                                /\ row.fetch[k] = tab[t].fetch[k]
    <3>1. {h} \in SUBSET Topics
      BY <2>2, Zenon
    <3>2. row \in Tab /\ AfterChunk(tab[t], row, {h})
      BY <1>3, <2>4, <3>1, ChunkIs, Zenon
    <3> QED
      BY <3>2, Zenon DEF AfterChunk
  <2>6. PICK x : x = [stream[s] EXCEPT !.notif = r]
    BY Zenon
  <2>7. x \in Stream
    BY <1>3, <2>6, StreamWith, Zenon
  <2>8. x.pc = "listening" /\ x.ctx = "live" /\ x.notif = r
    BY <1>3, <1>4, <2>6, Zenon DEF Stream
  <2>9. tab' = [tab EXCEPT ![t] = row] /\ stream' = [stream EXCEPT ![s] = x]
    BY <1>2, <1>3, <1>8, <2>1, <2>2, <2>4, <2>6, Zenon DEF WaitForNotification
  <2>10. stream'[s] = x /\ \A z \in Streams \ {s} : stream'[z] = stream[z]
    BY <1>3, <2>9, Zenon
  <2>11. TabOK(row, t, stream')
    BY <1>1, <1>2, <1>5, <2>5, <2>8, <2>10 DEF TabOK
  <2>12. tab[t].firstChunkSeen => \A k \in Topics : Fresh(tab[t], q, k, db[k])
    BY <1>4, <1>5, <1>6, <2>1, Zenon DEF FreshOK
  <2>13. \A k \in Topics : Fresh(row, r, k, db[k])
    BY <2>3, <2>5, <2>12 DEF Fresh
  <2>14. FreshOK(row, stream', db)
    BY <1>5, <2>5, <2>8, <2>10, <2>13, Zenon DEF FreshOK
  <2>15. RegistryNamesLive'
    BY <1>4, <2>8, <2>10, Zenon DEF LiveInv, RegistryNamesLive, Running
  <2>16. \A z \in Streams : ServesTab(z, stream[z], tab)
    BY Zenon DEF LiveInv
  <2>17. HandlersServe(t, s, x, row)
    BY <1>5, <2>5, <2>16 DEF HandlersServe, ServesTab
  <2>18. active' \in Streams \cup {None} /\ UNCHANGED <<db, writing>>
    BY <1>1, <1>4, Zenon DEF TypeOK
  <2> QED
    BY <1>2, <2>5, <2>7, <2>9, <2>11, <2>14, <2>15, <2>17, <2>18, BothMove, Zenon
<1> QED
  BY <1>7, <1>8, Zenon
\* A tab gives its stream up, and the handler, if there is one, is told.
LEMMA TabLeaves ==
    ASSUME LiveInv, NEW t \in Tabs, NEW row \in Tab, tab' = [tab EXCEPT ![t] = row],
           stream' = Detached(t), row.pc # "open", row.stream = None, ~row.firstChunkSeen,
           row.pc = "backoff" => row.failures < MaxFailures,
           UNCHANGED <<db, writing, active>>
    PROVE  LiveInv'
<1>1. TypeOK /\ TabOK(tab[t], t, stream)
  BY Zenon DEF LiveInv
<1>2. \A S : TabOK(row, t, S) /\ FreshOK(row, S, db)
  BY Zenon DEF TabOK, FreshOK
<1>3. CASE tab[t].stream = None
  <2>1. tab[t].pc # "open"
    BY <1>1, <1>3, ConstantsAssumption, Zenon DEF TabOK, Streams
  <2>2. UNCHANGED stream
    BY <1>3, Zenon DEF Detached
  <2> QED
    BY <1>2, <1>3, <2>1, <2>2, TabMoves, Zenon
<1>4. CASE tab[t].stream # None
  <2>1. tab[t].pc = "open" /\ tab[t].stream \in Streams /\ tab[t].stream[1] = t
    BY <1>1, <1>4, Zenon DEF TabOK
  <2>2. PICK s \in Streams : s = tab[t].stream
    BY <2>1, Zenon
  <2>3. PICK x : x = [stream[s] EXCEPT !.ctx = "gone", !.notif = <<>>]
    BY Zenon
  <2>4. stream[s] \in Stream /\ stream \in [Streams -> Stream] /\ <<>> \in Seq(Topics)
    BY <1>1 DEF TypeOK
  <2>5. x \in Stream
    BY <2>3, <2>4, StreamWith, Zenon
  <2>6. x.ctx = "gone"
    BY <2>3, <2>4, Zenon DEF Stream
  <2>7. stream' = [stream EXCEPT ![s] = x]
    BY <1>4, <2>2, <2>3, <2>4, Zenon DEF Detached
  <2>8. stream'[s] = x /\ \A z \in Streams \ {s} : stream'[z] = stream[z]
    BY <2>4, <2>7, Zenon
  <2>9. RegistryNamesLive'
    BY <2>6, <2>8, Zenon DEF LiveInv, RegistryNamesLive, Running
  <2>10. HandlersServe(t, s, x, row)
    BY <2>1, <2>2, <2>6, OneServes, Zenon
  <2>11. active' \in Streams \cup {None}
    BY <1>1, Zenon DEF TypeOK
  <2> QED
    BY <1>2, <2>1, <2>2, <2>5, <2>7, <2>9, <2>10, <2>11, BothMove, Zenon
<1> QED
  BY <1>3, <1>4, Zenon

\* The tab aborts its stream.
LEMMA UnmountKeeps ==
    ASSUME LiveInv, NEW t \in Tabs, Unmount(t)
    PROVE  LiveInv'
<1>1. tab[t] \in Tab /\ tab \in [Tabs -> Tab]
  BY Zenon DEF LiveInv, TypeOK
<1>2. PICK row : row = [tab[t] EXCEPT !.pc = "off", !.stream = None, !.firstChunkSeen = FALSE]
  BY Zenon
<1>3. \A y \in Tab, c \in BOOLEAN :
        [y EXCEPT !.pc = "off", !.stream = None, !.firstChunkSeen = c] \in Tab
  BY Zenon DEF Tab
<1>4. row \in Tab
  BY <1>1, <1>2, <1>3, Zenon
<1>5. row.pc = "off" /\ row.stream = None /\ ~row.firstChunkSeen
  BY <1>1, <1>2, Zenon DEF Tab
<1>6. tab' = [tab EXCEPT ![t] = row]
  BY <1>1, <1>2, Zenon DEF Unmount
<1>7. stream' = Detached(t) /\ UNCHANGED <<db, writing, active>>
  BY Zenon DEF Unmount
<1> QED
  BY <1>4, <1>5, <1>6, <1>7, TabLeaves, Zenon

\* An open or a waiting tab has tried fewer times than it may.
LEMMA FailedTab ==
    ASSUME LiveInv, NEW t \in Tabs, tab[t].pc \in {"open", "backoff"},
           NEW row, row = Failed(tab[t])
    PROVE  /\ row \in Tab /\ row.pc # "open" /\ row.stream = None /\ ~row.firstChunkSeen
           /\ row.pc = "backoff" => row.failures < MaxFailures
<1>1. tab[t] \in Tab /\ tab[t].failures < MaxFailures
  BY Zenon DEF LiveInv, TypeOK, TabOK
<1> QED
  BY <1>1, FailedIs, Zenon

\* The stream breaks off, or the request does not get through.
LEMMA TransportErrorKeeps ==
    ASSUME LiveInv, NEW t \in Tabs, TransportError(t)
    PROVE  LiveInv'
<1>1. PICK row : row = Failed(tab[t])
  BY Zenon
<1>2. /\ row \in Tab /\ row.pc # "open" /\ row.stream = None /\ ~row.firstChunkSeen
      /\ row.pc = "backoff" => row.failures < MaxFailures
  BY <1>1, FailedTab, Zenon DEF TransportError
<1>3. /\ tab' = [tab EXCEPT ![t] = row] /\ stream' = Detached(t)
      /\ UNCHANGED <<db, writing, active>>
  BY <1>1, Zenon DEF TransportError
<1> QED
  BY <1>2, <1>3, TabLeaves, Zenon

\* The handler has returned; a tab that is still there gets the error.
LEMMA ReleaseKeeps ==
    ASSUME LiveInv, NEW s \in Streams, Release(s)
    PROVE  LiveInv'
<1>1. TypeOK /\ stream[s].pc = "closing" /\ UNCHANGED <<db, writing>>
  BY Zenon DEF LiveInv, Release
<1>2. PICK t \in Tabs : t = s[1]
  BY <1>1, Typed, Zenon
<1>3. tab \in [Tabs -> Tab] /\ tab[t] \in Tab /\ stream \in [Streams -> Stream]
  BY <1>1, Zenon DEF TypeOK
<1>4. TabOK(tab[t], t, stream) /\ FreshOK(tab[t], stream, db) /\ ServesTab(s, stream[s], tab)
  BY Zenon DEF LiveInv
<1>5. PICK x \in Stream : x = FreeStream
  BY <1>3, StreamWith, Zenon
<1>6. x.pc = "free"
  BY <1>5, Zenon DEF FreeStream
<1>7. stream' = [stream EXCEPT ![s] = x] /\ active' = Released(s)
  BY <1>5, Zenon DEF Release
<1>8. stream'[s] = x /\ \A z \in Streams \ {s} : stream'[z] = stream[z]
  BY <1>3, <1>7, Zenon
<1>9. active' \in Streams \cup {None}
  BY <1>1, <1>7, Zenon DEF TypeOK, Released
<1>10. RegistryNamesLive'
  BY <1>6, <1>7, <1>8, Zenon DEF LiveInv, RegistryNamesLive, Running, Released
<1>11. CASE stream[s].ctx = "gone"
  <2>1. tab' = [tab EXCEPT ![t] = tab[t]]
    BY <1>3, <1>11, Zenon DEF Release
  <2>2. tab[t].pc = "open" => tab[t].stream \in Streams \ {s}
    BY <1>4, <1>11, Zenon DEF TabOK
  <2>3. TabOK(tab[t], t, stream')
    BY <1>4, <1>8, <2>2, Zenon DEF TabOK
  <2>4. FreshOK(tab[t], stream', db)
    BY <1>4, <1>8, <2>2, Zenon DEF FreshOK
  <2>5. \A z \in Streams : ServesTab(z, stream[z], tab)
    BY Zenon DEF LiveInv
  <2>6. HandlersServe(t, s, x, tab[t])
    BY <1>6, <2>5 DEF HandlersServe, ServesTab
  <2>7. PICK row \in Tab : row = tab[t]
    BY <1>3, Zenon
  <2> QED
    BY <1>1, <1>2, <1>7, <1>9, <1>10, <2>1, <2>3, <2>4, <2>6, <2>7, BothMove, Zenon
<1>12. CASE stream[s].ctx # "gone"
  <2>1. tab[t].pc = "open" /\ tab[t].stream = s
    BY <1>1, <1>2, <1>4, <1>12, Zenon DEF ServesTab
  <2>2. PICK row : row = Failed(tab[t])
    BY Zenon
  <2>3. /\ row \in Tab /\ row.pc # "open" /\ row.stream = None /\ ~row.firstChunkSeen
        /\ row.pc = "backoff" => row.failures < MaxFailures
    BY <2>1, <2>2, FailedTab, Zenon
  <2>4. tab' = [tab EXCEPT ![t] = row]
    BY <1>2, <1>12, <2>2, Zenon DEF Release
  <2>5. \A S : TabOK(row, t, S) /\ FreshOK(row, S, db)
    BY <2>3, Zenon DEF TabOK, FreshOK
  <2>6. HandlersServe(t, s, x, row)
    BY <1>2, <1>6, <2>1, OneServes, Zenon
  <2> QED
    BY <1>1, <1>2, <1>7, <1>9, <1>10, <2>3, <2>4, <2>5, <2>6, BothMove, Zenon
<1> QED
  BY <1>11, <1>12, Zenon
-----------------------------------------------------------------------------
(* A new stream evicts the last one; a restart cuts them all               *)

\* A new stream takes the user's place in the registry.
LEMMA ConnectKeeps ==
    ASSUME LiveInv, NEW t \in Tabs, Connect(t)
    PROVE  LiveInv'
<1>1. TypeOK /\ UNCHANGED <<db, writing>> /\ tab[t].pc = "backoff"
  BY Zenon DEF LiveInv, Connect
<1>2. PICK i \in 1..Slots :
        stream[<<t, i>>].pc = "free" /\ Take(<<t, i>>)
        /\ tab' = [tab EXCEPT ![t].pc = "open", ![t].stream = <<t, i>>]
  BY Zenon DEF Connect
<1>3. PICK s \in Streams : s = <<t, i>>
  BY Zenon DEF Streams
<1>4. s[1] = t /\ stream[s].pc = "free" /\ active' = s
  BY <1>2, <1>3, Zenon DEF Take
<1>5. tab \in [Tabs -> Tab] /\ tab[t] \in Tab /\ stream \in [Streams -> Stream]
  BY <1>1, Zenon DEF TypeOK
<1>6. PICK row : row = [tab[t] EXCEPT !.pc = "open", !.stream = s]
  BY Zenon
<1>7. \A y \in Tab, z \in Streams : [y EXCEPT !.pc = "open", !.stream = z] \in Tab
  BY Zenon DEF Tab
<1>8. row \in Tab
  BY <1>3, <1>5, <1>6, <1>7, Zenon
<1>9. /\ row.pc = "open" /\ row.stream = s /\ row.failures = tab[t].failures
      /\ row.firstChunkSeen = tab[t].firstChunkSeen
  BY <1>5, <1>6, Zenon DEF Tab
<1>10. tab' = [tab EXCEPT ![t] = row]
  BY <1>2, <1>3, <1>5, <1>6, Zenon
<1>11. tab'[t] = row /\ \A u \in Tabs \ {t} : tab'[u] = tab[u]
  BY <1>5, <1>10, Zenon
<1>12. stream' = [x \in Streams |->
                    IF x = s THEN [FreeStream EXCEPT !.pc = "taken"]
                    ELSE IF x = active /\ stream[x].ctx = "live"
                         THEN [stream[x] EXCEPT !.ctx = "evicted", !.notif = <<>>]
                    ELSE stream[x]]
  BY <1>2, <1>3, Zenon DEF Take
<1>13. \A x \in Stream :
         /\ [x EXCEPT !.ctx = "evicted", !.notif = <<>>] \in Stream
         /\ [x EXCEPT !.ctx = "evicted", !.notif = <<>>].pc = x.pc
         /\ [x EXCEPT !.ctx = "evicted", !.notif = <<>>].ctx = "evicted"
  <2>1. <<>> \in Seq(Topics)
    OBVIOUS
  <2>2. \A x \in Stream : [x EXCEPT !.ctx = "evicted", !.notif = <<>>] \in Stream
    BY <2>1, StreamWith, Zenon
  <2>3. \A x \in Stream : /\ [x EXCEPT !.ctx = "evicted", !.notif = <<>>].pc = x.pc
                          /\ [x EXCEPT !.ctx = "evicted", !.notif = <<>>].ctx = "evicted"
    BY Zenon DEF Stream
  <2> QED
    BY <2>2, <2>3, Zenon
<1>14. /\ [FreeStream EXCEPT !.pc = "taken"] \in Stream
       /\ [FreeStream EXCEPT !.pc = "taken"].pc = "taken"
       /\ [FreeStream EXCEPT !.pc = "taken"].ctx = "live"
  <2>1. FreeStream \in Stream /\ FreeStream.ctx = "live"
    BY DEF FreeStream, Stream
  <2>2. [FreeStream EXCEPT !.pc = "taken"] \in Stream
    BY <2>1, StreamWith, Zenon
  <2>3. /\ [FreeStream EXCEPT !.pc = "taken"].pc = "taken"
        /\ [FreeStream EXCEPT !.pc = "taken"].ctx = "live"
    BY <2>1, Zenon DEF Stream
  <2> QED
    BY <2>2, <2>3, Zenon
<1>15. \A z \in Streams \ {s} :
         \/ z # active /\ stream'[z] = stream[z]
         \/ stream[z].ctx # "live" /\ stream'[z] = stream[z]
         \/ /\ stream'[z].pc = stream[z].pc
            /\ stream[z].ctx = "live" /\ stream'[z].ctx = "evicted"
  BY <1>5, <1>12, <1>13, Zenon
<1>16. stream'[s].pc = "taken" /\ stream'[s].ctx = "live"
  BY <1>12, <1>14, Zenon
<1>17. stream' \in [Streams -> Stream]
  BY <1>5, <1>12, <1>13, <1>14, Zenon
<1>18. TypeOK'
  BY <1>1, <1>4, <1>8, <1>10, <1>17, Zenon DEF TypeOK
<1>19. RegistryNamesLive'
  BY <1>4, <1>15, Zenon DEF LiveInv, RegistryNamesLive, Running
<1>20. ASSUME NEW z \in Streams
       PROVE  ServesTab(z, stream'[z], tab')
  <2>1. CASE z = s
    BY <1>4, <1>9, <1>11, <2>1, Zenon DEF ServesTab
  <2>2. CASE z # s
    <3>1. ServesTab(z, stream[z], tab) /\ z[1] \in Tabs
      BY <1>1, Typed, Zenon DEF LiveInv
    <3>2. /\ stream'[z].pc = stream[z].pc
          /\ stream'[z].ctx # "gone" => stream[z].ctx # "gone"
      BY <1>15, <2>2, Zenon
    <3> QED
      BY <1>1, <1>11, <3>1, <3>2, Zenon DEF ServesTab
  <2> QED
    BY <2>1, <2>2, Zenon
<1>21. ASSUME NEW u \in Tabs
       PROVE  TabOK(tab'[u], u, stream') /\ FreshOK(tab'[u], stream', db)
  <2>1. TabOK(tab[u], u, stream) /\ FreshOK(tab[u], stream, db)
    BY Zenon DEF LiveInv
  <2>2. CASE u = t
    <3>1. tab'[u] = row /\ ~row.firstChunkSeen /\ row.failures < MaxFailures
      BY <1>1, <1>9, <1>11, <2>1, <2>2, Zenon DEF TabOK
    <3> QED
      BY <1>4, <1>9, <1>16, <2>2, <3>1, Zenon DEF TabOK, FreshOK
  <2>3. CASE u # t /\ tab[u].pc = "open"
    <3>1. PICK z \in Streams \ {s} : z = tab[u].stream
      BY <1>4, <2>1, <2>3, Zenon DEF TabOK
    <3>2. /\ stream'[z].pc = stream[z].pc
          /\ stream'[z].ctx = "gone" => stream[z].ctx = "gone"
          /\ stream'[z].ctx = "live" => stream'[z] = stream[z]
      BY <1>15, <3>1, Zenon
    <3>3. tab'[u] = tab[u]
      BY <1>11, <2>3, Zenon
    <3>4. TabOK(tab[u], u, stream')
      BY <2>1, <3>1, <3>2, Zenon DEF TabOK
    <3>5. FreshOK(tab[u], stream', db)
      BY <2>1, <3>1, <3>2, Zenon DEF FreshOK
    <3> QED
      BY <3>3, <3>4, <3>5, Zenon
  <2>4. CASE u # t /\ tab[u].pc # "open"
    BY <1>11, <2>1, <2>4, Zenon DEF TabOK, FreshOK
  <2> QED
    BY <2>2, <2>3, <2>4, Zenon
<1> QED
  BY <1>1, <1>18, <1>19, <1>20, <1>21, Zenon DEF LiveInv

\* The server restarts.
LEMMA RestartKeeps ==
    ASSUME LiveInv, Restart
    PROVE  LiveInv'
<1>1. TypeOK /\ UNCHANGED db /\ active' = None /\ writing' = None
  BY Zenon DEF LiveInv, Restart
<1>2. FreeStream \in Stream /\ FreeStream.pc = "free"
  BY DEF FreeStream, Stream
<1>3. stream' \in [Streams -> Stream] /\ \A s \in Streams : stream'[s].pc = "free"
  BY <1>2, Zenon DEF Restart
<1>4. tab' = [t \in Tabs |-> IF tab[t].pc = "open" THEN Failed(tab[t]) ELSE tab[t]]
  BY Zenon DEF Restart
<1>5. ASSUME NEW t \in Tabs
      PROVE  /\ tab'[t] \in Tab /\ tab'[t].pc # "open"
             /\ \A S : TabOK(tab'[t], t, S)
  <2>1. TabOK(tab[t], t, stream) /\ tab[t] \in Tab
    BY <1>1, Zenon DEF LiveInv, TypeOK
  <2>2. CASE tab[t].pc = "open"
    <3>1. tab'[t] = Failed(tab[t])
      BY <1>4, <2>2, Zenon
    <3>2. PICK row : row = Failed(tab[t])
      BY Zenon
    <3>3. /\ row \in Tab /\ row.pc # "open" /\ row.stream = None /\ ~row.firstChunkSeen
          /\ row.pc = "backoff" => row.failures < MaxFailures
      BY <2>2, <3>2, FailedTab, Zenon
    <3> QED
      BY <3>1, <3>2, <3>3, Zenon DEF TabOK
  <2>3. CASE tab[t].pc # "open"
    BY <1>4, <2>1, <2>3, Zenon DEF TabOK
  <2> QED
    BY <2>2, <2>3, Zenon
<1>6. tab' \in [Tabs -> Tab]
  <2>1. \A t \in Tabs : tab'[t] \in Tab
    BY <1>5, Zenon
  <2> QED
    BY <1>4, <2>1, Zenon
<1>7. TypeOK'
  BY <1>1, <1>3, <1>6, Zenon DEF TypeOK
<1>8. RegistryNamesLive'
  BY <1>3, Zenon DEF RegistryNamesLive, Running
<1>9. \A s \in Streams : ServesTab(s, stream'[s], tab')
  BY <1>3, Zenon DEF ServesTab
<1>10. \A t \in Tabs : TabOK(tab'[t], t, stream') /\ FreshOK(tab'[t], stream', db')
  BY <1>5, Zenon DEF FreshOK
<1> QED
  BY <1>7, <1>8, <1>9, <1>10, Zenon DEF LiveInv

-----------------------------------------------------------------------------
(* The inductive invariant, and what it gives                              *)

\* The initial state satisfies the invariant.
LEMMA InitHolds ==
    ASSUME Init
    PROVE  LiveInv
<1>1. FreeStream \in Stream /\ FreeStream.pc = "free"
  BY DEF FreeStream, Stream
<1>2. stream \in [Streams -> Stream] /\ \A s \in Streams : stream[s].pc = "free"
  BY <1>1, Zenon DEF Init
<1>3. MaxFailures \in Nat \ {0} /\ NoFetch \in Int
  BY ConstantsAssumption DEF NoFetch
<1>4. PICK row : row = [pc |-> "off", stream |-> None, failures |-> 0,
                        firstChunkSeen |-> FALSE, cache |-> [k \in Topics |-> 0],
                        fetch |-> [k \in Topics |-> NoFetch]]
  BY Zenon
<1>5. /\ row \in Tab /\ row.pc = "off" /\ row.stream = None /\ ~row.firstChunkSeen
  BY <1>3, <1>4 DEF Tab
<1>6. tab = [t \in Tabs |-> row]
  BY <1>4, Zenon DEF Init
<1>7. TypeOK
  BY <1>2, <1>5, <1>6, Zenon DEF Init, TypeOK
<1>8. RegistryNamesLive
  BY <1>2, Zenon DEF RegistryNamesLive, Running
<1>9. \A s \in Streams : ServesTab(s, stream[s], tab)
  BY <1>2, Zenon DEF ServesTab
<1>10. \A t \in Tabs : TabOK(tab[t], t, stream) /\ FreshOK(tab[t], stream, db)
  BY <1>5, <1>6, Zenon DEF TabOK, FreshOK
<1> QED
  BY <1>7, <1>8, <1>9, <1>10, Zenon DEF LiveInv

\* Every step keeps it.
LEMMA NextKeeps ==
    ASSUME LiveInv, [Next]_vars
    PROVE  LiveInv'
<1>1. ASSUME NEW k \in Topics, Publish(k) PROVE LiveInv'
  BY <1>1, QuietKeeps, Zenon DEF Publish
<1>2. CASE Commit
  BY <1>2, CommitKeeps, Zenon
<1>3. CASE Rollback
  BY <1>3, QuietKeeps, Zenon DEF Rollback
<1>4. CASE Restart
  BY <1>4, RestartKeeps, Zenon
<1>5. ASSUME NEW s \in Streams, StreamStep(s) \/ ReturnBroken(s) PROVE LiveInv'
  BY <1>5, ListenKeeps, WaitKeeps, ReturnKeeps, ReleaseKeeps, Zenon DEF StreamStep
<1>6. ASSUME NEW t \in Tabs,
             Connect(t) \/ Mount(t) \/ Unmount(t) \/ Unauthenticated(t) \/ TransportError(t)
      PROVE  LiveInv'
  BY <1>6, ConnectKeeps, MountKeeps, UnmountKeeps, UnauthenticatedKeeps, TransportErrorKeeps, Zenon
<1>7. ASSUME NEW t \in Tabs, NEW k \in Topics, FetchRead(t, k) \/ FetchDone(t, k)
      PROVE  LiveInv'
  BY <1>7, FetchReadKeeps, FetchDoneKeeps, Zenon
<1>8. CASE UNCHANGED vars
  <2>1. writing' \in Topics \cup {None} /\ UNCHANGED <<db, active, stream, tab>>
    BY <1>8, Zenon DEF LiveInv, TypeOK, vars
  <2> QED
    BY <2>1, QuietKeeps, Zenon
<1> QED
  BY <1>1, <1>2, <1>3, <1>4, <1>5, <1>6, <1>7, <1>8, Zenon DEF Next

\* So it always holds.
LEMMA LiveAlways == Spec => []LiveInv
<1>1. Init => LiveInv
  BY InitHolds, Zenon
<1>2. LiveInv /\ [Next]_vars => LiveInv'
  BY NextKeeps, Zenon
<1> QED
  BY <1>1, <1>2, PTL DEF Spec

\* streamRegistry: whichever tabs connect, are evicted, break off or are cut
\* by a restart, the one Subscribe that has not been told to stop is the one
\* the registry names, so the next take reaches it.
THEOREM RegistryIsRight == Spec => []RegistryNamesLive
<1>1. LiveInv => RegistryNamesLive
  BY Zenon DEF LiveInv
<1> QED
  BY <1>1, LiveAlways, PTL

\* The first chunk's refetch and the queue of LISTEN together miss nothing: a
\* tab with a listening stream and nothing on its way shows every topic as it
\* is committed.
THEOREM QuietTabsFresh == Spec => []QuietMeansFresh
<1>1. LiveInv => QuietMeansFresh
  <2> SUFFICES ASSUME LiveInv, NEW t \in Tabs,
                      tab[t].pc = "open", tab[t].firstChunkSeen,
                      stream[tab[t].stream].pc = "listening",
                      stream[tab[t].stream].ctx = "live",
                      stream[tab[t].stream].notif = <<>>,
                      \A k \in Topics : tab[t].fetch[k] = NoFetch
               PROVE  tab[t].cache = db
    BY Zenon DEF QuietMeansFresh
  <2>1. TypeOK /\ FreshOK(tab[t], stream, db)
    BY Zenon DEF LiveInv
  <2>2. \A k \in Topics : Fresh(tab[t], <<>>, k, db[k])
    BY <2>1, Zenon DEF FreshOK
  <2>3. \A k \in Topics : ~Queued(<<>>, k) /\ db[k] \in Nat
    BY <2>1, Typed DEF Queued
  <2>4. \A k \in Topics : tab[t].cache[k] = db[k]
    BY <2>2, <2>3 DEF Fresh, NoFetch, Asked
  <2>5. tab[t].cache \in [Topics -> Nat] /\ db \in [Topics -> Nat]
    BY <2>1, Typed, Zenon DEF TypeOK
  <2> QED
    BY <2>4, <2>5
<1> QED
  BY <1>1, LiveAlways, PTL

-----------------------------------------------------------------------------
(* The processes.  ServesOnItsSchema and KeysAreDurable speak of one that  *)
(* serves; the invariant says what each step of the start has already      *)
(* secured: the schema from the end of the migrations on, and a generated  *)
(* key from the end of os.WriteFile on.                                    *)

\* Past migrate.Up, and past River's migrations.
HasSchema == {"river", "pool", "secrets", "kek", "signer", "write", "flush",
              "launch", "jobs", "serving"}
HasRiver == HasSchema \ {"river"}
\* No key of the watched file is in memory.
Keyless == {"down", "lock", "migrate", "river", "pool", "secrets", "unwind"}
\* Inside os.WriteFile, or about to be.
Writing == {"write", "flush"}

\* Only a command takes away what the migrations of a process have made, and
\* then every process that is alive counts as reverted.
SchemaKept ==
    \A p \in Processes \ reverted :
        /\ proc[p].pc \in HasSchema => schema.ver >= ReleaseOf[p]
        /\ proc[p].pc \in HasRiver => schema.river = RiverSteps

KeysInPlace ==
    \A p \in Processes :
        /\ proc[p].pc \in Keyless => proc[p].key = NoKey
        /\ proc[p].pc \in Writing => proc[p].key \in Keys

\* Until two first starts overlap, one process at most is writing the file, to
\* which no other holds a key, and whoever holds a key of the file can read it
\* there.
FileKept ==
    ~raced =>
        \A p \in Processes :
            /\ proc[p].pc = "write" => file = Absent
            /\ proc[p].pc = "flush" => file = Partial
            /\ proc[p].pc \in Writing =>
                 \A q \in Processes \ {p} : proc[q].pc \notin Writing
            /\ proc[p].pc \notin Writing /\ proc[p].key \in Keys => file = proc[p].key

LifeInv == LifeTypeOK /\ SchemaKept /\ KeysInPlace /\ FileKept

PCs == {"down", "lock", "migrate", "river", "pool", "secrets", "kek", "signer",
        "write", "flush", "launch", "jobs", "serving", "stopJobs", "unwind"}
HeldKeys == Keys \cup {NoKey, GivenKey}

LEMMA KeyTypes ==
    /\ \A k \in Keys : k \in Nat \ {0}
    /\ NoKey \notin Keys /\ GivenKey \notin Keys
    /\ Absent \notin Keys /\ Partial \notin Keys /\ Absent # Partial
<1>1. Cardinality(Processes) \in Nat
  BY LifecycleAssumption, FS_CardinalityType, Zenon
<1> QED
  BY <1>1 DEF Keys, NoKey, GivenKey, Absent, Partial

\* There are more keys than a process can see: one is new.
LEMMA FreshKey ==
    ASSUME LifeTypeOK, NEW p \in Processes
    PROVE  RandomKey \in Keys
<1> DEFINE n == Cardinality(Processes)
           used == {proc[q].key : q \in Processes}
<1>1. n \in Nat \ {0}
  BY LifecycleAssumption, FS_CardinalityType, FS_EmptySet, Zenon
<1>2. IsFiniteSet(used) /\ Cardinality(used) <= n
  <2> DEFINE f == [q \in Processes |-> proc[q].key]
  <2>1. f \in Surjection(Processes, used)
    BY Zenon DEF Surjection
  <2> HIDE DEF f, n, used
  <2> QED
    BY <2>1, LifecycleAssumption, FS_Surjection, Zenon DEF n
<1>3. Cardinality(used) \in Nat
  BY <1>2, FS_CardinalityType, Zenon
<1>4. /\ IsFiniteSet(used \cup {file})
      /\ Cardinality(used \cup {file}) \in {Cardinality(used), Cardinality(used) + 1}
  BY <1>2, FS_AddElement, Zenon
<1>5. Cardinality(Keys) = 2 * n + 1
  <2>1. 1 \in Int /\ 2 * n + 1 \in Int /\ 2 * n + 1 >= 1
    BY <1>1
  <2> HIDE DEF n
  <2>2. Cardinality(1 .. 2 * n + 1) = IF 1 > 2 * n + 1 THEN 0 ELSE (2 * n + 1) - 1 + 1
    BY <2>1, FS_Interval, Zenon
  <2>3. Cardinality(1 .. 2 * n + 1) = 2 * n + 1
    BY <1>1, <2>1, <2>2
  <2> QED
    BY <2>3, Zenon DEF Keys, n
<1> HIDE DEF n
<1>6. ~(Keys \subseteq used \cup {file})
  <2> SUFFICES ASSUME Keys \subseteq used \cup {file} PROVE FALSE
    BY Zenon
  <2>1. Cardinality(Keys) <= Cardinality(used \cup {file})
    BY <1>4, FS_Subset, Zenon
  <2> HIDE DEF used
  <2> QED
    BY <1>1, <1>2, <1>3, <1>4, <1>5, <2>1
<1>7. \E k \in Keys : k # file /\ \A q \in Processes : proc[q].key # k
  BY <1>6, Zenon
<1> QED
  BY <1>7, Zenon DEF RandomKey

-----------------------------------------------------------------------------
(* What the steps do to a process                                          *)

\* Process p is now at pc with that key in memory, and no other has moved.
Moved(p, pc, key) ==
    /\ proc' \in [Processes -> Process]
    /\ \A q \in Processes \ {p} : proc'[q] = proc[q]
    /\ proc'[p].pc = pc
    /\ proc'[p].key = key

LEMMA ProcessTypes ==
    ASSUME LifeTypeOK, NEW p \in Processes,
           NEW a \in PCs, NEW k \in HeldKeys, NEW d \in SUBSET Resources
    PROVE  /\ [proc EXCEPT ![p].pc = a, ![p].key = k] \in [Processes -> Process]
           /\ [proc EXCEPT ![p].pc = a, ![p].defers = d] \in [Processes -> Process]
           /\ [proc EXCEPT ![p].pc = a, ![p].key = k, ![p].defers = d]
                \in [Processes -> Process]
<1> DEFINE Shape == [pc : PCs, key : HeldKeys, defers : SUBSET Resources,
                     busy : SUBSET {"request", "job"}]
<1>1. Process = Shape
  BY Zenon DEF Process, PCs, HeldKeys
<1>2. proc \in [Processes -> Shape]
  BY <1>1, Zenon DEF LifeTypeOK
<1>3. /\ [proc EXCEPT ![p].pc = a, ![p].key = k] \in [Processes -> Shape]
      /\ [proc EXCEPT ![p].pc = a, ![p].defers = d] \in [Processes -> Shape]
      /\ [proc EXCEPT ![p].pc = a, ![p].key = k, ![p].defers = d]
            \in [Processes -> Shape]
  <2> DEFINE D == SUBSET Resources
             B == SUBSET {"request", "job"}
  <2>1. /\ proc \in [Processes -> [pc : PCs, key : HeldKeys, defers : D, busy : B]]
        /\ d \in D
    BY <1>2, Zenon
  <2> HIDE DEF D, B
  <2>2. /\ [proc EXCEPT ![p].pc = a, ![p].key = k]
              \in [Processes -> [pc : PCs, key : HeldKeys, defers : D, busy : B]]
        /\ [proc EXCEPT ![p].pc = a, ![p].defers = d]
              \in [Processes -> [pc : PCs, key : HeldKeys, defers : D, busy : B]]
        /\ [proc EXCEPT ![p].pc = a, ![p].key = k, ![p].defers = d]
              \in [Processes -> [pc : PCs, key : HeldKeys, defers : D, busy : B]]
    BY <2>1, Zenon
  <2> QED
    BY <2>2, Zenon DEF D, B
<1> HIDE DEF Shape
<1> QED
  BY <1>1, <1>3, Zenon

LEMMA GotoMoves ==
    ASSUME LifeTypeOK, NEW p \in Processes, NEW pc \in PCs, Goto(p, pc)
    PROVE  Moved(p, pc, proc[p].key)
BY DEF LifeTypeOK, Goto, Moved, Process, PCs

LEMMA ExitMoves ==
    ASSUME LifeTypeOK, NEW p \in Processes, Exit(p)
    PROVE  Moved(p, "unwind", NoKey)
<1>1. proc' \in [Processes -> Process]
  <2>1. "unwind" \in PCs /\ NoKey \in HeldKeys
    BY Zenon DEF PCs, HeldKeys
  <2> QED
    BY <2>1, ProcessTypes, Zenon DEF Exit
<1> QED
  BY <1>1 DEF LifeTypeOK, Exit, Moved, Process

LEMMA AcquiredMoves ==
    ASSUME LifeTypeOK, NEW p \in Processes, NEW pc \in PCs, NEW res \in Resources,
           Acquired(p, res, pc)
    PROVE  Moved(p, pc, proc[p].key)
<1>1. proc[p].defers \cup {res} \in SUBSET Resources
  BY Zenon DEF LifeTypeOK, Process
<1>2. proc' \in [Processes -> Process]
  <2> DEFINE d == proc[p].defers \cup {res}
  <2>1. NoKey \in HeldKeys /\ proc' = [proc EXCEPT ![p].pc = pc, ![p].defers = d]
    BY Zenon DEF HeldKeys, Acquired
  <2> HIDE DEF d
  <2> QED
    BY <1>1, <2>1, ProcessTypes, Zenon DEF d
<1> QED
  BY <1>2 DEF LifeTypeOK, Acquired, Moved, Process

LEMMA LoadedMoves ==
    ASSUME LifeTypeOK, NEW p \in Processes, NEW f \in Files, NEW key \in HeldKeys,
           Loaded(p, f, key)
    PROVE  Moved(p, IF f = "secrets" THEN "kek" ELSE "launch",
                 IF f = watched THEN key ELSE proc[p].key)
<1> DEFINE pc == IF f = "secrets" THEN "kek" ELSE "launch"
           k == IF f = watched THEN key ELSE proc[p].key
           d == IF f = "secrets" THEN proc[p].defers \cup {"keys"} ELSE proc[p].defers
<1>1. proc' = [proc EXCEPT ![p].pc = pc, ![p].key = k, ![p].defers = d]
  BY Zenon DEF Loaded
<1>2. pc \in PCs /\ k \in HeldKeys /\ d \in SUBSET Resources
  BY Zenon DEF LifeTypeOK, Process, PCs, HeldKeys, Resources
<1> HIDE DEF pc, k, d
<1>3. proc' \in [Processes -> Process]
  BY <1>1, <1>2, ProcessTypes, Zenon
<1>4. Moved(p, pc, k)
  BY <1>1, <1>3, Zenon DEF LifeTypeOK, Moved, Process
<1> QED
  BY <1>4, Zenon DEF pc, k

LEMMA GeneratedMoves ==
    ASSUME LifeTypeOK, NEW p \in Processes, Generated(p)
    PROVE  Moved(p, "write", RandomKey)
<1>1. RandomKey \in Keys
  BY FreshKey, Zenon
<1> QED
  <2>1. proc' \in [Processes -> Process]
    <3>1. "write" \in PCs /\ RandomKey \in HeldKeys
      BY <1>1, Zenon DEF PCs, HeldKeys
    <3> QED
      BY <3>1, ProcessTypes, Zenon DEF Generated
  <2> QED
    BY <2>1 DEF LifeTypeOK, Generated, Moved, Process

LEMMA GoneMoves ==
    ASSUME LifeTypeOK, NEW p \in Processes, Gone(p)
    PROVE  Moved(p, "down", NoKey)
BY Zenon DEF LifeTypeOK, Gone, NotRunning, Moved, Process

SchemaType == [ver : Nat, dirty : BOOLEAN, river : 0 .. RiverSteps,
               lock : Processes \cup {"free"}]

\* The migrations only add: what a process has secured stays secured.
LEMMA SchemaGrows ==
    ASSUME LifeInv, NEW p \in Processes, NEW pc, NEW key, Moved(p, pc, key),
           schema' \in SchemaType, schema'.ver >= schema.ver,
           schema'.river \in {schema.river, RiverSteps},
           reverted' = reverted \/ (pc = "down" /\ reverted' = reverted \ {p}),
           pc \in HasSchema => proc[p].pc \in HasSchema \/ schema'.ver >= ReleaseOf[p],
           pc \in HasRiver => proc[p].pc \in HasRiver \/ schema'.river = RiverSteps
    PROVE  SchemaKept'
<1> SUFFICES ASSUME NEW q \in Processes, q \notin reverted'
             PROVE  /\ proc'[q].pc \in HasSchema => schema'.ver >= ReleaseOf[q]
                    /\ proc'[q].pc \in HasRiver => schema'.river = RiverSteps
  BY Zenon DEF SchemaKept
<1>1. schema.ver \in Nat /\ schema'.ver \in Nat /\ ReleaseOf[q] \in Nat
  BY LifecycleAssumption, Zenon DEF LifeInv, LifeTypeOK, SchemaType
<1>2. q \notin reverted =>
        /\ proc[q].pc \in HasSchema => schema.ver >= ReleaseOf[q]
        /\ proc[q].pc \in HasRiver => schema.river = RiverSteps
  BY Zenon DEF LifeInv, SchemaKept
<1>3. CASE q = p
  <2>1. proc'[q].pc = pc
    BY <1>3, Zenon DEF Moved
  <2>2. CASE pc = "down"
    BY <2>1, <2>2, Zenon DEF HasSchema, HasRiver
  <2>3. CASE pc # "down"
    <3>1. q \notin reverted
      BY <2>3, Zenon
    <3>2. pc \in HasSchema => schema'.ver >= ReleaseOf[q]
      BY <1>1, <1>2, <1>3, <3>1
    <3>3. pc \in HasRiver => schema'.river = RiverSteps
      BY <1>2, <1>3, <3>1, Zenon
    <3> QED
      BY <2>1, <3>2, <3>3, Zenon
  <2> QED
    BY <2>2, <2>3, Zenon
<1>4. CASE q # p
  <2>1. proc'[q].pc = proc[q].pc /\ q \notin reverted
    BY <1>4, Zenon DEF Moved
  <2> QED
    BY <1>1, <1>2, <2>1
<1> QED
  BY <1>3, <1>4, Zenon

\* A step that neither writes the file nor is about to: a key in memory is the
\* one that was there, or the one in the file.
LEMMA KeysStay ==
    ASSUME LifeInv, NEW p \in Processes, NEW pc, NEW key, Moved(p, pc, key),
           file' = file, raced' = raced,
           pc \notin Writing, pc \in Keyless => key = NoKey,
           key \in Keys =>
             key = file \/ (proc[p].pc \notin Writing /\ key = proc[p].key)
    PROVE  KeysInPlace' /\ FileKept'
<1>1. KeysInPlace'
  BY Zenon DEF LifeInv, KeysInPlace, Moved
<1>2. FileKept'
  <2> SUFFICES ASSUME ~raced, NEW q \in Processes
               PROVE  /\ proc'[q].pc = "write" => file = Absent
                      /\ proc'[q].pc = "flush" => file = Partial
                      /\ proc'[q].pc \in Writing =>
                           \A r \in Processes \ {q} : proc'[r].pc \notin Writing
                      /\ proc'[q].pc \notin Writing /\ proc'[q].key \in Keys =>
                           file = proc'[q].key
    BY Zenon DEF FileKept
  <2>1. \A r \in Processes :
           /\ proc[r].pc = "write" => file = Absent
           /\ proc[r].pc = "flush" => file = Partial
           /\ proc[r].pc \in Writing =>
                \A s \in Processes \ {r} : proc[s].pc \notin Writing
           /\ proc[r].pc \notin Writing /\ proc[r].key \in Keys => file = proc[r].key
    BY Zenon DEF LifeInv, FileKept
  <2>2. CASE q = p
    <3>1. proc'[q].pc = pc /\ proc'[q].key = key
      BY <2>2, Zenon DEF Moved
    <3>2. pc # "write" /\ pc # "flush"
      BY Zenon DEF Writing
    <3>3. key \in Keys => file = key
      BY <2>1, Zenon
    <3> QED
      BY <3>1, <3>2, <3>3, Zenon
  <2>3. CASE q # p
    <3>1. proc'[q] = proc[q]
      BY <2>3, Zenon DEF Moved
    <3>2. ASSUME proc[q].pc \in Writing, NEW r \in Processes \ {q}
          PROVE  proc'[r].pc \notin Writing
      <4>1. CASE r = p
        BY <4>1, Zenon DEF Moved
      <4>2. CASE r # p
        BY <2>1, <3>2, <4>2, Zenon DEF Moved
      <4> QED
        BY <4>1, <4>2, Zenon
    <3> QED
      BY <2>1, <3>1, <3>2, Zenon
  <2> QED
    BY <2>2, <2>3, Zenon
<1> QED
  BY <1>1, <1>2, Zenon

\* The schema only grows, and has what the place of p in the start asks for.
Secured(p, pc) ==
    /\ schema' \in SchemaType
    /\ schema'.ver >= schema.ver
    /\ schema'.river \in {schema.river, RiverSteps}
    /\ reverted' = reverted \/ (pc = "down" /\ reverted' = reverted \ {p})
    /\ pc \in HasSchema => proc[p].pc \in HasSchema \/ schema'.ver >= ReleaseOf[p]
    /\ pc \in HasRiver => proc[p].pc \in HasRiver \/ schema'.river = RiverSteps

\* The key in memory is the one that was there, or the one in the file.
SameKey(p, pc, key) ==
    /\ pc \notin Writing
    /\ pc \in Keyless => key = NoKey
    /\ key \in Keys => key = file \/ (proc[p].pc \notin Writing /\ key = proc[p].key)

\* Such a step keeps the whole invariant.
LEMMA StepKeeps ==
    ASSUME LifeInv, NEW p \in Processes, NEW pc, NEW key, Moved(p, pc, key),
           UNCHANGED <<watched, file, op, raced>>, Secured(p, pc), SameKey(p, pc, key)
    PROVE  LifeInv'
<1>1. SchemaKept'
  BY SchemaGrows, Zenon DEF Secured
<1>2. KeysInPlace' /\ FileKept'
  BY KeysStay, Zenon DEF SameKey
<1>3. LifeTypeOK'
  <2>1. reverted' \subseteq Processes
    BY Zenon DEF LifeInv, LifeTypeOK, Secured
  <2> QED
    BY <2>1, Zenon DEF LifeInv, LifeTypeOK, Moved, SchemaType, Secured
<1> QED
  BY <1>1, <1>2, <1>3, Zenon DEF LifeInv

LEMMA QuietSecures ==
    ASSUME LifeInv, NEW p \in Processes, NEW pc, UNCHANGED <<schema, reverted>>,
           pc \in HasSchema => proc[p].pc \in HasSchema,
           pc \in HasRiver => proc[p].pc \in HasRiver
    PROVE  Secured(p, pc)
<1>1. schema' \in SchemaType /\ schema'.ver >= schema.ver
  BY DEF LifeInv, LifeTypeOK, SchemaType
<1>2. schema'.river \in {schema.river, RiverSteps} /\ reverted' = reverted
  BY Zenon
<1> QED
  BY <1>1, <1>2, Zenon DEF Secured

\* The others: a step back to the deferred closes, or out of the process.
LEMMA LeavesKeep ==
    ASSUME LifeInv, NEW p \in Processes, Exit(p),
           UNCHANGED <<schema, watched, file, op, reverted, raced>>
    PROVE  LifeInv'
<1>1. Moved(p, "unwind", NoKey)
  BY ExitMoves, Zenon DEF LifeInv
<1>2. Secured(p, "unwind")
  BY QuietSecures DEF HasSchema, HasRiver
<1>3. SameKey(p, "unwind", NoKey)
  BY KeyTypes, Zenon DEF SameKey, Writing
<1> QED
  BY <1>1, <1>2, <1>3, StepKeeps, Zenon

\* A step to another place with the same key.
LEMMA GoesOn ==
    ASSUME LifeInv, NEW p \in Processes, NEW pc, Moved(p, pc, proc[p].key),
           UNCHANGED <<schema, watched, file, op, reverted, raced>>,
           pc \in HasSchema => proc[p].pc \in HasSchema,
           pc \in HasRiver => proc[p].pc \in HasRiver,
           pc \notin Writing, proc[p].pc \notin Writing,
           pc \in Keyless => proc[p].pc \in Keyless
    PROVE  LifeInv'
<1>1. Secured(p, pc)
  BY QuietSecures, Zenon
<1>2. SameKey(p, pc, proc[p].key)
  BY Zenon DEF SameKey, LifeInv, KeysInPlace
<1> QED
  BY <1>1, <1>2, StepKeeps, Zenon

-----------------------------------------------------------------------------
(* One lemma per group of actions                                          *)

LEMMA LoadConfigKeeps ==
    ASSUME LifeInv, NEW p \in Processes, LoadConfig(p)
    PROVE  LifeInv'
<1>1. LifeTypeOK /\ proc[p].pc = "down" /\ proc[p].key = NoKey
  BY Zenon DEF LoadConfig, At, LifeInv, KeysInPlace, Keyless
<1>2. UNCHANGED <<schema, watched, file, op, reverted>>
  BY Zenon DEF LoadConfig
<1>3. PICK pc \in {"lock", "unwind"} : Moved(p, pc, NoKey)
  <2>1. CASE Goto(p, "lock")
    BY <1>1, <2>1, GotoMoves, Zenon DEF PCs
  <2>2. CASE Exit(p)
    BY <1>1, <2>2, ExitMoves, Zenon
  <2> QED
    BY <2>1, <2>2, Zenon DEF LoadConfig
<1>4. Secured(p, pc)
  BY <1>2, <1>3, QuietSecures, Zenon DEF HasSchema, HasRiver
<1>5. CASE raced' = raced
  <2>1. SameKey(p, pc, NoKey)
    BY <1>3, KeyTypes, Zenon DEF SameKey, Writing
  <2> QED
    BY <1>2, <1>3, <1>4, <1>5, <2>1, StepKeeps, Zenon
\* The last process of an overlap is gone.
<1>6. CASE raced' # raced
  <2>1. raced' = FALSE /\ \A q \in Processes : proc[q].pc = "down"
    <3>1. raced \in BOOLEAN /\ raced' = (raced /\ \E q \in Processes : ~At(q, "down"))
      BY Zenon DEF LoadConfig, LifeInv, LifeTypeOK
    <3> QED
      BY <1>6, <3>1, Zenon DEF At
  <2>2. \A q \in Processes : proc'[q].pc \notin Writing /\ proc'[q].key = NoKey
    BY <1>3, <2>1, Zenon DEF Moved, Writing, LifeInv, KeysInPlace, Keyless
  <2>3. FileKept' /\ KeysInPlace'
    BY <2>2, KeyTypes, Zenon DEF FileKept, KeysInPlace, Writing
  <2>4. SchemaKept'
    BY <1>3, <1>4, SchemaGrows, Zenon DEF Secured
  <2>5. LifeTypeOK'
    BY <1>1, <1>2, <1>3, <2>1, Zenon DEF LifeTypeOK, Moved
  <2> QED
    BY <2>3, <2>4, <2>5, Zenon DEF LifeInv
<1> QED
  BY <1>5, <1>6, Zenon

LEMMA MigrationsKeep ==
    ASSUME LifeInv, NEW p \in Processes,
           MigrateLock(p) \/ MigrateStep(p) \/ MigrateDone(p) \/ RunRiverMigrations(p)
    PROVE  LifeInv'
<1>1. /\ LifeTypeOK /\ schema \in SchemaType /\ UNCHANGED <<watched, file, op, reverted, raced>>
      /\ proc[p].pc \in {"lock", "migrate", "river"} /\ proc[p].key = NoKey
  BY Zenon DEF MigrateLock, MigrateStep, MigrateDone, RunRiverMigrations, At,
         LifeInv, LifeTypeOK, SchemaType, KeysInPlace, Keyless
<1>2. PICK pc \in {"lock", "migrate", "river", "pool", "unwind"} :
         /\ Moved(p, pc, NoKey)
         /\ pc = "river" => proc[p].pc = "river" \/ schema'.ver >= ReleaseOf[p]
         /\ pc = "pool" => proc[p].pc = "river" /\ schema'.river = RiverSteps
  <2>1. ASSUME Exit(p) PROVE Moved(p, "unwind", NoKey)
    BY <1>1, <2>1, ExitMoves, Zenon
  <2>2. ASSUME UNCHANGED proc PROVE Moved(p, proc[p].pc, NoKey)
    BY <1>1, <2>2, Zenon DEF Moved, LifeTypeOK
  <2>3. ASSUME NEW pc \in PCs, Goto(p, pc) PROVE Moved(p, pc, NoKey)
    BY <1>1, <2>3, GotoMoves, Zenon
  <2>4. CASE MigrateLock(p)
    <3>1. CASE Goto(p, "migrate")
      BY <2>3, <3>1, Zenon DEF PCs
    <3> QED
      BY <2>1, <2>4, <3>1, Zenon DEF MigrateLock
  <2>5. CASE MigrateStep(p)
    <3>1. proc[p].pc = "migrate"
      BY <2>5, Zenon DEF MigrateStep, At
    <3> QED
      BY <2>1, <2>2, <2>5, <3>1, Zenon DEF MigrateStep
  <2>6. CASE MigrateDone(p)
    <3>1. Moved(p, "river", NoKey)
      BY <2>3, <2>6, Zenon DEF MigrateDone, PCs
    <3>2. schema'.ver >= ReleaseOf[p]
      BY <1>1, <2>6, LifecycleAssumption DEF MigrateDone, SchemaType
    <3> QED
      BY <3>1, <3>2, Zenon
  <2>7. CASE RunRiverMigrations(p)
    <3>1. CASE Goto(p, "pool") /\ schema' = [schema EXCEPT !.river = RiverSteps]
      <4>1. Moved(p, "pool", NoKey)
        BY <2>3, <3>1, Zenon DEF PCs
      <4>2. proc[p].pc = "river" /\ schema'.river = RiverSteps
        BY <1>1, <2>7, <3>1, Zenon DEF RunRiverMigrations, At, SchemaType
      <4> QED
        BY <4>1, <4>2, Zenon
    <3> QED
      BY <2>1, <2>7, <3>1, Zenon DEF RunRiverMigrations
  <2> QED
    BY <2>4, <2>5, <2>6, <2>7, Zenon
<1>3. /\ schema' \in SchemaType /\ schema'.ver >= schema.ver
      /\ schema'.river \in {schema.river, RiverSteps}
  <2>1. RiverSteps \in 0 .. RiverSteps /\ schema.ver \in Nat
    BY <1>1, LifecycleAssumption DEF SchemaType
  <2>2. CASE MigrateLock(p)
    BY <1>1, <2>1, <2>2 DEF MigrateLock, SchemaType
  <2>3. CASE MigrateStep(p)
    <3>1. CASE schema' = [schema EXCEPT !.ver = @ + 1, !.dirty = TRUE]
      <4>1. schema.ver + 1 \in Nat /\ TRUE \in BOOLEAN
        BY <2>1
      <4>2. schema' \in SchemaType
        BY <1>1, <3>1, <4>1, Zenon DEF SchemaType
      <4>3. schema'.ver = schema.ver + 1 /\ schema'.river = schema.river
        BY <1>1, <3>1, Zenon DEF SchemaType
      <4> QED
        BY <2>1, <4>2, <4>3
    <3>2. CASE schema' = [schema EXCEPT !.dirty = FALSE]
      <4>1. schema' \in SchemaType
        BY <1>1, <3>2, Zenon DEF SchemaType
      <4>2. schema'.ver = schema.ver /\ schema'.river = schema.river
        BY <1>1, <3>2, Zenon DEF SchemaType
      <4> QED
        BY <2>1, <4>1, <4>2
    <3>3. CASE schema' = [schema EXCEPT !.lock = "free"]
      BY <1>1, <2>1, <3>3 DEF SchemaType
    <3> QED
      BY <2>3, <3>1, <3>2, <3>3, Zenon DEF MigrateStep
  <2>4. CASE MigrateDone(p)
    BY <1>1, <2>1, <2>4 DEF MigrateDone, SchemaType
  <2>5. CASE RunRiverMigrations(p)
    BY <1>1, <2>1, <2>5 DEF RunRiverMigrations, SchemaType
  <2> QED
    BY <2>2, <2>3, <2>4, <2>5, Zenon
<1>4. Secured(p, pc)
  <2>1. pc \in HasSchema => proc[p].pc \in HasSchema \/ schema'.ver >= ReleaseOf[p]
    BY <1>2, Zenon DEF HasSchema
  <2>2. pc \in HasRiver => proc[p].pc \in HasRiver \/ schema'.river = RiverSteps
    BY <1>2, Zenon DEF HasRiver, HasSchema
  <2> QED
    BY <1>1, <1>3, <2>1, <2>2, Zenon DEF Secured
<1>5. SameKey(p, pc, NoKey)
  BY <1>2, KeyTypes, Zenon DEF SameKey, Writing
<1> QED
  BY <1>1, <1>2, <1>4, <1>5, StepKeeps, Zenon

\* A key comes from the configuration, from the file, or from another file.
LEMMA LoadedKeeps ==
    ASSUME LifeInv, NEW p \in Processes, NEW f \in Files, NEW key \in HeldKeys,
           proc[p].pc \in {"secrets", "signer"}, Loaded(p, f, key),
           f = watched /\ key \in Keys => key = file,
           UNCHANGED <<schema, watched, file, op, reverted, raced>>
    PROVE  LifeInv'
<1> DEFINE pc == IF f = "secrets" THEN "kek" ELSE "launch"
           k == IF f = watched THEN key ELSE proc[p].key
<1>1. Moved(p, pc, k)
  BY LoadedMoves, Zenon DEF LifeInv
<1>2. pc \in {"kek", "launch"}
  BY Zenon
<1>3. k \in Keys => k = file \/ k = proc[p].key
  BY Zenon
<1> HIDE DEF pc, k
<1>4. Secured(p, pc)
  BY <1>2, QuietSecures, Zenon DEF HasSchema, HasRiver
<1>5. SameKey(p, pc, k)
  BY <1>2, <1>3, Zenon DEF SameKey, Writing, Keyless
<1> QED
  BY <1>1, <1>4, <1>5, StepKeeps, Zenon

\* Nobody else is about to write, or the two have raced.
LEMMA GeneratedKeeps ==
    ASSUME LifeInv, NEW p \in Processes, proc[p].pc \in {"secrets", "signer"},
           file = Absent, Generated(p), UNCHANGED <<schema, watched, file, op, reverted>>
    PROVE  LifeInv'
<1>1. LifeTypeOK /\ Moved(p, "write", RandomKey)
  BY GeneratedMoves, Zenon DEF LifeInv
<1>2. raced \in BOOLEAN /\ raced' = (raced \/ \E q \in Processes : At(q, "write"))
  BY Zenon DEF Generated, LifeInv, LifeTypeOK
<1>3. Secured(p, "write")
  BY QuietSecures, Zenon DEF HasSchema, HasRiver
<1>4. SchemaKept'
  BY <1>1, <1>3, SchemaGrows, Zenon DEF Secured
<1>5. LifeTypeOK'
  <2>1. raced' \in BOOLEAN
    BY <1>2, Zenon
  <2> QED
    BY <1>1, <2>1, Zenon DEF LifeTypeOK, Moved
<1>6. KeysInPlace'
  BY <1>1, FreshKey, Zenon DEF LifeInv, KeysInPlace, Moved, Keyless
<1>7. FileKept'
  <2> SUFFICES ASSUME ~raced'
               PROVE  \A q \in Processes :
                        /\ proc'[q].pc = "write" => file' = Absent
                        /\ proc'[q].pc = "flush" => file' = Partial
                        /\ proc'[q].pc \in Writing =>
                             \A r \in Processes \ {q} : proc'[r].pc \notin Writing
                        /\ proc'[q].pc \notin Writing /\ proc'[q].key \in Keys =>
                             file' = proc'[q].key
    BY Zenon DEF FileKept
  <2>1. ~raced /\ \A q \in Processes : proc[q].pc # "write"
    BY <1>2, Zenon DEF At
  <2>2. \A q \in Processes : proc[q].pc \notin Writing /\ proc[q].key \notin Keys
    BY <2>1, KeyTypes, Zenon DEF LifeInv, FileKept, Writing
  <2>3. \A q \in Processes \ {p} : proc'[q].pc \notin Writing /\ proc'[q].key \notin Keys
    BY <1>1, <2>2, Zenon DEF Moved
  <2>4. proc'[p].pc = "write" /\ file' = Absent
    BY <1>1, Zenon DEF Moved
  <2> QED
    BY <2>3, <2>4, Zenon DEF Writing
<1> QED
  BY <1>4, <1>5, <1>6, <1>7, Zenon DEF LifeInv

LEMMA LoadsKeep ==
    ASSUME LifeInv, NEW p \in Processes, LoadSecrets(p) \/ NewLocalSigner(p)
    PROVE  LifeInv'
<1>1. /\ proc[p].pc \in {"secrets", "signer"} /\ LifeTypeOK
      /\ UNCHANGED <<schema, watched, file, op, reverted>>
  BY Zenon DEF LoadSecrets, NewLocalSigner, At, LifeInv
<1>2. ASSUME Exit(p), UNCHANGED raced PROVE LifeInv'
  BY <1>1, <1>2, LeavesKeep, Zenon
<1>3. ASSUME NEW f \in Files, LoadOrGenerate(p, f) PROVE LifeInv'
  <2>1. ASSUME Loaded(p, f, NoKey), UNCHANGED raced PROVE LifeInv'
    <3>1. NoKey \in HeldKeys /\ NoKey \notin Keys
      BY KeyTypes, Zenon DEF HeldKeys
    <3> QED
      BY <1>1, <2>1, <3>1, LoadedKeeps, Zenon
  <2>2. ASSUME file \in Keys, Loaded(p, f, file), UNCHANGED raced PROVE LifeInv'
    <3>1. file \in HeldKeys
      BY <2>2, Zenon DEF HeldKeys
    <3> QED
      BY <1>1, <2>2, <3>1, LoadedKeeps, Zenon
  <2>3. ASSUME file = Absent, Generated(p) PROVE LifeInv'
    BY <1>1, <2>3, GeneratedKeeps, Zenon
  <2> QED
    BY <1>2, <1>3, <2>1, <2>2, <2>3, Zenon DEF LoadOrGenerate
<1>4. ASSUME Loaded(p, "secrets", GivenKey), UNCHANGED raced PROVE LifeInv'
  <2>1. GivenKey \in HeldKeys /\ GivenKey \notin Keys /\ "secrets" \in Files
    BY KeyTypes, Zenon DEF HeldKeys, Files
  <2> QED
    BY <1>1, <1>4, <2>1, LoadedKeeps, Zenon
<1>5. "secrets" \in Files /\ "signer" \in Files
  BY Zenon DEF Files
<1> QED
  BY <1>2, <1>3, <1>4, <1>5, Zenon DEF LoadSecrets, NewLocalSigner

\* os.WriteFile.  The file of a process that writes is nobody else's key.
LEMMA WritesKeep ==
    ASSUME LifeInv, NEW p \in Processes, WriteOpen(p) \/ WriteFile(p)
    PROVE  LifeInv'
<1>1. /\ proc[p].pc \in Writing /\ proc[p].key \in Keys /\ LifeTypeOK
      /\ UNCHANGED <<schema, watched, op, reverted, raced>>
  BY Zenon DEF WriteOpen, WriteFile, At, LifeInv, Writing, KeysInPlace
<1>2. ASSUME ~raced, NEW q \in Processes \ {p}
      PROVE  proc[q].pc \notin Writing /\ proc[q].key \notin Keys
  <2>1. proc[q].pc \notin Writing /\ file \in {Absent, Partial}
    BY <1>1, <1>2, Zenon DEF LifeInv, FileKept, Writing
  <2>2. proc[q].key \in Keys => file = proc[q].key
    BY <1>2, <2>1, Zenon DEF LifeInv, FileKept
  <2> QED
    BY <2>1, <2>2, KeyTypes, Zenon
<1>3. ASSUME NEW pc, NEW key, Moved(p, pc, key), pc \in {"flush", "kek", "launch"},
             file' \in Keys \cup {Absent, Partial},
             pc = "flush" => file' = Partial /\ key \in Keys,
             pc # "flush" /\ key \in Keys => file' = key
      PROVE  LifeInv'
  <2>1. Secured(p, pc)
    BY <1>1, <1>3, QuietSecures, Zenon DEF HasSchema, HasRiver, Writing
  <2>2. SchemaKept'
    BY <1>3, <2>1, SchemaGrows, Zenon DEF Secured
  <2>3. LifeTypeOK'
    BY <1>1, <1>3, Zenon DEF LifeTypeOK, Moved
  <2>4. KeysInPlace'
    BY <1>3, Zenon DEF LifeInv, KeysInPlace, Moved, Keyless, Writing
  <2>5. FileKept'
    <3> SUFFICES ASSUME ~raced
                 PROVE  \A q \in Processes :
                          /\ proc'[q].pc = "write" => file' = Absent
                          /\ proc'[q].pc = "flush" => file' = Partial
                          /\ proc'[q].pc \in Writing =>
                               \A r \in Processes \ {q} : proc'[r].pc \notin Writing
                          /\ proc'[q].pc \notin Writing /\ proc'[q].key \in Keys =>
                               file' = proc'[q].key
      BY <1>1, Zenon DEF FileKept
    <3>1. \A q \in Processes \ {p} : proc'[q].pc \notin Writing /\ proc'[q].key \notin Keys
      BY <1>2, <1>3, Zenon DEF Moved
    <3>2. proc'[p].pc = pc /\ proc'[p].key = key
      BY <1>3, Zenon DEF Moved
    <3> QED
      BY <1>3, <3>1, <3>2, Zenon DEF Writing
  <2> QED
    BY <2>2, <2>3, <2>4, <2>5, Zenon DEF LifeInv
<1>4. ASSUME Exit(p), UNCHANGED file PROVE LifeInv'
  BY <1>1, <1>4, LeavesKeep, Zenon
<1>5. CASE Goto(p, "flush") /\ file' = Partial
  <2>1. Moved(p, "flush", proc[p].key)
    BY <1>1, <1>5, GotoMoves, Zenon DEF PCs
  <2> QED
    BY <1>1, <1>3, <1>5, <2>1, Zenon
<1>6. CASE Loaded(p, watched, proc[p].key) /\ file' = proc[p].key
  <2> DEFINE pc == IF watched = "secrets" THEN "kek" ELSE "launch"
  <2>1. watched \in Files /\ proc[p].key \in HeldKeys
    BY <1>1, Zenon DEF LifeTypeOK, Process, HeldKeys
  <2>2. Moved(p, pc, proc[p].key)
    BY <1>1, <1>6, <2>1, LoadedMoves, Zenon
  <2>3. pc \in {"kek", "launch"}
    BY Zenon
  <2> HIDE DEF pc
  <2> QED
    BY <1>1, <1>3, <1>6, <2>2, <2>3, Zenon
<1> QED
  BY <1>4, <1>5, <1>6, Zenon DEF WriteOpen, WriteFile

\* The rest of the start, the work, and the stop.
LEMMA ServiceKeeps ==
    ASSUME LifeInv, NEW p \in Processes,
           \/ StartPool(p) \/ NewMFAKEK(p) \/ StartJobs(p) \/ StartAPI(p)
           \/ StopAPI(p) \/ StopJobs(p)
    PROVE  LifeInv'
<1>1. LifeTypeOK /\ UNCHANGED <<schema, watched, file, op, reverted, raced>>
  BY Zenon DEF LifeInv, StartPool, NewMFAKEK, StartJobs, StartAPI, StopAPI, StopJobs
<1>2. ASSUME Exit(p) PROVE LifeInv'
  BY <1>1, <1>2, LeavesKeep, Zenon
<1>3. ASSUME NEW pc, Moved(p, pc, proc[p].key),
             \/ proc[p].pc = "pool" /\ pc = "secrets"
             \/ proc[p].pc = "kek" /\ pc = "signer"
             \/ proc[p].pc = "launch" /\ pc = "jobs"
             \/ proc[p].pc = "jobs" /\ pc = "serving"
             \/ proc[p].pc \in {"jobs", "serving"} /\ pc = "stopJobs"
      PROVE  LifeInv'
  BY <1>1, <1>3, GoesOn, Zenon DEF HasSchema, HasRiver, Writing, Keyless
<1>4. ASSUME NEW pc \in PCs, Goto(p, pc) PROVE Moved(p, pc, proc[p].key)
  BY <1>1, <1>4, GotoMoves, Zenon
<1>5. CASE StartPool(p)
  <2>1. ASSUME Acquired(p, "pool", "secrets") PROVE Moved(p, "secrets", proc[p].key)
    BY <1>1, <2>1, AcquiredMoves, Zenon DEF PCs, Resources
  <2> QED
    BY <1>2, <1>3, <1>5, <2>1, Zenon DEF StartPool, At
<1>6. CASE NewMFAKEK(p)
  BY <1>2, <1>3, <1>4, <1>6, Zenon DEF NewMFAKEK, At, PCs
<1>7. CASE StartJobs(p)
  BY <1>2, <1>3, <1>4, <1>7, Zenon DEF StartJobs, At, PCs
<1>8. CASE StartAPI(p)
  BY <1>3, <1>4, <1>8, Zenon DEF StartAPI, At, PCs
<1>9. CASE StopAPI(p)
  BY <1>3, <1>4, <1>9, Zenon DEF StopAPI, At, PCs
<1>10. CASE StopJobs(p)
  BY <1>2, <1>10, Zenon DEF StopJobs
<1> QED
  BY <1>5, <1>6, <1>7, <1>8, <1>9, <1>10, Zenon

LEMMA WorkKeeps ==
    ASSUME LifeInv, NEW p \in Processes, NEW u \in {"request", "job"},
           Begin(p, u) \/ End(p, u)
    PROVE  LifeInv'
<1>1. LifeTypeOK /\ UNCHANGED <<schema, watched, file, op, reverted, raced>>
  BY Zenon DEF LifeInv, Begin, End
<1>2. PICK b \in SUBSET {"request", "job"} : proc' = [proc EXCEPT ![p].busy = b]
  <2>1. proc[p].busy \in SUBSET {"request", "job"}
    BY <1>1, Zenon DEF LifeTypeOK, Process
  <2>2. CASE Begin(p, u)
    BY <2>1, <2>2, Zenon DEF Begin
  <2>3. CASE End(p, u)
    BY <2>1, <2>3, Zenon DEF End
  <2> QED
    BY <2>2, <2>3, Zenon
<1>3. \A q \in Processes : proc'[q].pc = proc[q].pc /\ proc'[q].key = proc[q].key
  BY <1>1, <1>2 DEF LifeTypeOK, Process
<1>4. proc' \in [Processes -> Process]
  BY <1>1, <1>2 DEF LifeTypeOK, Process
<1>5. LifeTypeOK'
  BY <1>1, <1>4, Zenon DEF LifeTypeOK
<1>6. SchemaKept' /\ KeysInPlace'
  BY <1>1, <1>3, Zenon DEF LifeInv, SchemaKept, KeysInPlace
<1>7. FileKept'
  BY <1>1, <1>3, Zenon DEF LifeInv, FileKept
<1> QED
  BY <1>5, <1>6, <1>7, Zenon DEF LifeInv

\* The deferred closes, and the end of a process.
LEMMA EndsKeep ==
    ASSUME LifeInv, NEW p \in Processes, Unwind(p) \/ Crash(p)
    PROVE  LifeInv'
<1>1. LifeTypeOK /\ schema \in SchemaType /\ UNCHANGED <<watched, file, op, raced>>
  BY Zenon DEF LifeInv, LifeTypeOK, SchemaType, Unwind, Crash
<1>2. ASSUME Gone(p), schema' \in SchemaType, schema'.ver = schema.ver,
             schema'.river = schema.river
      PROVE  LifeInv'
  <2>1. Moved(p, "down", NoKey) /\ reverted' = reverted \ {p}
    BY <1>1, <1>2, GoneMoves, Zenon DEF Gone
  <2>2. schema'.ver >= schema.ver
    BY <1>1, <1>2 DEF SchemaType
  <2>3. Secured(p, "down")
    BY <1>2, <2>1, <2>2, Zenon DEF Secured, HasSchema, HasRiver
  <2>4. SameKey(p, "down", NoKey)
    BY KeyTypes, Zenon DEF SameKey, Writing
  <2> QED
    BY <1>1, <2>1, <2>3, <2>4, StepKeeps, Zenon
<1>3. CASE Unwind(p)
  <2>1. schema' = schema /\ proc[p].pc = "unwind"
    BY <1>3, Zenon DEF Unwind, At
  <2>2. ASSUME proc' = [proc EXCEPT ![p].defers = @ \ {"keys"}], UNCHANGED reverted
        PROVE  LifeInv'
    <3>1. Moved(p, "unwind", proc[p].key)
      BY <1>1, <2>1, <2>2 DEF Moved, LifeTypeOK, Process
    <3> QED
      BY <1>1, <2>1, <2>2, <3>1, GoesOn, Zenon DEF HasSchema, HasRiver, Writing
  <2> QED
    BY <1>1, <1>2, <1>3, <2>1, <2>2, Zenon DEF Unwind
<1>4. CASE Crash(p)
  <2>1. schema' = [schema EXCEPT !.lock = IF @ = p THEN "free" ELSE @] /\ Gone(p)
    BY <1>4, Zenon DEF Crash
  <2>2. /\ schema' \in SchemaType /\ schema'.ver = schema.ver
        /\ schema'.river = schema.river
    BY <1>1, <2>1, Zenon DEF SchemaType
  <2> QED
    BY <1>2, <2>1, <2>2, Zenon
<1> QED
  BY <1>3, <1>4, Zenon

\* `migrations down` and `drop`: whoever could miss what they take is reverted.
LEMMA CommandsKeep ==
    ASSUME LifeInv, MigrationsDown \/ MigrationsDownApp \/ MigrationsDrop
    PROVE  LifeInv'
<1>1. /\ LifeTypeOK /\ schema \in SchemaType
      /\ UNCHANGED <<proc, watched, file, raced>>
  BY Zenon DEF LifeInv, LifeTypeOK, SchemaType, MigrationsDown, MigrationsDownApp,
         MigrationsDrop
<1>2. op' \in {"idle", "app"}
  BY <1>1, Zenon DEF LifeTypeOK, MigrationsDown, MigrationsDownApp, MigrationsDrop
<1>3. KeysInPlace' /\ FileKept'
  BY <1>1, Zenon DEF LifeInv, KeysInPlace, FileKept
<1>4. /\ schema' \in SchemaType
      /\ UNCHANGED <<schema, reverted>> \/ reverted' = reverted \cup Alive
  <2>1. schema.ver \in Nat /\ schema.river \in 0 .. RiverSteps /\ RiverSteps \in Nat
    BY <1>1, LifecycleAssumption, Zenon DEF SchemaType
  <2>2. CASE MigrationsDown
    <3> DEFINE r == IF schema.river > 0 THEN schema.river - 1 ELSE 0
    <3>1. r \in 0 .. RiverSteps
      BY <2>1
    <3>2. schema' = [schema EXCEPT !.river = r]
      BY <2>2, Zenon DEF MigrationsDown
    <3> HIDE DEF r
    <3> QED
      BY <1>1, <2>2, <3>1, <3>2, Zenon DEF MigrationsDown, SchemaType
  <2>3. CASE MigrationsDownApp
    <3>1. CASE UNCHANGED <<schema, reverted>>
      BY <1>1, <3>1, Zenon
    <3>2. CASE ~UNCHANGED <<schema, reverted>>
      <4>1. PICK d \in BOOLEAN : schema' = [schema EXCEPT !.ver = @ - 1, !.dirty = d]
        BY <2>3, <3>2, Zenon DEF MigrationsDownApp
      <4>2. schema.ver > 0 /\ reverted' = reverted \cup Alive
        BY <2>3, <3>2, Zenon DEF MigrationsDownApp
      <4>3. schema.ver - 1 \in Nat
        BY <2>1, <4>2
      <4>4. schema' \in SchemaType
        BY <1>1, <4>1, <4>3, Zenon DEF SchemaType
      <4> QED
        BY <4>2, <4>4, Zenon
    <3> QED
      BY <3>1, <3>2, Zenon
  <2>4. CASE MigrationsDrop
    <3>1. 0 \in Nat /\ 0 \in 0 .. RiverSteps /\ FALSE \in BOOLEAN
      BY <2>1
    <3>2. schema' \in SchemaType
      BY <1>1, <2>4, <3>1, Zenon DEF MigrationsDrop, SchemaType
    <3> QED
      BY <2>4, <3>2, Zenon DEF MigrationsDrop
  <2> QED
    BY <2>2, <2>3, <2>4, Zenon
<1>5. SchemaKept'
  <2>1. CASE UNCHANGED <<schema, reverted>>
    BY <1>1, <2>1, Zenon DEF LifeInv, SchemaKept
  <2>2. CASE reverted' = reverted \cup Alive
    BY <1>1, <2>2, Zenon DEF SchemaKept, Alive, At, HasSchema, HasRiver
  <2> QED
    BY <1>4, <2>1, <2>2, Zenon
<1>6. LifeTypeOK'
  BY <1>1, <1>2, <1>4, Zenon DEF LifeTypeOK, SchemaType, Alive
<1> QED
  BY <1>3, <1>5, <1>6, Zenon DEF LifeInv

LEMMA RemoveKeeps ==
    ASSUME LifeInv, RemoveFile
    PROVE  LifeInv'
<1>1. /\ file = Partial /\ file' = Absent
      /\ UNCHANGED <<proc, schema, watched, op, reverted, raced>>
      /\ \A p \in Processes : proc[p].pc # "flush"
  BY Zenon DEF RemoveFile, At
<1>2. LifeTypeOK'
  BY <1>1, Zenon DEF LifeInv, LifeTypeOK
<1>3. SchemaKept' /\ KeysInPlace'
  BY <1>1, Zenon DEF LifeInv, SchemaKept, KeysInPlace
<1>4. FileKept'
  BY <1>1, KeyTypes, Zenon DEF LifeInv, FileKept, Writing
<1> QED
  BY <1>2, <1>3, <1>4, Zenon DEF LifeInv

LEMMA LifeInvInit == LifeInit => LifeInv
<1> SUFFICES ASSUME LifeInit PROVE LifeInv
  BY Zenon
<1>1. \A p \in Processes : proc[p].pc = "down" /\ proc[p].key = NoKey
  BY Zenon DEF LifeInit, NotRunning
<1>2. LifeTypeOK
  <2>1. NotRunning \in Process
    BY Zenon DEF NotRunning, Process
  <2>2. proc \in [Processes -> Process]
    BY <2>1, Zenon DEF LifeInit
  <2>3. schema \in SchemaType
    <3>1. 0 \in 0 .. RiverSteps
      BY LifecycleAssumption
    <3> QED
      BY <3>1, Zenon DEF LifeInit, SchemaType
  <2> QED
    BY <2>2, <2>3, Zenon DEF LifeInit, LifeTypeOK, SchemaType
<1>3. SchemaKept /\ KeysInPlace /\ FileKept
  BY <1>1, KeyTypes, Zenon DEF SchemaKept, KeysInPlace, FileKept, HasSchema, HasRiver, Writing
<1> QED
  BY <1>2, <1>3, Zenon DEF LifeInv

LEMMA LifeInvStep == LifeInv /\ [LifeNext]_lifeVars => LifeInv'
<1> SUFFICES ASSUME LifeInv, [LifeNext]_lifeVars PROVE LifeInv'
  BY Zenon
<1>1. ASSUME NEW p \in Processes, Step(p) PROVE LifeInv'
  BY <1>1, MigrationsKeep, LoadsKeep, WritesKeep, ServiceKeeps, EndsKeep, Zenon DEF Step
<1>2. ASSUME NEW p \in Processes, LoadConfig(p) \/ StopAPI(p) \/ Crash(p)
      PROVE  LifeInv'
  BY <1>2, LoadConfigKeeps, ServiceKeeps, EndsKeep, Zenon
<1>3. ASSUME NEW p \in Processes, NEW u \in {"request", "job"}, Begin(p, u) \/ End(p, u)
      PROVE  LifeInv'
  BY <1>3, WorkKeeps, Zenon
<1>4. CASE RemoveFile
  BY <1>4, RemoveKeeps, Zenon
<1>5. CASE MigrationsDown \/ MigrationsDownApp \/ MigrationsDrop
  BY <1>5, CommandsKeep, Zenon
<1>6. CASE UNCHANGED lifeVars
  BY <1>6, Zenon DEF lifeVars, LifeInv, LifeTypeOK, SchemaKept, KeysInPlace, FileKept
<1> QED
  BY <1>1, <1>2, <1>3, <1>4, <1>5, <1>6, Zenon DEF LifeNext

LEMMA LifeInvariant == LifeSpec => []LifeInv
BY LifeInvInit, LifeInvStep, PTL DEF LifeSpec

\* The types of the start and stop of a process; that there is always a key to
\* generate is part of it.
THEOREM LifeTypeCorrect == LifeSpec => []LifeTypeOK
<1>1. LifeInv => LifeTypeOK
  BY Zenon DEF LifeInv
<1> QED
  BY <1>1, LifeInvariant, PTL

\* However many processes of whatever releases start, crash, migrate and stop
\* together, runMigrations and runRiverMigrations come first: a process starts
\* its jobs and its listener on the schema it was built for.
THEOREM SchemaCorrect == LifeSpec => []ServesOnItsSchema
<1>1. LifeInv => ServesOnItsSchema
  BY Zenon DEF LifeInv, SchemaKept, ServesOnItsSchema, HasSchema, HasRiver
<1> QED
  BY <1>1, LifeInvariant, PTL

\* LoadSecrets and NewLocalSigner never let a process serve with a key that is
\* not on disk, wherever a start is cut short, unless two first starts overlap.
THEOREM KeysCorrect == LifeSpec => []KeysAreDurable
<1>1. LifeInv => KeysAreDurable
  <2> SUFFICES ASSUME LifeInv, NEW p \in Processes, proc[p].pc = "serving",
                      proc[p].key \in Keys, ~raced
               PROVE  file = proc[p].key
    BY Zenon DEF KeysAreDurable, At
  <2> QED
    BY Zenon DEF LifeInv, FileKept, Writing
<1> QED
  BY <1>1, LifeInvariant, PTL
=============================================================================
