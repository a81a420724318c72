-------------------------------- MODULE Live --------------------------------
(***************************************************************************)
(* Live updates: the stream of one user's change notifications             *)
(* (internal/api/subscriptions), the mutations that publish them, and the  *)
(* loop with which every open tab keeps its query cache fresh              *)
(* (frontend/src/api/subscriptions.ts).                                    *)
(*                                                                         *)
(* A topic is one query key of the client and one payload of the server.   *)
(* The content of a topic is a counter of its committed changes.  Time is  *)
(* left out: a heartbeat may come whenever nothing else is waiting, and a  *)
(* back-off may end at any time.                                           *)
(***************************************************************************)
EXTENDS Integers, Sequences, FiniteSets

CONSTANTS
    Tabs,         \* tabs, or devices, signed in as the user
    Topics,       \* kindEntries, kindProjects; the client's query keys
    None,         \* no stream
    Slots,        \* bound on handlers that run for one tab: 1..Slots
    PoolSize,     \* connections the streams may hold
    MaxFailures,  \* MAX_CONSECUTIVE_FAILURES (5 in the client)
    MaxChanges    \* bound on committed changes of a topic

ASSUME ConstantsAssumption ==
    /\ IsFiniteSet(Tabs)
    /\ None \notin Topics
    /\ PoolSize \in Nat \ {0}
    /\ MaxFailures \in Nat \ {0}
    /\ MaxChanges \in Nat
    /\ Slots \in Nat \ {0}
    /\ None \notin Tabs \X (1..Slots)

\* Subscribe calls in progress.  A tab may have opened its next stream while
\* the handler of its last one is still on its way out.
Streams == Tabs \X (1..Slots)

VARIABLES
    db,       \* committed changes per topic
    writing,  \* the topic an open transaction has changed and notified about
    active,   \* streamRegistry.active for this user: a stream or None
    stream,   \* per stream: the handler
    tab       \* per tab: the loop and the query cache

vars == <<db, writing, active, stream, tab>>

\* ctx: the stream's context is live, has been cancelled by a newer stream,
\* or is done because the client is gone.  notif: the backend session's queue.
Stream == [pc : {"free", "taken", "listening", "closing"},
           ctx : {"live", "evicted", "gone"}, notif : Seq(Topics)]
FreeStream == [pc |-> "free", ctx |-> "live", notif |-> <<>>]

\* What a refetch has got so far: there is none, it has been sent, or the
\* value it read.
NoFetch == -2
Asked == -1

Tab == [pc : {"off", "backoff", "open", "surrendered", "signedOut"},
        stream : Streams \cup {None}, failures : 0..MaxFailures,
        firstChunkSeen : BOOLEAN,
        cache : [Topics -> Nat], fetch : [Topics -> Int]]

TypeOK ==
    /\ db \in [Topics -> Nat]
    /\ writing \in Topics \cup {None}
    /\ active \in Streams \cup {None}
    /\ stream \in [Streams -> Stream]
    /\ tab \in [Tabs -> Tab]

Init ==
    /\ db = [k \in Topics |-> 0]
    /\ writing = None
    /\ active = None
    /\ stream = [s \in Streams |-> FreeStream]
    /\ tab = [t \in Tabs |->
                [pc |-> "off", stream |-> None, failures |-> 0,
                 firstChunkSeen |-> FALSE, cache |-> [k \in Topics |-> 0],
                 fetch |-> [k \in Topics |-> NoFetch]]]

Stopped(t) == tab[t].pc \in {"off", "surrendered", "signedOut"}
Running(s) == stream[s].pc \in {"taken", "listening"}
HoldsConn(s) == stream[s].pc = "listening"

-----------------------------------------------------------------------------
(* Mutations: PublishEntriesChanged and PublishProjectsChanged             *)

\* What a NOTIFY for k does to the streams that listen.
Notified(k) ==
    [s \in Streams |->
       IF stream[s].pc = "listening" /\ stream[s].ctx = "live"
       THEN [stream[s] EXCEPT !.notif = Append(@, k)] ELSE stream[s]]

\* The handler changes the rows and calls publish in the same transaction.
Publish(k) ==
    /\ writing = None
    /\ \A j \in Topics : db[j] < MaxChanges
    /\ writing' = k
    /\ UNCHANGED <<db, active, stream, tab>>

\* Postgres queues the notification for the listening sessions at COMMIT.
Commit ==
    /\ writing # None
    /\ db' = [db EXCEPT ![writing] = @ + 1]
    /\ stream' = Notified(writing)
    /\ writing' = None
    /\ UNCHANGED <<active, tab>>

Rollback ==
    /\ writing # None
    /\ writing' = None
    /\ UNCHANGED <<db, active, stream, tab>>

-----------------------------------------------------------------------------
(* The registry and the handler                                            *)

\* streamRegistry.take.
Take(s) ==
    /\ active' = s
    /\ stream' = [x \in Streams |->
                    IF x = s THEN [FreeStream EXCEPT !.pc = "taken"]
                    ELSE IF x = active /\ stream[x].ctx = "live"
                         THEN [stream[x] EXCEPT !.ctx = "evicted", !.notif = <<>>]
                    ELSE stream[x]]

\* pool.Acquire waits for a connection; LISTEN on it.
Listen(s) ==
    /\ stream[s].pc = "taken"
    /\ stream[s].ctx = "live"
    /\ Cardinality({x \in Streams : HoldsConn(x)}) < PoolSize
    /\ stream' = [stream EXCEPT ![s].pc = "listening"]
    /\ UNCHANGED <<db, writing, active, tab>>

\* Variant: the wait is cancelled by the client's departure only.
ReturnOnGone(s) ==
    /\ Running(s)
    /\ stream[s].ctx = "gone"
    /\ stream' = [stream EXCEPT ![s].pc = "closing"]
    /\ UNCHANGED <<db, writing, active, tab>>

\* The context of Acquire, LISTEN or the wait is done: the handler returns,
\* and conn.Release is the first of its deferred calls.
ReturnDone(s) ==
    /\ Running(s)
    /\ stream[s].ctx # "live"
    /\ stream' = [stream EXCEPT ![s].pc = "closing"]
    /\ UNCHANGED <<db, writing, active, tab>>

\* Acquire, LISTEN or the wait fails: the database is not there.
ReturnBroken(s) ==
    /\ Running(s)
    /\ stream[s].ctx = "live"
    /\ stream' = [stream EXCEPT ![s].pc = "closing", ![s].notif = <<>>]
    /\ UNCHANGED <<db, writing, active, tab>>

\* Variant: whoever leaves clears the entry.
ReleaseAny(s) == None

\* The entry that streamRegistry.release leaves behind.
Released(s) == IF active = s THEN None ELSE active

-----------------------------------------------------------------------------
(* runSubscriptionLoop                                                     *)

\* invalidateQueries refetches, dropping what an earlier refetch brings.
Invalidate(row, ks) ==
    [row EXCEPT !.fetch = [k \in Topics |-> IF k \in ks THEN Asked ELSE @[k]]]

\* Variant: a first chunk invalidates no more than any other.
FirstChunkAsAny(row, ks) ==
    [Invalidate(row, ks) EXCEPT !.firstChunkSeen = TRUE, !.failures = 0]

\* One turn of the for-await loop, for a chunk about the topics ks.
Chunk(row, ks) ==
    [Invalidate(row, ks \cup (IF row.firstChunkSeen THEN {} ELSE Topics))
       EXCEPT !.firstChunkSeen = TRUE, !.failures = 0]

\* Variant: an idle stream sends nothing.
WaitNoHeartbeat(s) ==
    /\ stream[s].pc = "listening" /\ stream[s].ctx = "live"
    /\ stream[s].notif # <<>>
    /\ stream' = [stream EXCEPT ![s].notif = Tail(@)]
    /\ tab' = [tab EXCEPT ![s[1]] = Chunk(@, {Head(stream[s].notif)})]
    /\ UNCHANGED <<db, writing, active>>

\* One turn of the handler's loop: a notification is decoded and sent on, or
\* the wait times out and a heartbeat is sent; the tab takes the chunk.
WaitForNotification(s) ==
    /\ stream[s].pc = "listening" /\ stream[s].ctx = "live"
    /\ IF stream[s].notif # <<>>
       THEN /\ stream' = [stream EXCEPT ![s].notif = Tail(@)]
            /\ tab' = [tab EXCEPT ![s[1]] = Chunk(@, {Head(stream[s].notif)})]
       ELSE /\ tab' = [tab EXCEPT ![s[1]] = Chunk(@, {})]
            /\ UNCHANGED stream
    /\ UNCHANGED <<db, writing, active>>

\* The catch block, for an error other than Unauthenticated.
Failed(row) ==
    [row EXCEPT !.failures = @ + 1, !.stream = None, !.firstChunkSeen = FALSE,
                !.pc = IF row.failures + 1 >= MaxFailures
                       THEN "surrendered" ELSE "backoff"]

\* streamRegistry.release; then the error, Aborted or Internal, goes out to a
\* client that is still there.
Release(s) ==
    /\ stream[s].pc = "closing"
    /\ active' = Released(s)
    /\ stream' = [stream EXCEPT ![s] = FreeStream]
    /\ tab' = IF stream[s].ctx = "gone" THEN tab
              ELSE [tab EXCEPT ![s[1]] = Failed(@)]
    /\ UNCHANGED <<db, writing>>

\* useChangeSubscription's effect runs: a page load, an unlock, or a new
\* access token.
Mount(t) ==
    /\ Stopped(t)
    /\ tab' = [tab EXCEPT ![t].pc = "backoff", ![t].failures = 0]
    /\ UNCHANGED <<db, writing, active, stream>>

\* The tab's end of its stream is closed; the handler is told.
Detached(t) ==
    IF tab[t].stream = None THEN stream
    ELSE [stream EXCEPT ![tab[t].stream].ctx = "gone",
                        ![tab[t].stream].notif = <<>>]

\* ctl.abort().
Unmount(t) ==
    /\ ~Stopped(t)
    /\ tab' = [tab EXCEPT ![t].pc = "off", ![t].stream = None,
                          ![t].firstChunkSeen = FALSE]
    /\ stream' = Detached(t)
    /\ UNCHANGED <<db, writing, active>>

\* The timer fires and the request reaches the handler.
Connect(t) ==
    /\ tab[t].pc = "backoff"
    /\ \E i \in 1..Slots : LET s == <<t, i>> IN
         /\ stream[s].pc = "free"
         /\ \A j \in 1..(i - 1) : stream[<<t, j>>].pc # "free"
         /\ Take(s)
         /\ tab' = [tab EXCEPT ![t].pc = "open", ![t].stream = s]
    /\ UNCHANGED <<db, writing>>

\* The access token is refused: the auth store and the vault are cleared.
Unauthenticated(t) ==
    /\ tab[t].pc = "backoff"
    /\ tab' = [tab EXCEPT ![t].pc = "signedOut"]
    /\ UNCHANGED <<db, writing, active, stream>>

\* The network drops the stream, or the request does not get through.
TransportError(t) ==
    /\ tab[t].pc \in {"open", "backoff"}
    /\ tab' = [tab EXCEPT ![t] = Failed(@)]
    /\ stream' = Detached(t)
    /\ UNCHANGED <<db, writing, active>>

\* The server process restarts: the registry is empty, every stream is cut.
Restart ==
    /\ \E s \in Streams : stream[s].pc # "free"
    /\ active' = None
    /\ stream' = [s \in Streams |-> FreeStream]
    /\ tab' = [t \in Tabs |-> IF tab[t].pc = "open" THEN Failed(tab[t]) ELSE tab[t]]
    /\ writing' = None
    /\ UNCHANGED db

\* The refetch is answered by a list handler: what it read, and its arrival.
FetchRead(t, k) ==
    /\ tab[t].fetch[k] = Asked
    /\ tab' = [tab EXCEPT ![t].fetch[k] = db[k]]
    /\ UNCHANGED <<db, writing, active, stream>>

FetchDone(t, k) ==
    /\ tab[t].fetch[k] >= 0
    /\ tab' = [tab EXCEPT ![t].cache[k] = tab[t].fetch[k], ![t].fetch[k] = NoFetch]
    /\ UNCHANGED <<db, writing, active, stream>>

-----------------------------------------------------------------------------

StreamStep(s) ==
    \/ Listen(s) \/ WaitForNotification(s) \/ ReturnDone(s) \/ Release(s)

Next ==
    \/ \E k \in Topics : Publish(k)
    \/ Commit \/ Rollback \/ Restart
    \/ \E s \in Streams : StreamStep(s) \/ ReturnBroken(s)
    \/ \E t \in Tabs :
         \/ Connect(t) \/ Mount(t) \/ Unmount(t) \/ Unauthenticated(t)
         \/ TransportError(t)
         \/ \E k \in Topics : FetchRead(t, k) \/ FetchDone(t, k)

\* Handlers and loops keep running, and requests are answered.  A refetch may
\* be restarted by the next stream's first chunk, but that one is at least a
\* back-off of two seconds away, so not every answer comes too late.  Nothing
\* is said of mutations, failures, or the user's own doings.
Fairness ==
    /\ \A s \in Streams : WF_vars(StreamStep(s))
    /\ \A t \in Tabs : WF_vars(Connect(t))
    /\ \A t \in Tabs, k \in Topics :
         WF_vars(FetchRead(t, k)) /\ SF_vars(FetchDone(t, k))

Spec == Init /\ [][Next]_vars /\ Fairness

-----------------------------------------------------------------------------
(* Properties                                                              *)

\* streamRegistry: at most one Subscribe per user has not been told to stop,
\* and it is the one the registry names, so the next take reaches it.  A
\* release that comes late must not evict the newer stream.
RegistryNamesLive ==
    \A s \in Streams : Running(s) /\ stream[s].ctx = "live" => active = s

\* A tab that has had its first chunk, whose stream is up, and to which
\* nothing is on its way, shows what is committed: no change falls between
\* the initial load and LISTEN, or between a notification and the commit.
QuietMeansFresh ==
    \A t \in Tabs :
        LET s == tab[t].stream
        IN  /\ tab[t].pc = "open" /\ tab[t].firstChunkSeen
            /\ stream[s].pc = "listening" /\ stream[s].ctx = "live"
            /\ stream[s].notif = <<>>
            /\ \A k \in Topics : tab[t].fetch[k] = NoFetch
            => tab[t].cache = db

\* However tabs evict one another and connections break, a tab that is
\* behind catches up, or it has given up for good: surrendered, signed out
\* or closed.
CatchesUp ==
    \A t \in Tabs, k \in Topics :
        (tab[t].cache[k] < db[k]) ~> (tab[t].cache[k] = db[k] \/ Stopped(t))

\* The reason for the registry (H-4): an evicted stream gives its connection
\* back, even if its client stays connected.
EvictedLetsGo ==
    \A s \in Streams :
        (HoldsConn(s) /\ stream[s].ctx = "evicted") ~> ~HoldsConn(s)
=============================================================================
