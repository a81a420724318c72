-------------------------------- MODULE Vault -------------------------------
(***************************************************************************)
(* Entries and projects of one user: EntriesService and ProjectsService    *)
(* (internal/api/entries, internal/api/projects) behind the idempotency    *)
(* cache, the RLS transaction and the audit interceptor                    *)
(* (internal/api/middleware), and the client's forms, which seal a blob    *)
(* for a version before they send it (frontend/src/pages/entries,          *)
(* frontend/src/pages/projects).  Every query is scoped by user_id, so     *)
(* users do not interact.                                                  *)
(*                                                                         *)
(* A request is delivered any number of times, under the key it was sent   *)
(* with.  A statement waits for the rows that other open transactions      *)
(* have written; an open transaction may fail at any moment, as it does    *)
(* when Postgres breaks a deadlock.                                        *)
(***************************************************************************)
EXTENDS Integers, Sequences, FiniteSets, Functions

CONSTANTS
    Entries, Projects,   \* record ids
    NoRow, NoProject,
    Handlers,            \* requests the server may be running at once
    MaxRequests          \* bound on requests ever sent

ASSUME ConstantsAssumption ==
    /\ Entries \cap Projects = {}
    /\ IsFiniteSet(Projects)
    /\ NoProject \notin Entries \cup Projects
    /\ MaxRequests \in Nat

VARIABLES
    rows,      \* the entries and projects tables, by id
    sent,      \* the requests formed so far; request n is sent[n]
    handler,   \* per handler: where it is, and on which request
    writes,    \* per handler: what its open transaction has written
    cache,     \* per request: its idempotency_keys row
    applied,   \* the requests that have committed
    outlived   \* the requests whose record was deleted after they were formed

vars == <<rows, sent, handler, writes, cache, applied, outlived>>
tables == <<rows, applied, outlived>>

Ids == Entries \cup Projects
Requests == 1..MaxRequests

\* blob names the request that sealed the content (0: before the model
\* starts) and seal the version bound into its additional data.
Row == [version : Nat, blob : 0..MaxRequests, seal : Nat, favorite : BOOLEAN,
        project : Projects \cup {NoProject}, order : Nat]

ASSUME NoRowAssumption == NoRow \notin Row

Creates == {"CreateEntry", "CreateProject"}
Versioned == {"UpdateEntry", "UpdateProject", "DeleteProject"}
Unaudited == {"ToggleFavorite", "ReorderProjects"}
Deletes == {"DeleteEntry", "DeleteProject"}

\* The procedures whose answers are cached (idempotentProcedures).
Gated == {"ReorderProjects", "DeleteEntry"} \cup Creates \cup Versioned

\* saw: the blob the client was looking at, for the properties.
Request == [op : Gated \cup {"ToggleFavorite"}, id : Ids, expected : Nat,
            favorite : BOOLEAN, project : Projects \cup {NoProject},
            list : Seq(Projects), saw : 0..MaxRequests]

Handler == [stage : {"idle", "execute", "audit", "commit", "cache"},
            req : 0..MaxRequests, place : Nat]
IdleHandler == [stage |-> "idle", req |-> 0, place |-> 0]

TypeOK ==
    /\ rows \in [Ids -> Row \cup {NoRow}]
    /\ sent \in Seq(Request) /\ Len(sent) <= MaxRequests
    /\ handler \in [Handlers -> Handler]
    /\ \A h \in Handlers :
         /\ DOMAIN writes[h] \subseteq Ids
         /\ \A i \in DOMAIN writes[h] : writes[h][i] \in Row \cup {NoRow}
    /\ cache \in [Requests -> {"none", "live", "expired"}]
    /\ applied \subseteq Requests
    /\ outlived \subseteq Requests

\* A table f under the writes g of a transaction.
Overlay(f, g) ==
    [i \in DOMAIN f \cup DOMAIN g |-> IF i \in DOMAIN g THEN g[i] ELSE f[i]]

Stored == {i \in Ids : rows[i] # NoRow}

\* An empty vault, or one with all its records, the entries in no project.
Init ==
    /\ \E S \in {{}, Ids} :
         rows = [i \in Ids |->
                   IF i \in S
                   THEN [version |-> 1, blob |-> 0, seal |-> 1, favorite |-> FALSE,
                         project |-> NoProject, order |-> 0]
                   ELSE NoRow]
    /\ sent = <<>>
    /\ handler = [h \in Handlers |-> IdleHandler]
    /\ writes = [h \in Handlers |-> <<>>]
    /\ cache = [n \in Requests |-> "none"]
    /\ applied = {}
    /\ outlived = {}

-----------------------------------------------------------------------------
(* The client's forms.  A form reads a record and is saved at any later    *)
(* time; the request exists from the read on.                              *)

Send(op, i, version, favorite, project, list, saw) ==
    /\ Len(sent) < MaxRequests
    /\ sent' = Append(sent, [op |-> op, id |-> i, expected |-> version,
                             favorite |-> favorite, project |-> project,
                             list |-> list, saw |-> saw])
    /\ UNCHANGED <<handler, writes, cache, tables>>

\* What the reads of the pages find.
GetEntry(e) == {rows[i] : i \in Stored \cap {e}}
ListEntries == Stored \cap Entries
GetProject(p) == {rows[i] : i \in Stored \cap {p}}
ListProjects == Stored \cap Projects

\* crypto.randomUUID(): an id nobody used before.
Fresh(i) == rows[i] = NoRow /\ \A n \in DOMAIN sent : sent[n].id # i

ProjectChoices == {NoProject} \cup ListProjects

NewEntryForm ==
    \E e \in Entries, p \in ProjectChoices, f \in BOOLEAN :
        Fresh(e) /\ Send("CreateEntry", e, 0, f, p, <<>>, 0)

EditEntryForm ==
    \E e \in Entries, p \in ProjectChoices, f \in BOOLEAN :
        \E row \in GetEntry(e) :
            Send("UpdateEntry", e, row.version, f, p, <<>>, row.blob)

DeleteEntryDialog ==
    \E e \in Entries :
        GetEntry(e) # {} /\ Send("DeleteEntry", e, 0, FALSE, NoProject, <<>>, 0)

FavoriteButton ==
    \E e \in ListEntries :
        Send("ToggleFavorite", e, 0, ~rows[e].favorite, NoProject, <<>>, 0)

NewProjectForm ==
    \E p \in Projects :
        Fresh(p) /\ Send("CreateProject", p, 0, FALSE, NoProject, <<>>, 0)

EditProjectForm ==
    \E p \in Projects :
        \E row \in GetProject(p) :
            Send("UpdateProject", p, row.version, FALSE, NoProject, <<>>, row.blob)

DeleteProjectDialog ==
    \E p \in ListProjects :
        Send("DeleteProject", p, rows[p].version, FALSE, NoProject, <<>>,
             rows[p].blob)

\* The lists a client may ask for: every order of the projects it can see.
Orders(S) == Injection(1..Cardinality(S), S)

ReorderRequest ==
    \E list \in Orders(ListProjects) :
        /\ list # <<>>
        /\ Send("ReorderProjects", list[1], 0, FALSE, NoProject, list, 0)

ClientStep ==
    \/ NewEntryForm \/ EditEntryForm \/ DeleteEntryDialog \/ FavoriteButton
    \/ NewProjectForm \/ EditProjectForm \/ DeleteProjectDialog
    \/ ReorderRequest

-----------------------------------------------------------------------------
(* The idempotency middleware, before the handler                          *)

Asked(h) == sent[handler[h].req]
Goto(h, stage) == handler' = [handler EXCEPT ![h].stage = stage]

\* The transaction is over and nothing of it stays.
Finish(h) ==
    /\ handler' = [handler EXCEPT ![h] = IdleHandler]
    /\ writes' = [writes EXCEPT ![h] = <<>>]

\* The rows of idempotency_keys.  The read passes over an expired one, the
\* insert does not.
GetIdempotencyEntry(n) == {k \in {n} : cache[k] = "live"}
InsertIdempotencyEntry(n) == [cache EXCEPT ![n] = IF @ = "none" THEN "live" ELSE @]
DeleteExpiredIdempotencyEntries(n) == [cache EXCEPT ![n] = "none"]

\* A key names one request, so a hit always has its procedure and payload
\* and is replayed without running the handler.
Lookup(h) ==
    \E n \in DOMAIN sent :
        /\ handler[h].stage = "idle"
        /\ sent[n].op \in Gated => GetIdempotencyEntry(n) = {}
        /\ handler' = [handler EXCEPT ![h] = [stage |-> "execute", req |-> n,
                                              place |-> 0]]
        /\ UNCHANGED <<sent, writes, cache, tables>>

-----------------------------------------------------------------------------
(* The handlers: one statement inside the RLS transaction                  *)

Others(h) == Handlers \ {h}

\* Variant: the UPDATE has no version in its WHERE clause.
MatchesAnyVersion(q) ==
    /\ q.id \in Stored <=> q.op \notin Creates
    /\ q.project \in ProjectChoices

\* Variant: the INSERT replaces a row with the same id.
MatchesUpsert(q) ==
    /\ q.id \in Stored \/ q.op \in Creates
    /\ q.op \in Versioned => rows[q.id].version = q.expected
    /\ q.project \in ProjectChoices

\* The committed rows satisfy the statement's WHERE clause, its unique
\* index and its foreign key.
Matches(q) ==
    /\ q.id \in Stored <=> q.op \notin Creates
    /\ q.op \in Versioned => rows[q.id].version = q.expected
    /\ q.project \in ProjectChoices

\* Variant: no lock on the project an entry refers to.
UnlockedRowsOnly(h, q, S) ==
    \A k \in Others(h) : S \cap DOMAIN writes[k] = {}

\* No other open transaction has written a row this one is to write,
\* deletes the project it refers to, or refers to the project it deletes.
Unlocked(h, q, S) ==
    \A k \in Others(h) :
        /\ S \cap DOMAIN writes[k] = {}
        /\ q.project \in DOMAIN writes[k] => writes[k][q.project] # NoRow
        /\ q.op = "DeleteProject" =>
             \A i \in DOMAIN writes[k] :
                 writes[k][i] # NoRow => writes[k][i].project # q.id

Execute(h, op, after) ==
    /\ handler[h].stage = "execute"
    /\ Asked(h).op = op
    /\ Matches(Asked(h))
    /\ Unlocked(h, Asked(h), DOMAIN after)
    /\ writes' = [writes EXCEPT ![h] = after]
    /\ Goto(h, IF op \in Unaudited THEN "commit" ELSE "audit")
    /\ UNCHANGED <<sent, cache, tables>>

\* What request n sealed: the client bound the version after the one it saw.
Sealed(n, version) ==
    [version |-> version, blob |-> n, seal |-> sent[n].expected + 1,
     favorite |-> sent[n].favorite, project |-> sent[n].project, order |-> 0]

\* The row each statement leaves, from the request and the row it found.
EntryInserted(n) == Sealed(n, 1)
EntryUpdated(n, row) == Sealed(n, row.version + 1)

\* Variant: the flag counts as an edit.
FavoriteBumped(n, row) ==
    [row EXCEPT !.favorite = sent[n].favorite, !.version = @ + 1]

\* Neither the version nor the blob changes.
FavoriteSet(n, row) == [row EXCEPT !.favorite = sent[n].favorite]

ProjectInserted(n) == Sealed(n, 1)
ProjectUpdated(n, row) ==
    [Sealed(n, row.version + 1) EXCEPT !.order = row.order]
ProjectReordered(row, place) == [row EXCEPT !.order = place]

CreateEntry(h) ==
    LET n == handler[h].req
    IN  Execute(h, "CreateEntry", [i \in {sent[n].id} |-> EntryInserted(n)])

UpdateEntry(h) ==
    LET n == handler[h].req
    IN  Execute(h, "UpdateEntry", [i \in {sent[n].id} |-> EntryUpdated(n, rows[i])])

DeleteEntry(h) ==
    Execute(h, "DeleteEntry", [i \in {Asked(h).id} |-> NoRow])

ToggleFavorite(h) ==
    LET n == handler[h].req
    IN  Execute(h, "ToggleFavorite", [i \in {sent[n].id} |-> FavoriteSet(n, rows[i])])

CreateProject(h) ==
    LET n == handler[h].req
    IN  Execute(h, "CreateProject", [i \in {sent[n].id} |-> ProjectInserted(n)])

UpdateProject(h) ==
    LET n == handler[h].req
    IN  Execute(h, "UpdateProject",
                [i \in {sent[n].id} |-> ProjectUpdated(n, rows[i])])

\* ON DELETE SET NULL reaches the entries of the project.
DeleteProject(h) ==
    LET p == Asked(h).id
        inside == {e \in ListEntries : rows[e].project = p}
    IN  Execute(h, "DeleteProject",
                [i \in {p} \cup inside |->
                   IF i = p THEN NoRow ELSE [rows[i] EXCEPT !.project = NoProject]])

\* One UPDATE per listed id; an id without a row is passed over.
ReorderProject(h) ==
    LET q == Asked(h)
        p == q.list[handler[h].place + 1]
        moved == IF p \in Stored
                 THEN [i \in {p} |-> ProjectReordered(rows[p], handler[h].place)]
                 ELSE <<>>
    IN  /\ handler[h].stage = "execute"
        /\ q.op = "ReorderProjects"
        /\ handler[h].place < Len(q.list)
        /\ Unlocked(h, q, DOMAIN moved)
        /\ writes' = [writes EXCEPT ![h] = Overlay(@, moved)]
        /\ handler' = [handler EXCEPT ![h].place = @ + 1]
        /\ UNCHANGED <<sent, cache, tables>>

ReorderDone(h) ==
    /\ handler[h].stage = "execute"
    /\ Asked(h).op = "ReorderProjects"
    /\ handler[h].place = Len(Asked(h).list)
    /\ Goto(h, "commit")
    /\ UNCHANGED <<sent, writes, cache, tables>>

\* No row, a stale version, an id or a project that is not there: the error
\* rolls the transaction back.
Refuse(h) ==
    /\ handler[h].stage = "execute"
    /\ Asked(h).op # "ReorderProjects"
    /\ ~Matches(Asked(h))
    /\ Finish(h)
    /\ UNCHANGED <<sent, cache, tables>>

-----------------------------------------------------------------------------
(* The interceptors and the middleware, after the handler                  *)

\* AppendOrLog: the row goes into the chain in a transaction of its own, or
\* the failure is logged; the request goes on either way.
Audit(h) ==
    /\ handler[h].stage = "audit"
    /\ Goto(h, "commit")
    /\ UNCHANGED <<sent, writes, cache, tables>>

\* The writes become visible and the locks go.  The NOTIFY queued by
\* PublishEntriesChanged or PublishProjectsChanged goes out with them; no
\* table and no request depends on it.
Commit(h) ==
    LET n == handler[h].req
        q == Asked(h)
    IN  /\ handler[h].stage = "commit"
        /\ rows' = Overlay(rows, writes[h])
        /\ applied' = applied \cup {n}
        /\ outlived' = IF q.op \in Deletes
                       THEN outlived \cup {m \in DOMAIN sent : sent[m].id = q.id}
                       ELSE outlived
        /\ IF q.op \in Gated
           THEN /\ handler' = [handler EXCEPT ![h].stage = "cache"]
                /\ writes' = [writes EXCEPT ![h] = <<>>]
           ELSE Finish(h)
        /\ UNCHANGED <<sent, cache>>

\* Variant: the answer is cached whatever became of the commit.
FailThenCache(h) ==
    /\ handler[h].stage \in {"execute", "audit", "commit"}
    /\ Goto(h, "cache")
    /\ writes' = [writes EXCEPT ![h] = <<>>]
    /\ UNCHANGED <<sent, cache, tables>>

\* An error, a deadlock, a disconnect or a crash before the commit.
Fail(h) ==
    /\ handler[h].stage \in {"execute", "audit", "commit"}
    /\ Finish(h)
    /\ UNCHANGED <<sent, cache, tables>>

\* InsertIdempotencyEntry, after the response is on its way.  A row under
\* the key, expired or not, makes the insert fail, and nobody minds.
CacheAnswer(h) ==
    /\ handler[h].stage = "cache"
    /\ cache' = InsertIdempotencyEntry(handler[h].req)
    /\ Finish(h)
    /\ UNCHANGED <<sent, tables>>

CacheFails(h) ==
    /\ handler[h].stage = "cache"
    /\ Finish(h)
    /\ UNCHANGED <<sent, cache, tables>>

HandlerStep(h) ==
    \/ Lookup(h)
    \/ CreateEntry(h) \/ UpdateEntry(h) \/ DeleteEntry(h) \/ ToggleFavorite(h)
    \/ CreateProject(h) \/ UpdateProject(h) \/ DeleteProject(h)
    \/ ReorderProject(h) \/ ReorderDone(h)
    \/ Refuse(h) \/ Audit(h) \/ Commit(h) \/ Fail(h)
    \/ CacheAnswer(h) \/ CacheFails(h)

\* 24 hours pass; DeleteExpiredIdempotencyEntries.
KeyExpires ==
    \E n \in Requests :
        /\ cache[n] = "live"
        /\ cache' = [cache EXCEPT ![n] = "expired"]
        /\ UNCHANGED <<sent, handler, writes, tables>>

KeySwept ==
    \E n \in Requests :
        /\ cache[n] = "expired"
        /\ cache' = DeleteExpiredIdempotencyEntries(n)
        /\ UNCHANGED <<sent, handler, writes, tables>>

Next ==
    \/ ClientStep \/ KeyExpires \/ KeySwept
    \/ \E h \in Handlers : HandlerStep(h)

Spec == Init /\ [][Next]_vars

-----------------------------------------------------------------------------
(* Properties                                                              *)

\* Every stored blob is sealed for the version its record carries, so the
\* client that reads the record can open it: the forms seal for the version
\* after the one they read, and the version check of UpdateEntry and
\* UpdateProject makes that the version the row gets.
BlobOpens == \A i \in Stored : rows[i].seal = rows[i].version

\* An edit replaces exactly the content its author was looking at, and a
\* project is deleted only as its author last saw it, whatever else is
\* saved, retried or failing meanwhile; unless the record was deleted in
\* between and a retry brought it back.
NoLostEdit ==
    [][\A h \in Handlers :
         LET q == Asked(h) IN
         /\ handler[h].stage = "commit"
         /\ handler'[h].stage = "cache"
         /\ q.op \in Versioned
         /\ handler[h].req \notin outlived
         => rows[q.id].blob = q.saw]_vars

\* A request is applied once, however often it is delivered, with its
\* answer cached, lost or expired: a second commit is possible only for a
\* record that was deleted since the request was formed.
AppliedOnce ==
    [][\A h \in Handlers :
         /\ handler[h].stage = "commit"
         /\ handler'[h].stage = "cache"
         /\ Asked(h).op # "ReorderProjects"
         => handler[h].req \notin applied \ outlived]_vars

\* Only a request that has committed is ever answered from the cache.
CachedWasApplied == \A n \in Requests : cache[n] # "none" => n \in applied

\* The vault behaves as a store whose changes happen at once.
Store == INSTANCE VaultStore WITH Blobs <- 0..MaxRequests,
                                  Lists <- UNION {Orders(S) : S \in SUBSET Projects}
ImplementsStore == Store!StoreSpec
=============================================================================
