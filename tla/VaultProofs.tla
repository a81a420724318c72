---------------------------- MODULE VaultProofs -----------------------------
(***************************************************************************)
(* Proofs about Vault: the stored blobs open, a retried request is applied *)
(* once, an edit replaces what its author saw, the cache answers only for  *)
(* what committed, and the vault implements VaultStore.                    *)
(*                                                                         *)
(* The core of the inductive invariant is that a statement, once executed, *)
(* stays right until its transaction commits: the rows and the project it  *)
(* depends on are locked, so its WHERE clause still holds (Matches) and    *)
(* what it wrote is still what it would write (After).                     *)
(***************************************************************************)
EXTENDS Vault, FiniteSetTheorems, TLAPS

EntryOps == {"CreateEntry", "UpdateEntry", "DeleteEntry", "ToggleFavorite"}
Lists == UNION {Orders(S) : S \in SUBSET Projects}

\* What the forms put into a request.
Formed(q) ==
    /\ q.op \in EntryOps => q.id \in Entries
    /\ q.op \notin EntryOps => q.id \in Projects
    /\ q.op \notin {"CreateEntry", "UpdateEntry"} => q.project = NoProject
    /\ q.op \in Creates => q.expected = 0
    /\ q.op = "ReorderProjects" => q.list \in Lists

SentInv == \A n \in DOMAIN sent : Formed(sent[n])

\* A record carries the version it is sealed for; a project has no project,
\* and an entry no place in the list of projects.
Good(i, row) ==
    /\ row.seal = row.version
    /\ i \in Projects => row.project = NoProject
    /\ i \in Entries => row.order = 0

RowInv == \A i \in Stored : Good(i, rows[i])

\* The rows a statement writes, and the row it leaves where it found one.
Inside(p) == {e \in ListEntries : rows[e].project = p}
Touched(q) == IF q.op = "DeleteProject" THEN {q.id} \cup Inside(q.id) ELSE {q.id}

After(n, i, row) ==
    LET q == sent[n]
    IN  CASE q.op \in Creates -> Sealed(n, 1)
          [] q.op = "UpdateEntry" -> EntryUpdated(n, row)
          [] q.op = "UpdateProject" -> ProjectUpdated(n, row)
          [] q.op = "ToggleFavorite" -> FavoriteSet(n, row)
          [] q.op \in Deletes /\ i = q.id -> NoRow
          [] q.op \in Deletes /\ i # q.id -> [row EXCEPT !.project = NoProject]

\* A statement has run, and what it found and wrote still stands.
Executed(h) ==
    LET n == handler[h].req
    IN  /\ Matches(sent[n])
        /\ DOMAIN writes[h] = Touched(sent[n])
        /\ \A i \in DOMAIN writes[h] : writes[h][i] = After(n, i, rows[i])

\* A reorder has placed some of the projects its list names.
Placed(h) ==
    \A p \in DOMAIN writes[h] :
        /\ p \in ListProjects
        /\ \E k \in 0..Len(Asked(h).list) - 1 :
             /\ Asked(h).list[k + 1] = p
             /\ writes[h][p] = ProjectReordered(rows[p], k)

Works(h) ==
    /\ handler[h].stage # "idle" => handler[h].req \in DOMAIN sent
    /\ handler[h].stage \in {"idle", "cache"} => DOMAIN writes[h] = {}
    /\ handler[h].stage = "cache" => handler[h].req \in applied
    /\ handler[h].stage \in {"execute", "audit", "commit"} =>
         IF Asked(h).op = "ReorderProjects" THEN Placed(h)
         ELSE IF handler[h].stage = "execute" THEN DOMAIN writes[h] = {}
         ELSE Executed(h)

HandlerInv == \A h \in Handlers : Works(h)

\* Two open transactions write different rows, and neither deletes a project
\* that a row of the other refers to.
Compatible(f, g) ==
    /\ DOMAIN f \cap DOMAIN g = {}
    /\ \A i \in DOMAIN f, p \in DOMAIN g :
         f[i] # NoRow /\ g[p] = NoRow => f[i].project # p

LockInv ==
    /\ writes = [h \in Handlers |-> writes[h]]
    /\ \A h, k \in Handlers : h # k => Compatible(writes[h], writes[k])

\* The record of a request that has not been outlived: a version never falls
\* below the one its author saw, and is past it once the request is applied.
Current(n) ==
    LET q == sent[n]
    IN  /\ q.op \in Versioned =>
             /\ q.id \in Stored
             /\ rows[q.id].version >= q.expected
             /\ rows[q.id].version = q.expected => rows[q.id].blob = q.saw
        /\ n \in applied =>
             /\ q.op \notin Deletes
             /\ q.op \in Creates => q.id \in Stored
             /\ q.op \in Versioned => rows[q.id].version > q.expected

HistoryInv ==
    /\ applied \subseteq DOMAIN sent
    /\ \A n \in DOMAIN sent : n \notin outlived => Current(n)

VaultInv ==
    /\ TypeOK /\ SentInv /\ RowInv /\ HandlerInv /\ LockInv /\ HistoryInv
    /\ CachedWasApplied

-----------------------------------------------------------------------------
(* Types                                                                   *)

\* The stored records are the ids with a row.
LEMMA StoredRows ==
    ASSUME TypeOK
    PROVE  /\ DOMAIN rows = Ids
           /\ \A i \in Ids : i \in Stored <=> rows[i] # NoRow
           /\ \A i \in Stored : i \in Ids /\ rows[i] \in Row
  BY Zenon DEF TypeOK, Stored

\* The requests are numbered from 1, each of its type.
LEMMA SentRequests ==
    ASSUME TypeOK
    PROVE  /\ DOMAIN sent = 1..Len(sent) /\ Len(sent) \in Nat
           /\ \A n \in DOMAIN sent : n \in Requests /\ n \in 0..MaxRequests
                                     /\ sent[n] \in Request
  BY ConstantsAssumption DEF TypeOK, Requests

\* What request n seals is a row.
LEMMA SealedRow ==
    ASSUME TypeOK, NEW n \in DOMAIN sent, NEW v \in Nat
    PROVE  Sealed(n, v) \in Row
<1>1. /\ n \in 0..MaxRequests /\ sent[n].expected \in Nat /\ sent[n].favorite \in BOOLEAN
      /\ sent[n].project \in Projects \cup {NoProject}
  BY SentRequests, Zenon DEF Request
<1>2. sent[n].expected + 1 \in Nat
  BY <1>1
<1>3. \A s, o \in Nat, b \in 0..MaxRequests, f \in BOOLEAN, p \in Projects \cup {NoProject} :
        [version |-> v, blob |-> b, seal |-> s, favorite |-> f, project |-> p, order |-> o]
          \in Row
  BY Zenon DEF Row
<1>4. 0 \in Nat
  BY Zenon
<1> QED
  BY <1>1, <1>2, <1>3, <1>4, Zenon DEF Sealed

\* What the columns of a row become under the statements that keep its content.
LEMMA RowWith ==
    ASSUME NEW row \in Row
    PROVE  /\ \A f \in BOOLEAN : [row EXCEPT !.favorite = f] \in Row
           /\ \A p \in Projects \cup {NoProject} : [row EXCEPT !.project = p] \in Row
           /\ \A o \in Nat : [row EXCEPT !.order = o] \in Row
  BY Zenon DEF Row

-----------------------------------------------------------------------------
(* Steps that leave a handler or the tables alone                          *)

\* A handler is where it was as long as the rows and its request are.
LEMMA Undisturbed ==
    ASSUME NEW h \in Handlers, Works(h), rows' = rows, applied' = applied,
           handler'[h] = handler[h], writes'[h] = writes[h],
           handler[h].stage # "idle" => /\ handler[h].req \in DOMAIN sent'
                                        /\ sent'[handler[h].req] = sent[handler[h].req]
    PROVE  Works(h)'
<1>1. CASE handler[h].stage = "idle"
  BY <1>1, Zenon DEF Works
<1>2. CASE handler[h].stage # "idle"
  <2> DEFINE n == handler[h].req
  <2>1. n \in DOMAIN sent /\ n \in DOMAIN sent' /\ sent'[n] = sent[n] /\ Stored' = Stored
    BY <1>2, Zenon DEF Works, Stored
  <2>2. Asked(h)' = Asked(h)
    BY <2>1, Zenon DEF Asked
  <2>3. Placed(h) => Placed(h)'
    BY <2>1, <2>2 DEF Placed, ListProjects
  <2>4. Executed(h) => Executed(h)'
    <3>1. Matches(sent[n]) => Matches(sent[n])'
      BY <2>1, Zenon DEF Matches, ProjectChoices, ListProjects
    <3>2. Touched(sent[n])' = Touched(sent[n])
      BY <2>1, Zenon DEF Touched, Inside, ListEntries
    <3>3. \A i : After(n, i, rows[i])' = After(n, i, rows[i])
      BY <2>1, Zenon DEF After, Sealed, EntryUpdated, ProjectUpdated, FavoriteSet
    <3> QED
      BY <3>1, <3>2, <3>3, Zenon DEF Executed
  <2> QED
    BY <2>1, <2>2, <2>3, <2>4, Zenon DEF Works
<1> QED
  BY <1>1, <1>2, Zenon

\* One handler moves, and its transaction holds the writes w.
LEMMA LocalKeeps ==
    ASSUME VaultInv, NEW h \in Handlers, NEW s \in Handler, NEW w,
           handler' = [handler EXCEPT ![h] = s], writes' = [writes EXCEPT ![h] = w],
           sent' = sent, UNCHANGED tables,
           cache' \in [Requests -> {"none", "live", "expired"}], CachedWasApplied',
           DOMAIN w \subseteq Ids, \A i \in DOMAIN w : w[i] \in Row \cup {NoRow},
           \A k \in Others(h) : Compatible(w, writes[k]) /\ Compatible(writes[k], w),
           Works(h)'
    PROVE  VaultInv'
<1>0. /\ TypeOK /\ SentInv /\ RowInv /\ HandlerInv /\ LockInv /\ HistoryInv
      /\ rows' = rows /\ applied' = applied /\ outlived' = outlived
  BY Zenon DEF VaultInv, tables
<1>1. /\ handler' \in [Handlers -> Handler]
      /\ writes' = [k \in Handlers |-> writes'[k]] /\ writes'[h] = w
      /\ \A k \in Others(h) : handler'[k] = handler[k] /\ writes'[k] = writes[k]
  BY <1>0, Zenon DEF TypeOK, LockInv, Others
<1>2. TypeOK'
  BY <1>0, <1>1, Zenon DEF TypeOK, Others
<1>3. HandlerInv'
  <2>1. ASSUME NEW k \in Others(h) PROVE Works(k)'
    <3>1. k \in Handlers /\ Works(k)
      BY <1>0, Zenon DEF HandlerInv, Others
    <3>2. handler[k].stage # "idle" => handler[k].req \in DOMAIN sent
      BY <3>1, Zenon DEF Works
    <3> QED
      BY <1>0, <1>1, <3>1, <3>2, Undisturbed, Zenon
  <2> QED
    BY <2>1, Zenon DEF HandlerInv, Others
<1>4. LockInv'
  <2>1. ASSUME NEW k \in Handlers, NEW l \in Handlers, k # l
        PROVE  Compatible(writes'[k], writes'[l])
    BY <1>0, <1>1, <2>1, Zenon DEF LockInv, Others
  <2> QED
    BY <1>1, <2>1, Zenon DEF LockInv
<1>5. SentInv' /\ RowInv' /\ HistoryInv'
  BY <1>0, Zenon DEF SentInv, RowInv, HistoryInv, Stored, Current
<1> QED
  BY <1>2, <1>3, <1>4, <1>5, Zenon DEF VaultInv

-----------------------------------------------------------------------------
(* The client's forms                                                      *)

\* A new request changes nothing for the requests that are there.
LEMMA SendKeeps ==
    ASSUME VaultInv, NEW q \in Request, Formed(q), Len(sent) < MaxRequests,
           sent' = Append(sent, q), UNCHANGED <<handler, writes, cache, tables>>,
           q.op \in Versioned => /\ q.id \in Stored
                                 /\ rows[q.id].version = q.expected
                                 /\ rows[q.id].blob = q.saw
    PROVE  VaultInv'
<1>0. /\ TypeOK /\ SentInv /\ RowInv /\ HandlerInv /\ LockInv /\ HistoryInv
      /\ CachedWasApplied
  BY Zenon DEF VaultInv
<1>1. /\ sent' \in Seq(Request) /\ Len(sent') <= MaxRequests
      /\ DOMAIN sent = 1..Len(sent) /\ Len(sent) \in Nat
      /\ DOMAIN sent' = DOMAIN sent \cup {Len(sent) + 1}
      /\ Len(sent) + 1 \notin DOMAIN sent
      /\ sent'[Len(sent) + 1] = q
      /\ \A n \in DOMAIN sent : sent'[n] = sent[n]
  BY <1>0, ConstantsAssumption DEF TypeOK
<1>2. /\ handler' = handler /\ writes' = writes /\ cache' = cache
      /\ rows' = rows /\ applied' = applied /\ outlived' = outlived /\ Stored' = Stored
  BY Zenon DEF tables, Stored
<1>3. TypeOK'
  BY <1>0, <1>1, <1>2, Zenon DEF TypeOK
<1>4. SentInv'
  BY <1>0, <1>1, Zenon DEF SentInv
<1>5. HandlerInv'
  <2>1. ASSUME NEW h \in Handlers PROVE Works(h)'
    <3>1. Works(h)
      BY <1>0, Zenon DEF HandlerInv
    <3>2. handler[h].stage # "idle" => /\ handler[h].req \in DOMAIN sent'
                                       /\ sent'[handler[h].req] = sent[handler[h].req]
      BY <1>1, <3>1, Zenon DEF Works
    <3> QED
      BY <1>2, <3>1, <3>2, Undisturbed, Zenon
  <2> QED
    BY <2>1, Zenon DEF HandlerInv
<1>6. HistoryInv'
  <2>1. ASSUME NEW n \in DOMAIN sent', n \notin outlived' PROVE Current(n)'
    <3>1. CASE n \in DOMAIN sent
      BY <1>0, <1>1, <1>2, <2>1, <3>1, Zenon DEF HistoryInv, Current
    <3>2. CASE n = Len(sent) + 1
      <4>1. n \notin applied /\ sent'[n] = q
        BY <1>0, <1>1, <3>2, Zenon DEF HistoryInv
      <4>2. q.op \in Versioned => rows[q.id].version \in Nat
        BY <1>0, StoredRows, Zenon DEF Row
      <4> QED
        BY <1>2, <4>1, <4>2 DEF Current
    <3> QED
      BY <1>1, <3>1, <3>2, Zenon
  <2> QED
    BY <1>0, <1>1, <1>2, <2>1, Zenon DEF HistoryInv
<1> QED
  BY <1>0, <1>2, <1>3, <1>4, <1>5, <1>6, Zenon DEF VaultInv, RowInv, LockInv, CachedWasApplied

\* What a form puts together is a request.
LEMMA FormedRequest ==
    ASSUME NEW op \in Gated \cup {"ToggleFavorite"}, NEW i \in Ids, NEW v \in Nat,
           NEW f \in BOOLEAN, NEW p \in Projects \cup {NoProject},
           NEW list \in Seq(Projects), NEW saw \in 0..MaxRequests
    PROVE  [op |-> op, id |-> i, expected |-> v, favorite |-> f, project |-> p,
            list |-> list, saw |-> saw] \in Request
  BY Zenon DEF Request

\* A list that orders some of the projects.
LEMMA OrderedList ==
    ASSUME NEW S \in SUBSET Projects, NEW list \in Orders(S)
    PROVE  /\ list \in Seq(Projects) /\ list \in Lists
           /\ DOMAIN list = 1..Len(list) /\ Len(list) \in Nat
           /\ \A a, b \in DOMAIN list : list[a] = list[b] => a = b
           /\ list # <<>> => list[1] \in Projects
<1>1. Cardinality(S) \in Nat
  BY ConstantsAssumption, FS_Subset, FS_CardinalityType, Zenon
<1>2. list \in [1..Cardinality(S) -> S] /\ \A a, b \in DOMAIN list : list[a] = list[b] => a = b
  BY Zenon DEF Orders, Injection, IsInjective
<1>3. list \in Seq(Projects) /\ DOMAIN list = 1..Len(list) /\ Len(list) \in Nat
  BY <1>1, <1>2
<1>4. list # <<>> => list[1] \in Projects
  BY <1>3
<1> QED
  BY <1>2, <1>3, <1>4, Zenon DEF Lists

\* A request with the fields of Send.
LEMMA SendForm ==
    ASSUME VaultInv, NEW op \in Gated \cup {"ToggleFavorite"}, NEW i \in Ids, NEW v \in Nat,
           NEW f \in BOOLEAN, NEW p \in Projects \cup {NoProject},
           NEW list \in Seq(Projects), NEW saw \in 0..MaxRequests,
           Send(op, i, v, f, p, list, saw),
           op \in EntryOps => i \in Entries,
           op \notin EntryOps => i \in Projects,
           op \notin {"CreateEntry", "UpdateEntry"} => p = NoProject,
           op \in Creates => v = 0,
           op = "ReorderProjects" => list \in Lists,
           op \in Versioned => i \in Stored /\ rows[i].version = v /\ rows[i].blob = saw
    PROVE  VaultInv'
<1> DEFINE q == [op |-> op, id |-> i, expected |-> v, favorite |-> f, project |-> p,
                 list |-> list, saw |-> saw]
<1>1. q \in Request
  BY FormedRequest, Zenon
<1>2. /\ q.op = op /\ q.id = i /\ q.expected = v /\ q.project = p /\ q.list = list
      /\ q.saw = saw
  BY Zenon
<1>3. /\ Len(sent) < MaxRequests /\ sent' = Append(sent, q)
      /\ UNCHANGED <<handler, writes, cache, tables>>
  BY Zenon DEF Send
<1> HIDE DEF q
<1>4. Formed(q)
  BY <1>2, Zenon DEF Formed
<1> QED
  BY <1>1, <1>2, <1>3, <1>4, SendKeeps, Zenon

\* A form is sent: nothing that is stored or under way changes.
LEMMA ClientKeeps ==
    ASSUME VaultInv, ClientStep
    PROVE  VaultInv'
<1>0. TypeOK
  BY Zenon DEF VaultInv
<1>1. /\ ProjectChoices \subseteq Projects \cup {NoProject}
      /\ <<>> \in Seq(Projects) /\ 0 \in Nat /\ 0 \in 0..MaxRequests
      /\ NoProject \in Projects \cup {NoProject} /\ FALSE \in BOOLEAN
      /\ \A e \in Entries : e \in Ids
      /\ \A p \in Projects : p \in Ids
  BY ConstantsAssumption DEF ProjectChoices, ListProjects, Ids
<1>2. \A i \in Stored : /\ rows[i].version \in Nat /\ rows[i].blob \in 0..MaxRequests
                        /\ rows[i].favorite \in BOOLEAN
  BY <1>0, StoredRows, Zenon DEF Row
<1>n. \A op \in EntryOps : op \in Gated \cup {"ToggleFavorite"}
  BY Zenon DEF EntryOps, Gated, Creates, Versioned
<1>m. /\ \A op \in {"CreateProject", "UpdateProject", "DeleteProject", "ReorderProjects"} :
           op \in Gated \cup {"ToggleFavorite"} /\ op \notin EntryOps
      /\ "CreateEntry" \in EntryOps /\ "UpdateEntry" \in EntryOps
      /\ "DeleteEntry" \in EntryOps /\ "ToggleFavorite" \in EntryOps
      /\ "UpdateEntry" \notin Creates /\ "UpdateProject" \notin Creates
      /\ "DeleteProject" \notin Creates
      /\ \A op \in {"CreateEntry", "DeleteEntry", "ToggleFavorite", "CreateProject",
                    "ReorderProjects"} : op \notin Versioned
  BY Zenon DEF EntryOps, Gated, Creates, Versioned
<1>3. CASE NewEntryForm
  <2>1. PICK e \in Entries, p \in ProjectChoices, f \in BOOLEAN :
          Send("CreateEntry", e, 0, f, p, <<>>, 0)
    BY <1>3, Zenon DEF NewEntryForm
  <2> QED
    BY <1>1, <1>n, <1>m, <2>1, SendForm, ZenonT(40)
<1>4. CASE EditEntryForm
  <2>1. PICK e \in Entries, p \in ProjectChoices, f \in BOOLEAN :
          e \in Stored /\ Send("UpdateEntry", e, rows[e].version, f, p, <<>>, rows[e].blob)
    BY <1>4, Zenon DEF EditEntryForm, GetEntry
  <2>2. /\ e \in Ids /\ p \in Projects \cup {NoProject}
        /\ rows[e].version \in Nat /\ rows[e].blob \in 0..MaxRequests
        /\ "UpdateEntry" \in Gated \cup {"ToggleFavorite"}
        /\ "UpdateEntry" \in EntryOps /\ "UpdateEntry" \notin Creates
        /\ <<>> \in Seq(Projects)
    BY <1>1, <1>2, <1>n, <1>m, <2>1, Zenon
  <2> QED
    BY <2>1, <2>2, SendForm, Zenon
<1>5. CASE DeleteEntryDialog
  <2>1. PICK e \in Entries : Send("DeleteEntry", e, 0, FALSE, NoProject, <<>>, 0)
    BY <1>5, Zenon DEF DeleteEntryDialog
  <2> QED
    BY <1>1, <1>n, <1>m, <2>1, SendForm, Zenon
<1>6. CASE FavoriteButton
  <2>1. PICK e \in Entries :
          e \in Stored /\ Send("ToggleFavorite", e, 0, ~rows[e].favorite, NoProject, <<>>, 0)
    BY <1>6, Zenon DEF FavoriteButton, ListEntries
  <2>2. (~rows[e].favorite) \in BOOLEAN
    BY Zenon
  <2> QED
    BY <1>1, <1>n, <1>m, <2>1, <2>2, SendForm, Zenon
<1>7. CASE NewProjectForm
  <2>1. PICK p \in Projects : Send("CreateProject", p, 0, FALSE, NoProject, <<>>, 0)
    BY <1>7, Zenon DEF NewProjectForm
  <2> QED
    BY <1>1, <1>m, <2>1, SendForm, Zenon
<1>8. CASE EditProjectForm
  <2>1. PICK p \in Projects :
          /\ p \in Stored
          /\ Send("UpdateProject", p, rows[p].version, FALSE, NoProject, <<>>, rows[p].blob)
    BY <1>8, Zenon DEF EditProjectForm, GetProject
  <2> QED
    BY <1>1, <1>2, <1>m, <2>1, SendForm, Zenon
<1>9. CASE DeleteProjectDialog
  <2>1. PICK p \in Projects :
          /\ p \in Stored
          /\ Send("DeleteProject", p, rows[p].version, FALSE, NoProject, <<>>, rows[p].blob)
    BY <1>9, Zenon DEF DeleteProjectDialog, ListProjects
  <2> QED
    BY <1>1, <1>2, <1>m, <2>1, SendForm, Zenon
<1>10. CASE ReorderRequest
  <2>1. PICK list \in Orders(ListProjects) :
          list # <<>> /\ Send("ReorderProjects", list[1], 0, FALSE, NoProject, list, 0)
    BY <1>10, Zenon DEF ReorderRequest
  <2>2. list \in Seq(Projects) /\ list \in Lists /\ list[1] \in Projects
    <3>1. ListProjects \in SUBSET Projects
      BY Zenon DEF ListProjects
    <3> QED
      BY <2>1, <3>1, OrderedList, Zenon
  <2> QED
    BY <1>1, <1>m, <2>1, <2>2, SendForm, Zenon
<1> QED
  BY <1>3, <1>4, <1>5, <1>6, <1>7, <1>8, <1>9, <1>10, Zenon DEF ClientStep

-----------------------------------------------------------------------------
(* What a statement does to a row                                          *)

Updates == {"UpdateEntry", "UpdateProject"}

\* Statement q turns the row old of record i into new: it inserts the record,
\* replaces its content, deletes it, or leaves version, content and seal.
Change(q, i, old, new) ==
    \/ /\ q.op \in Creates /\ i = q.id /\ old = NoRow
       /\ new \in Row /\ new.version = 1 /\ new.seal = 1
       /\ new.project = q.project /\ new.order = 0
    \/ /\ q.op \in Updates /\ i = q.id /\ old \in Row /\ old.version = q.expected
       /\ new \in Row /\ new.version = q.expected + 1 /\ new.seal = q.expected + 1
       /\ new.project = q.project /\ (i \in Entries => new.order = 0)
    \/ q.op \in Deletes /\ i = q.id /\ old \in Row /\ new = NoRow
    \/ /\ q.op \in {"ToggleFavorite", "ReorderProjects", "DeleteProject"}
       /\ q.op = "DeleteProject" => i # q.id
       /\ old \in Row /\ new \in Row
       /\ new.version = old.version /\ new.seal = old.seal /\ new.blob = old.blob
       /\ new.project \in {NoProject, old.project}
       /\ i \in Entries => new.order = old.order

\* After, operation by operation.
LEMMA AfterOf ==
    ASSUME NEW n, NEW i, NEW row
    PROVE  /\ sent[n].op \in Creates => After(n, i, row) = Sealed(n, 1)
           /\ sent[n].op = "UpdateEntry" => After(n, i, row) = EntryUpdated(n, row)
           /\ sent[n].op = "UpdateProject" => After(n, i, row) = ProjectUpdated(n, row)
           /\ sent[n].op = "ToggleFavorite" => After(n, i, row) = FavoriteSet(n, row)
           /\ sent[n].op \in Deletes /\ i = sent[n].id => After(n, i, row) = NoRow
           /\ sent[n].op = "DeleteProject" /\ i # sent[n].id =>
                After(n, i, row) = [row EXCEPT !.project = NoProject]
<1>1. sent[n].op \in Creates => After(n, i, row) = Sealed(n, 1)
  BY Zenon DEF After, Creates, Deletes
<1>2. sent[n].op = "UpdateEntry" => After(n, i, row) = EntryUpdated(n, row)
  BY Zenon DEF After, Creates, Deletes
<1>3. sent[n].op = "UpdateProject" => After(n, i, row) = ProjectUpdated(n, row)
  BY Zenon DEF After, Creates, Deletes
<1>4. sent[n].op = "ToggleFavorite" => After(n, i, row) = FavoriteSet(n, row)
  BY Zenon DEF After, Creates, Deletes
<1>5. sent[n].op \in Deletes /\ i = sent[n].id => After(n, i, row) = NoRow
  BY Zenon DEF After, Creates, Deletes
<1>6. sent[n].op = "DeleteProject" /\ i # sent[n].id =>
        After(n, i, row) = [row EXCEPT !.project = NoProject]
  BY Zenon DEF After, Creates, Deletes
<1> QED
  BY <1>1, <1>2, <1>3, <1>4, <1>5, <1>6, Zenon

\* What a statement writes is a change of the row it found.
LEMMA AfterChange ==
    ASSUME TypeOK, SentInv, NEW n \in DOMAIN sent, sent[n].op # "ReorderProjects",
           Matches(sent[n]), NEW i \in Touched(sent[n])
    PROVE  Change(sent[n], i, rows[i], After(n, i, rows[i]))
<1> DEFINE q == sent[n]
           a == After(n, i, rows[i])
<1>0. /\ q \in Request /\ Formed(q)
      /\ q.op \in {"CreateEntry", "CreateProject", "UpdateEntry", "UpdateProject",
                   "ToggleFavorite", "DeleteEntry", "DeleteProject"}
      /\ q.id \in Ids /\ q.expected \in Nat /\ q.favorite \in BOOLEAN
  BY SentRequests, Zenon DEF SentInv, Request, Gated, Creates, Versioned
<1>1. /\ q.id \in Stored <=> q.op \notin Creates
      /\ q.op \in Versioned => rows[q.id].version = q.expected
  BY Zenon DEF Matches
<1>2. i \in Ids /\ (i = q.id \/ (q.op = "DeleteProject" /\ i \in Inside(q.id)))
  <2>1. \A j \in Inside(q.id) : j \in Ids
    BY Zenon DEF Inside, ListEntries, Ids
  <2>2. i = q.id \/ (q.op = "DeleteProject" /\ i \in Inside(q.id))
    BY Zenon DEF Touched
  <2> QED
    BY <1>0, <2>1, <2>2, Zenon
<1>3. /\ \A j \in Ids : j \in Stored <=> rows[j] # NoRow
      /\ \A j \in Stored : rows[j] \in Row
  BY StoredRows, Zenon
<1>4. CASE q.op \in Creates
  <2>1. a = Sealed(n, 1) /\ i = q.id /\ rows[i] = NoRow /\ q.expected = 0
    BY <1>0, <1>1, <1>2, <1>3, <1>4, AfterOf DEF Formed, Creates
  <2>2. Sealed(n, 1) \in Row
    BY SealedRow, Zenon
  <2>3. Sealed(n, 1).version = 1 /\ Sealed(n, 1).seal = q.expected + 1
        /\ Sealed(n, 1).project = q.project /\ Sealed(n, 1).order = 0
    BY Zenon DEF Sealed
  <2> QED
    BY <1>4, <2>1, <2>2, <2>3 DEF Change
<1>5. CASE q.op \in Updates
  <2>1. /\ i = q.id /\ rows[i] \in Row /\ rows[i].version = q.expected /\ i \in Stored
        /\ q.expected + 1 \in Nat /\ rows[i].order \in Nat
    BY <1>0, <1>1, <1>2, <1>3, <1>5 DEF Creates, Updates, Versioned, Row
  <2> DEFINE b == Sealed(n, q.expected + 1)
  <2>2. /\ b \in Row /\ b.version = q.expected + 1 /\ b.seal = q.expected + 1
        /\ b.project = q.project /\ b.order = 0
    <3>1. b \in Row
      BY <2>1, SealedRow, Zenon
    <3> QED
      BY <3>1, Zenon DEF Sealed
  <2>3. CASE q.op = "UpdateEntry"
    <3>1. a = b
      BY <2>1, <2>3, AfterOf DEF EntryUpdated
    <3> QED
      BY <1>5, <2>1, <2>2, <3>1, Zenon DEF Change
  <2>4. CASE q.op = "UpdateProject"
    <3>1. a = [b EXCEPT !.order = rows[i].order]
      BY <2>1, <2>4, AfterOf DEF ProjectUpdated
    <3>2. i \notin Entries
      BY <1>0, <2>1, <2>4, ConstantsAssumption, Zenon DEF Formed, EntryOps
    <3> HIDE DEF b
    <3>3. /\ a \in Row /\ a.version = b.version /\ a.seal = b.seal /\ a.project = b.project
      <4>1. a \in Row
        BY <2>1, <2>2, <3>1, RowWith
      <4> QED
        BY <2>2, <3>1, <4>1, Zenon DEF Row
    <3> HIDE DEF a
    <3> QED
      BY <1>5, <2>1, <2>2, <3>2, <3>3, Zenon DEF Change, a
  <2> QED
    BY <1>5, <2>3, <2>4, Zenon DEF Updates
<1>6. CASE q.op \in Deletes /\ i = q.id
  <2>1. rows[i] \in Row /\ a = NoRow
    BY <1>1, <1>3, <1>6, AfterOf DEF Deletes, Creates
  <2> QED
    BY <1>6, <2>1, Zenon DEF Change
<1>7. CASE q.op = "ToggleFavorite"
  <2>1. /\ i = q.id /\ rows[i] \in Row /\ a = [rows[i] EXCEPT !.favorite = q.favorite]
    BY <1>1, <1>2, <1>3, <1>7, AfterOf DEF FavoriteSet, Creates
  <2>2. /\ a \in Row /\ a.version = rows[i].version /\ a.seal = rows[i].seal
        /\ a.blob = rows[i].blob /\ a.project = rows[i].project /\ a.order = rows[i].order
    <3>1. a \in Row
      BY <1>0, <2>1, RowWith
    <3> QED
      BY <2>1, <3>1, Zenon DEF Row
  <2> HIDE DEF a
  <2> QED
    BY <1>7, <2>1, <2>2, Zenon DEF Change, a
<1>8. CASE q.op = "DeleteProject" /\ i # q.id
  <2>1. /\ rows[i] \in Row /\ a = [rows[i] EXCEPT !.project = NoProject]
    BY <1>2, <1>3, <1>8, AfterOf DEF Inside, ListEntries
  <2>2. /\ a \in Row /\ a.version = rows[i].version /\ a.seal = rows[i].seal
        /\ a.blob = rows[i].blob /\ a.project = NoProject /\ a.order = rows[i].order
    <3>1. a \in Row
      BY <2>1, RowWith
    <3> QED
      BY <2>1, <3>1, Zenon DEF Row
  <2> HIDE DEF a
  <2> QED
    BY <1>8, <2>1, <2>2, Zenon DEF Change, a
<1> QED
  BY <1>0, <1>2, <1>4, <1>5, <1>6, <1>7, <1>8, Zenon DEF Creates, Updates, Deletes

\* ... and what an open transaction has done to the rows it wrote.
LEMMA WrittenChange ==
    ASSUME VaultInv, NEW h \in Handlers, NEW i \in DOMAIN writes[h]
    PROVE  /\ handler[h].stage \in {"execute", "audit", "commit"}
           /\ handler[h].req \in DOMAIN sent /\ i \in Ids
           /\ Asked(h) \in Request /\ Formed(Asked(h))
           /\ Change(Asked(h), i, rows[i], writes[h][i])
           /\ Asked(h).op # "ReorderProjects" => Executed(h)
<1>0. TypeOK /\ SentInv /\ HandlerInv
  BY Zenon DEF VaultInv
<1>1. /\ Works(h) /\ handler[h] \in Handler /\ i \in Ids
      /\ handler[h].stage \in {"idle", "execute", "audit", "commit", "cache"}
  BY <1>0, Zenon DEF HandlerInv, TypeOK, Handler
<1>2. handler[h].stage \in {"execute", "audit", "commit"} /\ handler[h].req \in DOMAIN sent
  BY <1>1, Zenon DEF Works
<1>3. Asked(h) \in Request /\ Formed(Asked(h))
  BY <1>0, <1>2, SentRequests, Zenon DEF Asked, SentInv
<1>4. CASE Asked(h).op = "ReorderProjects"
  <2>1. Placed(h)
    BY <1>1, <1>2, <1>4, Zenon DEF Works
  <2>2. PICK k \in 0..Len(Asked(h).list) - 1 : writes[h][i] = ProjectReordered(rows[i], k)
    BY <2>1, Zenon DEF Placed
  <2>3. i \in Projects /\ i \notin Entries /\ rows[i] \in Row
    BY <1>0, <2>1, StoredRows, ConstantsAssumption, Zenon DEF Placed, ListProjects
  <2>4. k \in Nat
    BY <1>3 DEF Request
  <2> DEFINE new == [rows[i] EXCEPT !.order = k]
  <2>5. /\ new \in Row /\ new.version = rows[i].version /\ new.seal = rows[i].seal
        /\ new.blob = rows[i].blob /\ new.project = rows[i].project
    <3>1. new \in Row
      BY <2>3, <2>4, RowWith, Zenon
    <3> QED
      BY <2>3, <3>1, Zenon DEF Row
  <2>6. writes[h][i] = new
    BY <2>2, Zenon DEF ProjectReordered
  <2> HIDE DEF new
  <2>7. Change(Asked(h), i, rows[i], new)
    BY <1>4, <2>3, <2>5, Zenon DEF Change
  <2> QED
    BY <1>1, <1>2, <1>3, <1>4, <2>6, <2>7, Zenon
<1>5. CASE Asked(h).op # "ReorderProjects"
  <2>1. Executed(h)
    BY <1>1, <1>2, <1>5, Zenon DEF Works
  <2>2. /\ Matches(Asked(h)) /\ i \in Touched(Asked(h))
        /\ writes[h][i] = After(handler[h].req, i, rows[i])
    BY <2>1, Zenon DEF Executed, Asked
  <2>3. Change(Asked(h), i, rows[i], writes[h][i])
    BY <1>0, <1>2, <1>5, <2>2, AfterChange, Zenon DEF Asked
  <2> QED
    BY <1>1, <1>2, <1>3, <2>1, <2>3, Zenon
<1> QED
  BY <1>4, <1>5, Zenon

\* A transaction that removes a row executes a delete of that record.
LEMMA RemovedByDelete ==
    ASSUME VaultInv, NEW h \in Handlers, NEW i \in DOMAIN writes[h], writes[h][i] = NoRow
    PROVE  /\ Asked(h).op \in Deletes /\ Asked(h).id = i /\ Executed(h)
           /\ i \in Projects => Asked(h).op = "DeleteProject"
<1>1. /\ Change(Asked(h), i, rows[i], writes[h][i]) /\ Formed(Asked(h))
      /\ Asked(h).op # "ReorderProjects" => Executed(h)
  BY WrittenChange, Zenon
<1>2. Asked(h).op \in Deletes /\ Asked(h).id = i
  BY <1>1, NoRowAssumption, Zenon DEF Change
<1> QED
  BY <1>1, <1>2, ConstantsAssumption, Zenon DEF Deletes, Formed, EntryOps

\* A row that a transaction writes refers to the project of its request, to the
\* project it referred to, or to none.
LEMMA ProjectAfter ==
    ASSUME NEW q, NEW i, NEW old, NEW new, Change(q, i, old, new), new # NoRow
    PROVE  /\ new \in Row
           /\ \/ new.project = q.project
              \/ new.project = NoProject
              \/ old \in Row /\ new.project = old.project /\ q.op \notin Creates \cup Updates
  BY Zenon DEF Change, Creates, Updates

\* A statement that runs conflicts with no open transaction: not with the rows
\* that these have written, nor over a project one deletes and the other needs.
LEMMA ExecuteCompatible ==
    ASSUME VaultInv, NEW h \in Handlers, NEW k \in Others(h), NEW q \in Request, Formed(q),
           NEW w, DOMAIN w \subseteq Ids, Unlocked(h, q, DOMAIN w),
           \A i \in DOMAIN w : Change(q, i, rows[i], w[i])
    PROVE  Compatible(w, writes[k]) /\ Compatible(writes[k], w)
<1>0. TypeOK /\ RowInv /\ k \in Handlers
  BY Zenon DEF VaultInv, Others
<1>1. /\ DOMAIN w \cap DOMAIN writes[k] = {}
      /\ q.project \in DOMAIN writes[k] => writes[k][q.project] # NoRow
      /\ q.op = "DeleteProject" =>
           \A i \in DOMAIN writes[k] : writes[k][i] # NoRow => writes[k][i].project # q.id
      /\ DOMAIN writes[k] \subseteq Ids
  BY <1>0, Zenon DEF Unlocked, TypeOK
<1>2. ASSUME NEW i \in DOMAIN w, NEW p \in DOMAIN writes[k], w[i] # NoRow,
             writes[k][p] = NoRow, w[i].project = p
      PROVE  FALSE
  <2>1. p # q.project /\ p # NoProject
    BY <1>1, <1>2, ConstantsAssumption, Zenon DEF Ids
  <2>2. rows[i] \in Row /\ rows[i].project = p /\ w[i] \in Row
    BY <1>2, <2>1, ProjectAfter
  <2>3. p \in Projects /\ i \in Stored /\ i \in Ids
    BY <2>1, <2>2, NoRowAssumption, Zenon DEF Row, Stored
  <2>4. i \in Entries
    BY <1>0, <2>1, <2>2, <2>3, Zenon DEF RowInv, Good, Ids
  <2>5. Asked(k).op = "DeleteProject" /\ Asked(k).id = p /\ Executed(k)
    BY <1>0, <1>2, <2>3, RemovedByDelete, Zenon
  <2>6. i \in Inside(p)
    BY <2>2, <2>3, <2>4, Zenon DEF Inside, ListEntries
  <2>7. i \in DOMAIN writes[k]
    BY <2>5, <2>6, Zenon DEF Executed, Touched, Asked
  <2> QED
    BY <1>1, <2>7, Zenon
<1>3. ASSUME NEW i \in DOMAIN writes[k], NEW p \in DOMAIN w, writes[k][i] # NoRow,
             w[p] = NoRow, writes[k][i].project = p
      PROVE  FALSE
  <2>1. q.op \in Deletes /\ p = q.id
    BY <1>3, NoRowAssumption, Zenon DEF Change
  <2>2. writes[k][i] \in Row
    BY <1>0, <1>3, Zenon DEF TypeOK
  <2>3. p \in Projects
    BY <1>3, <2>2, ConstantsAssumption, Zenon DEF Row, Ids
  <2>4. q.op = "DeleteProject"
    BY <2>1, <2>3, ConstantsAssumption, Zenon DEF Deletes, Formed, EntryOps
  <2> QED
    BY <1>1, <1>3, <2>1, <2>4, Zenon
<1> QED
  BY <1>1, <1>2, <1>3, Zenon DEF Compatible

-----------------------------------------------------------------------------
(* The steps of a handler up to the commit, and after it                   *)

Stages == {"idle", "execute", "audit", "commit", "cache"}

\* A handler with some fields set is a handler.
LEMMA HandlerWith ==
    /\ \A x \in Handler, st \in Stages :
         /\ [x EXCEPT !.stage = st] \in Handler
         /\ [x EXCEPT !.stage = st].stage = st
         /\ [x EXCEPT !.stage = st].req = x.req
    /\ \A x \in Handler, m \in Nat :
         /\ [x EXCEPT !.place = m] \in Handler
         /\ [x EXCEPT !.place = m].stage = x.stage
         /\ [x EXCEPT !.place = m].req = x.req
         /\ [x EXCEPT !.place = m].place = m
    /\ \A n \in 0..MaxRequests :
         [stage |-> "execute", req |-> n, place |-> 0] \in Handler
    /\ IdleHandler \in Handler /\ IdleHandler.stage = "idle"
<1>1. \A x \in Handler, st \in Stages :
         /\ [x EXCEPT !.stage = st] \in Handler
         /\ [x EXCEPT !.stage = st].stage = st
         /\ [x EXCEPT !.stage = st].req = x.req
  BY Zenon DEF Handler, Stages
<1>2. \A x \in Handler, m \in Nat :
         /\ [x EXCEPT !.place = m] \in Handler
         /\ [x EXCEPT !.place = m].stage = x.stage
         /\ [x EXCEPT !.place = m].req = x.req
         /\ [x EXCEPT !.place = m].place = m
  BY Zenon DEF Handler
<1>3. \A st \in Stages, n \in 0..MaxRequests, m \in Nat :
         [stage |-> st, req |-> n, place |-> m] \in Handler
  BY Zenon DEF Handler, Stages
<1>4. "execute" \in Stages /\ "idle" \in Stages /\ 0 \in Nat /\ 0 \in 0..MaxRequests
  BY ConstantsAssumption DEF Stages
<1>5. \A n \in 0..MaxRequests : [stage |-> "execute", req |-> n, place |-> 0] \in Handler
  BY <1>3, <1>4, Zenon
<1>6. IdleHandler \in Handler
  BY <1>3, <1>4, Zenon DEF IdleHandler
<1>7. IdleHandler.stage = "idle"
  BY Zenon DEF IdleHandler
<1> QED
  BY <1>1, <1>2, <1>5, <1>6, <1>7, Zenon

\* A handler goes on and its transaction does not.
LEMMA StageKeeps ==
    ASSUME VaultInv, NEW h \in Handlers, NEW s \in Handler,
           handler' = [handler EXCEPT ![h] = s],
           UNCHANGED <<sent, writes, cache, tables>>, Works(h)'
    PROVE  VaultInv'
<1>0. TypeOK /\ LockInv /\ CachedWasApplied
  BY Zenon DEF VaultInv
<1>1. writes' = [writes EXCEPT ![h] = writes[h]]
  BY <1>0, Zenon DEF LockInv
<1>2. /\ cache' \in [Requests -> {"none", "live", "expired"}] /\ CachedWasApplied'
      /\ DOMAIN writes[h] \subseteq Ids
      /\ \A i \in DOMAIN writes[h] : writes[h][i] \in Row \cup {NoRow}
  BY <1>0, Zenon DEF TypeOK, CachedWasApplied, tables
<1>3. \A k \in Others(h) : /\ Compatible(writes[h], writes[k])
                           /\ Compatible(writes[k], writes[h])
  BY <1>0, Zenon DEF LockInv, Others
<1> QED
  BY <1>1, <1>2, <1>3, LocalKeeps, Zenon

\* A transaction is over, and the handler free.
LEMMA FinishKeeps ==
    ASSUME VaultInv, NEW h \in Handlers, Finish(h), sent' = sent, UNCHANGED tables,
           cache' \in [Requests -> {"none", "live", "expired"}], CachedWasApplied'
    PROVE  VaultInv'
<1>0. TypeOK /\ LockInv
  BY Zenon DEF VaultInv
<1>1. /\ handler' = [handler EXCEPT ![h] = IdleHandler]
      /\ writes' = [writes EXCEPT ![h] = <<>>]
  BY Zenon DEF Finish
<1>2. handler'[h] = IdleHandler /\ writes'[h] = <<>>
  BY <1>0, <1>1, Zenon DEF TypeOK, LockInv
<1>3. Works(h)'
  BY <1>2, HandlerWith DEF Works
<1>4. \A k \in Others(h) : Compatible(<<>>, writes[k]) /\ Compatible(writes[k], <<>>)
  BY DEF Compatible
<1>5. DOMAIN <<>> \subseteq Ids /\ \A i \in DOMAIN <<>> : <<>>[i] \in Row \cup {NoRow}
  OBVIOUS
<1> QED
  BY <1>1, <1>3, <1>4, <1>5, HandlerWith, LocalKeeps, Zenon

\* A statement runs.
LEMMA ExecuteKeeps ==
    ASSUME VaultInv, NEW h \in Handlers, NEW op, NEW w, Execute(h, op, w),
           op # "ReorderProjects", DOMAIN w = Touched(Asked(h)),
           \A i \in DOMAIN w : w[i] = After(handler[h].req, i, rows[i])
    PROVE  VaultInv'
<1>0. TypeOK /\ SentInv /\ LockInv /\ HandlerInv /\ CachedWasApplied
  BY Zenon DEF VaultInv
<1> DEFINE n == handler[h].req
           st == IF op \in Unaudited THEN "commit" ELSE "audit"
           s == [handler[h] EXCEPT !.stage = st]
<1>1. /\ handler[h].stage = "execute" /\ Asked(h).op = op /\ Matches(Asked(h))
      /\ Unlocked(h, Asked(h), DOMAIN w) /\ writes' = [writes EXCEPT ![h] = w]
      /\ handler' = [handler EXCEPT ![h] = s] /\ UNCHANGED <<sent, cache, tables>>
  BY Zenon DEF Execute, Goto
<1>2. /\ n \in DOMAIN sent /\ Asked(h) \in Request /\ Formed(Asked(h)) /\ Asked(h) = sent[n]
      /\ handler[h] \in Handler
  BY <1>0, <1>1, SentRequests, Zenon DEF HandlerInv, Works, SentInv, Asked, TypeOK
<1>3. s \in Handler /\ s.stage \in {"audit", "commit"} /\ s.req = n
  <2>1. st \in Stages /\ st \in {"audit", "commit"}
    BY Zenon DEF Stages
  <2> HIDE DEF st
  <2> QED
    BY <1>2, <2>1, HandlerWith
<1>4. ASSUME NEW i \in DOMAIN w
      PROVE  Change(Asked(h), i, rows[i], w[i]) /\ i \in Ids
  <2>1. Change(Asked(h), i, rows[i], w[i])
    BY <1>0, <1>1, <1>2, AfterChange, Zenon
  <2>2. i \in Ids
    BY <1>2, Zenon DEF Touched, Inside, ListEntries, Stored, Request
  <2> QED
    BY <2>1, <2>2, Zenon
<1>5. \A i \in DOMAIN w : w[i] \in Row \cup {NoRow}
  BY <1>4, Zenon DEF Change
<1>6. \A k \in Others(h) : Compatible(w, writes[k]) /\ Compatible(writes[k], w)
  BY <1>1, <1>2, <1>4, ExecuteCompatible, Zenon
<1> HIDE DEF s
<1>7. /\ handler'[h] = s /\ writes'[h] = w /\ rows' = rows /\ Stored' = Stored
      /\ sent' = sent /\ cache' = cache /\ applied' = applied
  BY <1>0, <1>1, Zenon DEF TypeOK, LockInv, tables, Stored
<1>8. Works(h)'
  <2>1. Matches(sent[n]) => Matches(sent[n])'
    BY <1>3, <1>7, Zenon DEF Matches, ProjectChoices, ListProjects
  <2>2. Touched(sent[n])' = Touched(sent[n])
    BY <1>3, <1>7, Zenon DEF Touched, Inside, ListEntries
  <2>3. \A i : After(n, i, rows[i])' = After(n, i, rows[i])
    BY <1>3, <1>7, Zenon DEF After, Sealed, EntryUpdated, ProjectUpdated, FavoriteSet
  <2>4. Executed(h)'
    BY <1>1, <1>2, <1>3, <1>7, <2>1, <2>2, <2>3 DEF Executed
  <2>5. Asked(h)' = Asked(h)
    BY <1>3, <1>7, Zenon DEF Asked
  <2> QED
    BY <1>1, <1>2, <1>3, <1>7, <2>4, <2>5, Zenon DEF Works
<1>9. cache' \in [Requests -> {"none", "live", "expired"}] /\ CachedWasApplied'
  BY <1>0, <1>7, Zenon DEF TypeOK, CachedWasApplied
<1> QED
  BY <1>1, <1>3, <1>4, <1>5, <1>6, <1>8, <1>9, LocalKeeps, Zenon

\* A statement is executed on rows that nobody else has locked.
LEMMA StatementKeeps ==
    ASSUME VaultInv, NEW h \in Handlers,
           \/ CreateEntry(h) \/ UpdateEntry(h) \/ DeleteEntry(h) \/ ToggleFavorite(h)
           \/ CreateProject(h) \/ UpdateProject(h) \/ DeleteProject(h)
    PROVE  VaultInv'
<1> DEFINE n == handler[h].req
<1>0. Asked(h) = sent[n]
  BY Zenon DEF Asked
<1>1. CASE CreateEntry(h) \/ CreateProject(h)
  <2> DEFINE w == [i \in {sent[n].id} |-> Sealed(n, 1)]
  <2>1. PICK op \in Creates : Execute(h, op, w)
    BY <1>1, Zenon DEF CreateEntry, CreateProject, EntryInserted, ProjectInserted, Creates
  <2>2. sent[n].op = op /\ op # "ReorderProjects"
    BY <1>0, <2>1, Zenon DEF Execute, Creates
  <2>3. DOMAIN w = Touched(sent[n])
    BY <2>2, <2>1, Zenon DEF Touched, Creates
  <2>4. \A i \in DOMAIN w : w[i] = After(n, i, rows[i])
    BY <2>1, <2>2, AfterOf
  <2> QED
    BY <1>0, <2>1, <2>2, <2>3, <2>4, ExecuteKeeps
<1>2. CASE UpdateEntry(h)
  <2> DEFINE w == [i \in {sent[n].id} |-> EntryUpdated(n, rows[i])]
  <2>1. Execute(h, "UpdateEntry", w)
    BY <1>2, Zenon DEF UpdateEntry
  <2>2. sent[n].op = "UpdateEntry"
    BY <1>0, <2>1, Zenon DEF Execute
  <2>3. DOMAIN w = Touched(sent[n])
    BY <2>2, Zenon DEF Touched
  <2>4. \A i \in DOMAIN w : w[i] = After(n, i, rows[i])
    BY <2>2, AfterOf
  <2> QED
    BY <1>0, <2>1, <2>3, <2>4, ExecuteKeeps, Zenon
<1>3. CASE UpdateProject(h)
  <2> DEFINE w == [i \in {sent[n].id} |-> ProjectUpdated(n, rows[i])]
  <2>1. Execute(h, "UpdateProject", w)
    BY <1>3, Zenon DEF UpdateProject
  <2>2. sent[n].op = "UpdateProject"
    BY <1>0, <2>1, Zenon DEF Execute
  <2>3. DOMAIN w = Touched(sent[n])
    BY <2>2, Zenon DEF Touched
  <2>4. \A i \in DOMAIN w : w[i] = After(n, i, rows[i])
    BY <2>2, AfterOf
  <2> QED
    BY <1>0, <2>1, <2>3, <2>4, ExecuteKeeps, Zenon
<1>4. CASE ToggleFavorite(h)
  <2> DEFINE w == [i \in {sent[n].id} |-> FavoriteSet(n, rows[i])]
  <2>1. Execute(h, "ToggleFavorite", w)
    BY <1>4, Zenon DEF ToggleFavorite
  <2>2. sent[n].op = "ToggleFavorite"
    BY <1>0, <2>1, Zenon DEF Execute
  <2>3. DOMAIN w = Touched(sent[n])
    BY <2>2, Zenon DEF Touched
  <2>4. \A i \in DOMAIN w : w[i] = After(n, i, rows[i])
    BY <2>2, AfterOf
  <2> QED
    BY <1>0, <2>1, <2>3, <2>4, ExecuteKeeps, Zenon
<1>5. CASE DeleteEntry(h)
  <2> DEFINE w == [i \in {sent[n].id} |-> NoRow]
  <2>1. Execute(h, "DeleteEntry", w)
    BY <1>0, <1>5, Zenon DEF DeleteEntry
  <2>2. sent[n].op = "DeleteEntry" /\ sent[n].op \in Deletes
    BY <1>0, <2>1, Zenon DEF Execute, Deletes
  <2>3. DOMAIN w = Touched(sent[n])
    BY <2>2, Zenon DEF Touched
  <2>4. \A i \in DOMAIN w : w[i] = After(n, i, rows[i])
    BY <2>2, AfterOf
  <2> QED
    BY <1>0, <2>1, <2>3, <2>4, ExecuteKeeps
<1>6. CASE DeleteProject(h)
  <2> DEFINE p == sent[n].id
             w == [i \in {p} \cup Inside(p) |->
                     IF i = p THEN NoRow ELSE [rows[i] EXCEPT !.project = NoProject]]
  <2>1. Execute(h, "DeleteProject", w)
    BY <1>0, <1>6, Zenon DEF DeleteProject, Inside
  <2>2. sent[n].op = "DeleteProject" /\ sent[n].op \in Deletes
    BY <1>0, <2>1, Zenon DEF Execute, Deletes
  <2>3. DOMAIN w = Touched(sent[n])
    BY <2>2, Zenon DEF Touched
  <2>4. \A i \in DOMAIN w : w[i] = After(n, i, rows[i])
    BY <2>2, AfterOf
  <2> HIDE DEF w
  <2> QED
    BY <1>0, <2>1, <2>3, <2>4, ExecuteKeeps, Zenon
<1> QED
  BY <1>1, <1>2, <1>3, <1>4, <1>5, <1>6

\* One UPDATE of a reorder.
LEMMA ReorderKeeps ==
    ASSUME VaultInv, NEW h \in Handlers, ReorderProject(h)
    PROVE  VaultInv'
<1>0. TypeOK /\ SentInv /\ LockInv /\ HandlerInv /\ RowInv /\ CachedWasApplied
  BY Zenon DEF VaultInv
<1> DEFINE q == Asked(h)
           l == handler[h].place
           p == q.list[l + 1]
           moved == IF p \in Stored
                    THEN [i \in {p} |-> ProjectReordered(rows[p], l)] ELSE <<>>
           w == Overlay(writes[h], moved)
           s == [handler[h] EXCEPT !.place = l + 1]
<1>1. /\ handler[h].stage = "execute" /\ q.op = "ReorderProjects" /\ l < Len(q.list)
      /\ Unlocked(h, q, DOMAIN moved) /\ writes' = [writes EXCEPT ![h] = w]
      /\ handler' = [handler EXCEPT ![h] = s] /\ UNCHANGED <<sent, cache, tables>>
  BY Zenon DEF ReorderProject
<1>2. /\ handler[h].req \in DOMAIN sent /\ q \in Request /\ Formed(q)
      /\ handler[h] \in Handler /\ l \in Nat /\ Placed(h)
  BY <1>0, <1>1, SentRequests, Zenon DEF HandlerInv, Works, SentInv, Asked, TypeOK, Handler
<1>3. q.list \in Seq(Projects) /\ p \in Projects /\ l \in 0..Len(q.list) - 1
  <2>1. q.list \in Seq(Projects) /\ Len(q.list) \in Nat
    BY <1>2 DEF Request
  <2> QED
    BY <1>1, <1>2, <2>1
<1>4. /\ DOMAIN moved = {p} \cap Stored
      /\ \A i \in DOMAIN moved : i = p /\ moved[i] = ProjectReordered(rows[i], l)
  <2> HIDE DEF q, l, p
  <2>1. CASE p \in Stored
    <3>1. moved = [i \in {p} |-> ProjectReordered(rows[p], l)]
      BY <2>1, Zenon
    <3> HIDE DEF moved
    <3> QED
      BY <2>1, <3>1, Zenon
  <2>2. CASE p \notin Stored
    <3>1. moved = <<>>
      BY <2>2, Zenon
    <3> HIDE DEF moved
    <3>2. DOMAIN moved = {}
      BY <3>1
    <3> QED
      BY <2>2, <3>2, Zenon
  <2> QED
    BY <2>1, <2>2, Zenon
<1>5. /\ DOMAIN w = DOMAIN writes[h] \cup DOMAIN moved
      /\ \A i \in DOMAIN w : w[i] = IF i \in DOMAIN moved THEN moved[i] ELSE writes[h][i]
  BY Zenon DEF Overlay
<1> HIDE DEF moved, w
<1>6. ASSUME NEW i \in DOMAIN w
      PROVE  /\ i \in ListProjects
             /\ \E k \in 0..Len(q.list) - 1 : /\ q.list[k + 1] = i
                                              /\ w[i] = ProjectReordered(rows[i], k)
  <2>1. CASE i \in DOMAIN moved
    BY <1>3, <1>4, <1>5, <2>1, Zenon DEF ListProjects
  <2>2. CASE i \notin DOMAIN moved
    BY <1>2, <1>5, <2>2, SMTT(40) DEF Placed
  <2> QED
    BY <2>1, <2>2, Zenon
<1>7. ASSUME NEW i \in DOMAIN moved
      PROVE  Change(q, i, rows[i], moved[i]) /\ moved[i] \in Row /\ i \in Ids
  <2>1. i \in Projects /\ i \in Stored /\ moved[i] = [rows[i] EXCEPT !.order = l]
    BY <1>3, <1>4, Zenon DEF ProjectReordered
  <2>2. rows[i] \in Row /\ i \notin Entries /\ i \in Ids
    BY <1>0, <2>1, StoredRows, ConstantsAssumption, Zenon
  <2>3. moved[i] \in Row
    BY <1>2, <2>1, <2>2, RowWith
  <2>4. /\ moved[i].version = rows[i].version /\ moved[i].seal = rows[i].seal
        /\ moved[i].blob = rows[i].blob /\ moved[i].project = rows[i].project
    BY <2>1, <2>2, Zenon DEF Row
  <2> QED
    BY <1>1, <2>2, <2>3, <2>4, Zenon DEF Change
<1>8. DOMAIN w \subseteq Ids /\ \A i \in DOMAIN w : w[i] \in Row \cup {NoRow}
  BY <1>0, <1>5, <1>7, Zenon DEF TypeOK
<1>9. ASSUME NEW k \in Others(h)
      PROVE  Compatible(w, writes[k]) /\ Compatible(writes[k], w)
  <2>1. Compatible(moved, writes[k]) /\ Compatible(writes[k], moved)
    BY <1>1, <1>2, <1>7, ExecuteCompatible, Zenon
  <2>2. Compatible(writes[h], writes[k]) /\ Compatible(writes[k], writes[h])
    BY <1>0, Zenon DEF LockInv, Others
  <2> QED
    BY <1>5, <2>1, <2>2 DEF Compatible
<1>10. s \in Handler /\ s.stage = "execute" /\ s.req = handler[h].req
  <2>1. l + 1 \in Nat
    BY <1>2
  <2> QED
    BY <1>1, <1>2, <2>1, HandlerWith
<1> HIDE DEF s
<1>11. /\ handler'[h] = s /\ writes'[h] = w /\ rows' = rows /\ Stored' = Stored
       /\ sent' = sent /\ cache' = cache /\ applied' = applied
  BY <1>0, <1>1, Zenon DEF TypeOK, LockInv, tables, Stored
<1>12. Works(h)'
  <2>1. Asked(h)' = q
    BY <1>10, <1>11, Zenon DEF Asked
  <2>2. Placed(h)'
    BY <1>6, <1>11, <2>1 DEF Placed, ListProjects
  <2> QED
    BY <1>1, <1>2, <1>10, <1>11, <2>1, <2>2, Zenon DEF Works
<1>13. cache' \in [Requests -> {"none", "live", "expired"}] /\ CachedWasApplied'
  BY <1>0, <1>11, Zenon DEF TypeOK, CachedWasApplied
<1> QED
  BY <1>1, <1>8, <1>9, <1>10, <1>12, <1>13, LocalKeeps, Zenon

\* The steps around the statements.
LEMMA AroundKeeps ==
    ASSUME VaultInv, NEW h \in Handlers,
           \/ Lookup(h) \/ ReorderDone(h) \/ Refuse(h) \/ Audit(h) \/ Fail(h)
           \/ CacheAnswer(h) \/ CacheFails(h)
    PROVE  VaultInv'
<1>0. /\ TypeOK /\ HandlerInv /\ CachedWasApplied /\ LockInv
      /\ handler[h] \in Handler /\ Works(h)
  BY Zenon DEF VaultInv, TypeOK, HandlerInv
<1>1. CASE Lookup(h)
  <2>1. PICK n \in DOMAIN sent :
          /\ handler[h].stage = "idle"
          /\ handler' = [handler EXCEPT ![h] = [stage |-> "execute", req |-> n, place |-> 0]]
          /\ UNCHANGED <<sent, writes, cache, tables>>
    BY <1>1, Zenon DEF Lookup
  <2> DEFINE s == [stage |-> "execute", req |-> n, place |-> 0]
  <2>2. s \in Handler /\ s.stage = "execute" /\ s.req = n
    BY <1>0, HandlerWith, SentRequests, Zenon
  <2>3. handler'[h] = s /\ DOMAIN writes'[h] = {}
    BY <1>0, <2>1, Zenon DEF TypeOK, Works
  <2> HIDE DEF s
  <2>4. Works(h)'
    BY <2>1, <2>2, <2>3, Zenon DEF Works, Placed
  <2> QED
    BY <2>1, <2>2, <2>4, StageKeeps, Zenon DEF s
<1>2. CASE ReorderDone(h) \/ Audit(h)
  <2>1. /\ Goto(h, "commit") /\ UNCHANGED <<sent, writes, cache, tables>>
        /\ \/ handler[h].stage = "execute" /\ Asked(h).op = "ReorderProjects"
           \/ handler[h].stage = "audit"
    BY <1>2, Zenon DEF ReorderDone, Audit
  <2> DEFINE s == [handler[h] EXCEPT !.stage = "commit"]
  <2>2. s \in Handler /\ s.stage = "commit" /\ s.req = handler[h].req
    BY <1>0, HandlerWith, Zenon DEF Stages
  <2>3. handler' = [handler EXCEPT ![h] = s]
    BY <2>1, Zenon DEF Goto
  <2> HIDE DEF s
  <2>4. /\ handler'[h] = s /\ writes' = writes /\ rows' = rows /\ sent' = sent
        /\ Stored' = Stored
    BY <1>0, <2>1, <2>3, Zenon DEF TypeOK, tables, Stored
  <2>5. Asked(h)' = Asked(h) /\ handler'[h].req = handler[h].req
    BY <2>2, <2>4, Zenon DEF Asked
  <2>6. Placed(h) => Placed(h)'
    BY <2>4, <2>5 DEF Placed, ListProjects
  <2>7. Executed(h) => Executed(h)'
    <3> DEFINE n == handler[h].req
    <3>1. Matches(sent[n]) => Matches(sent[n])'
      BY <2>4, <2>5, Zenon DEF Matches, ProjectChoices, ListProjects
    <3>2. Touched(sent[n])' = Touched(sent[n])
      BY <2>4, <2>5, Zenon DEF Touched, Inside, ListEntries
    <3>3. \A i : After(n, i, rows[i])' = After(n, i, rows[i])
      BY <2>4, <2>5, Zenon DEF After, Sealed, EntryUpdated, ProjectUpdated, FavoriteSet
    <3> QED
      BY <2>4, <2>5, <3>1, <3>2, <3>3, Zenon DEF Executed
  <2>8. Works(h)'
    BY <1>0, <2>1, <2>2, <2>4, <2>5, <2>6, <2>7, Zenon DEF Works
  <2> QED
    BY <2>1, <2>2, <2>3, <2>8, StageKeeps, Zenon
<1>3. CASE Refuse(h) \/ Fail(h) \/ CacheFails(h)
  <2>1. Finish(h) /\ sent' = sent /\ UNCHANGED tables /\ cache' = cache /\ applied' = applied
    BY <1>3, Zenon DEF Refuse, Fail, CacheFails, tables
  <2>2. cache' \in [Requests -> {"none", "live", "expired"}] /\ CachedWasApplied'
    BY <1>0, <2>1, Zenon DEF TypeOK, CachedWasApplied
  <2> QED
    BY <2>1, <2>2, FinishKeeps, Zenon
<1>4. CASE CacheAnswer(h)
  <2>1. /\ Finish(h) /\ sent' = sent /\ UNCHANGED tables /\ applied' = applied
        /\ cache' = InsertIdempotencyEntry(handler[h].req) /\ handler[h].stage = "cache"
    BY <1>4, Zenon DEF CacheAnswer, tables
  <2>2. handler[h].req \in applied /\ applied \subseteq Requests
    BY <1>0, <2>1, Zenon DEF Works, TypeOK
  <2>3. cache' \in [Requests -> {"none", "live", "expired"}] /\ CachedWasApplied'
    BY <1>0, <2>1, <2>2, Zenon DEF TypeOK, CachedWasApplied, InsertIdempotencyEntry
  <2> QED
    BY <2>1, <2>3, FinishKeeps, Zenon
<1> QED
  BY <1>1, <1>2, <1>3, <1>4, Zenon

-----------------------------------------------------------------------------
(* The commit                                                              *)

\* The rows after the commit of h.
Committed(h) ==
    /\ DOMAIN rows' = Ids
    /\ \A i \in DOMAIN writes[h] : rows'[i] = writes[h][i]
    /\ \A i \in Ids \ DOMAIN writes[h] : rows'[i] = rows[i]

\* What a commit makes of the rows.
LEMMA CommittedRows ==
    ASSUME VaultInv, NEW h \in Handlers, Commit(h)
    PROVE  /\ Committed(h) /\ DOMAIN writes[h] \subseteq Ids
           /\ \A i \in Ids : i \in Stored' <=> rows'[i] # NoRow
           /\ handler[h].req \in DOMAIN sent /\ Asked(h) = sent[handler[h].req]
           /\ handler[h].stage = "commit" /\ Works(h)
<1>0. /\ TypeOK /\ HandlerInv /\ Works(h) /\ handler[h].stage = "commit"
      /\ rows' = Overlay(rows, writes[h])
  BY Zenon DEF VaultInv, HandlerInv, Commit
<1>1. DOMAIN rows = Ids /\ DOMAIN writes[h] \subseteq Ids
  BY <1>0, Zenon DEF TypeOK
<1>2. Committed(h)
  BY <1>0, <1>1, Zenon DEF Committed, Overlay
<1>3. handler[h].req \in DOMAIN sent
  BY <1>0, Zenon DEF Works
<1> QED
  BY <1>0, <1>1, <1>2, <1>3, Zenon DEF Asked, Stored

\* What another open transaction has found and written stands after the commit.
LEMMA CommitElsewhere ==
    ASSUME VaultInv, NEW h \in Handlers, Commit(h), NEW k \in Others(h)
    PROVE  Works(k)'
<1>0. /\ TypeOK /\ SentInv /\ k \in Handlers /\ k # h /\ Works(k)
      /\ Compatible(writes[h], writes[k]) /\ Compatible(writes[k], writes[h])
  BY Zenon DEF VaultInv, LockInv, HandlerInv, Others
<1>1. /\ Committed(h) /\ DOMAIN writes[h] \subseteq Ids
      /\ \A i \in Ids : i \in Stored' <=> rows'[i] # NoRow
  BY CommittedRows, Zenon
<1>2. /\ handler'[k] = handler[k] /\ writes'[k] = writes[k] /\ sent' = sent
      /\ applied \subseteq applied'
  BY <1>0, Zenon DEF Commit, Finish, VaultInv, LockInv, TypeOK
<1>3. DOMAIN writes[k] \subseteq Ids /\ \A i \in DOMAIN writes[k] : rows'[i] = rows[i]
  BY <1>0, <1>1, Zenon DEF Committed, Compatible, TypeOK
<1>4. \A i \in DOMAIN writes[k] : i \in Stored' <=> i \in Stored
  BY <1>0, <1>1, <1>3, StoredRows, Zenon
<1>5. Asked(k)' = Asked(k)
  BY <1>2, Zenon DEF Asked
<1>6. Placed(k) => Placed(k)'
  BY <1>2, <1>3, <1>4, <1>5 DEF Placed, ListProjects
<1>7. ASSUME Executed(k), Asked(k).op # "ReorderProjects", handler[k].stage # "idle"
      PROVE  Executed(k)'
  <2> DEFINE n == handler[k].req
             q == sent[n]
  <2>1. /\ n \in DOMAIN sent /\ q \in Request /\ Formed(q) /\ Matches(q) /\ Asked(k) = q
        /\ DOMAIN writes[k] = Touched(q) /\ q.id \in DOMAIN writes[k]
        /\ \A i \in DOMAIN writes[k] : writes[k][i] = After(n, i, rows[i])
    BY <1>0, <1>7, SentRequests, Zenon DEF Executed, Touched, Works, SentInv, Asked
  <2>2. q.project \in ProjectChoices'
    <3>1. CASE q.project = NoProject
      BY <3>1, Zenon DEF ProjectChoices
    <3>2. CASE q.project # NoProject
      <4>1. q.project \in Projects /\ q.project \in Stored /\ q.project \in Ids
        BY <2>1, <3>2, Zenon DEF Matches, ProjectChoices, ListProjects, Ids
      <4>2. q.op \in Creates \cup Updates
        BY <2>1, <3>2, Zenon DEF Formed, Creates, Updates
      <4>3. Change(q, q.id, rows[q.id], writes[k][q.id])
        BY <1>0, <2>1, WrittenChange, Zenon
      <4>4. writes[k][q.id] \in Row /\ writes[k][q.id].project = q.project
        BY <4>2, <4>3, Zenon DEF Change, Creates, Updates, Deletes
      <4>5. q.project \in DOMAIN writes[h] => writes[h][q.project] # NoRow
        BY <1>0, <2>1, <4>4, NoRowAssumption, Zenon DEF Compatible
      <4>6. q.project \in Stored'
        BY <1>0, <1>1, <4>1, <4>5, StoredRows, Zenon DEF Committed
      <4> QED
        BY <4>1, <4>6, Zenon DEF ProjectChoices, ListProjects
    <3> QED
      BY <3>1, <3>2, Zenon
  <2>3. Matches(q)'
    BY <1>2, <1>3, <1>4, <2>1, <2>2, Zenon DEF Matches
  <2>4. Touched(q)' = Touched(q)
    <3>1. CASE q.op # "DeleteProject"
      BY <1>2, <3>1, Zenon DEF Touched
    <3>2. CASE q.op = "DeleteProject"
      <4>1. Inside(q.id) \subseteq DOMAIN writes[k]
        BY <2>1, <3>2, Zenon DEF Touched
      <4>2. writes[k][q.id] = NoRow
        BY <2>1, <3>2, AfterOf DEF Deletes
      <4>3. ASSUME NEW e \in Inside(q.id) PROVE e \in Inside(q.id)'
        BY <1>2, <1>3, <1>4, <4>1, <4>3, Zenon DEF Inside, ListEntries
      <4>4. ASSUME NEW e \in Inside(q.id)' PROVE e \in Inside(q.id)
        <5>1. e \in Stored' /\ e \in Entries /\ rows'[e].project = q.id /\ e \in Ids
          BY <1>2, <4>4, Zenon DEF Inside, ListEntries, Ids
        <5>2. e \notin DOMAIN writes[h]
          BY <1>0, <1>1, <2>1, <4>2, <5>1, ZenonT(40) DEF Committed, Compatible
        <5>3. rows'[e] = rows[e]
          BY <1>1, <5>1, <5>2, Zenon DEF Committed
        <5> QED
          BY <1>0, <1>1, <5>1, <5>3, StoredRows, Zenon DEF Inside, ListEntries
      <4>5. Inside(q.id)' = Inside(q.id)
        BY <4>3, <4>4, Zenon
      <4> QED
        BY <1>2, <4>5, Zenon DEF Touched
    <3> QED
      BY <3>1, <3>2, Zenon
  <2>5. ASSUME NEW i \in DOMAIN writes[k] PROVE After(n, i, rows[i])' = After(n, i, rows[i])
    BY <1>2, <1>3, Zenon DEF After, Sealed, EntryUpdated, ProjectUpdated, FavoriteSet
  <2> QED
    BY <1>2, <2>1, <2>3, <2>4, <2>5, Zenon DEF Executed
<1> QED
  BY <1>0, <1>2, <1>5, <1>6, <1>7, Zenon DEF Works

\* What a change of a record does to its row.
LEMMA GoodChange ==
    ASSUME NEW q \in Request, Formed(q), NEW i \in Ids, NEW old, NEW new,
           Change(q, i, old, new), old # NoRow => Good(i, old), new # NoRow
    PROVE  Good(i, new)
<1>0. i \in Projects /\ i = q.id => q.op \notin EntryOps
  BY ConstantsAssumption, Zenon DEF Formed
<1>1. CASE q.op \in Creates /\ i = q.id /\ new.seal = 1 /\ new.version = 1
           /\ new.project = q.project /\ new.order = 0
  BY <1>0, <1>1, Zenon DEF Good, Formed, Creates, EntryOps
<1>2. CASE q.op \in Updates /\ i = q.id /\ new.version = new.seal
           /\ new.project = q.project /\ (i \in Entries => new.order = 0)
  BY <1>0, <1>2, Zenon DEF Good, Formed, Updates, EntryOps
<1>3. CASE /\ old \in Row /\ new.version = old.version /\ new.seal = old.seal
           /\ new.project \in {NoProject, old.project}
           /\ i \in Entries => new.order = old.order
  BY <1>3, NoRowAssumption, Zenon DEF Good
<1> QED
  BY <1>1, <1>2, <1>3, Zenon DEF Change

\* The history of a request after the commit.
LEMMA CommitHistory ==
    ASSUME VaultInv, NEW h \in Handlers, Commit(h), NEW m \in DOMAIN sent, m \notin outlived'
    PROVE  Current(m)'
<1> DEFINE n == handler[h].req
           q == sent[n]
           r == sent[m]
<1>0. /\ TypeOK /\ SentInv /\ HistoryInv /\ Committed(h) /\ DOMAIN writes[h] \subseteq Ids
      /\ \A i \in Ids : i \in Stored' <=> rows'[i] # NoRow
      /\ n \in DOMAIN sent /\ Asked(h) = q /\ handler[h].stage = "commit" /\ Works(h)
      /\ sent' = sent /\ applied' = applied \cup {n}
  BY CommittedRows, Zenon DEF VaultInv, Commit
<1>1. /\ m \notin outlived /\ Current(m)
      /\ q.op \in Deletes => r.id # q.id
  BY <1>0, Zenon DEF Commit, HistoryInv
<1>2. /\ r \in Request /\ r.id \in Ids /\ q \in Request /\ r.expected \in Nat
      /\ q.expected \in Nat
  BY <1>0, SentRequests, Zenon DEF Request
<1>3. \A i \in Ids : i \in Stored <=> rows[i] # NoRow
  BY <1>0, StoredRows, Zenon
<1>4. Current(m)' <=>
        /\ r.op \in Versioned =>
             /\ rows'[r.id] # NoRow
             /\ rows'[r.id].version >= r.expected
             /\ rows'[r.id].version = r.expected => rows'[r.id].blob = r.saw
        /\ m \in applied' =>
             /\ r.op \notin Deletes
             /\ r.op \in Creates => rows'[r.id] # NoRow
             /\ r.op \in Versioned => rows'[r.id].version > r.expected
  BY <1>0, <1>2, Zenon DEF Current
<1>5. /\ r.op \in Versioned =>
           /\ rows[r.id] # NoRow
           /\ rows[r.id].version >= r.expected
           /\ rows[r.id].version = r.expected => rows[r.id].blob = r.saw
      /\ m \in applied =>
           /\ r.op \notin Deletes
           /\ r.op \in Creates => rows[r.id] # NoRow
           /\ r.op \in Versioned => rows[r.id].version > r.expected
  BY <1>1, <1>2, <1>3, Zenon DEF Current
<1>a. m \in applied' <=> m \in applied \/ m = n
  BY <1>0, Zenon
<1>6. CASE r.id \notin DOMAIN writes[h]
  <2>1. rows'[r.id] = rows[r.id]
    BY <1>0, <1>2, <1>6, Zenon DEF Committed
  <2>2. ASSUME m = n PROVE r.op = "ReorderProjects"
    BY <1>0, <1>6, <2>2, Zenon DEF Works, Executed, Touched
  <2>3. r.op = "ReorderProjects" => r.op \notin Versioned \cup Deletes \cup Creates
    BY Zenon DEF Versioned, Deletes, Creates
  <2> QED
    BY <1>a, <1>4, <1>5, <2>1, <2>2, <2>3, Zenon
<1>7. CASE r.id \in DOMAIN writes[h]
  <2> DEFINE old == rows[r.id]
             new == rows'[r.id]
  <2>1. Change(q, r.id, old, new)
    BY <1>0, <1>7, WrittenChange, Zenon DEF Committed
  <2> HIDE DEF q, r
  <2>2. CASE q.op \in Creates /\ r.id = q.id /\ old = NoRow /\ new \in Row
    <3>1. m = n => r.op \notin Versioned \cup Deletes
      BY <2>2, Zenon DEF Creates, Versioned, Deletes, q, r
    <3> QED
      BY <1>a, <1>4, <1>5, <2>2, <3>1, NoRowAssumption, Zenon
  <2>3. CASE /\ q.op \in Updates /\ r.id = q.id /\ old \in Row /\ old.version = q.expected
             /\ new \in Row /\ new.version = q.expected + 1
    <3>1. m = n => r.op \notin Deletes
      BY <2>3, Zenon DEF Updates, Deletes, q, r
    <3>2. r.op \in Versioned => new.version > r.expected
      BY <1>2, <1>5, <2>3
    <3> QED
      BY <1>a, <1>2, <1>4, <1>5, <2>3, <3>1, <3>2, NoRowAssumption
  <2>4. CASE q.op \in Deletes /\ r.id = q.id
    BY <1>1, <2>4, Zenon DEF q, r
  <2>5. CASE /\ q.op \in {"ToggleFavorite", "ReorderProjects", "DeleteProject"}
             /\ q.op = "DeleteProject" => r.id # q.id
             /\ old \in Row /\ new \in Row /\ new.version = old.version
             /\ new.blob = old.blob
    <3>1. m = n => r.op \notin Deletes \cup Creates \cup Versioned
      BY <2>5, Zenon DEF Creates, Versioned, Deletes, q, r
    <3> QED
      BY <1>a, <1>4, <1>5, <2>5, <3>1, NoRowAssumption, Zenon
  <2> QED
    BY <2>1, <2>2, <2>3, <2>4, <2>5, Zenon DEF Change
<1> QED
  BY <1>6, <1>7, Zenon

\* A commit leaves what every other transaction has executed as it is, for the
\* rows they depend on were locked against it.
LEMMA CommitKeeps ==
    ASSUME VaultInv, NEW h \in Handlers, Commit(h)
    PROVE  VaultInv'
<1> DEFINE n == handler[h].req
           s == [handler[h] EXCEPT !.stage = "cache"]
<1>0. /\ TypeOK /\ SentInv /\ RowInv /\ HistoryInv /\ LockInv /\ CachedWasApplied
      /\ HandlerInv
      /\ Committed(h) /\ DOMAIN writes[h] \subseteq Ids
      /\ \A i \in Ids : i \in Stored' <=> rows'[i] # NoRow
      /\ n \in DOMAIN sent /\ Asked(h) = sent[n]
  BY CommittedRows, Zenon DEF VaultInv
<1>1. /\ sent' = sent /\ cache' = cache /\ applied' = applied \cup {n}
      /\ outlived' \in {outlived, outlived \cup {m \in DOMAIN sent : sent[m].id = Asked(h).id}}
      /\ writes' = [writes EXCEPT ![h] = <<>>]
      /\ \/ handler' = [handler EXCEPT ![h] = s]
         \/ handler' = [handler EXCEPT ![h] = IdleHandler]
  BY Zenon DEF Commit, Finish
<1>2. /\ s \in Handler /\ s.stage = "cache" /\ s.req = n
  BY <1>0, HandlerWith, Zenon DEF TypeOK, Stages
<1> HIDE DEF s
<1>3. /\ handler' \in [Handlers -> Handler] /\ handler'[h] \in {s, IdleHandler}
      /\ writes'[h] = <<>> /\ writes' = [k \in Handlers |-> writes'[k]]
      /\ \A k \in Others(h) : writes'[k] = writes[k]
  BY <1>0, <1>1, <1>2, HandlerWith DEF TypeOK, LockInv, Others
<1>4. ASSUME NEW i \in Ids, rows'[i] # NoRow
      PROVE  rows'[i] \in Row /\ Good(i, rows'[i])
  <2>1. CASE i \in DOMAIN writes[h]
    <3>1. /\ Change(Asked(h), i, rows[i], writes[h][i]) /\ rows'[i] = writes[h][i]
          /\ Asked(h) \in Request /\ Formed(Asked(h))
      BY <1>0, <2>1, WrittenChange, Zenon DEF Committed
    <3>2. rows[i] # NoRow => Good(i, rows[i])
      BY <1>0, StoredRows, Zenon DEF RowInv
    <3>3. Good(i, rows'[i])
      BY <1>4, <3>1, <3>2, GoodChange, Zenon
    <3> QED
      BY <1>4, <3>1, <3>3, ProjectAfter, Zenon
  <2>2. CASE i \notin DOMAIN writes[h]
    <3>1. rows'[i] = rows[i]
      BY <1>0, <2>2, Zenon DEF Committed
    <3> QED
      BY <1>0, <1>4, <3>1, StoredRows, Zenon DEF RowInv
  <2> QED
    BY <2>1, <2>2, Zenon
<1>5. RowInv'
  BY <1>0, <1>4, Zenon DEF RowInv, Stored
<1>6. TypeOK'
  <2>1. rows' \in [Ids -> Row \cup {NoRow}]
    <3>1. rows' = [i \in Ids |-> rows'[i]]
      BY <1>0, Zenon DEF Commit, Overlay, Committed
    <3> QED
      BY <1>4, <3>1, Zenon
  <2>2. applied' \subseteq Requests /\ outlived' \subseteq Requests
    BY <1>0, <1>1, SentRequests DEF TypeOK
  <2>3. \A k \in Handlers : /\ DOMAIN writes'[k] \subseteq Ids
                            /\ \A i \in DOMAIN writes'[k] : writes'[k][i] \in Row \cup {NoRow}
    <3> SUFFICES ASSUME NEW k \in Handlers
                 PROVE  /\ DOMAIN writes'[k] \subseteq Ids
                        /\ \A i \in DOMAIN writes'[k] : writes'[k][i] \in Row \cup {NoRow}
      BY Zenon
    <3>1. CASE k = h
      <4>1. writes'[k] = <<>>
        BY <1>3, <3>1, Zenon
      <4> QED
        BY <4>1
    <3>2. CASE k # h
      BY <1>0, <1>3, <3>2, Zenon DEF TypeOK, Others
    <3> QED
      BY <3>1, <3>2, Zenon
  <2> QED
    BY <1>0, <1>1, <1>3, <2>1, <2>2, <2>3, Zenon DEF TypeOK
<1>7. HandlerInv'
  <2>1. Works(h)'
    BY <1>0, <1>1, <1>2, <1>3, HandlerWith DEF Works
  <2> QED
    BY <2>1, CommitElsewhere, Zenon DEF HandlerInv, Others
<1>8. LockInv'
  <2>1. ASSUME NEW k \in Handlers, NEW l \in Handlers, k # l
        PROVE  Compatible(writes'[k], writes'[l])
    <3>1. CASE k # h /\ l # h
      BY <1>0, <1>3, <2>1, <3>1, Zenon DEF LockInv, Others
    <3>2. CASE k = h \/ l = h
      BY <1>3, <3>2 DEF Compatible
    <3> QED
      BY <3>1, <3>2, Zenon
  <2> QED
    BY <1>3, <2>1, Zenon DEF LockInv
<1>9. HistoryInv'
  <2>1. \A m \in DOMAIN sent : m \notin outlived' => Current(m)'
    BY CommitHistory, Zenon
  <2> QED
    BY <1>0, <1>1, <2>1, Zenon DEF HistoryInv
<1>10. SentInv' /\ CachedWasApplied'
  BY <1>0, <1>1, Zenon DEF SentInv, CachedWasApplied
<1> QED
  BY <1>5, <1>6, <1>7, <1>8, <1>9, <1>10, Zenon DEF VaultInv

-----------------------------------------------------------------------------
(* The invariant, and the properties of one step                           *)

\* The initial vaults satisfy the invariant.
LEMMA VaultInit ==
    ASSUME Init
    PROVE  VaultInv
<1>1. PICK S \in {{}, Ids} :
        rows = [i \in Ids |-> IF i \in S
                              THEN [version |-> 1, blob |-> 0, seal |-> 1, favorite |-> FALSE,
                                    project |-> NoProject, order |-> 0]
                              ELSE NoRow]
  BY Zenon DEF Init
<1> DEFINE first == [version |-> 1, blob |-> 0, seal |-> 1, favorite |-> FALSE,
                     project |-> NoProject, order |-> 0]
<1>2. first \in Row
  <2>1. \A v, s, o \in Nat, b \in 0..MaxRequests, f \in BOOLEAN,
           p \in Projects \cup {NoProject} :
          [version |-> v, blob |-> b, seal |-> s, favorite |-> f, project |-> p, order |-> o]
            \in Row
    BY Zenon DEF Row
  <2>2. 1 \in Nat /\ 0 \in Nat /\ 0 \in 0..MaxRequests /\ FALSE \in BOOLEAN
        /\ NoProject \in Projects \cup {NoProject}
    BY ConstantsAssumption
  <2> QED
    BY <2>1, <2>2, Zenon
<1>3. \A i \in Ids : Good(i, first)
  BY Zenon DEF Good
<1>4. /\ rows \in [Ids -> Row \cup {NoRow}] /\ \A i \in Ids : rows[i] \in {first, NoRow}
  BY <1>1, <1>2, Zenon
<1> HIDE DEF first
<1>5. /\ sent = <<>> /\ DOMAIN sent = {} /\ Len(sent) = 0 /\ sent \in Seq(Request)
      /\ handler = [h \in Handlers |-> IdleHandler] /\ applied = {} /\ outlived = {}
      /\ writes = [h \in Handlers |-> <<>>] /\ cache = [n \in Requests |-> "none"]
  BY DEF Init
<1>6. TypeOK
  BY <1>4, <1>5, HandlerWith, ConstantsAssumption DEF TypeOK
<1>7. RowInv
  BY <1>3, <1>4, Zenon DEF RowInv, Stored
<1>8. HandlerInv
  BY <1>5, HandlerWith, Zenon DEF HandlerInv, Works
<1>9. LockInv
  BY <1>5, Zenon DEF LockInv, Compatible
<1> QED
  BY <1>5, <1>6, <1>7, <1>8, <1>9, Zenon DEF VaultInv, SentInv, HistoryInv, CachedWasApplied

\* A cached answer expires or is swept.
LEMMA KeyKeeps ==
    ASSUME VaultInv, KeyExpires \/ KeySwept
    PROVE  VaultInv'
<1>0. TypeOK /\ SentInv /\ RowInv /\ HandlerInv /\ LockInv /\ HistoryInv /\ CachedWasApplied
  BY Zenon DEF VaultInv
<1>1. PICK n \in Requests, c \in {"none", "expired"} :
        /\ cache[n] # "none" /\ cache' = [cache EXCEPT ![n] = c]
        /\ UNCHANGED <<sent, handler, writes, tables>>
  BY Zenon DEF KeyExpires, KeySwept, DeleteExpiredIdempotencyEntries
<1>2. /\ sent' = sent /\ handler' = handler /\ writes' = writes /\ rows' = rows
      /\ applied' = applied /\ outlived' = outlived
  BY <1>1, Zenon DEF tables
<1>3. TypeOK' /\ CachedWasApplied'
  BY <1>0, <1>1, <1>2, Zenon DEF TypeOK, CachedWasApplied
<1>4. HandlerInv'
  <2>1. ASSUME NEW h \in Handlers PROVE Works(h)'
    <3>1. Works(h) /\ (handler[h].stage # "idle" => handler[h].req \in DOMAIN sent)
      BY <1>0, Zenon DEF HandlerInv, Works
    <3> QED
      BY <1>2, <3>1, Undisturbed, Zenon
  <2> QED
    BY <2>1, Zenon DEF HandlerInv
<1>5. SentInv' /\ RowInv' /\ LockInv' /\ HistoryInv'
  BY <1>0, <1>2, Zenon DEF SentInv, RowInv, LockInv, HistoryInv, Stored, Current
<1> QED
  BY <1>3, <1>4, <1>5, Zenon DEF VaultInv

\* Every step keeps the invariant.
LEMMA VaultStep ==
    ASSUME VaultInv, [Next]_vars
    PROVE  VaultInv'
<1>1. CASE ClientStep
  BY <1>1, ClientKeeps, Zenon
<1>2. CASE KeyExpires \/ KeySwept
  BY <1>2, KeyKeeps, Zenon
<1>3. ASSUME NEW h \in Handlers, HandlerStep(h) PROVE VaultInv'
  <2>1. CASE \/ CreateEntry(h) \/ UpdateEntry(h) \/ DeleteEntry(h) \/ ToggleFavorite(h)
             \/ CreateProject(h) \/ UpdateProject(h) \/ DeleteProject(h)
    BY <2>1, StatementKeeps, Zenon
  <2>2. CASE ReorderProject(h)
    BY <2>2, ReorderKeeps, Zenon
  <2>3. CASE \/ Lookup(h) \/ ReorderDone(h) \/ Refuse(h) \/ Audit(h) \/ Fail(h)
             \/ CacheAnswer(h) \/ CacheFails(h)
    BY <2>3, AroundKeeps, Zenon
  <2>4. CASE Commit(h)
    BY <2>4, CommitKeeps, Zenon
  <2> QED
    BY <1>3, <2>1, <2>2, <2>3, <2>4, Zenon DEF HandlerStep
<1>4. CASE UNCHANGED vars
  <2>1. /\ sent' = sent /\ handler' = handler /\ writes' = writes /\ rows' = rows
        /\ applied' = applied /\ outlived' = outlived /\ cache' = cache
    BY <1>4, Zenon DEF vars
  <2>2. TypeOK' /\ SentInv' /\ RowInv' /\ LockInv' /\ HistoryInv' /\ CachedWasApplied'
    BY <2>1, Zenon DEF VaultInv, TypeOK, SentInv, RowInv, LockInv, HistoryInv, CachedWasApplied,
         Stored, Current
  <2>3. ASSUME NEW h \in Handlers PROVE Works(h)'
    <3>1. Works(h) /\ (handler[h].stage # "idle" => handler[h].req \in DOMAIN sent)
      BY Zenon DEF VaultInv, HandlerInv, Works
    <3> QED
      BY <2>1, <3>1, Undisturbed, Zenon
  <2> QED
    BY <2>2, <2>3, Zenon DEF VaultInv, HandlerInv
<1> QED
  BY <1>1, <1>2, <1>3, <1>4, Zenon DEF Next

\* So it always holds.
LEMMA VaultAlways == Spec => []VaultInv
  BY VaultInit, VaultStep, PTL DEF Spec

\* UpdateEntry, UpdateProject and the forms: whatever requests are sent, retried
\* or interleaved, every stored blob is sealed for the version of its record.
THEOREM BlobsOpen == Spec => []BlobOpens
<1>1. VaultInv => BlobOpens
  BY Zenon DEF VaultInv, RowInv, Good, BlobOpens
<1> QED
  BY <1>1, VaultAlways, PTL

\* The idempotency cache answers only for requests whose transaction committed.
THEOREM CacheIsHonest == Spec => []CachedWasApplied
<1>1. VaultInv => CachedWasApplied
  BY Zenon DEF VaultInv
<1> QED
  BY <1>1, VaultAlways, PTL

\* The version check of UpdateEntry, UpdateProject and DeleteProject: a commit
\* never overwrites or deletes content its author had not seen.
THEOREM EditsReplaceWhatWasSeen == Spec => NoLostEdit
<1>1. ASSUME VaultInv
      PROVE  \A h \in Handlers :
               LET q == Asked(h) IN
               /\ handler[h].stage = "commit"
               /\ handler'[h].stage = "cache"
               /\ q.op \in Versioned
               /\ handler[h].req \notin outlived
               => rows[q.id].blob = q.saw
  <2>1. ASSUME NEW h \in Handlers, handler[h].stage = "commit", Asked(h).op \in Versioned,
               handler[h].req \notin outlived
        PROVE  rows[Asked(h).id].blob = Asked(h).saw
    <3>1. handler[h].req \in DOMAIN sent /\ Executed(h)
      BY <1>1, <2>1, Zenon DEF VaultInv, HandlerInv, Works, Versioned
    <3>2. rows[Asked(h).id].version = Asked(h).expected
      BY <2>1, <3>1, Zenon DEF Executed, Matches, Asked
    <3>3. Current(handler[h].req)
      BY <1>1, <2>1, <3>1, Zenon DEF VaultInv, HistoryInv
    <3> QED
      BY <2>1, <3>2, <3>3, Zenon DEF Current, Asked
  <2> QED
    BY <2>1, Zenon
<1> QED
  BY <1>1, VaultAlways, PTL DEF NoLostEdit

\* Only the commit of a request with a cached answer leads to the cache.
LEMMA ToCache ==
    ASSUME VaultInv, [Next]_vars, NEW h \in Handlers,
           handler[h].stage = "commit", handler'[h].stage = "cache"
    PROVE  Asked(h).op \in Gated
<1>0. handler \in [Handlers -> Handler]
  BY Zenon DEF VaultInv, TypeOK
<1>1. CASE handler' = handler
  BY <1>1, Zenon
<1>2. ASSUME NEW k \in Handlers, HandlerStep(k) PROVE Asked(h).op \in Gated
  <2>1. CASE Lookup(k)
    BY <1>0, <2>1, Zenon DEF Lookup
  <2>2. CASE \/ CreateEntry(k) \/ UpdateEntry(k) \/ DeleteEntry(k) \/ ToggleFavorite(k)
             \/ CreateProject(k) \/ UpdateProject(k) \/ DeleteProject(k)
    <3>1. /\ handler[k].stage = "execute"
          /\ \E st \in {"commit", "audit"} : handler' = [handler EXCEPT ![k].stage = st]
      BY <2>2, Zenon DEF CreateEntry, UpdateEntry, DeleteEntry, ToggleFavorite, CreateProject,
           UpdateProject, DeleteProject, Execute, Goto
    <3> QED
      BY <1>0, <3>1, Zenon
  <2>3. CASE ReorderProject(k)
    BY <1>0, <2>3, Zenon DEF ReorderProject, Handler
  <2>4. CASE ReorderDone(k) \/ Audit(k)
    BY <1>0, <2>4, Zenon DEF ReorderDone, Audit, Goto
  <2>5. CASE Refuse(k) \/ Fail(k) \/ CacheAnswer(k) \/ CacheFails(k)
    BY <1>0, <2>5, HandlerWith DEF Refuse, Fail, CacheAnswer, CacheFails, Finish
  <2>6. CASE Commit(k)
    BY <1>0, <2>6, HandlerWith DEF Commit, Finish
  <2> QED
    BY <1>2, <2>1, <2>2, <2>3, <2>4, <2>5, <2>6, Zenon DEF HandlerStep
<1>3. CASE ClientStep \/ KeyExpires \/ KeySwept \/ UNCHANGED vars
  BY <1>1, <1>3, Zenon DEF ClientStep, NewEntryForm, EditEntryForm, DeleteEntryDialog,
       FavoriteButton, NewProjectForm, EditProjectForm, DeleteProjectDialog, ReorderRequest,
       Send, KeyExpires, KeySwept, vars
<1> QED
  BY <1>2, <1>3, Zenon DEF Next

\* Retries, lost answers and expired keys do not apply a request twice.
THEOREM RetriesApplyOnce == Spec => AppliedOnce
<1>1. ASSUME VaultInv, [Next]_vars
      PROVE  \A h \in Handlers :
               /\ handler[h].stage = "commit"
               /\ handler'[h].stage = "cache"
               /\ Asked(h).op # "ReorderProjects"
               => handler[h].req \notin applied \ outlived
  <2>1. ASSUME NEW h \in Handlers, handler[h].stage = "commit",
               handler'[h].stage = "cache", Asked(h).op # "ReorderProjects",
               handler[h].req \in applied \ outlived
        PROVE  FALSE
    <3> DEFINE q == sent[handler[h].req]
    <3>1. /\ handler[h].req \in DOMAIN sent /\ Executed(h) /\ Asked(h) = q
      BY <1>1, <2>1, Zenon DEF VaultInv, HandlerInv, Works, Asked
    <3>2. /\ q.id \in Stored <=> q.op \notin Creates
          /\ q.op \in Versioned => rows[q.id].version = q.expected
      BY <3>1, Zenon DEF Executed, Matches
    <3>3. /\ q.op \notin Deletes /\ (q.op \in Creates => q.id \in Stored)
          /\ q.op \in Versioned => q.id \in Stored /\ rows[q.id].version > q.expected
      BY <1>1, <2>1, <3>1, Zenon DEF VaultInv, HistoryInv, Current
    <3>4. q.op \in Gated
      BY <1>1, <2>1, <3>1, ToCache, Zenon
    <3>5. q.op \in Creates \cup Versioned
      BY <2>1, <3>1, <3>3, <3>4, Zenon DEF Gated, Deletes
    <3>6. q.expected \in Nat
      BY <1>1, <3>1, SentRequests, Zenon DEF VaultInv, Request
    <3> QED
      BY <3>2, <3>3, <3>5, <3>6
  <2> QED
    BY <2>1, Zenon
<1> QED
  BY <1>1, VaultAlways, PTL DEF AppliedOnce, Spec

-----------------------------------------------------------------------------
(* Refinement: a commit is one change of VaultStore, and no other step     *)
(* changes a row                                                           *)

\* Both modules mean the same by the stored records and the choice of projects.
LEMMA SameStored == Store!Stored = Stored /\ Store!Homes = ProjectChoices
  BY Zenon DEF Store!Stored, Stored, Store!Homes, ProjectChoices, ListProjects, Ids

\* A row is given by its fields.
LEMMA RowFields ==
    ASSUME NEW x \in Row
    PROVE  x = [version |-> x.version, blob |-> x.blob, seal |-> x.seal,
                favorite |-> x.favorite, project |-> x.project, order |-> x.order]
  BY Zenon DEF Row

\* One record changes.
LEMMA OneRow ==
    ASSUME NEW h \in Handlers, Committed(h), rows' = [i \in Ids |-> rows'[i]],
           DOMAIN rows = Ids, rows = [i \in Ids |-> rows[i]],
           NEW j \in Ids, DOMAIN writes[h] = {j}
    PROVE  rows' = [rows EXCEPT ![j] = writes[h][j]]
  BY Zenon DEF Committed

\* What the commit of h needs from the state it finds.
LEMMA CommitFacts ==
    ASSUME VaultInv, NEW h \in Handlers, Commit(h)
    PROVE  /\ Committed(h) /\ DOMAIN writes[h] \subseteq Ids
           /\ handler[h].req \in DOMAIN sent /\ handler[h].req \in 0..MaxRequests
           /\ Asked(h) = sent[handler[h].req] /\ Asked(h) \in Request /\ Formed(Asked(h))
           /\ Asked(h).id \in Ids /\ Asked(h).favorite \in BOOLEAN
           /\ Asked(h).project \in Projects \cup {NoProject} /\ Asked(h).expected \in Nat
           /\ Asked(h).op = "ReorderProjects" => Placed(h)
           /\ Asked(h).op # "ReorderProjects" => Executed(h)
           /\ rows' = [i \in Ids |-> rows'[i]] /\ rows = [i \in Ids |-> rows[i]]
           /\ DOMAIN rows = Ids
<1>0. TypeOK /\ SentInv
  BY Zenon DEF VaultInv
<1>1. /\ Committed(h) /\ DOMAIN writes[h] \subseteq Ids
      /\ handler[h].req \in DOMAIN sent /\ Asked(h) = sent[handler[h].req]
      /\ handler[h].stage = "commit" /\ Works(h)
  BY CommittedRows, Zenon
<1>2. handler[h].req \in 0..MaxRequests /\ Asked(h) \in Request /\ Formed(Asked(h))
  BY <1>0, <1>1, SentRequests, Zenon DEF SentInv
<1>3. rows' = [i \in Ids |-> rows'[i]] /\ rows = [i \in Ids |-> rows[i]] /\ DOMAIN rows = Ids
  <2>1. DOMAIN rows = Ids /\ rows = [i \in Ids |-> rows[i]]
    BY <1>0, Zenon DEF TypeOK
  <2>2. rows' = [i \in Ids |-> rows'[i]]
    BY <1>1, <2>1, Zenon DEF Commit, Overlay, Committed
  <2> QED
    BY <2>1, <2>2, Zenon
<1>4. /\ Asked(h).op = "ReorderProjects" => Placed(h)
      /\ Asked(h).op # "ReorderProjects" => Executed(h)
  BY <1>1, Zenon DEF Works
<1>5. /\ Asked(h).id \in Ids /\ Asked(h).favorite \in BOOLEAN
      /\ Asked(h).project \in Projects \cup {NoProject} /\ Asked(h).expected \in Nat
  BY <1>2, Zenon DEF Request
<1> QED
  BY <1>1, <1>2, <1>3, <1>4, <1>5, Zenon

\* The commit of a create is a creation of the store.
LEMMA CreateImplements ==
    ASSUME VaultInv, NEW h \in Handlers, Commit(h), Asked(h).op \in Creates
    PROVE  \E i \in Ids \ Stored, b \in 0..MaxRequests : Store!Created(i, b)
<1> DEFINE n == handler[h].req
           q == Asked(h)
<1>0. /\ Committed(h) /\ n \in 0..MaxRequests /\ n \in DOMAIN sent /\ q = sent[n]
      /\ Formed(q) /\ q.id \in Ids /\ q.favorite \in BOOLEAN
      /\ Executed(h) /\ rows' = [i \in Ids |-> rows'[i]] /\ rows = [i \in Ids |-> rows[i]]
      /\ DOMAIN rows = Ids
  BY CommitFacts, Zenon DEF Creates
<1>1. q.id \notin Stored /\ q.project \in ProjectChoices /\ q.expected = 0
  BY <1>0, Zenon DEF Executed, Matches, Formed
<1>2. DOMAIN writes[h] = {q.id} /\ writes[h][q.id] = Sealed(n, 1)
  BY <1>0, AfterOf DEF Executed, Touched, Creates
<1>3. rows' = [rows EXCEPT ![q.id] = Sealed(n, 1)]
  BY <1>0, <1>2, OneRow
<1>4. Sealed(n, 1) = [version |-> 1, blob |-> n, seal |-> 1, favorite |-> q.favorite,
                      project |-> q.project, order |-> 0]
  BY <1>0, <1>1 DEF Sealed
<1>5. q.project \in IF q.id \in Entries THEN Store!Homes ELSE {NoProject}
  BY <1>0, <1>1, SameStored, Zenon DEF Formed, EntryOps, Creates
<1>6. Store!Created(q.id, n)
  BY <1>0, <1>3, <1>4, <1>5, Zenon DEF Store!Created
<1> QED
  BY <1>0, <1>1, <1>6, Zenon

\* The commit of an update is an update of the store.
LEMMA UpdateImplements ==
    ASSUME VaultInv, NEW h \in Handlers, Commit(h), Asked(h).op \in Updates
    PROVE  \E i \in Stored, b \in 0..MaxRequests : Store!Updated(i, b)
<1> DEFINE n == handler[h].req
           q == Asked(h)
           row == rows[q.id]
<1>0. /\ Committed(h) /\ n \in 0..MaxRequests /\ n \in DOMAIN sent /\ q = sent[n]
      /\ Formed(q) /\ q.id \in Ids /\ q.favorite \in BOOLEAN
      /\ q.project \in Projects \cup {NoProject}
      /\ Executed(h) /\ rows' = [i \in Ids |-> rows'[i]] /\ rows = [i \in Ids |-> rows[i]]
      /\ DOMAIN rows = Ids
  BY CommitFacts, Zenon DEF Updates
<1>1. q.id \in Stored /\ q.project \in ProjectChoices /\ row.version = q.expected
  BY <1>0, Zenon DEF Executed, Matches, Updates, Creates, Versioned
<1>2. row \in Row /\ Good(q.id, row) /\ row.version + 1 \in Nat
  BY <1>1, StoredRows DEF VaultInv, RowInv, Row
<1>3. DOMAIN writes[h] = {q.id} /\ writes[h][q.id] = After(n, q.id, row)
  BY <1>0, Zenon DEF Executed, Touched, Updates
<1>4. After(n, q.id, row) =
        [version |-> row.version + 1, blob |-> n, seal |-> row.version + 1,
         favorite |-> q.favorite, project |-> q.project, order |-> row.order]
  <2>1. CASE q.op = "UpdateEntry"
    <3>1. row.order = 0
      BY <1>0, <1>2, <2>1, Zenon DEF Good, Formed, EntryOps
    <3>2. sent[n].op = "UpdateEntry"
      BY <1>0, <2>1, Zenon
    <3>3. After(n, q.id, row) = EntryUpdated(n, row)
      BY <3>2, AfterOf
    <3> QED
      BY <1>0, <1>1, <3>1, <3>3, Zenon DEF EntryUpdated, Sealed
  <2>2. CASE q.op = "UpdateProject"
    <3>1. \A v, b, k, f, p, o :
            [[version |-> v, blob |-> b, seal |-> k, favorite |-> f, project |-> p,
              order |-> 0] EXCEPT !.order = o]
              = [version |-> v, blob |-> b, seal |-> k, favorite |-> f, project |-> p,
                 order |-> o]
      OBVIOUS
    <3>2. After(n, q.id, row) = [Sealed(n, row.version + 1) EXCEPT !.order = row.order]
      <4>1. sent[n].op = "UpdateProject"
        BY <1>0, <2>2, Zenon
      <4>2. After(n, q.id, row) = ProjectUpdated(n, row)
        BY <4>1, AfterOf
      <4> QED
        BY <4>2, Zenon DEF ProjectUpdated
    <3>3. Sealed(n, row.version + 1) =
            [version |-> row.version + 1, blob |-> n, seal |-> row.version + 1,
             favorite |-> q.favorite, project |-> q.project, order |-> 0]
      BY <1>0, <1>1, Zenon DEF Sealed
    <3> QED
      BY <3>1, <3>2, <3>3
  <2> QED
    BY <2>1, <2>2, Zenon DEF Updates
<1> DEFINE v == row.version + 1
           x == [row EXCEPT !.version = v, !.blob = n, !.seal = v]
           y == [x EXCEPT !.favorite = q.favorite, !.project = q.project]
<1>5. After(n, q.id, row) = y
  <2>1. v \in Nat
    BY <1>2, Zenon
  <2> HIDE DEF v
  <2>2. /\ x \in Row /\ x.version = v /\ x.blob = n /\ x.seal = v /\ x.order = row.order
    BY <1>0, <1>2, <2>1, Zenon DEF Row
  <2> HIDE DEF x
  <2>3. /\ y \in Row /\ y.version = v /\ y.blob = n /\ y.seal = v /\ y.order = row.order
        /\ y.favorite = q.favorite /\ y.project = q.project
    BY <1>0, <2>2, Zenon DEF Row
  <2> HIDE DEF y
  <2> QED
    BY <1>4, <2>3, RowFields, Zenon DEF v
<1>6. rows' = [rows EXCEPT ![q.id] = y]
  <2>1. rows' = [rows EXCEPT ![q.id] = writes[h][q.id]]
    BY <1>0, <1>3, OneRow, Zenon
  <2> HIDE DEF y
  <2> QED
    BY <1>3, <1>5, <2>1, Zenon
<1>7. q.project \in IF q.id \in Entries THEN Store!Homes ELSE {NoProject}
  BY <1>0, <1>1, SameStored, Zenon DEF Formed, EntryOps, Updates
<1>8. Store!Updated(q.id, n)
  BY <1>0, <1>6, <1>7, Zenon DEF Store!Updated, Store!Sealed
<1> QED
  BY <1>0, <1>1, <1>8, Zenon

\* The commit of ToggleFavorite sets a flag of the store.
LEMMA StarImplements ==
    ASSUME VaultInv, NEW h \in Handlers, Commit(h), Asked(h).op = "ToggleFavorite"
    PROVE  \E e \in Stored \cap Entries : Store!Starred(e)
<1> DEFINE n == handler[h].req
           q == Asked(h)
<1>0. /\ Committed(h) /\ q = sent[n] /\ Formed(q) /\ q.id \in Ids /\ q.favorite \in BOOLEAN
      /\ Executed(h) /\ rows' = [i \in Ids |-> rows'[i]] /\ rows = [i \in Ids |-> rows[i]]
      /\ DOMAIN rows = Ids
  BY CommitFacts, Zenon
<1>1. q.id \in Stored /\ q.id \in Entries
  BY <1>0, Zenon DEF Executed, Matches, Creates, Formed, EntryOps
<1>2. /\ DOMAIN writes[h] = {q.id}
      /\ writes[h][q.id] = [rows[q.id] EXCEPT !.favorite = q.favorite]
  <2>1. After(n, q.id, rows[q.id]) = [rows[q.id] EXCEPT !.favorite = q.favorite]
    <3>1. sent[n].op = "ToggleFavorite" /\ sent[n].favorite = q.favorite
      BY <1>0, Zenon
    <3>2. After(n, q.id, rows[q.id]) = FavoriteSet(n, rows[q.id])
      BY <3>1, AfterOf
    <3> QED
      BY <3>1, <3>2, Zenon DEF FavoriteSet
  <2>2. DOMAIN writes[h] = {q.id} /\ writes[h][q.id] = After(n, q.id, rows[q.id])
    BY <1>0, Zenon DEF Executed, Touched
  <2> QED
    BY <2>1, <2>2, Zenon
<1>3. rows' = [rows EXCEPT ![q.id] = [rows[q.id] EXCEPT !.favorite = q.favorite]]
  <2>1. rows' = [rows EXCEPT ![q.id] = writes[h][q.id]]
    BY <1>0, <1>2, OneRow, ZenonT(40)
  <2> QED
    BY <1>2, <2>1, Zenon
<1>4. Store!Starred(q.id)
  BY <1>0, <1>3, Zenon DEF Store!Starred
<1> QED
  BY <1>1, <1>4, Zenon

\* The commit of a delete removes the record and lets its entries go.
LEMMA DeleteImplements ==
    ASSUME VaultInv, NEW h \in Handlers, Commit(h), Asked(h).op \in Deletes
    PROVE  \E i \in Stored : Store!Deleted(i)
<1> DEFINE n == handler[h].req
           q == Asked(h)
<1>0. /\ TypeOK /\ RowInv
      /\ Committed(h) /\ n \in DOMAIN sent /\ q = sent[n] /\ Formed(q) /\ q.id \in Ids
      /\ Executed(h) /\ rows' = [i \in Ids |-> rows'[i]] /\ DOMAIN rows = Ids
  BY CommitFacts, Zenon DEF Deletes, VaultInv
<1>1. q.id \in Stored
  BY <1>0, Zenon DEF Executed, Matches, Creates, Deletes
<1>2. DOMAIN writes[h] = {q.id} \cup {e \in Inside(q.id) : q.op = "DeleteProject"}
  BY <1>0, Zenon DEF Executed, Touched
<1>3. ASSUME NEW j \in Ids, rows[j] # NoRow, rows[j].project = q.id
      PROVE  j # q.id /\ j \in Inside(q.id) /\ q.op = "DeleteProject"
  <2>1. j \in Stored /\ rows[j] \in Row /\ Good(j, rows[j])
    BY <1>0, <1>3, StoredRows, Zenon DEF RowInv
  <2>2. q.id # NoProject /\ q.id \in Projects
    BY <1>0, <1>3, <2>1, ConstantsAssumption, Zenon DEF Row, Ids
  <2>3. j \notin Projects /\ j \in Entries
    BY <1>3, <2>1, <2>2, Zenon DEF Good, Ids
  <2> QED
    BY <1>0, <1>3, <2>1, <2>2, <2>3, ConstantsAssumption, Zenon
      DEF Inside, ListEntries, Formed, EntryOps, Deletes
<1>4. ASSUME NEW j \in Ids
      PROVE  rows'[j] = CASE j = q.id -> NoRow
                          [] rows[j] # NoRow /\ rows[j].project = q.id ->
                               [rows[j] EXCEPT !.project = NoProject]
                          [] OTHER -> rows[j]
  <2>1. CASE j = q.id
    <3>1. rows'[j] = NoRow
      BY <1>0, <1>2, <2>1, AfterOf DEF Committed, Executed
    <3> QED
      BY <1>3, <2>1, <3>1, Zenon
  <2>2. CASE j # q.id /\ rows[j] # NoRow /\ rows[j].project = q.id
    <3>1. j \in DOMAIN writes[h] /\ q.op = "DeleteProject"
      BY <1>2, <1>3, <2>2, Zenon
    <3>2. rows'[j] = [rows[j] EXCEPT !.project = NoProject]
      BY <1>0, <2>2, <3>1, AfterOf DEF Committed, Executed
    <3> QED
      BY <2>2, <3>2, Zenon
  <2>3. CASE j # q.id /\ ~(rows[j] # NoRow /\ rows[j].project = q.id)
    <3>1. j \notin DOMAIN writes[h]
      BY <1>0, <1>2, <2>3, StoredRows, Zenon DEF Inside, ListEntries
    <3>2. rows'[j] = rows[j]
      BY <1>0, <3>1, Zenon DEF Committed
    <3> QED
      BY <2>3, <3>2, Zenon
  <2> QED
    BY <2>1, <2>2, <2>3, Zenon
<1>5. Store!Deleted(q.id)
  BY <1>0, <1>4, Zenon DEF Store!Deleted
<1> QED
  BY <1>1, <1>5, Zenon

\* The commit of ReorderProjects moves the projects it placed, together.
LEMMA ReorderImplements ==
    ASSUME VaultInv, NEW h \in Handlers, Commit(h), Asked(h).op = "ReorderProjects"
    PROVE  \E list \in Lists, S \in SUBSET (Stored \cap Projects) :
             S \subseteq Store!Range(list) /\ Store!Reordered(list, S)
<1> DEFINE q == Asked(h)
           list == q.list
           S == DOMAIN writes[h]
<1>0. /\ Committed(h) /\ Formed(q) /\ Placed(h) /\ S \subseteq Ids
      /\ rows' = [i \in Ids |-> rows'[i]] /\ DOMAIN rows = Ids /\ list \in Lists
  BY CommitFacts, Zenon DEF Formed
<1>1. PICK P \in SUBSET Projects : list \in Orders(P)
  BY <1>0, Zenon DEF Lists
<1>2. /\ DOMAIN list = 1..Len(list) /\ Len(list) \in Nat
      /\ \A a, b \in DOMAIN list : list[a] = list[b] => a = b
  BY <1>1, OrderedList, Zenon
<1>3. ASSUME NEW p \in S
      PROVE  /\ p \in Stored \cap Projects /\ p \in Store!Range(list)
             /\ rows'[p] = [rows[p] EXCEPT !.order = CHOOSE k \in 0..Len(list) - 1 :
                                                       list[k + 1] = p]
  <2>1. PICK k \in 0..Len(list) - 1 :
          list[k + 1] = p /\ writes[h][p] = ProjectReordered(rows[p], k)
    BY <1>0, Zenon DEF Placed
  <2>2. k + 1 \in DOMAIN list
    BY <1>2, <2>1
  <2>3. \A j \in 0..Len(list) - 1 : list[j + 1] = p => j = k
    <3>1. ASSUME NEW j \in 0..Len(list) - 1, list[j + 1] = p PROVE j = k
      <4>1. j + 1 \in DOMAIN list /\ j \in Nat /\ k \in Nat
        BY <1>2
      <4>2. j + 1 = k + 1
        BY <1>2, <2>1, <2>2, <3>1, <4>1, Zenon
      <4> QED
        BY <4>1, <4>2
    <3> QED
      BY <3>1, Zenon
  <2>4. (CHOOSE j \in 0..Len(list) - 1 : list[j + 1] = p) = k
    BY <2>1, <2>3, Zenon
  <2>5. p \in Stored \cap Projects /\ p \in Store!Range(list)
    BY <1>0, <2>1, <2>2, Zenon DEF Placed, ListProjects, Store!Range
  <2>6. rows'[p] = [rows[p] EXCEPT !.order = k]
    BY <1>0, <2>1, Zenon DEF Committed, ProjectReordered
  <2> QED
    BY <2>4, <2>5, <2>6, Zenon
<1>4. \A i \in Ids \ S : rows'[i] = rows[i]
  BY <1>0, Zenon DEF Committed
<1> HIDE DEF list
<1>5. Store!Reordered(list, S)
  <2> DEFINE g == [i \in Ids |->
                     IF i \in S
                     THEN [rows[i] EXCEPT !.order = CHOOSE k \in 0..Len(list) - 1 :
                                                      list[k + 1] = i]
                     ELSE rows[i]]
  <2>1. \A i \in Ids : rows'[i] = g[i]
    BY <1>3, <1>4, Zenon
  <2>2. rows' = g
    BY <1>0, <2>1, Zenon
  <2> QED
    BY <1>0, <2>2, Zenon DEF Store!Reordered
<1>6. S \in SUBSET (Stored \cap Projects) /\ S \subseteq Store!Range(list)
  BY <1>3, Zenon
<1> QED
  BY <1>0, <1>5, <1>6, Zenon

\* Every step is a step of the store or changes no row.
LEMMA StepImplements ==
    ASSUME VaultInv, [Next]_vars
    PROVE  [Store!StoreNext]_rows
<1>1. ASSUME NEW h \in Handlers, Commit(h), rows' # rows PROVE Store!StoreNext
  <2>0. /\ Asked(h) \in Request /\ Store!Stored = Stored
        /\ Asked(h).op \in Creates \cup Updates \cup Deletes
                            \cup {"ToggleFavorite", "ReorderProjects"}
    BY <1>1, CommitFacts, SameStored, Zenon
      DEF Request, Gated, Creates, Updates, Deletes, Versioned
  <2>1. CASE Asked(h).op \in Creates
    <3>1. \E i \in Ids \ Stored, b \in 0..MaxRequests : Store!Created(i, b)
      BY <1>1, <2>1, CreateImplements, Zenon
    <3> QED
      BY <1>1, <2>0, <3>1, Zenon DEF Store!StoreNext, Ids
  <2>2. CASE Asked(h).op \in Updates
    <3>1. \E i \in Stored, b \in 0..MaxRequests : Store!Updated(i, b)
      BY <1>1, <2>2, UpdateImplements
    <3> QED
      BY <1>1, <2>0, <3>1, Zenon DEF Store!StoreNext
  <2>3. CASE Asked(h).op \in Deletes
    <3>1. \E i \in Stored : Store!Deleted(i)
      BY <1>1, <2>3, DeleteImplements, Zenon
    <3> QED
      BY <1>1, <2>0, <3>1, Zenon DEF Store!StoreNext
  <2>4. CASE Asked(h).op = "ToggleFavorite"
    <3>1. \E e \in Stored \cap Entries : Store!Starred(e)
      BY <1>1, <2>4, StarImplements, Zenon
    <3> QED
      BY <1>1, <2>0, <3>1, Zenon DEF Store!StoreNext
  <2>5. CASE Asked(h).op = "ReorderProjects"
    <3>1. \E list \in Lists, S \in SUBSET (Stored \cap Projects) :
             S \subseteq Store!Range(list) /\ Store!Reordered(list, S)
      BY <1>1, <2>5, ReorderImplements, Zenon
    <3> QED
      BY <1>1, <2>0, <3>1, Zenon DEF Store!StoreNext, Lists
  <2> QED
    BY <2>0, <2>1, <2>2, <2>3, <2>4, <2>5, Zenon
<1>2. ASSUME NEW h \in Handlers, HandlerStep(h), ~Commit(h) PROVE rows' = rows
  BY <1>2, Zenon DEF HandlerStep, Lookup, CreateEntry, UpdateEntry, DeleteEntry, ToggleFavorite,
       CreateProject, UpdateProject, DeleteProject, Execute, ReorderProject, ReorderDone,
       Refuse, Audit, Fail, CacheAnswer, CacheFails, tables
<1>3. CASE ClientStep \/ KeyExpires \/ KeySwept \/ UNCHANGED vars
  <2>1. rows' = rows
    BY <1>3, Zenon DEF ClientStep, NewEntryForm, EditEntryForm, DeleteEntryDialog,
       FavoriteButton, NewProjectForm, EditProjectForm, DeleteProjectDialog, ReorderRequest,
       Send, KeyExpires, KeySwept, vars, tables
  <2> QED
    BY <2>1, Zenon
<1>4. CASE \E h \in Handlers : HandlerStep(h)
  BY <1>1, <1>2, <1>4, Zenon
<1> QED
  BY <1>3, <1>4, Zenon DEF Next

\* The transactions, locks, retries and caches of the vault implement VaultStore:
\* every commit is one atomic change of records that are there, and nothing else
\* changes a row.
THEOREM VaultImplementsStore == Spec => ImplementsStore
<1>1. Init => Store!StoreInit
  <2>1. ASSUME Init, NEW i \in Stored
        PROVE  rows[i].version = rows[i].seal /\ rows[i].project \in ProjectChoices
    BY <2>1 DEF Init, Stored, ProjectChoices
  <2> QED
    BY <2>1, SameStored, Zenon DEF Store!StoreInit
<1>2. VaultInv /\ [Next]_vars => [Store!StoreNext]_rows
  BY StepImplements, Zenon
<1> QED
  BY <1>1, <1>2, VaultAlways, PTL DEF Spec, ImplementsStore, Store!StoreSpec
=============================================================================
