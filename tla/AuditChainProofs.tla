-------------------------- MODULE AuditChainProofs --------------------------
(***************************************************************************)
(* Proofs about AuditChain for every set of events, writers, verifiers and *)
(* anchor jobs and every bound, with rows edited at any time; and about    *)
(* the reader who pages through the log beside them, for every limit and   *)
(* filter.                                                                 *)
(***************************************************************************)
EXTENDS AuditReader, SequenceTheorems, FiniteSetTheorems, WellFoundedInduction, TLAPS

-----------------------------------------------------------------------------
(* What is hashed and what is rebuilt                                      *)

LEMMA TruncateOnce ==
    ASSUME NEW t \in Nat
    PROVE  /\ Truncate(t) \in Nat
           /\ Truncate(Truncate(t)) = Truncate(t)
           /\ Truncate(t) = 1000 * (Truncate(t) \div 1000)
BY DEF Truncate, Micro

\* The verifier hashes what Append hashed: a NULL user agent is the empty one,
\* a nil map is the empty one, and the time is cut to what the column holds.
LEMMA RoundTrip ==
    ASSUME NEW e \in Events
    PROVE  canonicalRow(Rebuilt(Stored(e)), Truncate(Stored(e).created)) = Payload(e)
<1>1. e.now \in Nat /\ e.agent # Null
  BY EventsAssumption, Zenon
<1>2. Truncate(Stored(e).created) = Truncate(e.now)
  BY <1>1, TruncateOnce DEF Stored
<1>3. Rebuilt(Stored(e)).agent = e.agent
  BY <1>1, Zenon DEF Rebuilt, Stored, pgtypeTextFrom
<1>4. canonicalJSON(Rebuilt(Stored(e)).metadata) = canonicalJSON(e.metadata)
  BY Zenon DEF Rebuilt, Stored, metadataBytes, canonicalJSON
<1>5. /\ Rebuilt(Stored(e)).user = e.user
      /\ Rebuilt(Stored(e)).action = e.action
  BY Zenon DEF Rebuilt, Stored
<1> QED
  BY <1>2, <1>3, <1>4, <1>5, Zenon DEF canonicalRow, Payload

LEMMA RebuiltHash ==
    ASSUME NEW e \in Events, NEW h
    PROVE  computeSelfHash(h, Stored(e)) = HashOf(h, Payload(e))
BY RoundTrip, Zenon DEF computeSelfHash

\* Different columns are different payloads.
LEMMA PayloadsDiffer ==
    ASSUME NEW d \in Events, NEW e \in Events, Payload(d) = Payload(e)
    PROVE  Stored(d) = Stored(e)
<1>1. d.now \in Nat /\ e.now \in Nat
  BY EventsAssumption, Zenon
<1>2. Truncate(d.now) = Truncate(e.now)
  <2>1. Truncate(d.now) \div 1000 = Truncate(e.now) \div 1000
    BY DEF Payload, canonicalRow, Micro
  <2> QED
    BY <1>1, <2>1, TruncateOnce
<1>3. /\ d.user = e.user /\ d.action = e.action /\ d.agent = e.agent
      /\ canonicalJSON(d.metadata) = canonicalJSON(e.metadata)
  BY Zenon DEF Payload, canonicalRow
<1>4. metadataBytes(d.metadata) = metadataBytes(e.metadata)
  BY <1>3, Zenon DEF metadataBytes, canonicalJSON
<1> QED
  BY <1>2, <1>3, <1>4, Zenon DEF Stored

LEMMA EditShows ==
    ASSUME NEW c \in Columns, NEW d \in Columns, c # d, NEW h \in Hashes
    PROVE  computeSelfHash(h, c) # computeSelfHash(h, d)
<1>1. PICK x \in Events : c = Stored(x)
  BY Zenon DEF Columns
<1>2. PICK y \in Events : d = Stored(y)
  BY Zenon DEF Columns
<1>3. Payload(x) # Payload(y)
  BY <1>1, <1>2, PayloadsDiffer, Zenon
<1>4. Append(h, Payload(x)) # Append(h, Payload(y))
  <2>1. /\ Append(h, Payload(x))[Len(h) + 1] = Payload(x)
        /\ Append(h, Payload(y))[Len(h) + 1] = Payload(y)
    BY DEF Hashes
  <2> QED
    BY <1>3, <2>1, Zenon
<1> QED
  BY <1>1, <1>2, <1>4, RebuiltHash, Zenon DEF HashOf

-----------------------------------------------------------------------------
(* Type correctness                                                        *)

LEMMA HashType ==
    ASSUME NEW h \in Hashes, NEW e \in Events
    PROVE  HashOf(h, Payload(e)) \in Hashes
BY DEF HashOf, Hashes, Payloads

LEMMA IdleTypes ==
    /\ IdleWriter \in WriterState
    /\ IdleAnchorJob \in AnchorJob
    /\ IdleVerifyJob \in VerifyJob
<1>1. Genesis \in Hashes
  BY DEF Genesis, Hashes
<1> QED
  BY <1>1, Zenon DEF IdleWriter, WriterState, IdleAnchorJob, AnchorJob,
              IdleVerifyJob, VerifyJob, AnchorErrors

LEMMA LastOfSeq ==
    ASSUME NEW S, NEW s \in Seq(S), s # <<>>
    PROVE  s[Len(s)] \in S
OBVIOUS

LEMMA VerdictType ==
    ASSUME NEW job \in VerifyJob, NEW err \in AnchorErrors
    PROVE  Verdict(job, err) \in VerifyJob
<1>1. Genesis \in Hashes
  BY DEF Genesis, Hashes
<1> QED
  BY <1>1, Zenon DEF Verdict, IdleVerifyJob, VerifyJob, AnchorErrors

\* The steps of Writer.Append keep the types.
LEMMA WriterTypes ==
    ASSUME TypeOK, NEW w \in Writers, WriterStep(w),
           wr[w].pc # "idle" => wr[w].event \in Events
    PROVE  TypeOK'
<1> USE DEF TypeOK
<1>1. ASSUME NEW e \in Events, AppendLock(w, e) PROVE TypeOK'
  BY <1>1, Zenon DEF AppendLock, WriterState, anchorVars
<1>2. CASE AppendInsert(w)
  <2>1. wr' \in [Writers -> WriterState]
    BY <1>2, ZenonT(40) DEF AppendInsert, WriterState
  <2>2. nextId' \in Nat \ {0}
    BY <1>2 DEF AppendInsert
  <2> QED
    BY <1>2, <2>1, <2>2, Zenon DEF AppendInsert, anchorVars
<1>3. CASE AppendCommit(w)
  <2>1. wr[w] \in WriterState /\ wr[w].event \in Events
    BY <1>3, Zenon DEF AppendCommit
  <2>2. HashOf(wr[w].prev, Payload(wr[w].event)) \in Hashes
    BY <2>1, HashType, Zenon DEF WriterState
  <2>3. Stored(wr[w].event) \in Columns
    BY <2>1, Zenon DEF Columns
  <2>4. rows' \in SUBSET Row
    BY <1>3, <2>1, <2>2, <2>3 DEF AppendCommit, Row, WriterState
  <2>5. wr' \in [Writers -> WriterState]
    BY <1>3, IdleTypes, Zenon DEF AppendCommit
  <2> QED
    BY <1>3, <2>2, <2>4, <2>5, Zenon DEF AppendCommit, anchorVars
<1>4. CASE AppendAbort(w)
  BY <1>4, IdleTypes, Zenon DEF AppendAbort, anchorVars
<1> QED
  BY <1>1, <1>2, <1>3, <1>4, Zenon DEF WriterStep

\* So do those of the anchor job, and a restart.
LEMMA AnchorTypes ==
    ASSUME TypeOK, NEW a \in Anchorers, AnchorStep(a)
    PROVE  TypeOK'
<1> USE DEF TypeOK
<1>1. CASE AnchorLoad(a)
  BY <1>1, Zenon DEF AnchorLoad, AnchorJob, chainVars
<1>2. CASE AnchorInsert(a)
  <2>1. anchors' \in Seq([head : Hashes, key : Nat])
    BY <1>2 DEF AnchorInsert, AnchorJob
  <2> QED
    BY <1>2, <2>1, IdleTypes, Zenon DEF AnchorInsert, chainVars
<1>3. CASE AnchorError(a)
  BY <1>3, IdleTypes, Zenon DEF AnchorError, chainVars
<1> QED
  BY <1>1, <1>2, <1>3, Zenon DEF AnchorStep

LEMMA RestartTypes ==
    ASSUME TypeOK, RestartWithNewKey
    PROVE  TypeOK'
BY IdleTypes DEF TypeOK, RestartWithNewKey

\* And those of the verify job.
LEMMA VerifyTypes ==
    ASSUME TypeOK, NEW v \in Verifiers, VerifyStep(v)
    PROVE  TypeOK'
<1> USE DEF TypeOK
<1>0. ver[v] \in VerifyJob /\ UNCHANGED <<chainVars, anchorVars>>
  BY Zenon DEF VerifyStep, VerifyStart, VerifyRow, VerifyEnd, VerifyAnchor,
         HistoryRow, HistoryEnd, VerifyError, AnchorCheckError
<1>1. SUFFICES ver' \in [Verifiers -> VerifyJob]
  BY <1>0, Zenon DEF chainVars, anchorVars
<1>g. Genesis \in Hashes
  BY DEF Genesis, Hashes
<1>2. CASE VerifyStart(v)
  <2>1. (edited # {}) \in BOOLEAN
    BY Zenon
  <2>2. [IdleVerifyJob EXCEPT !.pc = "walk", !.head = head,
                              !.tampered = edited # {}] \in VerifyJob
    BY <2>1, <1>g, Zenon DEF IdleVerifyJob, VerifyJob, AnchorErrors
  <2> QED
    BY <1>2, <2>2, Zenon DEF VerifyStart
<1>3. CASE VerifyRow(v)
  <2>1. PICK r \in rows : ver' = [ver EXCEPT ![v] = Walked(ver[v], r)]
    BY <1>3, Zenon DEF VerifyRow
  <2>2. r.id \in Nat /\ r.self \in Hashes
    BY Zenon DEF Row
  <2>3. Walked(ver[v], r) \in VerifyJob
    BY <1>0, <2>2, Zenon DEF VerifyJob, Walked
  <2> QED
    BY <2>1, <2>3, Zenon
<1>4. CASE VerifyEnd(v)
  BY <1>0, <1>4, Zenon DEF VerifyEnd, VerifyJob
<1>5. CASE VerifyAnchor(v)
  <2>1. CASE anchors = <<>>
    BY <1>0, <1>5, <2>1, VerdictType, Zenon DEF VerifyAnchor, AnchorErrors
  <2>2. CASE anchors # <<>>
    <3>1. anchors[Len(anchors)] \in [head : Hashes, key : Nat]
      BY <2>2, LastOfSeq, Zenon
    <3>2. [ver[v] EXCEPT !.pc = "history", !.anchored = anchors[Len(anchors)].head,
                         !.prev = Genesis, !.last = 0] \in VerifyJob
      BY <1>0, <1>g, <3>1, Zenon DEF VerifyJob
    <3>3. /\ Verdict(ver[v], "signature") \in VerifyJob
          /\ Verdict(ver[v], "none") \in VerifyJob
      BY <1>0, VerdictType, Zenon DEF AnchorErrors
    <3>4. \/ ver' = [ver EXCEPT ![v] = Verdict(ver[v], "signature")]
          \/ ver' = [ver EXCEPT ![v] = Verdict(ver[v], "none")]
          \/ ver' = [ver EXCEPT ![v] = [ver[v] EXCEPT
                 !.pc = "history", !.anchored = anchors[Len(anchors)].head,
                 !.prev = Genesis, !.last = 0]]
      BY <1>5, <2>2, Zenon DEF VerifyAnchor
    <3> HIDE DEF TypeOK
    <3>5. ver \in [Verifiers -> VerifyJob]
      BY Zenon DEF TypeOK
    <3> QED
      BY <3>2, <3>3, <3>4, <3>5, Zenon
  <2> QED
    BY <2>1, <2>2, Zenon
<1>6. CASE HistoryRow(v)
  <2>1. PICK r \in rows : ver' = [ver EXCEPT ![v] =
                      IF computeSelfHash(@.prev, r.cols) = @.anchored
                      THEN Verdict(@, "none")
                      ELSE [@ EXCEPT !.prev = r.self, !.last = r.id]]
    BY <1>6, Zenon DEF HistoryRow
  <2>2. [ver[v] EXCEPT !.prev = r.self, !.last = r.id] \in VerifyJob
    BY <1>0, Zenon DEF VerifyJob, Row
  <2> QED
    BY <1>0, <2>1, <2>2, VerdictType, Zenon DEF AnchorErrors
<1>7. CASE HistoryEnd(v)
  BY <1>0, <1>7, VerdictType, Zenon DEF HistoryEnd, AnchorErrors
<1>8. CASE VerifyError(v)
  BY <1>8, IdleTypes, Zenon DEF VerifyError
<1>9. CASE AnchorCheckError(v)
  BY <1>0, <1>9, VerdictType, Zenon DEF AnchorCheckError, AnchorErrors
<1> QED
  BY <1>2, <1>3, <1>4, <1>5, <1>6, <1>7, <1>8, <1>9, Zenon DEF VerifyStep

LEMMA EditTypes ==
    ASSUME TypeOK, EditRow
    PROVE  TypeOK'
<1>1. PICK r \in rows, c \in Columns :
         /\ rows' = (rows \ {r}) \cup {[r EXCEPT !.cols = c]}
         /\ edited' = edited \cup {r.id}
  BY Zenon DEF EditRow
<1>2. [r EXCEPT !.cols = c] \in Row /\ r.id \in Nat
  BY Zenon DEF TypeOK, Row
<1> QED
  BY <1>1, <1>2, Zenon DEF TypeOK, EditRow, anchorVars

-----------------------------------------------------------------------------
(* The chain.  ChainIntact is not inductive: what a writer commits depends *)
(* on what it read under the lock, so the invariant also says that a       *)
(* writer inside its transaction holds the lock, that the head has not     *)
(* moved since it read it, and that the id it drew is above every          *)
(* committed one.                                                          *)

\* At most one writer is inside its transaction, and it knows the head.
HolderKnowsHead ==
    \A w \in Writers : wr[w].pc # "idle" =>
        /\ headLock = w
        /\ wr[w].prev = head
        /\ wr[w].event \in Events

\* Ids are positive, drawn in order, and commit in the order drawn.
IdsOrdered ==
    /\ \A r \in rows : 0 < r.id /\ r.id < nextId
    /\ \A w \in Writers : wr[w].pc = "inserted" =>
         /\ 0 < wr[w].id
         /\ wr[w].id < nextId
         /\ \A r \in rows : r.id < wr[w].id

\* Only committed rows are edited.
EditedAreRows == \A i \in edited : \E r \in rows : r.id = i

ChainInv == TypeOK /\ HolderKnowsHead /\ IdsOrdered /\ EditedAreRows /\ ChainIntact

LEMMA ChainInit == Init => ChainInv
<1> SUFFICES ASSUME Init PROVE ChainInv
  BY Zenon
<1>1. Genesis \in Hashes
  BY DEF Genesis, Hashes
<1>2. TypeOK
  BY <1>1, IdleTypes DEF Init, TypeOK
<1>3. HolderKnowsHead /\ IdsOrdered /\ EditedAreRows
  BY Zenon DEF Init, HolderKnowsHead, IdsOrdered, IdleWriter, EditedAreRows
<1>4. ChainIntact
  BY Zenon DEF Init, ChainIntact, Linked, HeadIsNewest
<1> QED
  BY <1>2, <1>3, <1>4, Zenon DEF ChainInv

\* A step that leaves the chain's variables alone.
LEMMA ChainFrame ==
    ASSUME ChainInv, TypeOK', UNCHANGED chainVars
    PROVE  ChainInv'
<1>1. /\ rows' = rows /\ nextId' = nextId /\ head' = head
      /\ headLock' = headLock /\ wr' = wr /\ edited' = edited
  BY Zenon DEF chainVars
<1>2. HolderKnowsHead' /\ IdsOrdered' /\ EditedAreRows'
  BY <1>1, Zenon DEF ChainInv, HolderKnowsHead, IdsOrdered, EditedAreRows
<1>3. ChainIntact'
  BY <1>1, Zenon DEF ChainInv, ChainIntact, Linked, IsPredecessor, HeadIsNewest, Sound
<1> QED
  BY <1>2, <1>3, Zenon DEF ChainInv

LEMMA IntactFrame ==
    ASSUME ChainIntact, EditedAreRows, UNCHANGED <<rows, head, edited>>
    PROVE  ChainIntact' /\ EditedAreRows'
BY DEF ChainIntact, Linked, IsPredecessor, HeadIsNewest, Sound, EditedAreRows

\* The commit of Writer.Append adds one row after all the others.
LEMMA CommitKeepsChain ==
    ASSUME ChainInv, NEW w \in Writers, AppendCommit(w)
    PROVE  ChainIntact' /\ EditedAreRows'
<1> DEFINE n == [id |-> wr[w].id, cols |-> Stored(wr[w].event), prev |-> wr[w].prev,
                 self |-> HashOf(wr[w].prev, Payload(wr[w].event))]
<1>1. /\ rows' = rows \cup {n}
      /\ head' = n.self
      /\ n.prev = head
      /\ \A r \in rows : r.id \in Nat /\ r.id < n.id
      /\ n.id \in Nat
      /\ edited' = edited
  BY Zenon DEF AppendCommit, ChainInv, HolderKnowsHead, IdsOrdered, TypeOK, Row,
         WriterState
<1>2. n \in rows' /\ \A r \in rows' : r \in rows \/ r = n
  BY <1>1, Zenon
<1>3. ChainIntact /\ EditedAreRows
  BY Zenon DEF ChainInv
<1>4. \A r \in rows' : Sound(r) <=> r.id \notin edited
  <2>1. Sound(n)
    <3>1. wr[w].event \in Events
      BY Zenon DEF AppendCommit, ChainInv, HolderKnowsHead
    <3> QED
      BY <3>1, RebuiltHash, Zenon DEF Sound
  <2>2. n.id \notin edited
    BY <1>1, <1>3 DEF EditedAreRows
  <2> HIDE DEF n
  <2> QED
    BY <1>2, <1>3, <2>1, <2>2, Zenon DEF ChainIntact
<1>5. \A r, s \in rows' : r.id = s.id => r = s
  <2> SUFFICES ASSUME NEW r \in rows', NEW s \in rows', r.id = s.id
               PROVE  r = s
    BY Zenon
  <2> HIDE DEF n
  <2> QED
    BY <1>1, <1>2, <1>3 DEF ChainIntact, Linked
<1>6. ASSUME NEW r \in rows
      PROVE  \/ r.prev = Genesis /\ \A t \in rows' : r.id <= t.id
             \/ \E s \in rows' : IsPredecessor(s, r)' /\ r.prev = s.self
  <2> HIDE DEF n
  <2>1. CASE r.prev = Genesis /\ \A t \in rows : r.id <= t.id
    BY <1>1, <1>2, <2>1
  <2>2. CASE \E s \in rows : IsPredecessor(s, r) /\ r.prev = s.self
    BY <1>1, <1>2, <2>2 DEF IsPredecessor
  <2> QED
    BY <1>3, <2>1, <2>2, Zenon DEF ChainIntact, Linked
<1>7. \/ n.prev = Genesis /\ \A t \in rows' : n.id <= t.id
      \/ \E s \in rows' : /\ s.id < n.id
                          /\ \A t \in rows' : t.id < n.id => t.id <= s.id
                          /\ n.prev = s.self
  <2> HIDE DEF n
  <2>1. CASE rows = {} /\ head = Genesis
    BY <1>1, <1>2, <2>1
  <2>2. CASE \E r \in rows : head = r.self /\ \A s \in rows : s.id <= r.id
    BY <1>1, <1>2, <2>2
  <2> QED
    BY <1>3, <2>1, <2>2, Zenon DEF ChainIntact, HeadIsNewest
<1>8. HeadIsNewest'
  <2> HIDE DEF n
  <2> QED
    BY <1>1, <1>2 DEF HeadIsNewest
<1>9. Linked'
  <2> HIDE DEF n
  <2> SUFFICES ASSUME NEW r \in rows'
               PROVE  \/ r.prev = Genesis /\ \A t \in rows' : r.id <= t.id
                      \/ \E s \in rows' : IsPredecessor(s, r)' /\ r.prev = s.self
    BY <1>5, Zenon DEF Linked
  <2>1. CASE r \in rows
    BY <1>6, <2>1, Zenon
  <2>2. CASE r = n
    BY <1>7, <2>2, Zenon DEF IsPredecessor
  <2> QED
    BY <1>2, <2>1, <2>2, Zenon
<1> QED
  <2> HIDE DEF n
  <2>1. (\A r \in rows : Sound(r) <=> r.id \notin edited)'
    BY <1>1, <1>4, Zenon DEF Sound
  <2>2. EditedAreRows'
    BY <1>1, <1>3, Zenon DEF EditedAreRows
  <2> QED
    BY <1>8, <1>9, <2>1, <2>2, Zenon DEF ChainIntact

\* Every row stays where it was: same id, same links.
Kept ==
    /\ \A r \in rows : \E s \in rows' : s.id = r.id /\ s.prev = r.prev /\ s.self = r.self
    /\ \A s \in rows' : \E r \in rows : s.id = r.id /\ s.prev = r.prev /\ s.self = r.self

\* An edit changes no link, and the edited row no longer hashes to its hash.
LEMMA EditKeepsChain ==
    ASSUME ChainInv, EditRow
    PROVE  ChainIntact' /\ EditedAreRows' /\ IdsOrdered' /\ Kept
<1>1. PICK r \in rows, c \in Columns :
         /\ r.id \notin edited
         /\ c # r.cols
         /\ rows' = (rows \ {r}) \cup {[r EXCEPT !.cols = c]}
         /\ edited' = edited \cup {r.id}
  BY Zenon DEF EditRow
<1> DEFINE n == [r EXCEPT !.cols = c]
<1>2. /\ n.id = r.id /\ n.prev = r.prev /\ n.self = r.self /\ n.cols = c
      /\ r.prev \in Hashes /\ r.cols \in Columns
  BY Zenon DEF ChainInv, TypeOK, Row
<1>3. /\ rows' = (rows \ {r}) \cup {n}
      /\ \A s \in rows : s.id \in Nat
      /\ ChainIntact
  BY <1>1, Zenon DEF ChainInv, TypeOK, Row
<1> HIDE DEF n
<1>4. Kept
  BY <1>2, <1>3, Zenon DEF Kept
<1>5. \A s \in rows : s.id = r.id => s = r
  BY <1>3, Zenon DEF ChainIntact, Linked
<1>6. ~Sound(n)
  BY <1>1, <1>2, <1>3, EditShows DEF Sound, ChainIntact
<1>7. (\A s \in rows : Sound(s) <=> s.id \notin edited)'
  BY <1>1, <1>2, <1>3, <1>5, <1>6, Zenon DEF ChainIntact, Sound
<1>8. Linked'
  <2>1. \A x, y \in rows' : x.id = y.id => x = y
    BY <1>2, <1>3, <1>5, Zenon DEF ChainIntact, Linked
  <2>2. ASSUME NEW x \in rows'
        PROVE  \/ x.prev = Genesis /\ \A t \in rows' : x.id <= t.id
               \/ \E s \in rows' : IsPredecessor(s, x)' /\ x.prev = s.self
    <3>1. PICK y \in rows : x.id = y.id /\ x.prev = y.prev
      BY <1>4, Zenon DEF Kept
    <3>2. CASE y.prev = Genesis /\ \A t \in rows : y.id <= t.id
      BY <1>4, <3>1, <3>2, Zenon DEF Kept
    <3>3. CASE \E s \in rows : IsPredecessor(s, y) /\ y.prev = s.self
      <4>1. PICK s \in rows : IsPredecessor(s, y) /\ y.prev = s.self
        BY <3>3, Zenon
      <4>2. PICK z \in rows' : z.id = s.id /\ z.self = s.self
        BY <1>4, Zenon DEF Kept
      <4>3. IsPredecessor(z, x)'
        BY <1>4, <3>1, <4>1, <4>2, Zenon DEF Kept, IsPredecessor
      <4> QED
        BY <3>1, <4>1, <4>2, <4>3, Zenon
    <3> QED
      BY <1>3, <3>2, <3>3, Zenon DEF ChainIntact, Linked
  <2> QED
    BY <2>1, <2>2, Zenon DEF Linked
<1>9. HeadIsNewest'
  <2>1. head' = head
    BY Zenon DEF EditRow
  <2>2. PICK h \in rows : head = h.self /\ \A s \in rows : s.id <= h.id
    BY <1>3, Zenon DEF ChainIntact, HeadIsNewest
  <2>3. PICK k \in rows' : k.id = h.id /\ k.self = h.self
    BY <1>4, Zenon DEF Kept
  <2> QED
    BY <1>4, <2>1, <2>2, <2>3, Zenon DEF Kept, HeadIsNewest
<1>10. EditedAreRows'
  <2>1. n \in rows' /\ n.id = r.id
    BY <1>2, <1>3, Zenon
  <2> QED
    BY <1>1, <1>4, <2>1 DEF EditedAreRows, ChainInv, Kept
<1>11. IdsOrdered'
  BY <1>4 DEF Kept, IdsOrdered, ChainInv, EditRow
<1> QED
  BY <1>4, <1>7, <1>8, <1>9, <1>10, <1>11, Zenon DEF ChainIntact

LEMMA WriterKeepsChain ==
    ASSUME ChainInv, NEW w \in Writers, WriterStep(w)
    PROVE  ChainInv'
<1>0. TypeOK'
  BY WriterTypes, Zenon DEF ChainInv, HolderKnowsHead
<1>1. ASSUME NEW e \in Events, AppendLock(w, e)
      PROVE  HolderKnowsHead' /\ IdsOrdered' /\ EditedAreRows' /\ ChainIntact'
  <2>1. HolderKnowsHead'
    BY <1>1, ConstantsAssumption, Zenon DEF AppendLock, ChainInv, HolderKnowsHead, TypeOK
  <2>2. IdsOrdered'
    BY <1>1, Zenon DEF AppendLock, ChainInv, IdsOrdered, TypeOK
  <2> QED
    BY <1>1, <2>1, <2>2, IntactFrame, Zenon DEF AppendLock, ChainInv
<1>2. CASE AppendInsert(w)
  <2>1. HolderKnowsHead'
    BY <1>2 DEF AppendInsert, ChainInv, HolderKnowsHead, TypeOK, WriterState
  <2>2. IdsOrdered'
    BY <1>2 DEF AppendInsert, ChainInv, IdsOrdered, HolderKnowsHead, TypeOK,
                WriterState, Row
  <2>3. ChainIntact' /\ EditedAreRows'
    BY <1>2, IntactFrame, Zenon DEF AppendInsert, ChainInv
  <2> QED
    BY <1>0, <2>1, <2>2, <2>3, Zenon DEF ChainInv
<1>3. CASE AppendCommit(w)
  <2>1. \A u \in Writers : wr'[u].pc = "idle"
    BY <1>3, Zenon DEF AppendCommit, ChainInv, HolderKnowsHead, TypeOK, IdleWriter
  <2>2. HolderKnowsHead'
    BY <2>1, Zenon DEF HolderKnowsHead
  <2>3. IdsOrdered'
    BY <1>3, <2>1 DEF AppendCommit, ChainInv, IdsOrdered, TypeOK, Row
  <2> QED
    BY <1>0, <1>3, <2>2, <2>3, CommitKeepsChain, Zenon DEF ChainInv
<1>4. CASE AppendAbort(w)
  <2>1. \A u \in Writers : wr'[u].pc = "idle"
    BY <1>4, Zenon DEF AppendAbort, ChainInv, HolderKnowsHead, TypeOK, IdleWriter
  <2>2. HolderKnowsHead'
    BY <2>1, Zenon DEF HolderKnowsHead
  <2>3. IdsOrdered'
    BY <1>4, <2>1, Zenon DEF AppendAbort, ChainInv, IdsOrdered
  <2> QED
    BY <1>0, <1>4, <2>2, <2>3, IntactFrame, Zenon DEF ChainInv, AppendAbort
<1> QED
  BY <1>0, <1>1, <1>2, <1>3, <1>4, Zenon DEF WriterStep, ChainInv

LEMMA ChainStep == ChainInv /\ [Next]_vars => ChainInv'
<1> SUFFICES ASSUME ChainInv, [Next]_vars PROVE ChainInv'
  BY Zenon
<1>1. ASSUME NEW w \in Writers, WriterStep(w) PROVE ChainInv'
  BY <1>1, WriterKeepsChain, Zenon
<1>2. ASSUME NEW a \in Anchorers, AnchorStep(a) PROVE ChainInv'
  BY <1>2, AnchorTypes, ChainFrame, Zenon
     DEF ChainInv, AnchorStep, AnchorLoad, AnchorInsert, AnchorError
<1>3. CASE RestartWithNewKey
  <2>1. HolderKnowsHead' /\ IdsOrdered'
    BY <1>3, Zenon DEF RestartWithNewKey, ChainInv, HolderKnowsHead, IdsOrdered, IdleWriter
  <2> QED
    BY <1>3, <2>1, RestartTypes, IntactFrame, Zenon DEF RestartWithNewKey, ChainInv
<1>4. ASSUME NEW v \in Verifiers, VerifyStep(v) PROVE ChainInv'
  BY <1>4, VerifyTypes, ChainFrame, Zenon
     DEF ChainInv, VerifyStep, VerifyStart, VerifyRow, VerifyEnd, VerifyAnchor,
         HistoryRow, HistoryEnd, VerifyError, AnchorCheckError
<1>5. CASE EditRow
  <2>1. HolderKnowsHead'
    BY <1>5, Zenon DEF EditRow, ChainInv, HolderKnowsHead
  <2> QED
    BY <1>5, <2>1, EditTypes, EditKeepsChain, Zenon DEF ChainInv
<1>6. CASE UNCHANGED vars
  <2>1. TypeOK'
    BY <1>6, Zenon DEF vars, ChainInv, TypeOK
  <2> QED
    BY <1>6, <2>1, ChainFrame, Zenon DEF vars, chainVars
<1> QED
  BY <1>1, <1>2, <1>3, <1>4, <1>5, <1>6, Zenon DEF Next

\* Every variable of the audit log keeps its type, whatever writers, jobs,
\* restarts and edits do.
THEOREM TypeCorrect == Spec => []TypeOK
<1>1. ChainInv => TypeOK
  BY Zenon DEF ChainInv
<1> QED
  BY <1>1, ChainInit, ChainStep, PTL DEF Spec

\* Writer.Append keeps the chain intact for any number of concurrent writers
\* and any failures between its statements, and every edit of a stored row
\* breaks that row's hash and no other.
THEOREM ChainCorrect == Spec => []ChainIntact
<1>1. ChainInv => ChainIntact
  BY Zenon DEF ChainInv
<1> QED
  BY <1>1, ChainInit, ChainStep, PTL DEF Spec

-----------------------------------------------------------------------------
(* Anchors.  The anchor job signs a head it read earlier, so the invariant *)
(* covers the heads the jobs still hold.                                   *)

IsHistory(h) == h = Genesis \/ \E r \in rows : r.self = h

AnchorInv ==
    /\ ChainInv
    /\ AnchorsAreHistory
    /\ \A a \in Anchorers : IsHistory(anc[a].head)

LEMMA AnchorInit == Init => AnchorInv
<1> SUFFICES ASSUME Init PROVE AnchorInv
  BY Zenon
<1>1. AnchorsAreHistory
  BY DEF Init, AnchorsAreHistory
<1>2. \A a \in Anchorers : IsHistory(anc[a].head)
  BY Zenon DEF Init, IsHistory, IdleAnchorJob
<1> QED
  BY <1>1, <1>2, ChainInit, Zenon DEF AnchorInv

\* No row leaves the log: rows are added, and an edit keeps the hash.
Grows == \A r \in rows : \E s \in rows' : s.id = r.id /\ s.self = r.self

\* So history stays history.
LEMMA HistoryGrows ==
    ASSUME AnchorInv, Grows, UNCHANGED <<anchors, anc>>, ChainInv'
    PROVE  AnchorInv'
BY DEF AnchorInv, AnchorsAreHistory, IsHistory, Grows

LEMMA WriterGrows ==
    ASSUME NEW w \in Writers, WriterStep(w)
    PROVE  Grows /\ UNCHANGED <<anchorVars, ver, edited>>
<1>1. rows \subseteq rows'
  BY Zenon DEF WriterStep, AppendLock, AppendInsert, AppendCommit, AppendAbort
<1>2. UNCHANGED <<anchorVars, ver, edited>>
  BY Zenon DEF WriterStep, AppendLock, AppendInsert, AppendCommit, AppendAbort
<1> QED
  BY <1>1, <1>2, Zenon DEF Grows

LEMMA EditGrows ==
    ASSUME ChainInv, EditRow
    PROVE  Grows /\ edited \subseteq edited' /\ edited' # {} /\ UNCHANGED <<anchorVars, ver, head>>
<1>1. Grows
  BY EditKeepsChain, Zenon DEF Kept, Grows
<1> QED
  BY <1>1, Zenon DEF EditRow

LEMMA AnchorStepInv == AnchorInv /\ [Next]_vars => AnchorInv'
<1> SUFFICES ASSUME AnchorInv, [Next]_vars PROVE AnchorInv'
  BY Zenon
<1>0. ChainInv /\ ChainInv' /\ TypeOK
  BY ChainStep, Zenon DEF AnchorInv, ChainInv
<1>1. ASSUME NEW w \in Writers, WriterStep(w) PROVE AnchorInv'
  BY <1>0, <1>1, HistoryGrows, WriterGrows, Zenon DEF anchorVars
<1>2. ASSUME NEW a \in Anchorers, AnchorStep(a) PROVE AnchorInv'
  <2>1. CASE AnchorLoad(a)
    <3>1. IsHistory(head)
      BY <1>0, Zenon DEF ChainInv, ChainIntact, HeadIsNewest, IsHistory
    <3>2. anchors' = anchors /\ rows' = rows
      BY <2>1, Zenon DEF AnchorLoad, chainVars
    <3>3. \A b \in Anchorers : anc'[b].head = anc[b].head \/ anc'[b].head = head
      BY <1>0, <2>1, Zenon DEF AnchorLoad, TypeOK
    <3> QED
      BY <1>0, <3>1, <3>2, <3>3, Zenon DEF AnchorInv, AnchorsAreHistory, IsHistory
  <2>2. CASE AnchorInsert(a)
    <3>1. /\ rows' = rows
          /\ anchors' = Append(anchors, [head |-> anc[a].head, key |-> signerKey])
          /\ \A b \in Anchorers : anc'[b].head \in {anc[b].head, Genesis}
      BY <1>0, <2>2, Zenon DEF AnchorInsert, chainVars, TypeOK, IdleAnchorJob
    <3>2. \A i \in DOMAIN anchors' :
             \/ i \in DOMAIN anchors /\ anchors'[i].head = anchors[i].head
             \/ anchors'[i].head = anc[a].head
      BY <1>0, <3>1 DEF TypeOK
    <3>3. AnchorsAreHistory'
      BY <3>1, <3>2 DEF AnchorInv, AnchorsAreHistory, IsHistory
    <3>4. \A b \in Anchorers : IsHistory(anc[b].head)'
      BY <3>1, Zenon DEF AnchorInv, IsHistory
    <3> QED
      BY <1>0, <3>3, <3>4, Zenon DEF AnchorInv
  <2>3. CASE AnchorError(a)
    <3>1. /\ rows' = rows
          /\ anchors' = anchors
          /\ \A b \in Anchorers : anc'[b].head \in {anc[b].head, Genesis}
      BY <1>0, <2>3, Zenon DEF AnchorError, chainVars, TypeOK, IdleAnchorJob
    <3> QED
      BY <1>0, <3>1, Zenon DEF AnchorInv, AnchorsAreHistory, IsHistory
  <2> QED
    BY <1>2, <2>1, <2>2, <2>3, Zenon DEF AnchorStep
<1>3. CASE RestartWithNewKey
  BY <1>0, <1>3, Zenon DEF RestartWithNewKey, AnchorInv, AnchorsAreHistory, IsHistory,
                    IdleAnchorJob
<1>4. ASSUME NEW v \in Verifiers, VerifyStep(v) PROVE AnchorInv'
  <2>1. rows' = rows /\ anchors' = anchors /\ anc' = anc
    BY <1>4, Zenon
       DEF VerifyStep, VerifyStart, VerifyRow, VerifyEnd, VerifyAnchor, HistoryRow,
           HistoryEnd, VerifyError, AnchorCheckError, chainVars, anchorVars
  <2> QED
    BY <1>0, <2>1, HistoryGrows, Zenon DEF Grows
<1>5. CASE EditRow
  BY <1>0, <1>5, HistoryGrows, EditGrows, Zenon DEF anchorVars
<1>6. CASE UNCHANGED vars
  BY <1>0, <1>6, HistoryGrows, Zenon DEF vars, Grows
<1> QED
  BY <1>1, <1>2, <1>3, <1>4, <1>5, <1>6, Zenon DEF Next

\* Every anchor row the anchor job wrote vouches for a head the chain really
\* had, however late it was inserted.
THEOREM AnchorsCorrect == Spec => []AnchorsAreHistory
<1>1. AnchorInv => AnchorsAreHistory
  BY Zenon DEF AnchorInv
<1> QED
  BY <1>1, AnchorInit, AnchorStepInv, PTL DEF Spec

-----------------------------------------------------------------------------
(* The verify job over a log that grows, and is edited, under it.  A walk  *)
(* stands at the start or on a committed row whose hash it carries; while  *)
(* it has found nothing, an edit it must find is still ahead of it; and    *)
(* the head it compares with is history, which every later hash extends.   *)

OnChain(job) ==
    \/ job.last = 0 /\ job.prev = Genesis
    \/ \E r \in rows : r.id = job.last /\ r.self = job.prev

Extends(g, h) == Len(g) <= Len(h) /\ SubSeq(h, 1, Len(g)) = g

ForeignAnchor == \E i \in DOMAIN anchors : anchors[i].key # signerKey

WalkOK(job) ==
    job.pc = "walk" =>
        /\ OnChain(job)
        /\ IsHistory(job.head)
        /\ job.tampered => \/ job.firstBad # 0
                           \/ \E r \in rows : r.id \in edited /\ r.id > job.last

ResultOK(job) ==
    /\ job.pc = "anchor" => Extends(job.head, job.prev)
    /\ job.pc \in {"anchor", "history", "done"} /\ job.tampered => ~job.chainOK

HistoryOK(job) ==
    /\ job.pc = "history" /\ edited = {} =>
         OnChain(job) /\ \E r \in rows : r.self = job.anchored /\ r.id > job.last
    /\ job.anchorErr = "missing" => edited # {}
    /\ job.anchorErr = "signature" => ForeignAnchor
    /\ job.pc \in {"walk", "anchor", "history"} => job.anchorErr = "none"

JobOK(job) ==
    /\ job.firstBad \in edited \cup {0}
    /\ WalkOK(job)
    /\ ResultOK(job)
    /\ HistoryOK(job)

RowsExtend == \A r, s \in rows : r.id <= s.id => Extends(r.self, s.self)

VerifyInv ==
    /\ AnchorInv
    /\ RowsExtend
    /\ \A v \in Verifiers : JobOK(ver[v])

LEMMA ExtendsFacts ==
    ASSUME NEW g \in Hashes, NEW h \in Hashes, NEW e \in Payloads
    PROVE  /\ Extends(g, g)
           /\ Extends(Genesis, g)
           /\ Extends(g, h) => Extends(g, HashOf(h, e))
<1>1. Extends(g, g) /\ Extends(Genesis, g)
  BY DEF Extends, Hashes, Genesis
<1>2. Extends(g, h) => Extends(g, HashOf(h, e))
  BY DEF Extends, Hashes, HashOf
<1> QED
  BY <1>1, <1>2, Zenon

\* The next row in id order is linked to the one the walk stands on.
LEMMA NextRowLinked ==
    ASSUME ChainInv, NEW v \in Verifiers, OnChain(ver[v]),
           NEW r \in rows, NextRow(v, r)
    PROVE  r.prev = ver[v].prev
<1>1. ChainIntact /\ \A s \in rows : s.id \in Nat /\ 0 < s.id
  BY Zenon DEF ChainInv, IdsOrdered, TypeOK, Row
<1>2. \/ r.prev = Genesis /\ \A t \in rows : r.id <= t.id
      \/ \E s \in rows : IsPredecessor(s, r) /\ r.prev = s.self
  BY <1>1, Zenon DEF ChainIntact, Linked
<1>3. CASE ver[v].last = 0 /\ ver[v].prev = Genesis
  <2>1. \A s \in rows : r.id <= s.id
    BY <1>1, <1>3, Zenon DEF NextRow
  <2> QED
    BY <1>1, <1>2, <1>3, <2>1 DEF IsPredecessor
<1>4. CASE \E p \in rows : p.id = ver[v].last /\ p.self = ver[v].prev
  <2>1. PICK p \in rows : p.id = ver[v].last /\ p.self = ver[v].prev
    BY <1>4, Zenon
  <2>2. p.id < r.id /\ \A s \in rows : s.id > p.id => r.id <= s.id
    BY <2>1, Zenon DEF NextRow
  <2> QED
    BY <1>1, <1>2, <2>1, <2>2 DEF IsPredecessor, ChainIntact, Linked
<1> QED
  BY <1>3, <1>4, Zenon DEF OnChain

\* So it is bad exactly when it was edited.
LEMMA BadMeansEdited ==
    ASSUME ChainInv, NEW v \in Verifiers, OnChain(ver[v]),
           NEW r \in rows, NextRow(v, r)
    PROVE  /\ RowIsBad(ver[v].prev, r) <=> r.id \in edited
           /\ r.id \notin edited => computeSelfHash(ver[v].prev, r.cols) = r.self
<1>1. r.prev = ver[v].prev
  BY NextRowLinked, Zenon
<1>2. Sound(r) <=> r.id \notin edited
  BY Zenon DEF ChainInv, ChainIntact
<1> QED
  BY <1>1, <1>2, Zenon DEF RowIsBad, Sound

StartJob == [IdleVerifyJob EXCEPT !.pc = "walk", !.head = head,
                                  !.tampered = edited # {}]
EndJob(job) == [job EXCEPT !.pc = "anchor",
                           !.chainOK = job.firstBad = 0 /\ job.head = job.prev]
HistoryJob(job, h) == [job EXCEPT !.pc = "history", !.anchored = h,
                                  !.prev = Genesis, !.last = 0]
NextJob(job, r) == [job EXCEPT !.prev = r.self, !.last = r.id]
Latest == anchors[Len(anchors)]

\* What a step of a verify job may do to it.
LEMMA VerifyCases ==
    ASSUME TypeOK, NEW v \in Verifiers, VerifyStep(v)
    PROVE  /\ UNCHANGED <<chainVars, anchorVars>>
           /\ \A u \in Verifiers : u # v => ver'[u] = ver[u]
           /\ \/ ver'[v] = StartJob
              \/ /\ ver[v].pc = "walk"
                 /\ \E r \in rows : NextRow(v, r) /\ ver'[v] = Walked(ver[v], r)
              \/ /\ ver[v].pc = "walk"
                 /\ Exhausted(v)
                 /\ ver'[v] = EndJob(ver[v])
              \/ /\ ver[v].pc = "anchor"
                 /\ \/ ver'[v] = Verdict(ver[v], "none")
                    \/ /\ anchors # <<>>
                       /\ Latest.key # signerKey
                       /\ ver'[v] = Verdict(ver[v], "signature")
              \/ /\ ver[v].pc = "anchor"
                 /\ anchors # <<>>
                 /\ Latest.head # Genesis
                 /\ ver'[v] = HistoryJob(ver[v], Latest.head)
              \/ /\ ver[v].pc = "history"
                 /\ ver'[v] = Verdict(ver[v], "none")
              \/ /\ ver[v].pc = "history"
                 /\ \E r \in rows :
                      /\ NextRow(v, r)
                      /\ computeSelfHash(ver[v].prev, r.cols) # ver[v].anchored
                      /\ ver'[v] = NextJob(ver[v], r)
              \/ /\ ver[v].pc = "history"
                 /\ Exhausted(v)
                 /\ ver'[v] = Verdict(ver[v], "missing")
              \/ /\ ver[v].pc \in {"anchor", "history"}
                 /\ ver'[v] = Verdict(ver[v], "database")
              \/ ver'[v] = IdleVerifyJob
<1>1. DOMAIN ver = Verifiers
  BY Zenon DEF TypeOK
<1>2. CASE VerifyStart(v)
  BY <1>1, <1>2, Zenon DEF VerifyStart, StartJob
<1>3. CASE VerifyRow(v)
  BY <1>1, <1>3, Zenon DEF VerifyRow
<1>4. CASE VerifyEnd(v)
  BY <1>1, <1>4, Zenon DEF VerifyEnd, EndJob
<1>5. CASE VerifyAnchor(v)
  <2>1. /\ ver[v].pc = "anchor"
        /\ UNCHANGED <<chainVars, anchorVars>>
        /\ \/ ver' = [ver EXCEPT ![v] = Verdict(ver[v], "none")]
           \/ /\ anchors # <<>>
              /\ Latest.key # signerKey
              /\ ver' = [ver EXCEPT ![v] = Verdict(ver[v], "signature")]
           \/ /\ anchors # <<>>
              /\ Latest.head # Genesis
              /\ ver' = [ver EXCEPT ![v] = HistoryJob(ver[v], Latest.head)]
    BY <1>5, Zenon DEF VerifyAnchor, HistoryJob, Latest
  <2> QED
    BY <1>1, <2>1, Zenon
<1>6. CASE HistoryRow(v)
  <2>1. PICK r \in rows :
          /\ NextRow(v, r)
          /\ ver' = [ver EXCEPT ![v] =
                       IF computeSelfHash(@.prev, r.cols) = @.anchored
                       THEN Verdict(@, "none") ELSE NextJob(@, r)]
    BY <1>6, Zenon DEF HistoryRow, NextJob
  <2> QED
    BY <1>1, <1>6, <2>1, Zenon DEF HistoryRow
<1>7. CASE HistoryEnd(v)
  BY <1>1, <1>7, Zenon DEF HistoryEnd
<1>8. CASE VerifyError(v)
  BY <1>1, <1>8, Zenon DEF VerifyError
<1>9. CASE AnchorCheckError(v)
  BY <1>1, <1>9, Zenon DEF AnchorCheckError
<1> QED
  BY <1>2, <1>3, <1>4, <1>5, <1>6, <1>7, <1>8, <1>9, Zenon DEF VerifyStep

LEMMA IdleJobOK == JobOK(IdleVerifyJob)
<1>1. /\ IdleVerifyJob.pc = "idle"
      /\ IdleVerifyJob.firstBad = 0
      /\ IdleVerifyJob.anchorErr = "none"
  BY Zenon DEF IdleVerifyJob
<1> QED
  BY <1>1, Zenon DEF JobOK, WalkOK, ResultOK, HistoryOK

\* One step of a verify job, the tables standing still.
LEMMA JobStep ==
    ASSUME VerifyInv, NEW v \in Verifiers, VerifyStep(v)
    PROVE  JobOK(ver'[v])
<1> DEFINE j == ver[v]
<1> DEFINE k == ver'[v]
<1>0. /\ ChainInv /\ j \in VerifyJob /\ JobOK(j) /\ AnchorsAreHistory /\ RowsExtend
      /\ \A r \in rows : r.id \in Nat /\ 0 < r.id /\ r.self \in Hashes
      /\ j.last \in Nat
      /\ TypeOK
  BY Zenon DEF VerifyInv, AnchorInv, ChainInv, TypeOK, IdsOrdered, Row, VerifyJob
<1> SUFFICES JobOK(k)
  BY Zenon
<1>a. \/ k = StartJob
      \/ j.pc = "walk" /\ \E r \in rows : NextRow(v, r) /\ k = Walked(j, r)
      \/ j.pc = "walk" /\ Exhausted(v) /\ k = EndJob(j)
      \/ /\ j.pc = "anchor"
         /\ \/ k = Verdict(j, "none")
            \/ /\ anchors # <<>> /\ Latest.key # signerKey
               /\ k = Verdict(j, "signature")
      \/ /\ j.pc = "anchor" /\ anchors # <<>> /\ Latest.head # Genesis
         /\ k = HistoryJob(j, Latest.head)
      \/ j.pc = "history" /\ k = Verdict(j, "none")
      \/ /\ j.pc = "history"
         /\ \E r \in rows : /\ NextRow(v, r)
                            /\ computeSelfHash(j.prev, r.cols) # j.anchored
                            /\ k = NextJob(j, r)
      \/ j.pc = "history" /\ Exhausted(v) /\ k = Verdict(j, "missing")
      \/ j.pc \in {"anchor", "history"} /\ k = Verdict(j, "database")
      \/ k = IdleVerifyJob
  BY <1>0, VerifyCases, Zenon
<1> HIDE DEF j, k
<1>1. CASE k = StartJob
  <2>1. /\ k.pc = "walk" /\ k.firstBad = 0 /\ k.last = 0 /\ k.prev = Genesis
        /\ k.head = head /\ k.tampered = (edited # {})
        /\ k.anchorErr = "none"
    BY <1>1, Zenon DEF StartJob, IdleVerifyJob
  <2>2. IsHistory(head)
    BY <1>0, Zenon DEF ChainInv, ChainIntact, HeadIsNewest, IsHistory
  <2>3. edited # {} => \E r \in rows : r.id \in edited /\ r.id > 0
    BY <1>0, Zenon DEF ChainInv, EditedAreRows
  <2> QED
    BY <2>1, <2>2, <2>3, Zenon DEF JobOK, WalkOK, ResultOK, HistoryOK, OnChain
<1>2. CASE j.pc = "walk" /\ \E r \in rows : NextRow(v, r) /\ k = Walked(j, r)
  <2>1. PICK r \in rows : NextRow(v, r) /\ k = Walked(j, r)
    BY <1>2, Zenon
  <2>2. RowIsBad(j.prev, r) <=> r.id \in edited
    BY <1>0, <1>2, <2>1, BadMeansEdited, Zenon DEF JobOK, WalkOK, j
  <2>3. /\ k.pc = "walk" /\ k.prev = r.self /\ k.last = r.id
        /\ k.head = j.head /\ k.tampered = j.tampered /\ k.anchorErr = j.anchorErr
        /\ k.firstBad = IF j.firstBad = 0 /\ r.id \in edited
                        THEN r.id ELSE j.firstBad
    BY <1>0, <1>2, <2>1, <2>2, Zenon DEF Walked, VerifyJob
  <2>4. ASSUME k.tampered, k.firstBad = 0
        PROVE  \E s \in rows : s.id \in edited /\ s.id > r.id
    <3>1. j.tampered /\ j.firstBad = 0 /\ r.id \notin edited
      BY <1>0, <2>3, <2>4
    <3>2. PICK s \in rows : s.id \in edited /\ s.id > j.last
      BY <1>0, <1>2, <3>1, Zenon DEF JobOK, WalkOK
    <3>3. r.id <= s.id /\ r.id # s.id
      BY <2>1, <3>1, <3>2, Zenon DEF NextRow, j
    <3> QED
      BY <1>0, <3>2, <3>3
  <2>5. OnChain(k) /\ IsHistory(k.head)
    BY <1>0, <1>2, <2>3, Zenon DEF OnChain, JobOK, WalkOK
  <2>6. k.firstBad \in edited \cup {0}
    BY <1>0, <2>3, Zenon DEF JobOK
  <2> QED
    BY <1>0, <1>2, <2>3, <2>4, <2>5, <2>6, Zenon DEF JobOK, WalkOK, ResultOK, HistoryOK
<1>3. CASE j.pc = "walk" /\ Exhausted(v) /\ k = EndJob(j)
  <2>1. /\ k.pc = "anchor" /\ k.head = j.head /\ k.prev = j.prev
        /\ k.tampered = j.tampered /\ k.firstBad = j.firstBad
        /\ k.chainOK => j.firstBad = 0
        /\ k.anchorErr = j.anchorErr
    BY <1>0, <1>3, Zenon DEF EndJob, VerifyJob
  <2>2. \A s \in rows : s.id <= j.last
    BY <1>3, Zenon DEF Exhausted, j
  <2>3. OnChain(j) /\ IsHistory(j.head)
    BY <1>0, <1>3, Zenon DEF JobOK, WalkOK
  <2>4. j.tampered => j.firstBad # 0
    BY <1>0, <1>3, <2>2 DEF JobOK, WalkOK
  <2>5. Extends(j.head, j.prev)
    <3>1. j.prev \in Hashes
      BY <1>0, Zenon DEF VerifyJob
    <3>2. CASE j.head = Genesis
      BY <3>1, <3>2 DEF Extends, Hashes, Genesis
    <3>3. CASE \E s \in rows : s.self = j.head
      <4>1. PICK s \in rows : s.self = j.head
        BY <3>3, Zenon
      <4>2. PICK r \in rows : r.id = j.last /\ r.self = j.prev
        BY <1>0, <2>2, <2>3, <4>1 DEF OnChain
      <4> QED
        BY <1>0, <2>2, <4>1, <4>2, Zenon DEF RowsExtend
    <3> QED
      BY <2>3, <3>2, <3>3, Zenon DEF IsHistory
  <2> QED
    BY <1>0, <1>3, <2>1, <2>4, <2>5, Zenon DEF JobOK, WalkOK, ResultOK, HistoryOK
<1>4. ASSUME NEW err, j.pc \in {"anchor", "history"}, k = Verdict(j, err),
             err = "missing" => edited # {}, err = "signature" => ForeignAnchor
      PROVE  JobOK(k)
  <2>1. /\ k.pc = "done" /\ k.firstBad = j.firstBad /\ k.chainOK = j.chainOK
        /\ k.tampered = j.tampered /\ k.anchorErr = err
    BY <1>4, Zenon DEF Verdict, IdleVerifyJob
  <2> QED
    BY <1>0, <1>4, <2>1, Zenon DEF JobOK, WalkOK, ResultOK, HistoryOK
<1>5. CASE /\ j.pc = "anchor"
           /\ \/ k = Verdict(j, "none")
              \/ /\ anchors # <<>> /\ Latest.key # signerKey
                 /\ k = Verdict(j, "signature")
  <2>1. anchors # <<>> => Len(anchors) \in DOMAIN anchors
    BY <1>0 DEF TypeOK
  <2> QED
    BY <1>4, <1>5, <2>1 DEF ForeignAnchor, Latest
<1>6. CASE /\ j.pc = "anchor" /\ anchors # <<>> /\ Latest.head # Genesis
           /\ k = HistoryJob(j, Latest.head)
  <2>1. /\ k.pc = "history" /\ k.anchored = Latest.head /\ k.prev = Genesis
        /\ k.last = 0 /\ k.firstBad = j.firstBad /\ k.chainOK = j.chainOK
        /\ k.tampered = j.tampered /\ k.anchorErr = j.anchorErr
    BY <1>0, <1>6, Zenon DEF HistoryJob, VerifyJob
  <2>2. Len(anchors) \in DOMAIN anchors
    BY <1>0, <1>6 DEF TypeOK
  <2>3. \E r \in rows : r.self = Latest.head /\ r.id > 0
    BY <1>0, <1>6, <2>2, Zenon DEF AnchorsAreHistory, Latest
  <2> QED
    BY <1>0, <1>6, <2>1, <2>3, Zenon DEF JobOK, WalkOK, ResultOK, HistoryOK, OnChain
<1>7. CASE /\ j.pc \in {"anchor", "history"}
           /\ k \in {Verdict(j, "none"), Verdict(j, "database")}
  BY <1>4, <1>7
<1>8. CASE /\ j.pc = "history"
           /\ \E r \in rows : /\ NextRow(v, r)
                              /\ computeSelfHash(j.prev, r.cols) # j.anchored
                              /\ k = NextJob(j, r)
  <2>1. PICK r \in rows : /\ NextRow(v, r)
                          /\ computeSelfHash(j.prev, r.cols) # j.anchored
                          /\ k = NextJob(j, r)
    BY <1>8, Zenon
  <2>2. /\ k.pc = "history" /\ k.anchored = j.anchored /\ k.prev = r.self
        /\ k.last = r.id /\ k.firstBad = j.firstBad /\ k.chainOK = j.chainOK
        /\ k.tampered = j.tampered /\ k.anchorErr = j.anchorErr
    BY <1>0, <1>8, <2>1, Zenon DEF NextJob, VerifyJob
  <2>3. ASSUME edited = {}
        PROVE  \E s \in rows : s.self = j.anchored /\ s.id > r.id
    <3>1. OnChain(j) /\ \E s \in rows : s.self = j.anchored /\ s.id > j.last
      BY <1>0, <1>8, <2>3, Zenon DEF JobOK, HistoryOK
    <3>2. PICK s \in rows : s.self = j.anchored /\ s.id > j.last
      BY <3>1, Zenon
    <3>3. r.id <= s.id
      BY <2>1, <3>2, Zenon DEF NextRow, j
    <3>4. r # s
      BY <1>0, <2>1, <2>3, <3>1, <3>2, BadMeansEdited, Zenon DEF j
    <3>5. r.id # s.id
      BY <1>0, <3>4, Zenon DEF ChainInv, ChainIntact, Linked
    <3> QED
      BY <1>0, <3>2, <3>3, <3>5
  <2> QED
    BY <1>0, <1>8, <2>2, <2>3, Zenon DEF JobOK, WalkOK, ResultOK, HistoryOK, OnChain
<1>9. CASE j.pc = "history" /\ Exhausted(v) /\ k = Verdict(j, "missing")
  <2>1. edited # {}
    BY <1>0, <1>9 DEF JobOK, HistoryOK, Exhausted, j
  <2> QED
    BY <1>4, <1>9, <2>1
<1>10. CASE k = IdleVerifyJob
  BY <1>10, IdleJobOK, Zenon
<1> QED
  BY <1>a, <1>1, <1>2, <1>3, <1>5, <1>6, <1>7, <1>8, <1>9, <1>10, Zenon

\* A job keeps its invariant while others write, anchor or edit.
LEMMA JobFrame ==
    ASSUME NEW v \in Verifiers, JobOK(ver[v]), ver'[v] = ver[v],
           Grows, edited \subseteq edited', signerKey' = signerKey,
           \A i \in DOMAIN anchors : i \in DOMAIN anchors' /\ anchors'[i] = anchors[i]
    PROVE  JobOK(ver[v])'
<1>1. OnChain(ver[v]) => OnChain(ver[v])'
  BY DEF OnChain, Grows
<1>2. IsHistory(ver[v].head) => IsHistory(ver[v].head)'
  BY Zenon DEF IsHistory, Grows
<1>3. ForeignAnchor => ForeignAnchor'
  BY Zenon DEF ForeignAnchor
<1>4. WalkOK(ver[v])'
  BY <1>1, <1>2, Zenon DEF JobOK, WalkOK, Grows
<1>5. ResultOK(ver[v])'
  BY Zenon DEF JobOK, ResultOK, Extends
<1>6. HistoryOK(ver[v])'
  BY <1>1, <1>3, Zenon DEF JobOK, HistoryOK, Grows
<1> QED
  BY <1>4, <1>5, <1>6, Zenon DEF JobOK

\* The hash of a row extends the hash of every older one.
LEMMA RowsExtendStep ==
    ASSUME ChainInv, RowsExtend, [Next]_vars
    PROVE  RowsExtend'
<1>0. TypeOK /\ \A r \in rows : r.id \in Nat /\ r.self \in Hashes
  BY Zenon DEF ChainInv, TypeOK, Row
<1>1. ASSUME NEW w \in Writers, AppendCommit(w) PROVE RowsExtend'
  <2> DEFINE n == [id |-> wr[w].id, cols |-> Stored(wr[w].event), prev |-> wr[w].prev,
                   self |-> HashOf(wr[w].prev, Payload(wr[w].event))]
  <2>1. /\ rows' = rows \cup {n}
        /\ n.self = HashOf(head, Payload(wr[w].event))
        /\ \A r \in rows : r.id < n.id
        /\ n.id \in Nat
        /\ wr[w].event \in Events /\ head \in Hashes
    BY <1>0, <1>1, Zenon DEF AppendCommit, ChainInv, HolderKnowsHead, IdsOrdered, TypeOK,
                      WriterState
  <2>2. n.self \in Hashes /\ Payload(wr[w].event) \in Payloads
    BY <2>1, HashType, Zenon DEF Payloads
  <2>3. \A r \in rows : Extends(r.self, n.self)
    <3>1. \A r \in rows : Extends(r.self, head)
      BY <1>0, Zenon DEF ChainInv, ChainIntact, HeadIsNewest, RowsExtend
    <3> QED
      BY <1>0, <2>1, <2>2, <3>1, ExtendsFacts, Zenon
  <2>4. Extends(n.self, n.self)
    BY <2>2, ExtendsFacts, Zenon
  <2> HIDE DEF n
  <2>5. \A r, t \in rows' : r.id <= t.id => Extends(r.self, t.self)
    BY <1>0, <2>1, <2>3, <2>4 DEF RowsExtend
  <2> QED
    BY <2>5, Zenon DEF RowsExtend, Extends
<1>2. CASE EditRow
  <2>1. Kept
    BY <1>2, EditKeepsChain, Zenon
  <2>2. \A r, t \in rows' : r.id <= t.id => Extends(r.self, t.self)
    BY <2>1, Zenon DEF Kept, RowsExtend
  <2> QED
    BY <2>2, Zenon DEF RowsExtend, Extends
<1>3. ASSUME rows' = rows PROVE RowsExtend'
  BY <1>3, Zenon DEF RowsExtend, Extends
<1>4. ASSUME NEW w \in Writers, WriterStep(w) PROVE RowsExtend'
  BY <1>1, <1>3, <1>4, Zenon DEF WriterStep, AppendLock, AppendInsert, AppendAbort
<1>5. ASSUME NEW a \in Anchorers, AnchorStep(a) PROVE RowsExtend'
  BY <1>3, <1>5, Zenon DEF AnchorStep, AnchorLoad, AnchorInsert, AnchorError, chainVars
<1>6. CASE RestartWithNewKey
  BY <1>3, <1>6, Zenon DEF RestartWithNewKey
<1>7. ASSUME NEW v \in Verifiers, VerifyStep(v) PROVE RowsExtend'
  BY <1>0, <1>3, <1>7, VerifyCases, Zenon DEF chainVars
<1>8. CASE UNCHANGED vars
  BY <1>3, <1>8, Zenon DEF vars
<1> QED
  BY <1>2, <1>4, <1>5, <1>6, <1>7, <1>8, Zenon DEF Next

LEMMA VerifyInit == Init => VerifyInv
<1> SUFFICES ASSUME Init PROVE VerifyInv
  BY Zenon
<1>1. RowsExtend
  BY Zenon DEF Init, RowsExtend
<1>2. \A v \in Verifiers : JobOK(ver[v])
  BY IdleJobOK, Zenon DEF Init
<1> QED
  BY <1>1, <1>2, AnchorInit DEF VerifyInv

LEMMA VerifyInvStep == VerifyInv /\ [Next]_vars => VerifyInv'
<1> SUFFICES ASSUME VerifyInv, [Next]_vars PROVE VerifyInv'
  BY Zenon
<1>0. /\ AnchorInv' /\ RowsExtend' /\ TypeOK /\ ChainInv
      /\ \A v \in Verifiers : JobOK(ver[v])
  BY AnchorStepInv, RowsExtendStep, Zenon DEF VerifyInv, AnchorInv, ChainInv
<1> SUFFICES ASSUME NEW v \in Verifiers PROVE JobOK(ver[v])'
  BY <1>0, Zenon DEF VerifyInv
<1>1. ASSUME NEW w \in Writers, WriterStep(w) PROVE JobOK(ver[v])'
  BY <1>0, <1>1, WriterGrows, JobFrame, Zenon DEF anchorVars
<1>2. ASSUME NEW a \in Anchorers, AnchorStep(a) PROVE JobOK(ver[v])'
  <2>1. rows' = rows /\ edited' = edited /\ ver' = ver /\ signerKey' = signerKey
    BY <1>2, Zenon DEF AnchorStep, AnchorLoad, AnchorInsert, AnchorError, chainVars
  <2>2. \/ anchors' = anchors
        \/ anchors' = Append(anchors, [head |-> anc[a].head, key |-> signerKey])
    BY <1>2, Zenon DEF AnchorStep, AnchorLoad, AnchorInsert, AnchorError
  <2>3. \A i \in DOMAIN anchors : i \in DOMAIN anchors' /\ anchors'[i] = anchors[i]
    <3>1. CASE anchors' = anchors
      BY <3>1, Zenon
    <3>2. CASE anchors' = Append(anchors, [head |-> anc[a].head, key |-> signerKey])
      BY <1>0, <3>2 DEF TypeOK
    <3> QED
      BY <2>2, <3>1, <3>2, Zenon
  <2>4. Grows
    BY <2>1, Zenon DEF Grows
  <2> QED
    BY <1>0, <2>1, <2>3, <2>4, JobFrame, Zenon
<1>3. CASE RestartWithNewKey
  <2>1. ver'[v] = IdleVerifyJob
    BY <1>3, Zenon DEF RestartWithNewKey
  <2>2. /\ IdleVerifyJob.pc = "idle" /\ IdleVerifyJob.firstBad = 0
        /\ IdleVerifyJob.anchorErr = "none"
    BY Zenon DEF IdleVerifyJob
  <2> QED
    BY <2>1, <2>2, Zenon DEF JobOK, WalkOK, ResultOK, HistoryOK
<1>4. ASSUME NEW u \in Verifiers, VerifyStep(u) PROVE JobOK(ver[v])'
  <2>1. /\ rows' = rows /\ edited' = edited /\ anchors' = anchors
        /\ signerKey' = signerKey
        /\ u # v => ver'[v] = ver[v]
    BY <1>0, <1>4, VerifyCases, Zenon DEF chainVars, anchorVars
  <2>2. CASE u # v
    BY <1>0, <2>1, <2>2, JobFrame, Zenon DEF Grows
  <2>3. CASE u = v
    <3>1. JobOK(ver'[v])
      BY <1>4, <2>3, JobStep, Zenon
    <3> QED
      BY <2>1, <3>1, Zenon DEF JobOK, WalkOK, ResultOK, HistoryOK, OnChain, IsHistory,
                        Extends, ForeignAnchor
  <2> QED
    BY <2>2, <2>3, Zenon
<1>5. CASE EditRow
  BY <1>0, <1>5, EditGrows, JobFrame, Zenon DEF anchorVars
<1>6. CASE UNCHANGED vars
  BY <1>0, <1>6, JobFrame, Zenon DEF vars, Grows
<1> QED
  BY <1>1, <1>2, <1>3, <1>4, <1>5, <1>6, Zenon DEF Next

\* Verifier.Run only ever names an edited row as the first bad one, whatever
\* is appended between its batches.
THEOREM FirstBadCorrect == Spec => []FirstBadIsReal
<1>1. VerifyInv => FirstBadIsReal
  BY Zenon DEF VerifyInv, JobOK, FirstBadIsReal
<1> QED
  BY <1>1, VerifyInit, VerifyInvStep, PTL DEF Spec

\* What a walk ends with extends the head it started from, so a log nobody
\* edited can differ from it only by rows appended during the pass.
THEOREM ExtendsCorrect == Spec => []ComputedExtendsHead
<1>1. VerifyInv => ComputedExtendsHead
  BY Zenon DEF VerifyInv, JobOK, ResultOK, Extends, ComputedExtendsHead
<1> QED
  BY <1>1, VerifyInit, VerifyInvStep, PTL DEF Spec

\* verifyAnchor misses an anchored head only in a log somebody edited, and
\* rejects a signature only when an anchor was signed with another key.
THEOREM AlarmCorrect == Spec => []AnchorAlarmIsReal
<1>1. VerifyInv => AnchorAlarmIsReal
  BY Zenon DEF VerifyInv, JobOK, HistoryOK, ForeignAnchor, AnchorAlarmIsReal
<1> QED
  BY <1>1, VerifyInit, VerifyInvStep, PTL DEF Spec

\* A pass of the verify job that starts after an edit reports the chain as
\* broken, for any number of writers, rows and concurrent passes.
THEOREM DetectionCorrect == Spec => []EditDetected
<1>1. VerifyInv => EditDetected
  BY Zenon DEF VerifyInv, JobOK, ResultOK, EditDetected
<1> QED
  BY <1>1, VerifyInit, VerifyInvStep, PTL DEF Spec

-----------------------------------------------------------------------------
(* Refinement: the stored head is an append-only log, the anchors are      *)
(* prefixes of it.                                                         *)

PrefixOfHead(h) == \E n \in 0..Len(head) : h = SubSeq(head, 1, n)

RefInv ==
    /\ ChainInv
    /\ \A a \in Anchorers : PrefixOfHead(anc[a].head)

LEMMA PrefixGrows ==
    ASSUME NEW h \in Hashes, NEW e \in Payloads, NEW n \in 0..Len(h)
    PROVE  /\ n \in 0..Len(Append(h, e))
           /\ SubSeq(h, 1, n) = SubSeq(Append(h, e), 1, n)
BY DEF Hashes

LEMMA GenesisIsPrefix ==
    ASSUME head \in Hashes
    PROVE  PrefixOfHead(Genesis)
<1>1. 0 \in 0..Len(head) /\ SubSeq(head, 1, 0) = <<>>
  BY DEF Hashes
<1> QED
  BY <1>1, Zenon DEF PrefixOfHead, Genesis

LEMMA HeadIsPrefix ==
    ASSUME head \in Hashes
    PROVE  PrefixOfHead(head)
<1>1. Len(head) \in 0..Len(head) /\ SubSeq(head, 1, Len(head)) = head
  BY DEF Hashes
<1> QED
  BY <1>1, Zenon DEF PrefixOfHead

LEMMA CommitAppends ==
    ASSUME ChainInv, NEW w \in Writers, AppendCommit(w)
    PROVE  \E e \in Payloads : head' = Append(head, e)
<1>1. wr[w].event \in Events /\ wr[w].prev = head
  BY Zenon DEF AppendCommit, ChainInv, HolderKnowsHead
<1>2. Payload(wr[w].event) \in Payloads
  BY <1>1, Zenon DEF Payloads
<1> QED
  BY <1>1, <1>2, Zenon DEF AppendCommit, HashOf

LEMMA RefStep == RefInv /\ [Next]_vars => RefInv'
<1> SUFFICES ASSUME RefInv, [Next]_vars PROVE RefInv'
  BY Zenon
<1>0. ChainInv /\ ChainInv' /\ TypeOK /\ TypeOK'
  BY ChainStep, Zenon DEF RefInv, ChainInv
<1>f. ASSUME UNCHANGED <<head, anc>> PROVE RefInv'
  BY <1>0, <1>f, Zenon DEF RefInv, PrefixOfHead
<1>g. ASSUME UNCHANGED head,
             \A a \in Anchorers : anc'[a].head \in {anc[a].head, Genesis, head}
      PROVE  RefInv'
  <2>1. head \in Hashes
    BY <1>0, Zenon DEF TypeOK
  <2>2. \A a \in Anchorers : PrefixOfHead(anc'[a].head)
    BY <1>g, <2>1, GenesisIsPrefix, HeadIsPrefix, Zenon DEF RefInv
  <2> QED
    BY <1>0, <1>g, <2>2, Zenon DEF RefInv, PrefixOfHead
<1>1. ASSUME NEW w \in Writers, WriterStep(w) PROVE RefInv'
  <2>1. CASE AppendCommit(w)
    <3>1. PICK e \in Payloads : head' = Append(head, e)
      BY <1>0, <2>1, CommitAppends, Zenon DEF ChainInv
    <3>2. head \in Hashes /\ anc' = anc
      BY <1>0, <2>1, Zenon DEF AppendCommit, TypeOK, anchorVars
    <3>3. ASSUME NEW a \in Anchorers PROVE PrefixOfHead(anc[a].head)'
      <4>1. PICK n \in 0..Len(head) : anc[a].head = SubSeq(head, 1, n)
        BY Zenon DEF RefInv, PrefixOfHead
      <4> QED
        BY <3>1, <3>2, <4>1, PrefixGrows, Zenon DEF PrefixOfHead
    <3> QED
      BY <1>0, <3>3, Zenon DEF RefInv
  <2>2. CASE ~AppendCommit(w)
    BY <1>1, <1>f, <2>2, Zenon DEF WriterStep, AppendLock, AppendInsert, AppendAbort,
                            anchorVars
  <2> QED
    BY <2>1, <2>2, Zenon
<1>2. ASSUME NEW a \in Anchorers, AnchorStep(a) PROVE RefInv'
  <2>1. UNCHANGED head
    BY <1>2, Zenon DEF AnchorStep, AnchorLoad, AnchorInsert, AnchorError, chainVars
  <2>2. \A b \in Anchorers : anc'[b].head \in {anc[b].head, Genesis, head}
    <3>1. CASE AnchorLoad(a)
      BY <1>0, <3>1, Zenon DEF AnchorLoad, TypeOK
    <3>2. CASE AnchorInsert(a) \/ AnchorError(a)
      <4>1. anc' = [anc EXCEPT ![a] = IdleAnchorJob]
        BY <3>2, Zenon DEF AnchorInsert, AnchorError
      <4> QED
        BY <1>0, <4>1, Zenon DEF TypeOK, IdleAnchorJob
    <3> QED
      BY <1>2, <3>1, <3>2, Zenon DEF AnchorStep
  <2> QED
    BY <1>g, <2>1, <2>2, Zenon
<1>3. CASE RestartWithNewKey
  <2>1. \A b \in Anchorers : anc'[b].head = Genesis
    BY <1>3, Zenon DEF RestartWithNewKey, IdleAnchorJob
  <2> QED
    BY <1>3, <1>g, <2>1, Zenon DEF RestartWithNewKey
<1>4. ASSUME NEW v \in Verifiers, VerifyStep(v) PROVE RefInv'
  BY <1>4, <1>f, Zenon
     DEF VerifyStep, VerifyStart, VerifyRow, VerifyEnd, VerifyAnchor, HistoryRow,
         HistoryEnd, VerifyError, AnchorCheckError, chainVars, anchorVars
<1>5. CASE EditRow
  BY <1>5, <1>f, Zenon DEF EditRow, anchorVars
<1>6. CASE UNCHANGED vars
  BY <1>6, <1>f, Zenon DEF vars
<1> QED
  BY <1>1, <1>2, <1>3, <1>4, <1>5, <1>6, Zenon DEF Next

Anchored == {anchors[i].head : i \in DOMAIN anchors}

LEMMA LogStep ==
    RefInv /\ [Next]_vars => [Log!LogNext]_<<head, Anchored>>
<1> SUFFICES ASSUME RefInv, [Next]_vars
             PROVE  Log!LogNext \/ UNCHANGED <<head, Anchored>>
  BY Zenon
<1>0. TypeOK
  BY Zenon DEF RefInv, ChainInv
<1>f. ASSUME UNCHANGED <<head, anchors>> PROVE UNCHANGED <<head, Anchored>>
  BY <1>f, Zenon DEF Anchored
<1>1. ASSUME NEW w \in Writers, AppendCommit(w) PROVE Log!LogNext
  <2>1. \E e \in Payloads : head' = Append(head, e)
    BY <1>1, CommitAppends, Zenon DEF RefInv
  <2>2. anchors' = anchors
    BY <1>1, Zenon DEF AppendCommit, anchorVars
  <2> QED
    BY <2>1, <2>2, Zenon DEF Log!LogNext, Log!Record
<1>2. ASSUME NEW a \in Anchorers, AnchorInsert(a) PROVE Log!LogNext
  <2>1. /\ head' = head
        /\ anchors' = Append(anchors, [head |-> anc[a].head, key |-> signerKey])
    BY <1>2, Zenon DEF AnchorInsert, chainVars
  <2>2. Anchored' = Anchored \cup {anc[a].head}
    <3> DEFINE last == Len(anchors) + 1
    <3>1. /\ DOMAIN anchors' = DOMAIN anchors \cup {last}
          /\ \A i \in DOMAIN anchors : anchors'[i] = anchors[i]
          /\ anchors'[last].head = anc[a].head
      <4> DEFINE new == [head |-> anc[a].head, key |-> signerKey]
      <4>1. PICK S : anchors \in Seq(S)
        BY <1>0, Zenon DEF TypeOK
      <4>2. new.head = anc[a].head
        BY Zenon
      <4>3. anchors' = Append(anchors, new)
        BY <2>1, Zenon
      <4> HIDE DEF new
      <4> QED
        BY <4>1, <4>2, <4>3
    <3>2. ASSUME NEW h PROVE h \in Anchored' <=> h \in Anchored \/ h = anc[a].head
      <4> HIDE DEF last
      <4> QED
        BY <3>1, Zenon DEF Anchored
    <3> QED
      BY <3>2, Zenon
  <2>3. PICK n \in 0..Len(head) : anc[a].head = SubSeq(head, 1, n)
    BY Zenon DEF RefInv, PrefixOfHead
  <2> QED
    BY <2>1, <2>2, <2>3, Zenon DEF Log!LogNext, Log!SignPrefix, Anchored
<1>3. ASSUME NEW w \in Writers, WriterStep(w)
      PROVE  AppendCommit(w) \/ UNCHANGED <<head, anchors>>
  BY <1>3, Zenon DEF WriterStep, AppendLock, AppendInsert, AppendAbort, anchorVars
<1>4. ASSUME NEW a \in Anchorers, AnchorStep(a)
      PROVE  AnchorInsert(a) \/ UNCHANGED <<head, anchors>>
  BY <1>4, Zenon DEF AnchorStep, AnchorLoad, AnchorError, chainVars
<1>5. ASSUME NEW v \in Verifiers, VerifyStep(v)
      PROVE  UNCHANGED <<head, anchors>>
  BY <1>5, Zenon
     DEF VerifyStep, VerifyStart, VerifyRow, VerifyEnd, VerifyAnchor, HistoryRow,
         HistoryEnd, VerifyError, AnchorCheckError, chainVars, anchorVars
<1>6. CASE RestartWithNewKey \/ EditRow \/ UNCHANGED vars
  BY <1>6, <1>f, Zenon DEF RestartWithNewKey, EditRow, anchorVars, vars
<1> QED
  BY <1>1, <1>2, <1>3, <1>4, <1>5, <1>6, <1>f, Zenon DEF Next

\* The tables, locks and jobs implement the append-only log: a commit of
\* Writer.Append is the only step that changes what the head commits to, and
\* it records one event; an anchor row signs a prefix.
THEOREM RefinesLog == Spec => ImplementsLog
<1>1. Init => RefInv /\ Log!LogInit
  <2> SUFFICES ASSUME Init PROVE RefInv /\ Log!LogInit
    BY Zenon
  <2>1. ChainInv /\ head \in Hashes
    BY ChainInit, Zenon DEF ChainInv, TypeOK
  <2>2. RefInv
    BY <2>1, GenesisIsPrefix, Zenon DEF Init, RefInv, IdleAnchorJob
  <2>3. Log!LogInit
    BY DEF Init, Log!LogInit, Genesis
  <2> QED
    BY <2>2, <2>3, Zenon
<1>2. RefInv /\ [Next]_vars =>
         [Log!LogNext]_<<head, {anchors[i].head : i \in DOMAIN anchors}>>
  BY LogStep, Zenon DEF Anchored
<1> QED
  BY <1>1, <1>2, RefStep, PTL DEF Spec, ImplementsLog, Log!LogSpec

-----------------------------------------------------------------------------
(* The reader.  PagesAreComplete speaks of the walk that is over.  While   *)
(* it is under way, every row that is owed has been shown or is still to   *)
(* be found below the cursor, and nothing shown is below the cursor.       *)

AuditEntry == [id : Nat, action : ActionNames \cup {Unspecified},
               agent : {c.agent : c \in Columns},
               metadata : {c.metadata : c \in Columns},
               created : {c.created : c \in Columns}]

Reader == [pc : {"idle", "list", "done"}, user : {e.user : e \in Events} \cup {Null},
           filter : Filters \cup {IdleReader.filter}, limit : AuditLimits \cup {0},
           cursor : Nat, seen : Seq(AuditEntry), owed : SUBSET Nat]

\* The ids shown, newest first.
Descending(s) == \A i, j \in DOMAIN s : i < j => s[i].id > s[j].id

\* Everything shown is at the cursor or above it.
CursorBelow ==
    reader.pc = "list" =>
        \A i \in DOMAIN reader.seen :
            reader.cursor # 0 /\ reader.seen[i].id >= reader.cursor

\* A row that is owed has been shown, or the pages to come will find it.
NothingSkipped ==
    \A i \in reader.owed \ edited :
        \/ \E n \in DOMAIN reader.seen : reader.seen[n].id = i
        \/ reader.pc = "list" /\ \E r \in rows : r.id = i /\ Listed(reader, r)

PagesInv ==
    /\ ChainInv
    /\ reader \in Reader
    /\ Descending(reader.seen)
    /\ CursorBelow
    /\ NothingSkipped

\* Whatever limit is asked for, a page has room for a row.
LEMMA LimitPositive ==
    ASSUME NEW n \in Nat
    PROVE  Clamped(n, DefaultAuditLimit, MaxAuditLimit) \in Nat \ {0}
<1>1. Signed(n) \in Int
  <2> DEFINE half == 2^(Width - 1)
             all == 2^Width
  <2>1. half \in Nat /\ all \in Nat
    BY WidthAssumption, Zenon
  <2> HIDE DEF half, all
  <2>2. (IF n >= half THEN n - all ELSE n) \in Int
    BY <2>1
  <2> QED
    BY <2>2, Zenon DEF half, all, Signed
<1> HIDE DEF Signed
<1> QED
  BY <1>1, LimitsAssumption DEF Clamped

\* What an answer of the query is.
LEMMA PageFacts ==
    ASSUME NEW q, NEW n \in Nat, NEW page \in ListAuditEntries(q, n)
    PROVE  /\ page \in Seq(rows)
           /\ \A i \in DOMAIN page : Listed(q, page[i])
           /\ Descending(page)
           /\ \A r \in rows : Listed(q, r) =>
                \/ \E i \in DOMAIN page : page[i] = r
                \/ Len(page) = n /\ \A i \in DOMAIN page : r.id < page[i].id
<1> DEFINE found == {r \in rows : Listed(q, r)}
<1>1. PICK k \in 0 .. n : page \in [1 .. k -> found]
  BY Zenon DEF ListAuditEntries
<1>2. /\ \A i, j \in DOMAIN page : i < j => page[i].id > page[j].id
      /\ \A r \in found \ {page[i] : i \in DOMAIN page} :
           Len(page) = n /\ \A s \in {page[i] : i \in DOMAIN page} : r.id < s.id
  BY Zenon DEF ListAuditEntries
<1>3. page \in Seq(rows) /\ \A i \in DOMAIN page : page[i] \in found
  BY <1>1
<1>4. ASSUME NEW r \in rows, Listed(q, r), ~ \E i \in DOMAIN page : page[i] = r
      PROVE  Len(page) = n /\ \A i \in DOMAIN page : r.id < page[i].id
  BY <1>2, <1>4, Zenon
<1> QED
  BY <1>2, <1>3, <1>4, Zenon DEF Descending

LEMMA EntryFacts ==
    ASSUME NEW r \in Row
    PROVE  toAuditEntry(r) \in AuditEntry /\ toAuditEntry(r).id = r.id
BY Zenon DEF toAuditEntry, fromModelAction, AuditEntry, Row

LEMMA IdleReaderType == IdleReader \in Reader
<1>1. <<>> \in Seq(AuditEntry)
  OBVIOUS
<1> QED
  BY <1>1, Zenon DEF IdleReader, Reader

LEMMA RowIds ==
    ASSUME TypeOK, IdsOrdered
    PROVE  \A r \in rows : r.id \in Nat \ {0}
<1>1. \A r \in rows : r \in Row
  BY Zenon DEF TypeOK
<1>2. \A r \in Row : r.id \in Nat
  BY Zenon DEF Row
<1>3. \A r \in rows : 0 < r.id
  BY Zenon DEF IdsOrdered
<1> QED
  BY <1>1, <1>2, <1>3

\* Rows stay as they are unless they are edited.
LEMMA RowsStay ==
    ASSUME [Next]_vars
    PROVE  /\ edited \subseteq edited'
           /\ \A r \in rows : r.id \notin edited' => r \in rows'
<1>1. ASSUME NEW w \in Writers, WriterStep(w)
      PROVE  edited' = edited /\ rows \subseteq rows'
  BY <1>1, Zenon DEF WriterStep, AppendLock, AppendInsert, AppendCommit, AppendAbort
<1>2. ASSUME NEW a \in Anchorers, AnchorStep(a)
      PROVE  edited' = edited /\ rows' = rows
  BY <1>2, Zenon DEF AnchorStep, AnchorLoad, AnchorInsert, AnchorError, chainVars
<1>3. CASE RestartWithNewKey
  BY <1>3, Zenon DEF RestartWithNewKey
<1>4. ASSUME NEW v \in Verifiers, VerifyStep(v)
      PROVE  edited' = edited /\ rows' = rows
  BY <1>4, Zenon
     DEF VerifyStep, VerifyStart, VerifyRow, VerifyEnd, VerifyAnchor, HistoryRow,
         HistoryEnd, VerifyError, AnchorCheckError, chainVars
<1>5. CASE EditRow
  BY <1>5, Zenon DEF EditRow
<1>6. CASE UNCHANGED vars
  BY <1>6, Zenon DEF vars
<1> QED
  BY <1>1, <1>2, <1>3, <1>4, <1>5, <1>6, Zenon DEF Next

\* A page is added to what is shown.
Entries(page) == [i \in DOMAIN page |-> toAuditEntry(page[i])]

LEMMA ShownMore ==
    ASSUME NEW s \in Seq(AuditEntry), NEW page \in Seq(Row)
    PROVE  /\ s \o Entries(page) \in Seq(AuditEntry)
           /\ Len(s \o Entries(page)) = Len(s) + Len(page)
           /\ \A i \in 1 .. Len(s) : (s \o Entries(page))[i] = s[i]
           /\ \A i \in 1 .. Len(page) : (s \o Entries(page))[Len(s) + i].id = page[i].id
<1> DEFINE more == Entries(page)
<1>1. /\ more \in Seq(AuditEntry) /\ Len(more) = Len(page)
      /\ \A i \in 1 .. Len(page) : more[i].id = page[i].id
  <2>1. DOMAIN page = 1 .. Len(page) /\ Len(page) \in Nat
    OBVIOUS
  <2>2. ASSUME NEW i \in 1 .. Len(page)
        PROVE  toAuditEntry(page[i]) \in AuditEntry /\ toAuditEntry(page[i]).id = page[i].id
    BY <2>1, EntryFacts
  <2> QED
    BY <2>1, <2>2 DEF Entries
<1> HIDE DEF more
<1> DEFINE t == s \o more
<1>2. t \in Seq(AuditEntry) /\ Len(t) = Len(s) + Len(more)
  BY <1>1, ConcatProperties, Zenon
<1>3. \A i \in 1 .. (Len(s) + Len(more)) :
         t[i] = IF i <= Len(s) THEN s[i] ELSE more[i - Len(s)]
  BY <1>1, ConcatProperties
<1> HIDE DEF t
<1>4. /\ t \in Seq(AuditEntry)
      /\ Len(t) = Len(s) + Len(page)
      /\ \A i \in 1 .. Len(s) : t[i] = s[i]
      /\ \A i \in 1 .. Len(page) : t[Len(s) + i].id = page[i].id
  <2>1. Len(s) \in Nat /\ Len(page) \in Nat
    OBVIOUS
  <2>2. \A i \in 1 .. Len(page) : t[Len(s) + i] = more[i]
    <3> TAKE i \in 1 .. Len(page)
    <3>1. Len(s) + i \in 1 .. (Len(s) + Len(more)) /\ ~(Len(s) + i <= Len(s))
          /\ (Len(s) + i) - Len(s) = i
      BY <1>1, <2>1
    <3> QED
      BY <1>3, <3>1, Zenon
  <2>3. \A i \in 1 .. Len(s) : t[i] = s[i]
    BY <1>1, <1>3, <2>1
  <2> QED
    BY <1>1, <1>2, <2>2, <2>3, Zenon
<1> QED
  BY <1>4, Zenon DEF t, more

LEMMA LimitType ==
    ASSUME NEW n \in AuditLimits \cup {0}
    PROVE  n \in Nat
BY LimitsAssumption

\* An index past the first a of a + b places is one of the last b.
LEMMA InSecondPart ==
    ASSUME NEW a \in Nat, NEW b \in Nat, NEW n, n = a + b, NEW i \in 1 .. n, i > a
    PROVE  \E k \in 1 .. b : i = a + k
<1>1. i - a \in 1 .. b /\ i = a + (i - a)
  OBVIOUS
<1> QED
  BY <1>1, Zenon

LEMMA TurnKeepsPages ==
    ASSUME PagesInv, ListAudit
    PROVE  /\ reader' \in Reader
           /\ Descending(reader.seen)'
           /\ CursorBelow'
           /\ NothingSkipped'
<1> DEFINE n == Clamped(reader.limit, DefaultAuditLimit, MaxAuditLimit)
<1>1. /\ TypeOK /\ IdsOrdered /\ reader \in Reader /\ Descending(reader.seen)
      /\ CursorBelow /\ NothingSkipped
  BY Zenon DEF PagesInv, ChainInv
<1>2. /\ reader.pc = "list" /\ UNCHANGED <<rows, edited>>
      /\ \E page \in ListAuditEntries(reader, n) : reader' = Turned(page, n)
  BY Zenon DEF ListAudit, vars
<1>3. PICK page \in ListAuditEntries(reader, n) : reader' = Turned(page, n)
  BY <1>2, Zenon
<1>4. n \in Nat \ {0}
  <2>1. reader.limit \in Nat
    <3>1. reader.limit \in AuditLimits \cup {0}
      BY <1>1, Zenon DEF Reader
    <3> QED
      BY <3>1, LimitType, Zenon
  <2> QED
    BY <2>1, LimitPositive, Zenon
<1> HIDE DEF n
<1>5. /\ page \in Seq(rows)
      /\ \A i \in DOMAIN page : Listed(reader, page[i])
      /\ Descending(page)
      /\ \A r \in rows : Listed(reader, r) =>
           \/ \E i \in DOMAIN page : page[i] = r
           \/ Len(page) = n /\ \A i \in DOMAIN page : r.id < page[i].id
  BY <1>4, PageFacts, Zenon
<1>6. page \in Seq(Row) /\ \A i \in 1 .. Len(page) : page[i] \in rows
  BY <1>1, <1>5 DEF TypeOK
<1> DEFINE full == Len(page) = n /\ Len(page) > 0
           seen == reader.seen
           seenP == seen \o Entries(page)
           low == IF full THEN page[Len(page)].id ELSE reader.cursor
<1>7. /\ reader'.pc = IF full THEN "list" ELSE "done"
      /\ reader'.cursor = low
      /\ reader'.seen = seenP
      /\ reader'.user = reader.user /\ reader'.filter = reader.filter
      /\ reader'.owed = reader.owed
      /\ reader' = [reader EXCEPT !.pc = reader'.pc, !.cursor = low, !.seen = seenP]
  BY <1>1, <1>2, <1>3, Zenon DEF Turned, Reader, Entries
<1>8. seen \in Seq(AuditEntry)
  BY <1>1, Zenon DEF Reader
<1>9. /\ seenP \in Seq(AuditEntry) /\ Len(seenP) = Len(seen) + Len(page)
      /\ \A i \in 1 .. Len(seen) : seenP[i] = seen[i]
      /\ \A i \in 1 .. Len(page) : seenP[Len(seen) + i].id = page[i].id
  BY <1>6, <1>8, ShownMore, Zenon
<1> HIDE DEF full, seen, seenP, low
\* Every row of the page is below the cursor, and so below all that was shown.
<1>10. /\ \A i \in 1 .. Len(page) : page[i].id \in Nat \ {0}
       /\ \A i \in 1 .. Len(page) : reader.cursor # 0 => page[i].id < reader.cursor
       /\ \A i, j \in 1 .. Len(page) : i < j => page[i].id > page[j].id
  <2>1. \A i \in 1 .. Len(page) : page[i].id \in Nat \ {0}
    BY <1>1, <1>6, RowIds, Zenon
  <2>2. DOMAIN page = 1 .. Len(page)
    BY <1>6
  <2> QED
    BY <1>5, <2>1, <2>2, Zenon DEF Listed, Descending
<1>11. /\ \A i \in 1 .. Len(seen) : /\ reader.cursor # 0
                                    /\ seen[i].id \in Nat
                                    /\ seen[i].id >= reader.cursor
       /\ \A i, j \in 1 .. Len(seen) : i < j => seen[i].id > seen[j].id
       /\ reader.cursor \in Nat
  <2>1. DOMAIN seen = 1 .. Len(seen) /\ \A i \in 1 .. Len(seen) : seen[i] \in AuditEntry
    BY <1>8
  <2>2. \A i \in 1 .. Len(seen) : seen[i].id \in Nat
    BY <2>1, Zenon DEF AuditEntry
  <2>3. reader.cursor \in Nat
    BY <1>1, Zenon DEF Reader
  <2> QED
    BY <1>1, <1>2, <2>1, <2>2, <2>3, Zenon DEF CursorBelow, Descending, seen
<1>12. Len(page) \in Nat /\ Len(seen) \in Nat
  BY <1>6, <1>8
<1>t. \A i \in 1 .. Len(seenP) : i > Len(seen) =>
        \E a \in 1 .. Len(page) : i = Len(seen) + a
  <2>1. Len(seenP) = Len(seen) + Len(page)
    BY <1>9, Zenon
  <2> QED
    BY <1>12, <2>1, InSecondPart
<1>13. /\ low \in Nat
       /\ full => low = page[Len(page)].id /\ Len(page) \in 1 .. Len(page)
  BY <1>10, <1>11, <1>12 DEF low, full
<1>14. reader' \in Reader
  <2>1. reader'.pc \in {"idle", "list", "done"}
    BY <1>7, Zenon
  <2> QED
    BY <1>1, <1>7, <1>9, <1>13, <2>1, Zenon DEF Reader
<1>15. \A i, j \in 1 .. Len(seenP) : i < j => seenP[i].id > seenP[j].id
  <2> SUFFICES ASSUME NEW i \in 1 .. Len(seenP), NEW j \in 1 .. Len(seenP), i < j
               PROVE  seenP[i].id > seenP[j].id
    BY Zenon
  <2>1. CASE j <= Len(seen)
    <3>1. i \in 1 .. Len(seen) /\ j \in 1 .. Len(seen)
      BY <1>12, <2>1
    <3>2. seen[i].id > seen[j].id
      BY <1>11, <3>1, Zenon
    <3> QED
      BY <1>9, <3>1, <3>2, Zenon
  <2>2. CASE j > Len(seen)
    <3>1. PICK b \in 1 .. Len(page) : j = Len(seen) + b
      BY <2>2, <1>t, Zenon
    <3>2. CASE i <= Len(seen)
      <4>1. i \in 1 .. Len(seen)
        BY <1>12, <3>2
      <4>2. seenP[i].id = seen[i].id /\ seenP[j].id = page[b].id
        BY <1>9, <3>1, <4>1, Zenon
      <4>3. /\ seen[i].id \in Nat /\ seen[i].id >= reader.cursor
            /\ page[b].id \in Nat /\ page[b].id < reader.cursor
            /\ reader.cursor \in Nat
        BY <1>10, <1>11, <4>1, Zenon
      <4> QED
        BY <4>2, <4>3
    <3>3. CASE i > Len(seen)
      <4>1. PICK a \in 1 .. Len(page) : i = Len(seen) + a
        BY <3>3, <1>t, Zenon
      <4>2. a < b
        BY <1>12, <3>1, <4>1
      <4> QED
        BY <1>9, <1>10, <3>1, <4>1, <4>2, Zenon
    <3> QED
      BY <1>12, <3>2, <3>3
  <2> QED
    BY <1>12, <2>1, <2>2
<1>16. ASSUME full, NEW i \in 1 .. Len(seenP)
       PROVE  low # 0 /\ seenP[i].id >= low
  <2>1. low = page[Len(page)].id /\ Len(page) \in 1 .. Len(page) /\ low \in Nat \ {0}
    BY <1>10, <1>13, <1>16, Zenon
  <2>2. CASE i <= Len(seen)
    <3>1. i \in 1 .. Len(seen)
      BY <1>12, <2>2
    <3>2. /\ seen[i].id \in Nat /\ seen[i].id >= reader.cursor
          /\ low < reader.cursor /\ reader.cursor \in Nat
      BY <1>10, <1>11, <2>1, <3>1, Zenon
    <3>3. seen[i].id >= low
      BY <2>1, <3>2
    <3> QED
      BY <1>9, <2>1, <3>1, <3>3, Zenon
  <2>3. CASE i > Len(seen)
    <3>1. PICK a \in 1 .. Len(page) : i = Len(seen) + a
      BY <2>3, <1>t, Zenon
    <3>2. seenP[i].id = page[a].id /\ page[a].id \in Nat
      BY <1>9, <1>10, <3>1, Zenon
    <3>3. CASE a = Len(page)
      BY <2>1, <3>2, <3>3
    <3>4. CASE a < Len(page)
      <4>1. page[a].id > page[Len(page)].id
        BY <1>10, <2>1, <3>4, Zenon
      <4> QED
        BY <2>1, <3>2, <4>1
    <3> QED
      BY <1>12, <2>1, <3>3, <3>4
  <2> QED
    BY <1>12, <2>2, <2>3
<1>17. DOMAIN seenP = 1 .. Len(seenP) /\ DOMAIN page = 1 .. Len(page)
       /\ DOMAIN seen = 1 .. Len(seen)
  BY <1>6, <1>8, <1>9
<1>18. Descending(reader.seen)' /\ CursorBelow'
  BY <1>7, <1>15, <1>16, <1>17, Zenon DEF Descending, CursorBelow
\* What was owed and is not shown yet is on the page, or below its last row.
<1>19. ASSUME NEW i \in reader.owed \ edited
       PROVE  \/ \E m \in 1 .. Len(seenP) : seenP[m].id = i
              \/ full /\ \E r \in rows : r.id = i /\ Listed(reader', r)
  <2>1. CASE \E m \in DOMAIN reader.seen : reader.seen[m].id = i
    <3>1. PICK m \in 1 .. Len(seen) : seen[m].id = i
      BY <1>17, <2>1, Zenon DEF seen
    <3>2. m \in 1 .. Len(seenP) /\ seenP[m].id = i
      BY <1>9, <1>12, <3>1
    <3> QED
      BY <3>2, Zenon
  <2>2. ASSUME NEW r \in rows, r.id = i, Listed(reader, r)
        PROVE  \/ \E m \in 1 .. Len(seenP) : seenP[m].id = i
               \/ full /\ Listed(reader', r)
    <3>1. ASSUME NEW k \in DOMAIN page, page[k] = r
          PROVE  \E m \in 1 .. Len(seenP) : seenP[m].id = i
      <4>1. k \in 1 .. Len(page) /\ seenP[Len(seen) + k].id = i
        BY <1>9, <1>17, <2>2, <3>1, Zenon
      <4>2. Len(seen) + k \in 1 .. Len(seenP)
        BY <1>9, <1>12, <4>1
      <4> QED
        BY <4>1, <4>2, Zenon
    <3>2. ASSUME Len(page) = n, \A k \in DOMAIN page : r.id < page[k].id
          PROVE  full /\ Listed(reader', r)
      <4>1. full
        BY <1>4, <3>2 DEF full
      <4>2. r.id < low
        BY <1>13, <1>17, <3>2, <4>1, Zenon
      <4> QED
        BY <1>7, <2>2, <4>1, <4>2, Zenon DEF Listed
    <3> QED
      BY <1>5, <2>2, <3>1, <3>2, Zenon
  <2> QED
    BY <1>1, <2>1, <2>2, Zenon DEF NothingSkipped
<1>20. NothingSkipped'
  BY <1>2, <1>7, <1>17, <1>19, Zenon DEF NothingSkipped
<1> QED
  BY <1>14, <1>18, <1>20, Zenon

LEMMA StartKeepsPages ==
    ASSUME PagesInv, StartReading
    PROVE  /\ reader' \in Reader
           /\ Descending(reader.seen)'
           /\ CursorBelow'
           /\ NothingSkipped'
<1>1. TypeOK
  BY Zenon DEF PagesInv, ChainInv
<1>2. PICK e \in Events, f \in Filters, n \in AuditLimits :
         LET q == [IdleReader EXCEPT !.user = e.user, !.filter = f, !.limit = n]
         IN  /\ reader' = [q EXCEPT !.pc = "list",
                                    !.owed = {r.id : r \in {x \in rows : Listed(q, x)}}]
             /\ UNCHANGED vars
  BY ZenonT(40) DEF StartReading
<1> DEFINE q == [IdleReader EXCEPT !.user = e.user, !.filter = f, !.limit = n]
           owed == {r.id : r \in {x \in rows : Listed(q, x)}}
<1>3. q \in Reader /\ q.cursor = 0 /\ q.seen = <<>>
  <2>1. IdleReader.cursor = 0 /\ IdleReader.seen = <<>>
    BY Zenon DEF IdleReader
  <2>2. e.user \in {x.user : x \in Events} \cup {Null}
    BY Zenon
  <2> HIDE DEF IdleReader
  <2> QED
    BY <2>1, <2>2, IdleReaderType, Zenon DEF Reader
<1>4. owed \in SUBSET Nat
  BY <1>1, Zenon DEF TypeOK, Row
<1>5. reader' = [q EXCEPT !.pc = "list", !.owed = owed] /\ UNCHANGED <<rows, edited>>
  BY <1>2, Zenon DEF vars
<1>6. ASSUME NEW i \in owed PROVE \E r \in rows : r.id = i /\ Listed(q, r)
  BY <1>6, Zenon
<1> HIDE DEF q, owed
<1>7. /\ reader'.pc = "list" /\ reader'.user = q.user /\ reader'.filter = q.filter
      /\ reader'.cursor = q.cursor /\ reader'.seen = <<>> /\ reader'.owed = owed
  BY <1>3, <1>5, Zenon DEF Reader
<1>8. reader' \in Reader
  BY <1>3, <1>4, <1>5, Zenon DEF Reader
<1>9. Descending(reader.seen)' /\ CursorBelow'
  BY <1>7 DEF Descending, CursorBelow
<1>10. NothingSkipped'
  <2>1. \A r \in rows : Listed(q, r) => Listed(reader', r)
    BY <1>7, Zenon DEF Listed
  <2> QED
    BY <1>5, <1>6, <1>7, <2>1, Zenon DEF NothingSkipped
<1> QED
  BY <1>8, <1>9, <1>10, Zenon

LEMMA PagesInit == ReaderInit => PagesInv
<1> SUFFICES ASSUME ReaderInit PROVE PagesInv
  BY Zenon
<1>1. ChainInv /\ reader = IdleReader
  BY ChainInit, Zenon DEF ReaderInit
<1>2. reader.seen = <<>> /\ reader.owed = {} /\ reader.pc = "idle"
  BY <1>1, Zenon DEF IdleReader
<1> QED
  BY <1>1, <1>2, IdleReaderType DEF PagesInv, Descending, CursorBelow, NothingSkipped

LEMMA PagesStep == PagesInv /\ [ReaderNext]_readerVars => PagesInv'
<1> SUFFICES ASSUME PagesInv, [ReaderNext]_readerVars PROVE PagesInv'
  BY Zenon
<1>1. ASSUME [Next]_vars, UNCHANGED reader PROVE PagesInv'
  <2>1. ChainInv'
    BY <1>1, ChainStep, Zenon DEF PagesInv
  <2>2. (reader \in Reader /\ Descending(reader.seen) /\ CursorBelow)'
    BY <1>1, Zenon DEF PagesInv, Descending, CursorBelow
  <2>3. NothingSkipped'
    <3> SUFFICES ASSUME NEW i \in reader.owed, i \notin edited'
                 PROVE  \/ \E n \in DOMAIN reader.seen : reader.seen[n].id = i
                        \/ /\ reader.pc = "list"
                           /\ \E r \in rows' : r.id = i /\ Listed(reader, r)
      BY <1>1 DEF NothingSkipped, Listed
    <3>1. i \in reader.owed \ edited
      BY <1>1, RowsStay, Zenon
    <3> QED
      BY <1>1, <3>1, RowsStay, Zenon DEF PagesInv, NothingSkipped
  <2> QED
    BY <2>1, <2>2, <2>3, Zenon DEF PagesInv
<1>2. ASSUME UNCHANGED vars PROVE ChainInv'
  BY <1>2, ChainStep, Zenon DEF PagesInv
<1>3. CASE StartReading
  BY <1>2, <1>3, StartKeepsPages, Zenon DEF StartReading, PagesInv
<1>4. CASE ListAudit
  BY <1>2, <1>4, TurnKeepsPages, Zenon DEF ListAudit, PagesInv
<1>5. CASE ListRefused \/ StopReading
  <2>1. reader' = IdleReader /\ UNCHANGED vars
    BY <1>5, Zenon DEF ListRefused, StopReading
  <2>2. reader'.seen = <<>> /\ reader'.owed = {} /\ reader'.pc = "idle"
    BY <2>1, Zenon DEF IdleReader
  <2> QED
    BY <1>2, <2>1, <2>2, IdleReaderType
    DEF PagesInv, Descending, CursorBelow, NothingSkipped
<1>6. CASE UNCHANGED readerVars
  BY <1>1, <1>6, Zenon DEF readerVars
<1> QED
  BY <1>1, <1>3, <1>4, <1>5, <1>6, Zenon DEF ReaderNext

\* A walk of ListAudit down the pages ends with every row that matched when it
\* began, in order and once, for every filter, limit and number of rows,
\* whatever Append commits meanwhile.
THEOREM PagesCorrect == ReaderSpec => []PagesAreComplete
<1>1. PagesInv => PagesAreComplete
  BY Zenon DEF PagesInv, PagesAreComplete, Descending, NothingSkipped
<1> QED
  BY <1>1, PagesInit, PagesStep, PTL DEF ReaderSpec

\* The reader only reads: beside it the chain behaves as without it, and all
\* that is proved of Spec holds.
THEOREM ReaderOnlyReads == ReaderSpec => Spec
<1>1. ReaderInit => Init
  BY Zenon DEF ReaderInit
<1>2. [ReaderNext]_readerVars => [Next]_vars
  BY Zenon DEF ReaderNext, StartReading, ListAudit, ListRefused, StopReading, readerVars
<1> QED
  BY <1>1, <1>2, PTL DEF ReaderSpec, Spec

-----------------------------------------------------------------------------
(* The query has an answer, and only one: ids are unique and there are     *)
(* finitely many.                                                          *)

LEMMA LeastNat ==
    ASSUME NEW T, T \subseteq Nat, T # {}
    PROVE  \E x \in T : \A y \in T : x <= y
<1> DEFINE R == OpToRel(<, Nat)
<1>1. IsWellFoundedOn(R, Nat)
  BY NatLessThanWellFounded, Zenon
<1>2. \A y \in Nat, x \in Nat : y < x => <<y, x>> \in R
  BY Zenon DEF OpToRel
<1> HIDE DEF R
<1>3. PICK x \in T : \A y \in T : ~(<<y, x>> \in R)
  BY <1>1, WFMin, Zenon
<1>4. ASSUME NEW y \in T PROVE x <= y
  <2>1. x \in Nat /\ y \in Nat /\ ~(y < x)
    BY <1>2, <1>3, Zenon
  <2> QED
    BY <2>1
<1> QED
  BY <1>4, Zenon

LEMMA GreatestNat ==
    ASSUME NEW T, NEW n \in Nat, T \subseteq 0 .. n, T # {}
    PROVE  \E x \in T : \A y \in T : y <= x
<1> DEFINE U == {n - y : y \in T}
<1>1. U \subseteq Nat /\ U # {}
  <2>1. \A y \in T : n - y \in Nat
    OBVIOUS
  <2> QED
    BY <2>1, Zenon
<1>2. PICK u \in U : \A v \in U : u <= v
  <2> HIDE DEF U
  <2> QED
    BY <1>1, LeastNat, Zenon
<1>3. PICK x \in T : u = n - x
  BY Zenon
<1>4. ASSUME NEW y \in T PROVE y <= x
  <2>1. n - y \in U /\ x \in 0 .. n /\ y \in 0 .. n
    BY Zenon
  <2>2. n - x <= n - y
    BY <1>2, <1>3, <2>1, Zenon
  <2> QED
    BY <2>1, <2>2
<1> QED
  BY <1>4, Zenon

LEMMA AnswerLength ==
    ASSUME NEW q, NEW n \in Nat, NEW page \in ListAuditEntries(q, n)
    PROVE  \E l \in 0 .. n : l = Len(page) /\ DOMAIN page = 1 .. l
<1> DEFINE found == {r \in rows : Listed(q, r)}
<1>1. PICK k \in 0 .. n : page \in [1 .. k -> found]
  BY Zenon DEF ListAuditEntries
<1> HIDE DEF found
<1>2. DOMAIN page = 1 .. k /\ page \in Seq(found)
  BY <1>1
<1>3. Len(page) = k
  BY <1>2, <1>1, LenProperties
<1> QED
  BY <1>2, <1>3, Zenon

\* What the query relies on: ids are numbers, unique and bounded.
UniqueIds(top) ==
    /\ \A r \in rows : r.id \in Nat /\ r.id <= top
    /\ \A r, s \in rows : r.id = s.id => r = s

\* Two answers that agree below d do not part at d in the second's favour.
LEMMA AnswersAgree ==
    ASSUME NEW top \in Nat, UniqueIds(top), NEW q, NEW n \in Nat,
           NEW p1 \in ListAuditEntries(q, n), NEW p2 \in ListAuditEntries(q, n),
           NEW d \in DOMAIN p1,
           \A i \in 1 .. d - 1 : i \in DOMAIN p2 /\ p1[i] = p2[i]
    PROVE  d \in DOMAIN p2 /\ p1[d].id <= p2[d].id
<1>1. PICK l1 \in 0 .. n : l1 = Len(p1) /\ DOMAIN p1 = 1 .. l1
  BY AnswerLength
<1>2. PICK l2 \in 0 .. n : l2 = Len(p2) /\ DOMAIN p2 = 1 .. l2
  BY AnswerLength
<1>3. \A i \in 1 .. l1 : p1[i] \in rows /\ Listed(q, p1[i]) /\ p1[i].id \in Nat
  BY <1>1, PageFacts, ElementOfSeq, Zenon DEF UniqueIds
<1>4. \A i \in 1 .. l2 : p2[i] \in rows /\ p2[i].id \in Nat
  BY <1>2, PageFacts, ElementOfSeq, Zenon DEF UniqueIds
<1>5. \A i, j \in 1 .. l1 : i < j => p1[i].id > p1[j].id
  BY <1>1, PageFacts, Zenon DEF Descending
<1>6. \A i, j \in 1 .. l2 : i < j => p2[i].id > p2[j].id
  BY <1>2, PageFacts, Zenon DEF Descending
<1>7. d \in 1 .. l1
  BY <1>1, Zenon
<1>8. \/ \E j \in 1 .. l2 : p2[j] = p1[d]
      \/ l2 = n /\ \A j \in 1 .. l2 : p1[d].id < p2[j].id
  BY <1>2, <1>3, <1>7, PageFacts
<1>9. \A j \in 1 .. d - 1 : j \in 1 .. l2 /\ p2[j].id > p1[d].id
  <2> TAKE j \in 1 .. d - 1
  <2>1. j \in 1 .. l2 /\ p1[j] = p2[j] /\ j \in 1 .. l1 /\ j < d
    BY <1>2, <1>7
  <2> QED
    BY <2>1, <1>5, <1>7, Zenon
<1>10. d <= l2
  <2>1. SUFFICES ASSUME l2 < d PROVE FALSE
    BY <1>7
  <2>2. \A j \in 1 .. l2 : j \in 1 .. d - 1
    BY <2>1, <1>7
  <2>3. ~ \E j \in 1 .. l2 : p2[j] = p1[d]
    BY <2>2, <1>9, <1>3, <1>7
  <2> QED
    BY <2>3, <1>8, <2>1, <1>7
<1>11. p1[d].id <= p2[d].id
  <2>1. d \in 1 .. l2 /\ p2[d].id \in Nat /\ p1[d].id \in Nat
    BY <1>10, <1>7, <1>4, <1>3
  <2>2. CASE \A j \in 1 .. l2 : p1[d].id < p2[j].id
    BY <2>1, <2>2
  <2>3. CASE \E j \in 1 .. l2 : p2[j] = p1[d]
    <3>1. PICK j \in 1 .. l2 : p2[j] = p1[d]
      BY <2>3, Zenon
    <3>2. ~(j < d)
      BY <3>1, <1>9, <2>1, <1>7
    <3>3. j = d \/ d < j
      BY <3>2, <2>1
    <3> QED
      BY <3>1, <3>3, <1>6, <2>1
  <2> QED
    BY <2>2, <2>3, <1>8, Zenon
<1> QED
  BY <1>10, <1>11, <1>7, <1>2

LEMMA AnswerUnique ==
    ASSUME NEW top \in Nat, UniqueIds(top), NEW q, NEW n \in Nat,
           NEW p1 \in ListAuditEntries(q, n), NEW p2 \in ListAuditEntries(q, n)
    PROVE  p1 = p2
<1> DEFINE D == {i \in Nat : /\ i \in DOMAIN p1 \cup DOMAIN p2
                             /\ ~(i \in DOMAIN p1 /\ i \in DOMAIN p2 /\ p1[i] = p2[i])}
<1>1. PICK l1 \in 0 .. n : l1 = Len(p1) /\ DOMAIN p1 = 1 .. l1
  BY AnswerLength
<1>2. PICK l2 \in 0 .. n : l2 = Len(p2) /\ DOMAIN p2 = 1 .. l2
  BY AnswerLength
<1>3. D = {}
  <2>1. SUFFICES ASSUME D # {} PROVE FALSE
    BY Zenon
  <2>2. PICK d \in D : \A i \in D : d <= i
    <3>1. D \subseteq Nat
      BY Zenon
    <3> HIDE DEF D
    <3> QED
      BY <3>1, <2>1, LeastNat, Zenon
  <2>3. d \in Nat \ {0}
    BY <1>1, <1>2
  <2>4. \A i \in 1 .. d - 1 : i \in DOMAIN p1 /\ i \in DOMAIN p2 /\ p1[i] = p2[i]
    <3> TAKE i \in 1 .. d - 1
    <3>1. i \in Nat /\ i < d /\ 1 <= i
      BY <2>3
    <3>2. i \notin D
      BY <3>1, <2>2, <2>3
    <3>3. i \in DOMAIN p1 \cup DOMAIN p2
      BY <3>1, <2>3, <1>1, <1>2
    <3> QED
      BY <3>1, <3>2, <3>3, Zenon
  <2>5. d \in DOMAIN p1 => d \in DOMAIN p2 /\ p1[d].id <= p2[d].id
    BY <2>4, AnswersAgree, Zenon
  <2>6. d \in DOMAIN p2 => d \in DOMAIN p1 /\ p2[d].id <= p1[d].id
    BY <2>4, AnswersAgree, Zenon
  <2>7. d \in DOMAIN p1 /\ d \in DOMAIN p2
    BY <2>5, <2>6, Zenon
  <2>8. p1[d] \in rows /\ p2[d] \in rows
    BY <2>7, <1>1, <1>2, PageFacts, ElementOfSeq, Zenon
  <2>9. p1[d].id = p2[d].id
    BY <2>5, <2>6, <2>7, <2>8 DEF UniqueIds
  <2>10. p1[d] = p2[d]
    BY <2>8, <2>9, Zenon DEF UniqueIds
  <2> QED
    BY <2>7, <2>10, Zenon
<1>4. \A i \in 1 .. l1 : i \in 1 .. l2 /\ p1[i] = p2[i]
  BY <1>1, <1>2, <1>3
<1>5. \A i \in 1 .. l2 : i \in 1 .. l1
  BY <1>1, <1>2, <1>3
<1>6. l1 = l2
  <2>1. l1 # 0 => l1 \in 1 .. l1
    OBVIOUS
  <2>2. l2 # 0 => l2 \in 1 .. l2
    OBVIOUS
  <2>3. l1 <= l2
    BY <2>1, <1>4
  <2>4. l2 <= l1
    BY <2>2, <1>5
  <2> QED
    BY <2>3, <2>4
<1>7. p1 \in Seq(rows) /\ p2 \in Seq(rows)
  BY PageFacts, Zenon
<1> QED
  BY <1>1, <1>2, <1>4, <1>6, <1>7, SeqEqual, Zenon

\* The k newest of the rows found, newest first.
Newest(found, k, page) ==
    /\ page \in [1 .. k -> found]
    /\ \A i, j \in 1 .. k : i < j => page[i].id > page[j].id
    /\ \A r \in found : \/ \E i \in 1 .. k : page[i] = r
                        \/ \A i \in 1 .. k : r.id < page[i].id

LEMMA OneMore ==
    ASSUME NEW top \in Nat, UniqueIds(top), NEW found \in SUBSET rows,
           NEW k \in Nat, NEW page, Newest(found, k, page),
           NEW r \in found, \A i \in 1 .. k : page[i] # r
    PROVE  \E longer : Newest(found, k + 1, longer)
<1> DEFINE left == {s \in found : \A i \in 1 .. k : page[i] # s}
           ids == {s.id : s \in left}
<1>1. ids \subseteq 0 .. top /\ ids # {}
  <2>1. \A s \in left : s.id \in 0 .. top
    BY DEF UniqueIds
  <2>2. r \in left
    BY Zenon
  <2> QED
    BY <2>1, <2>2, Zenon
<1>2. PICK x \in ids : \A y \in ids : y <= x
  <2> HIDE DEF ids
  <2> QED
    BY <1>1, GreatestNat, Zenon
<1>3. PICK m \in left : x = m.id
  BY Zenon
<1>4. \A s \in left : s.id <= m.id
  BY <1>2, <1>3, Zenon
<1> DEFINE longer == [i \in 1 .. k + 1 |-> IF i = k + 1 THEN m ELSE page[i]]
<1>5. \A i \in 1 .. k : longer[i] = page[i] /\ page[i] \in found
  <2>1. \A i \in 1 .. k : i \in 1 .. k + 1 /\ i # k + 1
    OBVIOUS
  <2>2. \A i \in 1 .. k : page[i] \in found
    BY Zenon DEF Newest
  <2> QED
    BY <2>1, <2>2, Zenon
<1>6. longer[k + 1] = m /\ m \in found
  OBVIOUS
<1>7. \A i \in 1 .. k + 1 : i \in 1 .. k \/ i = k + 1
  OBVIOUS
<1>8. \A i \in 1 .. k : m.id < page[i].id
  BY Zenon DEF Newest
<1>9. longer \in [1 .. k + 1 -> found]
  BY <1>5, <1>6, <1>7, Zenon
<1> HIDE DEF longer
<1>10. \A i, j \in 1 .. k + 1 : i < j => longer[i].id > longer[j].id
  <2> SUFFICES ASSUME NEW i \in 1 .. k + 1, NEW j \in 1 .. k + 1, i < j
               PROVE  longer[i].id > longer[j].id
    BY Zenon
  <2>1. i \in 1 .. k
    OBVIOUS
  <2>2. page[i].id \in Nat /\ m.id \in Nat
    BY <2>1, <1>5, <1>6, Zenon DEF UniqueIds
  <2>3. CASE j \in 1 .. k
    BY <2>1, <2>3, <1>5, Zenon DEF Newest
  <2>4. CASE j = k + 1
    BY <2>1, <2>2, <2>4, <1>5, <1>6, <1>8, Zenon
  <2> QED
    BY <2>3, <2>4, <1>7, Zenon
<1>11. \A s \in found : \/ \E i \in 1 .. k + 1 : longer[i] = s
                        \/ \A i \in 1 .. k + 1 : s.id < longer[i].id
  <2> SUFFICES ASSUME NEW s \in found
               PROVE  \/ \E i \in 1 .. k + 1 : longer[i] = s
                      \/ \A i \in 1 .. k + 1 : s.id < longer[i].id
    BY Zenon
  <2>1. CASE \E i \in 1 .. k : page[i] = s
    <3>1. PICK i \in 1 .. k : page[i] = s
      BY <2>1, Zenon
    <3>2. i \in 1 .. k + 1
      OBVIOUS
    <3> QED
      BY <3>1, <3>2, <1>5, Zenon
  <2>2. CASE s = m
    <3>1. k + 1 \in 1 .. k + 1
      OBVIOUS
    <3> QED
      BY <2>2, <3>1, <1>6, Zenon
  <2>3. CASE s # m /\ ~ \E i \in 1 .. k : page[i] = s
    <3>1. s \in left /\ s.id # m.id /\ s.id \in Nat /\ m.id \in Nat
      BY <2>3, <1>6, Zenon DEF UniqueIds
    <3>2. s.id < m.id
      BY <3>1, <1>4
    <3>3. \A i \in 1 .. k : s.id < page[i].id
      BY <2>3, Zenon DEF Newest
    <3> QED
      BY <3>2, <3>3, <1>5, <1>6, <1>7, Zenon
  <2> QED
    BY <2>1, <2>2, <2>3, Zenon
<1> QED
  BY <1>9, <1>10, <1>11, Zenon DEF Newest

LEMMA AnswerExists ==
    ASSUME NEW top \in Nat, UniqueIds(top), NEW q, NEW n \in Nat
    PROVE  \E page : page \in ListAuditEntries(q, n)
<1> DEFINE found == {r \in rows : Listed(q, r)}
           sizes == {k \in 0 .. n : \E page : Newest(found, k, page)}
<1>1. 0 \in sizes
  <2>1. <<>> \in [1 .. 0 -> found]
    OBVIOUS
  <2>2. \A i \in 1 .. 0 : FALSE
    OBVIOUS
  <2>3. Newest(found, 0, <<>>)
    BY <2>1, <2>2, Zenon DEF Newest
  <2>4. 0 \in 0 .. n
    OBVIOUS
  <2> QED
    BY <2>3, <2>4, Zenon
<1>2. PICK k \in sizes : \A l \in sizes : l <= k
  <2>1. sizes \subseteq 0 .. n
    BY Zenon
  <2> HIDE DEF sizes
  <2> QED
    BY <1>1, <2>1, GreatestNat, Zenon
<1>3. PICK page : Newest(found, k, page)
  BY Zenon
<1>4. k = n \/ \A r \in found : \E i \in 1 .. k : page[i] = r
  <2>1. SUFFICES ASSUME k # n, NEW r \in found, \A i \in 1 .. k : page[i] # r
                 PROVE  FALSE
    BY Zenon
  <2>2. PICK longer : Newest(found, k + 1, longer)
    <3>1. found \in SUBSET rows /\ k \in Nat
      OBVIOUS
    <3> HIDE DEF found
    <3> QED
      BY <3>1, <1>3, <2>1, OneMore, Zenon
  <2>3. k \in 0 .. n /\ k + 1 \in 0 .. n
    BY <2>1
  <2>4. k + 1 \in sizes
    BY <2>2, <2>3, Zenon
  <2>5. k + 1 <= k
    BY <2>4, <1>2, Zenon
  <2> QED
    BY <2>3, <2>5
<1>5. /\ k \in 0 .. n /\ page \in [1 .. k -> found] /\ DOMAIN page = 1 .. k
      /\ Len(page) = k
  <2>1. k \in 0 .. n /\ page \in [1 .. k -> found]
    BY <1>3, Zenon DEF Newest
  <2> HIDE DEF found
  <2>2. DOMAIN page = 1 .. k /\ page \in Seq(found)
    BY <2>1
  <2> QED
    BY <2>1, <2>2, LenProperties
<1>6. page \in UNION {[1 .. l -> found] : l \in 0 .. n}
  BY <1>5, Zenon
<1>7. \A i, j \in DOMAIN page : i < j => page[i].id > page[j].id
  BY <1>3, <1>5, Zenon DEF Newest
<1>8. \A r \in found \ {page[i] : i \in DOMAIN page} :
        Len(page) = n /\ \A s \in {page[i] : i \in DOMAIN page} : r.id < s.id
  <2> TAKE r \in found \ {page[i] : i \in DOMAIN page}
  <2>1. r \in found /\ ~ \E i \in 1 .. k : page[i] = r
    BY <1>5, Zenon
  <2>2. Len(page) = n
    BY <2>1, <1>4, <1>5, Zenon
  <2>3. \A i \in 1 .. k : r.id < page[i].id
    BY <2>1, <1>3, Zenon DEF Newest
  <2> QED
    BY <2>2, <2>3, <1>5, Zenon
<1> HIDE DEF found
<1>9. page \in {p \in UNION {[1 .. l -> found] : l \in 0 .. n} :
           /\ \A i, j \in DOMAIN p : i < j => p[i].id > p[j].id
           /\ \A r \in found \ {p[i] : i \in DOMAIN p} :
                Len(p) = n /\ \A s \in {p[i] : i \in DOMAIN p} : r.id < s.id}
  BY <1>6, <1>7, <1>8, Zenon
<1> USE DEF found
<1> QED
  BY <1>9, Zenon DEF ListAuditEntries

\* Whatever is asked for, listAuditEntries has exactly one page to answer with
\* (ids are unique, below the sequence's next value, and no transaction gives
\* two rows the same): ORDER BY id DESC LIMIT n leaves nothing open.
THEOREM OneAnswer ==
    ReaderSpec =>
        [](\A q : \A n \in Nat : \E page : ListAuditEntries(q, n) = {page})
<1>1. ASSUME ChainInv
      PROVE  \A q : \A n \in Nat : \E page : ListAuditEntries(q, n) = {page}
  <2>1. nextId \in Nat /\ UniqueIds(nextId)
    BY <1>1 DEF ChainInv, TypeOK, Row, IdsOrdered, ChainIntact, Linked, UniqueIds
  <2> SUFFICES ASSUME NEW q, NEW n \in Nat
               PROVE  \E page : ListAuditEntries(q, n) = {page}
    BY Zenon
  <2>2. PICK page : page \in ListAuditEntries(q, n)
    BY <2>1, AnswerExists, Zenon
  <2>3. \A other \in ListAuditEntries(q, n) : other = page
    BY <2>1, <2>2, AnswerUnique, Zenon
  <2> QED
    BY <2>2, <2>3, Zenon
<1>2. Spec => []ChainInv
  BY ChainInit, ChainStep, PTL DEF Spec
<1> QED
  BY <1>1, <1>2, ReaderOnlyReads, PTL
=============================================================================
