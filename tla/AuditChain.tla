----------------------------- MODULE AuditChain -----------------------------
(***************************************************************************)
(* The hash-chained audit log: the Writer that appends under a row lock on *)
(* the chain head (internal/audit/chain.go), the Verifier that walks the   *)
(* chain (internal/audit/verify.go), and the two River jobs that sign the  *)
(* head and re-verify the chain (internal/jobs/audit_chain_*.go).  Stored  *)
(* rows may be edited outside the program at any time.                     *)
(***************************************************************************)
EXTENDS AuditRecord

CONSTANTS
    Writers,       \* requests that may be inside Writer.Append at once
    Verifiers,     \* concurrent runs of the verify job
    Anchorers,     \* concurrent runs of the anchor job
    None,          \* no writer, no event
    MaxId,         \* bound on the BIGSERIAL of audit_log
    MaxAnchors,    \* bound on anchor rows
    MaxKeys        \* bound on the signer keys generated by restarts

ASSUME ConstantsAssumption ==
    /\ None \notin Writers \cup Events
    /\ MaxId \in Nat
    /\ MaxAnchors \in Nat
    /\ MaxKeys \in Nat \ {0}

VARIABLES
    rows,      \* committed rows of audit_log
    nextId,    \* the sequence behind audit_log.id; never rolled back
    head,      \* system_state.audit_chain_head, as committed
    headLock,  \* who holds the FOR UPDATE lock on that row
    wr,        \* per writer: the state of its transaction
    anchors,   \* rows of audit_chain_anchors, in signed_at order
    signerKey, \* the key LocalSigner loaded at process start
    anc,       \* per anchor job
    ver,       \* per verify job
    edited     \* ids of the rows edited outside the program, for the properties

vars == <<rows, nextId, head, headLock, wr, anchors, signerKey, anc, ver, edited>>
chainVars == <<rows, nextId, head, headLock, wr, edited>>
anchorVars == <<anchors, signerKey, anc>>

Row == [id : Nat, cols : Columns, prev : Hashes, self : Hashes]

(***************************************************************************)
(* FirstBadID is zero on a clean walk.  tampered remembers, for the        *)
(* properties only, whether a stored row had been edited when the pass     *)
(* read the head.                                                          *)
(***************************************************************************)
WriterState == [pc : {"idle", "locked", "inserted"}, event : Events \cup {None},
                prev : Hashes, id : Nat]
IdleWriter == [pc |-> "idle", event |-> None, prev |-> Genesis, id |-> 0]
AnchorJob == [pc : {"idle", "loaded"}, head : Hashes]
IdleAnchorJob == [pc |-> "idle", head |-> Genesis]
AnchorErrors == {"none", "signature", "missing", "database"}
VerifyJob == [pc : {"idle", "walk", "anchor", "history", "done"},
              head : Hashes, prev : Hashes, last : Nat, firstBad : Nat,
              anchored : Hashes, chainOK : BOOLEAN, anchorErr : AnchorErrors,
              tampered : BOOLEAN]
IdleVerifyJob == [pc |-> "idle", head |-> Genesis, prev |-> Genesis, last |-> 0,
                  firstBad |-> 0, anchored |-> Genesis, chainOK |-> TRUE,
                  anchorErr |-> "none", tampered |-> FALSE]

TypeOK ==
    /\ rows \in SUBSET Row
    /\ nextId \in Nat \ {0}
    /\ head \in Hashes
    /\ headLock \in Writers \cup {None}
    /\ wr \in [Writers -> WriterState]
    /\ anchors \in Seq([head : Hashes, key : Nat])
    /\ signerKey \in Nat
    /\ anc \in [Anchorers -> AnchorJob]
    /\ ver \in [Verifiers -> VerifyJob]
    /\ edited \in SUBSET Nat

Init ==
    /\ rows = {}
    /\ nextId = 1
    /\ head = Genesis
    /\ headLock = None
    /\ wr = [w \in Writers |-> IdleWriter]
    /\ anchors = <<>>
    /\ signerKey = 1
    /\ anc = [a \in Anchorers |-> IdleAnchorJob]
    /\ ver = [v \in Verifiers |-> IdleVerifyJob]
    /\ edited = {}

-----------------------------------------------------------------------------
(* Writer.Append                                                           *)

\* Variant: the head is read without FOR UPDATE.
AppendLockUnlocked(w, e) ==
    /\ wr[w].pc = "idle"
    /\ nextId <= MaxId
    /\ headLock' = w
    /\ wr' = [wr EXCEPT ![w] = [pc |-> "locked", event |-> e,
                                prev |-> head, id |-> 0]]
    /\ UNCHANGED <<rows, nextId, head, anchorVars, ver, edited>>

\* BEGIN; SELECT ... FOR UPDATE: waits for the lock, then reads the head the
\* previous holder committed.
AppendLock(w, e) ==
    /\ wr[w].pc = "idle"
    /\ headLock = None
    /\ nextId <= MaxId
    /\ headLock' = w
    /\ wr' = [wr EXCEPT ![w] = [pc |-> "locked", event |-> e,
                                prev |-> head, id |-> 0]]
    /\ UNCHANGED <<rows, nextId, head, anchorVars, ver, edited>>

\* Variant: the head is updated outside the transaction that inserts the row.
AppendInsertHeadFirst(w) ==
    /\ wr[w].pc = "locked"
    /\ nextId <= MaxId
    /\ wr' = [wr EXCEPT ![w].pc = "inserted", ![w].id = nextId]
    /\ nextId' = nextId + 1
    /\ head' = HashOf(wr[w].prev, Payload(wr[w].event))
    /\ UNCHANGED <<rows, headLock, anchorVars, ver, edited>>

\* INSERT ... RETURNING id: the id is drawn now, the row is not yet visible.
AppendInsert(w) ==
    /\ wr[w].pc = "locked"
    /\ nextId <= MaxId
    /\ wr' = [wr EXCEPT ![w].pc = "inserted", ![w].id = nextId]
    /\ nextId' = nextId + 1
    /\ UNCHANGED <<rows, head, headLock, anchorVars, ver, edited>>

\* UPDATE of the head and COMMIT: row and head become visible together and
\* the lock is released.
AppendCommit(w) ==
    LET self == HashOf(wr[w].prev, Payload(wr[w].event))
    IN  /\ wr[w].pc = "inserted"
        /\ rows' = rows \cup {[id |-> wr[w].id, cols |-> Stored(wr[w].event),
                               prev |-> wr[w].prev, self |-> self]}
        /\ head' = self
        /\ headLock' = None
        /\ wr' = [wr EXCEPT ![w] = IdleWriter]
        /\ UNCHANGED <<nextId, anchorVars, ver, edited>>

\* Any error, a cancelled request or a crash: the deferred Rollback (or the
\* server) ends the transaction.  The drawn id is lost.
AppendAbort(w) ==
    /\ wr[w].pc # "idle"
    /\ headLock' = None
    /\ wr' = [wr EXCEPT ![w] = IdleWriter]
    /\ UNCHANGED <<rows, nextId, head, anchorVars, ver, edited>>

-----------------------------------------------------------------------------
(* AuditChainAnchorWorker.Work: the head is read in a transaction of its   *)
(* own, signed, and inserted by a later statement.                         *)

AnchorLoad(a) ==
    /\ anc[a].pc = "idle"
    /\ anc' = [anc EXCEPT ![a] = [pc |-> "loaded", head |-> head]]
    /\ UNCHANGED <<chainVars, anchors, signerKey, ver>>

AnchorInsert(a) ==
    /\ anc[a].pc = "loaded"
    /\ Len(anchors) < MaxAnchors
    /\ anchors' = Append(anchors, [head |-> anc[a].head, key |-> signerKey])
    /\ anc' = [anc EXCEPT ![a] = IdleAnchorJob]
    /\ UNCHANGED <<chainVars, signerKey, ver>>

AnchorError(a) ==
    /\ anc[a].pc = "loaded"
    /\ anc' = [anc EXCEPT ![a] = IdleAnchorJob]
    /\ UNCHANGED <<chainVars, anchors, signerKey, ver>>

\* A restart that does not find audit_signer.json: NewLocalSigner generates a
\* new key pair.  Every job and transaction in progress dies with the process.
RestartWithNewKey ==
    /\ signerKey < MaxKeys
    /\ signerKey' = signerKey + 1
    /\ headLock' = None
    /\ wr' = [w \in Writers |-> IdleWriter]
    /\ anc' = [a \in Anchorers |-> IdleAnchorJob]
    /\ ver' = [v \in Verifiers |-> IdleVerifyJob]
    /\ UNCHANGED <<rows, nextId, head, anchors, edited>>

-----------------------------------------------------------------------------
(* AuditChainVerifyWorker.Work.  Verifier.Run is one READ COMMITTED        *)
(* transaction: every statement sees what is committed when it starts, so  *)
(* appends commit between the read of the head and the batches.  One row   *)
(* is walked per step, which includes every way the batches can fall.      *)

VerifyStart(v) ==
    /\ ver[v].pc \in {"idle", "done"}
    /\ ver' = [ver EXCEPT ![v] =
                 [IdleVerifyJob EXCEPT !.pc = "walk", !.head = head,
                                       !.tampered = edited # {}]]
    /\ UNCHANGED <<chainVars, anchorVars>>

\* Variant: the batch is fetched without ORDER BY id.
NextRowUnordered(v, r) == r \in rows /\ r.id > ver[v].last

NextRow(v, r) ==
    /\ r \in rows
    /\ r.id > ver[v].last
    /\ \A s \in rows : s.id > ver[v].last => r.id <= s.id

\* Variant: the walk stops after the first batch.
ExhaustedAtOnce(v) == TRUE

Exhausted(v) == \A s \in rows : s.id <= ver[v].last

\* Variant: only the links are compared.
RowIsBadLinksOnly(prev, r) == prev # r.prev

\* The comparisons of one row in Verifier.Run.
RowIsBad(prev, r) ==
    \/ computeSelfHash(prev, r.cols) # r.self
    \/ prev # r.prev

\* The loop body: the first bad row is kept, and the stored hash, not the
\* recomputed one, is carried to the next row.
Walked(job, r) ==
    [job EXCEPT !.firstBad = IF job.firstBad = 0 /\ RowIsBad(job.prev, r)
                             THEN r.id ELSE job.firstBad,
                !.prev = r.self,
                !.last = r.id]

VerifyRow(v) ==
    /\ ver[v].pc = "walk"
    /\ \E r \in rows : NextRow(v, r) /\ ver' = [ver EXCEPT ![v] = Walked(@, r)]
    /\ UNCHANGED <<chainVars, anchorVars>>

VerifyEnd(v) ==
    /\ ver[v].pc = "walk"
    /\ Exhausted(v)
    /\ ver' = [ver EXCEPT ![v] =
                 [@ EXCEPT !.pc = "anchor",
                           !.chainOK = /\ ver[v].firstBad = 0
                                       /\ ver[v].head = ver[v].prev]]
    /\ UNCHANGED <<chainVars, anchorVars>>

\* The pass is over; what it reports is chainOK and the error of verifyAnchor.
Verdict(job, err) ==
    [IdleVerifyJob EXCEPT !.pc = "done", !.firstBad = job.firstBad,
                          !.chainOK = job.chainOK, !.anchorErr = err,
                          !.tampered = job.tampered]

\* Variant: no special case for an anchor over the empty chain.
VerifyAnchorNoGenesis(v) ==
    LET latest == anchors[Len(anchors)]
    IN  /\ ver[v].pc = "anchor"
        /\ IF anchors = <<>>
           THEN ver' = [ver EXCEPT ![v] = Verdict(@, "none")]
           ELSE IF latest.key # signerKey
           THEN ver' = [ver EXCEPT ![v] = Verdict(@, "signature")]
           ELSE ver' = [ver EXCEPT ![v] =
                          [@ EXCEPT !.pc = "history", !.anchored = latest.head,
                                    !.prev = Genesis, !.last = 0]]
        /\ UNCHANGED <<chainVars, anchorVars>>

\* verifyAnchor: the latest anchor row, its signature under the worker's key,
\* and the genesis head, which has no row.
VerifyAnchor(v) ==
    LET latest == anchors[Len(anchors)]
    IN  /\ ver[v].pc = "anchor"
        /\ IF anchors = <<>>
           THEN ver' = [ver EXCEPT ![v] = Verdict(@, "none")]
           ELSE IF latest.key # signerKey
           THEN ver' = [ver EXCEPT ![v] = Verdict(@, "signature")]
           ELSE IF latest.head = Genesis
           THEN ver' = [ver EXCEPT ![v] = Verdict(@, "none")]
           ELSE ver' = [ver EXCEPT ![v] =
                          [@ EXCEPT !.pc = "history", !.anchored = latest.head,
                                    !.prev = Genesis, !.last = 0]]
        /\ UNCHANGED <<chainVars, anchorVars>>

\* Verifier.AnchorInHistory: the recomputed hash of each row in turn.
HistoryRow(v) ==
    /\ ver[v].pc = "history"
    /\ \E r \in rows :
         /\ NextRow(v, r)
         /\ ver' = [ver EXCEPT ![v] =
                      IF computeSelfHash(@.prev, r.cols) = @.anchored
                      THEN Verdict(@, "none")
                      ELSE [@ EXCEPT !.prev = r.self, !.last = r.id]]
    /\ UNCHANGED <<chainVars, anchorVars>>

HistoryEnd(v) ==
    /\ ver[v].pc = "history"
    /\ Exhausted(v)
    /\ ver' = [ver EXCEPT ![v] = Verdict(@, "missing")]
    /\ UNCHANGED <<chainVars, anchorVars>>

\* A database error during the walk: the job is retried later from the start.
VerifyError(v) ==
    /\ ver[v].pc = "walk"
    /\ ver' = [ver EXCEPT ![v] = IdleVerifyJob]
    /\ UNCHANGED <<chainVars, anchorVars>>

\* A database error in verifyAnchor: reported as its failure, not retried.
AnchorCheckError(v) ==
    /\ ver[v].pc \in {"anchor", "history"}
    /\ ver' = [ver EXCEPT ![v] = Verdict(@, "database")]
    /\ UNCHANGED <<chainVars, anchorVars>>

-----------------------------------------------------------------------------
(* The fault the chain exists to expose: the payload of a stored row is    *)
(* replaced by another one outside the program.                            *)

EditRow ==
    /\ \E r \in rows, c \in Columns :
         /\ r.id \notin edited
         /\ c # r.cols
         /\ rows' = (rows \ {r}) \cup {[r EXCEPT !.cols = c]}
         /\ edited' = edited \cup {r.id}
    /\ UNCHANGED <<nextId, head, headLock, wr, anchorVars, ver>>

WriterStep(w) ==
    \/ \E e \in Events : AppendLock(w, e)
    \/ AppendInsert(w)
    \/ AppendCommit(w)
    \/ AppendAbort(w)

AnchorStep(a) == AnchorLoad(a) \/ AnchorInsert(a) \/ AnchorError(a)

VerifyStep(v) ==
    \/ VerifyStart(v)
    \/ VerifyRow(v)
    \/ VerifyEnd(v)
    \/ VerifyAnchor(v)
    \/ HistoryRow(v)
    \/ HistoryEnd(v)
    \/ VerifyError(v)
    \/ AnchorCheckError(v)

Next ==
    \/ \E w \in Writers : WriterStep(w)
    \/ \E a \in Anchorers : AnchorStep(a)
    \/ RestartWithNewKey
    \/ \E v \in Verifiers : VerifyStep(v)
    \/ EditRow

Spec == Init /\ [][Next]_vars

-----------------------------------------------------------------------------
(* Properties                                                              *)

\* The row committed before r, in id order.
IsPredecessor(s, r) ==
    /\ s \in rows
    /\ s.id < r.id
    /\ \A t \in rows : t.id < r.id => t.id <= s.id

\* Every row carries the hash of its predecessor in id order, the oldest one
\* the genesis hash, and ids are unique: Append's lock keeps commit order and
\* id order the same even though ids are drawn before the commit.
Linked ==
    /\ \A r, s \in rows : r.id = s.id => r = s
    /\ \A r \in rows :
         \/ r.prev = Genesis /\ \A t \in rows : r.id <= t.id
         \/ \E s \in rows : IsPredecessor(s, r) /\ r.prev = s.self

\* The stored head is the hash of the newest row.
HeadIsNewest ==
    \/ rows = {} /\ head = Genesis
    \/ \E r \in rows : head = r.self /\ \A s \in rows : s.id <= r.id

\* The verifier rebuilds from the columns of r exactly what Append hashed.
Sound(r) == r.self = computeSelfHash(r.prev, r.cols)

\* The chain is intact at every moment, with any number of writers inside
\* Writer.Append and any of them failing anywhere: no two rows share a
\* predecessor, no row is lost, the head is the newest row's hash, and a row
\* hashes to what Append stored exactly as long as nobody has edited it.
ChainIntact ==
    /\ \A r \in rows : Sound(r) <=> r.id \notin edited
    /\ Linked
    /\ HeadIsNewest

\* Every signed anchor is the genesis head or the hash of a committed row,
\* although the anchor job inserts a head it read some time earlier.
AnchorsAreHistory ==
    \A i \in DOMAIN anchors :
        \/ anchors[i].head = Genesis
        \/ \E r \in rows : r.self = anchors[i].head

\* The FirstBadID that Verifier.Run reports is a row that was edited: rows
\* appended while it walks, or rows after an edited one, are never mistaken
\* for bad ones.
FirstBadIsReal ==
    \A v \in Verifiers : ver[v].firstBad # 0 => ver[v].firstBad \in edited

\* When the walk ends, what it computed extends the head it had read first:
\* apart from an edited row, the only mismatch it can report is that of a
\* chain that grew during the pass.
ComputedExtendsHead ==
    \A v \in Verifiers :
        ver[v].pc = "anchor" =>
            /\ Len(ver[v].head) <= Len(ver[v].prev)
            /\ SubSeq(ver[v].prev, 1, Len(ver[v].head)) = ver[v].head

\* verifyAnchor reports an anchored head that is not in the history only when
\* a row was edited, and an invalid signature only when an anchor was signed
\* with a key lost in a restart, whatever is appended or anchored meanwhile.
AnchorAlarmIsReal ==
    \A v \in Verifiers :
        /\ ver[v].anchorErr = "missing" => edited # {}
        /\ ver[v].anchorErr = "signature" =>
             \E i \in DOMAIN anchors : anchors[i].key # signerKey

\* A pass that starts after a stored payload was edited never reports a clean
\* chain, whatever is appended or edited meanwhile.
EditDetected ==
    \A v \in Verifiers :
        ver[v].pc \in {"anchor", "history", "done"} /\ ver[v].tampered =>
            ~ver[v].chainOK

\* What the chain promises, with the idealised head as the log it commits to.
Log == INSTANCE AuditLog
         WITH Events <- Payloads,
              log <- head,
              anchored <- {anchors[i].head : i \in DOMAIN anchors}

\* Writers, jobs, failures, restarts and edits together behave as an
\* append-only log whose anchors are prefixes of it.
ImplementsLog == Log!LogSpec
=============================================================================
