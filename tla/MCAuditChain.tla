---------------------------- MODULE MCAuditChain ----------------------------
(* Two events of two users: one without user agent and metadata, appended  *)
(* between two microseconds, and one with both, of an action that has no   *)
(* name on the wire.                                                       *)
EXTENDS AuditReader, TLC

CONSTANTS u1, u2, m1

Symmetry == Permutations(Writers)

MCEvents ==
    {[user |-> u1, action |-> "login", agent |-> "", metadata |-> Nil, now |-> 1500],
     [user |-> u2, action |-> "login_failed", agent |-> "browser",
      metadata |-> m1, now |-> 2000]}

MCFilters ==
    {[action |-> Null, from |-> Null, to |-> Null],
     [action |-> "login", from |-> 1000, to |-> Null],
     [action |-> "login_failed", from |-> Null, to |-> Null],
     [action |-> Null, from |-> Null, to |-> 1000]}

\* The jobs never write a row and the reader writes nothing, so the walk of the
\* reader is explored with the jobs at rest.
JobsAtRest ==
    /\ anchors = <<>> /\ signerKey = 1
    /\ \A a \in Anchorers : anc[a] = IdleAnchorJob
    /\ \A v \in Verifiers : ver[v] = IdleVerifyJob

MCNext ==
    \/ Next /\ (reader = IdleReader \/ JobsAtRest') /\ UNCHANGED reader
    \/ JobsAtRest /\ StartReading
    \/ ListAudit \/ ListRefused \/ StopReading

MCSpec == ReaderInit /\ [][MCNext]_readerVars
=============================================================================
