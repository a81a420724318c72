------------------------------ MODULE AuditLog ------------------------------
(***************************************************************************)
(* What the audit log promises, whatever tables and locks it is built      *)
(* from: events are only ever appended, one at a time, and every signed    *)
(* anchor commits to a prefix of the log.  AuditChain implements it.       *)
(***************************************************************************)
EXTENDS Naturals, Sequences

CONSTANTS Events

VARIABLES log,       \* the events recorded so far, oldest first
          anchored   \* the prefixes of the log that have been signed

LogInit == log = <<>> /\ anchored = {}

Record(e) ==
    /\ log' = Append(log, e)
    /\ UNCHANGED anchored

SignPrefix ==
    /\ \E n \in 0..Len(log) : anchored' = anchored \cup {SubSeq(log, 1, n)}
    /\ UNCHANGED log

LogNext == SignPrefix \/ \E e \in Events : Record(e)

LogSpec == LogInit /\ [][LogNext]_<<log, anchored>>
=============================================================================
