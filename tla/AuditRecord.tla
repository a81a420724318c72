---------------------------- MODULE AuditRecord ------------------------------
(***************************************************************************)
(* What of an audit event is hashed, what is stored, and what the verifier *)
(* rebuilds from a stored row (internal/audit/chain.go, verify.go).  The   *)
(* writer hashes the event it was given; the verifier hashes the event it  *)
(* reads back from the columns.                                            *)
(*                                                                         *)
(* target_id and ip are, like user_id, NULL or a value on both sides.      *)
(* A JSON document with sorted keys is the map it denotes.  SHA-256 is     *)
(* idealised as injective: a hash is the sequence of the payloads that     *)
(* went into it, so two hashes are equal exactly when the same payloads    *)
(* were hashed in the same order.                                          *)
(***************************************************************************)
EXTENDS Integers, Sequences

CONSTANTS
    Events,     \* audit events, each with the time it is appended at
    Null,       \* SQL NULL
    Nil,        \* a nil metadata map
    EmptyMap    \* a map, or a JSON object, without keys

\* now is in nanoseconds.
ASSUME EventsAssumption ==
    \A e \in Events :
        /\ e = [user |-> e.user, action |-> e.action, agent |-> e.agent,
                metadata |-> e.metadata, now |-> e.now]
        /\ e.now \in Nat
        /\ e.agent # Null

Genesis == <<>>
HashOf(prev, payload) == Append(prev, payload)

Micro == 1000
Truncate(t) == t - (t % Micro)

\* Variant: a nil map is hashed as null.
canonicalJSONNull(m) == m

canonicalJSON(m) == IF m = Nil THEN EmptyMap ELSE m

canonicalRow(ev, ts) ==
    [user |-> ev.user, action |-> ev.action, agent |-> ev.agent,
     metadata |-> canonicalJSON(ev.metadata), created |-> ts \div Micro]

\* What Append hashes.
Payload(ev) == canonicalRow(ev, Truncate(ev.now))
Payloads == {Payload(e) : e \in Events}
Hashes == Seq(Payloads)

\* What Append stores.
pgtypeTextFrom(s) == IF s = "" THEN Null ELSE s
metadataBytes(m) == IF m = Nil THEN EmptyMap ELSE canonicalJSON(m)

Stored(ev) ==
    [user |-> ev.user, action |-> ev.action, agent |-> pgtypeTextFrom(ev.agent),
     metadata |-> metadataBytes(ev.metadata), created |-> Truncate(ev.now)]
Columns == {Stored(e) : e \in Events}

\* What the verifier rebuilds and hashes.
Rebuilt(c) ==
    [user |-> c.user, action |-> c.action,
     agent |-> IF c.agent = Null THEN "" ELSE c.agent, metadata |-> c.metadata]

computeSelfHash(prev, c) ==
    HashOf(prev, canonicalRow(Rebuilt(c), Truncate(c.created)))
=============================================================================
