----------------------------- MODULE MCSessions -----------------------------
(* Small instances of Sessions for TLC.                                    *)
EXTENDS Sessions, FiniteSets, TLC

Symmetry == Permutations(Devices) \cup Permutations(Requests)

UsedDevices == {d \in Devices : sess[d].id > 0 \/ \E r \in Requests : req[r].sid[1] = d}
Issuers == {pairs[n].by : n \in DOMAIN pairs}
Active == {r \in Requests : req[r] # Ended("none", 0)}

\* Requests that overlap are followed on one device, those that do not on all
\* of them.  Until two overlap they may as well all be the same one.
Explored ==
    IF overlap THEN Cardinality(UsedDevices) <= 1
    ELSE Cardinality(Issuers \cup Active) <= 1

\* Once requests have overlapped no guard, and no invariant of this run, reads
\* the password versions of the rows, how an idle request ended, or a pair
\* whose tokens are gone and that no request is minting: only that it was.
Gone == {n \in DOMAIN pairs : n \notin Live /\ \A r \in Requests : req[r].new # n}

Seen ==
    IF overlap
    THEN <<[d \in Devices |-> [sess[d] EXCEPT !.pw = 0]],
           [n \in DOMAIN pairs |-> IF n \in Gone THEN <<>> ELSE <<pairs[n]>>],
           access, refresh, pwVer,
           [r \in Requests |-> IF req[r].pc = "idle" THEN Ended("none", 0)
                                ELSE [req[r] EXCEPT !.pw = 0]], overlap>>
    ELSE vars
=============================================================================
