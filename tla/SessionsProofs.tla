---------------------------- MODULE SessionsProofs --------------------------
(***************************************************************************)
(* Proofs about Sessions for every set of devices and requests and every   *)
(* bound.                                                                  *)
(*                                                                         *)
(* The inductive invariant has two parts.  What a request relies on        *)
(* whatever overlaps it: which pair it mints and which one it exchanges.   *)
(* And what it may rely on as long as no two requests have overlapped:     *)
(* which tokens are left of the session it works on, and that the session  *)
(* is open under the current password.                                     *)
(***************************************************************************)
EXTENDS Sessions, TLAPS

\* Pairs that were never handed out have paid for nothing, and neither have
\* those with a valid token.
PairInv ==
    /\ \A n \in DOMAIN pairs : ~pairs[n].delivered => pairs[n].used = 0
    /\ ExchangedIsDead
    /\ OnePairPerIssuer

MintSteps == {"mintAccess", "mintRefresh", "stamp"}

\* The live pairs of the request's session that this slot has minted.
Own(r) == {n \in Live : SessionOf(n) = req[r].sid /\ pairs[n].by = r}

\* What request r relies on, whatever the others do.
ReqOK(r) ==
    LET q == req[r]
    IN  /\ q.pc \notin {"idle", "recover"} => q.sid[1] \in Devices
        /\ q.pair # 0 => q.pair \in Delivered
        /\ q.pc \in RefreshSteps => q.pair # 0
        /\ q.pair # 0 /\ q.pc \in RefreshSteps \cup {"upsert", "clear"}
             => q.sid = SessionOf(q.pair)
        /\ q.pair # 0 /\ q.pc \in {"revokeOld", "clearOld", "upsert"} => HasRow(q.sid)
        /\ q.pair # 0 /\ q.pc \in MintSteps => q.pair \notin Live
        /\ q.pc = "mintAccess" => Own(r) = {}
        /\ q.pc \in {"mintRefresh", "stamp"} =>
             /\ q.new \in DOMAIN pairs
             /\ pairs[q.new].by = r
             /\ pairs[q.new].sid = q.sid
             /\ ~pairs[q.new].delivered
             /\ Own(r) \subseteq {q.new}

ReqInv == \A r \in Requests : ReqOK(r)

\* A row that is there, not revoked and under the current password.
OpenNow(sid) == GetSessionByID(sid) /\ sess[sid[1]].pw = pwVer

LiveOf(sid) == TokensOf(sid) \cap Live

\* The steps between a validated or opened session and its new pair.
OnOpenRow(q) ==
    \/ q.pc \in {"readKey", "revokeOld", "clearOld", "clear"} \cup MintSteps
    \/ q.pc = "upsert" /\ q.pair # 0

\* What a request relies on as long as it has the tables for itself.
AloneOK(q) ==
    /\ OnOpenRow(q) => OpenNow(q.sid)
    /\ q.pc = "upsert" /\ q.pair = 0 => q.pw = pwVer
    /\ q.pc = "readKey" => sess[q.sid[1]].key = q.pair
    /\ q.pc = "mintAccess" => LiveOf(q.sid) = {}
    /\ q.pc \in {"mintRefresh", "stamp"} => LiveOf(q.sid) \subseteq {q.new}
    /\ q.pc = "revokeRow" => LiveOf(q.sid) = {}
    /\ q.pc = "revokeOthers" => \A n \in Live : SessionOf(n) = q.sid
    /\ q.pc # "burn"
    /\ q.outcome # "reuse"

\* What holds of the tables until two requests overlap.
TablesInv ==
    /\ \A n \in Live : GetSessionByID(SessionOf(n))
    /\ \A n \in refresh \cap Delivered : sess[SessionOf(n)[1]].key = n
    /\ \A n \in Live \cap Delivered : sess[SessionOf(n)[1]].pw = pwVer

AloneInv ==
    ~overlap => /\ \A r, q \in UnderWay : r = q
                /\ \A r \in Requests : AloneOK(req[r])
                /\ TablesInv

Core == TypeOK /\ PairInv /\ ReqInv
SessionsInv == Core /\ AloneInv

-----------------------------------------------------------------------------
(* What a request relies on whatever overlaps it                           *)

\* What a step of the requests in M leaves to the others: pairs stay what they
\* are, only the actors' own are handed out, only those that were not become
\* valid, and the rows the others work on stay.
Others(M) ==
    /\ \A n \in DOMAIN pairs : /\ n \in DOMAIN pairs'
                               /\ pairs'[n].sid = pairs[n].sid
                               /\ pairs'[n].by = pairs[n].by
                               /\ pairs[n].delivered => pairs'[n].delivered
                               /\ pairs'[n].delivered /\ pairs[n].by \notin M
                                  => pairs[n].delivered
    /\ \A n \in Live' : n \in Live \/ (pairs'[n].by \in M /\ ~pairs'[n].delivered)
    /\ \A p \in Requests \ M :
         /\ req'[p] = req[p]
         /\ req[p].sid[1] \in Devices /\ HasRow(req[p].sid)
            => /\ sess'[req[p].sid[1]].exists
               /\ sess'[req[p].sid[1]].id = sess[req[p].sid[1]].id

\* The types of the pairs and requests, one by one.
LEMMA Typed ==
    ASSUME TypeOK
    PROVE  /\ DOMAIN pairs = 1..Len(pairs) /\ Len(pairs) \in Nat
           /\ Live \subseteq DOMAIN pairs
           /\ \A n \in DOMAIN pairs :
                /\ pairs[n] \in Pair
                /\ n \in Nat
                /\ pairs[n].sid \in Devices \X Nat
                /\ pairs[n].sid[1] \in Devices
                /\ pairs[n].by \in Requests
                /\ pairs[n].delivered \in BOOLEAN
                /\ pairs[n].used \in Nat
           /\ \A r \in Requests :
                /\ req[r] \in Request
                /\ req[r].pair \in Nat
                /\ req[r].new \in Nat
                /\ req[r].pw \in Nat
                /\ req[r].sid \in (Devices \cup {NoDevice}) \X Nat
                /\ req[r].sid = <<req[r].sid[1], req[r].sid[2]>>
           /\ \A d \in Devices :
                /\ sess[d] \in Session
                /\ sess[d].exists \in BOOLEAN
                /\ sess[d].revoked \in BOOLEAN
                /\ sess[d].id \in Nat
                /\ sess[d].key \in Nat
                /\ sess[d].pw \in Nat
<1>1. DOMAIN pairs = 1..Len(pairs) /\ Len(pairs) \in Nat
  BY DEF TypeOK
<1>2. Live \subseteq DOMAIN pairs
  BY <1>1, Zenon DEF TypeOK, Live
<1>3. \A n \in DOMAIN pairs : pairs[n] \in Pair /\ n \in Nat
  BY <1>1 DEF TypeOK
<1>4. \A n \in DOMAIN pairs : /\ pairs[n].sid \in Devices \X Nat
                              /\ pairs[n].by \in Requests
                              /\ pairs[n].delivered \in BOOLEAN
                              /\ pairs[n].used \in Nat
  BY <1>3, Zenon DEF Pair
<1>5. \A n \in DOMAIN pairs : pairs[n].sid[1] \in Devices
  BY <1>4, Zenon
<1>6. \A r \in Requests : req[r] \in Request
  BY Zenon DEF TypeOK
<1>7. \A r \in Requests : /\ req[r].pair \in Nat
                          /\ req[r].new \in Nat
                          /\ req[r].pw \in Nat
                          /\ req[r].sid \in (Devices \cup {NoDevice}) \X Nat
  BY <1>6, Zenon DEF Request
<1>8. \A r \in Requests : req[r].sid = <<req[r].sid[1], req[r].sid[2]>>
  BY <1>7
<1>9. \A d \in Devices : sess[d] \in Session
  BY Zenon DEF TypeOK
<1>10. \A d \in Devices : /\ sess[d].exists \in BOOLEAN
                          /\ sess[d].revoked \in BOOLEAN
                          /\ sess[d].id \in Nat
                          /\ sess[d].key \in Nat
                          /\ sess[d].pw \in Nat
  BY <1>9, Zenon DEF Session
<1> QED
  BY <1>1, <1>2, <1>3, <1>4, <1>5, <1>6, <1>7, <1>8, <1>9, <1>10, Zenon

\* A request that does not take the step still has what it relies on.
LEMMA Undisturbed ==
    ASSUME Core, TypeOK', NEW M \in SUBSET Requests, Others(M),
           NEW p \in Requests \ M
    PROVE  ReqOK(p)'
<1> DEFINE q == req[p]
<1>0. req'[p] = q /\ ReqOK(p) /\ TypeOK /\ p \in Requests
  BY Zenon DEF Core, ReqInv, Others
<1>1. q.pc \notin {"idle", "recover"} => q.sid[1] \in Devices
  BY <1>0, Zenon DEF ReqOK
<1>2. q.pair # 0 => q.pair \in Delivered /\ q.pair \in Delivered'
  BY <1>0, Zenon DEF ReqOK, Delivered, Others
<1>3. q.pc \in RefreshSteps => q.pair # 0
  BY <1>0, Zenon DEF ReqOK
<1>4. q.pair # 0 /\ q.pc \in RefreshSteps \cup {"upsert", "clear"}
        => q.sid = pairs'[q.pair].sid
  BY <1>0, <1>2, Zenon DEF ReqOK, SessionOf, Delivered, Others
<1>5. q.pair # 0 /\ q.pc \in {"revokeOld", "clearOld", "upsert"} => HasRow(q.sid)
  BY <1>0, Zenon DEF ReqOK
<1>6. q.sid[1] \in Devices /\ HasRow(q.sid)
        => sess'[q.sid[1]].exists /\ sess'[q.sid[1]].id = q.sid[2]
  BY <1>0, Zenon DEF Others, HasRow
<1>7. q.pair # 0 /\ q.pc \in MintSteps => q.pair \notin Live'
  BY <1>0, <1>2, Zenon DEF ReqOK, Delivered, Others
<1>8. \A n \in Live' : pairs'[n].by = p => n \in Live /\ n \in DOMAIN pairs
                                           /\ pairs'[n].sid = pairs[n].sid /\ pairs[n].by = p
  BY <1>0, Typed DEF Others
<1>9. \A n \in Live' : pairs'[n].sid = q.sid /\ pairs'[n].by = p => n \in Own(p)
  BY <1>8, Zenon DEF Own, SessionOf
<1>10. q.pc \in {"mintRefresh", "stamp"} =>
         /\ q.new \in DOMAIN pairs'
         /\ pairs'[q.new].by = p
         /\ pairs'[q.new].sid = q.sid
         /\ ~pairs'[q.new].delivered
         /\ Own(p) \subseteq {q.new}
  BY <1>0 DEF ReqOK, Others
<1>11. q.pc = "mintAccess" => Own(p) = {}
  BY <1>0, Zenon DEF ReqOK
<1>12. \A n \in Own(p)' : n \in Own(p)
  BY <1>0, <1>9, Zenon DEF Own, SessionOf
<1> HIDE DEF q
<1> QED
  BY <1>0, <1>1, <1>2, <1>3, <1>4, <1>5, <1>6, <1>7, <1>10, <1>11, <1>12, Zenon
     DEF ReqOK, HasRow, SessionOf

\* A step of the requests in M has to be checked for them only.
LEMMA CoreKeeps ==
    ASSUME Core, TypeOK', PairInv', NEW M \in SUBSET Requests, Others(M),
           \A r \in M : ReqOK(r)'
    PROVE  Core'
<1>1. ASSUME NEW p \in Requests PROVE ReqOK(p)'
  BY Undisturbed, Zenon
<1> QED
  BY <1>1, Zenon DEF Core, ReqInv

\* No pair is minted or handed out, and tokens are only removed.
LEMMA FewerTokens ==
    ASSUME Core, pairs' = pairs, access' \subseteq access, refresh' \subseteq refresh
    PROVE  /\ Live' \subseteq Live
           /\ PairInv'
           /\ access' \in SUBSET (1..Len(pairs'))
           /\ refresh' \in SUBSET (1..Len(pairs'))
<1>1. Live' \subseteq Live
  BY Zenon DEF Live
<1>2. TypeOK /\ PairInv
  BY Zenon DEF Core
<1>3. PairInv'
  BY <1>1, <1>2, Zenon DEF PairInv, ExchangedIsDead, OnePairPerIssuer, SessionOf
<1> QED
  BY <1>1, <1>2, <1>3, Zenon DEF TypeOK

\* Rows are opened, revoked and stamped, and none is removed.
RowsKeep ==
    \A d \in Devices : sess[d].exists => sess'[d].exists /\ sess'[d].id = sess[d].id

\* A step of one request that mints nothing.
LEMMA ShrinkKeeps ==
    ASSUME Core, NEW r \in Requests, NEW q \in Request, req' = [req EXCEPT ![r] = q],
           pairs' = pairs, access' \subseteq access, refresh' \subseteq refresh,
           sess' \in [Devices -> Session], RowsKeep, pwVer' \in Nat, overlap' \in BOOLEAN,
           ReqOK(r)'
    PROVE  Core'
<1>1. TypeOK
  BY Zenon DEF Core
<1>2. /\ req' \in [Requests -> Request]
      /\ \A p \in Requests \ {r} : req'[p] = req[p]
  BY <1>1, Zenon DEF TypeOK
<1>3. /\ Live' \subseteq Live /\ PairInv'
      /\ access' \in SUBSET (1..Len(pairs')) /\ refresh' \in SUBSET (1..Len(pairs'))
  BY FewerTokens, Zenon
<1>4. TypeOK'
  BY <1>1, <1>2, <1>3, Zenon DEF TypeOK
<1>5. ASSUME NEW p \in Requests, req[p].sid[1] \in Devices, HasRow(req[p].sid)
      PROVE  /\ sess'[req[p].sid[1]].exists
             /\ sess'[req[p].sid[1]].id = sess[req[p].sid[1]].id
  BY <1>5, Zenon DEF HasRow, RowsKeep
<1>6. Others({r})
  BY <1>2, <1>3, <1>5, Zenon DEF Others
<1> QED
  BY <1>3, <1>4, <1>6, CoreKeeps, Zenon

-----------------------------------------------------------------------------
(* Requests: their types and what they begin and end with                  *)

PCs == {"idle"} \cup IssueSteps \cup RefreshSteps \cup RevokeSteps
Sids == (Devices \cup {NoDevice}) \X Nat

\* A request with some fields set is a request.
LEMMA RequestWith ==
    ASSUME NEW q \in Request
    PROVE  /\ \A pc \in PCs : [q EXCEPT !.pc = pc] \in Request
           /\ \A pc \in PCs, s \in Sids : [q EXCEPT !.pc = pc, !.sid = s] \in Request
           /\ \A pc \in PCs, n \in Nat : [q EXCEPT !.pc = pc, !.new = n] \in Request
<1>1. \A pc \in PCs : [q EXCEPT !.pc = pc] \in Request
  BY Zenon DEF Request, PCs
<1>2. \A pc \in PCs, s \in Sids : [q EXCEPT !.pc = pc, !.sid = s] \in Request
  BY Zenon DEF Request, PCs, Sids
<1>3. \A pc \in PCs, n \in Nat : [q EXCEPT !.pc = pc, !.new = n] \in Request
  BY Zenon DEF Request, PCs
<1> QED
  BY <1>1, <1>2, <1>3, Zenon

\* What is left of a request that has returned.
LEMMA EndedIs ==
    ASSUME NEW o \in {"none", "invalid", "reuse"}, NEW n \in Nat
    PROVE  /\ Ended(o, n) \in Request
           /\ Ended(o, n).pc = "idle" /\ Ended(o, n).pair = n
           /\ Ended(o, n).sid = NoSession /\ Ended(o, n).outcome = o
<1>1. NoSession \in Sids /\ "idle" \in PCs /\ 0 \in Nat
  BY Zenon DEF NoSession, Sids, PCs
<1>2. \A pc \in PCs, s \in Sids, w \in Nat :
        [pc |-> pc, sid |-> s, pair |-> n, new |-> w, pw |-> w, outcome |-> o] \in Request
  BY Zenon DEF Request, PCs, Sids
<1>3. Ended(o, n) \in Request
  BY <1>1, <1>2, Zenon DEF Ended
<1> QED
  BY <1>3, Zenon DEF Ended

\* What a request begins with.
LEMMA BegunIs ==
    ASSUME NEW pc \in PCs, NEW s \in Sids, NEW n \in Nat
    PROVE  /\ Begun(pc, s, n) \in Request
           /\ Begun(pc, s, n).pc = pc /\ Begun(pc, s, n).sid = s
           /\ Begun(pc, s, n).pair = n /\ Begun(pc, s, n).outcome = "none"
<1>1. \A o \in {"none", "invalid", "reuse"}, v \in Nat :
        [pc |-> pc, sid |-> s, pair |-> n, new |-> v, pw |-> v, outcome |-> o] \in Request
  BY Zenon DEF Request, PCs, Sids
<1>2. "none" \in {"none", "invalid", "reuse"} /\ 0 \in Nat
  BY Zenon
<1>3. Begun(pc, s, n) \in Request
  BY <1>1, <1>2, Zenon DEF Begun
<1> QED
  BY <1>3, Zenon DEF Begun

\* The same for a login, which remembers the password it checked.
LEMMA BegunUnder ==
    ASSUME NEW pc \in PCs, NEW s \in Sids, NEW n \in Nat, NEW w \in Nat
    PROVE  /\ [Begun(pc, s, n) EXCEPT !.pw = w] \in Request
           /\ [Begun(pc, s, n) EXCEPT !.pw = w].pc = pc
           /\ [Begun(pc, s, n) EXCEPT !.pw = w].sid = s
           /\ [Begun(pc, s, n) EXCEPT !.pw = w].pair = n
           /\ [Begun(pc, s, n) EXCEPT !.pw = w].pw = w
           /\ [Begun(pc, s, n) EXCEPT !.pw = w].outcome = "none"
<1>1. \A q \in Request : [q EXCEPT !.pw = w] \in Request
  BY Zenon DEF Request
<1>2. Begun(pc, s, n) \in Request
  BY BegunIs, Zenon
<1>3. [Begun(pc, s, n) EXCEPT !.pw = w] \in Request
  BY <1>1, <1>2, Zenon
<1> QED
  BY <1>3, Zenon DEF Begun

-----------------------------------------------------------------------------
(* Statements on auth_sessions                                             *)

\* A session's row with some fields set is one.
LEMMA SessionWith ==
    ASSUME NEW x \in Session
    PROVE  /\ \A b \in BOOLEAN : [x EXCEPT !.revoked = b] \in Session
           /\ \A n \in Nat : [x EXCEPT !.key = n] \in Session
           /\ \A w \in Nat : [x EXCEPT !.pw = w] \in Session
           /\ \A b, c \in BOOLEAN, i, k \in Nat :
                [x EXCEPT !.exists = b, !.revoked = c, !.id = i, !.key = k] \in Session
           /\ \A b, c \in BOOLEAN, k, w \in Nat :
                [x EXCEPT !.exists = b, !.revoked = c, !.key = k, !.pw = w] \in Session
<1>1. \A b \in BOOLEAN : [x EXCEPT !.revoked = b] \in Session
  BY Zenon DEF Session
<1>2. /\ \A n \in Nat : [x EXCEPT !.key = n] \in Session
      /\ \A w \in Nat : [x EXCEPT !.pw = w] \in Session
  BY Zenon DEF Session
<1>3. \A b, c \in BOOLEAN, i, k \in Nat :
        [x EXCEPT !.exists = b, !.revoked = c, !.id = i, !.key = k] \in Session
  BY Zenon DEF Session
<1>4. \A b, c \in BOOLEAN, k, w \in Nat :
        [x EXCEPT !.exists = b, !.revoked = c, !.key = k, !.pw = w] \in Session
  BY Zenon DEF Session
<1> QED
  BY <1>1, <1>2, <1>3, <1>4, Zenon

\* Of two rows, the second is the first, revoked or not.
SameRow(x, y) == y.exists = x.exists /\ y.id = x.id /\ y.key = x.key /\ y.pw = x.pw

\* RevokeSession changes the one row, and only marks it.
LEMMA Revoked ==
    ASSUME TypeOK, NEW sid \in Sids, sess' = RevokeSession(sid)
    PROVE  /\ sess' \in [Devices -> Session]
           /\ \A d \in Devices :
                /\ SameRow(sess[d], sess'[d])
                /\ sess'[d].revoked =>
                     \/ sess[d].revoked
                     \/ sess[d].exists /\ <<d, sess[d].id>> = sid
<1>0. sess \in [Devices -> Session] /\ \A d \in Devices : sess[d] \in Session
  BY Zenon DEF TypeOK
<1>1. CASE HasRow(sid)
  <2> DEFINE y == [sess[sid[1]] EXCEPT !.revoked = TRUE]
  <2>1. sess' = [sess EXCEPT ![sid[1]] = y]
    BY <1>1, Zenon DEF RevokeSession
  <2>2. sid[1] \in Devices => y \in Session /\ SameRow(sess[sid[1]], y)
    BY <1>0, Zenon DEF SameRow, Session
  <2>3. sid = <<sid[1], sid[2]>>
    BY DEF Sids
  <2> HIDE DEF y
  <2> QED
    BY <1>0, <1>1, <2>1, <2>2, <2>3, Zenon DEF SameRow, HasRow
<1>2. CASE ~HasRow(sid)
  BY <1>0, <1>2, Zenon DEF RevokeSession, SameRow
<1> QED
  BY <1>1, <1>2, Zenon

\* RevokeAllUserSessionsExcept marks every other row.
LEMMA RevokedExcept ==
    ASSUME TypeOK, NEW sid \in Sids, sess' = RevokeAllUserSessionsExcept(sid)
    PROVE  /\ sess' \in [Devices -> Session]
           /\ \A d \in Devices :
                /\ SameRow(sess[d], sess'[d])
                /\ sess'[d].revoked =>
                     \/ sess[d].revoked
                     \/ sess[d].exists /\ <<d, sess[d].id>> # sid
<1>1. \A d \in Devices : sess[d] \in Session
  BY Zenon DEF TypeOK
<1>2. ASSUME NEW d \in Devices
      PROVE  /\ sess'[d] \in Session
             /\ SameRow(sess[d], sess'[d])
             /\ sess'[d].revoked =>
                  \/ sess[d].revoked
                  \/ sess[d].exists /\ <<d, sess[d].id>> # sid
  <2> DEFINE b == sess[d].revoked \/ (sess[d].exists /\ <<d, sess[d].id>> # sid)
             y == [sess[d] EXCEPT !.revoked = b]
  <2>1. sess'[d] = y
    BY Zenon DEF RevokeAllUserSessionsExcept
  <2>2. b \in BOOLEAN /\ sess[d] \in Session
    BY <1>1, Zenon
  <2>3. y \in Session /\ SameRow(sess[d], y) /\ y.revoked = b
    <3> HIDE DEF b
    <3> QED
      BY <2>2, Zenon DEF SameRow, Session
  <2> HIDE DEF y
  <2> QED
    BY <2>1, <2>3, Zenon
<1>3. sess' = [d \in Devices |-> sess'[d]]
  BY Zenon DEF RevokeAllUserSessionsExcept
<1> QED
  BY <1>2, <1>3, Zenon

\* RevokeAllUserSessions marks every row.
LEMMA RevokedAll ==
    ASSUME TypeOK, sess' = RevokeAllUserSessions
    PROVE  /\ sess' \in [Devices -> Session]
           /\ \A d \in Devices : SameRow(sess[d], sess'[d])
<1>1. \A d \in Devices : sess[d] \in Session
  BY Zenon DEF TypeOK
<1>2. ASSUME NEW d \in Devices
      PROVE  sess'[d] \in Session /\ SameRow(sess[d], sess'[d])
  <2> DEFINE b == sess[d].revoked \/ sess[d].exists
             y == [sess[d] EXCEPT !.revoked = b]
  <2>1. sess'[d] = y
    BY Zenon DEF RevokeAllUserSessions
  <2>2. b \in BOOLEAN /\ sess[d] \in Session
    BY <1>1, Typed, Zenon
  <2>3. y \in Session /\ SameRow(sess[d], y)
    <3> HIDE DEF b
    <3> QED
      BY <2>2, Zenon DEF SameRow, Session
  <2> HIDE DEF y
  <2> QED
    BY <2>1, <2>3, Zenon
<1>3. sess' = [d \in Devices |-> sess'[d]]
  BY Zenon DEF RevokeAllUserSessions
<1> QED
  BY <1>2, <1>3, Zenon
\* IssueUpsert's statement: the device's row is there and open, under w.
OpenedUnder(d, w) == [UpsertSession(d) EXCEPT ![d].pw = w]

\* UpsertSession opens the device's row, keeping a row's number and key.
LEMMA Upserted ==
    ASSUME TypeOK, NEW d \in Devices, NEW w \in Nat, sess' = OpenedUnder(d, w)
    PROVE  /\ sess' \in [Devices -> Session]
           /\ \A e \in Devices \ {d} : sess'[e] = sess[e]
           /\ sess'[d].exists /\ ~sess'[d].revoked
           /\ sess[d].exists => sess'[d].id = sess[d].id /\ sess'[d].key = sess[d].key
           /\ sess'[d].pw = w
<1> DEFINE i == IF sess[d].exists THEN sess[d].id ELSE sess[d].id + 1
           k == IF sess[d].exists THEN sess[d].key ELSE 0
           x == [sess[d] EXCEPT !.exists = TRUE, !.revoked = FALSE, !.id = i, !.key = k]
           y == [x EXCEPT !.pw = w]
<1>1. sess \in [Devices -> Session] /\ sess[d] \in Session
  BY Zenon DEF TypeOK
<1>2. i \in Nat /\ k \in Nat
  BY Typed
<1>3. /\ x \in Session
      /\ x.exists /\ ~x.revoked /\ x.id = i /\ x.key = k /\ x.pw = sess[d].pw
  <2> HIDE DEF i, k
  <2>1. x \in Session
    BY <1>1, <1>2, SessionWith, Zenon
  <2> QED
    BY <1>1, <2>1, Zenon DEF Session
<1>4. UpsertSession(d) = [sess EXCEPT ![d] = x]
  BY Zenon DEF UpsertSession
<1>5. sess' = [sess EXCEPT ![d] = y]
  <2> HIDE DEF x
  <2> QED
    BY <1>1, <1>3, <1>4, Zenon DEF OpenedUnder
<1>6. /\ y \in Session
      /\ y.exists /\ ~y.revoked /\ y.id = i /\ y.key = k /\ y.pw = w
  <2> HIDE DEF i, k, x
  <2>1. y \in Session
    BY <1>2, <1>3, SessionWith, Zenon
  <2> QED
    BY <1>3, <2>1, Zenon DEF Session
<1> HIDE DEF x, y
<1> QED
  BY <1>1, <1>5, <1>6, Zenon

\* The statement leaves the password version alone.
LEMMA UpsertKeepsPw ==
    ASSUME TypeOK, NEW d \in Devices
    PROVE  UpsertSession(d)[d].pw = sess[d].pw
<1> DEFINE i == IF sess[d].exists THEN sess[d].id ELSE sess[d].id + 1
           k == IF sess[d].exists THEN sess[d].key ELSE 0
           x == [sess[d] EXCEPT !.exists = TRUE, !.revoked = FALSE, !.id = i, !.key = k]
<1>1. sess \in [Devices -> Session] /\ sess[d] \in Session
  BY Zenon DEF TypeOK
<1>2. x.pw = sess[d].pw
  <2> HIDE DEF i, k
  <2> QED
    BY <1>1, Zenon DEF Session
<1>3. UpsertSession(d) = [sess EXCEPT ![d] = x]
  BY Zenon DEF UpsertSession
<1> HIDE DEF x
<1> QED
  BY <1>1, <1>2, <1>3, Zenon

\* SetSessionCurrentRefreshKey changes the key of one row.
LEMMA StampedRow ==
    ASSUME TypeOK, NEW sid \in Sids, NEW n \in Nat,
           sess' = SetSessionCurrentRefreshKey(sid, n)
    PROVE  /\ sess' \in [Devices -> Session]
           /\ \A d \in Devices :
                /\ sess'[d].exists = sess[d].exists /\ sess'[d].id = sess[d].id
                /\ sess'[d].revoked = sess[d].revoked /\ sess'[d].pw = sess[d].pw
                /\ sess'[d].key = IF sess[d].exists /\ <<d, sess[d].id>> = sid
                                  THEN n ELSE sess[d].key
<1>0. sess \in [Devices -> Session] /\ \A d \in Devices : sess[d] \in Session
  BY Zenon DEF TypeOK
<1>3. sid = <<sid[1], sid[2]>>
  BY DEF Sids
<1>1. CASE HasRow(sid)
  <2> DEFINE y == [sess[sid[1]] EXCEPT !.key = n]
  <2>1. sess' = [sess EXCEPT ![sid[1]] = y]
    BY <1>1, Zenon DEF SetSessionCurrentRefreshKey
  <2>2. sid[1] \in Devices =>
          /\ y \in Session
          /\ y.exists = sess[sid[1]].exists /\ y.id = sess[sid[1]].id
          /\ y.revoked = sess[sid[1]].revoked /\ y.pw = sess[sid[1]].pw /\ y.key = n
    BY <1>0, Zenon DEF Session
  <2> HIDE DEF y
  <2>3. sess' \in [Devices -> Session]
    BY <1>0, <2>1, <2>2, Zenon
  <2>4. ASSUME NEW d \in Devices, d = sid[1]
        PROVE  sess'[d] = y /\ sess[d].exists /\ <<d, sess[d].id>> = sid
    BY <1>0, <1>1, <1>3, <2>1, <2>4, Zenon DEF HasRow
  <2>5. ASSUME NEW d \in Devices, d # sid[1]
        PROVE  sess'[d] = sess[d] /\ <<d, sess[d].id>> # sid
    BY <1>0, <1>3, <2>1, <2>5
  <2> QED
    BY <2>2, <2>3, <2>4, <2>5, Zenon
<1>2. CASE ~HasRow(sid)
  BY <1>0, <1>2, <1>3 DEF SetSessionCurrentRefreshKey, HasRow
<1> QED
  BY <1>1, <1>2, Zenon

\* RotatePassword's statements: every other row revoked, the caller's opened
\* under the new password.
KeptUnder(sid, w) == [RevokeAllUserSessionsExcept(sid) EXCEPT ![sid[1]].pw = w]

\* A rotation marks every row but the one it keeps under the new password.
LEMMA Rotated ==
    ASSUME TypeOK, NEW sid \in Sids, NEW w \in Nat, sess' = KeptUnder(sid, w)
    PROVE  /\ sess' \in [Devices -> Session]
           /\ \A d \in Devices :
                /\ sess'[d].exists = sess[d].exists /\ sess'[d].id = sess[d].id
                /\ sess'[d].key = sess[d].key
                /\ d = sid[1] => sess'[d].pw = w
                /\ sess'[d].revoked =>
                     \/ sess[d].revoked
                     \/ sess[d].exists /\ <<d, sess[d].id>> # sid
<1> DEFINE S == RevokeAllUserSessionsExcept(sid)
<1>1. \A d \in Devices : sess[d] \in Session
  BY Zenon DEF TypeOK
<1>2. ASSUME NEW d \in Devices
      PROVE  /\ S[d] \in Session
             /\ SameRow(sess[d], S[d])
             /\ S[d].revoked =>
                  \/ sess[d].revoked
                  \/ sess[d].exists /\ <<d, sess[d].id>> # sid
  <2> DEFINE b == sess[d].revoked \/ (sess[d].exists /\ <<d, sess[d].id>> # sid)
             y == [sess[d] EXCEPT !.revoked = b]
  <2>1. S[d] = y
    BY Zenon DEF RevokeAllUserSessionsExcept
  <2>2. b \in BOOLEAN /\ sess[d] \in Session
    BY <1>1, Zenon
  <2>3. y \in Session /\ SameRow(sess[d], y) /\ y.revoked = b
    <3> HIDE DEF b
    <3> QED
      BY <2>2, Zenon DEF SameRow, Session
  <2> HIDE DEF y, S
  <2> QED
    BY <2>1, <2>3, Zenon
<1>3. S = [d \in Devices |-> S[d]]
  BY Zenon DEF RevokeAllUserSessionsExcept
<1>4. S \in [Devices -> Session]
  <2> HIDE DEF S
  <2> QED
    BY <1>2, <1>3, Zenon
<1> DEFINE z == [S[sid[1]] EXCEPT !.pw = w]
<1>5. sess' = [S EXCEPT ![sid[1]] = z]
  BY Zenon DEF KeptUnder
<1>6. sid[1] \in Devices =>
        /\ z \in Session
        /\ z.exists = S[sid[1]].exists /\ z.id = S[sid[1]].id
        /\ z.key = S[sid[1]].key /\ z.revoked = S[sid[1]].revoked /\ z.pw = w
  <2> HIDE DEF S
  <2> QED
    BY <1>4, Zenon DEF Session
<1> HIDE DEF S, z
<1>7. sess' \in [Devices -> Session]
  BY <1>4, <1>5, <1>6, Zenon
<1>8. ASSUME NEW d \in Devices
      PROVE  /\ sess'[d].exists = S[d].exists /\ sess'[d].id = S[d].id
             /\ sess'[d].key = S[d].key /\ sess'[d].revoked = S[d].revoked
             /\ d = sid[1] => sess'[d].pw = w
  BY <1>4, <1>5, <1>6, Zenon
<1> QED
  BY <1>2, <1>7, <1>8 DEF SameRow
-----------------------------------------------------------------------------
(* Core is kept: the steps that remove tokens or none                      *)

\* A step that leaves auth_sessions alone.
LEMMA SameTables ==
    ASSUME Core, sess' = sess
    PROVE  sess' \in [Devices -> Session] /\ RowsKeep
BY Zenon DEF Core, TypeOK, RowsKeep

\* A handler that moves on keeps the rest of what it holds.
Moved(q, p, pc) ==
    /\ q.pc = pc /\ q.sid = p.sid /\ q.pair = p.pair
    /\ q.new = p.new /\ q.pw = p.pw /\ q.outcome = p.outcome

\* A request that moves on keeps its locals.
LEMMA GotoIs ==
    ASSUME TypeOK, NEW r \in Requests, NEW pc \in PCs, Goto(r, pc)
    PROVE  \E q \in Request : req' = [req EXCEPT ![r] = q] /\ Moved(q, req[r], pc)
<1> DEFINE q == [req[r] EXCEPT !.pc = pc]
<1>1. req[r] \in Request
  BY Zenon DEF TypeOK
<1>2. q \in Request
  BY <1>1, RequestWith, Zenon
<1>3. req' = [req EXCEPT ![r] = q]
  BY Zenon DEF Goto
<1>4. Moved(q, req[r], pc)
  BY <1>1, Zenon DEF Moved, Request
<1> HIDE DEF q
<1> QED
  BY <1>2, <1>3, <1>4, Zenon

\* A handler that returns relies on nothing.
LEMMA EndKeeps ==
    ASSUME Core, NEW r \in Requests, NEW o \in {"none", "invalid", "reuse"},
           NEW n \in Nat, n = 0 \/ n \in Delivered,
           req' = [req EXCEPT ![r] = Ended(o, n)],
           pairs' = pairs, access' \subseteq access, refresh' \subseteq refresh,
           sess' \in [Devices -> Session], RowsKeep, pwVer' \in Nat, overlap' \in BOOLEAN
    PROVE  Core'
<1> DEFINE q == Ended(o, n)
<1>1. /\ q \in Request
      /\ q.pc = "idle" /\ q.pair = n
  BY EndedIs
<1>2. req' = [req EXCEPT ![r] = q] /\ req'[r] = q
  BY Zenon DEF Core, TypeOK
<1> HIDE DEF q
<1>3. ReqOK(r)'
  BY <1>1, <1>2, Zenon DEF ReqOK, Delivered, RefreshSteps, MintSteps
<1> QED
  BY <1>1, <1>2, <1>3, ShrinkKeeps, Zenon

\* What every step that begins, ends or moves a handler leaves alone.
Same == UNCHANGED <<sess, pairs, access, refresh, pwVer>>

\* A handler that begins, and is not a refresh, holds no refresh token.
LEMMA BeginKeeps ==
    ASSUME Core, NEW r \in Requests, NEW q \in Request, req' = [req EXCEPT ![r] = q],
           q.pair = 0, q.pc \notin MintSteps \cup RefreshSteps,
           q.sid[1] \in Devices \/ q.pc = "recover",
           Same, overlap' \in BOOLEAN
    PROVE  Core'
<1>1. req'[r] = q
  BY Zenon DEF Core, TypeOK
<1>2. ReqOK(r)'
  BY <1>1, Zenon DEF ReqOK, RefreshSteps, MintSteps
<1>3. pwVer' \in Nat /\ pairs' = pairs /\ access' \subseteq access /\ refresh' \subseteq refresh
  BY Zenon DEF Same, Core, TypeOK
<1>4. sess' \in [Devices -> Session] /\ RowsKeep
  BY SameTables, Zenon DEF Same
<1> QED
  BY <1>2, <1>3, <1>4, ShrinkKeeps, Zenon

\* A login has checked its password.
LEMMA LoginCore ==
    ASSUME Core, overlap' \in BOOLEAN, NEW r \in Requests, NEW d \in Devices, Login(r, d)
    PROVE  Core'
<1> DEFINE q == [Begun("upsert", <<d, 0>>, 0) EXCEPT !.pw = pwVer]
<1>1. "upsert" \in PCs /\ <<d, 0>> \in Sids /\ 0 \in Nat /\ pwVer \in Nat
  BY Zenon DEF PCs, Sids, IssueSteps, Core, TypeOK
<1>2. q \in Request /\ q.pc = "upsert" /\ q.sid = <<d, 0>> /\ q.pair = 0
  BY <1>1, BegunUnder
<1>3. req' = [req EXCEPT ![r] = q] /\ Same
  BY Zenon DEF Login, Same, tokenVars
<1> HIDE DEF q
<1>4. q.sid[1] \in Devices /\ q.pc \notin MintSteps \cup RefreshSteps
  BY <1>2 DEF MintSteps, RefreshSteps
<1> QED
  BY <1>2, <1>3, <1>4, BeginKeeps, Zenon

\* Logout, TerminateSession, TerminateAllExceptCurrent, ChangeMasterPassword and
\* RecoveryTake.
LEMMA BegunCore ==
    ASSUME Core, overlap' \in BOOLEAN, NEW r \in Requests, NEW s \in Sids,
           NEW pc \in RevokeSteps, s[1] \in Devices \/ pc = "recover",
           req' = [req EXCEPT ![r] = Begun(pc, s, 0)], Same
    PROVE  Core'
<1> DEFINE q == Begun(pc, s, 0)
<1>1. pc \in PCs /\ 0 \in Nat
  BY Zenon DEF PCs
<1>2. q \in Request /\ q.pc = pc /\ q.sid = s /\ q.pair = 0
  BY <1>1, BegunIs
<1>3. req' = [req EXCEPT ![r] = q]
  BY Zenon
<1> HIDE DEF q
<1>4. q.pc \notin MintSteps \cup RefreshSteps
  BY <1>2, Zenon DEF MintSteps, RefreshSteps, RevokeSteps
<1> QED
  BY <1>2, <1>3, <1>4, BeginKeeps, Zenon

\* A step that leaves all tables alone.
LEMMA SameKeeps ==
    ASSUME Core, Same
    PROVE  /\ pairs' = pairs /\ access' \subseteq access /\ refresh' \subseteq refresh
           /\ sess' \in [Devices -> Session] /\ RowsKeep /\ pwVer' \in Nat
<1>1. sess' \in [Devices -> Session] /\ RowsKeep
  BY SameTables, Zenon DEF Same
<1> QED
  BY <1>1, Zenon DEF Same, Core, TypeOK

\* Refresh finds the presented token's row, or refuses.
LEMMA ValidateCore ==
    ASSUME Core, overlap' \in BOOLEAN, NEW r \in Requests, NEW n \in DOMAIN pairs,
           RefreshValidate(r, n)
    PROVE  Core'
<1>1. Same /\ n \in Delivered /\ n \in Nat /\ n # 0 /\ TypeOK
  BY Typed DEF RefreshValidate, Same, tokenVars, Core
<1>2. CASE GetAuthToken(refresh, n)
  <2> DEFINE q == Begun("readKey", SessionOf(n), n)
  <2>1. "readKey" \in PCs /\ SessionOf(n) \in Sids /\ SessionOf(n)[1] \in Devices
    BY <1>1, Typed, Zenon DEF PCs, Sids, RefreshSteps, SessionOf
  <2>2. q \in Request /\ q.pc = "readKey" /\ q.sid = SessionOf(n) /\ q.pair = n
    BY <1>1, <2>1, BegunIs
  <2>3. req' = [req EXCEPT ![r] = q]
    BY <1>2, Zenon DEF RefreshValidate
  <2> HIDE DEF q
  <2>4. req'[r] = q
    BY <1>1, <2>3, Zenon DEF TypeOK
  <2>5. ReqOK(r)'
    BY <1>1, <2>1, <2>2, <2>4, Zenon DEF ReqOK, Same, SessionOf, Delivered, MintSteps
  <2> QED
    BY <1>1, <2>2, <2>3, <2>5, SameKeeps, ShrinkKeeps, Zenon
<1>3. CASE ~GetAuthToken(refresh, n)
  <2>1. req' = [req EXCEPT ![r] = Ended("invalid", n)]
    BY <1>3, Zenon DEF RefreshValidate
  <2> QED
    BY <1>1, <2>1, SameKeeps, EndKeeps, Zenon
<1> QED
  BY <1>2, <1>3, Zenon

\* A handler that returns without an outcome.
LEMMA ReturnIs ==
    ASSUME NEW r \in Requests, Return(r)
    PROVE  /\ req' = [req EXCEPT ![r] = Ended("none", 0)]
           /\ "none" \in {"none", "invalid", "reuse"} /\ 0 \in Nat
BY Zenon DEF Return

\* Refresh compares the session's current key.
LEMMA ReadKeyCore ==
    ASSUME Core, overlap' \in BOOLEAN, NEW r \in Requests, RefreshReadKey(r)
    PROVE  Core'
<1> DEFINE key == GetSessionCurrentRefreshKey(req[r].sid)
<1>1. /\ Same /\ TypeOK /\ ReqOK(r) /\ req[r].pc = "readKey"
      /\ \/ key = {} /\ Return(r)
         \/ key = {req[r].pair} /\ Goto(r, "revokeOld")
         \/ key \notin {{}, {req[r].pair}} /\ Goto(r, "burn")
  BY Zenon DEF RefreshReadKey, Same, tokenVars, Core, ReqInv
<1>2. req[r].sid[1] \in Devices /\ (key # {} => HasRow(req[r].sid))
  BY <1>1, Zenon DEF ReqOK, GetSessionCurrentRefreshKey, GetSessionByID
<1> HIDE DEF key
<1>3. CASE Return(r)
  BY <1>1, <1>3, ReturnIs, SameKeeps, EndKeeps, Zenon
<1>4. ASSUME NEW pc \in {"revokeOld", "burn"}, key # {}, Goto(r, pc)
      PROVE  Core'
  <2>1. pc \in PCs
    BY Zenon DEF PCs, RefreshSteps
  <2>2. PICK q \in Request : req' = [req EXCEPT ![r] = q] /\ Moved(q, req[r], pc)
    BY <1>1, <1>4, <2>1, GotoIs, Zenon
  <2>3. req'[r] = q
    BY <1>1, <2>2, Zenon DEF TypeOK
  <2>4. ReqOK(r)'
    BY <1>1, <1>2, <1>4, <2>2, <2>3
       DEF Moved, ReqOK, Same, SessionOf, Delivered, MintSteps, RefreshSteps, HasRow
  <2> QED
    BY <1>1, <2>2, <2>4, SameKeeps, ShrinkKeeps, Zenon
<1> QED
  BY <1>1, <1>3, <1>4, Zenon

\* Refresh burns the session of a replayed token.
LEMMA BurnCore ==
    ASSUME Core, overlap' \in BOOLEAN, NEW r \in Requests, RefreshBurn(r)
    PROVE  Core'
<1>1. /\ req' = [req EXCEPT ![r] = Ended("reuse", 0)] /\ pairs' = pairs /\ pwVer' \in Nat
      /\ access' \subseteq access /\ refresh' \subseteq refresh /\ TypeOK
      /\ sess' = sess \/ sess' = RevokeAllUserSessions
  BY Zenon DEF RefreshBurn, DeleteByUser, Core, TypeOK
<1>2. sess' \in [Devices -> Session] /\ RowsKeep
  BY <1>1, SameTables, RevokedAll, Zenon DEF SameRow, RowsKeep
<1> QED
  BY <1>1, <1>2, EndKeeps, Zenon

\* Refresh revokes the old pair, ignoring errors.
LEMMA RevokeOldCore ==
    ASSUME Core, overlap' \in BOOLEAN, NEW r \in Requests, RefreshRevokeOld(r)
    PROVE  Core'
<1>1. /\ TypeOK /\ ReqOK(r) /\ req[r].pc = "revokeOld" /\ Goto(r, "clearOld")
      /\ sess' = sess /\ pairs' = pairs /\ access' \subseteq access
      /\ refresh' \subseteq refresh /\ pwVer' \in Nat
  BY Zenon DEF RefreshRevokeOld, DeleteAuthToken, Core, ReqInv, TypeOK
<1>2. PICK q \in Request : req' = [req EXCEPT ![r] = q] /\ Moved(q, req[r], "clearOld")
  BY <1>1, GotoIs, Zenon DEF PCs, RefreshSteps
<1>3. req'[r] = q
  BY <1>1, <1>2, Zenon DEF TypeOK
<1>4. ReqOK(r)'
  BY <1>1, <1>2, <1>3 DEF Moved, ReqOK, SessionOf, Delivered, MintSteps, RefreshSteps, HasRow
<1> QED
  BY <1>1, <1>2, <1>4, SameTables, ShrinkKeeps, Zenon

\* Refresh clears the session's tokens, ignoring errors.
LEMMA ClearOldCore ==
    ASSUME Core, overlap' \in BOOLEAN, NEW r \in Requests, RefreshClearOld(r)
    PROVE  Core'
<1>1. /\ TypeOK /\ ReqOK(r) /\ req[r].pc = "clearOld" /\ Goto(r, "upsert")
      /\ sess' = sess /\ pairs' = pairs /\ access' \subseteq access
      /\ refresh' \subseteq refresh /\ pwVer' \in Nat
  BY Zenon DEF RefreshClearOld, DeleteBySession, Core, ReqInv, TypeOK
<1>2. PICK q \in Request : req' = [req EXCEPT ![r] = q] /\ Moved(q, req[r], "upsert")
  BY <1>1, GotoIs, Zenon DEF PCs, IssueSteps
<1>3. req'[r] = q
  BY <1>1, <1>2, Zenon DEF TypeOK
<1>4. ReqOK(r)'
  BY <1>1, <1>2, <1>3 DEF Moved, ReqOK, SessionOf, Delivered, MintSteps, RefreshSteps, HasRow
<1> QED
  BY <1>1, <1>2, <1>4, SameTables, ShrinkKeeps, Zenon

\* What Issue's upsert makes of auth_sessions.
LEMMA UpsertTables ==
    ASSUME Core, NEW r \in Requests, IssueUpsert(r), NEW d, d = req[r].sid[1]
    PROVE  /\ d \in Devices /\ req[r].pc = "upsert"
           /\ pairs' = pairs /\ access' = access /\ refresh' = refresh /\ pwVer' = pwVer
           /\ sess' \in [Devices -> Session]
           /\ \A e \in Devices \ {d} : sess'[e] = sess[e]
           /\ sess'[d].exists /\ ~sess'[d].revoked
           /\ sess[d].exists => sess'[d].id = sess[d].id /\ sess'[d].key = sess[d].key
           /\ req[r].pair = 0 => sess'[d].pw = req[r].pw
           /\ req[r].pair # 0 => sess'[d].pw = sess[d].pw
<1>1. /\ TypeOK /\ ReqOK(r) /\ req[r].pc = "upsert"
      /\ pairs' = pairs /\ access' = access /\ refresh' = refresh /\ pwVer' = pwVer
  BY Zenon DEF IssueUpsert, tokenVars, Core, ReqInv
<1>2. d \in Devices
  BY <1>1, Zenon DEF ReqOK
<1>3. sess[d].pw \in Nat /\ req[r].pw \in Nat
  BY <1>1, <1>2, Typed, Zenon
<1>4. PICK w \in Nat : w = IF req[r].pair = 0 THEN req[r].pw ELSE sess[d].pw
  BY <1>3, Zenon
<1>5. sess' = OpenedUnder(d, w)
  <2>1. CASE req[r].pair = 0
    BY <1>4, <2>1, Zenon DEF IssueUpsert, OpenedUnder
  <2>2. CASE req[r].pair # 0
    <3>1. UpsertSession(d)[d].pw = w
      BY <1>1, <1>2, <1>4, <2>2, UpsertKeepsPw, Zenon
    <3> QED
      BY <2>2, <3>1, Zenon DEF IssueUpsert, OpenedUnder
  <2> QED
    BY <2>1, <2>2, Zenon
<1>6. /\ sess' \in [Devices -> Session]
      /\ \A e \in Devices \ {d} : sess'[e] = sess[e]
      /\ sess'[d].exists /\ ~sess'[d].revoked
      /\ sess[d].exists => sess'[d].id = sess[d].id /\ sess'[d].key = sess[d].key
      /\ sess'[d].pw = w
  BY <1>1, <1>2, <1>4, <1>5, Upserted, ZenonT(40)
<1> QED
  BY <1>1, <1>2, <1>4, <1>6, Zenon

\* Where IssueUpsert leaves its request.
Upsertion(q, p, s) ==
    q.pc = "clear" /\ q.sid = s /\ q.pair = p.pair /\ q.outcome = p.outcome

\* What it makes of the request: the number of the row it works on.
LEMMA UpsertRequest ==
    ASSUME Core, NEW r \in Requests, IssueUpsert(r), NEW d, d = req[r].sid[1]
    PROVE  \E q \in Request :
             req' = [req EXCEPT ![r] = q] /\ Upsertion(q, req[r], <<d, sess'[d].id>>)
<1>1. /\ TypeOK /\ req' = [req EXCEPT ![r].pc = "clear", ![r].sid = <<d, sess'[d].id>>]
      /\ d \in Devices /\ sess' \in [Devices -> Session]
  BY UpsertTables, Zenon DEF IssueUpsert, Core
<1>2. req[r] \in Request /\ req \in [Requests -> Request] /\ r \in Requests
  BY <1>1, Zenon DEF TypeOK
<1>3. PICK s \in Sids : s = <<d, sess'[d].id>>
  BY <1>1, Zenon DEF Sids, Session
<1>4. "clear" \in PCs
  BY Zenon DEF PCs, IssueSteps
<1> DEFINE q == [req[r] EXCEPT !.pc = "clear", !.sid = s]
<1>5. q \in Request
  BY <1>2, <1>3, <1>4, RequestWith, Zenon
<1>6. Upsertion(q, req[r], s)
  BY <1>2, Zenon DEF Request, Upsertion
<1>7. req' = [req EXCEPT ![r] = q]
  <2> DEFINE R == [req EXCEPT ![r].pc = "clear"]
  <2>1. /\ DOMAIN R = Requests /\ R[r] = [req[r] EXCEPT !.pc = "clear"]
        /\ \A p \in Requests \ {r} : R[p] = req[p]
    BY <1>2, Zenon
  <2>2. req' = [R EXCEPT ![r].sid = s]
    BY <1>1, <1>3, Zenon
  <2> HIDE DEF R
  <2>3. /\ DOMAIN req' = Requests /\ req'[r] = [R[r] EXCEPT !.sid = s]
        /\ \A p \in Requests \ {r} : req'[p] = R[p]
    BY <1>2, <2>1, <2>2, Zenon
  <2>4. req'[r] = q
    BY <2>1, <2>3, Zenon
  <2>5. req' = [p \in Requests |-> req'[p]]
    BY <2>1, <2>2, Zenon
  <2> HIDE DEF q
  <2> QED
    BY <1>2, <2>1, <2>3, <2>4, <2>5, Zenon
<1> HIDE DEF q
<1> QED
  BY <1>3, <1>5, <1>6, <1>7, Zenon

\* Issue opens or reopens the row.
LEMMA UpsertCore ==
    ASSUME Core, overlap' \in BOOLEAN, NEW r \in Requests, IssueUpsert(r)
    PROVE  Core'
<1>a. PICK d : d = req[r].sid[1]
  BY Zenon
<1>0. TypeOK /\ ReqOK(r) /\ d = req[r].sid[1]
  BY <1>a, Zenon DEF Core, ReqInv
<1>b. PICK q \in Request :
        req' = [req EXCEPT ![r] = q] /\ Upsertion(q, req[r], <<d, sess'[d].id>>)
  BY <1>0, UpsertRequest, Zenon
<1>1. /\ q \in Request /\ req' = [req EXCEPT ![r] = q]
      /\ q.pc = "clear" /\ q.sid = <<d, sess'[d].id>> /\ q.pair = req[r].pair
  BY <1>b, Zenon DEF Upsertion
<1>2. /\ d \in Devices /\ req[r].pc = "upsert"
      /\ pairs' = pairs /\ access' = access /\ refresh' = refresh /\ pwVer' = pwVer
      /\ sess' \in [Devices -> Session]
      /\ \A e \in Devices \ {d} : sess'[e] = sess[e]
      /\ sess'[d].exists
      /\ sess[d].exists => sess'[d].id = sess[d].id
  BY <1>0, UpsertTables, Zenon
<1>3. RowsKeep
  BY <1>2, Zenon DEF RowsKeep
<1>4. req'[r] = q /\ q.sid[1] = d
  BY <1>0, <1>1 DEF TypeOK
<1>5. q.pair # 0 => q.pair \in Delivered /\ q.sid = SessionOf(q.pair)
  BY <1>0, <1>1, <1>2, Typed DEF ReqOK, HasRow
<1>6. ReqOK(r)'
  BY <1>1, <1>2, <1>4, <1>5, Zenon DEF ReqOK, MintSteps, RefreshSteps, Delivered, SessionOf
<1> QED
  BY <1>0, <1>1, <1>2, <1>3, <1>6, ShrinkKeeps, Zenon DEF TypeOK

\* Issue clears the session's tokens, which no error is ignored of.
LEMMA ClearCore ==
    ASSUME Core, overlap' \in BOOLEAN, NEW r \in Requests, IssueClear(r)
    PROVE  Core'
<1>1. /\ TypeOK /\ ReqOK(r) /\ req[r].pc = "clear" /\ Goto(r, "mintAccess")
      /\ sess' = sess /\ pairs' = pairs /\ access' \subseteq access
      /\ refresh' \subseteq refresh /\ pwVer' \in Nat
  BY Zenon DEF IssueClear, DeleteBySession, Core, ReqInv, TypeOK
<1>2. PICK q \in Request : req' = [req EXCEPT ![r] = q] /\ Moved(q, req[r], "mintAccess")
  BY <1>1, GotoIs, Zenon DEF PCs, IssueSteps
<1>3. req'[r] = q
  BY <1>1, <1>2, Zenon DEF TypeOK
<1>4. \A n \in Live' : n \in DOMAIN pairs /\ SessionOf(n) # req[r].sid
  BY <1>1, Typed, Zenon DEF IssueClear, DeleteBySession, TokensOf, Live
<1>5. Own(r)' = {}
  BY <1>1, <1>2, <1>3, <1>4, Zenon DEF Own, SessionOf, Moved
<1>6. q.pair # 0 => q.pair \in Delivered /\ q.pair \notin Live'
  BY <1>1, <1>2, <1>4, Zenon DEF ReqOK, Moved
<1>7. ReqOK(r)'
  BY <1>1, <1>2, <1>3, <1>5, <1>6, Zenon DEF Moved, ReqOK, Delivered, MintSteps, RefreshSteps
<1> QED
  BY <1>1, <1>2, <1>7, SameTables, ShrinkKeeps, Zenon

\* A statement of Issue fails.
LEMMA ErrorCore ==
    ASSUME Core, overlap' \in BOOLEAN, NEW r \in Requests, IssueError(r)
    PROVE  Core'
<1>1. /\ Return(r) /\ sess' = sess /\ pairs' = pairs /\ access' \subseteq access
      /\ refresh' \subseteq refresh /\ pwVer' \in Nat
  BY Zenon DEF IssueError, DeleteAuthToken, Core, TypeOK
<1> QED
  BY <1>1, ReturnIs, SameTables, EndKeeps, Zenon

\* The process stops between two store calls.
LEMMA CrashCore ==
    ASSUME Core, overlap' \in BOOLEAN, NEW r \in Requests, Crash(r)
    PROVE  Core'
<1>1. Return(r) /\ Same
  BY Zenon DEF Crash, Same, tokenVars
<1> QED
  BY <1>1, ReturnIs, SameKeeps, EndKeeps, Zenon
\* Steps of the handlers that end sessions: they move on, or return, after
\* removing tokens or revoking rows.
LEMMA RevokingMoves ==
    ASSUME Core, overlap' \in BOOLEAN, NEW r \in Requests,
           NEW pc \in {"revokeRow", "revokeOthers"}, Goto(r, pc),
           req[r].pc \in {"revokeTokens", "dropOthers"}, sess' = sess, pairs' = pairs,
           access' \subseteq access, refresh' \subseteq refresh, pwVer' = pwVer
    PROVE  Core'
<1>1. TypeOK /\ ReqOK(r) /\ pc \in PCs /\ pwVer' \in Nat
  BY Zenon DEF Core, ReqInv, PCs, RevokeSteps, TypeOK
<1>2. PICK q \in Request : req' = [req EXCEPT ![r] = q] /\ Moved(q, req[r], pc)
  BY <1>1, GotoIs, Zenon
<1>3. req'[r] = q
  BY <1>1, <1>2, Zenon DEF TypeOK
<1>4. ReqOK(r)'
  BY <1>1, <1>2, <1>3, Zenon DEF Moved, ReqOK, MintSteps, RefreshSteps, Delivered
<1> QED
  BY <1>1, <1>2, <1>4, SameTables, ShrinkKeeps, Zenon

\* A revocation removes the tokens first.
LEMMA RevokeTokensCore ==
    ASSUME Core, overlap' \in BOOLEAN, NEW r \in Requests, RevokeTokens(r)
    PROVE  Core'
BY RevokingMoves, Zenon DEF RevokeTokens, DeleteBySession

\* TerminateAllExceptCurrent removes the others' tokens first.
LEMMA DropOthersCore ==
    ASSUME Core, overlap' \in BOOLEAN, NEW r \in Requests, DropOthers(r)
    PROVE  Core'
BY RevokingMoves, Zenon DEF DropOthers, DeleteByUser

\* A revocation marks rows and returns.
LEMMA RevokingEnds ==
    ASSUME Core, overlap' \in BOOLEAN, NEW r \in Requests, Return(r), pairs' = pairs,
           access' \subseteq access, refresh' \subseteq refresh, pwVer' \in Nat,
           sess' \in [Devices -> Session],
           \A d \in Devices : sess'[d].exists = sess[d].exists /\ sess'[d].id = sess[d].id
    PROVE  Core'
<1>1. RowsKeep
  BY Zenon DEF RowsKeep
<1> QED
  BY <1>1, ReturnIs, EndKeeps, Zenon

\* The session of a request has a session's form.
LEMMA SidOf ==
    ASSUME Core, NEW r \in Requests
    PROVE  TypeOK /\ req[r].sid \in Sids
BY Typed, Zenon DEF Core, Sids

\* The revocation of one session marks its row.
LEMMA RevokeRowCore ==
    ASSUME Core, overlap' \in BOOLEAN, NEW r \in Requests, RevokeRow(r)
    PROVE  Core'
<1>1. PICK s \in Sids : s = req[r].sid
  BY SidOf, Zenon
<1>2. TypeOK /\ sess' = RevokeSession(s) /\ Return(r) /\ UNCHANGED <<tokenVars, pwVer>>
  BY <1>1, SidOf, Zenon DEF RevokeRow
<1>3. /\ sess' \in [Devices -> Session]
      /\ \A d \in Devices : sess'[d].exists = sess[d].exists /\ sess'[d].id = sess[d].id
  BY <1>1, <1>2, Revoked, Zenon DEF SameRow
<1> QED
  BY <1>2, <1>3, RevokingEnds, Zenon DEF tokenVars, TypeOK

\* TerminateAllExceptCurrent marks the other rows.
LEMMA RevokeOthersCore ==
    ASSUME Core, overlap' \in BOOLEAN, NEW r \in Requests, RevokeOthers(r)
    PROVE  Core'
<1>1. PICK s \in Sids : s = req[r].sid
  BY SidOf, Zenon
<1>2. /\ TypeOK /\ sess' = RevokeAllUserSessionsExcept(s) /\ Return(r)
      /\ UNCHANGED <<tokenVars, pwVer>>
  BY <1>1, SidOf, Zenon DEF RevokeOthers
<1>3. /\ sess' \in [Devices -> Session]
      /\ \A d \in Devices : sess'[d].exists = sess[d].exists /\ sess'[d].id = sess[d].id
  BY <1>1, <1>2, RevokedExcept, Zenon DEF SameRow
<1> QED
  BY <1>2, <1>3, RevokingEnds, Zenon DEF tokenVars, TypeOK

\* ChangeMasterPassword revokes all sessions but its own.
LEMMA RotateCore ==
    ASSUME Core, overlap' \in BOOLEAN, NEW r \in Requests, RotatePassword(r)
    PROVE  Core'
<1>1. PICK s \in Sids : s = req[r].sid
  BY SidOf, Zenon
<1>2. PICK w \in Nat : w = pwVer + 1
  BY SidOf DEF TypeOK
<1>3. /\ TypeOK /\ sess' = KeptUnder(s, w)
      /\ Return(r) /\ pairs' = pairs /\ pwVer' = w
      /\ access' \subseteq access /\ refresh' \subseteq refresh
  BY <1>1, <1>2, SidOf, Zenon DEF RotatePassword, DeleteByUser, KeptUnder
<1>4. /\ sess' \in [Devices -> Session]
      /\ \A d \in Devices : sess'[d].exists = sess[d].exists /\ sess'[d].id = sess[d].id
  BY <1>1, <1>2, <1>3, Rotated, Zenon
<1> QED
  BY <1>2, <1>3, <1>4, RevokingEnds, Zenon

\* RecoveryComplete revokes all sessions.
LEMMA RecoveryCore ==
    ASSUME Core, overlap' \in BOOLEAN, NEW r \in Requests, RecoveryComplete(r)
    PROVE  Core'
<1>1. /\ TypeOK /\ sess' = RevokeAllUserSessions /\ Return(r) /\ pairs' = pairs
      /\ pwVer' \in Nat /\ access' \subseteq access /\ refresh' \subseteq refresh
  BY SidOf DEF RecoveryComplete, DeleteByUser, TypeOK
<1>2. /\ sess' \in [Devices -> Session]
      /\ \A d \in Devices : sess'[d].exists = sess[d].exists /\ sess'[d].id = sess[d].id
  BY <1>1, RevokedAll, Zenon DEF SameRow
<1> QED
  BY <1>1, <1>2, RevokingEnds, Zenon

\* Every step of a revocation keeps Core.
LEMMA RevokeStepCore ==
    ASSUME Core, overlap' \in BOOLEAN, NEW r \in Requests, RevokeStep(r)
    PROVE  Core'
<1>0. TypeOK
  BY Zenon DEF Core
<1>1. ASSUME NEW n \in DOMAIN pairs,
             Logout(r, n) \/ TerminateAllExceptCurrent(r, n) \/ ChangeMasterPassword(r, n)
      PROVE  Core'
  <2>1. SessionOf(n) \in Devices \X Nat /\ Same
    BY <1>0, <1>1, Typed, Zenon
       DEF Logout, TerminateAllExceptCurrent, ChangeMasterPassword, SessionOf, Same, tokenVars
  <2>2. PICK s \in Sids : s = SessionOf(n) /\ s[1] \in Devices
    BY <2>1, Zenon DEF Sids
  <2>3. \E pc \in RevokeSteps : req' = [req EXCEPT ![r] = Begun(pc, s, 0)]
    BY <1>1, <2>2, Zenon
       DEF Logout, TerminateAllExceptCurrent, ChangeMasterPassword, RevokeSteps
  <2> QED
    BY <2>1, <2>2, <2>3, BegunCore, Zenon
<1>2. ASSUME NEW n \in DOMAIN pairs, NEW sid \in Devices \X (1..MaxRows),
             TerminateSession(r, n, sid)
      PROVE  Core'
  <2>1. sid \in Sids /\ sid[1] \in Devices /\ "revokeTokens" \in RevokeSteps
    BY ConstantsAssumption DEF Sids, RevokeSteps
  <2>2. req' = [req EXCEPT ![r] = Begun("revokeTokens", sid, 0)] /\ Same
    BY <1>2, Zenon DEF TerminateSession, Same, tokenVars
  <2> QED
    BY <2>1, <2>2, BegunCore, Zenon
<1>3. CASE RecoveryTake(r)
  <2>1. NoSession \in Sids /\ "recover" \in RevokeSteps
    BY Zenon DEF Sids, RevokeSteps, NoSession
  <2>2. req' = [req EXCEPT ![r] = Begun("recover", NoSession, 0)] /\ Same
    BY <1>3, Zenon DEF RecoveryTake, Same, tokenVars
  <2> QED
    BY <2>1, <2>2, BegunCore, Zenon
<1> QED
  BY <1>1, <1>2, <1>3, RevokeTokensCore, RevokeRowCore, DropOthersCore, RevokeOthersCore,
     RotateCore, RecoveryCore, Zenon DEF RevokeStep
-----------------------------------------------------------------------------
(* Core is kept: the steps that mint and hand out a pair                   *)

\* What minting an access token makes of the pairs.
LEMMA AccessTables ==
    ASSUME Core, NEW r \in Requests, IssueAccess(r), NEW n, n = Len(pairs) + 1
    PROVE  /\ pairs' \in Seq(Pair) /\ Len(pairs') = n /\ n \in Nat \ {0}
           /\ DOMAIN pairs' = DOMAIN pairs \cup {n} /\ n \notin DOMAIN pairs
           /\ \A k \in DOMAIN pairs : pairs'[k] = pairs[k]
           /\ pairs'[n].sid = req[r].sid /\ pairs'[n].by = r
           /\ ~pairs'[n].delivered /\ pairs'[n].used = 0
           /\ Live' = Live \cup {n} /\ access' = access \cup {n} /\ refresh' = refresh
           /\ sess' = sess /\ pwVer' = pwVer
           /\ req[r].pc = "mintAccess"
<1> DEFINE x == [sid |-> req[r].sid, by |-> r, delivered |-> FALSE, used |-> 0]
<1>1. TypeOK /\ ReqOK(r) /\ req[r].pc = "mintAccess"
  BY Zenon DEF IssueAccess, Core, ReqInv
<1>2. req[r].sid \in Devices \X Nat
  BY <1>1, Typed, Zenon DEF ReqOK
<1>3. x \in Pair
  BY <1>2, Zenon DEF Pair
<1>4. /\ pairs' = Append(pairs, x) /\ access' = access \cup {n} /\ refresh' = refresh
      /\ sess' = sess /\ pwVer' = pwVer
  BY Zenon DEF IssueAccess, UpsertAuthToken
<1>5. x.sid = req[r].sid /\ x.by = r /\ ~x.delivered /\ x.used = 0
  BY Zenon
<1> HIDE DEF x
<1>6. pairs \in Seq(Pair) /\ Len(pairs) \in Nat /\ DOMAIN pairs = 1..Len(pairs)
  BY <1>1, Typed, Zenon DEF TypeOK
<1>7. /\ pairs' \in Seq(Pair) /\ Len(pairs') = n /\ pairs'[n] = x
      /\ \A k \in 1..Len(pairs) : pairs'[k] = pairs[k]
  BY <1>3, <1>4, <1>6
<1>8. /\ DOMAIN pairs' = DOMAIN pairs \cup {n} /\ n \notin DOMAIN pairs /\ n \in Nat \ {0}
  BY <1>6, <1>7
<1> QED
  BY <1>1, <1>4, <1>5, <1>6, <1>7, <1>8, Zenon DEF Live

\* Issue mints the access token of a new pair.
LEMMA AccessCore ==
    ASSUME Core, overlap' \in BOOLEAN, NEW r \in Requests, IssueAccess(r)
    PROVE  Core'
<1>a. PICK n : n = Len(pairs) + 1
  BY Zenon
<1>1. /\ pairs' \in Seq(Pair) /\ Len(pairs') = n /\ n \in Nat \ {0}
      /\ DOMAIN pairs' = DOMAIN pairs \cup {n} /\ n \notin DOMAIN pairs
      /\ \A k \in DOMAIN pairs : pairs'[k] = pairs[k]
      /\ pairs'[n].sid = req[r].sid /\ pairs'[n].by = r
      /\ ~pairs'[n].delivered /\ pairs'[n].used = 0
      /\ Live' = Live \cup {n} /\ access' = access \cup {n} /\ refresh' = refresh
      /\ sess' = sess /\ pwVer' = pwVer
      /\ req[r].pc = "mintAccess"
  BY <1>a, AccessTables, Zenon
<1>2. TypeOK /\ PairInv /\ ReqOK(r) /\ Live \subseteq DOMAIN pairs
  BY Typed, Zenon DEF Core, ReqInv
<1>3. PICK q \in Request :
        /\ req' = [req EXCEPT ![r] = q]
        /\ q.pc = "mintRefresh" /\ q.new = n
        /\ q.sid = req[r].sid /\ q.pair = req[r].pair
  <2> DEFINE q == [req[r] EXCEPT !.pc = "mintRefresh", !.new = n]
  <2>1. req[r] \in Request /\ "mintRefresh" \in PCs /\ n \in Nat
    BY <1>1, <1>2, Zenon DEF TypeOK, PCs, IssueSteps
  <2>2. q \in Request
    BY <2>1, RequestWith, Zenon
  <2>3. q.pc = "mintRefresh" /\ q.new = n /\ q.sid = req[r].sid /\ q.pair = req[r].pair
    BY <2>1, Zenon DEF Request
  <2>4. req' = [req EXCEPT ![r] = q]
    BY <1>a, <1>2, Zenon DEF IssueAccess, TypeOK
  <2> HIDE DEF q
  <2> QED
    BY <2>2, <2>3, <2>4, Zenon
<1>4. req' \in [Requests -> Request] /\ req'[r] = q /\ \A p \in Requests \ {r} : req'[p] = req[p]
  BY <1>2, <1>3, Zenon DEF TypeOK
<1>5. TypeOK'
  BY <1>1, <1>2, <1>4 DEF TypeOK
<1>6. Own(r) = {} /\ (req[r].pair # 0 => req[r].pair \in Delivered /\ req[r].pair \notin Live)
  BY <1>1, <1>2, Zenon DEF ReqOK, MintSteps
<1>7. \A m \in Live : ~(pairs[m].sid = req[r].sid /\ pairs[m].by = r)
  BY <1>6, Zenon DEF Own, SessionOf
<1>8. PairInv'
  <2>1. \A k \in DOMAIN pairs' : ~pairs'[k].delivered => pairs'[k].used = 0
    BY <1>1, <1>2, Zenon DEF PairInv
  <2>2. ExchangedIsDead'
    BY <1>1, <1>2, Zenon DEF PairInv, ExchangedIsDead
  <2>3. OnePairPerIssuer'
    BY <1>1, <1>2, <1>7 DEF PairInv, OnePairPerIssuer, SessionOf
  <2> QED
    BY <2>1, <2>2, <2>3, Zenon DEF PairInv
<1>9. Others({r})
  BY <1>1, <1>2, <1>4, Zenon DEF Others, HasRow
<1>10. Own(r)' \subseteq {n}
  BY <1>1, <1>2, <1>3, <1>4, <1>7 DEF Own, SessionOf
<1>11. q.pair # 0 => q.pair \in Delivered' /\ q.pair \notin Live'
  BY <1>1, <1>3, <1>6, Zenon DEF Delivered
<1>12. q.sid[1] \in Devices
  BY <1>1, <1>2, <1>3, Zenon DEF ReqOK
<1>13. ReqOK(r)'
  BY <1>1, <1>3, <1>4, <1>10, <1>11, <1>12, Zenon DEF ReqOK, RefreshSteps, MintSteps
<1> QED
  BY <1>5, <1>8, <1>9, <1>13, CoreKeeps, Zenon

\* Issue mints the refresh token of its pair.
LEMMA MintRefreshCore ==
    ASSUME Core, overlap' \in BOOLEAN, NEW r \in Requests, IssueRefresh(r)
    PROVE  Core'
<1>1. /\ TypeOK /\ PairInv /\ ReqOK(r) /\ req[r].pc = "mintRefresh" /\ Goto(r, "stamp")
      /\ sess' = sess /\ pairs' = pairs /\ access' = access /\ pwVer' = pwVer
      /\ refresh' = refresh \cup {req[r].new}
  BY Zenon DEF IssueRefresh, UpsertAuthToken, Core, ReqInv
<1>2. PICK q \in Request : req' = [req EXCEPT ![r] = q] /\ Moved(q, req[r], "stamp")
  BY <1>1, GotoIs, Zenon DEF PCs, IssueSteps
<1>3. PICK n : n = req[r].new
  BY Zenon
<1>4. /\ n \in DOMAIN pairs /\ pairs[n].by = r /\ pairs[n].sid = req[r].sid
      /\ ~pairs[n].delivered /\ Own(r) \subseteq {n} /\ req[r].sid[1] \in Devices
      /\ req[r].pair # 0 => req[r].pair \in Delivered /\ req[r].pair \notin Live
  BY <1>1, <1>3, Zenon DEF ReqOK, MintSteps
<1>5. Live' = Live \cup {n} /\ refresh' = refresh \cup {n}
  BY <1>1, <1>3, Zenon DEF Live
<1>6. req' \in [Requests -> Request] /\ req'[r] = q /\ \A p \in Requests \ {r} : req'[p] = req[p]
  BY <1>1, <1>2, Zenon DEF TypeOK
<1>7. TypeOK'
  BY <1>1, <1>4, <1>5, <1>6, Typed, Zenon DEF TypeOK
<1>8. \A m \in Live : pairs[m].sid = pairs[n].sid /\ pairs[m].by = pairs[n].by => m = n
  BY <1>4, Zenon DEF Own, SessionOf
<1>9. PairInv'
  <2>1. \A k \in DOMAIN pairs' : ~pairs'[k].delivered => pairs'[k].used = 0
    BY <1>1, Zenon DEF PairInv
  <2>2. ExchangedIsDead'
    BY <1>1, <1>4, <1>5, Zenon DEF PairInv, ExchangedIsDead
  <2>3. OnePairPerIssuer'
    BY <1>1, <1>5, <1>8 DEF PairInv, OnePairPerIssuer, SessionOf
  <2> QED
    BY <2>1, <2>2, <2>3, Zenon DEF PairInv
<1>10. Others({r})
  BY <1>1, <1>4, <1>5, <1>6, Zenon DEF Others, HasRow
<1>11. Own(r)' \subseteq {n}
  BY <1>1, <1>2, <1>4, <1>5, <1>6 DEF Own, SessionOf, Moved
<1>12. q.pair # 0 => q.pair \in Delivered' /\ q.pair \notin Live'
  BY <1>1, <1>2, <1>4, <1>5, Zenon DEF Delivered, Moved
<1>13. ReqOK(r)'
  BY <1>1, <1>2, <1>3, <1>4, <1>6, <1>11, <1>12, Zenon DEF ReqOK, RefreshSteps, MintSteps, Moved
<1> QED
  BY <1>7, <1>9, <1>10, <1>13, CoreKeeps, Zenon

\* What handing the pair out makes of the pairs.
LEMMA StampTables ==
    ASSUME Core, NEW r \in Requests, IssueStamp(r)
    PROVE  /\ pairs' \in Seq(Pair) /\ Len(pairs') = Len(pairs) /\ DOMAIN pairs' = DOMAIN pairs
           /\ \A k \in DOMAIN pairs :
                /\ pairs'[k].sid = pairs[k].sid /\ pairs'[k].by = pairs[k].by
                /\ pairs'[k].delivered = (pairs[k].delivered \/ k = req[r].new)
                /\ k # req[r].pair => pairs'[k].used = pairs[k].used
           /\ access' = access /\ refresh' = refresh /\ pwVer' = pwVer /\ Live' = Live
<1>1. /\ TypeOK /\ access' = access /\ refresh' = refresh /\ pwVer' = pwVer
      /\ DOMAIN pairs = 1..Len(pairs) /\ Len(pairs) \in Nat
  BY Typed, Zenon DEF IssueStamp, Core
<1>2. PICK n, p : n = req[r].new /\ p = req[r].pair
  BY Zenon
<1>3. pairs' = [k \in DOMAIN pairs |->
                  [pairs[k] EXCEPT !.delivered = @ \/ k = n,
                                   !.used = IF k = p THEN @ + 1 ELSE @]]
  BY <1>2, Zenon DEF IssueStamp
<1>4. ASSUME NEW k \in DOMAIN pairs
      PROVE  /\ pairs'[k] \in Pair
             /\ pairs'[k].sid = pairs[k].sid /\ pairs'[k].by = pairs[k].by
             /\ pairs'[k].delivered = (pairs[k].delivered \/ k = n)
             /\ k # p => pairs'[k].used = pairs[k].used
  <2> DEFINE b == pairs[k].delivered \/ k = n
             u == IF k = p THEN pairs[k].used + 1 ELSE pairs[k].used
             y == [pairs[k] EXCEPT !.delivered = b, !.used = u]
  <2>1. pairs'[k] = y
    BY <1>3, Zenon
  <2>2. b \in BOOLEAN /\ u \in Nat /\ pairs[k] \in Pair /\ (k # p => u = pairs[k].used)
    BY <1>1, Typed
  <2>3. /\ y \in Pair /\ y.sid = pairs[k].sid /\ y.by = pairs[k].by
        /\ y.delivered = b /\ y.used = u
    <3> HIDE DEF b, u
    <3>1. \A x \in Pair, c \in BOOLEAN, v \in Nat :
            [x EXCEPT !.delivered = c, !.used = v] \in Pair
      BY Zenon DEF Pair
    <3>2. y \in Pair
      BY <2>2, <3>1, Zenon
    <3> QED
      BY <2>2, <3>2, Zenon DEF Pair
  <2> HIDE DEF y
  <2> QED
    BY <2>1, <2>2, <2>3, Zenon
<1>5. DOMAIN pairs' = 1..Len(pairs) /\ pairs' = [k \in 1..Len(pairs) |-> pairs'[k]]
  BY <1>1, <1>3, Zenon
<1>6. pairs' \in Seq(Pair) /\ Len(pairs') = Len(pairs)
  <2>1. pairs' \in [1..Len(pairs) -> Pair]
    BY <1>1, <1>4, <1>5, Zenon
  <2> QED
    BY <1>1, <2>1
<1> QED
  BY <1>1, <1>2, <1>4, <1>5, <1>6, Zenon DEF Live

\* Issue stamps the key and hands the pair out, which pays with the old one.
LEMMA StampCore ==
    ASSUME Core, overlap' \in BOOLEAN, NEW r \in Requests, IssueStamp(r)
    PROVE  Core'
<1>1. /\ TypeOK /\ PairInv /\ ReqOK(r) /\ req[r].pc = "stamp" /\ Return(r)
      /\ sess' = SetSessionCurrentRefreshKey(req[r].sid, req[r].new)
  BY Zenon DEF IssueStamp, Core, ReqInv
<1>2. /\ pairs' \in Seq(Pair) /\ Len(pairs') = Len(pairs) /\ DOMAIN pairs' = DOMAIN pairs
      /\ \A k \in DOMAIN pairs :
           /\ pairs'[k].sid = pairs[k].sid /\ pairs'[k].by = pairs[k].by
           /\ pairs'[k].delivered = (pairs[k].delivered \/ k = req[r].new)
           /\ k # req[r].pair => pairs'[k].used = pairs[k].used
      /\ access' = access /\ refresh' = refresh /\ pwVer' = pwVer /\ Live' = Live
  BY StampTables, Zenon
<1>3. PICK n \in Nat, s \in Sids : n = req[r].new /\ s = req[r].sid
  BY <1>1, Typed, SidOf, Zenon
<1>4. /\ sess' \in [Devices -> Session]
      /\ \A d \in Devices : sess'[d].exists = sess[d].exists /\ sess'[d].id = sess[d].id
  <2>1. sess' = SetSessionCurrentRefreshKey(s, n)
    BY <1>1, <1>3, Zenon
  <2> QED
    BY <1>1, <1>3, <2>1, StampedRow
<1>5. /\ n \in DOMAIN pairs /\ pairs[n].by = r /\ ~pairs[n].delivered
      /\ req[r].pair # 0 => req[r].pair \in Delivered /\ req[r].pair \notin Live
  BY <1>1, <1>3, Zenon DEF ReqOK, MintSteps
<1>6. /\ req' \in [Requests -> Request] /\ req'[r] = Ended("none", 0)
      /\ \A p \in Requests \ {r} : req'[p] = req[p]
  BY <1>1, ReturnIs, EndedIs DEF TypeOK
<1>7. TypeOK'
  BY <1>1, <1>2, <1>4, <1>6, Zenon DEF TypeOK
<1>8. Live \subseteq DOMAIN pairs /\ 0 \notin DOMAIN pairs
  BY <1>1, Typed
<1>9. PairInv'
  <2>1. ASSUME NEW k \in DOMAIN pairs', ~pairs'[k].delivered
        PROVE  pairs'[k].used = 0
    <3>1. k \in DOMAIN pairs /\ ~pairs[k].delivered
      BY <1>2, <2>1, Zenon
    <3>2. pairs[k].used = 0
      BY <1>1, <3>1, Zenon DEF PairInv
    <3>3. k # req[r].pair
      BY <1>5, <1>8, <3>1, Zenon DEF Delivered
    <3> QED
      BY <1>2, <3>1, <3>2, <3>3, Zenon
  <2>2. ExchangedIsDead'
    BY <1>1, <1>2, <1>5, <1>8 DEF PairInv, ExchangedIsDead
  <2>3. OnePairPerIssuer'
    BY <1>1, <1>2, <1>8 DEF PairInv, OnePairPerIssuer, SessionOf
  <2> QED
    BY <2>1, <2>2, <2>3, Zenon DEF PairInv
<1>10. Others({r})
  <2>1. \A k \in DOMAIN pairs : /\ k \in DOMAIN pairs'
                                /\ pairs'[k].sid = pairs[k].sid
                                /\ pairs'[k].by = pairs[k].by
                                /\ pairs[k].delivered => pairs'[k].delivered
                                /\ pairs'[k].delivered /\ pairs[k].by \notin {r}
                                   => pairs[k].delivered
    BY <1>2, <1>3, <1>5, Zenon
  <2> QED
    BY <1>2, <1>4, <1>6, <2>1, Zenon DEF Others, HasRow
<1>11. Ended("none", 0).pc = "idle" /\ Ended("none", 0).pair = 0
  BY EndedIs, Zenon
<1>12. ReqOK(r)'
  BY <1>6, <1>11, Zenon DEF ReqOK, RefreshSteps, MintSteps
<1> QED
  BY <1>7, <1>9, <1>10, <1>12, CoreKeeps, Zenon

-----------------------------------------------------------------------------
(* Core is kept: expiry and sessions_gc, then every step                   *)

\* A token expires.
LEMMA ExpireCore ==
    ASSUME Core, overlap' \in BOOLEAN, NEW n \in DOMAIN pairs,
           ExpireAccess(n) \/ ExpireRefresh(n)
    PROVE  Core'
<1>1. /\ TypeOK /\ pairs' = pairs /\ access' \subseteq access /\ refresh' \subseteq refresh
      /\ sess' = sess /\ pwVer' = pwVer /\ req' = req
  BY Zenon DEF ExpireAccess, ExpireRefresh, DeleteAuthToken, Core
<1>2. /\ Live' \subseteq Live /\ PairInv'
      /\ access' \in SUBSET (1..Len(pairs')) /\ refresh' \in SUBSET (1..Len(pairs'))
  BY <1>1, FewerTokens, Zenon
<1>3. TypeOK'
  BY <1>1, <1>2, Zenon DEF TypeOK
<1>4. Others({})
  BY <1>1, <1>2, Zenon DEF Others, HasRow
<1> QED
  BY <1>2, <1>3, <1>4, CoreKeeps, Zenon

\* sessions_gc removes a row no request is at work on.
LEMMA GCCore ==
    ASSUME Core, overlap' \in BOOLEAN, NEW d \in Devices, SessionsGC(d)
    PROVE  /\ Core'
           /\ \A e \in Devices \ {d} : sess'[e] = sess[e]
<1> DEFINE y == [sess[d] EXCEPT !.exists = FALSE, !.revoked = FALSE, !.key = 0, !.pw = 0]
<1>1. /\ TypeOK /\ pairs' = pairs /\ access' = access /\ refresh' = refresh
      /\ pwVer' = pwVer /\ req' = req /\ \A r \in Requests : req[r].sid[1] # d
      /\ sess' = [sess EXCEPT ![d] = y]
  BY Zenon DEF SessionsGC, Core, tokenVars
<1>2. sess[d] \in Session /\ sess \in [Devices -> Session]
  BY <1>1, Zenon DEF TypeOK
<1>3. y \in Session
  BY <1>2, Zenon DEF Session
<1> HIDE DEF y
<1>4. sess' \in [Devices -> Session] /\ \A e \in Devices \ {d} : sess'[e] = sess[e]
  BY <1>1, <1>2, <1>3, Zenon
<1>5. /\ Live' \subseteq Live /\ PairInv'
      /\ access' \in SUBSET (1..Len(pairs')) /\ refresh' \in SUBSET (1..Len(pairs'))
  BY <1>1, FewerTokens, Zenon
<1>6. TypeOK'
  BY <1>1, <1>4, <1>5, Zenon DEF TypeOK
<1>7. Others({})
  BY <1>1, <1>4, <1>5, Zenon DEF Others, HasRow
<1> QED
  BY <1>4, <1>5, <1>6, <1>7, CoreKeeps, Zenon

\* Every step keeps Core.
LEMMA CoreNext ==
    ASSUME Core, Next
    PROVE  Core'
<1>1. Step /\ overlap' \in BOOLEAN
  BY Zenon DEF Next, Core, TypeOK
<1>2. ASSUME NEW r \in Requests, IssueStep(r)
      PROVE  Core'
  BY <1>1, <1>2, UpsertCore, ClearCore, AccessCore, MintRefreshCore, StampCore, ErrorCore, Zenon
     DEF IssueStep
<1>3. ASSUME NEW r \in Requests, RefreshStep(r)
      PROVE  Core'
  BY <1>1, <1>3, ValidateCore, ReadKeyCore, BurnCore, RevokeOldCore, ClearOldCore, Zenon
     DEF RefreshStep
<1> QED
  BY <1>1, <1>2, <1>3, RevokeStepCore, LoginCore, CrashCore, ExpireCore, GCCore, Zenon DEF Step
-----------------------------------------------------------------------------
(* What a request relies on as long as no two have overlapped              *)

\* Tokens are only removed and no row is touched.
LEMMA FewerTables ==
    ASSUME TablesInv, pairs' = pairs, access' \subseteq access, refresh' \subseteq refresh,
           sess' = sess, pwVer' = pwVer
    PROVE  TablesInv' /\ Live' \subseteq Live
<1>1. Live' \subseteq Live
  BY Zenon DEF Live
<1>2. Delivered' = Delivered
  BY Zenon DEF Delivered
<1> QED
  BY <1>1, <1>2, Zenon DEF TablesInv, GetSessionByID, HasRow, SessionOf

\* A handler that has returned relies on nothing but its outcome.
LEMMA EndAlone ==
    ASSUME TypeOK, NEW r \in Requests, NEW n \in Nat, NEW o \in {"none", "invalid"},
           req' = [req EXCEPT ![r] = Ended(o, n)]
    PROVE  AloneOK(req[r])'
<1>1. req'[r] = Ended(o, n)
  BY Zenon DEF TypeOK
<1>2. Ended(o, n).pc = "idle" /\ Ended(o, n).outcome = o
  BY EndedIs
<1> QED
  BY <1>1, <1>2, Zenon DEF AloneOK, OnOpenRow, MintSteps

\* A request that has returned relies on nothing.
LEMMA ReturnAlone ==
    ASSUME TypeOK, NEW r \in Requests, Return(r)
    PROVE  AloneOK(req[r])'
BY ReturnIs, EndAlone, Zenon

\* What a request that moves on still has.
LEMMA GotoAlone ==
    ASSUME TypeOK, NEW r \in Requests, NEW pc \in PCs, Goto(r, pc)
    PROVE  Moved(req'[r], req[r], pc)
<1>1. PICK q \in Request : req' = [req EXCEPT ![r] = q] /\ Moved(q, req[r], pc)
  BY GotoIs, Zenon
<1>2. req'[r] = q
  BY <1>1, Zenon DEF TypeOK
<1> QED
  BY <1>1, <1>2, Zenon

\* A login knows the current password.
LEMMA LoginAlone ==
    ASSUME Core, TablesInv, NEW r \in Requests, NEW d \in Devices, Login(r, d)
    PROVE  AloneOK(req[r])' /\ TablesInv'
<1> DEFINE q == [Begun("upsert", <<d, 0>>, 0) EXCEPT !.pw = pwVer]
<1>1. TypeOK /\ "upsert" \in PCs /\ <<d, 0>> \in Sids /\ 0 \in Nat /\ pwVer \in Nat
  BY Zenon DEF PCs, Sids, IssueSteps, Core, TypeOK
<1>2. /\ q \in Request /\ q.pc = "upsert" /\ q.sid = <<d, 0>> /\ q.pair = 0
      /\ q.pw = pwVer /\ q.outcome = "none"
  BY <1>1, BegunUnder
<1>3. req'[r] = q /\ UNCHANGED <<sess, tokenVars, pwVer>>
  BY <1>1, Zenon DEF Login, TypeOK
<1> HIDE DEF q
<1>4. AloneOK(req[r])'
  BY <1>2, <1>3, Zenon DEF AloneOK, OnOpenRow, MintSteps
<1>5. TablesInv'
  BY <1>3, FewerTables, Zenon DEF tokenVars
<1> QED
  BY <1>4, <1>5, Zenon

\* A revocation or a recovery begins.
LEMMA BegunAlone ==
    ASSUME Core, TablesInv, NEW r \in Requests, NEW s \in Sids,
           NEW pc \in {"revokeTokens", "dropOthers", "rotate", "recover"},
           req' = [req EXCEPT ![r] = Begun(pc, s, 0)], Same
    PROVE  AloneOK(req[r])' /\ TablesInv'
<1> DEFINE q == Begun(pc, s, 0)
<1>1. TypeOK /\ pc \in PCs /\ 0 \in Nat
  BY Zenon DEF PCs, RevokeSteps, Core
<1>2. q.pc = pc /\ q.outcome = "none"
  BY <1>1, BegunIs
<1>3. req'[r] = q
  BY <1>1, Zenon DEF TypeOK
<1> HIDE DEF q
<1>4. AloneOK(req[r])'
  BY <1>2, <1>3, Zenon DEF AloneOK, OnOpenRow, MintSteps
<1>5. TablesInv'
  BY FewerTables, Zenon DEF Same
<1> QED
  BY <1>4, <1>5, Zenon

\* A valid refresh token is the stamped one of an open session.
LEMMA ValidateAlone ==
    ASSUME Core, TablesInv, NEW r \in Requests, NEW n \in DOMAIN pairs, RefreshValidate(r, n)
    PROVE  AloneOK(req[r])' /\ TablesInv'
<1>1. Same /\ n \in Delivered /\ n \in Nat /\ TypeOK
  BY Typed, Zenon DEF RefreshValidate, Same, tokenVars, Core
<1>2. TablesInv'
  BY <1>1, FewerTables, Zenon DEF Same
<1>3. CASE GetAuthToken(refresh, n)
  <2>0. PICK q : q = Begun("readKey", SessionOf(n), n)
    BY Zenon
  <2>1. "readKey" \in PCs /\ SessionOf(n) \in Sids
    BY <1>1, Typed, Zenon DEF PCs, Sids, RefreshSteps, SessionOf
  <2>2. q.pc = "readKey" /\ q.sid = SessionOf(n) /\ q.pair = n /\ q.outcome = "none"
    BY <1>1, <2>0, <2>1, BegunIs
  <2>3. req'[r] = q
    BY <1>1, <1>3, <2>0, Zenon DEF RefreshValidate, TypeOK
  <2>4. n \in Live /\ n \in refresh \cap Delivered
    BY <1>1, <1>3, Zenon DEF GetAuthToken, Live
  <2>5. OpenNow(SessionOf(n)) /\ sess[SessionOf(n)[1]].key = n
    BY <1>1, <2>4, Zenon DEF TablesInv, OpenNow
  <2>6. OpenNow(q.sid)' /\ sess'[q.sid[1]].key = n
    BY <1>1, <2>2, <2>5, Zenon DEF Same, OpenNow, GetSessionByID, HasRow
  <2> QED
    BY <1>2, <2>2, <2>3, <2>6, Zenon DEF AloneOK, MintSteps, OpenNow, GetSessionByID, HasRow
<1>4. CASE ~GetAuthToken(refresh, n)
  <2>1. req' = [req EXCEPT ![r] = Ended("invalid", n)]
    BY <1>4, Zenon DEF RefreshValidate
  <2> QED
    BY <1>1, <1>2, <2>1, EndAlone, Zenon
<1> QED
  BY <1>3, <1>4, Zenon
\* The key that is read is the one presented: nothing is taken for theft.
LEMMA ReadKeyAlone ==
    ASSUME Core, TablesInv, NEW r \in Requests, AloneOK(req[r]), RefreshReadKey(r)
    PROVE  AloneOK(req[r])' /\ TablesInv'
<1> DEFINE key == GetSessionCurrentRefreshKey(req[r].sid)
<1>1. /\ Same /\ TypeOK /\ ReqOK(r) /\ req[r].pc = "readKey"
      /\ \/ key = {} /\ Return(r)
         \/ key = {req[r].pair} /\ Goto(r, "revokeOld")
         \/ key \notin {{}, {req[r].pair}} /\ Goto(r, "burn")
  BY Zenon DEF RefreshReadKey, Same, tokenVars, Core, ReqInv
<1>2. req[r].sid[1] \in Devices /\ OpenNow(req[r].sid) /\ sess[req[r].sid[1]].key = req[r].pair
  BY <1>1, Zenon DEF ReqOK, AloneOK, OnOpenRow
<1>3. key = {req[r].pair}
  BY <1>2, Zenon DEF GetSessionCurrentRefreshKey, OpenNow
<1>4. Goto(r, "revokeOld")
  BY <1>1, <1>3, Zenon
<1>5. Moved(req'[r], req[r], "revokeOld")
  BY <1>1, <1>4, GotoAlone, Zenon DEF PCs, RefreshSteps
<1>6. AloneOK(req[r])'
  BY <1>1, <1>2, <1>5, Zenon
     DEF AloneOK, OnOpenRow, MintSteps, Moved, Same, OpenNow, GetSessionByID, HasRow
<1>7. TablesInv'
  BY <1>1, FewerTables, Zenon DEF Same
<1> QED
  BY <1>6, <1>7, Zenon

\* The steps of Refresh between the key it read and Issue.
LEMMA OldPairAlone ==
    ASSUME Core, TablesInv, NEW r \in Requests, AloneOK(req[r]),
           RefreshRevokeOld(r) \/ RefreshClearOld(r)
    PROVE  AloneOK(req[r])' /\ TablesInv'
<1>1. /\ TypeOK /\ ReqOK(r) /\ req[r].pc \in {"revokeOld", "clearOld"}
      /\ Goto(r, "clearOld") \/ Goto(r, "upsert")
      /\ sess' = sess /\ pairs' = pairs /\ access' \subseteq access
      /\ refresh' \subseteq refresh /\ pwVer' = pwVer
  BY Zenon DEF RefreshRevokeOld, RefreshClearOld, DeleteAuthToken, DeleteBySession, Core, ReqInv
<1>2. OpenNow(req[r].sid) /\ req[r].outcome # "reuse" /\ req[r].pair # 0
  BY <1>1, Zenon DEF AloneOK, OnOpenRow, ReqOK, RefreshSteps
<1>3. Moved(req'[r], req[r], "clearOld") \/ Moved(req'[r], req[r], "upsert")
  BY <1>1, GotoAlone, Zenon DEF PCs, RefreshSteps, IssueSteps
<1>4. OpenNow(req[r].sid)'
  BY <1>1, <1>2, <1>3, Zenon DEF OpenNow, GetSessionByID, HasRow, Moved
<1>5. AloneOK(req[r])'
  BY <1>2, <1>3, <1>4, Zenon DEF AloneOK, OnOpenRow, MintSteps, Moved
<1>6. TablesInv'
  BY <1>1, FewerTables, Zenon
<1> QED
  BY <1>5, <1>6, Zenon

\* The row is open, under the password of the login or of the old pair.
LEMMA UpsertAlone ==
    ASSUME Core, TablesInv, NEW r \in Requests, AloneOK(req[r]), IssueUpsert(r)
    PROVE  AloneOK(req[r])' /\ TablesInv'
<1>a. PICK d : d = req[r].sid[1]
  BY Zenon
<1>0. TypeOK /\ ReqOK(r) /\ d = req[r].sid[1]
  BY <1>a, Zenon DEF Core, ReqInv
<1>b. PICK q \in Request :
        req' = [req EXCEPT ![r] = q] /\ Upsertion(q, req[r], <<d, sess'[d].id>>)
  BY <1>0, UpsertRequest, Zenon
<1>1. /\ req'[r] = q /\ q.pc = "clear" /\ q.sid = <<d, sess'[d].id>>
      /\ q.outcome = req[r].outcome
  BY <1>0, <1>b, Zenon DEF Upsertion, TypeOK
<1>2. /\ d \in Devices /\ req[r].pc = "upsert"
      /\ pairs' = pairs /\ access' = access /\ refresh' = refresh /\ pwVer' = pwVer
      /\ \A e \in Devices \ {d} : sess'[e] = sess[e]
      /\ sess'[d].exists /\ ~sess'[d].revoked
      /\ sess[d].exists => sess'[d].id = sess[d].id /\ sess'[d].key = sess[d].key
      /\ req[r].pair = 0 => sess'[d].pw = req[r].pw
      /\ req[r].pair # 0 => sess'[d].pw = sess[d].pw
  BY <1>0, UpsertTables
<1>3. sess'[d].pw = pwVer
  BY <1>0, <1>2, Zenon DEF AloneOK, OnOpenRow, OpenNow
<1>4. AloneOK(req[r])'
  <2>1. OpenNow(q.sid)'
    BY <1>1, <1>2, <1>3 DEF OpenNow, GetSessionByID, HasRow
  <2>2. q.outcome # "reuse"
    BY <1>1, Zenon DEF AloneOK
  <2> QED
    BY <1>1, <2>1, <2>2, Zenon DEF AloneOK
<1>5. Live' = Live /\ Delivered' = Delivered
  BY <1>2, Zenon DEF Live, Delivered
<1>6. ASSUME NEW n \in Live
      PROVE  /\ GetSessionByID(SessionOf(n))'
             /\ sess'[SessionOf(n)[1]].key = sess[SessionOf(n)[1]].key
             /\ \/ sess'[SessionOf(n)[1]].pw = pwVer
                \/ sess'[SessionOf(n)[1]].pw = sess[SessionOf(n)[1]].pw
  <2>1. GetSessionByID(SessionOf(n)) /\ SessionOf(n)[1] \in Devices
    BY <1>0, Typed, Zenon DEF TablesInv, SessionOf
  <2> QED
    BY <1>2, <1>3, <2>1, Zenon DEF GetSessionByID, HasRow, SessionOf
<1>7. TablesInv'
  <2>1. TablesInv /\ refresh \subseteq Live
    BY Zenon DEF Live
  <2>2. \A n : SessionOf(n)' = SessionOf(n)
    BY <1>2, Zenon DEF SessionOf
  <2>3. \A n \in Live' : GetSessionByID(SessionOf(n))'
    BY <1>5, <1>6, Zenon
  <2>4. \A n \in (refresh \cap Delivered)' : (sess[SessionOf(n)[1]].key = n)'
    BY <1>2, <1>5, <1>6, <2>1, <2>2, Zenon DEF TablesInv
  <2>5. \A n \in (Live \cap Delivered)' : (sess[SessionOf(n)[1]].pw = pwVer)'
    BY <1>2, <1>5, <1>6, <2>1, <2>2, Zenon DEF TablesInv
  <2> QED
    BY <2>3, <2>4, <2>5, Zenon DEF TablesInv
<1> QED
  BY <1>4, <1>7, Zenon

\* Nothing is left of the session's tokens.
LEMMA ClearAlone ==
    ASSUME Core, TablesInv, NEW r \in Requests, AloneOK(req[r]), IssueClear(r)
    PROVE  AloneOK(req[r])' /\ TablesInv'
<1>1. /\ TypeOK /\ req[r].pc = "clear" /\ Goto(r, "mintAccess")
      /\ sess' = sess /\ pairs' = pairs /\ access' \subseteq access
      /\ refresh' \subseteq refresh /\ pwVer' = pwVer
  BY Zenon DEF IssueClear, DeleteBySession, Core
<1>2. Moved(req'[r], req[r], "mintAccess")
  BY <1>1, GotoAlone, Zenon DEF PCs, IssueSteps
<1>3. OpenNow(req[r].sid) /\ req[r].outcome # "reuse"
  BY <1>1, Zenon DEF AloneOK, OnOpenRow
<1>4. \A n \in Live' : SessionOf(n) # req[r].sid
  BY <1>1, Typed, Zenon DEF IssueClear, DeleteBySession, TokensOf, Live
<1>5. (LiveOf(req[r].sid) = {})'
  BY <1>1, <1>2, <1>4, Zenon DEF LiveOf, TokensOf, SessionOf, Moved
<1>6. OpenNow(req[r].sid)'
  BY <1>1, <1>2, <1>3, Zenon DEF OpenNow, GetSessionByID, HasRow, Moved
<1>7. AloneOK(req[r])'
  BY <1>2, <1>3, <1>5, <1>6, Zenon DEF AloneOK, OnOpenRow, MintSteps, Moved
<1> QED
  BY <1>1, <1>7, FewerTables, Zenon

\* The new pair is the only one of its session.
LEMMA AccessAlone ==
    ASSUME Core, TablesInv, NEW r \in Requests, AloneOK(req[r]), IssueAccess(r)
    PROVE  AloneOK(req[r])' /\ TablesInv'
<1>a. PICK n : n = Len(pairs) + 1
  BY Zenon
<1>1. /\ n \notin DOMAIN pairs /\ DOMAIN pairs' = DOMAIN pairs \cup {n}
      /\ \A k \in DOMAIN pairs : pairs'[k] = pairs[k]
      /\ pairs'[n].sid = req[r].sid /\ ~pairs'[n].delivered
      /\ Live' = Live \cup {n} /\ refresh' = refresh
      /\ sess' = sess /\ pwVer' = pwVer
      /\ req[r].pc = "mintAccess"
  BY <1>a, AccessTables, Zenon
<1>2. TypeOK /\ Live \subseteq DOMAIN pairs /\ refresh \subseteq Live
  BY Typed, Zenon DEF Core, Live
<1>3. /\ req'[r].pc = "mintRefresh" /\ req'[r].new = n
      /\ req'[r].sid = req[r].sid /\ req'[r].outcome = req[r].outcome
  <2>1. req[r] \in Request
    BY <1>2, Zenon DEF TypeOK
  <2>2. req'[r] = [req[r] EXCEPT !.pc = "mintRefresh", !.new = n]
    BY <1>a, <1>2, Zenon DEF IssueAccess, TypeOK
  <2> QED
    BY <2>1, <2>2, Zenon DEF Request
<1>4. OpenNow(req[r].sid) /\ LiveOf(req[r].sid) = {} /\ req[r].outcome # "reuse"
  BY <1>1, Zenon DEF AloneOK, OnOpenRow, MintSteps
<1>5. OpenNow(req[r].sid)'
  BY <1>1, <1>3, <1>4, Zenon DEF OpenNow, GetSessionByID, HasRow
<1>6. (LiveOf(req[r].sid) \subseteq {req[r].new})'
  BY <1>1, <1>2, <1>3, <1>4, Zenon DEF LiveOf, TokensOf, SessionOf
<1>7. AloneOK(req[r])'
  BY <1>3, <1>4, <1>5, <1>6, Zenon DEF AloneOK, OnOpenRow, MintSteps
<1>8. Delivered' = Delivered
  BY <1>1, Zenon DEF Delivered
<1>9. \A k \in Live' : GetSessionByID(SessionOf(k))'
  BY <1>1, <1>2, <1>4 DEF TablesInv, OpenNow, GetSessionByID, HasRow, SessionOf
<1>10. \A k \in Live \cap Delivered : SessionOf(k)' = SessionOf(k)
  BY <1>1, <1>2, Zenon DEF SessionOf
<1>11. n \notin Delivered
  BY <1>1, Zenon DEF Delivered
<1>12. TablesInv'
  BY <1>1, <1>2, <1>8, <1>9, <1>10, <1>11 DEF TablesInv
<1> QED
  BY <1>7, <1>12, Zenon

\* So it is with its refresh token.
LEMMA MintRefreshAlone ==
    ASSUME Core, TablesInv, NEW r \in Requests, AloneOK(req[r]), IssueRefresh(r)
    PROVE  AloneOK(req[r])' /\ TablesInv'
<1>1. /\ TypeOK /\ ReqOK(r) /\ req[r].pc = "mintRefresh" /\ Goto(r, "stamp")
      /\ sess' = sess /\ pairs' = pairs /\ access' = access /\ pwVer' = pwVer
      /\ refresh' = refresh \cup {req[r].new}
  BY Zenon DEF IssueRefresh, UpsertAuthToken, Core, ReqInv
<1>2. Moved(req'[r], req[r], "stamp")
  BY <1>1, GotoAlone, Zenon DEF PCs, IssueSteps
<1>3. PICK n : n = req[r].new
  BY Zenon
<1>4. n \in DOMAIN pairs /\ pairs[n].sid = req[r].sid /\ n \notin Delivered
  BY <1>1, <1>3, Zenon DEF ReqOK, Delivered
<1>5. Live' = Live \cup {n} /\ refresh' = refresh \cup {n} /\ Delivered' = Delivered
  BY <1>1, <1>3, Zenon DEF Live, Delivered
<1>6. OpenNow(req[r].sid) /\ LiveOf(req[r].sid) \subseteq {n} /\ req[r].outcome # "reuse"
  BY <1>1, <1>3, Zenon DEF AloneOK, OnOpenRow, MintSteps
<1>7. OpenNow(req[r].sid)'
  BY <1>1, <1>2, <1>6, Zenon DEF OpenNow, GetSessionByID, HasRow, Moved
<1>8. (LiveOf(req[r].sid) \subseteq {req[r].new})'
  BY <1>1, <1>2, <1>3, <1>5, <1>6, Zenon DEF LiveOf, TokensOf, SessionOf, Moved
<1>9. AloneOK(req[r])'
  BY <1>2, <1>6, <1>7, <1>8, Zenon DEF AloneOK, OnOpenRow, MintSteps, Moved
<1>10. TablesInv'
  BY <1>1, <1>4, <1>5, <1>6, Zenon DEF TablesInv, OpenNow, GetSessionByID, HasRow, SessionOf
<1> QED
  BY <1>9, <1>10, Zenon

\* The pair handed out is the only live one of its session, and it is stamped.
LEMMA StampAlone ==
    ASSUME Core, TablesInv, NEW r \in Requests, AloneOK(req[r]), IssueStamp(r)
    PROVE  AloneOK(req[r])' /\ TablesInv'
<1>1. /\ TypeOK /\ ReqOK(r) /\ req[r].pc = "stamp" /\ Return(r)
      /\ sess' = SetSessionCurrentRefreshKey(req[r].sid, req[r].new)
  BY Zenon DEF IssueStamp, Core, ReqInv
<1>2. /\ DOMAIN pairs' = DOMAIN pairs
      /\ \A k \in DOMAIN pairs :
           /\ pairs'[k].sid = pairs[k].sid
           /\ pairs'[k].delivered = (pairs[k].delivered \/ k = req[r].new)
      /\ refresh' = refresh /\ pwVer' = pwVer /\ Live' = Live
  BY StampTables, Zenon
<1>3. PICK n \in Nat, s \in Sids : n = req[r].new /\ s = req[r].sid
  BY <1>1, Typed, SidOf, Zenon
<1>4. \A d \in Devices :
        /\ sess'[d].exists = sess[d].exists /\ sess'[d].id = sess[d].id
        /\ sess'[d].revoked = sess[d].revoked /\ sess'[d].pw = sess[d].pw
        /\ sess'[d].key = IF sess[d].exists /\ <<d, sess[d].id>> = s
                          THEN n ELSE sess[d].key
  <2>1. sess' = SetSessionCurrentRefreshKey(s, n)
    BY <1>1, <1>3, Zenon
  <2> QED
    BY <1>1, <1>3, <2>1, StampedRow, Zenon
<1>5. OpenNow(s) /\ LiveOf(s) \subseteq {n} /\ s[1] \in Devices
  BY <1>1, <1>3, Zenon DEF AloneOK, OnOpenRow, MintSteps, ReqOK
<1>6. Live \subseteq DOMAIN pairs /\ refresh \subseteq Live
  BY <1>1, Typed, Zenon DEF Live
<1>7. \A k \in Live : k \in Delivered' => k = n \/ k \in Delivered
  BY <1>2, <1>3, <1>6, Zenon DEF Delivered
<1>8. ASSUME NEW k \in Live
      PROVE  /\ SessionOf(k)[1] \in Devices /\ GetSessionByID(SessionOf(k))
             /\ SessionOf(k) = <<SessionOf(k)[1], sess[SessionOf(k)[1]].id>>
             /\ SessionOf(k)' = SessionOf(k)
             /\ SessionOf(k) = s => k = n
             /\ k = n => SessionOf(k) = s
  <2>1. k \in DOMAIN pairs /\ SessionOf(k) \in Devices \X Nat /\ GetSessionByID(SessionOf(k))
    BY <1>1, <1>6, Typed, Zenon DEF TablesInv, SessionOf
  <2>2. SessionOf(k) = s => k = n
    BY <1>5, <2>1, Zenon DEF LiveOf, TokensOf
  <2>3. k = n => SessionOf(k) = s
    BY <1>1, <1>3, Zenon DEF ReqOK, SessionOf
  <2>4. SessionOf(k)' = SessionOf(k)
    BY <1>2, <2>1, Zenon DEF SessionOf
  <2> QED
    BY <2>1, <2>2, <2>3, <2>4 DEF GetSessionByID, HasRow
<1>9. \A k \in Live : GetSessionByID(SessionOf(k))'
  BY <1>4, <1>8 DEF GetSessionByID, HasRow
<1>10. ASSUME NEW k \in refresh, k \in Delivered'
       PROVE  sess'[SessionOf(k)[1]].key = k
  <2>1. k \in Live /\ (k = n \/ k \in Delivered)
    BY <1>6, <1>7, <1>10, Zenon
  <2>2. sess[SessionOf(k)[1]].exists
    BY <1>8, <2>1, Zenon DEF GetSessionByID, HasRow
  <2>3. CASE k = n
    BY <1>4, <1>8, <2>1, <2>2, <2>3
  <2>4. CASE k # n
    <3>1. sess[SessionOf(k)[1]].key = k
      BY <2>1, <2>4, Zenon DEF TablesInv
    <3> QED
      BY <1>4, <1>8, <2>1, <2>4, <3>1, Zenon
  <2> QED
    BY <2>3, <2>4, Zenon
<1>11. \A k \in Live : k \in Delivered' => sess'[SessionOf(k)[1]].pw = pwVer
  BY <1>4, <1>5, <1>7, <1>8 DEF TablesInv, OpenNow
<1>12. TablesInv'
  BY <1>2, <1>6, <1>8, <1>9, <1>10, <1>11 DEF TablesInv
<1> QED
  BY <1>1, <1>12, ReturnAlone, Zenon

\* A handler that fails or dies leaves tables that agree.
LEMMA ErrorAlone ==
    ASSUME Core, TablesInv, NEW r \in Requests, IssueError(r) \/ Crash(r)
    PROVE  AloneOK(req[r])' /\ TablesInv'
<1>1. /\ TypeOK /\ Return(r) /\ sess' = sess /\ pairs' = pairs /\ access' \subseteq access
      /\ refresh' \subseteq refresh /\ pwVer' = pwVer
  BY Zenon DEF IssueError, Crash, DeleteAuthToken, Core, tokenVars
<1> QED
  BY <1>1, ReturnAlone, FewerTables, Zenon

\* No token of the session is left when its row is marked.
LEMMA RevokeTokensAlone ==
    ASSUME Core, TablesInv, NEW r \in Requests, AloneOK(req[r]), RevokeTokens(r)
    PROVE  AloneOK(req[r])' /\ TablesInv'
<1>1. /\ TypeOK /\ req[r].pc = "revokeTokens" /\ Goto(r, "revokeRow")
      /\ sess' = sess /\ pairs' = pairs /\ access' \subseteq access
      /\ refresh' \subseteq refresh /\ pwVer' = pwVer
  BY Zenon DEF RevokeTokens, DeleteBySession, Core
<1>2. Moved(req'[r], req[r], "revokeRow") /\ req[r].outcome # "reuse"
  BY <1>1, GotoAlone, Zenon DEF PCs, RevokeSteps, AloneOK
<1>3. \A n \in Live' : SessionOf(n) # req[r].sid
  BY <1>1, Typed, Zenon DEF RevokeTokens, DeleteBySession, TokensOf, Live
<1>4. (LiveOf(req[r].sid) = {})'
  BY <1>1, <1>2, <1>3, Zenon DEF LiveOf, TokensOf, SessionOf, Moved
<1>5. AloneOK(req[r])'
  BY <1>2, <1>4, Zenon DEF AloneOK, OnOpenRow, MintSteps, Moved
<1> QED
  BY <1>1, <1>5, FewerTables, Zenon

\* No token of the others is left when their rows are marked.
LEMMA DropOthersAlone ==
    ASSUME Core, TablesInv, NEW r \in Requests, AloneOK(req[r]), DropOthers(r)
    PROVE  AloneOK(req[r])' /\ TablesInv'
<1>1. /\ TypeOK /\ ReqOK(r) /\ req[r].pc = "dropOthers" /\ Goto(r, "revokeOthers")
      /\ sess' = sess /\ pairs' = pairs /\ access' \subseteq access
      /\ refresh' \subseteq refresh /\ pwVer' = pwVer
  BY Zenon DEF DropOthers, DeleteByUser, Core, ReqInv
<1>2. Moved(req'[r], req[r], "revokeOthers") /\ req[r].outcome # "reuse"
  BY <1>1, GotoAlone, Zenon DEF PCs, RevokeSteps, AloneOK
<1>3. \A n \in Live' : SessionOf(n) = req[r].sid
  BY <1>1, Typed, Zenon DEF DropOthers, DeleteByUser, DeleteAuthTokensByUser, Live
<1>4. (\A n \in Live : SessionOf(n) = req[r].sid)'
  BY <1>1, <1>2, <1>3, Zenon DEF SessionOf, Moved
<1>5. AloneOK(req[r])'
  BY <1>2, <1>4, Zenon DEF AloneOK, OnOpenRow, MintSteps, Moved
<1> QED
  BY <1>1, <1>5, FewerTables, Zenon

\* Rows are revoked that no live token belongs to.
LEMMA RevokingTables ==
    ASSUME TypeOK, TablesInv, pairs' = pairs, access' \subseteq access,
           refresh' \subseteq refresh,
           \A d \in Devices : /\ sess'[d].exists = sess[d].exists /\ sess'[d].id = sess[d].id
                              /\ sess'[d].key = sess[d].key,
           \A n \in Live' : /\ ~sess'[SessionOf(n)[1]].revoked
                            /\ \/ sess'[SessionOf(n)[1]].pw = pwVer'
                               \/ /\ pwVer' = pwVer
                                  /\ sess'[SessionOf(n)[1]].pw = sess[SessionOf(n)[1]].pw
    PROVE  TablesInv'
<1>1. Live' \subseteq Live /\ Live \subseteq DOMAIN pairs
  BY Typed, Zenon DEF Live
<1>2. Delivered' = Delivered /\ \A n : SessionOf(n)' = SessionOf(n)
  BY Zenon DEF Delivered, SessionOf
<1>3. \A n \in Live' : SessionOf(n)[1] \in Devices
  BY <1>1, Typed, Zenon DEF SessionOf
<1>4. \A n \in Live' : GetSessionByID(SessionOf(n))'
  BY <1>1, <1>2, <1>3 DEF TablesInv, GetSessionByID, HasRow
<1>5. \A n \in (refresh \cap Delivered)' : (sess[SessionOf(n)[1]].key = n)'
  BY <1>1, <1>2, <1>3, Zenon DEF TablesInv, Live
<1>6. \A n \in (Live \cap Delivered)' : (sess[SessionOf(n)[1]].pw = pwVer)'
  BY <1>1, <1>2, Zenon DEF TablesInv
<1> QED
  BY <1>4, <1>5, <1>6, Zenon DEF TablesInv

\* A live token's session has a row that is there and not revoked.
LEMMA LiveRow ==
    ASSUME TypeOK, TablesInv, NEW n \in Live
    PROVE  /\ n \in DOMAIN pairs /\ SessionOf(n)[1] \in Devices
           /\ sess[SessionOf(n)[1]].exists /\ ~sess[SessionOf(n)[1]].revoked
           /\ SessionOf(n) = <<SessionOf(n)[1], sess[SessionOf(n)[1]].id>>
<1>1. n \in DOMAIN pairs /\ SessionOf(n) \in Devices \X Nat /\ GetSessionByID(SessionOf(n))
  BY Typed, Zenon DEF TablesInv, SessionOf
<1> QED
  BY <1>1 DEF GetSessionByID, HasRow

\* So marking the row closes nothing that still authenticates.
LEMMA RevokeRowAlone ==
    ASSUME Core, TablesInv, NEW r \in Requests, AloneOK(req[r]), RevokeRow(r)
    PROVE  AloneOK(req[r])' /\ TablesInv'
<1>1. PICK s \in Sids : s = req[r].sid
  BY SidOf, Zenon
<1>2. /\ TypeOK /\ sess' = RevokeSession(s) /\ Return(r) /\ LiveOf(s) = {}
      /\ pairs' = pairs /\ access' = access /\ refresh' = refresh /\ pwVer' = pwVer
  BY <1>1, SidOf, Zenon DEF RevokeRow, AloneOK, tokenVars
<1>3. \A d \in Devices : /\ SameRow(sess[d], sess'[d])
                         /\ sess'[d].revoked =>
                              \/ sess[d].revoked
                              \/ sess[d].exists /\ <<d, sess[d].id>> = s
  BY <1>1, <1>2, Revoked, Zenon
<1>4. \A n \in Live : ~sess'[SessionOf(n)[1]].revoked
  BY <1>2, <1>3, LiveRow, Zenon DEF LiveOf, TokensOf
<1>5. Live' = Live
  BY <1>2, Zenon DEF Live
<1>6. \A n \in Live' : sess'[SessionOf(n)[1]].pw = sess[SessionOf(n)[1]].pw
  BY <1>2, <1>3, <1>5, LiveRow, Zenon DEF SameRow
<1>7. TablesInv'
  BY <1>2, <1>3, <1>4, <1>5, <1>6, RevokingTables, Zenon DEF SameRow
<1> QED
  BY <1>2, <1>7, ReturnAlone, Zenon

\* The same for the rows of the others.
LEMMA RevokeOthersAlone ==
    ASSUME Core, TablesInv, NEW r \in Requests, AloneOK(req[r]), RevokeOthers(r)
    PROVE  AloneOK(req[r])' /\ TablesInv'
<1>1. PICK s \in Sids : s = req[r].sid
  BY SidOf, Zenon
<1>2. /\ TypeOK /\ sess' = RevokeAllUserSessionsExcept(s) /\ Return(r)
      /\ \A n \in Live : SessionOf(n) = s
      /\ pairs' = pairs /\ access' = access /\ refresh' = refresh /\ pwVer' = pwVer
  BY <1>1, SidOf, Zenon DEF RevokeOthers, AloneOK, tokenVars
<1>3. \A d \in Devices : /\ SameRow(sess[d], sess'[d])
                         /\ sess'[d].revoked =>
                              \/ sess[d].revoked
                              \/ sess[d].exists /\ <<d, sess[d].id>> # s
  BY <1>1, <1>2, RevokedExcept, Zenon
<1>4. \A n \in Live : ~sess'[SessionOf(n)[1]].revoked
  BY <1>2, <1>3, LiveRow, Zenon
<1>5. Live' = Live
  BY <1>2, Zenon DEF Live
<1>6. \A n \in Live' : sess'[SessionOf(n)[1]].pw = sess[SessionOf(n)[1]].pw
  BY <1>2, <1>3, <1>5, LiveRow, Zenon DEF SameRow
<1>7. TablesInv'
  BY <1>2, <1>3, <1>4, <1>5, <1>6, RevokingTables, Zenon DEF SameRow
<1> QED
  BY <1>2, <1>7, ReturnAlone, Zenon

\* The caller's session is the only one left, and it knows the new password.
LEMMA RotateAlone ==
    ASSUME Core, TablesInv, NEW r \in Requests, AloneOK(req[r]), RotatePassword(r)
    PROVE  AloneOK(req[r])' /\ TablesInv'
<1>1. PICK s \in Sids : s = req[r].sid
  BY SidOf, Zenon
<1>2. PICK w \in Nat : w = pwVer + 1
  BY SidOf DEF TypeOK
<1>3. /\ TypeOK /\ sess' = KeptUnder(s, w)
      /\ Return(r) /\ pairs' = pairs /\ pwVer' = w /\ DeleteByUser(s)
      /\ access' \subseteq access /\ refresh' \subseteq refresh
      /\ ReqOK(r) /\ req[r].pc = "rotate"
  BY <1>1, <1>2, SidOf, Zenon DEF RotatePassword, DeleteByUser, KeptUnder, Core, ReqInv
<1>4. \A d \in Devices :
        /\ sess'[d].exists = sess[d].exists /\ sess'[d].id = sess[d].id
        /\ sess'[d].key = sess[d].key
        /\ d = s[1] => sess'[d].pw = w
        /\ sess'[d].revoked =>
             \/ sess[d].revoked
             \/ sess[d].exists /\ <<d, sess[d].id>> # s
  BY <1>1, <1>2, <1>3, Rotated, Zenon
<1>5. s # NoSession
  BY <1>1, <1>3, ConstantsAssumption DEF ReqOK, NoSession
<1>6. \A n \in Live' : n \in Live /\ SessionOf(n) = s
  BY <1>3, <1>5, Typed, Zenon DEF DeleteByUser, DeleteAuthTokensByUser, Live
<1>7. \A n \in Live' : ~sess'[SessionOf(n)[1]].revoked /\ sess'[SessionOf(n)[1]].pw = pwVer'
  BY <1>3, <1>4, <1>6, LiveRow
<1>8. TablesInv'
  BY <1>3, <1>4, <1>7, RevokingTables, Zenon
<1> QED
  BY <1>3, <1>8, ReturnAlone, Zenon

\* A recovery leaves no token at all.
LEMMA RecoveryAlone ==
    ASSUME Core, TablesInv, NEW r \in Requests, RecoveryComplete(r)
    PROVE  AloneOK(req[r])' /\ TablesInv'
<1>1. /\ TypeOK /\ Return(r) /\ DeleteByUser(NoSession) /\ pairs' = pairs
  BY SidOf, Zenon DEF RecoveryComplete
<1>2. Live' = {} /\ refresh' \subseteq Live'
  BY <1>1, Typed, Zenon DEF DeleteByUser, DeleteAuthTokensByUser, Live
<1>3. TablesInv'
  BY <1>2, Zenon DEF TablesInv
<1> QED
  BY <1>1, <1>3, ReturnAlone, Zenon
-----------------------------------------------------------------------------
(* Expiry and sessions_gc                                                  *)

\* A token expires beside the one request under way.
LEMMA ExpireAlone ==
    ASSUME Core, TablesInv, NEW n \in DOMAIN pairs, ExpireAccess(n) \/ ExpireRefresh(n),
           NEW r \in Requests, AloneOK(req[r])
    PROVE  AloneOK(req[r])' /\ TablesInv'
<1>1. /\ TypeOK /\ pairs' = pairs /\ access' \subseteq access /\ refresh' \subseteq refresh
      /\ sess' = sess /\ pwVer' = pwVer /\ req' = req
  BY Zenon DEF ExpireAccess, ExpireRefresh, DeleteAuthToken, Core
<1>2. Live' \subseteq Live /\ TablesInv'
  BY <1>1, FewerTables, Zenon
<1>3. \A s : LiveOf(s)' \subseteq LiveOf(s)
  BY <1>1, <1>2, Zenon DEF LiveOf, TokensOf, SessionOf
<1> QED
  BY <1>1, <1>2, <1>3, Zenon DEF AloneOK, OnOpenRow, OpenNow, GetSessionByID, HasRow, SessionOf

\* sessions_gc takes no row that a live token belongs to.
LEMMA GCTables ==
    ASSUME Core, TablesInv, NEW d \in Devices, SessionsGC(d), overlap' \in BOOLEAN
    PROVE  TablesInv'
<1>1. /\ TypeOK /\ pairs' = pairs /\ access' = access /\ refresh' = refresh
      /\ pwVer' = pwVer /\ DeleteExpiredSessions(d)
  BY Zenon DEF SessionsGC, Core, tokenVars
<1>2. \A e \in Devices \ {d} : sess'[e] = sess[e]
  BY GCCore, Zenon
<1>3. Live' = Live /\ Delivered' = Delivered
  BY <1>1, Zenon DEF Live, Delivered
<1>4. \A n \in Live : SessionOf(n)[1] \in Devices \ {d}
  <2> SUFFICES ASSUME NEW n \in Live, SessionOf(n)[1] = d
               PROVE  FALSE
    BY <1>1, LiveRow, Zenon
  <2>1. /\ n \in DOMAIN pairs /\ ~sess[d].revoked
        /\ SessionOf(n) = <<d, sess[d].id>>
    BY <1>1, LiveRow, Zenon
  <2> QED
    BY <1>1, <2>1, Zenon DEF DeleteExpiredSessions, TokensOf, Live
<1> QED
  BY <1>1, <1>2, <1>3, <1>4 DEF TablesInv, GetSessionByID, HasRow, SessionOf, Live

\* And none that the request under way works on.
LEMMA GCAlone ==
    ASSUME Core, NEW d \in Devices, SessionsGC(d), overlap' \in BOOLEAN,
           NEW r \in Requests, AloneOK(req[r])
    PROVE  AloneOK(req[r])'
<1>1. /\ pairs' = pairs /\ access' = access /\ refresh' = refresh
      /\ pwVer' = pwVer /\ req' = req /\ req[r].sid[1] # d /\ ReqOK(r)
  BY Zenon DEF SessionsGC, Core, tokenVars, ReqInv
<1>2. \A e \in Devices \ {d} : sess'[e] = sess[e]
  BY GCCore, Zenon
<1>3. Live' = Live
  BY <1>1, Zenon DEF Live
<1>4. req[r].pc \notin {"idle", "recover"} => sess'[req[r].sid[1]] = sess[req[r].sid[1]]
  BY <1>1, <1>2, Zenon DEF ReqOK
<1> QED
  BY <1>1, <1>3, <1>4, Zenon
     DEF AloneOK, OnOpenRow, MintSteps, OpenNow, GetSessionByID, HasRow, LiveOf, TokensOf, SessionOf

-----------------------------------------------------------------------------
(* Every step                                                              *)

\* The step of a request that is, or comes, under way: the others are idle.
LEMMA ActorAlone ==
    ASSUME AloneInv, ~overlap, Next, ~overlap', NEW r \in Requests,
           \A p \in Requests \ {r} : req'[p] = req[p],
           req[r].pc # "idle" \/ req'[r].pc # "idle",
           AloneOK(req[r])', TablesInv'
    PROVE  AloneInv'
<1>1. \A p, q \in UnderWay' : p = q
  BY Zenon DEF Next
<1>2. \A p, q \in UnderWay : p = q
  BY Zenon DEF AloneInv
<1>3. ASSUME NEW p \in Requests \ {r}
      PROVE  req[p].pc = "idle" /\ req[p].outcome # "reuse"
  <2>1. req[p].pc = "idle"
    <3>1. CASE req[r].pc # "idle"
      BY <1>2, <3>1, Zenon DEF UnderWay
    <3>2. CASE req'[r].pc # "idle"
      <4>1. req'[p].pc # "idle" => p \in UnderWay' /\ r \in UnderWay'
        BY <3>2, Zenon DEF UnderWay
      <4>2. req'[p] = req[p]
        BY Zenon
      <4> QED
        BY <1>1, <4>1, <4>2, Zenon
    <3> QED
      BY <3>1, <3>2, Zenon
  <2>2. AloneOK(req[p])
    BY Zenon DEF AloneInv
  <2> QED
    BY <2>1, <2>2, Zenon DEF AloneOK
<1>4. ASSUME NEW p \in Requests
      PROVE  AloneOK(req[p])'
  <2>1. CASE p = r
    BY <2>1, Zenon
  <2>2. CASE p # r
    <3>1. req'[p].pc = "idle" /\ req'[p].outcome # "reuse"
      BY <1>3, <2>2, Zenon
    <3> QED
      BY <3>1, Zenon DEF AloneOK, OnOpenRow, MintSteps
  <2> QED
    BY <2>1, <2>2, Zenon
<1> QED
  BY <1>1, <1>4, Zenon DEF AloneInv

\* The step of a refresh that is refused at once: the tables stay.
LEMMA RefusedAlone ==
    ASSUME Core, AloneInv, ~overlap, Next, ~overlap', NEW r \in Requests, Same,
           \A p \in Requests \ {r} : req'[p] = req[p], AloneOK(req[r])', TablesInv'
    PROVE  AloneInv'
<1>1. \A p, q \in UnderWay' : p = q
  BY Zenon DEF Next
<1>2. Live' = Live
  BY Zenon DEF Same, Live
<1>3. \A s : LiveOf(s)' = LiveOf(s)
  BY <1>2, Zenon DEF LiveOf, TokensOf, SessionOf, Same
<1>4. ASSUME NEW p \in Requests
      PROVE  AloneOK(req[p])'
  <2>1. CASE p = r
    BY <2>1, Zenon
  <2>2. CASE p # r
    <3>1. AloneOK(req[p]) /\ req'[p] = req[p]
      BY <2>2, Zenon DEF AloneInv
    <3> QED
      BY <1>2, <1>3, <3>1, Zenon
         DEF AloneOK, OnOpenRow, OpenNow, GetSessionByID, HasRow, Same, SessionOf
  <2> QED
    BY <2>1, <2>2, Zenon
<1> QED
  BY <1>1, <1>4, Zenon DEF AloneInv

\* Every step of Issue.
LEMMA IssueAlone ==
    ASSUME Core, TablesInv, NEW r \in Requests, AloneOK(req[r]), IssueStep(r)
    PROVE  AloneOK(req[r])' /\ TablesInv'
BY UpsertAlone, ClearAlone, AccessAlone, MintRefreshAlone, StampAlone, ErrorAlone, Zenon
   DEF IssueStep

\* Every step of Refresh.
LEMMA RefreshAlone ==
    ASSUME Core, TablesInv, NEW r \in Requests, AloneOK(req[r]), RefreshStep(r)
    PROVE  AloneOK(req[r])' /\ TablesInv'
<1>1. ~RefreshBurn(r)
  BY Zenon DEF RefreshBurn, AloneOK
<1> QED
  BY <1>1, ValidateAlone, ReadKeyAlone, OldPairAlone, Zenon DEF RefreshStep

\* Every step of a revocation.
LEMMA RevokeAlone ==
    ASSUME Core, TablesInv, NEW r \in Requests, AloneOK(req[r]), RevokeStep(r)
    PROVE  AloneOK(req[r])' /\ TablesInv'
<1>0. TypeOK
  BY Zenon DEF Core
<1>1. ASSUME NEW n \in DOMAIN pairs,
             Logout(r, n) \/ TerminateAllExceptCurrent(r, n) \/ ChangeMasterPassword(r, n)
      PROVE  AloneOK(req[r])' /\ TablesInv'
  <2>1. SessionOf(n) \in Devices \X Nat /\ Same
    BY <1>0, <1>1, Typed, Zenon
       DEF Logout, TerminateAllExceptCurrent, ChangeMasterPassword, SessionOf, Same, tokenVars
  <2>2. PICK s \in Sids : s = SessionOf(n)
    BY <2>1, Zenon DEF Sids
  <2>3. \E pc \in {"revokeTokens", "dropOthers", "rotate", "recover"} :
          req' = [req EXCEPT ![r] = Begun(pc, s, 0)]
    BY <1>1, <2>2, Zenon DEF Logout, TerminateAllExceptCurrent, ChangeMasterPassword
  <2> QED
    BY <2>1, <2>2, <2>3, BegunAlone, Zenon
<1>2. ASSUME NEW n \in DOMAIN pairs, NEW sid \in Devices \X (1..MaxRows),
             TerminateSession(r, n, sid)
      PROVE  AloneOK(req[r])' /\ TablesInv'
  <2>1. sid \in Sids
    BY ConstantsAssumption DEF Sids
  <2>2. req' = [req EXCEPT ![r] = Begun("revokeTokens", sid, 0)] /\ Same
    BY <1>2, Zenon DEF TerminateSession, Same, tokenVars
  <2> QED
    BY <2>1, <2>2, BegunAlone, Zenon
<1>3. CASE RecoveryTake(r)
  <2>1. NoSession \in Sids
    BY Zenon DEF Sids, NoSession
  <2>2. req' = [req EXCEPT ![r] = Begun("recover", NoSession, 0)] /\ Same
    BY <1>3, Zenon DEF RecoveryTake, Same, tokenVars
  <2> QED
    BY <2>1, <2>2, BegunAlone, Zenon
<1> QED
  BY <1>1, <1>2, <1>3, RevokeTokensAlone, RevokeRowAlone, DropOthersAlone, RevokeOthersAlone,
     RotateAlone, RecoveryAlone, Zenon DEF RevokeStep

\* One request moves at a step, and it is or comes under way, unless it is a
\* refresh that is refused at once.
LEMMA OneMoves ==
    ASSUME TypeOK, NEW r \in Requests,
           (\E d \in Devices : Login(r, d)) \/ IssueStep(r) \/ RefreshStep(r)
             \/ RevokeStep(r) \/ Crash(r)
    PROVE  /\ \A p \in Requests \ {r} : req'[p] = req[p]
           /\ \/ req[r].pc # "idle" \/ req'[r].pc # "idle"
              \/ Same
<1>1. CASE \E d \in Devices : Login(r, d)
  BY <1>1, Zenon DEF Login, Same, tokenVars, TypeOK
<1>2. CASE IssueStep(r)
  BY <1>2, Zenon DEF IssueStep, IssueUpsert, IssueClear, IssueAccess, IssueRefresh, IssueStamp,
              IssueError, Goto, Return, TypeOK
<1>3. CASE RefreshStep(r)
  BY <1>3, Zenon DEF RefreshStep, RefreshValidate, RefreshReadKey, RefreshBurn, RefreshRevokeOld,
              RefreshClearOld, Goto, Return, Same, tokenVars, TypeOK
<1>4. CASE RevokeStep(r)
  <2>1. CASE \/ RevokeTokens(r) \/ RevokeRow(r) \/ DropOthers(r) \/ RevokeOthers(r)
             \/ RotatePassword(r) \/ RecoveryComplete(r)
    BY <2>1, Zenon DEF RevokeTokens, RevokeRow, DropOthers, RevokeOthers, RotatePassword,
                RecoveryComplete, Goto, Return, TypeOK
  <2>2. CASE \/ \E n \in DOMAIN pairs :
                  \/ Logout(r, n)
                  \/ TerminateAllExceptCurrent(r, n)
                  \/ ChangeMasterPassword(r, n)
                  \/ \E sid \in Devices \X (1..MaxRows) : TerminateSession(r, n, sid)
             \/ RecoveryTake(r)
    BY <2>2, Zenon DEF Logout, TerminateAllExceptCurrent, ChangeMasterPassword, TerminateSession,
                RecoveryTake, Same, tokenVars, TypeOK
  <2> QED
    BY <1>4, <2>1, <2>2, Zenon DEF RevokeStep
<1>5. CASE Crash(r)
  BY <1>5, Zenon DEF Crash, Return, TypeOK
<1> QED
  BY <1>1, <1>2, <1>3, <1>4, <1>5, Zenon

\* Every step keeps AloneInv.
LEMMA AloneNext ==
    ASSUME SessionsInv, Next
    PROVE  AloneInv'
<1> SUFFICES ASSUME ~overlap'
             PROVE  AloneInv'
  BY Zenon DEF AloneInv
<1>1. Step /\ ~overlap /\ overlap' \in BOOLEAN /\ Core /\ AloneInv /\ TypeOK
  BY Zenon DEF Next, SessionsInv, Core, TypeOK
<1>2. TablesInv /\ \A p \in Requests : AloneOK(req[p])
  BY <1>1, Zenon DEF AloneInv
<1>3. ASSUME NEW r \in Requests,
             (\E d \in Devices : Login(r, d)) \/ IssueStep(r) \/ RefreshStep(r)
               \/ RevokeStep(r) \/ Crash(r)
      PROVE  AloneInv'
  <2>1. AloneOK(req[r])' /\ TablesInv'
    BY <1>1, <1>2, <1>3, LoginAlone, IssueAlone, RefreshAlone, RevokeAlone, ErrorAlone, Zenon
  <2>2. /\ \A p \in Requests \ {r} : req'[p] = req[p]
        /\ \/ req[r].pc # "idle" \/ req'[r].pc # "idle"
           \/ Same
    BY <1>1, <1>3, OneMoves, Zenon
  <2> QED
    BY <1>1, <2>1, <2>2, ActorAlone, RefusedAlone, Zenon
<1>4. ASSUME NEW n \in DOMAIN pairs, ExpireAccess(n) \/ ExpireRefresh(n)
      PROVE  AloneInv'
  <2>1. \A p \in Requests : AloneOK(req[p])'
    BY <1>1, <1>2, <1>4, ExpireAlone, Zenon
  <2>2. TablesInv'
    BY <1>1, <1>2, <1>4, FewerTables, Zenon DEF ExpireAccess, ExpireRefresh, DeleteAuthToken
  <2> QED
    BY <1>1, <2>1, <2>2, Zenon DEF Next, AloneInv
<1>5. ASSUME NEW d \in Devices, SessionsGC(d)
      PROVE  AloneInv'
  <2>1. \A p \in Requests : AloneOK(req[p])'
    BY <1>1, <1>2, <1>5, GCAlone, Zenon
  <2>2. TablesInv'
    BY <1>1, <1>2, <1>5, GCTables, Zenon
  <2> QED
    BY <1>1, <2>1, <2>2, Zenon DEF Next, AloneInv
<1> QED
  BY <1>1, <1>3, <1>4, <1>5, Zenon DEF Step

\* Empty tables satisfy the invariant.
LEMMA InitHolds ==
    ASSUME Init
    PROVE  SessionsInv
<1>1. \A r \in Requests : req[r] = Ended("none", 0)
  BY Zenon DEF Init
<1>2. Ended("none", 0) \in Request
  BY EndedIs, Zenon
<1>3. /\ Ended("none", 0).pc = "idle" /\ Ended("none", 0).pair = 0
      /\ Ended("none", 0).outcome = "none"
  BY EndedIs, Zenon
<1>4. pairs = <<>> /\ DOMAIN pairs = {} /\ Len(pairs) = 0 /\ Live = {} /\ refresh = {} /\ access = {}
  BY DEF Init, Live
<1>5. sess \in [Devices -> Session]
  BY Zenon DEF Init, Session
<1>6. req \in [Requests -> Request]
  BY <1>2, Zenon DEF Init
<1>7. TypeOK
  <2>1. pairs \in Seq(Pair)
    BY <1>4
  <2>2. pwVer \in Nat /\ overlap \in BOOLEAN
    BY Zenon DEF Init
  <2> QED
    BY <1>4, <1>5, <1>6, <2>1, <2>2, Zenon DEF TypeOK
<1>8. PairInv
  BY <1>4, Zenon DEF PairInv, ExchangedIsDead, OnePairPerIssuer
<1>9. ReqInv
  BY <1>1, <1>3, Zenon DEF ReqInv, ReqOK, RefreshSteps, MintSteps
<1>10. AloneInv
  BY <1>1, <1>3, <1>4, Zenon DEF AloneInv, UnderWay, AloneOK, OnOpenRow, MintSteps, TablesInv
<1> QED
  BY <1>7, <1>8, <1>9, <1>10, Zenon DEF SessionsInv, Core

\* A step that changes nothing keeps it.
LEMMA StutterKeeps ==
    ASSUME SessionsInv, UNCHANGED vars
    PROVE  SessionsInv'
<1>1. /\ sess' = sess /\ pairs' = pairs /\ access' = access /\ refresh' = refresh
      /\ pwVer' = pwVer /\ req' = req /\ overlap' = overlap
  BY Zenon DEF vars
<1>2. Live' = Live /\ Delivered' = Delivered /\ UnderWay' = UnderWay
  BY <1>1, Zenon DEF Live, Delivered, UnderWay
<1>3. TypeOK' /\ PairInv'
  BY <1>1, <1>2, Zenon DEF SessionsInv, Core, TypeOK, PairInv, ExchangedIsDead, OnePairPerIssuer, SessionOf
<1>4. ReqInv'
  <2> SUFFICES ASSUME NEW r \in Requests PROVE ReqOK(r)'
    BY Zenon DEF ReqInv
  <2>1. ReqOK(r)
    BY Zenon DEF SessionsInv, Core, ReqInv
  <2>2. Own(r)' = Own(r)
    BY <1>1, <1>2, Zenon DEF Own, SessionOf
  <2> QED
    BY <1>1, <1>2, <2>1, <2>2, Zenon DEF ReqOK, HasRow, SessionOf
<1>5. AloneInv'
  <2>1. CASE overlap
    BY <1>1, <2>1, Zenon DEF AloneInv
  <2>2. CASE ~overlap
    <3>1. /\ \A r, q \in UnderWay : r = q
          /\ \A r \in Requests : AloneOK(req[r])
          /\ TablesInv
      BY <2>2, Zenon DEF SessionsInv, AloneInv
    <3>2. TablesInv'
      BY <1>1, <1>2, <3>1, Zenon DEF TablesInv, GetSessionByID, HasRow, SessionOf
    <3>3. ASSUME NEW r \in Requests PROVE AloneOK(req[r])'
      <4>1. AloneOK(req[r])
        BY <3>1, Zenon
      <4>2. (LiveOf(req[r].sid))' = LiveOf(req[r].sid)
        BY <1>1, <1>2, Zenon DEF LiveOf, TokensOf, SessionOf
      <4>3. (OpenNow(req[r].sid))' <=> OpenNow(req[r].sid)
        BY <1>1, Zenon DEF OpenNow, GetSessionByID, HasRow
      <4> QED
        BY <1>1, <1>2, <4>1, <4>2, <4>3, Zenon DEF AloneOK, OnOpenRow, SessionOf
    <3> QED
      BY <1>2, <3>1, <3>2, <3>3, Zenon DEF AloneInv
  <2> QED
    BY <2>1, <2>2, Zenon
<1> QED
  BY <1>3, <1>4, <1>5, Zenon DEF SessionsInv, Core

\* The inductive invariant: what overlapping requests rely on, and what a request
\* that has had the tables for itself relies on beyond that.
LEMMA SessionsAlways == Spec => []SessionsInv
<1>1. Init => SessionsInv
  BY InitHolds, Zenon
<1>2. SessionsInv /\ [Next]_vars => SessionsInv'
  <2> SUFFICES ASSUME SessionsInv, [Next]_vars
               PROVE  SessionsInv'
    BY Zenon
  <2>1. CASE Next
    <3>1. Core'
      BY <2>1, CoreNext, Zenon DEF SessionsInv
    <3>2. AloneInv'
      BY <2>1, AloneNext, Zenon
    <3> QED
      BY <3>1, <3>2, Zenon DEF SessionsInv
  <2>2. CASE UNCHANGED vars
    BY <2>2, StutterKeeps, Zenon
  <2> QED
    BY <2>1, <2>2, Zenon
<1> QED
  BY <1>1, <1>2, PTL DEF Spec

\* A session never holds two live pairs that one request slot minted: Issue
\* clears the session before it mints, however many requests overlap.
THEOREM OnePairEach == Spec => []OnePairPerIssuer
<1>1. SessionsInv => OnePairPerIssuer
  BY Zenon DEF SessionsInv, Core, PairInv
<1> QED
  BY <1>1, SessionsAlways, PTL

\* A pair that has paid for a refresh has no valid token, although Refresh
\* ignores the errors of its own revocations: Issue's clear is not ignored.
THEOREM ExchangedPairsDie == Spec => []ExchangedIsDead
<1>1. SessionsInv => ExchangedIsDead
  BY Zenon DEF SessionsInv, Core, PairInv
<1> QED
  BY <1>1, SessionsAlways, PTL

\* Until two requests overlap, a token that authenticates belongs to a session
\* that its holder is shown, whatever handler died between which two store calls.
THEOREM LiveSessionsShown == Spec => []LiveMeansOpen
<1>1. SessionsInv => LiveMeansOpen
  <2> SUFFICES ASSUME SessionsInv, ~overlap, NEW n \in Live
               PROVE  /\ SessionOf(n) \in DOMAIN ListSessions(n)
                      /\ ListSessions(n)[SessionOf(n)]
    BY Zenon DEF LiveMeansOpen
  <2>1. TypeOK /\ TablesInv
    BY Zenon DEF SessionsInv, Core, AloneInv
  <2>2. SessionOf(n) \in ListUserSessions
    BY <2>1, LiveRow, Zenon DEF ListUserSessions
  <2> QED
    BY <2>2, Zenon DEF ListSessions
<1> QED
  BY <1>1, SessionsAlways, PTL

\* Until two requests overlap, a valid refresh token that was handed out is the
\* stamped one, and no refresh is answered ErrRefreshReuse.
THEOREM ValidTokensStamped == Spec => []ValidIsStamped
<1>1. SessionsInv => ValidIsStamped
  <2> SUFFICES ASSUME SessionsInv, ~overlap
               PROVE  /\ \A n \in refresh \cap Delivered :
                           GetSessionCurrentRefreshKey(SessionOf(n)) = {n}
                      /\ \A r \in Requests : req[r].outcome # "reuse"
    BY Zenon DEF ValidIsStamped
  <2>1. TypeOK /\ TablesInv /\ \A r \in Requests : AloneOK(req[r])
    BY Zenon DEF SessionsInv, Core, AloneInv
  <2>2. ASSUME NEW n \in refresh \cap Delivered
        PROVE  GetSessionCurrentRefreshKey(SessionOf(n)) = {n}
    <3>1. n \in Live
      BY Zenon DEF Live
    <3>2. /\ SessionOf(n)[1] \in Devices /\ GetSessionByID(SessionOf(n))
          /\ sess[SessionOf(n)[1]].key = n
      BY <2>1, <3>1, LiveRow, Zenon DEF TablesInv
    <3> QED
      BY <3>2, Zenon DEF GetSessionCurrentRefreshKey
  <2>3. \A r \in Requests : req[r].outcome # "reuse"
    BY <2>1, Zenon DEF AloneOK
  <2> QED
    BY <2>2, <2>3, Zenon
<1> QED
  BY <1>1, SessionsAlways, PTL

\* Until two requests overlap, every live token that was handed out belongs to a
\* session opened, or kept by a rotation, under the current master password.
THEOREM LiveTokensCurrent == Spec => []LiveKnowsPassword
<1>1. SessionsInv => LiveKnowsPassword
  BY Zenon DEF SessionsInv, AloneInv, TablesInv, LiveKnowsPassword
<1> QED
  BY <1>1, SessionsAlways, PTL
=============================================================================
