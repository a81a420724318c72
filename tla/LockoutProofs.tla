--------------------------- MODULE LockoutProofs ----------------------------
(***************************************************************************)
(* Proofs about Lockout for every set of requests, threshold and bound.    *)
(*                                                                         *)
(* None of the three invariants is inductive as it stands.  What a request *)
(* may still do depends on where it is, so each is strengthened by what is *)
(* known of the requests at each of their steps: how many are between the  *)
(* lock and the counter, how much each has spent, and who holds a recovery *)
(* session that was taken.                                                 *)
(***************************************************************************)
EXTENDS Lockout, FiniteSetTheorems, TLAPS

-----------------------------------------------------------------------------
(* Steps of one request                                                    *)

\* The request of slot r becomes q, the others stay.
Moves(r, q) == req' = [req EXCEPT ![r] = q]

\* What a move of one request leaves of the others.
LEMMA SlotMoves ==
    ASSUME TypeOK, NEW r \in Requests, NEW q, Moves(r, q)
    PROVE  /\ req'[r] = q
           /\ \A p \in Requests \ {r} : req'[p] = req[p]
           /\ q \in Request => req' \in [Requests -> Request]
  BY Zenon DEF TypeOK, Moves

\* Two subsets of a finite set that agree but for one element.
LEMMA OneMore ==
    ASSUME NEW S \in SUBSET Requests, NEW T \in SUBSET Requests, NEW r \in Requests,
           S \ {r} = T \ {r}
    PROVE  /\ Cardinality(S) \in Nat
           /\ Cardinality(T) \in Nat
           /\ r \in T /\ r \notin S => Cardinality(T) = Cardinality(S) + 1
           /\ r \notin T /\ r \in S => Cardinality(T) = Cardinality(S) - 1
           /\ (r \in T <=> r \in S) => Cardinality(T) = Cardinality(S)
<1>1. IsFiniteSet(S) /\ IsFiniteSet(T)
  BY ConstantsAssumption, FS_Subset, Zenon
<1>2. Cardinality(S) \in Nat /\ Cardinality(T) \in Nat
  BY <1>1, FS_CardinalityType, Zenon
<1>3. ASSUME r \in T, r \notin S
      PROVE  Cardinality(T) = Cardinality(S) + 1
  <2>1. T = S \cup {r}
    BY <1>3, Zenon
  <2> QED
    BY <1>1, <1>3, <2>1, FS_AddElement, Zenon
<1>4. ASSUME r \notin T, r \in S
      PROVE  Cardinality(T) = Cardinality(S) - 1
  <2>1. T = S \ {r}
    BY <1>4, Zenon
  <2> QED
    BY <1>1, <1>4, <2>1, FS_RemoveElement, Zenon
<1>5. ASSUME r \in T <=> r \in S
      PROVE  S = T
  BY <1>5
<1> QED
  BY <1>2, <1>3, <1>4, <1>5, Zenon

\* Two disjoint sets of requests are together no more than all of them.
LEMMA DisjointWithin ==
    ASSUME NEW S \in SUBSET Requests, NEW T \in SUBSET Requests, S \cap T = {}
    PROVE  /\ Cardinality(S) \in Nat
           /\ Cardinality(T) \in Nat
           /\ Cardinality(Requests) \in Nat
           /\ Cardinality(S) + Cardinality(T) <= Cardinality(Requests)
<1>1. IsFiniteSet(S) /\ IsFiniteSet(T) /\ IsFiniteSet(Requests)
  BY ConstantsAssumption, FS_Subset, Zenon
<1>2. Cardinality(S) \in Nat /\ Cardinality(T) \in Nat /\ Cardinality(Requests) \in Nat
  BY <1>1, FS_CardinalityType, Zenon
<1>3. Cardinality(S \cup T) = Cardinality(S) + Cardinality(T) - Cardinality(S \cap T)
  BY <1>1, FS_Union, Zenon
<1>4. Cardinality(S \cap T) = 0
  BY FS_EmptySet, Zenon
<1>5. Cardinality(S \cup T) <= Cardinality(Requests)
  BY <1>1, FS_Subset, Zenon
<1> QED
  BY <1>2, <1>3, <1>4, <1>5

-----------------------------------------------------------------------------
(* The guesses of one window                                               *)

N == Cardinality(Requests)

\* A wrong secret was checked and is not recorded yet.
IsPending(q, k) == q.pc = "record" /\ q.guessed /\ q.kind = k
\* The lock was read and the secret is not checked yet.
IsVerifying(q, k) == q.pc = "verify" /\ q.kind = k

Pending(f, k) == {r \in Requests : IsPending(f[r], k)}
Verifying(f, k) == {r \in Requests : IsVerifying(f[r], k)}

\* The guesses a window is worth without overlapping requests.
Allowance(c) == IF c.relock THEN 0 ELSE Threshold - 1

\* What is known of one counter while p wrong secrets wait to be recorded and
\* v requests have passed the lock.  Until the lock is armed every guess has
\* been recorded, is pending or was lost; an armed lock lets nobody in, so
\* each of the v may add one guess, and only one.
Counted(c, p, v) ==
    /\ c.lock = "none" => /\ ~c.relock
                          /\ c.failed < Threshold
                          /\ c.guesses <= c.failed + p + c.lost
    /\ c.lock = "lapsed" => /\ c.relock
                            /\ c.failed >= Threshold
                            /\ c.guesses <= p + c.lost
    /\ c.lock = "active" => c.failed >= Threshold
    /\ c.guesses + v <= Allowance(c) + N + c.lost

\* A request passes the lock: one more may guess.
LEMMA CountedBegin ==
    ASSUME NEW c \in Counter, NEW p \in Nat, NEW v \in Nat, N \in Nat,
           Counted(c, p, v), c.lock # "active", p + v + 1 <= N
    PROVE  Counted(c, p, v + 1)
  BY ConstantsAssumption DEF Counted, Counter, Allowance

\* A request that passed the lock ends without a guess.
LEMMA CountedLeave ==
    ASSUME NEW c \in Counter, NEW p \in Nat, NEW v \in Nat, N \in Nat,
           Counted(c, p, v)
    PROVE  Counted(c, p, v - 1)
  BY ConstantsAssumption DEF Counted, Counter, Allowance

\* A wrong secret is checked: the guess is pending.
LEMMA CountedGuess ==
    ASSUME NEW c \in Counter, NEW p \in Nat, NEW v \in Nat, N \in Nat,
           Counted(c, p, v)
    PROVE  Counted([c EXCEPT !.guesses = @ + 1], p + 1, v - 1)
  BY ConstantsAssumption DEF Counted, Counter, Allowance

\* The failure recorded may be a guess of this window or not.
LEMMA CountedFailed ==
    ASSUME NEW c \in Counter, NEW p \in Nat, NEW v \in Nat, N \in Nat,
           Counted(c, p, v), NEW o \in {p, p - 1}, p + v <= N
    PROVE  Counted(Failed(c), o, v)
  BY ConstantsAssumption DEF Counted, Counter, Allowance, Failed

\* A right secret resets the counter.
LEMMA CountedReset ==
    ASSUME NEW p \in Nat, NEW v \in Nat, N \in Nat, v <= N
    PROVE  Counted(ResetCounter, p, v)
  BY ConstantsAssumption DEF Counted, Counter, Allowance, ResetCounter

\* A guess whose recording failed is lost.
LEMMA CountedLost ==
    ASSUME NEW c \in Counter, NEW p \in Nat, NEW v \in Nat, N \in Nat,
           Counted(c, p, v)
    PROVE  Counted([c EXCEPT !.lost = @ + 1], p - 1, v)
  BY ConstantsAssumption DEF Counted, Counter, Allowance

\* The lock runs out and a new window begins.
LEMMA CountedLapse ==
    ASSUME NEW c \in Counter, NEW p \in Nat, NEW v \in Nat, N \in Nat,
           Counted(c, p, v), c.lock = "active", v <= N
    PROVE  Counted([c EXCEPT !.lock = "lapsed", !.guesses = 0, !.lost = 0,
                             !.relock = TRUE], p, v)
  BY ConstantsAssumption DEF Counted, Counter, Allowance

CountInv ==
    \A k \in Kinds :
        Counted(ctr[k], Cardinality(Pending(req, k)), Cardinality(Verifying(req, k)))

\* Requests are pending or verifying, not both.
LEMMA Disjoint ==
    ASSUME NEW f, NEW k
    PROVE  /\ Cardinality(Pending(f, k)) \in Nat
           /\ Cardinality(Verifying(f, k)) \in Nat
           /\ N \in Nat
           /\ Cardinality(Pending(f, k)) + Cardinality(Verifying(f, k)) <= N
<1>1. /\ Pending(f, k) \in SUBSET Requests
      /\ Verifying(f, k) \in SUBSET Requests
      /\ Pending(f, k) \cap Verifying(f, k) = {}
  BY Zenon DEF Pending, Verifying, IsPending, IsVerifying
<1> QED
  BY <1>1, DisjointWithin, Zenon DEF N

\* What a step of request r does to the two numbers.
LEMMA Recount ==
    ASSUME TypeOK, NEW r \in Requests, NEW q, Moves(r, q), NEW k
    PROVE  /\ IsPending(q, k) /\ ~IsPending(req[r], k) =>
                Cardinality(Pending(req', k)) = Cardinality(Pending(req, k)) + 1
           /\ ~IsPending(q, k) /\ IsPending(req[r], k) =>
                Cardinality(Pending(req', k)) = Cardinality(Pending(req, k)) - 1
           /\ (IsPending(q, k) <=> IsPending(req[r], k)) =>
                Cardinality(Pending(req', k)) = Cardinality(Pending(req, k))
           /\ IsVerifying(q, k) /\ ~IsVerifying(req[r], k) =>
                Cardinality(Verifying(req', k)) = Cardinality(Verifying(req, k)) + 1
           /\ ~IsVerifying(q, k) /\ IsVerifying(req[r], k) =>
                Cardinality(Verifying(req', k)) = Cardinality(Verifying(req, k)) - 1
           /\ (IsVerifying(q, k) <=> IsVerifying(req[r], k)) =>
                Cardinality(Verifying(req', k)) = Cardinality(Verifying(req, k))
<1>0. req'[r] = q /\ \A p \in Requests \ {r} : req'[p] = req[p]
  BY SlotMoves, Zenon
<1>1. /\ Pending(req, k) \in SUBSET Requests
      /\ Pending(req', k) \in SUBSET Requests
      /\ Pending(req, k) \ {r} = Pending(req', k) \ {r}
      /\ r \in Pending(req, k) <=> IsPending(req[r], k)
      /\ r \in Pending(req', k) <=> IsPending(q, k)
  BY <1>0 DEF Pending
<1>2. /\ Verifying(req, k) \in SUBSET Requests
      /\ Verifying(req', k) \in SUBSET Requests
      /\ Verifying(req, k) \ {r} = Verifying(req', k) \ {r}
      /\ r \in Verifying(req, k) <=> IsVerifying(req[r], k)
      /\ r \in Verifying(req', k) <=> IsVerifying(q, k)
  BY <1>0 DEF Verifying
<1> QED
  BY <1>1, <1>2, OneMore DEF IsPending, IsVerifying

-----------------------------------------------------------------------------
(* What a request has spent, and the recovery sessions                     *)

\* work is what the request has spent on the way to its pc; only the transaction
\* of RecoveryComplete holds a session, and only a wrong secret is a guess.
Sound(q, d) ==
    /\ q.pc \in {"verify", "verifyOld", "unknown"} => q.work = 0
    /\ q.pc = "record" => q.work = 1
    /\ q.pc = "pad" => d /\ q.work \in {0, 1}
    /\ q.pc # "idle" => q.answer = "ok"
    /\ q.answer = "unauthenticated" => q.work = 1 \/ (q.work = 2 /\ d)
    /\ q.answer = "locked" => q.work = 0
    /\ q.sess # 0 => q.pc = "rotate"
    /\ q.guessed => q.pc = "record"

WorkInv == \A r \in Requests : Sound(req[r], dummy)

\* The session a request holds is deleted and unspent.
Holds(q) == q.sess # 0 => /\ q.sess \in DOMAIN rsess
                          /\ rsess[q.sess].st = "gone"
                          /\ rsess[q.sess].uses = 0

\* Whoever holds a session holds it alone; one that can still be taken is
\* unspent.
SessInv ==
    /\ \A r \in Requests : Holds(req[r])
    /\ \A r, p \in Requests : req[r].sess # 0 /\ req[r].sess = req[p].sess => r = p
    /\ \A i \in DOMAIN rsess : /\ rsess[i].st # "gone" => rsess[i].uses = 0
                               /\ rsess[i].uses <= 1

LockInv == TypeOK /\ WorkInv /\ SessInv /\ CountInv

-----------------------------------------------------------------------------
(* Every step moves one request, or none                                   *)

\* The initial request is one.
LEMMA IdleIsRequest == IdleRequest \in Request
  BY DEF IdleRequest, Request, Kinds

\* Updates of a request that keep its type.
LEMMA RequestWith ==
    ASSUME NEW q \in Request, NEW w \in 0..2
    PROVE  /\ [q EXCEPT !.pc = "reset", !.work = w] \in Request
           /\ [q EXCEPT !.pc = "pad", !.work = w] \in Request
           /\ [q EXCEPT !.pc = "record", !.work = w] \in Request
           /\ [q EXCEPT !.pc = "rotate", !.work = w] \in Request
           /\ [q EXCEPT !.answer = "locked", !.work = w] \in Request
           /\ [q EXCEPT !.answer = "unauthenticated", !.work = w] \in Request
           /\ [q EXCEPT !.pc = "record", !.guessed = TRUE, !.work = w] \in Request
  BY Zenon DEF Request

\* The counters stay as typed.
LEMMA CountersTyped ==
    ASSUME TypeOK, Next
    PROVE  ctr' \in [Kinds -> Counter]
<1>1. ResetCounter \in Counter
  BY Zenon DEF ResetCounter, Counter
<1>2. ASSUME NEW c \in Counter PROVE Failed(c) \in Counter
  <2>1. ASSUME NEW n \in Nat, NEW l \in {"none", "active", "lapsed"}
        PROVE  [c EXCEPT !.failed = n, !.lock = l] \in Counter
    BY Zenon DEF Counter
  <2>2. c.failed + 1 \in Nat /\ c.lock \in {"none", "active", "lapsed"}
    BY DEF Counter
  <2> QED
    BY <2>1, <2>2, Zenon DEF Failed
<1>11. ASSUME NEW c \in Counter
       PROVE  /\ [c EXCEPT !.guesses = @ + 1] \in Counter
              /\ [c EXCEPT !.lost = @ + 1] \in Counter
  BY DEF Counter
<1>3. "login" \in Kinds /\ "recovery" \in Kinds
  BY Zenon DEF Kinds
<1>4. ASSUME NEW k \in Kinds, LockLapses(k) PROVE ctr' \in [Kinds -> Counter]
  <2>1. ctr[k] \in Counter
    BY Zenon DEF TypeOK
  <2>2. [ctr[k] EXCEPT !.lock = "lapsed", !.guesses = 0, !.lost = 0,
                       !.relock = TRUE] \in Counter
    BY <2>1, Zenon DEF Counter
  <2> QED
    BY <1>4, <2>2, Zenon DEF LockLapses, TypeOK
<1>5. ASSUME NEW r \in Requests, VerifyWrong(r) PROVE ctr' \in [Kinds -> Counter]
  <2>1. req[r].kind \in Kinds
    BY Zenon DEF TypeOK, Request
  <2> QED
    BY <1>5, <2>1, <1>11, Zenon DEF VerifyWrong, TypeOK
<1>6. ASSUME NEW r \in Requests, Abandon(r) PROVE ctr' \in [Kinds -> Counter]
  <2>1. req[r].kind \in Kinds
    BY Zenon DEF TypeOK, Request
  <2> QED
    BY <1>6, <2>1, <1>11, Zenon DEF Abandon, TypeOK
<1>7. ASSUME NEW r \in Requests, RecordFailed(r) PROVE ctr' \in [Kinds -> Counter]
  BY <1>2, <1>3, <1>7, Zenon DEF RecordFailed, RecordFailedLogin, RecordFailedRecovery, TypeOK
<1>8. ASSUME NEW r \in Requests, ResetFailed(r) PROVE ctr' \in [Kinds -> Counter]
  BY <1>1, <1>3, <1>8, Zenon DEF ResetFailed, ResetFailedLogin, ResetFailedRecovery, TypeOK
<1>9. ASSUME NEW r \in Requests, Rotate(r) PROVE ctr' \in [Kinds -> Counter]
  BY <1>1, <1>3, <1>9, Zenon DEF Rotate, UpsertUserAuth, TypeOK
<1>10. CASE UNCHANGED ctr
  BY <1>10, Zenon DEF TypeOK
<1> QED
  BY <1>4, <1>5, <1>6, <1>7, <1>8, <1>9, <1>10, Zenon
     DEF Next, ReadUserAuth, VerifyRight, PutSession, UnknownEmail, dummyAuthHash, Pad,
         ChangeMasterPassword, VerifyOldKey, RecoveryTake, SessionExpires, SessionSwept

\* A request that moves to a sound state of its own.
LEMMA MoveKeepsWork ==
    ASSUME TypeOK, WorkInv, NEW r \in Requests, NEW q \in Request, Moves(r, q),
           dummy' = dummy, Sound(q, dummy)
    PROVE  req' \in [Requests -> Request] /\ WorkInv'
  BY SlotMoves DEF WorkInv, Sound

\* A refusal is given after the work it promises.
LEMMA AnswerKeepsWork ==
    ASSUME TypeOK, WorkInv, NEW r \in Requests, dummy' = dummy,
           NEW code, NEW work, Answer(r, code, work),
           \/ code = "locked" /\ work = 0
           \/ code = "unauthenticated" /\ (work = 1 \/ (work = 2 /\ dummy))
    PROVE  req' \in [Requests -> Request] /\ WorkInv'
<1> DEFINE q == [IdleRequest EXCEPT !.answer = code, !.work = work]
<1>1. q \in Request
  <2>1. work \in 0..2
    OBVIOUS
  <2> QED
    BY <2>1, IdleIsRequest, RequestWith, Zenon
<1>2. Sound(q, dummy)
  BY Zenon DEF IdleRequest, Sound
<1>3. Moves(r, q)
  BY Zenon DEF Answer, Moves
<1> QED
  BY <1>1, <1>2, <1>3, MoveKeepsWork, Zenon

\* A handler returns without a refusal.
LEMMA ReturnKeepsWork ==
    ASSUME TypeOK, WorkInv, NEW r \in Requests, Return(r), dummy' = dummy
    PROVE  req' \in [Requests -> Request] /\ WorkInv'
<1>1. Sound(IdleRequest, dummy)
  BY Zenon DEF IdleRequest, Sound
<1>2. Moves(r, IdleRequest)
  BY Zenon DEF Return, Moves
<1> QED
  BY <1>1, <1>2, IdleIsRequest, MoveKeepsWork, Zenon

\* What a request has spent stays what its pc says.
LEMMA WorkKept ==
    ASSUME TypeOK, WorkInv, Next
    PROVE  /\ req' \in [Requests -> Request] /\ dummy' \in BOOLEAN
           /\ WorkInv'
<1>0. ASSUME NEW r \in Requests PROVE req[r] \in Request /\ Sound(req[r], dummy)
  BY Zenon DEF TypeOK, WorkInv
<1> DEFINE Kept == req' \in [Requests -> Request] /\ WorkInv'
<1>1. ASSUME NEW r \in Requests, NEW k \in Kinds, ReadUserAuth(r, k) PROVE Kept
  <2>1. CASE ctr[k].lock = "active"
    BY <1>1, <2>1, AnswerKeepsWork, Zenon DEF ReadUserAuth
  <2>2. CASE ctr[k].lock # "active"
    <3> DEFINE q == [IdleRequest EXCEPT !.pc = "verify", !.kind = k]
    <3>1. q \in Request
      BY IdleIsRequest, Zenon DEF Request
    <3>2. Sound(q, dummy)
      BY Zenon DEF IdleRequest, Sound
    <3> QED
      BY <1>1, <2>2, <3>1, <3>2, MoveKeepsWork, Zenon DEF ReadUserAuth, Moves
  <2> QED
    BY <2>1, <2>2, Zenon
<1>2. ASSUME NEW r \in Requests, VerifyRight(r) PROVE Kept
  <2> DEFINE q == [req[r] EXCEPT !.pc = "reset", !.work = @ + 1]
  <2>0. req[r].work = 0
    BY <1>0, <1>2, Zenon DEF VerifyRight, Sound
  <2>1. q \in Request
    <3>1. req[r].work + 1 \in 0..2
      BY <2>0
    <3> QED
      BY <1>0, <3>1, RequestWith, Zenon
  <2>3. Sound(q, dummy)
    BY <1>0, <1>2, <2>0 DEF VerifyRight, Sound
  <2>2. Moves(r, q)
    BY <1>2, Zenon DEF VerifyRight, VerifyAuthKey, Moves, TypeOK
  <2> QED
    BY <1>2, <2>1, <2>2, <2>3, MoveKeepsWork, Zenon DEF VerifyRight
<1>3. ASSUME NEW r \in Requests, VerifyWrong(r) PROVE Kept
  <2> DEFINE q == [req[r] EXCEPT !.pc = "record", !.guessed = TRUE, !.work = @ + 1]
  <2>0. req[r].work = 0
    BY <1>0, <1>3, Zenon DEF VerifyWrong, Sound
  <2>1. q \in Request
    <3>1. req[r].work + 1 \in 0..2
      BY <2>0
    <3> QED
      BY <1>0, <3>1, RequestWith, Zenon
  <2>3. Sound(q, dummy)
    BY <1>0, <1>3, <2>0 DEF VerifyWrong, Sound
  <2>2. Moves(r, q)
    BY <1>3, Zenon DEF VerifyWrong, Moves, TypeOK
  <2> QED
    BY <1>3, <2>1, <2>2, <2>3, MoveKeepsWork, Zenon DEF VerifyWrong
<1>4. ASSUME NEW r \in Requests, RecordFailed(r) PROVE Kept
  BY <1>0, <1>4, AnswerKeepsWork, Zenon DEF RecordFailed, Sound
<1>5. ASSUME NEW r \in Requests, ResetFailed(r) PROVE Kept
  <2>1. CASE req[r].kind = "login"
    BY <1>5, <2>1, ReturnKeepsWork, Zenon DEF ResetFailed
  <2>2. CASE req[r].kind # "login"
    <3> DEFINE q == [req[r] EXCEPT !.pc = "put"]
    <3>1. q \in Request /\ Sound(q, dummy)
      BY <1>0, <1>5, Zenon DEF ResetFailed, Request, Sound
    <3>2. Moves(r, q)
      BY <1>5, <2>2, Zenon DEF ResetFailed, Goto, Moves
    <3> QED
      BY <1>5, <3>1, <3>2, MoveKeepsWork, Zenon DEF ResetFailed
  <2> QED
    BY <2>1, <2>2, Zenon
<1>6. ASSUME NEW r \in Requests, PutSession(r) PROVE Kept
  BY <1>6, ReturnKeepsWork, Zenon DEF PutSession
<1>7. ASSUME NEW r \in Requests, UnknownEmail(r) PROVE Kept
  <2> DEFINE q == [IdleRequest EXCEPT !.pc = "unknown"]
  <2>1. q \in Request
    BY IdleIsRequest, Zenon DEF Request
  <2>2. Sound(q, dummy)
    BY Zenon DEF IdleRequest, Sound
  <2> QED
    BY <1>7, <2>1, <2>2, MoveKeepsWork, Zenon DEF UnknownEmail, Moves
<1>8. ASSUME NEW r \in Requests, dummyAuthHash(r) PROVE Kept
  <2> DEFINE w == IF dummy THEN req[r].work ELSE req[r].work + 1
             q == [req[r] EXCEPT !.pc = "pad", !.work = w]
  <2>1. req[r].work = 0 /\ req[r].answer = "ok"
    BY <1>0, <1>8, Zenon DEF dummyAuthHash, Sound
  <2>2. w \in {0, 1} /\ q \in Request
    <3>1. w \in {0, 1} /\ w \in 0..2
      BY <2>1
    <3> HIDE DEF w
    <3> QED
      BY <1>0, <3>1, RequestWith, Zenon
  <2>3. Moves(r, q)
    BY <1>8, Zenon DEF dummyAuthHash, Moves, TypeOK
  <2>4. Sound(q, dummy')
    BY <1>0, <1>8, <2>1, <2>2 DEF dummyAuthHash, Sound, Request
  <2>5. \A p \in Requests : Sound(req[p], dummy')
    BY <1>0, <1>8, Zenon DEF dummyAuthHash, Sound
  <2> QED
    BY <2>2, <2>3, <2>4, <2>5, SlotMoves DEF WorkInv
<1>9. ASSUME NEW r \in Requests, Pad(r) PROVE Kept
  BY <1>0, <1>9, AnswerKeepsWork DEF Pad, Sound
<1>10. ASSUME NEW r \in Requests, ChangeMasterPassword(r) PROVE Kept
  <2> DEFINE q == [IdleRequest EXCEPT !.pc = "verifyOld"]
  <2>1. q \in Request
    BY IdleIsRequest, Zenon DEF Request
  <2>2. Sound(q, dummy)
    BY Zenon DEF IdleRequest, Sound
  <2> QED
    BY <1>10, <2>1, <2>2, MoveKeepsWork, Zenon DEF ChangeMasterPassword, Moves
<1>11. ASSUME NEW r \in Requests, VerifyOldKey(r) PROVE Kept
  <2>1. PICK pc \in {"record", "rotate"} : VerifyAuthKey(r, pc)
    BY <1>11, Zenon DEF VerifyOldKey
  <2> DEFINE q == [req[r] EXCEPT !.pc = pc, !.work = @ + 1]
  <2>0. req[r].work = 0
    BY <1>0, <1>11, Zenon DEF VerifyOldKey, Sound
  <2>2. q \in Request
    <3>1. req[r].work + 1 \in 0..2
      BY <2>0
    <3> QED
      BY <1>0, <3>1, RequestWith, Zenon
  <2>3. Moves(r, q)
    BY <2>1, Zenon DEF VerifyAuthKey, Moves, TypeOK
  <2>4. Sound(q, dummy)
    BY <1>0, <1>11, <2>0 DEF VerifyOldKey, Sound
  <2> QED
    BY <1>11, <2>2, <2>3, <2>4, MoveKeepsWork, Zenon DEF VerifyOldKey
<1>12. ASSUME NEW r \in Requests, NEW i \in DOMAIN rsess, RecoveryTake(r, i) PROVE Kept
  <2>1. CASE rsess[i].st = "open"
    <3> DEFINE q == [IdleRequest EXCEPT !.pc = "rotate", !.sess = i]
    <3>1. i \in Nat
      BY DEF TypeOK
    <3>2. q \in Request
      BY <3>1, IdleIsRequest, Zenon DEF Request
    <3>3. Sound(q, dummy)
      BY Zenon DEF IdleRequest, Sound
    <3> QED
      BY <1>12, <2>1, <3>2, <3>3, MoveKeepsWork, Zenon DEF RecoveryTake, Moves
  <2>2. CASE rsess[i].st # "open"
    BY <1>12, <2>2, ReturnKeepsWork, Zenon DEF RecoveryTake, Return
  <2> QED
    BY <2>1, <2>2, Zenon
<1>13. ASSUME NEW r \in Requests, Rotate(r) PROVE Kept
  BY <1>13, ReturnKeepsWork, Zenon DEF Rotate
<1>14. ASSUME NEW r \in Requests, Abandon(r) PROVE Kept
  <2>1. CASE req[r].pc = "record"
    BY <1>0, <1>14, <2>1, AnswerKeepsWork, Zenon DEF Abandon, Sound
  <2>2. CASE req[r].pc # "record"
    BY <1>14, <2>2, ReturnKeepsWork, Zenon DEF Abandon
  <2> QED
    BY <2>1, <2>2, Zenon
<1>15. CASE UNCHANGED <<req, dummy>>
  BY <1>15, Zenon DEF TypeOK, WorkInv
<1>16. dummy' \in BOOLEAN
  BY Zenon DEF Next, ReadUserAuth, VerifyRight, VerifyWrong, RecordFailed, ResetFailed,
         PutSession, UnknownEmail, dummyAuthHash, Pad, ChangeMasterPassword,
         VerifyOldKey, RecoveryTake, Rotate, Abandon, LockLapses, SessionExpires,
         SessionSwept, TypeOK
<1>17. Kept
  BY <1>1, <1>2, <1>3, <1>4, <1>5, <1>6, <1>7, <1>8, <1>9, <1>10, <1>11, <1>12, <1>13,
     <1>14, <1>15, Zenon
     DEF Next, LockLapses, SessionExpires, SessionSwept
<1> QED
  BY <1>16, <1>17, Zenon

-----------------------------------------------------------------------------
(* Recovery sessions                                                       *)

\* Every step keeps what is known of the recovery sessions.
LEMMA SessKept ==
    ASSUME TypeOK, WorkInv, SessInv, Next
    PROVE  rsess' \in Seq(RecoverySession) /\ SessInv'
<1>0. /\ rsess \in Seq(RecoverySession)
      /\ \A r \in Requests : req[r] \in Request /\ req[r].sess \in Nat
      /\ \A i \in DOMAIN rsess : rsess[i] \in RecoverySession
      /\ DOMAIN rsess = 1..Len(rsess)
  BY DEF TypeOK, Request
<1> DEFINE Kept == rsess' \in Seq(RecoverySession) /\ SessInv'
<1>1. ASSUME NEW r \in Requests, PutSession(r) PROVE Kept
  <2>1. rsess' \in Seq(RecoverySession)
    BY <1>0, <1>1 DEF PutSession, InsertRecoverySession, RecoverySession
  <2>2. /\ DOMAIN rsess' = 1..(Len(rsess) + 1)
        /\ \A i \in DOMAIN rsess : rsess'[i] = rsess[i]
        /\ rsess'[Len(rsess) + 1] = [st |-> "open", uses |-> 0]
    BY <1>0, <1>1 DEF PutSession, InsertRecoverySession
  <2>3. req'[r].sess = 0 /\ \A p \in Requests \ {r} : req'[p] = req[p]
    BY <1>1, Zenon DEF PutSession, Return, IdleRequest, TypeOK
  <2> QED
    BY <1>0, <2>1, <2>2, <2>3, SMTT(40) DEF SessInv, Holds
<1>2. ASSUME NEW r \in Requests, NEW i \in DOMAIN rsess, RecoveryTake(r, i) PROVE Kept
  <2>1. PICK t \in {"gone"} : rsess' = [rsess EXCEPT ![i].st = t]
    BY <1>2, Zenon DEF RecoveryTake, TakeRecoverySession
  <2>2. rsess' \in Seq(RecoverySession)
    BY <1>0, <2>1 DEF RecoverySession
  <2>3. /\ DOMAIN rsess' = DOMAIN rsess
        /\ rsess'[i].st = "gone" /\ rsess'[i].uses = rsess[i].uses
        /\ \A j \in DOMAIN rsess \ {i} : rsess'[j] = rsess[j]
    BY <1>0, <2>1, Zenon DEF RecoverySession
  <2>4. /\ req'[r].sess = IF rsess[i].st = "open" THEN i ELSE 0
        /\ \A p \in Requests \ {r} : req'[p] = req[p]
    BY <1>2, Zenon DEF RecoveryTake, IdleRequest, TypeOK
  <2>5. rsess[i].st = "open" => \A p \in Requests : req[p].sess # i
    BY <1>0 DEF SessInv, Holds
  <2> QED
    BY <1>0, <2>2, <2>3, <2>4, <2>5, SMTT(40) DEF SessInv, Holds
<1>3. ASSUME NEW r \in Requests, Rotate(r) PROVE Kept
  <2>1. rsess' = [i \in DOMAIN rsess |->
                   IF i = req[r].sess THEN [rsess[i] EXCEPT !.uses = @ + 1]
                   ELSE rsess[i]]
    BY <1>3, Zenon DEF Rotate
  <2>2. \A i \in DOMAIN rsess : rsess'[i] \in RecoverySession
    BY <1>0, <2>1 DEF RecoverySession
  <2>3. rsess' \in Seq(RecoverySession)
    BY <1>0, <2>1, <2>2
  <2>4. /\ DOMAIN rsess' = DOMAIN rsess
        /\ \A j \in DOMAIN rsess : /\ rsess'[j].st = rsess[j].st
                                   /\ rsess'[j].uses = IF j = req[r].sess
                                                       THEN rsess[j].uses + 1
                                                       ELSE rsess[j].uses
    BY <1>0, <2>1, Zenon DEF RecoverySession
  <2>5. req'[r].sess = 0 /\ \A p \in Requests \ {r} : req'[p] = req[p]
    BY <1>3, Zenon DEF Rotate, Return, IdleRequest, TypeOK
  <2>6. req[r].sess # 0 => /\ rsess[req[r].sess].uses = 0
                           /\ rsess[req[r].sess].st = "gone"
                           /\ \A p \in Requests \ {r} : req[p].sess # req[r].sess
    BY Zenon DEF SessInv, Holds
  <2>7. 0 \notin DOMAIN rsess
    BY <1>0
  <2> QED
    BY <2>3, <2>4, <2>5, <2>6, <2>7, SMTT(40) DEF SessInv, Holds
<1>4. ASSUME NEW i \in DOMAIN rsess, SessionExpires(i) \/ SessionSwept(i) PROVE Kept
  <2>1. PICK t \in {"expired", "gone"} : rsess' = [rsess EXCEPT ![i].st = t]
    BY <1>4, Zenon DEF SessionExpires, SessionSwept
  <2>2. rsess' \in Seq(RecoverySession)
    BY <1>0, <2>1 DEF RecoverySession
  <2>3. /\ DOMAIN rsess' = DOMAIN rsess
        /\ rsess'[i].uses = rsess[i].uses
        /\ \A j \in DOMAIN rsess \ {i} : rsess'[j] = rsess[j]
    BY <1>0, <2>1, Zenon DEF RecoverySession
  <2>4. rsess[i].st # "gone" /\ req' = req
    BY <1>4, Zenon DEF SessionExpires, SessionSwept
  <2> QED
    BY <1>0, <2>2, <2>3, <2>4 DEF SessInv, Holds
<1>5. ASSUME NEW r \in Requests,
             \/ \E k \in Kinds : ReadUserAuth(r, k)
             \/ VerifyRight(r) \/ VerifyWrong(r) \/ RecordFailed(r) \/ ResetFailed(r)
             \/ UnknownEmail(r) \/ dummyAuthHash(r) \/ Pad(r)
             \/ ChangeMasterPassword(r) \/ VerifyOldKey(r) \/ Abandon(r)
      PROVE  Kept
  <2>1. rsess' = rsess
    BY <1>5, Zenon DEF ReadUserAuth, VerifyRight, VerifyWrong, RecordFailed, ResetFailed,
           UnknownEmail, dummyAuthHash, Pad, ChangeMasterPassword, VerifyOldKey, Abandon
  <2> DEFINE Alone == /\ req'[r].sess \in {0, req[r].sess}
                      /\ \A p \in Requests \ {r} : req'[p] = req[p]
  <2>2. ASSUME \/ \E k \in Kinds : ReadUserAuth(r, k)
               \/ RecordFailed(r) \/ UnknownEmail(r) \/ Pad(r) \/ ChangeMasterPassword(r)
        PROVE  Alone
    BY <2>2, ZenonT(40) DEF ReadUserAuth, RecordFailed, UnknownEmail, Pad, ChangeMasterPassword,
           Answer, IdleRequest, TypeOK
  <2>3. ASSUME VerifyRight(r) \/ VerifyWrong(r) \/ dummyAuthHash(r) \/ VerifyOldKey(r)
        PROVE  Alone
    BY <2>3 DEF VerifyRight, VerifyWrong, dummyAuthHash, VerifyOldKey, VerifyAuthKey,
           TypeOK, Request
  <2>4. ASSUME ResetFailed(r) \/ Abandon(r)
        PROVE  Alone
    <3>1. Return(r) \/ Goto(r, "put") \/ Answer(r, "unauthenticated", req[r].work)
      BY <2>4, Zenon DEF ResetFailed, Abandon
    <3>2. CASE Return(r)
      BY <3>2, Zenon DEF Return, IdleRequest, TypeOK
    <3>3. CASE Goto(r, "put")
      BY <3>3, Zenon DEF Goto, TypeOK, Request
    <3>4. CASE Answer(r, "unauthenticated", req[r].work)
      BY <3>4, Zenon DEF Answer, IdleRequest, TypeOK
    <3> QED
      BY <3>1, <3>2, <3>3, <3>4, Zenon
  <2>5. Alone
    BY <1>5, <2>2, <2>3, <2>4, Zenon
  <2> QED
    BY <1>0, <2>1, <2>5, SMTT(40) DEF SessInv, Holds
<1>6. CASE \E k \in Kinds : LockLapses(k)
  BY <1>6 DEF LockLapses, SessInv, Holds, TypeOK
<1> QED
  BY <1>1, <1>2, <1>3, <1>4, <1>5, <1>6, Zenon DEF Next

-----------------------------------------------------------------------------
(* The counters                                                            *)

\* A step that neither guesses nor passes the lock.
LEMMA CountersAlone ==
    ASSUME TypeOK, CountInv, NEW r \in Requests, NEW q, Moves(r, q), ctr' = ctr,
           \A k \in Kinds : /\ ~IsPending(req[r], k)
                            /\ ~IsPending(q, k) /\ ~IsVerifying(q, k)
    PROVE  CountInv'
<1> SUFFICES ASSUME NEW k \in Kinds
             PROVE  Counted(ctr[k], Cardinality(Pending(req', k)),
                                    Cardinality(Verifying(req', k)))
  BY Zenon DEF CountInv
<1>1. /\ ctr[k] \in Counter
      /\ Counted(ctr[k], Cardinality(Pending(req, k)), Cardinality(Verifying(req, k)))
  BY Zenon DEF TypeOK, CountInv
<1>2. Cardinality(Pending(req', k)) = Cardinality(Pending(req, k))
  BY Recount, Zenon
<1>3. Cardinality(Verifying(req', k)) \in {Cardinality(Verifying(req, k)),
                                            Cardinality(Verifying(req, k)) - 1}
  BY Recount
<1> QED
  BY <1>1, <1>2, <1>3, Disjoint, CountedLeave, Zenon

\* The counter of another kind than the one a request is about.
LEMMA OtherKind ==
    ASSUME TypeOK, CountInv, NEW r \in Requests, NEW q, Moves(r, q), NEW k \in Kinds,
           ctr'[k] = ctr[k], ~IsPending(req[r], k), ~IsVerifying(req[r], k),
           ~IsPending(q, k), ~IsVerifying(q, k)
    PROVE  Counted(ctr'[k], Cardinality(Pending(req', k)), Cardinality(Verifying(req', k)))
  BY Recount DEF CountInv

\* Every step keeps the account of the guesses.
LEMMA CountKept ==
    ASSUME TypeOK, WorkInv, CountInv, Next
    PROVE  CountInv'
<1>0. ASSUME NEW r \in Requests
      PROVE  /\ req[r] \in Request /\ req[r].kind \in Kinds
             /\ Sound(req[r], dummy)
  BY Zenon DEF TypeOK, WorkInv, Request
<1>1. ASSUME NEW k \in Kinds
      PROVE  /\ ctr[k] \in Counter
             /\ Counted(ctr[k], Cardinality(Pending(req, k)), Cardinality(Verifying(req, k)))
  BY Zenon DEF TypeOK, CountInv
<1>2. ASSUME NEW r \in Requests, NEW h \in Kinds, ReadUserAuth(r, h) PROVE CountInv'
  <2>1. CASE ctr[h].lock = "active"
    <3> DEFINE q == [IdleRequest EXCEPT !.answer = "locked", !.work = 0]
    <3>1. Moves(r, q)
      BY <1>2, <2>1, Zenon DEF ReadUserAuth, Answer, Moves
    <3>2. \A k \in Kinds : ~IsPending(req[r], k) /\ ~IsPending(q, k) /\ ~IsVerifying(q, k)
      BY <1>2, Zenon DEF ReadUserAuth, IsPending, IsVerifying, IdleRequest
    <3> QED
      BY <1>2, <3>1, <3>2, CountersAlone, Zenon DEF ReadUserAuth
  <2>2. CASE ctr[h].lock # "active"
    <3> DEFINE q == [IdleRequest EXCEPT !.pc = "verify", !.kind = h]
    <3>1. Moves(r, q) /\ ctr' = ctr
      BY <1>2, <2>2, Zenon DEF ReadUserAuth, Moves
    <3>2. \A k \in Kinds : /\ ~IsPending(req[r], k) /\ ~IsPending(q, k)
                           /\ ~IsVerifying(req[r], k)
                           /\ IsVerifying(q, k) <=> k = h
      BY <1>2, Zenon DEF ReadUserAuth, IsPending, IsVerifying, IdleRequest
    <3> HIDE DEF q
    <3>3. ASSUME NEW k \in Kinds
          PROVE  Counted(ctr'[k], Cardinality(Pending(req', k)), Cardinality(Verifying(req', k)))
      <4>1. CASE k # h
        BY <3>1, <3>2, <4>1, OtherKind, Zenon
      <4>2. CASE k = h
        <5>1. /\ Cardinality(Pending(req', k)) = Cardinality(Pending(req, k))
              /\ Cardinality(Verifying(req', k)) = Cardinality(Verifying(req, k)) + 1
          BY <3>1, <3>2, <4>2, Recount
        <5>2. Cardinality(Pending(req', k)) + Cardinality(Verifying(req', k)) <= N
          BY Disjoint, Zenon
        <5> QED
          BY <1>1, <2>2, <3>1, <4>2, <5>1, <5>2, Disjoint, CountedBegin
      <4> QED
        BY <4>1, <4>2, Zenon
    <3> QED
      BY <3>3, Zenon DEF CountInv
  <2> QED
    BY <2>1, <2>2, Zenon
<1>3. ASSUME NEW r \in Requests, VerifyWrong(r) PROVE CountInv'
  <2> DEFINE h == req[r].kind
             q == [req[r] EXCEPT !.pc = "record", !.guessed = TRUE, !.work = @ + 1]
  <2>1. Moves(r, q)
    BY <1>3, Zenon DEF VerifyWrong, Moves, TypeOK
  <2>2. \A k \in Kinds : /\ ~IsPending(req[r], k) /\ ~IsVerifying(q, k)
                         /\ IsVerifying(req[r], k) <=> k = h
                         /\ IsPending(q, k) <=> k = h
    <3>1. q.pc = "record" /\ q.guessed = TRUE /\ q.kind = h
      BY <1>0, Zenon DEF Request
    <3> HIDE DEF q
    <3> QED
      BY <1>3, <3>1, Zenon DEF VerifyWrong, IsPending, IsVerifying
  <2>3. /\ ctr'[h] = [ctr[h] EXCEPT !.guesses = @ + 1]
        /\ \A k \in Kinds \ {h} : ctr'[k] = ctr[k]
    BY <1>0, <1>3, Zenon DEF VerifyWrong, TypeOK
  <2> HIDE DEF q, h
  <2>4. ASSUME NEW k \in Kinds
        PROVE  Counted(ctr'[k], Cardinality(Pending(req', k)), Cardinality(Verifying(req', k)))
    <3>1. CASE k # h
      BY <2>1, <2>2, <2>3, <3>1, OtherKind, Zenon
    <3>2. CASE k = h
      <4>1. /\ Cardinality(Pending(req', k)) = Cardinality(Pending(req, k)) + 1
            /\ Cardinality(Verifying(req', k)) = Cardinality(Verifying(req, k)) - 1
        BY <2>1, <2>2, <3>2, Recount, Zenon
      <4> QED
        BY <1>1, <2>3, <3>2, <4>1, Disjoint, CountedGuess
    <3> QED
      BY <3>1, <3>2, Zenon
  <2> QED
    BY <2>4, Zenon DEF CountInv
<1>4. ASSUME NEW r \in Requests, RecordFailed(r) PROVE CountInv'
  <2> DEFINE h == req[r].kind
             q == [IdleRequest EXCEPT !.answer = "unauthenticated", !.work = req[r].work]
  <2>1. Moves(r, q)
    BY <1>4, Zenon DEF RecordFailed, Answer, Moves
  <2>2. \A k \in Kinds : /\ ~IsPending(q, k) /\ ~IsVerifying(q, k)
                         /\ ~IsVerifying(req[r], k)
                         /\ IsPending(req[r], k) => k = h
    BY <1>4, Zenon DEF RecordFailed, IsPending, IsVerifying, IdleRequest
  <2>3. /\ ctr'[h] = Failed(ctr[h])
        /\ \A k \in Kinds \ {h} : ctr'[k] = ctr[k]
    BY <1>0, <1>4, Zenon DEF RecordFailed, RecordFailedLogin, RecordFailedRecovery, TypeOK, Kinds
  <2>4. h \in Kinds
    BY <1>0, Zenon
  <2> HIDE DEF q, h
  <2>5. ASSUME NEW k \in Kinds
        PROVE  Counted(ctr'[k], Cardinality(Pending(req', k)), Cardinality(Verifying(req', k)))
    <3>1. CASE k # h
      BY <2>1, <2>2, <2>3, <3>1, OtherKind, Zenon
    <3>2. CASE k = h
      <4>1. /\ Cardinality(Pending(req', k)) \in {Cardinality(Pending(req, k)),
                                                  Cardinality(Pending(req, k)) - 1}
            /\ Cardinality(Verifying(req', k)) = Cardinality(Verifying(req, k))
        BY <2>1, <2>2, <3>2, Recount
      <4> QED
        BY <1>1, <2>3, <3>2, <4>1, Disjoint, CountedFailed
    <3> QED
      BY <3>1, <3>2, Zenon
  <2> QED
    BY <2>5, Zenon DEF CountInv
<1>5. ASSUME NEW r \in Requests, NEW h \in Kinds, NEW q, Moves(r, q),
             ctr' = [ctr EXCEPT ![h] = ResetCounter],
             \A k \in Kinds : /\ ~IsPending(req[r], k) /\ ~IsVerifying(req[r], k)
                              /\ ~IsPending(q, k) /\ ~IsVerifying(q, k)
      PROVE  CountInv'
  <2>1. ctr'[h] = ResetCounter /\ \A k \in Kinds \ {h} : ctr'[k] = ctr[k]
    BY <1>5, Zenon DEF TypeOK
  <2>2. ASSUME NEW k \in Kinds
        PROVE  Counted(ctr'[k], Cardinality(Pending(req', k)), Cardinality(Verifying(req', k)))
    <3>1. CASE k # h
      BY <1>5, <2>1, <3>1, OtherKind, Zenon
    <3>2. CASE k = h
      BY <2>1, <3>2, Disjoint, CountedReset
    <3> QED
      BY <3>1, <3>2, Zenon
  <2> QED
    BY <2>2, Zenon DEF CountInv
<1>6. ASSUME NEW r \in Requests, ResetFailed(r) PROVE CountInv'
  <2>1. PICK q \in {IdleRequest, [req[r] EXCEPT !.pc = "put"]} : Moves(r, q)
    BY <1>6, Zenon DEF ResetFailed, Return, Goto, Moves
  <2>2. \A k \in Kinds : /\ ~IsPending(req[r], k) /\ ~IsVerifying(req[r], k)
                         /\ ~IsPending(q, k) /\ ~IsVerifying(q, k)
    <3>1. q.pc \in {"idle", "put"}
      BY <1>0 DEF IdleRequest, Request
    <3> QED
      BY <1>6, <3>1, Zenon DEF ResetFailed, IsPending, IsVerifying
  <2>3. ctr' \in {ctr, [ctr EXCEPT !["login"] = ResetCounter],
                       [ctr EXCEPT !["recovery"] = ResetCounter]}
    BY <1>6, Zenon DEF ResetFailed, ResetFailedLogin, ResetFailedRecovery
  <2>4. "login" \in Kinds /\ "recovery" \in Kinds
    BY Zenon DEF Kinds
  <2>5. CASE ctr' = ctr
    BY <2>1, <2>2, <2>5, CountersAlone, Zenon
  <2> QED
    BY <1>5, <2>1, <2>2, <2>3, <2>4, <2>5, Zenon
<1>7. ASSUME NEW r \in Requests, Rotate(r) PROVE CountInv'
  <2>1. Moves(r, IdleRequest) /\ ctr' = [ctr EXCEPT !["login"] = ResetCounter]
    BY <1>7, Zenon DEF Rotate, Return, Moves, UpsertUserAuth
  <2>2. \A k \in Kinds : /\ ~IsPending(req[r], k) /\ ~IsVerifying(req[r], k)
                         /\ ~IsPending(IdleRequest, k) /\ ~IsVerifying(IdleRequest, k)
    BY <1>7, Zenon DEF Rotate, IsPending, IsVerifying, IdleRequest
  <2>3. "login" \in Kinds
    BY Zenon DEF Kinds
  <2> QED
    BY <1>5, <2>1, <2>2, <2>3, Zenon
<1>8. ASSUME NEW r \in Requests, Abandon(r) PROVE CountInv'
  <2> DEFINE h == req[r].kind
             losing == req[r].pc = "record" /\ req[r].guessed
  <2>1. PICK q : Moves(r, q) /\ q.pc = "idle"
    <3>1. \/ Moves(r, [IdleRequest EXCEPT !.answer = "unauthenticated", !.work = req[r].work])
          \/ Moves(r, IdleRequest)
      BY <1>8, Zenon DEF Abandon, Answer, Return, Moves
    <3>2. /\ IdleRequest.pc = "idle"
          /\ [IdleRequest EXCEPT !.answer = "unauthenticated", !.work = req[r].work].pc = "idle"
      BY Zenon DEF IdleRequest
    <3> QED
      BY <3>1, <3>2, Zenon
  <2>2. \A k \in Kinds : ~IsPending(q, k) /\ ~IsVerifying(q, k)
    BY <2>1, Zenon DEF IsPending, IsVerifying
  <2>3. CASE ~losing
    <3>1. ctr' = ctr /\ \A k \in Kinds : ~IsPending(req[r], k)
      BY <1>8, <2>3, Zenon DEF Abandon, IsPending
    <3> QED
      BY <2>1, <2>2, <3>1, CountersAlone, Zenon
  <2>4. CASE losing
    <3>1. /\ ctr'[h] = [ctr[h] EXCEPT !.lost = @ + 1]
          /\ \A k \in Kinds \ {h} : ctr'[k] = ctr[k]
      BY <1>0, <1>8, <2>4, Zenon DEF Abandon, TypeOK
    <3>2. \A k \in Kinds : /\ ~IsVerifying(req[r], k)
                           /\ IsPending(req[r], k) <=> k = h
      BY <2>4, Zenon DEF IsPending, IsVerifying
    <3> HIDE DEF h
    <3>3. ASSUME NEW k \in Kinds
          PROVE  Counted(ctr'[k], Cardinality(Pending(req', k)), Cardinality(Verifying(req', k)))
      <4>1. CASE k # h
        BY <2>1, <2>2, <3>1, <3>2, <4>1, OtherKind, Zenon
      <4>2. CASE k = h
        <5>1. /\ Cardinality(Pending(req', k)) = Cardinality(Pending(req, k)) - 1
              /\ Cardinality(Verifying(req', k)) = Cardinality(Verifying(req, k))
          BY <2>1, <2>2, <3>2, <4>2, Recount
        <5> QED
          BY <1>1, <3>1, <4>2, <5>1, Disjoint, CountedLost
      <4> QED
        BY <4>1, <4>2, Zenon
    <3> QED
      BY <3>3, Zenon DEF CountInv
  <2> QED
    BY <2>3, <2>4, Zenon
<1>9. ASSUME NEW h \in Kinds, LockLapses(h) PROVE CountInv'
  <2>1. /\ ctr'[h] = [ctr[h] EXCEPT !.lock = "lapsed", !.guesses = 0, !.lost = 0,
                                    !.relock = TRUE]
        /\ \A k \in Kinds \ {h} : ctr'[k] = ctr[k]
        /\ ctr[h].lock = "active" /\ req' = req
    BY <1>9, Zenon DEF LockLapses, TypeOK
  <2>2. Counted(ctr'[h], Cardinality(Pending(req, h)), Cardinality(Verifying(req, h)))
    <3>1. /\ Cardinality(Pending(req, h)) \in Nat
          /\ Cardinality(Verifying(req, h)) \in Nat
          /\ N \in Nat
          /\ Cardinality(Verifying(req, h)) <= N
      BY Disjoint
    <3>2. Counted([ctr[h] EXCEPT !.lock = "lapsed", !.guesses = 0, !.lost = 0,
                                 !.relock = TRUE],
                  Cardinality(Pending(req, h)), Cardinality(Verifying(req, h)))
      BY <1>1, <2>1, <3>1, CountedLapse, Zenon
    <3> QED
      BY <2>1, <3>2, Zenon
  <2> QED
    BY <1>1, <2>1, <2>2, Zenon DEF CountInv
<1>10. ASSUME NEW r \in Requests,
              \/ VerifyRight(r) \/ PutSession(r) \/ UnknownEmail(r) \/ dummyAuthHash(r)
              \/ Pad(r) \/ ChangeMasterPassword(r) \/ VerifyOldKey(r)
              \/ \E i \in DOMAIN rsess : RecoveryTake(r, i)
       PROVE  CountInv'
  <2>1. ctr' = ctr /\ req[r].pc \notin {"record"}
    BY <1>10, Zenon DEF VerifyRight, PutSession, UnknownEmail, dummyAuthHash, Pad,
           ChangeMasterPassword, VerifyOldKey, RecoveryTake
  <2> DEFINE Plain(q) == q.pc # "verify" /\ (q.pc = "record" => ~q.guessed)
  <2>2. Moves(r, req'[r]) /\ Plain(req'[r])
    <3>1. ASSUME VerifyRight(r) \/ VerifyOldKey(r) PROVE Moves(r, req'[r]) /\ Plain(req'[r])
      <4>1. ~req[r].guessed
        BY <1>0, <3>1, Zenon DEF VerifyRight, VerifyOldKey, Sound
      <4> QED
        BY <1>0, <3>1, <4>1, SMTT(40) DEF VerifyRight, VerifyOldKey, VerifyAuthKey, TypeOK, Moves,
               Request
    <3>2. ASSUME dummyAuthHash(r) PROVE Moves(r, req'[r]) /\ Plain(req'[r])
      BY <1>0, <3>2, Zenon DEF dummyAuthHash, TypeOK, Moves, Request
    <3>3. ASSUME \/ PutSession(r) \/ UnknownEmail(r) \/ Pad(r) \/ ChangeMasterPassword(r)
                 \/ \E i \in DOMAIN rsess : RecoveryTake(r, i)
          PROVE  Moves(r, req'[r]) /\ Plain(req'[r])
      <4>1. \/ Moves(r, IdleRequest)
            \/ \E pc \in {"unknown", "verifyOld"} : Moves(r, [IdleRequest EXCEPT !.pc = pc])
            \/ \E i \in DOMAIN rsess : Moves(r, [IdleRequest EXCEPT !.pc = "rotate", !.sess = i])
            \/ \E w : Moves(r, [IdleRequest EXCEPT !.answer = "unauthenticated", !.work = w])
        BY <3>3, Zenon DEF PutSession, UnknownEmail, Pad, ChangeMasterPassword, RecoveryTake,
               Return, Answer, Moves
      <4>2. ASSUME NEW q, Moves(r, q), Plain(q) PROVE Moves(r, req'[r]) /\ Plain(req'[r])
        BY <4>2, SlotMoves, Zenon
      <4>3. /\ Plain(IdleRequest)
            /\ \A pc \in {"unknown", "verifyOld"} : Plain([IdleRequest EXCEPT !.pc = pc])
            /\ \A i : Plain([IdleRequest EXCEPT !.pc = "rotate", !.sess = i])
            /\ \A w : Plain([IdleRequest EXCEPT !.answer = "unauthenticated", !.work = w])
        BY Zenon DEF IdleRequest
      <4> HIDE DEF Plain
      <4> QED
        BY <4>1, <4>2, <4>3, Zenon
    <3> QED
      BY <1>10, <3>1, <3>2, <3>3, Zenon
  <2>3. \A k \in Kinds : /\ ~IsPending(req[r], k)
                         /\ ~IsPending(req'[r], k) /\ ~IsVerifying(req'[r], k)
    BY <2>1, <2>2, Zenon DEF IsPending, IsVerifying
  <2> QED
    BY <2>1, <2>2, <2>3, CountersAlone, Zenon
<1>11. ASSUME NEW i \in DOMAIN rsess, SessionExpires(i) \/ SessionSwept(i) PROVE CountInv'
  BY <1>11, Zenon DEF SessionExpires, SessionSwept, CountInv
<1> QED
  BY <1>2, <1>3, <1>4, <1>6, <1>7, <1>8, <1>9, <1>10, <1>11, Zenon DEF Next

-----------------------------------------------------------------------------
(* The theorems                                                            *)

\* Fresh counters satisfy the invariant.
LEMMA LockInit == Init => LockInv
<1> SUFFICES ASSUME Init PROVE LockInv
  BY Zenon
<1>1. \A r \in Requests : req[r] = IdleRequest
  BY Zenon DEF Init
<1>2. TypeOK
  <2>1. ResetCounter \in Counter
    BY Zenon DEF ResetCounter, Counter
  <2>2. <<>> \in Seq(RecoverySession)
    OBVIOUS
  <2> QED
    BY <2>1, <2>2, IdleIsRequest, Zenon DEF Init, TypeOK
<1>3. WorkInv /\ SessInv
  BY <1>1 DEF Init, WorkInv, SessInv, Sound, Holds, IdleRequest
<1>4. CountInv
  BY Disjoint, CountedReset DEF Init, CountInv
<1> QED
  BY <1>2, <1>3, <1>4, Zenon DEF LockInv

\* Every step of Next, and stuttering, keeps the inductive invariant.
LEMMA LockStep == LockInv /\ [Next]_vars => LockInv'
<1> SUFFICES ASSUME LockInv, [Next]_vars PROVE LockInv'
  BY Zenon
<1>0. TypeOK /\ WorkInv /\ SessInv /\ CountInv
  BY Zenon DEF LockInv
<1>1. CASE Next
  BY <1>0, <1>1, CountersTyped, WorkKept, SessKept, CountKept, Zenon DEF LockInv, TypeOK
<1>2. CASE UNCHANGED vars
  BY <1>0, <1>2, Zenon DEF vars, LockInv, TypeOK, WorkInv, SessInv, Holds, CountInv
<1> QED
  BY <1>1, <1>2, Zenon

\* The guesses of a window stay bounded, for any number of overlapping
\* Authorize and RecoveryStart requests and any threshold: the read of
\* locked_until before the check and its arming after it let at most one guess
\* per request slip through.
THEOREM GuessesBounded == Spec => []GuessBound
<1>1. LockInv => GuessBound
  <2> SUFFICES ASSUME LockInv, NEW k \in Kinds
               PROVE  ctr[k].guesses <= (IF ctr[k].relock THEN 0 ELSE Threshold - 1)
                                        + Cardinality(Requests) + ctr[k].lost
    BY Zenon DEF GuessBound
  <2>1. /\ ctr[k] \in Counter
        /\ Counted(ctr[k], Cardinality(Pending(req, k)), Cardinality(Verifying(req, k)))
    BY Zenon DEF LockInv, TypeOK, CountInv
  <2> QED
    BY <2>1, Disjoint, ConstantsAssumption DEF Counted, Counter, Allowance, N
<1> QED
  BY <1>1, LockInit, LockStep, PTL DEF Spec

\* A refusal of Authorize or RecoveryStart has cost the same whether or not the
\* address is known, whoever computed the dummy hash.
THEOREM RefusalsAlike == Spec => []RefusalsCostTheSame
<1>1. LockInv => RefusalsCostTheSame
  BY Zenon DEF LockInv, WorkInv, Sound, RefusalsCostTheSame
<1> QED
  BY <1>1, LockInit, LockStep, PTL DEF Spec

\* RecoveryStore.Take hands a session to one RecoveryComplete, and the rotation
\* that follows is the only one it ever pays for.
THEOREM RecoveryOnce == Spec => []RecoverySpentOnce
<1>1. LockInv => RecoverySpentOnce
  BY DEF LockInv, SessInv, RecoverySpentOnce
<1> QED
  BY <1>1, LockInit, LockStep, PTL DEF Spec
=============================================================================
