------------------------------ MODULE MFAProofs -----------------------------
(***************************************************************************)
(* Proofs about MFA for every set of requests, every ceiling of attempts   *)
(* and every bound.                                                        *)
(*                                                                         *)
(* The inductive invariant says of every request which challenge it has    *)
(* peeked at or taken, of every challenge how many wrong codes its         *)
(* counter, the requests about to count one and the failures account for,  *)
(* and of every Authorize what its reads of the factors have seen.         *)
(***************************************************************************)
EXTENDS MFA, FiniteSetTheorems, TLAPS

\* A request that has the challenge in hand without having taken it.
Peeked == {"check", "record", "burn", "take"}
\* The requests a taken challenge has let through.
Granted == {"issue", "disable", "register"}

Holds(q) == q.ch # 0 /\ q.pc \in Granted

Refers(q) ==
    /\ q.ch # 0 => q.ch \in DOMAIN chal /\ q.pc \in Peeked \cup Granted
    /\ q.pc \in Peeked => q.ch # 0
    /\ Holds(q) => chal[q.ch].st = "gone" /\ chal[q.ch].uses = 0

\* Whoever holds a challenge holds it alone, and it is unspent; one that can
\* still be taken is unspent, too.
ChalInv ==
    /\ \A r \in Requests : Refers(req[r])
    /\ \A r, p \in Requests : Holds(req[r]) /\ Holds(req[p]) /\ req[r].ch = req[p].ch
                              => r = p
    /\ \A c \in DOMAIN chal : /\ chal[c].st # "gone" => chal[c].uses = 0
                              /\ chal[c].uses <= 1

N == Cardinality(Requests)

\* The requests about to evaluate a code, and those that found it wrong and
\* have not finished RecordFailedAttempt.
IsChecking(q, c) == q.pc = "check" /\ q.ch = c
IsLosing(q, c) == q.pc \in {"record", "burn"} /\ q.ch = c
Checking(f, c) == {r \in Requests : IsChecking(f[r], c)}
Losing(f, c) == {r \in Requests : IsLosing(f[r], c)}

\* While the row is there, every wrong code is counted, about to be, or lost,
\* and the ceiling sends each further one to the burn; once it is gone, each of
\* the k requests that had peeked may add one.
Counted(x, l, k) ==
    /\ x.st # "gone" => /\ x.guesses <= x.failed + l + x.lost
                        /\ x.guesses <= MaxFailed - 1 + l + x.lost
    /\ x.guesses + k <= MaxFailed - 1 + N + x.lost

CountInv ==
    \A c \in DOMAIN chal :
        Counted(chal[c], Cardinality(Losing(req, c)), Cardinality(Checking(req, c)))

\* A factor on since the request began is on; Authorize has seen it once it has
\* read it, and goes on to the tokens only if it saw none.
Watched(q, on, some) ==
    /\ q.armedT => on
    /\ q.armedW => some
    /\ q.pc = "countPasskeys" /\ ~q.blind /\ q.armedT => q.sawT
    /\ q.pc = "issue" /\ q.ch = 0 /\ ~q.blind => ~q.armedT /\ ~q.armedW

FactorInv == \A r \in Requests : Watched(req[r], totp.enabled, passkey)

MFAInv == TypeOK /\ ChalInv /\ CountInv /\ FactorInv /\ TOTPOpenable

-----------------------------------------------------------------------------
(* Counting requests                                                       *)

\* Two subsets of a finite set that agree but for one element.
LEMMA OneMore ==
    ASSUME NEW S \in SUBSET Requests, NEW T \in SUBSET Requests, NEW r \in Requests,
           S \ {r} = T \ {r}
    PROVE  /\ Cardinality(S) \in Nat
           /\ Cardinality(T) \in Nat
           /\ r \in T /\ r \notin S => Cardinality(T) = Cardinality(S) + 1
           /\ r \notin T /\ r \in S => Cardinality(T) = Cardinality(S) - 1
           /\ (r \in T <=> r \in S) => Cardinality(T) = Cardinality(S)
<1>1. IsFiniteSet(S) /\ IsFiniteSet(T)
  BY ConstantsAssumption, FS_Subset, Zenon
<1>2. Cardinality(S) \in Nat /\ Cardinality(T) \in Nat
  BY <1>1, FS_CardinalityType, Zenon
<1>3. ASSUME r \in T, r \notin S
      PROVE  Cardinality(T) = Cardinality(S) + 1
  <2>1. T = S \cup {r}
    BY <1>3, Zenon
  <2> QED
    BY <1>1, <1>3, <2>1, FS_AddElement, Zenon
<1>4. ASSUME r \notin T, r \in S
      PROVE  Cardinality(T) = Cardinality(S) - 1
  <2>1. T = S \ {r}
    BY <1>4, Zenon
  <2> QED
    BY <1>1, <1>4, <2>1, FS_RemoveElement, Zenon
<1>5. ASSUME r \in T <=> r \in S
      PROVE  S = T
  BY <1>5
<1> QED
  BY <1>2, <1>3, <1>4, <1>5, Zenon

\* Two disjoint sets of requests are together no more than all of them.
LEMMA DisjointWithin ==
    ASSUME NEW S \in SUBSET Requests, NEW T \in SUBSET Requests, S \cap T = {}
    PROVE  /\ Cardinality(S) \in Nat
           /\ Cardinality(T) \in Nat
           /\ Cardinality(Requests) \in Nat
           /\ Cardinality(S) + Cardinality(T) <= Cardinality(Requests)
<1>1. IsFiniteSet(S) /\ IsFiniteSet(T) /\ IsFiniteSet(Requests)
  BY ConstantsAssumption, FS_Subset, Zenon
<1>2. Cardinality(S) \in Nat /\ Cardinality(T) \in Nat /\ Cardinality(Requests) \in Nat
  BY <1>1, FS_CardinalityType, Zenon
<1>3. Cardinality(S \cup T) = Cardinality(S) + Cardinality(T) - Cardinality(S \cap T)
  BY <1>1, FS_Union, Zenon
<1>4. Cardinality(S \cap T) = 0
  BY FS_EmptySet, Zenon
<1>5. Cardinality(S \cup T) <= Cardinality(Requests)
  BY <1>1, FS_Subset, Zenon
<1> QED
  BY <1>2, <1>3, <1>4, <1>5

\* No request evaluates a code and loses one at the same time.
LEMMA Disjoint ==
    ASSUME NEW f, NEW c
    PROVE  /\ Cardinality(Losing(f, c)) \in Nat
           /\ Cardinality(Checking(f, c)) \in Nat
           /\ N \in Nat
           /\ Cardinality(Losing(f, c)) + Cardinality(Checking(f, c)) <= N
<1>1. /\ Losing(f, c) \in SUBSET Requests
      /\ Checking(f, c) \in SUBSET Requests
      /\ Losing(f, c) \cap Checking(f, c) = {}
  BY Zenon DEF Losing, Checking, IsLosing, IsChecking
<1> QED
  BY <1>1, DisjointWithin, Zenon DEF N

\* Every request but r stays where it is, at the challenge it has.
Apart(r) == \A p \in Requests \ {r} : req'[p].pc = req[p].pc /\ req'[p].ch = req[p].ch

\* What a step of request r does to the two numbers.
LEMMA Recount ==
    ASSUME NEW r \in Requests, Apart(r), NEW c
    PROVE  /\ IsLosing(req'[r], c) /\ ~IsLosing(req[r], c) =>
                Cardinality(Losing(req', c)) = Cardinality(Losing(req, c)) + 1
           /\ ~IsLosing(req'[r], c) /\ IsLosing(req[r], c) =>
                Cardinality(Losing(req', c)) = Cardinality(Losing(req, c)) - 1
           /\ (IsLosing(req'[r], c) <=> IsLosing(req[r], c)) =>
                Cardinality(Losing(req', c)) = Cardinality(Losing(req, c))
           /\ IsChecking(req'[r], c) /\ ~IsChecking(req[r], c) =>
                Cardinality(Checking(req', c)) = Cardinality(Checking(req, c)) + 1
           /\ ~IsChecking(req'[r], c) /\ IsChecking(req[r], c) =>
                Cardinality(Checking(req', c)) = Cardinality(Checking(req, c)) - 1
           /\ (IsChecking(req'[r], c) <=> IsChecking(req[r], c)) =>
                Cardinality(Checking(req', c)) = Cardinality(Checking(req, c))
<1>1. /\ Losing(req, c) \in SUBSET Requests
      /\ Losing(req', c) \in SUBSET Requests
      /\ Losing(req, c) \ {r} = Losing(req', c) \ {r}
      /\ r \in Losing(req, c) <=> IsLosing(req[r], c)
      /\ r \in Losing(req', c) <=> IsLosing(req'[r], c)
  BY Zenon DEF Apart, Losing, IsLosing
<1>2. /\ Checking(req, c) \in SUBSET Requests
      /\ Checking(req', c) \in SUBSET Requests
      /\ Checking(req, c) \ {r} = Checking(req', c) \ {r}
      /\ r \in Checking(req, c) <=> IsChecking(req[r], c)
      /\ r \in Checking(req', c) <=> IsChecking(req'[r], c)
  BY Zenon DEF Apart, Checking, IsChecking
<1> QED
  BY <1>1, <1>2, OneMore, Zenon

-----------------------------------------------------------------------------
(* What a step does to the numbers of one challenge                        *)

\* A request that had peeked ends without a wrong code.
LEMMA CountedLeave ==
    ASSUME NEW x \in Challenge, NEW l \in Nat, NEW k \in Nat, N \in Nat,
           Counted(x, l, k)
    PROVE  Counted(x, l, k - 1)
  BY ConstantsAssumption DEF Counted, Challenge

\* A request peeks at a challenge that is still there.
LEMMA CountedPeek ==
    ASSUME NEW x \in Challenge, NEW l \in Nat, NEW k \in Nat, N \in Nat,
           Counted(x, l, k), x.st # "gone", l + k + 1 <= N
    PROVE  Counted(x, l, k + 1)
  BY ConstantsAssumption DEF Counted, Challenge

\* A wrong code is evaluated: the request is about to count it.
LEMMA CountedWrong ==
    ASSUME NEW x \in Challenge, NEW l \in Nat, NEW k \in Nat, N \in Nat,
           Counted(x, l, k)
    PROVE  Counted([x EXCEPT !.guesses = @ + 1], l + 1, k - 1)
  BY ConstantsAssumption DEF Counted, Challenge

\* Below the ceiling the attempt is counted, at it the request goes on to burn.
LEMMA CountedRecord ==
    ASSUME NEW x \in Challenge, NEW l \in Nat, NEW k \in Nat, N \in Nat,
           Counted(x, l, k), x.st # "gone",
           NEW m \in {l, l - 1}, x.failed + 1 < MaxFailed \/ m = l
    PROVE  Counted([x EXCEPT !.failed = @ + 1], m, k)
  BY ConstantsAssumption DEF Counted, Challenge

\* Counts that fail are lost.
LEMMA CountedLost ==
    ASSUME NEW x \in Challenge, NEW l \in Nat, NEW k \in Nat, N \in Nat,
           Counted(x, l, k), NEW n \in Nat, n <= l, NEW j \in Nat, j <= k
    PROVE  Counted([x EXCEPT !.lost = @ + n], l - n, j)
  BY ConstantsAssumption DEF Counted, Challenge

\* Of a challenge that is gone only the requests that had peeked matter.
LEMMA CountedEnded ==
    ASSUME NEW x \in Challenge, NEW l \in Nat, NEW m \in Nat, NEW k \in Nat,
           Counted(x, l, k), x.st = "gone"
    PROVE  Counted(x, m, k)
  BY Zenon DEF Counted

\* A new challenge has seen no guess.
LEMMA CountedNew ==
    ASSUME NEW x \in Challenge, NEW l \in Nat, NEW k \in Nat, N \in Nat, k <= N,
           x.guesses = 0
    PROVE  Counted(x, l, k)
  BY ConstantsAssumption DEF Counted, Challenge

-----------------------------------------------------------------------------
(* Steps on one challenge                                                  *)

\* The challenges are numbered from 1, each of its type.
LEMMA ChallengeTypes ==
    ASSUME TypeOK
    PROVE  /\ DOMAIN chal = 1..Len(chal) /\ Len(chal) \in Nat
           /\ \A c \in DOMAIN chal : c \in Nat /\ c # 0 /\ chal[c] \in Challenge
  BY DEF TypeOK

\* One row of mfa_challenges is written.
LEMMA OneChallenge ==
    ASSUME TypeOK, NEW c \in DOMAIN chal, NEW y \in Challenge,
           chal' = [chal EXCEPT ![c] = y]
    PROVE  /\ chal' \in Seq(Challenge)
           /\ DOMAIN chal' = DOMAIN chal
           /\ chal'[c] = y
           /\ \A d \in DOMAIN chal \ {c} : chal'[d] = chal[d]
  BY DEF TypeOK

\* The challenges nobody wrote, as far as request r has nothing to do with them.
LEMMA OtherChallenge ==
    ASSUME CountInv, NEW r \in Requests, Apart(r), NEW d \in DOMAIN chal,
           chal'[d] = chal[d],
           ~IsLosing(req[r], d), ~IsLosing(req'[r], d),
           ~IsChecking(req[r], d), ~IsChecking(req'[r], d)
    PROVE  Counted(chal'[d], Cardinality(Losing(req', d)), Cardinality(Checking(req', d)))
  BY Recount, Zenon DEF CountInv

\* The request leaves the challenge it had peeked at, or had none.
LEMMA QuietKeeps ==
    ASSUME TypeOK, ChalInv, CountInv, NEW r \in Requests, Apart(r), chal' = chal,
           \/ /\ req'[r].ch = 0 /\ req'[r].pc \notin Peeked
              /\ req[r].pc \notin {"record", "burn"}
           \/ /\ req'[r].ch = req[r].ch
              /\ req[r].pc = "check" /\ req'[r].pc = "take"
    PROVE  ChalInv' /\ CountInv'
<1>1. ChalInv'
  <2>1. ASSUME NEW p \in Requests PROVE Refers(req[p])'
    BY DEF Apart, ChalInv, Refers, Holds, Peeked, Granted
  <2>2. ASSUME NEW p \in Requests, Holds(req'[p]) PROVE p # r /\ Holds(req[p])
    BY <2>2, Zenon DEF Apart, Holds, Granted
  <2> QED
    BY <2>1, <2>2 DEF Apart, ChalInv, Holds
<1>2. ASSUME NEW d \in DOMAIN chal
      PROVE  Counted(chal'[d], Cardinality(Losing(req', d)), Cardinality(Checking(req', d)))
  <2>1. d # 0 /\ chal[d] \in Challenge
    BY ChallengeTypes, Zenon
  <2>2. ~IsLosing(req[r], d) /\ ~IsLosing(req'[r], d) /\ ~IsChecking(req'[r], d)
    BY <2>1, Zenon DEF IsLosing, IsChecking, Peeked
  <2>3. Cardinality(Losing(req', d)) = Cardinality(Losing(req, d))
    BY <2>2, Recount, Zenon
  <2>4. Cardinality(Checking(req', d)) \in {Cardinality(Checking(req, d)),
                                            Cardinality(Checking(req, d)) - 1}
    BY <2>2, Recount, Zenon
  <2>5. Counted(chal[d], Cardinality(Losing(req, d)), Cardinality(Checking(req, d)))
    BY Zenon DEF CountInv
  <2> QED
    BY <2>1, <2>3, <2>4, <2>5, Disjoint, CountedLeave, Zenon
<1> QED
  BY <1>1, <1>2, Zenon DEF CountInv

\* MFAStore.Put, by a request that returns or by none.
LEMMA PutKeeps ==
    ASSUME TypeOK, ChalInv, CountInv, NEW r \in Requests, Apart(r),
           \/ req' = req
           \/ req[r].pc \notin Peeked /\ req'[r].ch = 0 /\ req'[r].pc \notin Peeked,
           NEW pw \in Nat, NEW t \in BOOLEAN, NEW w \in BOOLEAN, Put(pw, t, w)
    PROVE  chal' \in Seq(Challenge) /\ ChalInv' /\ CountInv'
<1> DEFINE x == [pw |-> pw, seal |-> Seal(pw), totp |-> t, wa |-> w, failed |-> 0,
                 st |-> "open", guesses |-> 0, lost |-> 0, uses |-> 0]
           n == Len(chal) + 1
<1>1. x \in Challenge
  BY Zenon DEF Challenge, Seal, TypeOK
<1>2. x.guesses = 0 /\ x.uses = 0 /\ x.st = "open"
  BY Zenon
<1>3. chal' = Append(chal, x)
  BY Zenon DEF Put, InsertMFAChallenge
<1> HIDE DEF x
<1>4. /\ chal' \in Seq(Challenge)
      /\ DOMAIN chal' = DOMAIN chal \cup {n} /\ n \notin DOMAIN chal
      /\ chal'[n] = x
      /\ \A d \in DOMAIN chal : chal'[d] = chal[d]
  BY <1>1, <1>3 DEF TypeOK
<1> HIDE DEF n
<1>5. ChalInv'
  <2>1. ASSUME NEW p \in Requests PROVE Refers(req[p])'
    BY <1>4 DEF Apart, ChalInv, Refers, Holds, Peeked, Granted
  <2>2. ASSUME NEW p \in Requests, Holds(req'[p]) PROVE Holds(req[p]) /\ req'[p].ch = req[p].ch
    BY <2>2, Zenon DEF Apart, Holds, Granted
  <2> QED
    BY <1>2, <1>4, <2>1, <2>2 DEF ChalInv
<1>6. ASSUME NEW d \in DOMAIN chal
      PROVE  Counted(chal'[d], Cardinality(Losing(req', d)), Cardinality(Checking(req', d)))
  <2>1. d # 0 /\ chal'[d] = chal[d]
    BY <1>4, ChallengeTypes, Zenon
  <2>2. CASE req' = req
    BY <2>1, <2>2, Zenon DEF CountInv
  <2>3. CASE req' # req
    BY <2>1, <2>3, OtherChallenge, Zenon DEF IsLosing, IsChecking, Peeked
  <2> QED
    BY <2>2, <2>3, Zenon
<1>7. Counted(chal'[n], Cardinality(Losing(req', n)), Cardinality(Checking(req', n)))
  BY <1>1, <1>2, <1>4, Disjoint, CountedNew
<1> QED
  BY <1>4, <1>5, <1>6, <1>7, Zenon DEF CountInv

\* What a challenge has granted is done: Issue, DisableDelete, RegisterCreate.
LEMMA UsedKeeps ==
    ASSUME TypeOK, ChalInv, CountInv, NEW r \in Requests, Apart(r),
           req[r].pc \in Granted, req'[r].ch = 0, req'[r].pc = "idle", chal' = Used(r)
    PROVE  chal' \in Seq(Challenge) /\ ChalInv' /\ CountInv'
<1>1. /\ DOMAIN chal' = DOMAIN chal
      /\ \A d \in DOMAIN chal : d # req[r].ch => chal'[d] = chal[d]
      /\ \A d \in DOMAIN chal : d = req[r].ch => chal'[d] = [chal[d] EXCEPT !.uses = @ + 1]
  BY Zenon DEF Used
<1>2. ASSUME NEW d \in DOMAIN chal
      PROVE  /\ chal'[d] \in Challenge
             /\ chal'[d].st = chal[d].st /\ chal'[d].guesses = chal[d].guesses
             /\ chal'[d].failed = chal[d].failed /\ chal'[d].lost = chal[d].lost
             /\ d = req[r].ch => chal'[d].uses = chal[d].uses + 1
  <2>1. chal[d] \in Challenge
    BY ChallengeTypes, Zenon
  <2> QED
    BY <1>1, <2>1 DEF Challenge
<1>3. chal' \in Seq(Challenge)
  BY <1>1, <1>2, ChallengeTypes DEF Used
<1>4. ChalInv'
  <2>1. req[r].ch # 0 => Holds(req[r]) /\ Refers(req[r])
    BY Zenon DEF ChalInv, Holds
  <2>2. ASSUME NEW p \in Requests \ {r}, Holds(req[p]) PROVE req[p].ch # req[r].ch
    BY <2>1, <2>2, Zenon DEF ChalInv, Holds
  <2>3. ASSUME NEW p \in Requests PROVE Refers(req[p])'
    <3>1. CASE p = r
      BY <3>1, Zenon DEF Refers, Holds, Peeked, Granted
    <3>2. CASE p # r
      BY <1>1, <1>2, <2>2, <3>2 DEF Apart, ChalInv, Refers, Holds
    <3> QED
      BY <3>1, <3>2, Zenon
  <2>4. ASSUME NEW d \in DOMAIN chal
        PROVE  (chal'[d].st # "gone" => chal'[d].uses = 0) /\ chal'[d].uses <= 1
    <3>1. CASE d = req[r].ch
      <4>1. d # 0
        BY ChallengeTypes, Zenon
      <4> QED
        BY <1>2, <2>1, <3>1, <4>1 DEF Refers
    <3>2. CASE d # req[r].ch
      BY <1>1, <3>2, Zenon DEF ChalInv
    <3> QED
      BY <3>1, <3>2, Zenon
  <2>5. ASSUME NEW p \in Requests, Holds(req'[p])
        PROVE  Holds(req[p]) /\ req'[p].ch = req[p].ch
    BY <2>5, Zenon DEF Apart, Holds
  <2> QED
    BY <1>1, <2>3, <2>4, <2>5, Zenon DEF ChalInv
<1>5. ASSUME NEW d \in DOMAIN chal
      PROVE  Counted(chal'[d], Cardinality(Losing(req', d)), Cardinality(Checking(req', d)))
  <2>1. d # 0
    BY ChallengeTypes, Zenon
  <2>2. /\ Cardinality(Losing(req', d)) = Cardinality(Losing(req, d))
        /\ Cardinality(Checking(req', d)) = Cardinality(Checking(req, d))
    BY <2>1, Recount, Zenon DEF IsLosing, IsChecking, Granted
  <2>3. Counted(chal[d], Cardinality(Losing(req, d)), Cardinality(Checking(req, d)))
    BY Zenon DEF CountInv
  <2> QED
    BY <1>2, <2>2, <2>3, Zenon DEF Counted
<1> QED
  BY <1>1, <1>3, <1>4, <1>5, Zenon DEF CountInv

\* One row changes, but neither its state nor what it has granted; the request
\* holds no challenge before or after.
LEMMA RowKeeps ==
    ASSUME TypeOK, ChalInv, NEW r \in Requests, Apart(r),
           DOMAIN chal' = DOMAIN chal,
           \A d \in DOMAIN chal : chal'[d].st = chal[d].st /\ chal'[d].uses = chal[d].uses,
           req'[r].ch \in {0, req[r].ch},
           req'[r].ch # 0 <=> req'[r].pc \in Peeked
    PROVE  ChalInv'
<1>1. ASSUME NEW p \in Requests PROVE Refers(req[p])'
  BY DEF Apart, ChalInv, Refers, Holds, Peeked, Granted
<1>2. ASSUME NEW p \in Requests, Holds(req'[p]) PROVE p # r /\ Holds(req[p])
  BY <1>2, Zenon DEF Apart, Holds, Granted, Peeked
<1> QED
  BY <1>1, <1>2 DEF Apart, ChalInv, Holds

\* A wrong code.
LEMMA WrongKeeps ==
    ASSUME TypeOK, ChalInv, CountInv, NEW r \in Requests, CompleteCheckWrong(r)
    PROVE  chal' \in Seq(Challenge) /\ ChalInv' /\ CountInv'
<1> DEFINE c == req[r].ch
           y == [chal[c] EXCEPT !.guesses = @ + 1]
<1>1. /\ req[r].pc = "check" /\ c \in DOMAIN chal /\ chal[c] \in Challenge
      /\ Apart(r) /\ req'[r].pc = "record" /\ req'[r].ch = c
  <2>1. Refers(req[r]) /\ req[r].pc = "check"
    BY Zenon DEF ChalInv, CompleteCheckWrong
  <2>2. c \in DOMAIN chal
    BY <2>1, Zenon DEF Refers, Peeked
  <2>3. Apart(r) /\ req'[r].pc = "record" /\ req'[r].ch = c
    BY Zenon DEF CompleteCheckWrong, Goto, Apart, TypeOK, Request
  <2> QED
    BY <2>1, <2>2, <2>3, ChallengeTypes, Zenon
<1>2. y \in Challenge /\ y.st = chal[c].st /\ y.uses = chal[c].uses
  BY <1>1 DEF Challenge
<1>3. chal' = [chal EXCEPT ![c] = y]
  BY Zenon DEF CompleteCheckWrong
<1>4. /\ chal' \in Seq(Challenge) /\ DOMAIN chal' = DOMAIN chal /\ chal'[c] = y
      /\ \A d \in DOMAIN chal \ {c} : chal'[d] = chal[d]
  <2> HIDE DEF y
  <2> QED
    BY <1>1, <1>2, <1>3, OneChallenge, Zenon
<1>5. c # 0
  BY <1>1, ChallengeTypes, Zenon
<1>6. Counted(y, Cardinality(Losing(req, c)) + 1, Cardinality(Checking(req, c)) - 1)
  <2>1. Counted(chal[c], Cardinality(Losing(req, c)), Cardinality(Checking(req, c)))
    BY <1>1, Zenon DEF CountInv
  <2> QED
    BY <1>1, <2>1, Disjoint, CountedWrong, Zenon
<1> HIDE DEF y, c
<1>7. ChalInv'
  BY <1>1, <1>2, <1>4, <1>5, RowKeeps, Zenon DEF Peeked, c
<1>8. ASSUME NEW d \in DOMAIN chal
      PROVE  Counted(chal'[d], Cardinality(Losing(req', d)), Cardinality(Checking(req', d)))
  <2>1. CASE d # c
    BY <1>1, <1>4, <2>1, OtherChallenge, Zenon DEF IsLosing, IsChecking, c
  <2>2. CASE d = c
    BY <1>1, <1>4, <1>6, <2>2, Recount, Zenon DEF IsLosing, IsChecking, c
  <2> QED
    BY <2>1, <2>2, Zenon
<1> QED
  BY <1>4, <1>7, <1>8, Zenon DEF CountInv

\* The state of one row is written, by DeleteMFAChallenge or because its time
\* has passed.
LEMMA StateWritten ==
    ASSUME TypeOK, NEW c \in DOMAIN chal, NEW t \in {"expired", "gone"},
           chal' = [chal EXCEPT ![c].st = t]
    PROVE  /\ chal' \in Seq(Challenge)
           /\ DOMAIN chal' = DOMAIN chal
           /\ chal'[c] = [chal[c] EXCEPT !.st = t]
           /\ chal'[c].st = t /\ chal'[c].uses = chal[c].uses
           /\ chal'[c].failed = chal[c].failed /\ chal'[c].lost = chal[c].lost
           /\ chal'[c].guesses = chal[c].guesses
           /\ \A d \in DOMAIN chal \ {c} : chal'[d] = chal[d]
<1> DEFINE y == [chal[c] EXCEPT !.st = t]
<1>1. chal[c] \in Challenge
  BY ChallengeTypes, Zenon
<1>2. /\ y \in Challenge
      /\ y.st = t /\ y.uses = chal[c].uses /\ y.failed = chal[c].failed
      /\ y.lost = chal[c].lost /\ y.guesses = chal[c].guesses
  BY <1>1, Zenon DEF Challenge
<1>3. chal' = [chal EXCEPT ![c] = y]
  BY Zenon
<1> HIDE DEF y
<1>4. /\ chal' \in Seq(Challenge) /\ DOMAIN chal' = DOMAIN chal /\ chal'[c] = y
      /\ \A d \in DOMAIN chal \ {c} : chal'[d] = chal[d]
  BY <1>2, <1>3, OneChallenge, Zenon
<1> QED
  BY <1>2, <1>4, Zenon DEF y

\* A row is deleted: burnt, swept, or taken by the request that it lets through.
LEMMA GoneKeeps ==
    ASSUME TypeOK, ChalInv, CountInv, NEW r \in Requests, Apart(r), NEW c \in DOMAIN chal,
           chal' = [chal EXCEPT ![c].st = "gone"],
           \/ req' = req
           \/ /\ req[r].pc \notin {"check", "record"}
              /\ req[r].pc = "burn" => req[r].ch = c
              /\ \/ req'[r].ch = 0 /\ req'[r].pc = "idle"
                 \/ req'[r].ch = c /\ req'[r].pc \in Granted /\ chal[c].st # "gone"
    PROVE  chal' \in Seq(Challenge) /\ ChalInv' /\ CountInv'
<1>1. /\ chal' \in Seq(Challenge)
      /\ DOMAIN chal' = DOMAIN chal
      /\ chal'[c].st = "gone" /\ chal'[c].uses = chal[c].uses
      /\ chal'[c].failed = chal[c].failed /\ chal'[c].lost = chal[c].lost
      /\ chal'[c].guesses = chal[c].guesses
      /\ \A d \in DOMAIN chal \ {c} : chal'[d] = chal[d]
  BY StateWritten, Zenon
<1>2. c # 0 /\ chal[c] \in Challenge
  BY ChallengeTypes, Zenon
<1>3. ChalInv'
  <2>1. ASSUME NEW p \in Requests PROVE Refers(req[p])'
    <3>1. CASE req' = req \/ p # r
      BY <1>1, <3>1 DEF Apart, ChalInv, Refers, Holds
    <3>2. CASE req' # req /\ p = r
      BY <1>1, <1>2, <3>2, Zenon DEF ChalInv, Refers, Holds, Peeked, Granted
    <3> QED
      BY <3>1, <3>2, Zenon
  <2>2. ASSUME NEW p \in Requests, NEW q \in Requests, Holds(req'[p]), Holds(req'[q]),
               req'[p].ch = req'[q].ch
        PROVE  p = q
    <3>1. CASE req' = req
      BY <2>2, <3>1, Zenon DEF ChalInv
    <3>2. CASE req' # req
      <4>1. \A s \in Requests \ {r} : Holds(req'[s]) =>
              Holds(req[s]) /\ req'[s].ch = req[s].ch
        BY Zenon DEF Apart, Holds
      <4>2. ASSUME Holds(req'[r]) PROVE \A s \in Requests \ {r} : Holds(req[s]) => req[s].ch # c
        BY <3>2, <4>2, Zenon DEF Holds, ChalInv, Refers
      <4>3. Holds(req'[r]) => req'[r].ch = c
        BY <3>2, Zenon DEF Holds
      <4> QED
        BY <2>2, <4>1, <4>2, <4>3 DEF ChalInv
    <3> QED
      BY <3>1, <3>2, Zenon
  <2> QED
    BY <1>1, <2>1, <2>2, Zenon DEF ChalInv
<1>4. ASSUME NEW d \in DOMAIN chal
      PROVE  Counted(chal'[d], Cardinality(Losing(req', d)), Cardinality(Checking(req', d)))
  <2>0. Counted(chal[d], Cardinality(Losing(req, d)), Cardinality(Checking(req, d)))
    BY Zenon DEF CountInv
  <2>1. CASE req' = req
    BY <1>1, <2>0, <2>1, Zenon DEF Counted
  <2>2. CASE req' # req
    <3>1. d # 0 /\ ~IsLosing(req'[r], d) /\ ~IsChecking(req'[r], d) /\ ~IsChecking(req[r], d)
      BY <2>2, ChallengeTypes, Zenon DEF IsLosing, IsChecking, Granted
    <3>2. CASE d # c
      <4>1. ~IsLosing(req[r], d)
        BY <2>2, <3>2, Zenon DEF IsLosing
      <4> QED
        BY <1>1, <3>1, <3>2, <4>1, OtherChallenge, Zenon
    <3>3. CASE d = c
      <4>1. Cardinality(Checking(req', d)) = Cardinality(Checking(req, d))
        BY <3>1, Recount, Zenon
      <4> QED
        BY <1>1, <2>0, <3>3, <4>1, Zenon DEF Counted
    <3> QED
      BY <3>2, <3>3, Zenon
  <2> QED
    BY <2>1, <2>2, Zenon
<1> QED
  BY <1>1, <1>3, <1>4, Zenon DEF CountInv

\* A row's time passes, or mfa_gc deletes it.
LEMMA ExpiryKeeps ==
    ASSUME TypeOK, ChalInv, CountInv, NEW c \in DOMAIN chal,
           NEW t \in {"expired", "gone"}, chal' = [chal EXCEPT ![c].st = t],
           chal[c].st # "gone", req' = req
    PROVE  chal' \in Seq(Challenge) /\ ChalInv' /\ CountInv'
<1>1. /\ chal' \in Seq(Challenge)
      /\ DOMAIN chal' = DOMAIN chal
      /\ chal'[c].st = t /\ chal'[c].uses = chal[c].uses
      /\ chal'[c].failed = chal[c].failed /\ chal'[c].lost = chal[c].lost
      /\ chal'[c].guesses = chal[c].guesses
      /\ \A d \in DOMAIN chal \ {c} : chal'[d] = chal[d]
  BY StateWritten, Zenon
<1>3. ChalInv'
  BY <1>1 DEF ChalInv, Refers, Holds
<1>4. CountInv'
  <2>1. ASSUME NEW d \in DOMAIN chal
        PROVE  Counted(chal'[d], Cardinality(Losing(req, d)), Cardinality(Checking(req, d)))
    <3>1. Counted(chal[d], Cardinality(Losing(req, d)), Cardinality(Checking(req, d)))
      BY Zenon DEF CountInv
    <3> QED
      BY <1>1, <3>1, Zenon DEF Counted
  <2> QED
    BY <1>1, <2>1, Zenon DEF CountInv
<1> QED
  BY <1>1, <1>3, <1>4, Zenon

\* Peek of a live challenge.
LEMMA PeekKeeps ==
    ASSUME TypeOK, ChalInv, CountInv, NEW r \in Requests, Apart(r), NEW c \in DOMAIN chal,
           chal[c].st = "open", chal' = chal,
           req[r].pc = "idle", req'[r].pc = "check", req'[r].ch = c
    PROVE  ChalInv' /\ CountInv'
<1>1. c # 0
  BY ChallengeTypes, Zenon
<1>2. ChalInv'
  <2>1. ASSUME NEW p \in Requests PROVE Refers(req[p])'
    BY <1>1 DEF Apart, ChalInv, Refers, Holds, Peeked, Granted
  <2>2. ASSUME NEW p \in Requests, Holds(req'[p]) PROVE p # r /\ Holds(req[p])
    BY <2>2, Zenon DEF Apart, Holds, Granted
  <2> QED
    BY <2>1, <2>2 DEF Apart, ChalInv, Holds
<1>3. ASSUME NEW d \in DOMAIN chal
      PROVE  Counted(chal'[d], Cardinality(Losing(req', d)), Cardinality(Checking(req', d)))
  <2>1. CASE d # c
    BY <2>1, OtherChallenge, Zenon DEF IsLosing, IsChecking
  <2>2. CASE d = c
    <3>1. /\ Cardinality(Losing(req', d)) = Cardinality(Losing(req, d))
          /\ Cardinality(Checking(req', d)) = Cardinality(Checking(req, d)) + 1
      BY <2>2, Recount, Zenon DEF IsLosing, IsChecking
    <3>2. Counted(chal[d], Cardinality(Losing(req, d)), Cardinality(Checking(req, d)))
      BY Zenon DEF CountInv
    <3>3. chal[d] \in Challenge
      BY ChallengeTypes, Zenon
    <3>4. Cardinality(Losing(req', d)) + Cardinality(Checking(req', d)) <= N
      BY Disjoint, Zenon
    <3> QED
      BY <2>2, <3>1, <3>2, <3>3, <3>4, Disjoint, CountedPeek
  <2> QED
    BY <2>1, <2>2, Zenon
<1> QED
  BY <1>2, <1>3, Zenon DEF CountInv

\* RecordFailedAttempt, up to the threshold.
LEMMA RecordKeeps ==
    ASSUME TypeOK, ChalInv, CountInv, NEW r \in Requests, CompleteRecord(r)
    PROVE  chal' \in Seq(Challenge) /\ ChalInv' /\ CountInv'
<1> DEFINE c == req[r].ch
           y == [chal[c] EXCEPT !.failed = @ + 1]
<1>1. req[r].pc = "record" /\ c \in DOMAIN chal /\ chal[c] \in Challenge
  <2>1. Refers(req[r]) /\ req[r].pc = "record"
    BY Zenon DEF ChalInv, CompleteRecord
  <2>2. c \in DOMAIN chal
    BY <2>1, Zenon DEF Refers, Peeked
  <2> QED
    BY <2>1, <2>2, ChallengeTypes, Zenon
<1>2. c # 0
  BY <1>1, ChallengeTypes, Zenon
<1>3. Apart(r) /\ \/ req'[r].pc = "idle" /\ req'[r].ch = 0
                  \/ req'[r].pc = "burn" /\ req'[r].ch = c
  <2>1. Return(r) \/ Goto(r, "burn")
    BY Zenon DEF CompleteRecord
  <2>2. CASE Return(r)
    BY <2>2, Zenon DEF Return, IdleRequest, Apart, TypeOK
  <2>3. CASE Goto(r, "burn")
    BY <2>3 DEF Goto, Apart, TypeOK, Request
  <2> QED
    BY <2>1, <2>2, <2>3, Zenon
<1>4. Counted(chal[c], Cardinality(Losing(req, c)), Cardinality(Checking(req, c)))
  BY <1>1, Zenon DEF CountInv
<1>5. CASE chal[c].st = "gone"
  <2>1. chal' = chal /\ req'[r].pc = "idle" /\ req'[r].ch = 0
    <3>1. Return(r) /\ chal' = chal
      BY <1>5, Zenon DEF CompleteRecord, GetMFAChallenge
    <3> QED
      BY <3>1, Zenon DEF Return, IdleRequest, TypeOK
  <2>2. ChalInv'
    BY <1>3, <2>1, RowKeeps, Zenon DEF Peeked
  <2>3. ASSUME NEW d \in DOMAIN chal
        PROVE  Counted(chal'[d], Cardinality(Losing(req', d)), Cardinality(Checking(req', d)))
    <3>1. CASE d # c
      BY <1>1, <1>3, <2>1, <3>1, ChallengeTypes, OtherChallenge, Zenon DEF IsLosing, IsChecking
    <3>2. CASE d = c
      <4>1. Cardinality(Checking(req', d)) = Cardinality(Checking(req, d))
        BY <1>1, <1>2, <1>3, <2>1, <3>2, Recount, Zenon DEF IsChecking
      <4> QED
        BY <1>1, <1>4, <1>5, <2>1, <3>2, <4>1, Disjoint, CountedEnded
    <3> QED
      BY <3>1, <3>2, Zenon
  <2> QED
    BY <2>1, <2>2, <2>3, Zenon DEF CountInv, TypeOK
<1>6. CASE chal[c].st # "gone"
  <2>1. /\ chal' = [chal EXCEPT ![c] = y]
        /\ IF chal'[c].failed >= MaxFailed THEN Goto(r, "burn") ELSE Return(r)
    BY <1>6, Zenon DEF CompleteRecord, GetMFAChallenge, IncrementMFAFailedAttempts
  <2>2. /\ y \in Challenge /\ y.st = chal[c].st /\ y.uses = chal[c].uses
        /\ y.failed = chal[c].failed + 1 /\ y.failed \in Nat
    BY <1>1 DEF Challenge
  <2>3. Counted(y, Cardinality(Losing(req, c)), Cardinality(Checking(req, c)))
    BY <1>1, <1>4, <1>6, Disjoint, CountedRecord, Zenon
  <2>4. y.failed < MaxFailed =>
          Counted(y, Cardinality(Losing(req, c)) - 1, Cardinality(Checking(req, c)))
    BY <1>1, <1>4, <1>6, <2>2, Disjoint, CountedRecord, Zenon
  <2> HIDE DEF y
  <2>5. /\ chal' \in Seq(Challenge) /\ DOMAIN chal' = DOMAIN chal /\ chal'[c] = y
        /\ \A d \in DOMAIN chal \ {c} : chal'[d] = chal[d]
    BY <1>1, <2>1, <2>2, OneChallenge, Zenon
  <2>6. \/ req'[r].pc = "burn" /\ req'[r].ch = c
        \/ req'[r].pc = "idle" /\ req'[r].ch = 0 /\ y.failed < MaxFailed
    <3>1. CASE y.failed >= MaxFailed
      BY <2>1, <2>5, <3>1 DEF Goto, TypeOK, Request
    <3>2. CASE y.failed < MaxFailed
      <4>1. Return(r)
        BY <2>1, <2>2, <2>5, <3>2, ConstantsAssumption
      <4> QED
        BY <3>2, <4>1, Zenon DEF Return, IdleRequest, TypeOK
    <3> QED
      BY <2>2, <3>1, <3>2, ConstantsAssumption
  <2>7. ChalInv'
    BY <1>2, <1>3, <2>2, <2>5, RowKeeps, Zenon DEF Peeked
  <2>8. ASSUME NEW d \in DOMAIN chal
        PROVE  Counted(chal'[d], Cardinality(Losing(req', d)), Cardinality(Checking(req', d)))
    <3>1. CASE d # c
      BY <1>1, <1>3, <2>5, <3>1, ChallengeTypes, OtherChallenge, Zenon DEF IsLosing, IsChecking
    <3>2. CASE d = c
      <4>1. Cardinality(Checking(req', d)) = Cardinality(Checking(req, d))
        BY <1>1, <1>3, <3>2, Recount, Zenon DEF IsChecking
      <4>2. CASE req'[r].pc = "burn" /\ req'[r].ch = c
        <5>1. Cardinality(Losing(req', d)) = Cardinality(Losing(req, d))
          BY <1>1, <1>3, <3>2, <4>2, Recount, Zenon DEF IsLosing
        <5> QED
          BY <2>3, <2>5, <3>2, <4>1, <5>1, Zenon
      <4>3. CASE req'[r].pc = "idle" /\ req'[r].ch = 0 /\ y.failed < MaxFailed
        <5>1. Cardinality(Losing(req', d)) = Cardinality(Losing(req, d)) - 1
          BY <1>1, <1>2, <1>3, <3>2, <4>3, Recount, Zenon DEF IsLosing
        <5> QED
          BY <2>4, <2>5, <3>2, <4>1, <4>3, <5>1, Zenon
      <4> QED
        BY <2>6, <4>2, <4>3, Zenon
    <3> QED
      BY <3>1, <3>2, Zenon
  <2> QED
    BY <2>5, <2>7, <2>8, Zenon DEF CountInv
<1> QED
  BY <1>5, <1>6, Zenon

\* A failure whose count or burn is lost.
LEMMA LostKeeps ==
    ASSUME TypeOK, ChalInv, CountInv, NEW r \in Requests, Abandon(r),
           req[r].pc \in {"record", "burn"}
    PROVE  chal' \in Seq(Challenge) /\ ChalInv' /\ CountInv'
<1> DEFINE c == req[r].ch
           y == [chal[c] EXCEPT !.lost = @ + 1]
<1>1. c \in DOMAIN chal /\ chal[c] \in Challenge /\ c # 0
  <2>1. Refers(req[r])
    BY Zenon DEF ChalInv
  <2>2. c \in DOMAIN chal
    BY <2>1, Zenon DEF Refers, Peeked
  <2> QED
    BY <2>2, ChallengeTypes, Zenon
<1>2. Apart(r) /\ req'[r].pc = "idle" /\ req'[r].ch = 0
  BY Zenon DEF Abandon, Return, IdleRequest, Apart, TypeOK
<1>3. y \in Challenge /\ y.st = chal[c].st /\ y.uses = chal[c].uses
  BY <1>1 DEF Challenge
<1>4. chal' = [chal EXCEPT ![c] = y]
  BY Zenon DEF Abandon
<1>5. \A d \in DOMAIN chal : IsLosing(req[r], d) <=> d = c
  BY Zenon DEF IsLosing
<1>6. /\ Cardinality(Losing(req', c)) = Cardinality(Losing(req, c)) - 1
      /\ Cardinality(Checking(req', c)) = Cardinality(Checking(req, c))
  BY <1>1, <1>2, <1>5, Recount, Zenon DEF IsLosing, IsChecking
<1>7. Counted(y, Cardinality(Losing(req', c)), Cardinality(Checking(req', c)))
  <2>1. Counted(chal[c], Cardinality(Losing(req, c)), Cardinality(Checking(req, c)))
    BY <1>1, Zenon DEF CountInv
  <2>2. /\ Cardinality(Losing(req, c)) \in Nat /\ Cardinality(Checking(req, c)) \in Nat
        /\ 1 <= Cardinality(Losing(req, c)) /\ N \in Nat
    BY <1>6, Disjoint
  <2>3. Counted(y, Cardinality(Losing(req, c)) - 1, Cardinality(Checking(req, c)))
    BY <1>1, <2>1, <2>2, CountedLost
  <2> QED
    BY <1>6, <2>3, Zenon
<1> HIDE DEF y
<1>8. /\ chal' \in Seq(Challenge) /\ DOMAIN chal' = DOMAIN chal /\ chal'[c] = y
      /\ \A d \in DOMAIN chal \ {c} : chal'[d] = chal[d]
  BY <1>1, <1>3, <1>4, OneChallenge, Zenon
<1>9. ChalInv'
  BY <1>2, <1>3, <1>8, RowKeeps, Zenon DEF Peeked
<1>10. ASSUME NEW d \in DOMAIN chal
       PROVE  Counted(chal'[d], Cardinality(Losing(req', d)), Cardinality(Checking(req', d)))
  <2>1. CASE d # c
    BY <1>2, <1>5, <1>8, <2>1, ChallengeTypes, OtherChallenge, Zenon DEF IsLosing, IsChecking
  <2>2. CASE d = c
    BY <1>7, <1>8, <2>2, Zenon
  <2> QED
    BY <2>1, <2>2, Zenon
<1> QED
  BY <1>8, <1>9, <1>10, Zenon DEF CountInv

\* The process dies with all its requests.
LEMMA RestartKeeps ==
    ASSUME TypeOK, ChalInv, CountInv, Restart
    PROVE  chal' \in Seq(Challenge) /\ ChalInv' /\ CountInv'
<1>1. /\ chal' = [c \in DOMAIN chal |->
                    [chal[c] EXCEPT !.lost = @ + Cardinality(Losing(req, c))]]
      /\ \A p \in Requests : req'[p] = IdleRequest
  BY Zenon DEF Restart, Losing, IsLosing
<1>2. DOMAIN chal' = DOMAIN chal
  BY <1>1, Zenon
<1>3. ASSUME NEW d \in DOMAIN chal
      PROVE  /\ chal'[d] \in Challenge
             /\ chal'[d].st = chal[d].st /\ chal'[d].uses = chal[d].uses
             /\ chal'[d] = [chal[d] EXCEPT !.lost = @ + Cardinality(Losing(req, d))]
  <2>1. chal[d] \in Challenge /\ Cardinality(Losing(req, d)) \in Nat
    BY ChallengeTypes, Disjoint, Zenon
  <2> QED
    BY <1>1, <2>1 DEF Challenge
<1>4. chal' \in Seq(Challenge)
  BY <1>1, <1>3, ChallengeTypes
<1>5. ChalInv'
  <2>1. ASSUME NEW p \in Requests PROVE Refers(req[p])' /\ ~Holds(req'[p])
    BY <1>1 DEF Refers, Holds, IdleRequest, Peeked
  <2> QED
    BY <1>2, <1>3, <2>1, Zenon DEF ChalInv
<1>6. ASSUME NEW d \in DOMAIN chal
      PROVE  Counted(chal'[d], Cardinality(Losing(req', d)), Cardinality(Checking(req', d)))
  <2>1. Losing(req', d) = {} /\ Checking(req', d) = {}
    BY <1>1 DEF Losing, Checking, IsLosing, IsChecking, IdleRequest
  <2>2. Cardinality(Losing(req', d)) = 0 /\ Cardinality(Checking(req', d)) = 0
    BY <2>1, FS_EmptySet, Zenon
  <2>3. Counted(chal[d], Cardinality(Losing(req, d)), Cardinality(Checking(req, d)))
    BY Zenon DEF CountInv
  <2>4. chal[d] \in Challenge
    BY ChallengeTypes, Zenon
  <2>5. /\ Cardinality(Losing(req, d)) \in Nat
        /\ Cardinality(Checking(req, d)) \in Nat /\ N \in Nat
    BY Disjoint, Zenon
  <2>6. Counted(chal'[d], Cardinality(Losing(req, d)) - Cardinality(Losing(req, d)), 0)
    <3>1. Counted([chal[d] EXCEPT !.lost = @ + Cardinality(Losing(req, d))],
                  Cardinality(Losing(req, d)) - Cardinality(Losing(req, d)), 0)
      <4>1. /\ Cardinality(Losing(req, d)) <= Cardinality(Losing(req, d))
            /\ 0 \in Nat /\ 0 <= Cardinality(Checking(req, d))
        BY <2>5
      <4> QED
        BY <2>3, <2>4, <2>5, <4>1, CountedLost, Zenon
    <3> QED
      BY <1>3, <3>1, Zenon
  <2> QED
    BY <2>2, <2>5, <2>6
<1> QED
  BY <1>2, <1>4, <1>5, <1>6, Zenon DEF CountInv

-----------------------------------------------------------------------------
(* Requests: their types, and what Authorize has seen of the factors       *)

PCs == {"idle", "readTotp", "countPasskeys", "put", "issue", "check", "record", "burn",
        "take", "setup", "enableRead", "enable", "disableRead", "disableAssert",
        "disable", "register", "remove", "rotate"}

\* The initial request is one.
LEMMA IdleIsRequest == IdleRequest \in Request
  BY Zenon DEF IdleRequest, Request, Factors

\* Updates of a request that keep its type.
LEMMA RequestWith ==
    ASSUME NEW q \in Request
    PROVE  /\ \A pc \in PCs :
                [q EXCEPT !.pc = pc] \in Request
           /\ \A pc \in PCs, n \in Nat :
                [q EXCEPT !.pc = pc, !.ch = n] \in Request
           /\ \A pc \in PCs, n \in Nat :
                [q EXCEPT !.pc = pc, !.key = n] \in Request
           /\ \A pc \in PCs, n \in Nat, f \in Factors :
                [q EXCEPT !.pc = pc, !.ch = n, !.factor = f] \in Request
           /\ \A pc \in PCs, n \in Nat, b, d \in BOOLEAN :
                [q EXCEPT !.pc = pc, !.key = n, !.armedT = b, !.armedW = d] \in Request
           /\ \A pc \in PCs, b, d \in BOOLEAN :
                [q EXCEPT !.pc = pc, !.blind = b, !.sawT = d] \in Request
           /\ \A pc \in PCs, b, d \in BOOLEAN :
                [q EXCEPT !.sawW = b, !.blind = d, !.pc = pc] \in Request
<1>1. \A pc \in PCs :
        [q EXCEPT !.pc = pc] \in Request
  BY DEF Request, PCs
<1>2. \A pc \in PCs, n \in Nat :
        [q EXCEPT !.pc = pc, !.ch = n] \in Request
  BY Zenon DEF Request, PCs
<1>3. \A pc \in PCs, n \in Nat :
        [q EXCEPT !.pc = pc, !.key = n] \in Request
  BY Zenon DEF Request, PCs
<1>4. \A pc \in PCs, n \in Nat, f \in Factors :
        [q EXCEPT !.pc = pc, !.ch = n, !.factor = f] \in Request
  BY ZenonT(40) DEF Request, PCs
<1>5. \A pc \in PCs, n \in Nat, b, d \in BOOLEAN :
        [q EXCEPT !.pc = pc, !.key = n, !.armedT = b, !.armedW = d] \in Request
  BY ZenonT(40) DEF Request, PCs
<1>6. \A pc \in PCs, b, d \in BOOLEAN :
        [q EXCEPT !.pc = pc, !.blind = b, !.sawT = d] \in Request
  BY ZenonT(40) DEF Request, PCs
<1>7. \A pc \in PCs, b, d \in BOOLEAN :
        [q EXCEPT !.sawW = b, !.blind = d, !.pc = pc] \in Request
  BY ZenonT(40) DEF Request, PCs
<1> QED
  BY <1>1, <1>2, <1>3, <1>4, <1>5, <1>6, <1>7, Zenon

\* The request of slot r becomes q, the others stay.
Moves(r, q) == req' = [req EXCEPT ![r] = q]

\* A request moves while no factor is turned off.
LEMMA MoveKeeps ==
    ASSUME TypeOK, FactorInv, NEW r \in Requests, NEW q \in Request, Moves(r, q),
           totp.enabled => totp'.enabled, passkey => passkey',
           Watched(q, totp'.enabled, passkey')
    PROVE  /\ req' \in [Requests -> Request] /\ FactorInv'
           /\ Apart(r) /\ req'[r] = q
<1>1. /\ req' \in [Requests -> Request] /\ req'[r] = q
      /\ \A p \in Requests \ {r} : req'[p] = req[p]
  BY Zenon DEF TypeOK, Moves
<1>2. ASSUME NEW p \in Requests PROVE Watched(req'[p], totp'.enabled, passkey')
  BY <1>1, Zenon DEF FactorInv, Watched
<1> QED
  BY <1>1, <1>2, Zenon DEF FactorInv, Apart

\* A request returns while no factor is turned off.
LEMMA ReturnKeeps ==
    ASSUME TypeOK, FactorInv, NEW r \in Requests, Return(r),
           totp.enabled => totp'.enabled, passkey => passkey'
    PROVE  /\ req' \in [Requests -> Request] /\ FactorInv'
           /\ Apart(r) /\ req'[r].pc = "idle" /\ req'[r].ch = 0
<1>1. /\ Watched(IdleRequest, totp'.enabled, passkey')
      /\ IdleRequest.pc = "idle" /\ IdleRequest.ch = 0
  BY Zenon DEF Watched, IdleRequest
<1>2. Moves(r, IdleRequest)
  BY Zenon DEF Return, Moves
<1> QED
  BY <1>1, <1>2, IdleIsRequest, MoveKeeps, Zenon

\* A step that may switch a factor off.
LEMMA ObservedKeeps ==
    ASSUME TypeOK, FactorInv, NEW r \in Requests,
           totp' \in TotpRow, passkey' \in BOOLEAN,
           req' = Observed([req EXCEPT ![r] = IdleRequest])
    PROVE  /\ req' \in [Requests -> Request] /\ FactorInv'
           /\ Apart(r) /\ req'[r].pc = "idle" /\ req'[r].ch = 0
<1> DEFINE f == [req EXCEPT ![r] = IdleRequest]
<1>1. /\ f \in [Requests -> Request] /\ f[r] = IdleRequest
      /\ \A p \in Requests \ {r} : f[p] = req[p]
  BY IdleIsRequest, Zenon DEF TypeOK
<1>2. req' = [p \in Requests |-> [f[p] EXCEPT !.armedT = @ /\ totp'.enabled,
                                              !.armedW = @ /\ passkey']]
  BY Zenon DEF Observed
<1> HIDE DEF f
<1>3. ASSUME NEW p \in Requests
      PROVE  /\ req'[p] \in Request
             /\ req'[p].pc = f[p].pc /\ req'[p].ch = f[p].ch
             /\ req'[p].blind = f[p].blind /\ req'[p].sawT = f[p].sawT
             /\ req'[p].armedT => f[p].armedT /\ totp'.enabled
             /\ req'[p].armedW => f[p].armedW /\ passkey'
  <2>1. f[p] \in Request
    BY <1>1, Zenon
  <2>2. /\ (f[p].armedT /\ totp'.enabled) \in BOOLEAN
        /\ (f[p].armedW /\ passkey') \in BOOLEAN
    BY Zenon
  <2>3. req'[p] = [f[p] EXCEPT !.armedT = f[p].armedT /\ totp'.enabled,
                               !.armedW = f[p].armedW /\ passkey']
    BY <1>2, Zenon
  <2>4. req'[p] \in Request
    BY <2>1, <2>2, <2>3, Zenon DEF Request
  <2> QED
    BY <2>1, <2>3, <2>4, Zenon DEF Request
<1>4. req' \in [Requests -> Request]
  BY <1>2, <1>3, Zenon
<1>5. Apart(r) /\ req'[r].pc = "idle" /\ req'[r].ch = 0
  <2>1. IdleRequest.pc = "idle" /\ IdleRequest.ch = 0
    BY Zenon DEF IdleRequest
  <2> QED
    BY <1>1, <1>3, <2>1, ZenonT(40) DEF Apart
<1>6. ASSUME NEW p \in Requests PROVE Watched(req'[p], totp'.enabled, passkey')
  <2>1. Watched(f[p], TRUE, TRUE)
    <3>1. CASE p = r
      BY <1>1, <3>1 DEF Watched, IdleRequest
    <3>2. CASE p # r
      BY <1>1, <3>2, Zenon DEF Watched, FactorInv
    <3> QED
      BY <3>1, <3>2, Zenon
  <2> QED
    BY <1>3, <2>1, Zenon DEF Watched
<1> QED
  BY <1>4, <1>5, <1>6, Zenon DEF FactorInv

-----------------------------------------------------------------------------
(* One lemma per handler                                                   *)

\* The tables but mfa_challenges stay.
Stay == UNCHANGED <<pwVer, totp, passkey, kek>>

\* The invariant, for one request at a time.
LEMMA InvFacts ==
    ASSUME MFAInv
    PROVE  /\ TypeOK /\ ChalInv /\ CountInv /\ FactorInv /\ TOTPOpenable
           /\ \A r \in Requests : /\ req[r] \in Request /\ req[r].ch \in Nat
                                  /\ req[r].key \in Nat /\ Refers(req[r])
                                  /\ Watched(req[r], totp.enabled, passkey)
<1>1. TypeOK /\ ChalInv /\ CountInv /\ FactorInv /\ TOTPOpenable
  BY Zenon DEF MFAInv
<1>2. ASSUME NEW r \in Requests
      PROVE  /\ req[r] \in Request /\ req[r].ch \in Nat /\ req[r].key \in Nat
             /\ Refers(req[r]) /\ Watched(req[r], totp.enabled, passkey)
  BY <1>1, Zenon DEF TypeOK, Request, ChalInv, FactorInv
<1> QED
  BY <1>1, <1>2, Zenon

\* What is left to show of a step that writes no other table.
LEMMA Assemble ==
    ASSUME MFAInv, Stay, chal' \in Seq(Challenge), req' \in [Requests -> Request],
           ChalInv', CountInv', FactorInv'
    PROVE  MFAInv'
  BY Zenon DEF MFAInv, Stay, TypeOK, TOTPOpenable

\* Authorize.
LEMMA AuthorizeKeeps ==
    ASSUME MFAInv, NEW r \in Requests,
           \/ AuthorizeVerified(r) \/ AuthorizeReadTotp(r) \/ AuthorizeCountPasskeys(r)
           \/ AuthorizePut(r) \/ Issue(r)
    PROVE  MFAInv'
<1>0. /\ TypeOK /\ ChalInv /\ CountInv /\ FactorInv
      /\ req[r] \in Request /\ Refers(req[r]) /\ Watched(req[r], totp.enabled, passkey)
      /\ req[r].key \in Nat
  BY InvFacts, Zenon
<1>t. /\ totp.enabled \in BOOLEAN /\ passkey \in BOOLEAN /\ pwVer \in Nat
      /\ chal \in Seq(Challenge)
  BY <1>0, Zenon DEF TypeOK, TotpRow
<1>1. CASE AuthorizeVerified(r)
  <2> DEFINE q == [IdleRequest EXCEPT !.pc = "readTotp", !.key = pwVer,
                                      !.armedT = totp.enabled, !.armedW = passkey]
  <2>1. q \in Request
    <3>1. "readTotp" \in PCs
      BY Zenon DEF PCs
    <3> QED
      BY <1>t, <3>1, IdleIsRequest, RequestWith, Zenon
  <2>2. Watched(q, totp.enabled, passkey) /\ q.ch = 0 /\ q.pc = "readTotp"
    BY Zenon DEF Watched, IdleRequest
  <2>3. Moves(r, q) /\ Stay /\ chal' = chal /\ req[r].pc = "idle"
    BY <1>1, Zenon DEF AuthorizeVerified, Moves, Stay, TotpOn
  <2> HIDE DEF q
  <2>4. req' \in [Requests -> Request] /\ FactorInv' /\ Apart(r) /\ req'[r] = q
    BY <1>0, <2>1, <2>2, <2>3, MoveKeeps, Zenon DEF Stay
  <2>5. ChalInv' /\ CountInv'
    BY <1>0, <2>2, <2>3, <2>4, QuietKeeps, Zenon DEF Peeked
  <2> QED
    BY <1>t, <2>3, <2>4, <2>5, Assemble, Zenon
<1>2. CASE AuthorizeReadTotp(r)
  <2>1. PICK fails \in BOOLEAN :
          req' = [req EXCEPT ![r].pc = "countPasskeys", ![r].blind = fails,
                             ![r].sawT = totp.enabled /\ ~fails]
    BY <1>2, Zenon DEF AuthorizeReadTotp, TotpOn
  <2> DEFINE q == [req[r] EXCEPT !.pc = "countPasskeys", !.blind = fails,
                                 !.sawT = totp.enabled /\ ~fails]
  <2>2. q \in Request
    <3>1. "countPasskeys" \in PCs /\ (totp.enabled /\ ~fails) \in BOOLEAN
      BY Zenon DEF PCs
    <3> QED
      BY <1>0, <3>1, RequestWith, Zenon
  <2>3. /\ q.pc = "countPasskeys" /\ q.ch = req[r].ch /\ q.blind = fails
        /\ q.armedT = req[r].armedT /\ q.armedW = req[r].armedW
        /\ q.sawT = (totp.enabled /\ ~fails)
    BY <1>0, Zenon DEF Request
  <2>4. Moves(r, q) /\ Stay /\ chal' = chal /\ req[r].pc = "readTotp"
    BY <1>2, <2>1, Zenon DEF AuthorizeReadTotp, Moves, Stay, TypeOK
  <2> HIDE DEF q
  <2>5. Watched(q, totp.enabled, passkey)
    BY <1>0, <2>3, Zenon DEF Watched
  <2>6. req' \in [Requests -> Request] /\ FactorInv' /\ Apart(r) /\ req'[r] = q
    BY <1>0, <2>2, <2>4, <2>5, MoveKeeps, Zenon DEF Stay
  <2>7. req[r].ch = 0
    BY <1>0, <2>4, Zenon DEF Refers, Peeked, Granted
  <2>8. ChalInv' /\ CountInv'
    BY <1>0, <2>3, <2>4, <2>6, <2>7, QuietKeeps, Zenon DEF Peeked
  <2> QED
    BY <1>t, <2>4, <2>6, <2>8, Assemble, Zenon
<1>3. CASE AuthorizeCountPasskeys(r)
  <2>1. PICK fails \in BOOLEAN :
          LET some == CountWebAuthnCredentials > 0 /\ ~fails
          IN  req' = [req EXCEPT ![r].sawW = some, ![r].blind = @ \/ fails,
                                 ![r].pc = IF NeedsFactor(req[r].sawT, some)
                                           THEN "put" ELSE "issue"]
    BY <1>3, Zenon DEF AuthorizeCountPasskeys
  <2> DEFINE some == CountWebAuthnCredentials > 0 /\ ~fails
             blind == req[r].blind \/ fails
             pc == IF NeedsFactor(req[r].sawT, some) THEN "put" ELSE "issue"
             q == [req[r] EXCEPT !.sawW = some, !.blind = blind, !.pc = pc]
  <2>2. some \in BOOLEAN /\ blind \in BOOLEAN /\ pc \in PCs
    BY Zenon DEF PCs
  <2>3. (some <=> passkey /\ ~fails) /\ (pc = "issue" => ~req[r].sawT /\ ~some)
    BY <1>t DEF CountWebAuthnCredentials, NeedsFactor
  <2>4. Moves(r, q) /\ Stay /\ chal' = chal /\ req[r].pc = "countPasskeys"
    BY <1>0, <1>3, <2>1, Zenon DEF AuthorizeCountPasskeys, Moves, Stay, TypeOK
  <2>5. pc \in {"put", "issue"} /\ (blind <=> req[r].blind \/ fails)
    BY Zenon
  <2> HIDE DEF some, blind, pc
  <2>6. q \in Request
    BY <1>0, <2>2, RequestWith, Zenon
  <2>7. /\ q.pc = pc /\ q.ch = req[r].ch /\ q.blind = blind
        /\ q.armedT = req[r].armedT /\ q.armedW = req[r].armedW
    BY <1>0, Zenon DEF Request
  <2> HIDE DEF q
  <2>8. Watched(q, totp.enabled, passkey)
    BY <1>0, <2>3, <2>4, <2>5, <2>7, Zenon DEF Watched
  <2>9. req' \in [Requests -> Request] /\ FactorInv' /\ Apart(r) /\ req'[r] = q
    BY <1>0, <2>4, <2>6, <2>8, MoveKeeps, Zenon DEF Stay
  <2>10. req[r].ch = 0
    BY <1>0, <2>4, Zenon DEF Refers, Peeked, Granted
  <2>11. ChalInv' /\ CountInv'
    BY <1>0, <2>4, <2>5, <2>7, <2>9, <2>10, QuietKeeps, Zenon DEF Peeked
  <2> QED
    BY <1>t, <2>4, <2>9, <2>11, Assemble, Zenon
<1>4. CASE AuthorizePut(r)
  <2>1. /\ Put(req[r].key, req[r].sawT, req[r].sawW)
        /\ Return(r) /\ Stay /\ req[r].pc = "put"
    BY <1>4, Zenon DEF AuthorizePut, Stay
  <2>2. /\ req' \in [Requests -> Request] /\ FactorInv'
        /\ Apart(r) /\ req'[r].pc = "idle" /\ req'[r].ch = 0
    BY <1>0, <2>1, ReturnKeeps, Zenon DEF Stay
  <2>3. req[r].sawT \in BOOLEAN /\ req[r].sawW \in BOOLEAN
    BY <1>0, Zenon DEF Request
  <2>4. chal' \in Seq(Challenge) /\ ChalInv' /\ CountInv'
    BY <1>0, <2>1, <2>2, <2>3, PutKeeps, Zenon DEF Peeked
  <2> QED
    BY <2>1, <2>2, <2>4, Assemble, Zenon
<1>5. CASE Issue(r)
  <2>1. chal' = Used(r) /\ Return(r) /\ Stay /\ req[r].pc = "issue"
    BY <1>5, Zenon DEF Issue, Stay
  <2>2. /\ req' \in [Requests -> Request] /\ FactorInv'
        /\ Apart(r) /\ req'[r].pc = "idle" /\ req'[r].ch = 0
    BY <1>0, <2>1, ReturnKeeps, Zenon DEF Stay
  <2>3. chal' \in Seq(Challenge) /\ ChalInv' /\ CountInv'
    BY <1>0, <2>1, <2>2, UsedKeeps, Zenon DEF Granted
  <2> QED
    BY <2>1, <2>2, <2>3, Assemble, Zenon
<1> QED
  BY <1>1, <1>2, <1>3, <1>4, <1>5, Zenon

\* A request that only moves to another of its steps, or ends, and keeps what
\* it knows of the factors.
LEMMA GotoKeeps ==
    ASSUME TypeOK, FactorInv, NEW r \in Requests, NEW pc \in PCs, Goto(r, pc), Stay,
           pc \notin {"countPasskeys", "issue"}
    PROVE  /\ req' \in [Requests -> Request] /\ FactorInv'
           /\ Apart(r) /\ req'[r].pc = pc /\ req'[r].ch = req[r].ch
<1> DEFINE q == [req[r] EXCEPT !.pc = pc]
<1>1. req[r] \in Request /\ Watched(req[r], totp.enabled, passkey)
  BY Zenon DEF TypeOK, FactorInv
<1>2. q \in Request
  BY <1>1, RequestWith, Zenon
<1>3. q.pc = pc /\ q.ch = req[r].ch /\ q.armedT = req[r].armedT /\ q.armedW = req[r].armedW
  BY <1>1, Zenon DEF Request
<1>4. Moves(r, q)
  BY Zenon DEF Goto, Moves
<1> HIDE DEF q
<1>5. Watched(q, totp.enabled, passkey)
  BY <1>1, <1>3, Zenon DEF Watched
<1> QED
  BY <1>2, <1>3, <1>4, <1>5, MoveKeeps, Zenon DEF Stay

\* MFAStore.Take: one request at most goes on with the challenge.
LEMMA TakeKeeps ==
    ASSUME MFAInv, NEW r \in Requests, NEW c \in DOMAIN chal, NEW accepts,
           NEW pc \in Granted, Take(r, c, accepts, pc), Stay,
           req[r].pc \notin {"check", "record", "burn"}
    PROVE  MFAInv'
<1>0. /\ TypeOK /\ ChalInv /\ CountInv /\ FactorInv
      /\ req[r] \in Request /\ Watched(req[r], totp.enabled, passkey)
  BY InvFacts, Zenon
<1>1. c \in Nat /\ c # 0
  BY <1>0, ChallengeTypes, Zenon
<1>2. chal' = [chal EXCEPT ![c].st = "gone"]
  BY Zenon DEF Take, TakeMFAChallenge, DeleteMFAChallenge
<1> DEFINE q == [req[r] EXCEPT !.pc = pc, !.ch = c]
<1>3. \/ Return(r)
      \/ Moves(r, q) /\ chal[c].st # "gone"
  <2>1. CASE /\ \E row \in TakeMFAChallenge(c).row : row.st = "open" /\ Opens(row)
             /\ accepts
    <3>1. chal[c].st # "gone"
      BY <2>1, Zenon DEF TakeMFAChallenge
    <3> QED
      BY <2>1, <3>1, Zenon DEF Take, Moves
  <2>2. CASE ~(/\ \E row \in TakeMFAChallenge(c).row : row.st = "open" /\ Opens(row)
               /\ accepts)
    BY <2>2, Zenon DEF Take, Return
  <2> QED
    BY <2>1, <2>2, Zenon
<1>4. CASE Return(r)
  <2>1. /\ req' \in [Requests -> Request] /\ FactorInv'
        /\ Apart(r) /\ req'[r].pc = "idle" /\ req'[r].ch = 0
    BY <1>0, <1>4, ReturnKeeps, Zenon DEF Stay
  <2>2. chal' \in Seq(Challenge) /\ ChalInv' /\ CountInv'
    BY <1>0, <1>2, <2>1, GoneKeeps, Zenon
  <2> QED
    BY <2>1, <2>2, Assemble, Zenon
<1>5. CASE Moves(r, q) /\ chal[c].st # "gone"
  <2>1. q \in Request
    <3>1. pc \in PCs
      BY Zenon DEF Granted, PCs
    <3> QED
      BY <1>0, <1>1, <3>1, RequestWith, Zenon
  <2>2. q.pc = pc /\ q.ch = c /\ q.armedT = req[r].armedT /\ q.armedW = req[r].armedW
    BY <1>0, Zenon DEF Request
  <2> HIDE DEF q
  <2>3. Watched(q, totp.enabled, passkey)
    BY <1>0, <1>1, <2>2, Zenon DEF Watched, Granted
  <2>4. req' \in [Requests -> Request] /\ FactorInv' /\ Apart(r) /\ req'[r] = q
    BY <1>0, <1>5, <2>1, <2>3, MoveKeeps, Zenon DEF Stay
  <2>5. chal' \in Seq(Challenge) /\ ChalInv' /\ CountInv'
    BY <1>0, <1>2, <1>5, <2>2, <2>4, GoneKeeps, Zenon
  <2> QED
    BY <2>4, <2>5, Assemble, Zenon
<1> QED
  BY <1>3, <1>4, <1>5, Zenon

\* CompleteMFA and the ends of challenges.
LEMMA CompleteKeeps ==
    ASSUME MFAInv, NEW r \in Requests,
           \/ CompleteCheckRight(r) \/ CompleteCheckWrong(r) \/ CompleteReject(r)
           \/ CompleteRecord(r) \/ CompleteBurn(r) \/ CompleteTake(r)
    PROVE  MFAInv'
<1>0. /\ TypeOK /\ ChalInv /\ CountInv /\ FactorInv
      /\ req[r] \in Request /\ Refers(req[r]) /\ chal \in Seq(Challenge)
  BY InvFacts, Zenon DEF TypeOK
<1>p. "take" \in PCs /\ "record" \in PCs /\ "burn" \in PCs
  BY Zenon DEF PCs
<1>1. CASE CompleteCheckRight(r)
  <2>1. Goto(r, "take") /\ Stay /\ chal' = chal /\ req[r].pc = "check"
    BY <1>1, Zenon DEF CompleteCheckRight, Stay
  <2>2. /\ req' \in [Requests -> Request] /\ FactorInv'
        /\ Apart(r) /\ req'[r].pc = "take" /\ req'[r].ch = req[r].ch
    BY <1>0, <1>p, <2>1, GotoKeeps, Zenon
  <2>3. ChalInv' /\ CountInv'
    BY <1>0, <2>1, <2>2, QuietKeeps, Zenon
  <2> QED
    BY <1>0, <2>1, <2>2, <2>3, Assemble, Zenon
<1>2. CASE CompleteCheckWrong(r)
  <2>1. Goto(r, "record") /\ Stay
    BY <1>2, Zenon DEF CompleteCheckWrong, Stay
  <2>2. req' \in [Requests -> Request] /\ FactorInv'
    BY <1>0, <1>p, <2>1, GotoKeeps, Zenon
  <2>3. chal' \in Seq(Challenge) /\ ChalInv' /\ CountInv'
    BY <1>0, <1>2, WrongKeeps, Zenon
  <2> QED
    BY <2>1, <2>2, <2>3, Assemble, Zenon
<1>3. CASE CompleteReject(r)
  <2>1. Return(r) /\ Stay /\ chal' = chal /\ req[r].pc = "check"
    BY <1>3, Zenon DEF CompleteReject, Stay
  <2>2. /\ req' \in [Requests -> Request] /\ FactorInv'
        /\ Apart(r) /\ req'[r].pc = "idle" /\ req'[r].ch = 0
    BY <1>0, <2>1, ReturnKeeps, Zenon DEF Stay
  <2>3. ChalInv' /\ CountInv'
    BY <1>0, <2>1, <2>2, QuietKeeps, Zenon DEF Peeked
  <2> QED
    BY <1>0, <2>1, <2>2, <2>3, Assemble, Zenon
<1>4. CASE CompleteRecord(r)
  <2>1. (Return(r) \/ Goto(r, "burn")) /\ Stay
    BY <1>4, Zenon DEF CompleteRecord, Stay
  <2>2. req' \in [Requests -> Request] /\ FactorInv'
    BY <1>0, <1>p, <2>1, GotoKeeps, ReturnKeeps, Zenon DEF Stay
  <2>3. chal' \in Seq(Challenge) /\ ChalInv' /\ CountInv'
    BY <1>0, <1>4, RecordKeeps, Zenon
  <2> QED
    BY <2>1, <2>2, <2>3, Assemble, Zenon
<1>5. CASE CompleteBurn(r)
  <2>1. /\ Return(r) /\ Stay /\ req[r].pc = "burn"
        /\ chal' = [chal EXCEPT ![req[r].ch].st = "gone"]
    BY <1>5, Zenon DEF CompleteBurn, Stay, DeleteMFAChallenge
  <2>2. /\ req' \in [Requests -> Request] /\ FactorInv'
        /\ Apart(r) /\ req'[r].pc = "idle" /\ req'[r].ch = 0
    BY <1>0, <2>1, ReturnKeeps, Zenon DEF Stay
  <2>3. req[r].ch \in DOMAIN chal
    BY <1>0, <2>1, Zenon DEF Refers, Peeked
  <2>4. chal' \in Seq(Challenge) /\ ChalInv' /\ CountInv'
    BY <1>0, <2>1, <2>2, <2>3, GoneKeeps, Zenon
  <2> QED
    BY <2>1, <2>2, <2>4, Assemble, Zenon
<1>6. CASE CompleteTake(r)
  <2>1. Take(r, req[r].ch, TRUE, "issue") /\ Stay /\ req[r].pc = "take"
    BY <1>6, Zenon DEF CompleteTake, Stay
  <2>2. req[r].ch \in DOMAIN chal /\ "issue" \in Granted
    BY <1>0, <2>1, Zenon DEF Refers, Peeked, Granted
  <2> QED
    BY <2>1, <2>2, TakeKeeps, Zenon
<1> QED
  BY <1>1, <1>2, <1>3, <1>4, <1>5, <1>6, Zenon

\* CompleteMFA looks at the challenge without taking it.
LEMMA CompletePeekKeeps ==
    ASSUME MFAInv, NEW r \in Requests, NEW c \in DOMAIN chal, NEW f \in Factors,
           CompletePeek(r, c, f)
    PROVE  MFAInv'
<1>0. TypeOK /\ ChalInv /\ CountInv /\ FactorInv /\ chal \in Seq(Challenge)
  BY InvFacts, Zenon DEF TypeOK
<1>1. Stay /\ req[r].pc = "idle"
  BY Zenon DEF CompletePeek, Stay
<1>2. CASE UNCHANGED <<chal, req>>
  BY <1>0, <1>1, <1>2, Assemble, Zenon DEF TypeOK, ChalInv, CountInv, FactorInv, Stay, Refers
<1>3. CASE chal' = DeleteMFAChallenge(c) /\ req' = req
  <2>1. chal' = [chal EXCEPT ![c].st = "gone"] /\ Apart(r)
    BY <1>3, Zenon DEF DeleteMFAChallenge, Apart
  <2>2. chal' \in Seq(Challenge) /\ ChalInv' /\ CountInv'
    BY <1>0, <1>3, <2>1, GoneKeeps, Zenon
  <2> QED
    BY <1>0, <1>1, <1>3, <2>2, Assemble, Zenon DEF TypeOK, FactorInv, Stay
<1>4. CASE /\ chal[c].st = "open" /\ chal' = chal
           /\ req' = [req EXCEPT ![r] = [IdleRequest EXCEPT !.pc = "check",
                                           !.ch = c, !.factor = f]]
  <2> DEFINE q == [IdleRequest EXCEPT !.pc = "check", !.ch = c, !.factor = f]
  <2>1. q \in Request
    <3>1. "check" \in PCs /\ c \in Nat
      BY <1>0, ChallengeTypes, Zenon DEF PCs
    <3> QED
      BY <3>1, IdleIsRequest, RequestWith, Zenon
  <2>2. Watched(q, totp.enabled, passkey) /\ q.pc = "check" /\ q.ch = c
    BY Zenon DEF Watched, IdleRequest
  <2>3. Moves(r, q)
    BY <1>4, Zenon DEF Moves
  <2> HIDE DEF q
  <2>4. req' \in [Requests -> Request] /\ FactorInv' /\ Apart(r) /\ req'[r] = q
    BY <1>0, <1>1, <2>1, <2>2, <2>3, MoveKeeps, Zenon DEF Stay
  <2>5. ChalInv' /\ CountInv'
    BY <1>0, <1>1, <1>4, <2>2, <2>4, PeekKeeps, Zenon
  <2> QED
    BY <1>0, <1>1, <1>4, <2>4, <2>5, Assemble, Zenon
<1> QED
  BY <1>2, <1>3, <1>4, Zenon DEF CompletePeek

\* The same for a step that writes user_login_totp, the passkeys or the password.
LEMMA AssembleWrite ==
    ASSUME MFAInv, kek' = kek, pwVer' \in Nat, totp' \in TotpRow, passkey' \in BOOLEAN,
           TOTPOpenable', chal' \in Seq(Challenge), req' \in [Requests -> Request],
           ChalInv', CountInv', FactorInv'
    PROVE  MFAInv'
  BY Zenon DEF MFAInv, TypeOK

\* The handlers behind a session that only read, or only touch challenges.
LEMMA ReadingKeeps ==
    ASSUME MFAInv, NEW r \in Requests,
           \/ \E pc \in {"setup", "enableRead", "disableRead", "remove", "rotate"} :
                VerifyUserAuthKey(r, pc)
           \/ EnableRead(r) \/ DisableRead(r) \/ BeginAssertion(r) \/ RegisterBegin(r)
    PROVE  MFAInv'
<1>0. /\ TypeOK /\ ChalInv /\ CountInv /\ FactorInv
      /\ req[r] \in Request /\ Refers(req[r])
      /\ chal \in Seq(Challenge) /\ pwVer \in Nat
  BY InvFacts, Zenon DEF TypeOK
<1>1. ASSUME NEW pc \in {"setup", "enableRead", "disableRead", "remove", "rotate"},
             VerifyUserAuthKey(r, pc)
      PROVE  MFAInv'
  <2> DEFINE q == [IdleRequest EXCEPT !.pc = pc, !.key = pwVer]
  <2>1. q \in Request
    <3>1. pc \in PCs
      BY Zenon DEF PCs
    <3> QED
      BY <1>0, <3>1, IdleIsRequest, RequestWith, Zenon
  <2>2. Watched(q, totp.enabled, passkey) /\ q.pc \notin Peeked /\ q.ch = 0
    BY Zenon DEF Watched, IdleRequest, Peeked
  <2>3. Moves(r, q) /\ Stay /\ chal' = chal /\ req[r].pc = "idle"
    BY <1>1, Zenon DEF VerifyUserAuthKey, Moves, Stay
  <2> HIDE DEF q
  <2>4. req' \in [Requests -> Request] /\ FactorInv' /\ Apart(r) /\ req'[r] = q
    BY <1>0, <2>1, <2>2, <2>3, MoveKeeps, Zenon DEF Stay
  <2>5. ChalInv' /\ CountInv'
    BY <1>0, <2>2, <2>3, <2>4, QuietKeeps, Zenon
  <2> QED
    BY <1>0, <2>3, <2>4, <2>5, Assemble, Zenon
<1>2. CASE EnableRead(r) \/ DisableRead(r)
  <2>1. /\ req[r].pc \in {"enableRead", "disableRead"} /\ Stay /\ chal' = chal
        /\ \/ Return(r) \/ Goto(r, "enable") \/ Goto(r, "disable") \/ Goto(r, "disableAssert")
    BY <1>2, Zenon DEF EnableRead, DisableRead, Stay
  <2>2. req[r].ch = 0
    BY <1>0, <2>1, Zenon DEF Refers, Peeked, Granted
  <2>3. /\ req' \in [Requests -> Request] /\ FactorInv'
        /\ Apart(r) /\ req'[r].ch = 0
        /\ req'[r].pc \in {"idle", "enable", "disable", "disableAssert"}
    <3>1. ASSUME NEW pc \in {"enable", "disable", "disableAssert"}, Goto(r, pc)
          PROVE  <2>3!:
      <4>1. pc \in PCs
        BY Zenon DEF PCs
      <4> QED
        BY <1>0, <2>1, <2>2, <3>1, <4>1, GotoKeeps, Zenon
    <3>2. CASE Return(r)
      BY <1>0, <2>1, <3>2, ReturnKeeps, Zenon DEF Stay
    <3> QED
      BY <2>1, <3>1, <3>2, Zenon
  <2>4. ChalInv' /\ CountInv'
    BY <1>0, <2>1, <2>3, QuietKeeps, Zenon DEF Peeked
  <2> QED
    BY <1>0, <2>1, <2>3, <2>4, Assemble, Zenon
<1>3. CASE BeginAssertion(r) \/ RegisterBegin(r)
  <2>1. Put(0, FALSE, TRUE) /\ Stay /\ req' = req
    BY <1>3, Zenon DEF BeginAssertion, RegisterBegin, Stay
  <2>2. Apart(r)
    BY <2>1, Zenon DEF Apart
  <2>3. chal' \in Seq(Challenge) /\ ChalInv' /\ CountInv'
    BY <1>0, <2>1, <2>2, PutKeeps, Zenon
  <2> QED
    BY <1>0, <2>1, <2>3, Assemble, Zenon DEF TypeOK, FactorInv, Stay
<1> QED
  BY <1>1, <1>2, <1>3, Zenon

\* The handlers behind a session that write a factor or the password.
LEMMA WritingKeeps ==
    ASSUME MFAInv, NEW r \in Requests,
           \/ SetupUpsert(r) \/ EnableUpsert(r) \/ DisableDelete(r)
           \/ RegisterCreate(r) \/ RemoveCredential(r) \/ RotatePassword(r)
    PROVE  MFAInv'
<1>0. /\ TypeOK /\ ChalInv /\ CountInv /\ FactorInv /\ TOTPOpenable
      /\ req[r] \in Request /\ req[r].key \in Nat
      /\ chal \in Seq(Challenge) /\ pwVer \in Nat /\ totp \in TotpRow
      /\ passkey \in BOOLEAN
  BY InvFacts, Zenon DEF TypeOK
<1>u. ASSUME NEW on \in BOOLEAN, NEW key \in Nat, NEW late \in BOOLEAN
      PROVE  UpsertUserLoginTOTP(on, key, late) \in TotpRow
  BY Zenon DEF UpsertUserLoginTOTP, TotpRow
<1>n. NoTotp \in TotpRow
  BY Zenon DEF NoTotp, TotpRow
<1>s. ASSUME req' \in [Requests -> Request], Apart(r), req'[r].pc = "idle", req'[r].ch = 0,
             chal' = chal, req[r].pc \notin {"record", "burn"}
      PROVE  chal' \in Seq(Challenge) /\ ChalInv' /\ CountInv'
  BY <1>0, <1>s, QuietKeeps, Zenon DEF Peeked
<1>1. CASE SetupUpsert(r)
  <2>1. /\ totp' = UpsertUserLoginTOTP(FALSE, req[r].key, req[r].key # pwVer)
        /\ pwVer' = pwVer /\ passkey' = passkey /\ chal' = chal /\ kek' = kek
        /\ req' = Observed([req EXCEPT ![r] = IdleRequest]) /\ req[r].pc = "setup"
    BY <1>1, Zenon DEF SetupUpsert
  <2>2. totp' \in TotpRow /\ TOTPOpenable'
    BY <1>0, <1>u, <2>1, Zenon DEF TOTPOpenable, UpsertUserLoginTOTP
  <2>3. /\ req' \in [Requests -> Request] /\ FactorInv'
        /\ Apart(r) /\ req'[r].pc = "idle" /\ req'[r].ch = 0
    BY <1>0, <2>1, <2>2, ObservedKeeps, Zenon
  <2>4. chal' \in Seq(Challenge) /\ ChalInv' /\ CountInv'
    BY <1>s, <2>1, <2>3, Zenon
  <2> QED
    BY <1>0, <2>1, <2>2, <2>3, <2>4, AssembleWrite, Zenon
<1>2. CASE EnableUpsert(r)
  <2>1. /\ totp' = UpsertUserLoginTOTP(TRUE, req[r].key, req[r].key # pwVer)
        /\ pwVer' = pwVer /\ passkey' = passkey /\ chal' = chal /\ kek' = kek
        /\ Return(r) /\ req[r].pc = "enable"
    BY <1>2, Zenon DEF EnableUpsert
  <2>2. totp' \in TotpRow /\ TOTPOpenable' /\ totp'.enabled
    BY <1>0, <1>u, <2>1, Zenon DEF TOTPOpenable, UpsertUserLoginTOTP
  <2>3. /\ req' \in [Requests -> Request] /\ FactorInv'
        /\ Apart(r) /\ req'[r].pc = "idle" /\ req'[r].ch = 0
    BY <1>0, <2>1, <2>2, ReturnKeeps, Zenon
  <2>4. chal' \in Seq(Challenge) /\ ChalInv' /\ CountInv'
    BY <1>s, <2>1, <2>3, Zenon
  <2> QED
    BY <1>0, <2>1, <2>2, <2>3, <2>4, AssembleWrite, Zenon
<1>3. CASE DisableDelete(r)
  <2>1. /\ totp' = NoTotp /\ chal' = Used(r) /\ pwVer' = pwVer
        /\ passkey' = passkey /\ kek' = kek /\ req[r].pc = "disable"
        /\ req' = Observed([req EXCEPT ![r] = IdleRequest])
    BY <1>3, Zenon DEF DisableDelete
  <2>2. totp' \in TotpRow /\ TOTPOpenable'
    BY <1>n, <2>1, Zenon DEF TOTPOpenable, NoTotp
  <2>3. /\ req' \in [Requests -> Request] /\ FactorInv'
        /\ Apart(r) /\ req'[r].pc = "idle" /\ req'[r].ch = 0
    BY <1>0, <2>1, <2>2, ObservedKeeps, Zenon
  <2>4. chal' \in Seq(Challenge) /\ ChalInv' /\ CountInv'
    BY <1>0, <2>1, <2>3, UsedKeeps, Zenon DEF Granted
  <2> QED
    BY <1>0, <2>1, <2>2, <2>3, <2>4, AssembleWrite, Zenon
<1>4. CASE RegisterCreate(r)
  <2>1. /\ passkey' = TRUE /\ chal' = Used(r) /\ pwVer' = pwVer
        /\ totp' = totp /\ kek' = kek /\ req[r].pc = "register" /\ Return(r)
    BY <1>4, Zenon DEF RegisterCreate
  <2>2. TOTPOpenable'
    BY <1>0, <2>1, Zenon DEF TOTPOpenable
  <2>3. /\ req' \in [Requests -> Request] /\ FactorInv'
        /\ Apart(r) /\ req'[r].pc = "idle" /\ req'[r].ch = 0
    BY <1>0, <2>1, ReturnKeeps, Zenon
  <2>4. chal' \in Seq(Challenge) /\ ChalInv' /\ CountInv'
    BY <1>0, <2>1, <2>3, UsedKeeps, Zenon DEF Granted
  <2> QED
    BY <1>0, <2>1, <2>2, <2>3, <2>4, AssembleWrite, Zenon
<1>5. CASE RemoveCredential(r)
  <2>1. /\ passkey' \in BOOLEAN /\ chal' = chal /\ pwVer' = pwVer
        /\ totp' = totp /\ kek' = kek /\ req[r].pc = "remove"
        /\ req' = Observed([req EXCEPT ![r] = IdleRequest])
    BY <1>0, <1>5, Zenon DEF RemoveCredential
  <2>2. TOTPOpenable'
    BY <1>0, <2>1, Zenon DEF TOTPOpenable
  <2>3. /\ req' \in [Requests -> Request] /\ FactorInv'
        /\ Apart(r) /\ req'[r].pc = "idle" /\ req'[r].ch = 0
    BY <1>0, <2>1, ObservedKeeps, Zenon
  <2>4. chal' \in Seq(Challenge) /\ ChalInv' /\ CountInv'
    BY <1>s, <2>1, <2>3, Zenon
  <2> QED
    BY <1>0, <2>1, <2>2, <2>3, <2>4, AssembleWrite, Zenon
<1>6. CASE RotatePassword(r)
  <2>1. /\ pwVer' = pwVer + 1 /\ chal' = chal /\ passkey' = passkey /\ kek' = kek
        /\ req[r].pc = "rotate"
        /\ req' = Observed([req EXCEPT ![r] = IdleRequest])
        /\ \/ totp' = UpsertUserLoginTOTP(totp.enabled, pwVer + 1, FALSE)
           \/ totp' = NoTotp
    BY <1>6, Zenon DEF RotatePassword, RotateLoginTOTP
  <2>2. totp' \in TotpRow /\ TOTPOpenable' /\ pwVer' \in Nat
    <3>1. pwVer + 1 \in Nat /\ totp.enabled \in BOOLEAN
      BY <1>0 DEF TotpRow
    <3>2. totp' \in TotpRow
      BY <1>u, <1>n, <2>1, <3>1, Zenon
    <3>3. TOTPOpenable'
      BY <2>1 DEF TOTPOpenable, UpsertUserLoginTOTP, NoTotp
    <3> QED
      BY <2>1, <3>1, <3>2, <3>3, Zenon
  <2>3. /\ req' \in [Requests -> Request] /\ FactorInv'
        /\ Apart(r) /\ req'[r].pc = "idle" /\ req'[r].ch = 0
    BY <1>0, <2>1, <2>2, ObservedKeeps, Zenon
  <2>4. chal' \in Seq(Challenge) /\ ChalInv' /\ CountInv'
    BY <1>s, <2>1, <2>3, Zenon
  <2> QED
    BY <1>0, <2>1, <2>2, <2>3, <2>4, AssembleWrite, Zenon
<1> QED
  BY <1>1, <1>2, <1>3, <1>4, <1>5, <1>6, Zenon

\* A request that ends early, and the challenges that end by themselves.
LEMMA EndingKeeps ==
    ASSUME MFAInv,
           \/ \E r \in Requests : Abandon(r)
           \/ \E c \in DOMAIN chal : ChallengeExpires(c) \/ ChallengeSwept(c)
           \/ Restart
    PROVE  MFAInv'
<1>0. /\ TypeOK /\ ChalInv /\ CountInv /\ FactorInv /\ TOTPOpenable
      /\ chal \in Seq(Challenge)
  BY InvFacts, Zenon DEF TypeOK
<1>1. ASSUME NEW r \in Requests, Abandon(r)
      PROVE  MFAInv'
  <2>1. Return(r) /\ Stay
    BY <1>1, Zenon DEF Abandon, Stay
  <2>2. /\ req' \in [Requests -> Request] /\ FactorInv'
        /\ Apart(r) /\ req'[r].pc = "idle" /\ req'[r].ch = 0
    BY <1>0, <2>1, ReturnKeeps, Zenon DEF Stay
  <2>3. chal' \in Seq(Challenge) /\ ChalInv' /\ CountInv'
    <3>1. CASE req[r].pc \in {"record", "burn"}
      BY <1>0, <1>1, <3>1, LostKeeps, Zenon
    <3>2. CASE req[r].pc \notin {"record", "burn"}
      <4>1. chal' = chal
        BY <1>1, <3>2, Zenon DEF Abandon
      <4> QED
        BY <1>0, <2>2, <3>2, <4>1, QuietKeeps, Zenon DEF Peeked
    <3> QED
      BY <3>1, <3>2, Zenon
  <2> QED
    BY <2>1, <2>2, <2>3, Assemble, Zenon
<1>2. ASSUME NEW c \in DOMAIN chal, ChallengeExpires(c)
      PROVE  MFAInv'
  <2>1. /\ Stay /\ req' = req /\ chal[c].st = "open"
        /\ chal' = [chal EXCEPT ![c].st = "expired"]
    BY <1>2, Zenon DEF ChallengeExpires, Stay
  <2>2. chal' \in Seq(Challenge) /\ ChalInv' /\ CountInv'
    BY <1>0, <2>1, ExpiryKeeps, Zenon
  <2> QED
    BY <1>0, <2>1, <2>2, Assemble, Zenon DEF TypeOK, FactorInv, Stay
<1>3. ASSUME NEW c \in DOMAIN chal, ChallengeSwept(c)
      PROVE  MFAInv'
  <2>1. /\ Stay /\ req' = req /\ chal[c].st = "expired"
        /\ chal' = [chal EXCEPT ![c].st = "gone"]
    BY <1>3, Zenon DEF ChallengeSwept, DeleteMFAChallenge, Stay
  <2>2. chal' \in Seq(Challenge) /\ ChalInv' /\ CountInv'
    BY <1>0, <2>1, ExpiryKeeps, Zenon
  <2> QED
    BY <1>0, <2>1, <2>2, Assemble, Zenon DEF TypeOK, FactorInv, Stay
<1>4. CASE Restart
  <2>1. /\ kek' \in Nat \ {0} /\ req' = [r \in Requests |-> IdleRequest]
        /\ UNCHANGED <<pwVer, totp, passkey>>
    BY <1>0, <1>4 DEF Restart, NewMFAKEK, TypeOK
  <2>2. req' \in [Requests -> Request] /\ FactorInv'
    <3>1. Watched(IdleRequest, totp.enabled, passkey)
      BY Zenon DEF Watched, IdleRequest
    <3>2. \A r \in Requests : req'[r] = IdleRequest
      BY <2>1, Zenon
    <3>3. FactorInv'
      BY <2>1, <3>1, <3>2, Zenon DEF FactorInv
    <3> QED
      BY <2>1, <3>3, IdleIsRequest, Zenon
  <2>3. chal' \in Seq(Challenge) /\ ChalInv' /\ CountInv'
    BY <1>0, <1>4, RestartKeeps, Zenon
  <2>4. pwVer \in Nat /\ totp \in TotpRow /\ passkey \in BOOLEAN
    BY <1>0, Zenon DEF TypeOK
  <2>5. TypeOK' /\ TOTPOpenable'
    BY <1>0, <2>1, <2>2, <2>3, <2>4, Zenon DEF TypeOK, TOTPOpenable
  <2> QED
    BY <2>2, <2>3, <2>5, Zenon DEF MFAInv
<1> QED
  BY <1>1, <1>2, <1>3, <1>4, Zenon

\* The initial state satisfies the invariant.
LEMMA MFAInit ==
    ASSUME Init
    PROVE  MFAInv
<1>1. chal = <<>> /\ DOMAIN chal = {} /\ totp = NoTotp /\ passkey \in BOOLEAN
  BY DEF Init
<1>2. \A r \in Requests : req[r] = IdleRequest
  BY Zenon DEF Init
<1>3. TypeOK
  <2>1. NoTotp \in TotpRow /\ chal \in Seq(Challenge)
    BY <1>1 DEF NoTotp, TotpRow
  <2> QED
    BY <2>1, IdleIsRequest DEF Init, TypeOK
<1>4. ChalInv /\ CountInv /\ FactorInv
  <2>1. IdleRequest.pc = "idle" /\ IdleRequest.ch = 0
    BY Zenon DEF IdleRequest
  <2>2. Watched(IdleRequest, totp.enabled, passkey)
    BY Zenon DEF IdleRequest, Watched
  <2>3. Refers(IdleRequest) /\ ~Holds(IdleRequest)
    BY <2>1, Zenon DEF Refers, Holds, Peeked
  <2> QED
    BY <1>1, <1>2, <2>2, <2>3, Zenon DEF ChalInv, CountInv, FactorInv
<1>5. TOTPOpenable
  BY <1>1, Zenon DEF TOTPOpenable, NoTotp
<1> QED
  BY <1>3, <1>4, <1>5, Zenon DEF MFAInv

\* Every step of every handler keeps MFAInv.
LEMMA MFAStep ==
    ASSUME MFAInv, [Next]_vars
    PROVE  MFAInv'
<1>1. ASSUME NEW r \in Requests,
             \/ AuthorizeVerified(r) \/ AuthorizeReadTotp(r) \/ AuthorizeCountPasskeys(r)
             \/ AuthorizePut(r) \/ Issue(r)
      PROVE  MFAInv'
  BY <1>1, AuthorizeKeeps, Zenon
<1>2. ASSUME NEW r \in Requests,
             \/ CompleteCheckRight(r) \/ CompleteCheckWrong(r) \/ CompleteReject(r)
             \/ CompleteRecord(r) \/ CompleteBurn(r) \/ CompleteTake(r)
      PROVE  MFAInv'
  BY <1>2, CompleteKeeps, Zenon
<1>3. ASSUME NEW r \in Requests, NEW c \in DOMAIN chal, NEW f \in Factors,
             CompletePeek(r, c, f)
      PROVE  MFAInv'
  BY <1>3, CompletePeekKeeps, Zenon
<1>4. ASSUME NEW r \in Requests,
             \/ \E pc \in {"setup", "enableRead", "disableRead", "remove", "rotate"} :
                  VerifyUserAuthKey(r, pc)
             \/ EnableRead(r) \/ DisableRead(r) \/ BeginAssertion(r) \/ RegisterBegin(r)
      PROVE  MFAInv'
  BY <1>4, ReadingKeeps, Zenon
<1>5. ASSUME NEW r \in Requests,
             \/ SetupUpsert(r) \/ EnableUpsert(r) \/ DisableDelete(r)
             \/ RegisterCreate(r) \/ RemoveCredential(r) \/ RotatePassword(r)
      PROVE  MFAInv'
  BY <1>5, WritingKeeps, Zenon
<1>6. ASSUME NEW r \in Requests, NEW c \in DOMAIN chal,
             DisableTake(r, c) \/ RegisterFinish(r, c)
      PROVE  MFAInv'
  <2>1. /\ Stay /\ req[r].pc \notin {"check", "record", "burn"}
        /\ \/ Take(r, c, chal[c].wa /\ GetWebAuthnCredentialByCredID, "disable")
           \/ Take(r, c, chal[c].wa, "register")
    BY <1>6, Zenon DEF DisableTake, RegisterFinish, Stay
  <2>2. "disable" \in Granted /\ "register" \in Granted
    BY Zenon DEF Granted
  <2> QED
    BY <2>1, <2>2, TakeKeeps, Zenon
<1>7. ASSUME \/ \E r \in Requests : Abandon(r)
             \/ \E c \in DOMAIN chal : ChallengeExpires(c) \/ ChallengeSwept(c)
             \/ Restart
      PROVE  MFAInv'
  BY <1>7, EndingKeeps, Zenon
<1>8. CASE UNCHANGED vars
  BY <1>8, Zenon DEF vars, MFAInv, TypeOK, ChalInv, CountInv, FactorInv, TOTPOpenable, Refers
<1> QED
  BY <1>1, <1>2, <1>3, <1>4, <1>5, <1>6, <1>7, <1>8, Zenon DEF Next

\* So it always holds.
LEMMA MFAAlways == Spec => []MFAInv
  BY MFAInit, MFAStep, PTL DEF Spec

\* MFAStore.Take lets one request through per challenge: for any number of
\* concurrent requests, challenges, restarts and failures, a challenge grants at
\* most one login, TOTP removal or passkey registration.
THEOREM SpentOnce == Spec => []ChallengeSpentOnce
<1>1. MFAInv => ChallengeSpentOnce
  BY Zenon DEF MFAInv, ChalInv, ChallengeSpentOnce
<1> QED
  BY <1>1, MFAAlways, PTL

\* RecordFailedAttempt: the wrong codes evaluated against one challenge never
\* exceed the ceiling by more than the requests that can be under way at once,
\* less one, and the counts lost to failures.
THEOREM GuessesBounded == Spec => []GuessBound
<1>1. ASSUME MFAInv PROVE GuessBound
  <2>1. ASSUME NEW c \in DOMAIN chal
        PROVE  chal[c].guesses <= MaxFailed - 1 + Cardinality(Requests) + chal[c].lost
    <3>1. TypeOK /\ CountInv
      BY <1>1, Zenon DEF MFAInv
    <3>2. chal[c].guesses \in Nat /\ chal[c].lost \in Nat
      BY <3>1, ChallengeTypes, Zenon DEF Challenge
    <3>3. Cardinality(Checking(req, c)) \in Nat /\ Cardinality(Requests) \in Nat
      BY ConstantsAssumption, FS_Subset, FS_CardinalityType, Zenon DEF Checking
    <3>4. chal[c].guesses + Cardinality(Checking(req, c))
            <= MaxFailed - 1 + Cardinality(Requests) + chal[c].lost
      BY <3>1, Zenon DEF CountInv, Counted, N
    <3> QED
      BY <3>2, <3>3, <3>4, ConstantsAssumption
  <2> QED
    BY <2>1, Zenon DEF GuessBound
<1> QED
  BY <1>1, MFAAlways, PTL

\* Authorize never reaches the tokens past a factor that was on throughout the
\* request and whose reads succeeded.
THEOREM FactorRequired == Spec => []SecondFactorRequired
<1>1. MFAInv => SecondFactorRequired
  BY Zenon DEF MFAInv, FactorInv, Watched, SecondFactorRequired
<1> QED
  BY <1>1, MFAAlways, PTL

\* Whatever Setup, Enable, Disable and password rotations interleave, a TOTP
\* secret not written late opens under the current password.
THEOREM SecretOpens == Spec => []TOTPOpenable
<1>1. MFAInv => TOTPOpenable
  BY Zenon DEF MFAInv
<1> QED
  BY <1>1, MFAAlways, PTL
=============================================================================
