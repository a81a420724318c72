------------------------------ MODULE Lockout -------------------------------
(***************************************************************************)
(* The two failure counters of user_auth and what they gate: the password  *)
(* check of Authorize and of ChangeMasterPassword, and RecoveryStart with  *)
(* the recovery sessions it opens for RecoveryComplete                     *)
(* (internal/api/auth/service.go, internal/auth/recovery_store.go,         *)
(* sql/queries/user_auth/user_auth.sql).  Both handlers may also be asked  *)
(* about an address nobody has.                                            *)
(*                                                                         *)
(* A secret is right or wrong by choice.  Time is the event that a lock's  *)
(* window, or a recovery session's, lapses.                                *)
(***************************************************************************)
EXTENDS Integers, Sequences, FiniteSets

CONSTANTS
    Requests,     \* requests that may be in progress at once
    Threshold,    \* the failures that arm a lock (5 in the SQL)
    MaxFailed,    \* bound on a counter
    MaxLost,      \* bound on failures that were not recorded
    MaxSessions   \* bound on recovery sessions ever opened

ASSUME ConstantsAssumption ==
    /\ IsFiniteSet(Requests)
    /\ Threshold \in Nat \ {0}
    /\ MaxFailed \in Nat
    /\ MaxLost \in Nat
    /\ MaxSessions \in Nat

\* failed_attempts / locked_until and recovery_failed_attempts /
\* recovery_locked_until.
Kinds == {"login", "recovery"}

VARIABLES
    ctr,    \* per kind: the two columns of user_auth, and their history
    rsess,  \* recovery_sessions, by order of creation
    dummy,  \* whether dummyAuthHashOnce has run in this process
    req     \* per request

vars == <<ctr, rsess, dummy, req>>

\* lock: locked_until is NULL, in the future, or in the past.  For the
\* properties: guesses and lost count the wrong secrets checked behind the
\* lock, and those never recorded, since the counter was reset or the lock
\* last lapsed; relock says it was a lapse.
Counter == [failed : Nat, lock : {"none", "active", "lapsed"},
            guesses : Nat, lost : Nat, relock : BOOLEAN]
ResetCounter == [failed |-> 0, lock |-> "none", guesses |-> 0, lost |-> 0,
                 relock |-> FALSE]

RecoverySession == [st : {"open", "expired", "gone"}, uses : Nat]

\* work: the Argon2 evaluations spent; answer: how the request that used this
\* slot last was answered ("ok" stands for the success and for every other
\* error), and outlives it with its work.
Request == [pc : {"idle", "verify", "verifyOld", "record", "reset", "put",
                  "rotate", "unknown", "pad"},
            kind : Kinds, guessed : BOOLEAN, sess : Nat, work : 0..2,
            answer : {"ok", "locked", "unauthenticated"}]
IdleRequest == [pc |-> "idle", kind |-> "login", guessed |-> FALSE, sess |-> 0,
                work |-> 0, answer |-> "ok"]

TypeOK ==
    /\ ctr \in [Kinds -> Counter]
    /\ rsess \in Seq(RecoverySession)
    /\ dummy \in BOOLEAN
    /\ req \in [Requests -> Request]

Init ==
    /\ ctr = [k \in Kinds |-> ResetCounter]
    /\ rsess = <<>>
    /\ dummy = FALSE
    /\ req = [r \in Requests |-> IdleRequest]

Goto(r, pc) == req' = [req EXCEPT ![r].pc = pc]
Return(r) == req' = [req EXCEPT ![r] = IdleRequest]
Answer(r, code, work) ==
    req' = [req EXCEPT ![r] = [IdleRequest EXCEPT !.answer = code, !.work = work]]

-----------------------------------------------------------------------------
(* Statements on user_auth and recovery_sessions                           *)

\* Variant: the lock is armed only by the failure that reaches the threshold.
FailedOnceArmed(c) ==
    [c EXCEPT !.failed = @ + 1,
              !.lock = IF c.failed + 1 = Threshold THEN "active" ELSE @]

\* What both counters do with a failure.
Failed(c) ==
    [c EXCEPT !.failed = @ + 1,
              !.lock = IF c.failed + 1 >= Threshold /\ c.lock # "active"
                       THEN "active" ELSE @]

RecordFailedLogin == [ctr EXCEPT !["login"] = Failed(@)]
RecordFailedRecovery == [ctr EXCEPT !["recovery"] = Failed(@)]

ResetFailedLogin == [ctr EXCEPT !["login"] = ResetCounter]
ResetFailedRecovery == [ctr EXCEPT !["recovery"] = ResetCounter]

\* The new hash clears the login counter only.
UpsertUserAuth == [ctr EXCEPT !["login"] = ResetCounter]

InsertRecoverySession == Append(rsess, [st |-> "open", uses |-> 0])

\* DELETE ... RETURNING finds expired rows too.
TakeRecoverySession(i) == [rsess EXCEPT ![i].st = "gone"]

-----------------------------------------------------------------------------
(* Authorize (login) and RecoveryStart (recovery)                          *)

\* GetUserAuth, and the refusal before the Argon2 verification.
ReadUserAuth(r, k) ==
    /\ req[r].pc = "idle"
    /\ IF ctr[k].lock = "active"
       THEN Answer(r, "locked", 0)
       ELSE req' = [req EXCEPT ![r] = [IdleRequest EXCEPT !.pc = "verify", !.kind = k]]
    /\ UNCHANGED <<ctr, rsess, dummy>>

\* VerifyAuthKey, one Argon2 evaluation; what it compared decides where to.
VerifyAuthKey(r, pc) == req' = [req EXCEPT ![r].pc = pc, ![r].work = @ + 1]

VerifyRight(r) ==
    /\ req[r].pc = "verify"
    /\ VerifyAuthKey(r, "reset")
    /\ UNCHANGED <<ctr, rsess, dummy>>

VerifyWrong(r) ==
    /\ req[r].pc = "verify"
    /\ ctr[req[r].kind].failed < MaxFailed
    /\ ctr' = [ctr EXCEPT ![req[r].kind].guesses = @ + 1]
    /\ req' = [req EXCEPT ![r].pc = "record", ![r].guessed = TRUE,
                          ![r].work = @ + 1]
    /\ UNCHANGED <<rsess, dummy>>

\* The error of the statement is ignored.
RecordFailed(r) ==
    LET k == req[r].kind
    IN  /\ req[r].pc = "record"
        /\ ctr[k].failed < MaxFailed
        /\ ctr' = IF k = "login" THEN RecordFailedLogin ELSE RecordFailedRecovery
        /\ Answer(r, "unauthenticated", req[r].work)
        /\ UNCHANGED <<rsess, dummy>>

\* Here, too, the error is ignored.
ResetFailed(r) ==
    LET k == req[r].kind
    IN  /\ req[r].pc = "reset"
        /\ ctr' \in {ctr, IF k = "login" THEN ResetFailedLogin ELSE ResetFailedRecovery}
        /\ IF k = "login" THEN Return(r) ELSE Goto(r, "put")
        /\ UNCHANGED <<rsess, dummy>>

\* RecoveryStore.Put.
PutSession(r) ==
    /\ req[r].pc = "put"
    /\ Len(rsess) < MaxSessions
    /\ rsess' = InsertRecoverySession
    /\ Return(r)
    /\ UNCHANGED <<ctr, dummy>>

\* GetUserByEmail finds no row.
UnknownEmail(r) ==
    /\ req[r].pc = "idle"
    /\ req' = [req EXCEPT ![r] = [IdleRequest EXCEPT !.pc = "unknown"]]
    /\ UNCHANGED <<ctr, rsess, dummy>>

\* HashAuthKey inside sync.Once: paid by the first request that gets here,
\* the others wait for it.
dummyAuthHash(r) ==
    /\ req[r].pc = "unknown"
    /\ dummy' = TRUE
    /\ req' = [req EXCEPT ![r].pc = "pad", ![r].work = IF dummy THEN @ ELSE @ + 1]
    /\ UNCHANGED <<ctr, rsess>>

\* Variant: the presented key is compared with nothing.
PadUnverified(r) ==
    /\ req[r].pc = "pad"
    /\ Answer(r, "unauthenticated", req[r].work)
    /\ UNCHANGED <<ctr, rsess, dummy>>

\* VerifyAuthKey against the dummy hash.
Pad(r) ==
    /\ req[r].pc = "pad"
    /\ Answer(r, "unauthenticated", req[r].work + 1)
    /\ UNCHANGED <<ctr, rsess, dummy>>

-----------------------------------------------------------------------------
(* Rotations of the password                                               *)

\* ChangeMasterPassword checks the old key whether or not a lock is active.
ChangeMasterPassword(r) ==
    /\ req[r].pc = "idle"
    /\ req' = [req EXCEPT ![r] = [IdleRequest EXCEPT !.pc = "verifyOld"]]
    /\ UNCHANGED <<ctr, rsess, dummy>>

VerifyOldKey(r) ==
    /\ req[r].pc = "verifyOld"
    /\ \E pc \in {"record", "rotate"} : VerifyAuthKey(r, pc)
    /\ UNCHANGED <<ctr, rsess, dummy>>

\* Variant: the session is read, and deleted by a later statement.
RecoveryTakeRead(r, i) ==
    /\ req[r].pc = "idle"
    /\ rsess' = [rsess EXCEPT ![i].st = IF @ = "expired" THEN "gone" ELSE @]
    /\ req' = [req EXCEPT ![r] = IF rsess[i].st = "open"
                                 THEN [IdleRequest EXCEPT !.pc = "rotate", !.sess = i]
                                 ELSE IdleRequest]
    /\ UNCHANGED <<ctr, dummy>>

\* RecoveryComplete: RecoveryStore.Take.
RecoveryTake(r, i) ==
    /\ req[r].pc = "idle"
    /\ rsess' = TakeRecoverySession(i)
    /\ req' = [req EXCEPT ![r] = IF rsess[i].st = "open"
                                 THEN [IdleRequest EXCEPT !.pc = "rotate", !.sess = i]
                                 ELSE IdleRequest]
    /\ UNCHANGED <<ctr, dummy>>

\* The transaction of either rotation.
Rotate(r) ==
    /\ req[r].pc = "rotate"
    /\ ctr' = UpsertUserAuth
    /\ rsess' = [i \in DOMAIN rsess |->
                   IF i = req[r].sess THEN [rsess[i] EXCEPT !.uses = @ + 1]
                   ELSE rsess[i]]
    /\ Return(r)
    /\ UNCHANGED dummy

-----------------------------------------------------------------------------

LockLapses(k) ==
    /\ ctr[k].lock = "active"
    /\ ctr' = [ctr EXCEPT ![k] = [@ EXCEPT !.lock = "lapsed", !.guesses = 0,
                                           !.lost = 0, !.relock = TRUE]]
    /\ UNCHANGED <<rsess, dummy, req>>

\* expires_at passes; recovery_gc deletes the row.
SessionExpires(i) ==
    /\ rsess[i].st = "open"
    /\ rsess' = [rsess EXCEPT ![i].st = "expired"]
    /\ UNCHANGED <<ctr, dummy, req>>

\* DeleteExpiredRecoverySessions.
SessionSwept(i) ==
    /\ rsess[i].st = "expired"
    /\ rsess' = [rsess EXCEPT ![i].st = "gone"]
    /\ UNCHANGED <<ctr, dummy, req>>

\* An error or a crash between two statements.  The error of RecordFailed is
\* ignored by its callers, so a wrong guess may go unrecorded.
Abandon(r) ==
    LET k      == req[r].kind
        losing == req[r].pc = "record" /\ req[r].guessed
    IN  /\ req[r].pc # "idle"
        /\ losing => ctr[k].lost < MaxLost
        /\ ctr' = IF losing THEN [ctr EXCEPT ![k].lost = @ + 1] ELSE ctr
        /\ IF req[r].pc = "record"
           THEN Answer(r, "unauthenticated", req[r].work) ELSE Return(r)
        /\ UNCHANGED <<rsess, dummy>>

Next ==
    \/ \E r \in Requests :
         \/ \E k \in Kinds : ReadUserAuth(r, k)
         \/ VerifyRight(r) \/ VerifyWrong(r)
         \/ RecordFailed(r) \/ ResetFailed(r) \/ PutSession(r)
         \/ UnknownEmail(r) \/ dummyAuthHash(r) \/ Pad(r)
         \/ ChangeMasterPassword(r) \/ VerifyOldKey(r)
         \/ \E i \in DOMAIN rsess : RecoveryTake(r, i)
         \/ Rotate(r) \/ Abandon(r)
    \/ \E k \in Kinds : LockLapses(k)
    \/ \E i \in DOMAIN rsess : SessionExpires(i) \/ SessionSwept(i)

Spec == Init /\ [][Next]_vars

-----------------------------------------------------------------------------
(* Properties                                                              *)

\* Authorize and RecoveryStart check only so many wrong secrets per window:
\* up to the threshold before the first lock and, because RecordFailedLogin
\* re-arms, none but those of overlapping requests after each lapse.  The lock
\* is read before the check and armed after it, so overlapping requests add
\* one guess each, as does every failure that could not be recorded.
GuessBound ==
    \A k \in Kinds :
        ctr[k].guesses <= (IF ctr[k].relock THEN 0 ELSE Threshold - 1)
                          + Cardinality(Requests) + ctr[k].lost

\* "Anti-enumeration: hash a dummy auth_key against the canned dummy hash so
\* the wall-clock cost matches a real verify": an answer Unauthenticated has
\* cost one Argon2 evaluation, whether the address is known or not; only the
\* request that computed the dummy hash has spent a second one, and a locked
\* account is refused before any.
RefusalsCostTheSame ==
    \A r \in Requests :
        /\ req[r].answer = "unauthenticated" => req[r].work = 1 \/ (req[r].work = 2 /\ dummy)
        /\ req[r].answer = "locked" => req[r].work = 0

\* RecoveryStore.Take decides who rotates: one recovery session pays for at
\* most one rotation, however often RecoveryComplete is retried or raced.
RecoverySpentOnce ==
    \A i \in DOMAIN rsess : rsess[i].uses <= 1
=============================================================================
