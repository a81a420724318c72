------------------------------ MODULE Pipeline ------------------------------
(***************************************************************************)
(* What a request passes on its way to a handler and back: rate limiter,   *)
(* token check, idempotency lookup, the request's transaction, the Argon2  *)
(* gate and the audit interceptor, and the two resources they compete for, *)
(* the connections of the pool and the permits of the gate                 *)
(* (internal/api/server.go, internal/api/middleware,                       *)
(* internal/auth/argon2.go).                                               *)
(*                                                                         *)
(* A statement outside a transaction needs a free connection for one step. *)
(* What the statements do is the subject of the other modules.             *)
(***************************************************************************)
EXTENDS RateLimit, ReplayCache, FiniteSets

CONSTANTS
    Anonymous,   \* requests without a token: metered, no transaction
    Procedures,  \* the procedures they call
    Hashing,     \* those of them that compute Argon2 (Authorize, ...)
    Mutations,   \* CreateEntry, ...: idempotency, transaction, audit row
    Confirmed,   \* RemoveCredential, ...: transaction, Argon2, audit row
    Proxies,     \* the peers inside trustedProxyNets
    NoHeader, NoEmail,
    PoolSize,    \* connections of the pool
    Permits,     \* what SetArgon2Concurrency set
    Chunks       \* lengths of the chunks of a response

AnonymousProcedures ==
    {"Register", "GetKDFParams", "Authorize", "CompleteMFA", "RefreshToken",
     "GetRecoveryParams", "RecoveryStart", "RecoveryComplete", "VerifyEmail",
     "ResendVerification"}

ASSUME PipelineAssumption ==
    /\ IsFiniteSet(Anonymous) /\ IsFiniteSet(Mutations) /\ IsFiniteSet(Confirmed)
    /\ Anonymous \cap Mutations = {} /\ Anonymous \cap Confirmed = {}
    /\ Mutations \cap Confirmed = {}
    /\ Procedures \subseteq AnonymousProcedures
    /\ Hashing \subseteq Procedures
    /\ NoHeader \notin Addresses /\ NoEmail \notin Emails
    /\ PoolSize \in Nat \ {0}
    /\ Permits \in Nat \ {0}
    /\ Chunks \subseteq Nat

Requests == Anonymous \cup Mutations \cup Confirmed

VARIABLES
    sem,  \* permits left in argon2Sem
    req   \* per request

vars == <<bucket, allowance, sem, req>>

\* proc, ip and email: what an anonymous request calls, and for whom.  done:
\* its context is cancelled.  row: what became of its audit row.  rec: what
\* captureWriter recorded of its response.
Request == [pc : {"idle", "ip", "email", "query", "auth", "lookup", "begin",
                  "handler", "gate", "hash", "append", "commit", "reply"},
            proc : Procedures \cup {"none"}, ip : Addresses \cup Proxies \cup {NoHeader},
            email : Emails \cup {NoEmail},
            done : BOOLEAN, row : {"none", "written", "failed"}, rec : Capture]
IdleRequest == [pc |-> "idle", proc |-> "none", ip |-> NoHeader, email |-> NoEmail,
                done |-> FALSE, row |-> "none", rec |-> NoCapture]

TypeOK ==
    /\ RateTypeOK
    /\ sem \in 0..Permits
    /\ req \in [Requests -> Request]

Init ==
    /\ RateInit
    /\ sem = Permits
    /\ req = [r \in Requests |-> IdleRequest]

At(r, pc) == req[r].pc = pc
Goto(r, pc) == req' = [req EXCEPT ![r].pc = pc]
Return(r) == req' = [req EXCEPT ![r] = IdleRequest]

\* Requests that hold the connection of their transaction.
InTx == {r \in Requests :
           \/ req[r].pc \in {"handler", "append", "commit"}
           \/ r \in Confirmed /\ req[r].pc \in {"gate", "hash"}}
FreeConn == Cardinality(InTx) < PoolSize

-----------------------------------------------------------------------------
(* The way in                                                              *)

Arrive(r) ==
    /\ r \notin Anonymous
    /\ At(r, "idle")
    /\ Goto(r, "auth")
    /\ UNCHANGED <<bucket, allowance, sem>>

\* X-Forwarded-For counts when a proxy sends it.
clientIP(peer, forwarded) ==
    IF peer \in Proxies /\ forwarded # NoHeader THEN forwarded ELSE peer

\* A client's connection, or a proxy's with the client named in the header.
ArriveAnonymous(r, proc, email) ==
    /\ r \in Anonymous
    /\ At(r, "idle")
    /\ \E peer \in Addresses \cup Proxies, forwarded \in Addresses \cup {NoHeader} :
         /\ (peer \in Proxies) <=> (forwarded # NoHeader)
         /\ req' = [req EXCEPT ![r] =
                      [IdleRequest EXCEPT !.pc = "ip", !.proc = proc, !.email = email,
                                          !.ip = clientIP(peer, forwarded)]]
    /\ UNCHANGED <<bucket, allowance, sem>>

\* Allow: passed means that the request goes on.
Allow(b, perMin, passed) ==
    \/ FreeConn /\ Admit(b, perMin) /\ passed
    \/ FreeConn /\ Refuse(b, perMin) /\ ~passed
    \/ AdmitUnmetered(b, perMin) /\ passed

\* RateLimitMiddleware.Wrap: the limit of the address.
WrapLimit(r) ==
    LET p      == req[r].proc
        listed == p \in DOMAIN proceduresWithRateLimit
        rule   == proceduresWithRateLimit[p]
    IN  /\ At(r, "ip")
        /\ \E passed \in BOOLEAN :
             /\ IF listed /\ rule.perMin > 0
                THEN Allow(<<rule.kind, req[r].ip>>, rule.perMin, passed)
                ELSE passed /\ UNCHANGED rateVars
             /\ IF passed THEN Goto(r, "email") ELSE Return(r)
        /\ UNCHANGED sem

\* The e-mail in the body of the requests that have one.
extractEmail(r) ==
    IF req[r].proc \in {"Authorize", "GetKDFParams", "GetRecoveryParams",
                        "RecoveryStart", "ResendVerification"}
    THEN req[r].email ELSE NoEmail

\* NewEmailRateLimitInterceptor: the limit of the e-mail, if one is given.
EmailLimit(r) ==
    LET p      == req[r].proc
        listed == p \in DOMAIN proceduresWithEmailRateLimit
        rule   == proceduresWithEmailRateLimit[p]
    IN  /\ At(r, "email")
        /\ \E passed \in BOOLEAN :
             /\ IF listed /\ extractEmail(r) # NoEmail /\ rule.perMin > 0
                THEN Allow(<<rule.kind, extractEmail(r)>>, rule.perMin, passed)
                ELSE passed /\ UNCHANGED rateVars
             /\ IF ~passed THEN Return(r)
                ELSE Goto(r, IF p \in Hashing THEN "gate" ELSE "query")
        /\ UNCHANGED sem

\* The statements of a handler that computes no hash.
Query(r) ==
    /\ At(r, "query")
    /\ FreeConn \/ req[r].done
    /\ Return(r)
    /\ UNCHANGED <<bucket, allowance, sem>>

\* NewAuthMiddleware and IdempotencyMiddleware.Wrap: a refused token, a
\* replayed response, an error or a done context end the request here.
Lookup(r) ==
    /\ req[r].pc \in {"auth", "lookup"}
    /\ \/ /\ FreeConn /\ ~req[r].done
          /\ Goto(r, IF At(r, "auth") /\ r \in Mutations THEN "lookup" ELSE "begin")
       \/ Return(r)
    /\ UNCHANGED <<bucket, allowance, sem>>

\* NewRLSInterceptor: BeginTx and set_config.
BeginTx(r) ==
    /\ At(r, "begin")
    /\ \/ /\ FreeConn /\ ~req[r].done
          /\ Goto(r, IF r \in Confirmed THEN "gate" ELSE "handler")
       \/ req[r].done /\ Return(r)
    /\ UNCHANGED <<bucket, allowance, sem>>

-----------------------------------------------------------------------------
(* The handler                                                             *)

\* acquireArgon2 waits whatever becomes of the request.
AcquireArgon2(r) ==
    /\ At(r, "gate")
    /\ sem > 0
    /\ sem' = sem - 1
    /\ Goto(r, "hash")
    /\ UNCHANGED <<bucket, allowance>>

\* The hash is computed and the permit given back; a wrong secret ends the
\* request, and so does a right one if there is no transaction to go on with.
ReleaseArgon2(r) ==
    /\ At(r, "hash")
    /\ sem' = sem + 1
    /\ \/ Return(r)
       \/ r \notin Anonymous /\ Goto(r, "handler")
    /\ UNCHANGED <<bucket, allowance>>

\* Variant: the procedure is missing from DefaultAuditProcedures.
HandlerUnaudited(r) ==
    /\ At(r, "handler")
    /\ \/ ~req[r].done /\ Goto(r, "commit")
       \/ Return(r)
    /\ UNCHANGED <<bucket, allowance, sem>>

\* The handler's statements; an error rolls the transaction back.
Handler(r) ==
    /\ At(r, "handler")
    /\ \/ ~req[r].done /\ Goto(r, "append")
       \/ Return(r)
    /\ UNCHANGED <<bucket, allowance, sem>>

-----------------------------------------------------------------------------
(* The way back                                                            *)

\* Variant: the wait for the second connection outlasts the request.
AppendUncancelled(r) ==
    /\ At(r, "append")
    /\ FreeConn
    /\ \E row \in {"written", "failed"} :
         req' = [req EXCEPT ![r].pc = "commit", ![r].row = row]
    /\ UNCHANGED <<bucket, allowance, sem>>

\* NewAuditInterceptor: AppendOrLog on a second connection, for which it
\* waits until the request's context is done.
AppendOrLog(r) ==
    /\ At(r, "append")
    /\ \E row \in {"written", "failed"} :
         /\ row = "written" => FreeConn /\ ~req[r].done
         /\ row = "failed" => FreeConn \/ req[r].done
         /\ req' = [req EXCEPT ![r].pc = "commit", ![r].row = row]
    /\ UNCHANGED <<bucket, allowance, sem>>

\* captureWriter on a response of two chunks; only the procedures that
\* respect the Idempotency-Key are recorded.
Recorded(r, first, second) ==
    IF r \in Mutations THEN Write(Write(req[r].rec, first), second) ELSE req[r].rec

\* tx.Commit, and the response is written; with a done context, or an error,
\* the transaction is rolled back.
CommitTx(r) ==
    /\ At(r, "commit")
    /\ \/ /\ ~req[r].done
          /\ \E first, second \in Chunks :
               req' = [req EXCEPT ![r].pc = "reply",
                                  ![r].rec = Recorded(r, first, second)]
       \/ Return(r)
    /\ UNCHANGED <<bucket, allowance, sem>>

\* InsertIdempotencyEntry, WithoutCancel, for a procedure that respects the
\* Idempotency-Key and a response that fitted; its error is ignored.
CacheResponse(r) ==
    /\ At(r, "reply")
    /\ r \in Mutations /\ ~req[r].rec.truncated => FreeConn
    /\ Return(r)
    /\ UNCHANGED <<bucket, allowance, sem>>

-----------------------------------------------------------------------------

\* The client goes away, or the server's ReadTimeout ends the request.
ContextDone(r) ==
    /\ req[r].pc # "idle" /\ ~req[r].done
    /\ req' = [req EXCEPT ![r].done = TRUE]
    /\ UNCHANGED <<bucket, allowance, sem>>

\* The process restarts; the buckets are in the database.
Crash ==
    /\ \E r \in Requests : req[r].pc # "idle"
    /\ req' = [r \in Requests |-> IdleRequest]
    /\ sem' = Permits
    /\ UNCHANGED <<bucket, allowance>>

Clock == (Tick \/ \E b \in Buckets : RateLimitGC(b)) /\ UNCHANGED <<sem, req>>

RequestStep(r) ==
    \/ WrapLimit(r) \/ EmailLimit(r) \/ Query(r)
    \/ Lookup(r) \/ BeginTx(r)
    \/ AcquireArgon2(r) \/ ReleaseArgon2(r) \/ Handler(r)
    \/ AppendOrLog(r) \/ CommitTx(r) \/ CacheResponse(r)

Next ==
    \/ \E r \in Requests :
         \/ Arrive(r)
         \/ \E proc \in Procedures, email \in Emails \cup {NoEmail} :
              ArriveAnonymous(r, proc, email)
         \/ RequestStep(r)
         \/ ContextDone(r)
    \/ Crash
    \/ Clock

\* The goroutine of a request runs on, the semaphore is served in order, and
\* http.Server ends the context of a request that takes too long.
Fairness ==
    \A r \in Requests :
        SF_vars(RequestStep(r)) /\ WF_vars(ContextDone(r))

Spec == Init /\ [][Next]_vars /\ Fairness

-----------------------------------------------------------------------------
(* Properties                                                              *)

\* Every request ends.  The audit interceptor asks for a second connection
\* while the request holds one, and a handler waits at the gate while it
\* holds one: with every connection held so, only the end of a request's
\* context moves things on.
RequestsReturn ==
    \A r \in Requests : (req[r].pc # "idle") ~> (req[r].pc = "idle")

\* No audited mutation commits before its audit row was written, or its loss
\* logged: the row is on a connection of its own, so this is an order of
\* steps and not a transaction.
AuditedBeforeCommit ==
    \A r \in Requests : At(r, "reply") => req[r].row # "none"

\* A retry is answered as the first call was: the body whole, compressed or
\* not as its headers say.  A response that did not fit the buffer is not
\* kept, wherever the limit falls between or inside its chunks.
ReplayedAsSent ==
    \A r \in Mutations : At(r, "reply") /\ ~req[r].rec.truncated =>
        \A h \in Headers, t \in {"", "application/proto"} :
            h["Content-Type"] # "" =>
                replay(frameResponse(h, req[r].rec.buf), t)
                  = [header |-> h, body |-> req[r].rec.whole]
=============================================================================
