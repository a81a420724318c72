------------------------------ MODULE RateLimit -----------------------------
(***************************************************************************)
(* The token buckets of rate_limit_buckets, and which procedure is metered *)
(* by which of them (internal/api/middleware/rate_limit.go and             *)
(* rate_limit_email.go, the query ConsumeRateLimit, the job rate_limit_gc).*)
(*                                                                         *)
(* A bucket is refilled at the rate, and up to the burst, of the procedure *)
(* that consumes from it; procedures with different limits share some.     *)
(* Tokens are counted in fractions, TicksPerMinute to a token, so that a   *)
(* limit of n per minute gains n of them per tick.  Every bucket is        *)
(* accompanied by an allowance, the bucket the limit promises: it is       *)
(* refilled with time and pays for the requests that were admitted, and    *)
(* for those only.                                                         *)
(***************************************************************************)
EXTENDS Integers

CONSTANTS
    Addresses, Emails,         \* what a bucket may be kept for
    AuthLoginPerIPPerMin, AuthLoginPerEmailPerMin, KDFParamsPerIPPerMin,
    RegisterPerIPPerHour, CompleteMFAPerIPPerMin,
    TicksPerMinute,
    Stale,     \* the age at which rate_limit_gc takes a row (an hour)
    MaxAge,    \* bound on the age of a row
    MaxDebt    \* bound on how far below zero a bucket is followed

ASSUME RateAssumption ==
    /\ AuthLoginPerIPPerMin \in Nat
    /\ AuthLoginPerEmailPerMin \in Nat
    /\ KDFParamsPerIPPerMin \in Nat
    /\ RegisterPerIPPerHour \in Nat
    /\ CompleteMFAPerIPPerMin \in Nat
    /\ TicksPerMinute \in Nat \ {0}
    /\ Stale \in Nat /\ Stale >= TicksPerMinute
    /\ MaxAge \in Nat
    /\ MaxDebt \in Nat

VARIABLES
    bucket,    \* per key: the row, with the age of refilled_at
    allowance  \* per key: what the limit still allows

rateVars == <<bucket, allowance>>

-----------------------------------------------------------------------------
(* The rules                                                               *)

Rule(kind, perMin) == [kind |-> kind, perMin |-> perMin]

\* The limit per hour is divided by 60 and may come out as zero, as any limit
\* may be configured: such a procedure is not metered.
proceduresWithRateLimit ==
    [Authorize         |-> Rule("auth_login_ip", AuthLoginPerIPPerMin),
     GetKDFParams      |-> Rule("kdf_params_ip", KDFParamsPerIPPerMin),
     GetRecoveryParams |-> Rule("kdf_params_ip", KDFParamsPerIPPerMin),
     RecoveryStart     |-> Rule("recovery_ip", AuthLoginPerIPPerMin),
     Register          |-> Rule("register_ip", RegisterPerIPPerHour \div 60),
     CompleteMFA       |-> Rule("mfa_complete_ip", CompleteMFAPerIPPerMin)]

proceduresWithEmailRateLimit ==
    [Authorize          |-> Rule("auth_login_email", AuthLoginPerEmailPerMin),
     RecoveryStart      |-> Rule("recovery_email", AuthLoginPerEmailPerMin),
     GetKDFParams       |-> Rule("kdf_params_email", KDFParamsPerIPPerMin),
     GetRecoveryParams  |-> Rule("recovery_email", KDFParamsPerIPPerMin),
     ResendVerification |-> Rule("resend_verification_email", AuthLoginPerEmailPerMin)]

Greater(x, y) == IF x > y THEN x ELSE y
Least(x, y) == IF x < y THEN x ELSE y

\* What the limits promise of a bucket that several rules use.
Promise ==
    [auth_login_ip    |-> AuthLoginPerIPPerMin,
     kdf_params_ip    |-> KDFParamsPerIPPerMin,
     recovery_ip      |-> AuthLoginPerIPPerMin,
     register_ip      |-> RegisterPerIPPerHour \div 60,
     mfa_complete_ip  |-> CompleteMFAPerIPPerMin,
     auth_login_email |-> AuthLoginPerEmailPerMin,
     kdf_params_email |-> KDFParamsPerIPPerMin,
     recovery_email   |-> Greater(AuthLoginPerEmailPerMin, KDFParamsPerIPPerMin),
     resend_verification_email |-> AuthLoginPerEmailPerMin]

Rules == {proceduresWithRateLimit[p] : p \in DOMAIN proceduresWithRateLimit}
EmailRules == {proceduresWithEmailRateLimit[p] : p \in DOMAIN proceduresWithEmailRateLimit}

\* The keys: kind and identifier, of the rules that meter anything.
Metered(rules) == {rule \in rules : rule.perMin > 0}
Buckets == {<<rule.kind, a>> : rule \in Metered(Rules), a \in Addresses}
           \cup {<<rule.kind, e>> : rule \in Metered(EmailRules), e \in Emails}

\* ipLimit and emailLimit: the burst is the limit, and at least one.
BurstOf(perMin) == Greater(perMin, 1) * TicksPerMinute
Full(b) == BurstOf(Promise[b[1]])

-----------------------------------------------------------------------------
(* The buckets                                                             *)

\* A key that has no row yet, or no longer.
NoRow == [exists |-> FALSE, tokens |-> 0, age |-> 0]
Bucket(b) == [exists : BOOLEAN, tokens : -(MaxDebt * TicksPerMinute)..Full(b),
              age : 0..MaxAge]

RateTypeOK ==
    /\ DOMAIN bucket = Buckets
    /\ \A b \in Buckets : bucket[b] \in Bucket(b)
    /\ allowance \in [Buckets -> Int]

RateInit ==
    /\ bucket = [b \in Buckets |-> NoRow]
    /\ allowance = [b \in Buckets |-> Full(b)]

\* The tokens that ConsumeRateLimit returns: after the refill, less one.
TokensAfter(row, perMin) ==
    IF row.exists
    THEN Least(BurstOf(perMin), row.tokens + perMin * row.age) - TicksPerMinute
    ELSE BurstOf(perMin) - TicksPerMinute

\* ConsumeRateLimit: one upsert.  A request that is refused pays as well.
ConsumeRateLimit(b, perMin) ==
    /\ TokensAfter(bucket[b], perMin) >= -(MaxDebt * TicksPerMinute)
    /\ bucket' = [bucket EXCEPT ![b] =
                    [exists |-> TRUE, tokens |-> TokensAfter(@, perMin), age |-> 0]]

\* Allow, when the statement answers: the request passes, or it is refused.
Admit(b, perMin) ==
    /\ TokensAfter(bucket[b], perMin) >= 0
    /\ ConsumeRateLimit(b, perMin)
    /\ allowance' = [allowance EXCEPT ![b] = @ - TicksPerMinute]

Refuse(b, perMin) ==
    /\ TokensAfter(bucket[b], perMin) < 0
    /\ ConsumeRateLimit(b, perMin)
    /\ UNCHANGED allowance

\* Allow fails open: the statement failed, or was not answered in 500 ms,
\* though it may have been carried out.
AdmitUnmetered(b, perMin) ==
    /\ ConsumeRateLimit(b, perMin) \/ UNCHANGED bucket
    /\ UNCHANGED allowance

Tick ==
    /\ \A b \in Buckets : bucket[b].age < MaxAge
    /\ bucket' = [b \in Buckets |->
                    IF bucket[b].exists THEN [bucket[b] EXCEPT !.age = @ + 1]
                    ELSE bucket[b]]
    /\ allowance' = [b \in Buckets |->
                       Least(Full(b), allowance[b] + Promise[b[1]])]

\* Variant: every row is taken, however recently it was used.
RateLimitGCAll(b) ==
    /\ bucket[b].exists
    /\ bucket' = [bucket EXCEPT ![b] = NoRow]
    /\ UNCHANGED allowance

\* The rows it takes: last used before the cutoff.
DeleteStaleRateLimitBuckets(b) == bucket[b].exists /\ bucket[b].age >= Stale

\* RateLimitGCWorker.
RateLimitGC(b) ==
    /\ DeleteStaleRateLimitBuckets(b)
    /\ bucket' = [bucket EXCEPT ![b] = NoRow]
    /\ UNCHANGED allowance

RateNext ==
    \/ \E b \in Buckets, rule \in Metered(Rules \cup EmailRules) :
         /\ b[1] = rule.kind
         /\ \/ Admit(b, rule.perMin)
            \/ Refuse(b, rule.perMin)
            \/ AdmitUnmetered(b, rule.perMin)
    \/ \E b \in Buckets : RateLimitGC(b)
    \/ Tick

RateSpec == RateInit /\ [][RateNext]_rateVars

-----------------------------------------------------------------------------

\* The limit holds over every window, not only from the start: n minutes admit
\* at most n + 1 times the limit under one key, apart from the requests for
\* which the limiter failed open.  rate_limit_gc.go: taking a stale row "is
\* identical to letting it persist", so it must not add to the allowance.
WindowBound == \A b \in Buckets : allowance[b] >= 0

\* The inductive form: a row never promises more than the allowance, refilled
\* at the largest rate that applies; nor does the absence of a row; and
\* whatever a row owes, its age alone has earned the allowance back.
RateInv ==
    /\ DOMAIN bucket = Buckets
    /\ \A b \in Buckets :
         /\ bucket[b] \in [exists : BOOLEAN, tokens : Int, age : Nat]
         /\ allowance[b] \in 0..Full(b)
         /\ bucket[b].exists =>
              /\ Least(Full(b), bucket[b].tokens + Promise[b[1]] * bucket[b].age)
                   <= allowance[b]
              /\ Least(Full(b), Promise[b[1]] * bucket[b].age) <= allowance[b]
         /\ ~bucket[b].exists => allowance[b] = Full(b)
    /\ allowance \in [Buckets -> Int]
=============================================================================
