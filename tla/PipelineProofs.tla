--------------------------- MODULE PipelineProofs ----------------------------
(***************************************************************************)
(* The rate limits hold over every window, for every configuration of the  *)
(* limits and any number of requests, connections and keys: first of the   *)
(* buckets by themselves (RateSpec), then of the buckets as the requests   *)
(* of Pipeline use them.  Then what Pipeline says of audit rows, replayed  *)
(* responses, permits and connections.                                     *)
(***************************************************************************)
EXTENDS Pipeline, SequenceTheorems, FiniteSetTheorems, TLAPS

-----------------------------------------------------------------------------
(* Arithmetic                                                              *)

\* Refilling at a higher rate, or for longer, does not yield less.
LEMMA TimesMonotone ==
    ASSUME NEW x \in Nat, NEW y \in Nat, NEW n \in Nat, x <= y
    PROVE  x * n \in Nat /\ y * n \in Nat /\ x * n <= y * n /\ n * x <= n * y
           /\ n * x \in Nat
  BY SMT

\* One tick more adds one tick's worth.
LEMMA TimesSuccessor ==
    ASSUME NEW x \in Nat, NEW n \in Nat
    PROVE  x * (n + 1) = x * n + x
  BY SMT

-----------------------------------------------------------------------------
(* The tables of rules                                                     *)

\* No rule lets through more than its bucket promises.
LEMMA RuleWithinPromise ==
    ASSUME NEW rule \in Rules \cup EmailRules
    PROVE  /\ rule.perMin \in Nat
           /\ rule.kind \in DOMAIN Promise
           /\ Promise[rule.kind] \in Nat
           /\ rule.perMin <= Promise[rule.kind]
<1>1. RegisterPerIPPerHour \div 60 \in Nat
  BY RateAssumption
<1>2. CASE rule \in Rules
  BY <1>1, <1>2, RateAssumption
     DEF Rules, proceduresWithRateLimit, Rule, Promise, Greater
<1>3. CASE rule \in EmailRules
  BY <1>1, <1>3, RateAssumption
     DEF EmailRules, proceduresWithEmailRateLimit, Rule, Promise, Greater
<1> QED
  BY <1>2, <1>3, Zenon

\* The key of a bucket starts with the kind of a rule that meters.
LEMMA BucketPromise ==
    ASSUME NEW b \in Buckets
    PROVE  /\ Promise[b[1]] \in Nat
           /\ Promise[b[1]] >= 1
           /\ Full(b) = Promise[b[1]] * TicksPerMinute
           /\ Full(b) \in Nat
           /\ TicksPerMinute <= Full(b)
<1>1. PICK rule \in Rules \cup EmailRules : rule.perMin > 0 /\ b[1] = rule.kind
  BY DEF Buckets, Metered
<1>2. /\ Promise[b[1]] \in Nat
      /\ Promise[b[1]] >= 1
  BY <1>1, RuleWithinPromise
<1>3. Full(b) = Promise[b[1]] * TicksPerMinute
  BY <1>2 DEF Full, BurstOf, Greater
<1>4. /\ Promise[b[1]] * TicksPerMinute \in Nat
      /\ 1 * TicksPerMinute <= Promise[b[1]] * TicksPerMinute
  BY <1>2, TimesMonotone, RateAssumption, Zenon
<1> QED
  BY <1>2, <1>3, <1>4, RateAssumption

-----------------------------------------------------------------------------
(* One statement on one bucket                                             *)

\* What RateInv says of one row and its allowance.
Covered(row, left, rate, full) ==
    /\ row \in [exists : BOOLEAN, tokens : Int, age : Nat]
    /\ left \in 0..full
    /\ row.exists => /\ Least(full, row.tokens + rate * row.age) <= left
                     /\ Least(full, rate * row.age) <= left
    /\ ~row.exists => left = full

\* ConsumeRateLimit never leaves more than the allowance less one token.
LEMMA ConsumeCovered ==
    ASSUME NEW rate \in Nat, NEW perMin \in Nat, perMin > 0, perMin <= rate,
           NEW row, NEW left,
           Covered(row, left, rate, rate * TicksPerMinute)
    PROVE  /\ TokensAfter(row, perMin) \in Int
           /\ TokensAfter(row, perMin) <= left - TicksPerMinute
<1> DEFINE full == rate * TicksPerMinute
<1>1. /\ BurstOf(perMin) = perMin * TicksPerMinute
      /\ perMin * TicksPerMinute \in Nat
      /\ full \in Nat
      /\ perMin * TicksPerMinute <= full
  BY TimesMonotone, RateAssumption DEF BurstOf, Greater
<1>2. CASE row.exists
  <2>1. row.age \in Nat /\ row.tokens \in Int
    BY Zenon DEF Covered
  <2>2. /\ perMin * row.age \in Nat
        /\ rate * row.age \in Nat
        /\ perMin * row.age <= rate * row.age
    BY <2>1, TimesMonotone, Zenon
  <2>3. /\ Least(full, row.tokens + rate * row.age) <= left
        /\ left \in 0..full
    BY <1>2, Zenon DEF Covered
  <2> DEFINE burst == perMin * TicksPerMinute
             gain  == perMin * row.age
             earned == rate * row.age
  <2>4. TokensAfter(row, perMin) = Least(burst, row.tokens + gain) - TicksPerMinute
    BY <1>1, <1>2, Zenon DEF TokensAfter
  <2>5. /\ burst \in Nat /\ full \in Nat /\ gain \in Nat /\ earned \in Nat
        /\ burst <= full /\ gain <= earned
        /\ Least(full, row.tokens + earned) <= left
    BY <1>1, <2>2, <2>3, Zenon
  <2> HIDE DEF full, burst, gain, earned
  <2> QED
    BY <2>1, <2>3, <2>4, <2>5, RateAssumption DEF Least
<1>3. CASE ~row.exists
  <2>1. left = full
    BY <1>3, Zenon DEF Covered
  <2> HIDE DEF full
  <2> QED
    BY <1>1, <1>3, <2>1, RateAssumption DEF TokensAfter
<1> QED
  BY <1>2, <1>3, Zenon

\* A row written now is covered by whatever allowance its tokens fit in.
LEMMA FreshRowCovered ==
    ASSUME NEW rate \in Nat, NEW full \in Nat, NEW left \in 0..full,
           NEW tokens \in Int, tokens <= left
    PROVE  Covered([exists |-> TRUE, tokens |-> tokens, age |-> 0], left, rate, full)
<1>1. rate * 0 = 0
  BY SMT
<1> QED
  BY <1>1 DEF Covered, Least

\* RateInv, bucket by bucket.
LEMMA RateInvCovers ==
    RateInv <=> /\ DOMAIN bucket = Buckets
                /\ \A b \in Buckets :
                     Covered(bucket[b], allowance[b], Promise[b[1]], Full(b))
                /\ allowance \in [Buckets -> Int]
  BY Zenon DEF RateInv, Covered

-----------------------------------------------------------------------------
(* The actions on the buckets                                              *)

\* A rule that meters the bucket b.
Applies(b, perMin) ==
    /\ b \in Buckets
    /\ perMin \in Nat
    /\ perMin > 0
    /\ perMin <= Promise[b[1]]

\* A request that pays, admitted or refused or not waited for, keeps RateInv
\* if the allowance pays at most as much.
LEMMA ConsumeKeeps ==
    ASSUME RateInv, NEW b, NEW perMin, Applies(b, perMin),
           bucket' = [bucket EXCEPT ![b] =
                        [exists |-> TRUE, tokens |-> TokensAfter(@, perMin), age |-> 0]],
           \/ /\ TokensAfter(bucket[b], perMin) >= 0
              /\ allowance' = [allowance EXCEPT ![b] = @ - TicksPerMinute]
           \/ UNCHANGED allowance
    PROVE  RateInv'
<1> DEFINE tokens == TokensAfter(bucket[b], perMin)
           rate == Promise[b[1]]
<1>1. /\ DOMAIN bucket = Buckets
      /\ \A k \in Buckets : Covered(bucket[k], allowance[k], Promise[k[1]], Full(k))
      /\ allowance \in [Buckets -> Int]
  BY RateInvCovers, Zenon
<1>2. b \in Buckets
  BY Zenon DEF Applies
<1>3. /\ rate \in Nat
      /\ Full(b) = rate * TicksPerMinute
      /\ Full(b) \in Nat
  BY <1>2, BucketPromise, Zenon
<1>4. Covered(bucket[b], allowance[b], rate, rate * TicksPerMinute)
  BY <1>1, <1>2, <1>3, Zenon
<1>5. /\ tokens \in Int
      /\ tokens <= allowance[b] - TicksPerMinute
  BY <1>3, <1>4, ConsumeCovered, Zenon DEF Applies
<1>6. allowance[b] \in 0..Full(b)
  BY <1>1, <1>2, Zenon DEF Covered
<1>7. /\ bucket'[b] = [exists |-> TRUE, tokens |-> tokens, age |-> 0]
      /\ DOMAIN bucket' = Buckets
      /\ \A k \in Buckets \ {b} : bucket'[k] = bucket[k]
  BY <1>1, <1>2, Zenon
<1> HIDE DEF tokens
<1>8. /\ allowance' \in [Buckets -> Int]
      /\ allowance'[b] \in 0..Full(b)
      /\ tokens <= allowance'[b]
      /\ \A k \in Buckets \ {b} : allowance'[k] = allowance[k]
  <2>1. CASE tokens >= 0 /\ allowance' = [allowance EXCEPT ![b] = @ - TicksPerMinute]
    BY <2>1, <1>1, <1>2, <1>3, <1>5, <1>6, RateAssumption
  <2>2. CASE UNCHANGED allowance
    BY <2>2, <1>1, <1>2, <1>3, <1>5, <1>6, RateAssumption
  <2> QED
    BY <2>1, <2>2, Zenon DEF tokens
<1>9. Covered(bucket'[b], allowance'[b], rate, Full(b))
  BY <1>3, <1>5, <1>7, <1>8, FreshRowCovered
<1>10. \A k \in Buckets : Covered(bucket'[k], allowance'[k], Promise[k[1]], Full(k))
  BY <1>1, <1>7, <1>8, <1>9, Zenon
<1> QED
  BY <1>7, <1>8, <1>10, Zenon DEF RateInv, Covered

\* The three outcomes of Allow.
LEMMA AllowKeeps ==
    ASSUME RateInv, NEW b, NEW perMin, Applies(b, perMin),
           Admit(b, perMin) \/ Refuse(b, perMin) \/ AdmitUnmetered(b, perMin)
    PROVE  RateInv'
<1>1. CASE Admit(b, perMin)
  BY <1>1, ConsumeKeeps, Zenon DEF Admit, ConsumeRateLimit
<1>2. CASE Refuse(b, perMin)
  BY <1>2, ConsumeKeeps, Zenon DEF Refuse, ConsumeRateLimit
<1>3. CASE AdmitUnmetered(b, perMin)
  <2>1. CASE ConsumeRateLimit(b, perMin)
    BY <1>3, <2>1, ConsumeKeeps, Zenon DEF AdmitUnmetered, ConsumeRateLimit
  <2>2. CASE UNCHANGED bucket
    BY <1>3, <2>2, Zenon DEF AdmitUnmetered, RateInv
  <2> QED
    BY <1>3, <2>1, <2>2, Zenon DEF AdmitUnmetered
<1> QED
  BY <1>1, <1>2, <1>3, Zenon

\* Time refills the allowance at least as fast as any rule refills the row.
LEMMA TickKeeps ==
    ASSUME RateInv, Tick
    PROVE  RateInv'
<1>1. /\ DOMAIN bucket = Buckets
      /\ \A k \in Buckets : Covered(bucket[k], allowance[k], Promise[k[1]], Full(k))
      /\ allowance \in [Buckets -> Int]
  BY RateInvCovers, Zenon
<1>2. DOMAIN bucket' = Buckets
  BY Zenon DEF Tick
<1>3. ASSUME NEW b \in Buckets
      PROVE  Covered(bucket'[b], allowance'[b], Promise[b[1]], Full(b))
  <2> DEFINE rate == Promise[b[1]]
             row == bucket[b]
             left == allowance[b]
             earned == rate * row.age
             full == Full(b)
  <2>1. /\ rate \in Nat
        /\ full \in Nat
    BY BucketPromise, Zenon
  <2>2. Covered(row, left, rate, full)
    BY <1>1, Zenon
  <2>3. /\ row \in [exists : BOOLEAN, tokens : Int, age : Nat]
        /\ left \in 0..full
    BY <2>2, Zenon DEF Covered
  <2>4. /\ earned \in Nat
        /\ rate * (row.age + 1) = earned + rate
    BY <2>1, <2>3, TimesMonotone, TimesSuccessor
  <2>5. allowance'[b] = Least(full, left + rate)
    BY Zenon DEF Tick
  <2>6. CASE row.exists
    <3>1. bucket'[b] = [row EXCEPT !.age = @ + 1]
      BY <2>6, Zenon DEF Tick
    <3>2. /\ bucket'[b] \in [exists : BOOLEAN, tokens : Int, age : Nat]
          /\ bucket'[b].exists
          /\ bucket'[b].tokens = row.tokens
          /\ bucket'[b].age = row.age + 1
      BY <2>3, <2>6, <3>1
    <3>3. /\ Least(full, row.tokens + earned) <= left
          /\ Least(full, earned) <= left
      BY <2>2, <2>6, Zenon DEF Covered
    <3> HIDE DEF rate, earned, full, left, row
    <3>4. /\ Least(full, row.tokens + (earned + rate)) <= Least(full, left + rate)
          /\ Least(full, earned + rate) <= Least(full, left + rate)
          /\ Least(full, left + rate) \in 0..full
      BY <2>1, <2>3, <2>4, <3>3 DEF Least
    <3> QED
      BY <2>4, <2>5, <3>2, <3>4, Zenon DEF Covered, rate, full
  <2>7. CASE ~row.exists
    <3>1. bucket'[b] = row
      BY <2>7, Zenon DEF Tick
    <3>2. left = full
      BY <2>2, <2>7, Zenon DEF Covered
    <3> HIDE DEF rate, full, left, row
    <3>3. Least(full, left + rate) = full
      BY <2>1, <3>2 DEF Least
    <3> QED
      BY <2>1, <2>3, <2>5, <2>7, <3>1, <3>3 DEF Covered, full
  <2> QED
    BY <2>6, <2>7, Zenon
<1>4. allowance' \in [Buckets -> Int]
  BY <1>1, BucketPromise DEF Tick, Least
<1> QED
  BY <1>2, <1>3, <1>4, Zenon DEF RateInv, Covered

\* A row as old as rate_limit_gc wants it has earned the whole allowance back.
LEMMA GCKeeps ==
    ASSUME RateInv, NEW b \in Buckets, RateLimitGC(b)
    PROVE  RateInv'
<1>1. /\ DOMAIN bucket = Buckets
      /\ \A k \in Buckets : Covered(bucket[k], allowance[k], Promise[k[1]], Full(k))
      /\ allowance \in [Buckets -> Int]
  BY RateInvCovers, Zenon
<1> DEFINE rate == Promise[b[1]]
           earned == rate * bucket[b].age
<1>2. /\ rate \in Nat
      /\ Full(b) = rate * TicksPerMinute
      /\ Full(b) \in Nat
  BY BucketPromise, Zenon
<1>3. Covered(bucket[b], allowance[b], rate, Full(b))
  BY <1>1, Zenon
<1>4. bucket[b].exists /\ bucket[b].age >= Stale /\ bucket[b].age \in Nat
  BY <1>3, Zenon DEF RateLimitGC, DeleteStaleRateLimitBuckets, Covered
<1>5. earned \in Nat /\ Full(b) <= earned
  <2>1. TicksPerMinute <= bucket[b].age
    BY <1>4, RateAssumption
  <2> QED
    BY <1>2, <1>4, <2>1, TimesMonotone, RateAssumption
<1>6. /\ Least(Full(b), earned) <= allowance[b]
      /\ allowance[b] \in 0..Full(b)
  BY <1>3, <1>4, Zenon DEF Covered
<1> HIDE DEF earned
<1>7. allowance[b] = Full(b)
  BY <1>2, <1>5, <1>6 DEF Least
<1>8. /\ bucket'[b] = NoRow
      /\ DOMAIN bucket' = Buckets
      /\ \A k \in Buckets \ {b} : bucket'[k] = bucket[k]
      /\ allowance' = allowance
  BY <1>1, Zenon DEF RateLimitGC
<1>9. Covered(bucket'[b], allowance'[b], rate, Full(b))
  BY <1>6, <1>7, <1>8 DEF Covered, NoRow
<1>10. \A k \in Buckets : Covered(bucket'[k], allowance'[k], Promise[k[1]], Full(k))
  BY <1>1, <1>8, <1>9, Zenon
<1> QED
  BY <1>1, <1>8, <1>10, Zenon DEF RateInv, Covered

LEMMA RateInitCovered ==
    ASSUME RateInit
    PROVE  RateInv
<1>1. \A b \in Buckets : Full(b) \in Nat
  BY BucketPromise, Zenon
<1> QED
  BY <1>1 DEF RateInit, RateInv, NoRow

LEMMA RateInvBounds ==
    ASSUME RateInv
    PROVE  WindowBound
<1>1. \A b \in Buckets : Full(b) \in Nat
  BY BucketPromise, Zenon
<1> QED
  BY <1>1 DEF RateInv, WindowBound

\* Whatever calls the limiter, over every window a bucket admits no more than
\* its limit (Allow, ConsumeRateLimit and rate_limit_gc).
THEOREM LimiterCorrect == RateSpec => []WindowBound
<1>1. RateInit => RateInv
  BY RateInitCovered, Zenon
<1>2. RateInv /\ [RateNext]_rateVars => RateInv'
  <2> SUFFICES ASSUME RateInv, [RateNext]_rateVars PROVE RateInv'
    BY Zenon
  <2>1. ASSUME NEW b \in Buckets, NEW rule \in Metered(Rules \cup EmailRules),
               b[1] = rule.kind,
               \/ Admit(b, rule.perMin)
               \/ Refuse(b, rule.perMin)
               \/ AdmitUnmetered(b, rule.perMin)
        PROVE  RateInv'
    <3>1. rule \in Rules \cup EmailRules /\ rule.perMin > 0
      BY Zenon DEF Metered
    <3>2. Applies(b, rule.perMin)
      BY <2>1, <3>1, RuleWithinPromise, Zenon DEF Applies
    <3> QED
      BY <2>1, <3>2, AllowKeeps, Zenon
  <2>2. ASSUME NEW b \in Buckets, RateLimitGC(b) PROVE RateInv'
    BY <2>2, GCKeeps, Zenon
  <2>3. CASE Tick
    BY <2>3, TickKeeps, Zenon
  <2>4. CASE UNCHANGED rateVars
    BY <2>4, Zenon DEF RateInv, rateVars
  <2> QED
    BY <2>1, <2>2, <2>3, <2>4, Zenon DEF RateNext
<1>3. RateInv => WindowBound
  BY RateInvBounds, Zenon
<1> QED
  BY <1>1, <1>2, <1>3, PTL DEF RateSpec

-----------------------------------------------------------------------------
(* The response that is kept and replayed                                 *)

\* What captureWriter holds is the body, unless it says otherwise.
Faithful(rec) == rec \in Capture /\ (~rec.truncated => rec.buf = rec.whole)

\* captureWriter.Write keeps it so, whatever the chunk.
LEMMA WriteFaithful ==
    ASSUME NEW rec, Faithful(rec), NEW chunk \in Nat
    PROVE  Faithful(Write(rec, chunk))
<1> DEFINE remaining == maxReplayBody - rec.buf
           fits      == chunk <= remaining
           whole     == rec.whole + chunk
           buf       == IF rec.truncated THEN rec.buf
                        ELSE IF fits THEN rec.buf + chunk ELSE maxReplayBody
           truncated == rec.truncated \/ remaining = 0 \/ ~fits
<1>1. rec.whole \in Nat /\ rec.buf \in Nat /\ rec.truncated \in BOOLEAN
  BY Zenon DEF Faithful, Capture
<1>2. whole \in Nat /\ buf \in Nat
  BY <1>1, ReplayAssumption
<1>3. truncated \in BOOLEAN
  BY Zenon
<1>4. ~truncated => buf = whole
  BY <1>1, Zenon DEF Faithful
<1>5. Write(rec, chunk) = [whole |-> whole, buf |-> buf, truncated |-> truncated]
  BY Zenon DEF Write
<1> HIDE DEF whole, buf, truncated
<1>6. Write(rec, chunk) \in Capture
  <2>1. [whole |-> whole, buf |-> buf, truncated |-> truncated]
          \in [whole : Nat, buf : Nat, truncated : BOOLEAN]
    BY <1>2, <1>3, Zenon
  <2> QED
    BY <1>5, <2>1, Zenon DEF Capture
<1>7. /\ Write(rec, chunk).buf = buf
      /\ Write(rec, chunk).whole = whole
      /\ Write(rec, chunk).truncated = truncated
  BY <1>5
<1> QED
  BY <1>4, <1>6, <1>7, Zenon DEF Faithful

\* The lines of a framed response: Content-Type, Content-Encoding if n = 1, the
\* blank line, the body.
FramedAs(f, n, ct, ce, body) ==
    /\ DOMAIN f = 1..(3 + n)
    /\ f[1] = <<"Content-Type", ct>>
    /\ n = 1 => f[2] = <<"Content-Encoding", ce>>
    /\ f[2 + n] = Blank
    /\ f[3 + n] = <<body>>

\* A sequence of three or four lines.
Lines3(f, a, b, c) == DOMAIN f = 1..3 /\ f[1] = a /\ f[2] = b /\ f[3] = c
Lines4(f, a, b, c, d) == DOMAIN f = 1..4 /\ f[1] = a /\ f[2] = b /\ f[3] = c /\ f[4] = d

\* Short sequences of lines are sequences, of the length they look.
LEMMA NoLines ==
    ASSUME NEW S
    PROVE  <<>> \in Seq(S) /\ Len(<<>>) = 0
  OBVIOUS

\* ... one line.
LEMMA OneLine ==
    ASSUME NEW S, NEW a \in S
    PROVE  <<a>> \in Seq(S) /\ Len(<<a>>) = 1 /\ <<a>>[1] = a
  OBVIOUS

\* ... two lines.
LEMMA TwoLines ==
    ASSUME NEW S, NEW a \in S, NEW b \in S
    PROVE  <<a, b>> \in Seq(S) /\ Len(<<a, b>>) = 2 /\ <<a, b>>[1] = a /\ <<a, b>>[2] = b
  OBVIOUS

\* f is s with two more lines.
Ends(f, s, b, c) ==
    /\ DOMAIN f = 1..(Len(s) + 2)
    /\ \A i \in 1..Len(s) : f[i] = s[i]
    /\ f[Len(s) + 1] = b
    /\ f[Len(s) + 2] = c

\* Two lines behind a sequence.
LEMMA Join ==
    ASSUME NEW S, NEW s \in Seq(S), NEW b \in S, NEW c \in S
    PROVE  Ends(s \o <<b, c>>, s, b, c)
<1> DEFINE u == <<b, c>>
           f == s \o u
<1>1. u \in Seq(S) /\ Len(u) = 2 /\ u[1] = b /\ u[2] = c
  BY TwoLines, Zenon
<1> HIDE DEF u
<1>2. f \in Seq(S) /\ Len(f) = Len(s) + Len(u)
  BY <1>1, ConcatProperties, Zenon
<1>3. \A i \in 1..(Len(s) + Len(u)) : f[i] = IF i <= Len(s) THEN s[i] ELSE u[i - Len(s)]
  BY <1>1, ConcatProperties, Zenon
<1> HIDE DEF f
<1>4. DOMAIN f = 1..(Len(s) + 2)
  BY <1>1, <1>2
<1>5. \A i \in 1..Len(s) : f[i] = s[i]
  BY <1>1, <1>3
<1>6. f[Len(s) + 1] = b /\ f[Len(s) + 2] = c
  BY <1>1, <1>3
<1> QED
  BY <1>4, <1>5, <1>6, Zenon DEF f, u, Ends

\* The lines frameResponse writes for a response that is not compressed.
LEMMA JoinPlain ==
    ASSUME NEW a, NEW b, NEW c
    PROVE  Lines3((<<a>> \o <<>>) \o <<b, c>>, a, b, c)
<1> DEFINE S == {a, b, c}
           s == <<a>>
           f == s \o <<b, c>>
<1>1. a \in S /\ b \in S /\ c \in S
  BY Zenon
<1> HIDE DEF S
<1>2. s \in Seq(S) /\ Len(s) = 1 /\ s[1] = a
  BY <1>1, OneLine, Zenon
<1>3. <<a>> \o <<>> = s
  BY <1>2, ConcatEmptySeq, Zenon
<1> HIDE DEF s
<1>4. Ends(f, s, b, c)
  BY <1>1, <1>2, Join, Zenon
<1> HIDE DEF f
<1>5. Lines3(f, a, b, c)
  BY <1>2, <1>4 DEF Lines3, Ends
<1> QED
  BY <1>3, <1>5, Zenon DEF f

\* The lines frameResponse writes for a compressed one.
LEMMA JoinEncoded ==
    ASSUME NEW a, NEW d, NEW b, NEW c
    PROVE  Lines4((<<a>> \o <<d>>) \o <<b, c>>, a, d, b, c)
<1> DEFINE S == {a, b, c, d}
           s == <<a>> \o <<d>>
           f == s \o <<b, c>>
<1>1. a \in S /\ b \in S /\ c \in S /\ d \in S
  BY Zenon
<1> HIDE DEF S
<1>2. s \in Seq(S) /\ Len(s) = 2 /\ s[1] = a /\ s[2] = d
  <2> DEFINE p == <<a>>
             q == <<d>>
  <2>1. p \in Seq(S) /\ Len(p) = 1 /\ p[1] = a /\ q \in Seq(S) /\ Len(q) = 1 /\ q[1] = d
    BY <1>1, OneLine, Zenon
  <2> HIDE DEF p, q
  <2>2. p \o q \in Seq(S) /\ Len(p \o q) = Len(p) + Len(q)
    BY <2>1, ConcatProperties, Zenon
  <2>3. (p \o q)[1] = a /\ (p \o q)[2] = d
    BY <2>1, ConcatProperties
  <2>4. s = p \o q
    BY Zenon DEF p, q
  <2> HIDE DEF s
  <2> QED
    BY <2>1, <2>2, <2>3, <2>4
<1> HIDE DEF s
<1>4. Ends(f, s, b, c)
  BY <1>1, <1>2, Join, Zenon
<1> HIDE DEF f
<1>5. Lines4(f, a, d, b, c)
  BY <1>2, <1>4 DEF Lines4, Ends
<1> QED
  BY <1>5, Zenon DEF f, s

\* Either way the lines are those of FramedAs.
LEMMA PlainFrame ==
    ASSUME NEW f, NEW ct, NEW ce, NEW body,
           Lines3(f, <<"Content-Type", ct>>, Blank, <<body>>)
    PROVE  FramedAs(f, 0, ct, ce, body)
  BY DEF Lines3, FramedAs

\* ... and with Content-Encoding.
LEMMA EncodedFrame ==
    ASSUME NEW f, NEW ct, NEW ce, NEW body,
           Lines4(f, <<"Content-Type", ct>>, <<"Content-Encoding", ce>>, Blank, <<body>>)
    PROVE  FramedAs(f, 1, ct, ce, body)
  BY DEF Lines4, FramedAs

\* What frameResponse writes.
LEMMA Frames ==
    ASSUME NEW h \in Headers, NEW body, h["Content-Type"] # ""
    PROVE  FramedAs(frameResponse(h, body), IF h["Content-Encoding"] = "" THEN 0 ELSE 1,
                    h["Content-Type"], h["Content-Encoding"], body)
<1> DEFINE ct == <<"Content-Type", h["Content-Type"]>>
           ce == <<"Content-Encoding", h["Content-Encoding"]>>
<1>1. CASE h["Content-Encoding"] = ""
  <2>1. frameResponse(h, body) = (<<ct>> \o <<>>) \o <<Blank, <<body>>>>
    BY <1>1, Zenon DEF frameResponse, headerLine, replayHeaders
  <2>2. Lines3(frameResponse(h, body), ct, Blank, <<body>>)
    BY <2>1, JoinPlain, Zenon
  <2> QED
    BY <1>1, <2>2, PlainFrame, Zenon
<1>2. CASE h["Content-Encoding"] # ""
  <2>1. frameResponse(h, body) = (<<ct>> \o <<ce>>) \o <<Blank, <<body>>>>
    BY <1>2, Zenon DEF frameResponse, headerLine, replayHeaders
  <2>2. Lines4(frameResponse(h, body), ct, ce, Blank, <<body>>)
    BY <2>1, JoinEncoded, Zenon
  <2> QED
    BY <1>2, <2>2, EncodedFrame, Zenon
<1> QED
  BY <1>1, <1>2, Zenon

\* The first blank line is the one behind the headers.
LEMMA FirstBlank ==
    ASSUME NEW f, NEW n \in {0, 1}, DOMAIN f = 1..(3 + n),
           f[1] # Blank, n = 1 => f[2] # Blank, f[2 + n] = Blank
    PROVE  (CHOOSE k \in DOMAIN f : f[k] = Blank /\ \A j \in 1..(k - 1) : f[j] # Blank)
             = 2 + n
<1>1. 2 + n \in DOMAIN f /\ \A j \in 1..(1 + n) : f[j] # Blank
  OBVIOUS
<1>2. ASSUME NEW k \in DOMAIN f, f[k] = Blank, \A j \in 1..(k - 1) : f[j] # Blank
      PROVE  k = 2 + n
  BY <1>1, <1>2
<1> QED
  BY <1>1, <1>2

\* A header that was written once is read as it was written.
LEMMA TheOne ==
    ASSUME NEW v
    PROVE  {v} # {} /\ (CHOOSE x \in {v} : TRUE) = v
  BY Zenon

\* The headers and the body that such lines are read as.
UnframedAs(n, ct, ce, body) ==
    [header |-> [name \in {"Content-Type", "Content-Encoding"} |->
                   IF name = "Content-Type" THEN ct ELSE IF n = 0 THEN "" ELSE ce],
     body   |-> body]

\* What unframeResponse reads.
LEMMA Unframes ==
    ASSUME NEW f, NEW n \in {0, 1}, NEW ct, NEW ce, NEW body,
           FramedAs(f, n, ct, ce, body)
    PROVE  unframeResponse(f) = UnframedAs(n, ct, ce, body)
<1> DEFINE blank == CHOOSE k \in DOMAIN f :
                      f[k] = Blank /\ \A j \in 1..(k - 1) : f[j] # Blank
           value(name) == {f[j][2] : j \in {i \in 1..(blank - 1) : f[i][1] = name}}
           kept(name) == IF value(name) = {} THEN "" ELSE CHOOSE v \in value(name) : TRUE
<1>1. unframeResponse(f) =
        [header |-> [name \in {"Content-Type", "Content-Encoding"} |-> kept(name)],
         body   |-> f[blank + 1][1]]
  BY Zenon DEF unframeResponse
<1>2. /\ DOMAIN f = 1..(3 + n)
      /\ f[1] = <<"Content-Type", ct>>
      /\ n = 1 => f[2] = <<"Content-Encoding", ce>>
      /\ f[2 + n] = Blank
      /\ f[3 + n] = <<body>>
  BY Zenon DEF FramedAs
<1>3. f[1] # Blank /\ (n = 1 => f[2] # Blank)
  BY <1>2 DEF Blank
<1>4. blank = 2 + n
  BY <1>2, <1>3, FirstBlank, Zenon
<1> HIDE DEF blank
<1>5. f[1][1] = "Content-Type" /\ f[1][2] = ct
  BY <1>2
<1>6. n = 1 => f[2][1] = "Content-Encoding" /\ f[2][2] = ce
  BY <1>2
<1>7. f[blank + 1][1] = body
  <2>1. blank + 1 = 3 + n
    BY <1>4
  <2> QED
    BY <1>2, <2>1
<1>8. kept("Content-Type") = ct /\ kept("Content-Encoding") = IF n = 0 THEN "" ELSE ce
  <2>1. CASE n = 0
    <3>1. 1..(blank - 1) = {1}
      BY <1>4, <2>1
    <3>2. value("Content-Type") = {ct} /\ value("Content-Encoding") = {}
      BY <1>5, <3>1, Zenon
    <3> HIDE DEF value
    <3> QED
      BY <2>1, <3>2, TheOne, Zenon
  <2>2. CASE n = 1
    <3>1. 1..(blank - 1) = {1, 2}
      BY <1>4, <2>2
    <3>2. value("Content-Type") = {ct} /\ value("Content-Encoding") = {ce}
      BY <1>5, <1>6, <2>2, <3>1, Zenon
    <3> HIDE DEF value
    <3>3. n # 0
      BY <2>2
    <3> QED
      BY <3>2, <3>3, TheOne, Zenon
  <2> QED
    BY <2>1, <2>2, Zenon
<1> HIDE DEF kept
<1> QED
  BY <1>1, <1>7, <1>8, Zenon DEF UnframedAs

\* The two forms of a frame differ.
LEMMA ZeroIsNotOne == 0 # 1
  OBVIOUS

\* unframeResponse is the inverse of frameResponse.
LEMMA RoundTrip ==
    ASSUME NEW h \in Headers, NEW body, h["Content-Type"] # ""
    PROVE  unframeResponse(frameResponse(h, body)) = [header |-> h, body |-> body]
<1> DEFINE n == IF h["Content-Encoding"] = "" THEN 0 ELSE 1
<1>1. n \in {0, 1}
  BY Zenon
<1>2. IF h["Content-Encoding"] = "" THEN n = 0 ELSE n = 1
  BY Zenon
<1>3. FramedAs(frameResponse(h, body), n, h["Content-Type"], h["Content-Encoding"], body)
  BY Frames, Zenon
<1> HIDE DEF n
<1>4. unframeResponse(frameResponse(h, body))
        = UnframedAs(n, h["Content-Type"], h["Content-Encoding"], body)
  BY <1>1, <1>3, Unframes, Zenon
<1>5. h \in [{"Content-Type", "Content-Encoding"} -> {"", "application/proto", "gzip"}]
  BY Zenon DEF Headers
<1>6. /\ h = [name \in {"Content-Type", "Content-Encoding"} |-> h[name]]
      /\ \A name \in {"Content-Type", "Content-Encoding"} :
           h[name] = IF name = "Content-Type" THEN h["Content-Type"]
                     ELSE IF n = 0 THEN "" ELSE h["Content-Encoding"]
  <2>1. n = 0 => h["Content-Encoding"] = ""
    BY <1>2, ZeroIsNotOne, Zenon
  <2> QED
    BY <1>5, <2>1, Zenon
<1>7. [name \in {"Content-Type", "Content-Encoding"} |->
         IF name = "Content-Type" THEN h["Content-Type"]
         ELSE IF n = 0 THEN "" ELSE h["Content-Encoding"]] = h
  BY <1>6, Zenon
<1> QED
  BY <1>4, <1>7, Zenon DEF UnframedAs

\* A replay has the headers and the body of the response that was framed; the
\* fallback for Content-Type is not used.
LEMMA Replays ==
    ASSUME NEW h \in Headers, NEW body, NEW t, h["Content-Type"] # ""
    PROVE  replay(frameResponse(h, body), t) = [header |-> h, body |-> body]
<1> DEFINE kept == unframeResponse(frameResponse(h, body))
<1>1. kept = [header |-> h, body |-> body]
  BY RoundTrip, Zenon
<1>2. replay(frameResponse(h, body), t) =
        [header |-> IF kept.header["Content-Type"] = ""
                    THEN [kept.header EXCEPT !["Content-Type"] =
                            IF t = "" THEN "application/proto" ELSE t]
                    ELSE kept.header,
         body   |-> kept.body]
  BY Zenon DEF replay
<1> HIDE DEF kept
<1>3. kept.header = h /\ kept.body = body
  BY <1>1, Zenon
<1> QED
  BY <1>2, <1>3, Zenon

-----------------------------------------------------------------------------
(* The requests of Pipeline                                                *)

\* What a request at the limiter is metered under, what is known of one whose
\* handler has succeeded, and of what was recorded of its response.
Sound(q) ==
    /\ q.pc = "ip" => q.ip \in Addresses
    /\ q.email # NoEmail => q.email \in Emails
    /\ q.pc \in {"commit", "reply"} => q.row # "none"
    /\ Faithful(q.rec)

PipeInv ==
    /\ RateInv
    /\ DOMAIN req = Requests
    /\ \A r \in Requests : Sound(req[r])

\* A request that has not arrived has recorded nothing.
LEMMA IdleSound == Sound(IdleRequest)
<1>1. Faithful(NoCapture)
  BY Zenon DEF Faithful, NoCapture, Capture
<1> QED
  BY <1>1, Zenon DEF Sound, IdleRequest

LEMMA PipeInitInv ==
    ASSUME Init
    PROVE  PipeInv
<1>1. RateInv
  BY RateInitCovered, Zenon DEF Init
<1> QED
  BY <1>1, IdleSound, Zenon DEF Init, PipeInv

\* A step that changes one request, soundly, and leaves the buckets alone.
LEMMA OneRequest ==
    ASSUME PipeInv, NEW r \in Requests, NEW q, Sound(q), req' = [req EXCEPT ![r] = q]
    PROVE  DOMAIN req' = Requests /\ \A p \in Requests : Sound(req'[p])
  BY Zenon DEF PipeInv

LEMMA ReturnSound ==
    ASSUME PipeInv, NEW r \in Requests, Return(r)
    PROVE  DOMAIN req' = Requests /\ \A p \in Requests : Sound(req'[p])
  BY IdleSound, OneRequest, Zenon DEF Return

\* A request that goes on, but neither back to Wrap nor past the interceptor.
LEMMA GotoSound ==
    ASSUME PipeInv, NEW r \in Requests, NEW pc, Goto(r, pc),
           pc \notin {"ip", "commit", "reply"}
    PROVE  DOMAIN req' = Requests /\ \A p \in Requests : Sound(req'[p])
  BY DEF PipeInv, Goto, Sound, At

-----------------------------------------------------------------------------
(* One lemma per action that meters or that matters to Sound               *)

LEMMA ArriveAnonymousKeeps ==
    ASSUME PipeInv, NEW r \in Requests, NEW proc \in Procedures,
           NEW email \in Emails \cup {NoEmail}, ArriveAnonymous(r, proc, email)
    PROVE  PipeInv'
<1>1. PICK peer \in Addresses \cup Proxies, forwarded \in Addresses \cup {NoHeader} :
         /\ (peer \in Proxies) <=> (forwarded # NoHeader)
         /\ req' = [req EXCEPT ![r] =
                      [IdleRequest EXCEPT !.pc = "ip", !.proc = proc, !.email = email,
                                          !.ip = clientIP(peer, forwarded)]]
  BY Zenon DEF ArriveAnonymous
<1> DEFINE q == [IdleRequest EXCEPT !.pc = "ip", !.proc = proc, !.email = email,
                                    !.ip = clientIP(peer, forwarded)]
<1>2. clientIP(peer, forwarded) \in Addresses
  BY <1>1, Zenon DEF clientIP
<1>3. Sound(q)
  BY <1>2, IdleSound, Zenon DEF Sound, IdleRequest
<1>4. DOMAIN req' = Requests /\ \A p \in Requests : Sound(req'[p])
  <2> HIDE DEF q
  <2> QED
    BY <1>1, <1>3, OneRequest, Zenon DEF q
<1>5. RateInv'
  BY Zenon DEF ArriveAnonymous, PipeInv, RateInv
<1> QED
  BY <1>4, <1>5, Zenon DEF PipeInv

LEMMA AllowedKeeps ==
    ASSUME RateInv, NEW b, NEW perMin, NEW passed, Applies(b, perMin),
           Allow(b, perMin, passed)
    PROVE  RateInv'
  BY AllowKeeps, Zenon DEF Allow

LEMMA WrapLimitKeeps ==
    ASSUME PipeInv, NEW r \in Requests, WrapLimit(r)
    PROVE  PipeInv'
<1> DEFINE rule == proceduresWithRateLimit[req[r].proc]
           metered == /\ req[r].proc \in DOMAIN proceduresWithRateLimit
                      /\ rule.perMin > 0
<1>1. PICK passed \in BOOLEAN :
        /\ IF metered THEN Allow(<<rule.kind, req[r].ip>>, rule.perMin, passed)
           ELSE passed /\ UNCHANGED rateVars
        /\ IF passed THEN Goto(r, "email") ELSE Return(r)
  BY Zenon DEF WrapLimit
<1>2. RateInv'
  <2>1. CASE metered
    <3>1. rule \in Rules
      BY <2>1, Zenon DEF Rules
    <3>2. req[r].ip \in Addresses
      BY Zenon DEF WrapLimit, At, PipeInv, Sound
    <3>3. <<rule.kind, req[r].ip>> \in Buckets
      BY <2>1, <3>1, <3>2 DEF Buckets, Metered
    <3>4. Applies(<<rule.kind, req[r].ip>>, rule.perMin)
      BY <2>1, <3>1, <3>3, RuleWithinPromise, Zenon DEF Applies
    <3> QED
      BY <1>1, <2>1, <3>4, AllowedKeeps, Zenon DEF PipeInv
  <2>2. CASE ~metered
    BY <1>1, <2>2, Zenon DEF rateVars, PipeInv, RateInv
  <2> QED
    BY <2>1, <2>2, Zenon
<1>3. DOMAIN req' = Requests /\ \A p \in Requests : Sound(req'[p])
  BY <1>1, GotoSound, ReturnSound, Zenon
<1> QED
  BY <1>2, <1>3, Zenon DEF PipeInv

LEMMA EmailLimitKeeps ==
    ASSUME PipeInv, NEW r \in Requests, EmailLimit(r)
    PROVE  PipeInv'
<1> DEFINE rule == proceduresWithEmailRateLimit[req[r].proc]
           metered == /\ req[r].proc \in DOMAIN proceduresWithEmailRateLimit
                      /\ extractEmail(r) # NoEmail
                      /\ rule.perMin > 0
<1>1. PICK passed \in BOOLEAN :
        /\ IF metered THEN Allow(<<rule.kind, extractEmail(r)>>, rule.perMin, passed)
           ELSE passed /\ UNCHANGED rateVars
        /\ IF ~passed THEN Return(r)
           ELSE Goto(r, IF req[r].proc \in Hashing THEN "gate" ELSE "query")
  BY Zenon DEF EmailLimit
<1>2. RateInv'
  <2>1. CASE metered
    <3>1. rule \in EmailRules
      BY <2>1, Zenon DEF EmailRules
    <3>2. extractEmail(r) \in Emails
      BY <2>1, Zenon DEF PipeInv, Sound, extractEmail
    <3>3. <<rule.kind, extractEmail(r)>> \in Buckets
      BY <2>1, <3>1, <3>2 DEF Buckets, Metered
    <3>4. Applies(<<rule.kind, extractEmail(r)>>, rule.perMin)
      BY <2>1, <3>1, <3>3, RuleWithinPromise, Zenon DEF Applies
    <3> QED
      BY <1>1, <2>1, <3>4, AllowedKeeps, Zenon DEF PipeInv
  <2>2. CASE ~metered
    BY <1>1, <2>2, Zenon DEF rateVars, PipeInv, RateInv
  <2> QED
    BY <2>1, <2>2, Zenon
<1>3. DOMAIN req' = Requests /\ \A p \in Requests : Sound(req'[p])
  BY <1>1, GotoSound, ReturnSound, Zenon
<1> QED
  BY <1>2, <1>3, Zenon DEF PipeInv

LEMMA AppendOrLogKeeps ==
    ASSUME PipeInv, NEW r \in Requests, AppendOrLog(r)
    PROVE  PipeInv'
<1>1. PICK row \in {"written", "failed"} :
        req' = [req EXCEPT ![r].pc = "commit", ![r].row = row]
  BY Zenon DEF AppendOrLog
<1>2. DOMAIN req' = Requests /\ \A p \in Requests : Sound(req'[p])
  BY <1>1 DEF PipeInv, Sound
<1>3. RateInv'
  BY Zenon DEF AppendOrLog, PipeInv, RateInv
<1> QED
  BY <1>2, <1>3, Zenon DEF PipeInv

\* The handler has succeeded and its audit row was dealt with.
LEMMA CommitKeeps ==
    ASSUME PipeInv, NEW r \in Requests, CommitTx(r)
    PROVE  PipeInv'
<1>1. UNCHANGED <<bucket, allowance>>
  BY Zenon DEF CommitTx
<1>2. DOMAIN req' = Requests /\ \A p \in Requests : Sound(req'[p])
  <2>1. CASE Return(r)
    BY <2>1, ReturnSound, Zenon
  <2>2. CASE ~Return(r)
    <3>1. PICK first \in Chunks, second \in Chunks :
             req' = [req EXCEPT ![r].pc = "reply", ![r].rec = Recorded(r, first, second)]
      BY <2>2, Zenon DEF CommitTx
    <3>2. req[r].pc = "commit"
      BY Zenon DEF CommitTx, At
    <3>3. Faithful(Recorded(r, first, second))
      <4>1. Faithful(req[r].rec)
        BY Zenon DEF PipeInv, Sound
      <4> QED
        BY <4>1, WriteFaithful, PipelineAssumption, Zenon DEF Recorded
    <3> HIDE DEF Recorded
    <3> QED
      BY <3>1, <3>2, <3>3 DEF PipeInv, Sound
  <2> QED
    BY <2>1, <2>2, Zenon
<1> QED
  BY <1>1, <1>2, Zenon DEF PipeInv, RateInv

\* The steps that leave the buckets alone and move one request on or end it.
LEMMA PlainStepKeeps ==
    ASSUME PipeInv, NEW r \in Requests,
           \/ Arrive(r) \/ Query(r) \/ Lookup(r) \/ BeginTx(r)
           \/ AcquireArgon2(r) \/ ReleaseArgon2(r) \/ Handler(r)
           \/ CacheResponse(r)
    PROVE  PipeInv'
<1>1. UNCHANGED <<bucket, allowance>>
  BY Zenon DEF Arrive, Query, Lookup, BeginTx, AcquireArgon2, ReleaseArgon2, Handler,
         CacheResponse
<1>2. \/ Return(r)
      \/ \E pc \in {"auth", "lookup", "begin", "gate", "handler", "hash", "append"} :
           Goto(r, pc)
  BY Zenon DEF Arrive, Query, Lookup, BeginTx, AcquireArgon2, ReleaseArgon2, Handler,
         CacheResponse
<1>3. DOMAIN req' = Requests /\ \A p \in Requests : Sound(req'[p])
  BY <1>2, GotoSound, ReturnSound, Zenon
<1> QED
  BY <1>1, <1>3, Zenon DEF PipeInv, RateInv

LEMMA NextKeeps ==
    ASSUME PipeInv, [Next]_vars
    PROVE  PipeInv'
<1>1. ASSUME NEW r \in Requests, Arrive(r) PROVE PipeInv'
  BY <1>1, PlainStepKeeps, Zenon
<1>2. ASSUME NEW r \in Requests, NEW proc \in Procedures,
             NEW email \in Emails \cup {NoEmail}, ArriveAnonymous(r, proc, email)
      PROVE  PipeInv'
  BY <1>2, ArriveAnonymousKeeps, Zenon
<1>3. ASSUME NEW r \in Requests, RequestStep(r) PROVE PipeInv'
  BY <1>3, PlainStepKeeps, WrapLimitKeeps, EmailLimitKeeps, AppendOrLogKeeps,
     CommitKeeps, Zenon
     DEF RequestStep
<1>4. ASSUME NEW r \in Requests, ContextDone(r) PROVE PipeInv'
  BY <1>4 DEF ContextDone, PipeInv, RateInv, Sound
<1>5. CASE Crash
  <2>1. \A p \in Requests : req'[p] = IdleRequest
    BY <1>5, Zenon DEF Crash
  <2> QED
    BY <1>5, <2>1, IdleSound, Zenon DEF Crash, PipeInv, RateInv
<1>6. CASE Clock
  <2>1. RateInv'
    BY <1>6, TickKeeps, GCKeeps, Zenon DEF Clock, PipeInv
  <2> QED
    BY <1>6, <2>1, Zenon DEF Clock, PipeInv
<1>7. CASE UNCHANGED vars
  BY <1>7, Zenon DEF vars, PipeInv, RateInv
<1> QED
  BY <1>1, <1>2, <1>3, <1>4, <1>5, <1>6, <1>7, Zenon DEF Next

\* The limits hold for the requests of the server, in whatever order they pass
\* Wrap and the e-mail interceptor, across restarts of the process.
THEOREM RateCorrect == Spec => []WindowBound
<1>1. Init => PipeInv
  BY PipeInitInv, Zenon
<1>2. PipeInv /\ [Next]_vars => PipeInv'
  BY NextKeeps, Zenon
<1>3. PipeInv => WindowBound
  BY RateInvBounds, Zenon DEF PipeInv
<1> QED
  BY <1>1, <1>2, <1>3, PTL DEF Spec

\* No request reaches the response cache, hence commits, before the audit
\* interceptor has dealt with its row.
THEOREM AuditOrderCorrect == Spec => []AuditedBeforeCommit
<1>1. Init => PipeInv
  BY PipeInitInv, Zenon
<1>2. PipeInv /\ [Next]_vars => PipeInv'
  BY NextKeeps, Zenon
<1>3. PipeInv => AuditedBeforeCommit
  BY Zenon DEF PipeInv, Sound, AuditedBeforeCommit, At
<1> QED
  BY <1>1, <1>2, <1>3, PTL DEF Spec

\* What is kept of a response and given to a retry is the response: all of the
\* body and the two headers, wherever the buffer's limit falls between the
\* chunks.
THEOREM ReplayCorrect == Spec => []ReplayedAsSent
<1>1. Init => PipeInv
  BY PipeInitInv, Zenon
<1>2. PipeInv /\ [Next]_vars => PipeInv'
  BY NextKeeps, Zenon
<1>3. PipeInv => ReplayedAsSent
  <2> SUFFICES ASSUME PipeInv, NEW r \in Mutations, ~req[r].rec.truncated,
                      NEW h \in Headers, NEW t, h["Content-Type"] # ""
               PROVE  replay(frameResponse(h, req[r].rec.buf), t)
                        = [header |-> h, body |-> req[r].rec.whole]
    BY Zenon DEF ReplayedAsSent
  <2>1. r \in Requests
    BY Zenon DEF Requests
  <2>2. req[r].rec.buf = req[r].rec.whole
    BY <2>1, Zenon DEF PipeInv, Sound, Faithful
  <2> QED
    BY <2>2, Replays, Zenon
<1> QED
  BY <1>1, <1>2, <1>3, PTL DEF Spec

-----------------------------------------------------------------------------
(* The server's requests use the limiter as RateSpec says                  *)

\* A rule is only asked for the buckets of its kind.
LEMMA AllowIsRateStep ==
    ASSUME NEW b \in Buckets, NEW rule \in Metered(Rules \cup EmailRules),
           b[1] = rule.kind, NEW passed, Allow(b, rule.perMin, passed)
    PROVE  RateNext
  BY Zenon DEF Allow, RateNext

LEMMA WrapLimitIsRateStep ==
    ASSUME PipeInv, NEW r \in Requests, WrapLimit(r)
    PROVE  [RateNext]_rateVars
<1> DEFINE rule == proceduresWithRateLimit[req[r].proc]
           metered == /\ req[r].proc \in DOMAIN proceduresWithRateLimit
                      /\ rule.perMin > 0
<1>1. PICK passed \in BOOLEAN :
        IF metered THEN Allow(<<rule.kind, req[r].ip>>, rule.perMin, passed)
        ELSE passed /\ UNCHANGED rateVars
  BY Zenon DEF WrapLimit
<1>2. CASE metered
  <2>1. rule \in Metered(Rules)
    BY <1>2, Zenon DEF Rules, Metered
  <2>2. req[r].ip \in Addresses
    BY Zenon DEF WrapLimit, At, PipeInv, Sound
  <2>3. <<rule.kind, req[r].ip>> \in Buckets
    BY <2>1, <2>2 DEF Buckets
  <2>4. rule \in Metered(Rules \cup EmailRules)
    BY <2>1, Zenon DEF Metered
  <2> QED
    BY <1>1, <1>2, <2>3, <2>4, AllowIsRateStep, Zenon
<1>3. CASE ~metered
  BY <1>1, <1>3, Zenon
<1> QED
  BY <1>2, <1>3, Zenon

LEMMA EmailLimitIsRateStep ==
    ASSUME PipeInv, NEW r \in Requests, EmailLimit(r)
    PROVE  [RateNext]_rateVars
<1> DEFINE rule == proceduresWithEmailRateLimit[req[r].proc]
           metered == /\ req[r].proc \in DOMAIN proceduresWithEmailRateLimit
                      /\ extractEmail(r) # NoEmail
                      /\ rule.perMin > 0
<1>1. PICK passed \in BOOLEAN :
        IF metered THEN Allow(<<rule.kind, extractEmail(r)>>, rule.perMin, passed)
        ELSE passed /\ UNCHANGED rateVars
  BY Zenon DEF EmailLimit
<1>2. CASE metered
  <2>1. rule \in Metered(EmailRules)
    BY <1>2, Zenon DEF EmailRules, Metered
  <2>2. extractEmail(r) \in Emails
    BY <1>2, Zenon DEF PipeInv, Sound, extractEmail
  <2>3. <<rule.kind, extractEmail(r)>> \in Buckets
    BY <2>1, <2>2 DEF Buckets
  <2>4. rule \in Metered(Rules \cup EmailRules)
    BY <2>1, Zenon DEF Metered
  <2> QED
    BY <1>1, <1>2, <2>3, <2>4, AllowIsRateStep, Zenon
<1>3. CASE ~metered
  BY <1>1, <1>3, Zenon
<1> QED
  BY <1>2, <1>3, Zenon

\* Pipeline implements the limiter's specification: Wrap and the e-mail
\* interceptor ask every bucket only under the rules of its kind, nothing else
\* touches the buckets, and a restart of the process leaves them alone.
THEOREM PipelineImplementsRateLimit == Spec => RateSpec
<1>1. Init => RateInit /\ PipeInv
  BY PipeInitInv, Zenon DEF Init
<1>2. PipeInv /\ [Next]_vars => PipeInv'
  BY NextKeeps, Zenon
<1>3. PipeInv /\ [Next]_vars => [RateNext]_rateVars
  <2> SUFFICES ASSUME PipeInv, [Next]_vars PROVE [RateNext]_rateVars
    BY Zenon
  <2>1. ASSUME NEW r \in Requests, RequestStep(r) PROVE [RateNext]_rateVars
    <3>1. CASE WrapLimit(r) \/ EmailLimit(r)
      BY <3>1, WrapLimitIsRateStep, EmailLimitIsRateStep, Zenon
    <3>2. CASE ~(WrapLimit(r) \/ EmailLimit(r))
      BY <2>1, <3>2, Zenon DEF RequestStep, Query, Lookup, BeginTx, AcquireArgon2,
         ReleaseArgon2, Handler, AppendOrLog, CommitTx, CacheResponse, rateVars
    <3> QED
      BY <3>1, <3>2, Zenon
  <2>2. ASSUME NEW r \in Requests, NEW proc \in Procedures,
               NEW email \in Emails \cup {NoEmail},
               ArriveAnonymous(r, proc, email)
        PROVE  UNCHANGED rateVars
    BY <2>2, Zenon DEF ArriveAnonymous, rateVars
  <2>3. ASSUME NEW r \in Requests, Arrive(r) \/ ContextDone(r)
        PROVE  UNCHANGED rateVars
    BY <2>3, Zenon DEF Arrive, ContextDone, rateVars
  <2>4. CASE Crash \/ UNCHANGED vars
    BY <2>4, Zenon DEF Crash, vars, rateVars
  <2>5. CASE Clock
    BY <2>5, Zenon DEF Clock, RateNext
  <2> QED
    BY <2>1, <2>2, <2>3, <2>4, <2>5, Zenon DEF Next
<1> QED
  BY <1>1, <1>2, <1>3, PTL DEF Spec, RateSpec

-----------------------------------------------------------------------------
(* The permits of the gate and the connections of the pool                 *)

Hashers == {r \in Requests : At(r, "hash")}

\* The gate: no more hashes are computed at a time than SetArgon2Concurrency
\* set, and whichever way a request ends, its permit has been given back.
PermitsKept == sem \in Nat /\ sem + Cardinality(Hashers) = Permits

\* The pool: no more requests hold the connection of a transaction than there
\* are connections.
PoolKept == Cardinality(InTx) <= PoolSize

\* Who can be where.  Only a Confirmed request meets the gate in a transaction.
Placed(r, pc) ==
    /\ pc \in {"ip", "email", "query"} => r \in Anonymous
    /\ pc \in {"gate", "hash"} => r \in Anonymous \cup Confirmed
    /\ pc \in {"auth", "lookup", "begin", "handler", "append", "commit", "reply"} =>
         r \notin Anonymous

ResourceInv ==
    /\ DOMAIN req = Requests
    /\ \A r \in Requests : Placed(r, req[r].pc)
    /\ PermitsKept
    /\ PoolKept

\* InTx, by the place of a request.
Holding(r, pc) == \/ pc \in {"handler", "append", "commit"}
                  \/ r \in Confirmed /\ pc \in {"gate", "hash"}

\* A step of one request, to pc.
Moved(r, pc) ==
    /\ DOMAIN req' = Requests
    /\ req'[r].pc = pc
    /\ \A p \in Requests \ {r} : req'[p] = req[p]

LEMMA FinitelyMany ==
    /\ IsFiniteSet(Hashers) /\ IsFiniteSet(InTx)
    /\ Cardinality(Hashers) \in Nat /\ Cardinality(InTx) \in Nat
<1>1. IsFiniteSet(Requests)
  BY PipelineAssumption, FS_Union, Zenon DEF Requests
<1>2. Hashers \subseteq Requests /\ InTx \subseteq Requests
  BY Zenon DEF Hashers, InTx
<1> QED
  BY <1>1, <1>2, FS_Subset, FS_CardinalityType, Zenon

LEMMA Moves ==
    ASSUME ResourceInv, NEW r \in Requests
    PROVE  /\ Return(r) => Moved(r, "idle")
           /\ \A pc : Goto(r, pc) => Moved(r, pc)
<1>1. DOMAIN req = Requests
  BY Zenon DEF ResourceInv
<1>2. Return(r) => Moved(r, "idle")
  BY <1>1 DEF Return, Moved, IdleRequest
<1>3. ASSUME NEW pc, Goto(r, pc) PROVE Moved(r, pc)
  BY <1>1, <1>3 DEF Goto, Moved
<1> QED
  BY <1>2, <1>3, Zenon

\* The permits stay accounted for when a request moves from one place outside
\* the gate to another, enters with one permit less or leaves with one more.
LEMMA PermitsMove ==
    ASSUME ResourceInv, NEW r \in Requests, NEW pc, Moved(r, pc),
           \/ req[r].pc # "hash" /\ pc # "hash" /\ sem' = sem
           \/ req[r].pc = "hash" /\ pc = "hash" /\ sem' = sem
           \/ req[r].pc # "hash" /\ pc = "hash" /\ sem > 0 /\ sem' = sem - 1
           \/ req[r].pc = "hash" /\ pc # "hash" /\ sem' = sem + 1
    PROVE  PermitsKept'
<1>1. \A p \in Requests \ {r} : p \in Hashers' <=> p \in Hashers
  BY Zenon DEF Moved, Hashers, At
<1>2. (r \in Hashers <=> req[r].pc = "hash") /\ (r \in Hashers' <=> pc = "hash")
  BY Zenon DEF Moved, Hashers, At
<1>3. Hashers \subseteq Requests /\ Hashers' \subseteq Requests
  BY Zenon DEF Hashers
<1>4. /\ IsFiniteSet(Hashers) /\ Cardinality(Hashers) \in Nat
      /\ sem \in Nat /\ sem + Cardinality(Hashers) = Permits
  BY FinitelyMany, Zenon DEF ResourceInv, PermitsKept
<1>5. CASE (req[r].pc = "hash") = (pc = "hash") /\ sem' = sem
  <2>1. Hashers' = Hashers
    BY <1>1, <1>2, <1>3, <1>5
  <2> QED
    BY <2>1, <1>4, <1>5, Zenon DEF PermitsKept
<1>6. CASE req[r].pc # "hash" /\ pc = "hash" /\ sem > 0 /\ sem' = sem - 1
  <2>1. Hashers' = Hashers \cup {r} /\ r \notin Hashers
    BY <1>1, <1>2, <1>3, <1>6, Zenon
  <2>2. Cardinality(Hashers \cup {r}) = Cardinality(Hashers) + 1
    BY <2>1, <1>4, FS_AddElement, Zenon
  <2>3. Cardinality(Hashers') = Cardinality(Hashers) + 1
    BY <2>1, <2>2, Zenon
  <2> QED
    BY <2>3, <1>4, <1>6 DEF PermitsKept
<1>7. CASE req[r].pc = "hash" /\ pc # "hash" /\ sem' = sem + 1
  <2>1. Hashers' = Hashers \ {r} /\ r \in Hashers
    BY <1>1, <1>2, <1>3, <1>7, Zenon
  <2>2. Cardinality(Hashers \ {r}) = Cardinality(Hashers) - 1
    BY <2>1, <1>4, FS_RemoveElement, Zenon
  <2>3. Cardinality(Hashers') = Cardinality(Hashers) - 1
    BY <2>1, <2>2, Zenon
  <2> QED
    BY <2>3, <1>4, <1>7 DEF PermitsKept
<1> QED
  BY <1>5, <1>6, <1>7, Zenon

\* A request takes a connection for its transaction only when one is free.
LEMMA PoolMove ==
    ASSUME ResourceInv, NEW r \in Requests, NEW pc, Moved(r, pc),
           Holding(r, pc) => Holding(r, req[r].pc) \/ FreeConn
    PROVE  PoolKept'
<1>1. \A p \in Requests \ {r} : p \in InTx' <=> p \in InTx
  BY Zenon DEF Moved, InTx
<1>2. (r \in InTx <=> Holding(r, req[r].pc)) /\ (r \in InTx' <=> Holding(r, pc))
  BY Zenon DEF Moved, InTx, Holding
<1>3. InTx \subseteq Requests /\ InTx' \subseteq Requests
  BY Zenon DEF InTx
<1>4. /\ IsFiniteSet(InTx) /\ Cardinality(InTx) \in Nat /\ PoolSize \in Nat
      /\ Cardinality(InTx) <= PoolSize
  BY FinitelyMany, PipelineAssumption, Zenon DEF ResourceInv, PoolKept
<1>5. CASE InTx' \subseteq InTx
  <2>1. Cardinality(InTx') <= Cardinality(InTx) /\ Cardinality(InTx') \in Nat
    BY <1>4, <1>5, FS_Subset, FS_CardinalityType, Zenon
  <2> QED
    BY <2>1, <1>4 DEF PoolKept
<1>6. CASE ~(InTx' \subseteq InTx)
  <2>1. r \in InTx' /\ r \notin InTx /\ InTx' = InTx \cup {r}
    BY <1>1, <1>2, <1>3, <1>6, Zenon
  <2>2. FreeConn
    BY <2>1, <1>2, Zenon
  <2>3. Cardinality(InTx \cup {r}) = Cardinality(InTx) + 1
    BY <2>1, <1>4, FS_AddElement, Zenon
  <2>4. Cardinality(InTx') = Cardinality(InTx) + 1
    BY <2>1, <2>3, Zenon
  <2> QED
    BY <2>2, <2>4, <1>4 DEF FreeConn, PoolKept
<1> QED
  BY <1>5, <1>6, Zenon

LEMMA PlacesMove ==
    ASSUME ResourceInv, NEW r \in Requests, NEW pc, Moved(r, pc), Placed(r, pc)
    PROVE  DOMAIN req' = Requests /\ \A p \in Requests : Placed(p, req'[p].pc)
  BY Zenon DEF ResourceInv, Moved

\* A step of a request that neither enters nor leaves the gate.
Plainly(r, pc) ==
    /\ Moved(r, pc)
    /\ Placed(r, pc)
    /\ req[r].pc = pc \/ (req[r].pc # "hash" /\ pc # "hash")
    /\ Holding(r, pc) => Holding(r, req[r].pc) \/ FreeConn
    /\ sem' = sem

LEMMA PlainlyKeeps ==
    ASSUME ResourceInv, NEW r \in Requests, NEW pc, Plainly(r, pc)
    PROVE  ResourceInv'
<1>1. PermitsKept'
  BY PermitsMove, Zenon DEF Plainly
<1>2. PoolKept'
  BY PoolMove, Zenon DEF Plainly
<1> QED
  BY <1>1, <1>2, PlacesMove, Zenon DEF Plainly, ResourceInv

-----------------------------------------------------------------------------
(* One lemma per group of actions                                          *)

LEMMA ReturnPlainly ==
    ASSUME ResourceInv, NEW r \in Requests, Return(r), req[r].pc # "hash", sem' = sem
    PROVE  Plainly(r, "idle")
  BY Moves, Zenon DEF Plainly, Placed, Holding

LEMMA ArrivalsKeepResources ==
    ASSUME ResourceInv, NEW r \in Requests,
           \/ Arrive(r)
           \/ \E proc, email : ArriveAnonymous(r, proc, email)
    PROVE  ResourceInv'
<1>1. CASE Arrive(r)
  <2>1. Moved(r, "auth") /\ sem' = sem /\ req[r].pc = "idle" /\ r \notin Anonymous
    BY <1>1, Moves, Zenon DEF Arrive, At
  <2>2. Plainly(r, "auth")
    BY <2>1, Zenon DEF Plainly, Placed, Holding
  <2> QED
    BY <2>2, PlainlyKeeps, Zenon
<1>2. CASE \E proc, email : ArriveAnonymous(r, proc, email)
  <2>1. PICK proc, email : ArriveAnonymous(r, proc, email)
    BY <1>2, Zenon
  <2>2. PICK ip : req' = [req EXCEPT ![r] =
             [IdleRequest EXCEPT !.pc = "ip", !.proc = proc, !.email = email, !.ip = ip]]
    BY <2>1, Zenon DEF ArriveAnonymous
  <2>3. Moved(r, "ip")
    BY <2>2, Zenon DEF Moved, IdleRequest, ResourceInv
  <2>4. sem' = sem /\ req[r].pc = "idle" /\ r \in Anonymous
    BY <2>1, Zenon DEF ArriveAnonymous, At
  <2>5. Plainly(r, "ip")
    BY <2>3, <2>4, Zenon DEF Plainly, Placed, Holding
  <2> QED
    BY <2>5, PlainlyKeeps, Zenon
<1> QED
  BY <1>1, <1>2, Zenon

LEMMA LimitsKeepResources ==
    ASSUME ResourceInv, NEW r \in Requests, WrapLimit(r) \/ EmailLimit(r)
    PROVE  ResourceInv'
<1>1. req[r].pc \in {"ip", "email"} /\ r \in Anonymous /\ sem' = sem
  BY Zenon DEF WrapLimit, EmailLimit, At, ResourceInv, Placed
<1>2. Return(r) \/ Goto(r, "email") \/ Goto(r, "gate") \/ Goto(r, "query")
  BY Zenon DEF WrapLimit, EmailLimit
<1>3. r \notin Confirmed
  BY <1>1, PipelineAssumption, Zenon
<1>4. \E pc \in {"idle", "email", "gate", "query"} : Moved(r, pc)
  BY <1>2, Moves, Zenon
<1>5. \E pc \in {"idle", "email", "gate", "query"} : Plainly(r, pc)
  BY <1>1, <1>3, <1>4, Zenon DEF Plainly, Placed, Holding
<1> QED
  BY <1>5, PlainlyKeeps, Zenon

LEMMA WayInKeepsResources ==
    ASSUME ResourceInv, NEW r \in Requests, Query(r) \/ Lookup(r) \/ BeginTx(r)
    PROVE  ResourceInv'
<1>1. sem' = sem /\ req[r].pc \in {"query", "auth", "lookup", "begin"}
  BY Zenon DEF Query, Lookup, BeginTx, At
<1>2. CASE Return(r)
  BY <1>1, <1>2, ReturnPlainly, PlainlyKeeps, Zenon
<1>3. CASE ~Return(r)
  <2>1. r \notin Anonymous /\ FreeConn
    BY <1>3, Zenon DEF Query, Lookup, BeginTx, At, ResourceInv, Placed
  <2>2. \/ Goto(r, "lookup") \/ Goto(r, "begin") \/ Goto(r, "handler")
        \/ r \in Confirmed /\ Goto(r, "gate")
    BY <1>3, Zenon DEF Query, Lookup, BeginTx
  <2>3. \/ \E pc \in {"lookup", "begin", "handler"} : Moved(r, pc)
        \/ r \in Confirmed /\ Moved(r, "gate")
    BY <2>2, Moves, Zenon
  <2>4. \E pc \in {"lookup", "begin", "handler", "gate"} : Plainly(r, pc)
    BY <1>1, <2>1, <2>3, Zenon DEF Plainly, Placed, Holding
  <2> QED
    BY <2>4, PlainlyKeeps, Zenon
<1> QED
  BY <1>2, <1>3, Zenon

\* The permit that is taken at the gate is given back on both ways out.
LEMMA GateKeepsResources ==
    ASSUME ResourceInv, NEW r \in Requests, AcquireArgon2(r) \/ ReleaseArgon2(r)
    PROVE  ResourceInv'
<1>1. CASE AcquireArgon2(r)
  <2>1. Moved(r, "hash") /\ req[r].pc = "gate" /\ sem > 0 /\ sem' = sem - 1
    BY <1>1, Moves, Zenon DEF AcquireArgon2, At
  <2>2. PermitsKept'
    BY <2>1, PermitsMove, Zenon
  <2>3. PoolKept'
    BY <2>1, PoolMove, Zenon DEF Holding
  <2>4. Placed(r, "hash")
    BY <2>1, Zenon DEF ResourceInv, Placed
  <2> QED
    BY <2>1, <2>2, <2>3, <2>4, PlacesMove, Zenon DEF ResourceInv
<1>2. CASE ReleaseArgon2(r)
  <2>1. req[r].pc = "hash" /\ sem' = sem + 1 /\ r \in Anonymous \cup Confirmed
    BY <1>2, Zenon DEF ReleaseArgon2, At, ResourceInv, Placed
  <2>2. Moved(r, "idle") \/ (r \notin Anonymous /\ Moved(r, "handler"))
    BY <1>2, Moves, Zenon DEF ReleaseArgon2
  <2>3. PICK pc \in {"idle", "handler"} :
          Moved(r, pc) /\ (pc = "handler" => r \notin Anonymous)
    BY <2>2, Zenon
  <2>4. PermitsKept'
    BY <2>1, <2>3, PermitsMove, Zenon
  <2>5. PoolKept'
    BY <2>1, <2>3, PoolMove, Zenon DEF Holding
  <2>6. Placed(r, pc)
    BY <2>3, Zenon DEF Placed
  <2> QED
    BY <2>3, <2>4, <2>5, <2>6, PlacesMove, Zenon DEF ResourceInv
<1> QED
  BY <1>1, <1>2, Zenon

LEMMA WayBackKeepsResources ==
    ASSUME ResourceInv, NEW r \in Requests,
           Handler(r) \/ AppendOrLog(r) \/ CommitTx(r) \/ CacheResponse(r)
    PROVE  ResourceInv'
<1>1. /\ sem' = sem /\ req[r].pc \in {"handler", "append", "commit", "reply"}
      /\ r \notin Anonymous
  BY Zenon DEF Handler, AppendOrLog, CommitTx, CacheResponse, At, ResourceInv, Placed
<1>2. CASE Return(r)
  BY <1>1, <1>2, ReturnPlainly, PlainlyKeeps, Zenon
<1>3. CASE Handler(r) /\ ~Return(r)
  <2>1. Moved(r, "append") /\ req[r].pc = "handler"
    BY <1>3, Moves, Zenon DEF Handler, At
  <2>2. Plainly(r, "append")
    BY <1>1, <2>1, Zenon DEF Plainly, Placed, Holding
  <2> QED
    BY <2>2, PlainlyKeeps, Zenon
<1>4. CASE AppendOrLog(r)
  <2>1. PICK row : req' = [req EXCEPT ![r].pc = "commit", ![r].row = row]
    BY <1>4, Zenon DEF AppendOrLog
  <2>2. Moved(r, "commit")
    BY <2>1 DEF Moved, ResourceInv
  <2>3. req[r].pc = "append"
    BY <1>4, Zenon DEF AppendOrLog, At
  <2>4. Plainly(r, "commit")
    BY <1>1, <2>2, <2>3, Zenon DEF Plainly, Placed, Holding
  <2> QED
    BY <2>4, PlainlyKeeps, Zenon
<1>5. CASE CommitTx(r) /\ ~Return(r)
  <2>1. PICK rec : req' = [req EXCEPT ![r].pc = "reply", ![r].rec = rec]
    BY <1>5, Zenon DEF CommitTx
  <2>2. Moved(r, "reply")
    BY <2>1 DEF Moved, ResourceInv
  <2>3. Plainly(r, "reply")
    BY <1>1, <2>2, Zenon DEF Plainly, Placed, Holding
  <2> QED
    BY <2>3, PlainlyKeeps, Zenon
<1> QED
  BY <1>2, <1>3, <1>4, <1>5, Zenon DEF CacheResponse

LEMMA ResourcesInit ==
    ASSUME Init
    PROVE  ResourceInv
<1>1. \A r \in Requests : req[r].pc = "idle"
  BY Zenon DEF Init, IdleRequest
<1>2. Hashers = {} /\ InTx = {}
  BY <1>1, Zenon DEF Hashers, InTx, At
<1>3. Cardinality(Hashers) = 0 /\ Cardinality(InTx) = 0
  BY <1>2, FS_EmptySet, Zenon
<1>4. PermitsKept /\ PoolKept
  BY <1>3, PipelineAssumption DEF Init, PermitsKept, PoolKept
<1> QED
  BY <1>1, <1>4, Zenon DEF Init, ResourceInv, Placed

LEMMA ResourcesStay ==
    ASSUME ResourceInv, UNCHANGED <<sem, req>>
    PROVE  ResourceInv'
  BY Zenon DEF ResourceInv, PermitsKept, PoolKept, Hashers, InTx, At

LEMMA NextKeepsResources ==
    ASSUME ResourceInv, [Next]_vars
    PROVE  ResourceInv'
<1>1. ASSUME NEW r \in Requests, RequestStep(r) PROVE ResourceInv'
  BY <1>1, LimitsKeepResources, WayInKeepsResources, GateKeepsResources,
     WayBackKeepsResources, Zenon
     DEF RequestStep
<1>2. ASSUME NEW r \in Requests, ContextDone(r) PROVE ResourceInv'
  <2>1. Moved(r, req[r].pc) /\ sem' = sem
    BY <1>2 DEF ContextDone, Moved, ResourceInv
  <2>2. Plainly(r, req[r].pc)
    BY <2>1, Zenon DEF Plainly, ResourceInv
  <2> QED
    BY <2>2, PlainlyKeeps, Zenon
<1>3. CASE Crash
  <2>1. DOMAIN req' = Requests /\ \A r \in Requests : req'[r].pc = "idle"
    BY <1>3, Zenon DEF Crash, IdleRequest
  <2>2. Hashers' = {} /\ InTx' = {}
    BY <2>1, Zenon DEF Hashers, InTx, At
  <2>3. Cardinality(Hashers') = 0 /\ Cardinality(InTx') = 0
    BY <2>2, FS_EmptySet, Zenon
  <2>4. PermitsKept' /\ PoolKept'
    BY <1>3, <2>3, PipelineAssumption DEF Crash, PermitsKept, PoolKept
  <2> QED
    BY <2>1, <2>4, Zenon DEF ResourceInv, Placed
<1>4. CASE Clock
  BY <1>4, ResourcesStay, Zenon DEF Clock
<1>5. CASE UNCHANGED vars
  BY <1>5, ResourcesStay, Zenon DEF vars
<1> QED
  BY <1>1, <1>2, <1>3, <1>4, <1>5, ArrivalsKeepResources, Zenon DEF Next

\* Never are more hashes computed at a time than there are permits, and no
\* permit is lost: a wrong secret, a right one, an ended context and a restart
\* all give it back.  Nor do requests ever hold more connections than the pool
\* has, for any mix of requests.
THEOREM ResourcesCorrect == Spec => [](PermitsKept /\ PoolKept)
<1>1. Init => ResourceInv
  BY ResourcesInit, Zenon
<1>2. ResourceInv /\ [Next]_vars => ResourceInv'
  BY NextKeepsResources, Zenon
<1>3. ResourceInv => PermitsKept /\ PoolKept
  BY Zenon DEF ResourceInv
<1> QED
  BY <1>1, <1>2, <1>3, PTL DEF Spec
=============================================================================
