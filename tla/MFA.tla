-------------------------------- MODULE MFA ---------------------------------
(***************************************************************************)
(* The second factor of one user: Authorize after the password matched,    *)
(* CompleteMFA and handleMFAFailure (internal/api/auth/service.go) over    *)
(* the challenge store (internal/auth/mfa_store.go), the login-TOTP        *)
(* handlers (internal/api/login_totp/service.go), enrolment and removal of *)
(* passkeys (internal/api/webauthn/service.go) and the part of a           *)
(* master-password rotation that re-seals the TOTP secret.                 *)
(*                                                                         *)
(* Each database statement is a step of its own; requests interleave       *)
(* between them.  A TOTP code or a WebAuthn assertion is right or wrong by *)
(* choice.  The login-TOTP secret is sealed under a key derived from the   *)
(* auth key, so it opens only under the password version it was sealed by. *)
(* A login challenge carries the auth key sealed under the process's MFAKEK *)
(* (internal/auth/mfa_kek.go), which a restart may replace.                *)
(***************************************************************************)
EXTENDS Integers, Sequences, FiniteSets

CONSTANTS
    Requests,        \* requests that may be in progress at once
    MaxFailed,       \* MaxMFAFailedAttempts (5 in the code)
    MaxChallenges,   \* bound on challenges ever created
    MaxPw,           \* bound on password versions
    MaxLost,         \* bound on failures of the attempt counter
    MaxKeys          \* bound on process keys

ASSUME ConstantsAssumption ==
    /\ IsFiniteSet(Requests)
    /\ MaxFailed \in Nat \ {0}
    /\ MaxChallenges \in Nat
    /\ MaxPw \in Nat \ {0}
    /\ MaxLost \in Nat
    /\ MaxKeys \in Nat \ {0}

VARIABLES
    pwVer,    \* version of user_auth.auth_key_hash
    totp,     \* the row of user_login_totp
    passkey,  \* whether user_webauthn_credentials has a row
    chal,     \* mfa_challenges, by order of creation
    kek,      \* the key of the running process
    req       \* per request

vars == <<pwVer, totp, passkey, chal, kek, req>>

\* key: the password version the secret is sealed under.  late is history for
\* the properties: the row was written by a request that had checked the auth
\* key before a rotation and wrote after it.
TotpRow == [row : BOOLEAN, enabled : BOOLEAN, key : Nat, late : BOOLEAN]
NoTotp == [row |-> FALSE, enabled |-> FALSE, key |-> 0, late |-> FALSE]
TotpOn == totp.enabled

\* seal: the process key the auth key is sealed under (0: there is none).
\* guesses, lost and uses are history for the properties: wrong codes
\* evaluated, failed attempts the counter missed, operations granted.
Challenge == [pw : Nat, seal : Nat, totp : BOOLEAN, wa : BOOLEAN, failed : Nat,
              st : {"open", "expired", "gone"},
              guesses : Nat, lost : Nat, uses : Nat]

Factors == {"totp", "wa"}

\* armedT, armedW: the factor has been on since the request began; blind: one
\* of its reads of the factors failed.
Request == [pc : {"idle", "readTotp", "countPasskeys", "put", "issue",
                  "check", "record", "burn", "take",
                  "setup", "enableRead", "enable", "disableRead",
                  "disableAssert", "disable", "register", "remove",
                  "rotate"},
            ch : Nat, key : Nat, factor : Factors,
            sawT : BOOLEAN, sawW : BOOLEAN,
            armedT : BOOLEAN, armedW : BOOLEAN, blind : BOOLEAN]

IdleRequest == [pc |-> "idle", ch |-> 0, key |-> 0, factor |-> "totp",
                sawT |-> FALSE, sawW |-> FALSE,
                armedT |-> FALSE, armedW |-> FALSE, blind |-> FALSE]

TypeOK ==
    /\ pwVer \in Nat
    /\ totp \in TotpRow
    /\ passkey \in BOOLEAN
    /\ chal \in Seq(Challenge)
    /\ kek \in Nat \ {0}
    /\ req \in [Requests -> Request]

\* The account may already have a passkey.
Init ==
    /\ pwVer = 1
    /\ totp = NoTotp
    /\ passkey \in BOOLEAN
    /\ chal = <<>>
    /\ kek = 1
    /\ req = [r \in Requests |-> IdleRequest]

\* armedT and armedW after a step that may switch a factor off.
Observed(rq) ==
    [q \in Requests |-> [rq[q] EXCEPT !.armedT = @ /\ totp'.enabled,
                                      !.armedW = @ /\ passkey']]

Goto(r, pc) == req' = [req EXCEPT ![r].pc = pc]
Return(r) == req' = [req EXCEPT ![r] = IdleRequest]

-----------------------------------------------------------------------------
(* Statements on mfa_challenges and user_login_totp, as the table they     *)
(* leave, and the sealing of a challenge's auth key                        *)

\* Seal and Open; registrations and re-authentications carry no auth key.
Seal(pw) == IF pw = 0 THEN 0 ELSE kek
Opens(c) == c.seal \in {0, kek}

InsertMFAChallenge(pw, needTotp, needWa) ==
    Append(chal, [pw |-> pw, seal |-> Seal(pw), totp |-> needTotp, wa |-> needWa,
                  failed |-> 0, st |-> "open", guesses |-> 0, lost |-> 0,
                  uses |-> 0])

\* GetMFAChallenge finds expired rows too.
GetMFAChallenge(c) == chal[c].st # "gone"

IncrementMFAFailedAttempts(c) == [chal EXCEPT ![c].failed = @ + 1]

DeleteMFAChallenge(c) == [chal EXCEPT ![c].st = "gone"]

\* DELETE ... RETURNING: the row that is deleted, expired or not, and what is
\* left; no row for whoever comes second.
TakeMFAChallenge(c) ==
    [row  |-> {chal[k] : k \in {k \in {c} : chal[k].st # "gone"}},
     left |-> DeleteMFAChallenge(c)]

\* The user's credentials, as far as anyone asks: none or some.
CountWebAuthnCredentials == IF passkey THEN 1 ELSE 0
ListWebAuthnCredentials == passkey

\* A credential whose assertion validated is looked up by its id, and its
\* sign count and last use are stamped.  It may be gone by then.
GetWebAuthnCredentialByCredID == passkey

UpsertUserLoginTOTP(on, key, isLate) ==
    [row |-> TRUE, enabled |-> on, key |-> key, late |-> isLate]

\* OpenLoginTOTPSecret: the row's envelope opens under a derived key.
OpenLoginTOTPSecret(key) == totp.key = key

-----------------------------------------------------------------------------
(* Authorize, from the moment the presented auth key matched               *)

AuthorizeVerified(r) ==
    /\ req[r].pc = "idle"
    /\ req' = [req EXCEPT ![r] =
                 [IdleRequest EXCEPT !.pc = "readTotp", !.key = pwVer,
                                     !.armedT = TotpOn, !.armedW = passkey]]
    /\ UNCHANGED <<pwVer, totp, passkey, chal, kek>>

\* GetUserLoginTOTP; any error reads as "not enabled".
AuthorizeReadTotp(r) ==
    /\ req[r].pc = "readTotp"
    /\ \E fails \in BOOLEAN :
         req' = [req EXCEPT ![r].pc = "countPasskeys", ![r].blind = fails,
                            ![r].sawT = TotpOn /\ ~fails]
    /\ UNCHANGED <<pwVer, totp, passkey, chal, kek>>

\* Variant: a challenge only when both factors are on.
NeedsFactorBoth(sawT, sawW) == sawT /\ sawW

NeedsFactor(sawT, sawW) == sawT \/ sawW

\* CountWebAuthnCredentials; any error leaves the count at zero.
AuthorizeCountPasskeys(r) ==
    /\ req[r].pc = "countPasskeys"
    /\ \E fails \in BOOLEAN :
         LET some == CountWebAuthnCredentials > 0 /\ ~fails
         IN  req' = [req EXCEPT ![r].sawW = some,
                                ![r].blind = @ \/ fails,
                                ![r].pc = IF NeedsFactor(req[r].sawT, some)
                                          THEN "put" ELSE "issue"]
    /\ UNCHANGED <<pwVer, totp, passkey, chal, kek>>

\* MFAStore.Put.
Put(pw, needTotp, needWa) ==
    /\ Len(chal) < MaxChallenges
    /\ chal' = InsertMFAChallenge(pw, needTotp, needWa)

\* ListWebAuthnCredentials and BeginLogin (which needs a credential), then
\* MFAStore.Put.
AuthorizePut(r) ==
    /\ req[r].pc = "put"
    /\ req[r].sawW => ListWebAuthnCredentials
    /\ Put(req[r].key, req[r].sawT, req[r].sawW)
    /\ Return(r)
    /\ UNCHANGED <<pwVer, totp, passkey, kek>>

\* The challenge the request holds, if it holds one, has granted it something.
Used(r) == [k \in DOMAIN chal |->
              IF k = req[r].ch THEN [chal[k] EXCEPT !.uses = @ + 1] ELSE chal[k]]

\* issueAuthorized: the tokens are minted (module Sessions).
Issue(r) ==
    /\ req[r].pc = "issue"
    /\ chal' = Used(r)
    /\ Return(r)
    /\ UNCHANGED <<pwVer, totp, passkey, kek>>

-----------------------------------------------------------------------------
(* CompleteMFA                                                             *)

\* materialise: the auth key must open before expires_at is looked at.
Materialised(c) == GetMFAChallenge(c) /\ Opens(chal[c])

\* Peek: a live challenge stays, an expired one that opens is deleted.
CompletePeek(r, c, f) ==
    /\ req[r].pc = "idle"
    /\ \/ ~Materialised(c) /\ UNCHANGED <<chal, req>>
       \/ /\ Materialised(c) /\ chal[c].st = "expired"
          /\ chal' = DeleteMFAChallenge(c)
          /\ UNCHANGED req
       \/ /\ Materialised(c) /\ chal[c].st = "open"
          /\ req' = [req EXCEPT ![r] = [IdleRequest EXCEPT !.pc = "check",
                                          !.ch = c, !.factor = f]]
          /\ UNCHANGED chal
    /\ UNCHANGED <<pwVer, totp, passkey, kek>>

\* Whether the factor can be evaluated at all: otherwise the handler returns
\* before counting anything.
Checkable(r) ==
    LET c == chal[req[r].ch]
    IN  \/ req[r].factor = "totp" /\ c.totp /\ totp.row
                                     /\ OpenLoginTOTPSecret(c.pw)
        \/ req[r].factor = "wa" /\ c.wa

CompleteCheckRight(r) ==
    /\ req[r].pc = "check"
    /\ Checkable(r)
    /\ req[r].factor = "wa" => GetWebAuthnCredentialByCredID
    /\ Goto(r, "take")
    /\ UNCHANGED <<pwVer, totp, passkey, chal, kek>>

CompleteCheckWrong(r) ==
    /\ req[r].pc = "check"
    /\ Checkable(r)
    /\ chal' = [chal EXCEPT ![req[r].ch].guesses = @ + 1]
    /\ Goto(r, "record")
    /\ UNCHANGED <<pwVer, totp, passkey, kek>>

CompleteReject(r) ==
    /\ req[r].pc = "check"
    /\ ~Checkable(r)
    /\ Return(r)
    /\ UNCHANGED <<pwVer, totp, passkey, chal, kek>>

\* Variant: the threshold is compared with > instead of >=.
CompleteRecordOneMore(r) ==
    LET c == req[r].ch
    IN  /\ req[r].pc = "record"
        /\ \/ ~GetMFAChallenge(c) /\ Return(r) /\ UNCHANGED chal
           \/ /\ GetMFAChallenge(c)
              /\ chal' = IncrementMFAFailedAttempts(c)
              /\ IF chal'[c].failed > MaxFailed
                 THEN Goto(r, "burn") ELSE Return(r)
        /\ UNCHANGED <<pwVer, totp, passkey, kek>>

\* RecordFailedAttempt: IncrementMFAFailedAttempts and the threshold.
CompleteRecord(r) ==
    LET c == req[r].ch
    IN  /\ req[r].pc = "record"
        /\ \/ ~GetMFAChallenge(c) /\ Return(r) /\ UNCHANGED chal
           \/ /\ GetMFAChallenge(c)
              /\ chal' = IncrementMFAFailedAttempts(c)
              /\ IF chal'[c].failed >= MaxFailed
                 THEN Goto(r, "burn") ELSE Return(r)
        /\ UNCHANGED <<pwVer, totp, passkey, kek>>

\* RecordFailedAttempt: DeleteMFAChallenge, a statement of its own.
CompleteBurn(r) ==
    /\ req[r].pc = "burn"
    /\ chal' = DeleteMFAChallenge(req[r].ch)
    /\ Return(r)
    /\ UNCHANGED <<pwVer, totp, passkey, kek>>

\* Variant: the row is read and deleted without looking at what was deleted.
TakeUnchecked(r, c, accepts, pc) ==
    /\ chal' = DeleteMFAChallenge(c)
    /\ req' = [req EXCEPT ![r] =
                 IF accepts THEN [@ EXCEPT !.pc = pc, !.ch = c] ELSE IdleRequest]

\* Take: TakeMFAChallenge, one DELETE ... RETURNING, decides who consumes the
\* challenge; the request that got it while it was open and could be opened
\* goes on.
Take(r, c, accepts, pc) ==
    /\ chal' = TakeMFAChallenge(c).left
    /\ req' = [req EXCEPT ![r] =
                 IF /\ \E row \in TakeMFAChallenge(c).row : row.st = "open" /\ Opens(row)
                    /\ accepts
                 THEN [@ EXCEPT !.pc = pc, !.ch = c] ELSE IdleRequest]

CompleteTake(r) ==
    /\ req[r].pc = "take"
    /\ Take(r, req[r].ch, TRUE, "issue")
    /\ UNCHANGED <<pwVer, totp, passkey, kek>>

\* expires_at passes; mfa_gc deletes expired rows.
ChallengeExpires(c) ==
    /\ chal[c].st = "open"
    /\ chal' = [chal EXCEPT ![c].st = "expired"]
    /\ UNCHANGED <<pwVer, totp, passkey, kek, req>>

ChallengeSwept(c) ==
    /\ chal[c].st = "expired"
    /\ chal' = DeleteMFAChallenge(c)
    /\ UNCHANGED <<pwVer, totp, passkey, kek, req>>

-----------------------------------------------------------------------------
(* Handlers behind a session.  All but the passkey registration first check *)
(* the presented auth key against user_auth.                                *)

VerifyUserAuthKey(r, pc) ==
    /\ req[r].pc = "idle"
    /\ req' = [req EXCEPT ![r] = [IdleRequest EXCEPT !.pc = pc, !.key = pwVer]]
    /\ UNCHANGED <<pwVer, totp, passkey, chal, kek>>

SetupUpsert(r) ==
    /\ req[r].pc = "setup"
    /\ totp' = UpsertUserLoginTOTP(FALSE, req[r].key, req[r].key # pwVer)
    /\ UNCHANGED <<pwVer, passkey, chal, kek>>
    /\ req' = Observed([req EXCEPT ![r] = IdleRequest])

\* GetUserLoginTOTP; the handler goes on only if the secret opens.
EnableRead(r) ==
    /\ req[r].pc = "enableRead"
    /\ IF totp.row /\ OpenLoginTOTPSecret(req[r].key)
       THEN Goto(r, "enable") ELSE Return(r)
    /\ UNCHANGED <<pwVer, totp, passkey, chal, kek>>

\* The upsert writes back the envelope that was read.
EnableUpsert(r) ==
    /\ req[r].pc = "enable"
    /\ totp' = UpsertUserLoginTOTP(TRUE, req[r].key, req[r].key # pwVer)
    /\ UNCHANGED <<pwVer, passkey, chal, kek>>
    /\ Return(r)

\* With a code the secret must open; otherwise an assertion is presented.
DisableRead(r) ==
    /\ req[r].pc = "disableRead"
    /\ \/ ~totp.row /\ Return(r)
       \/ totp.row /\ OpenLoginTOTPSecret(req[r].key) /\ Goto(r, "disable")
       \/ totp.row /\ Goto(r, "disableAssert")
    /\ UNCHANGED <<pwVer, totp, passkey, chal, kek>>

\* ConsumeWebAuthnAssertion takes the challenge before it validates.
DisableTake(r, c) ==
    /\ req[r].pc = "disableAssert"
    /\ Take(r, c, chal[c].wa /\ GetWebAuthnCredentialByCredID, "disable")
    /\ UNCHANGED <<pwVer, totp, passkey, kek>>

DisableDelete(r) ==
    /\ req[r].pc = "disable"
    /\ totp' = NoTotp
    /\ chal' = Used(r)
    /\ UNCHANGED <<pwVer, passkey, kek>>
    /\ req' = Observed([req EXCEPT ![r] = IdleRequest])

BeginAssertion(r) ==
    /\ req[r].pc = "idle"
    /\ ListWebAuthnCredentials
    /\ Put(0, FALSE, TRUE)
    /\ UNCHANGED <<pwVer, totp, passkey, kek, req>>

RegisterBegin(r) ==
    /\ req[r].pc = "idle"
    /\ Put(0, FALSE, TRUE)
    /\ UNCHANGED <<pwVer, totp, passkey, kek, req>>

RegisterFinish(r, c) ==
    /\ req[r].pc = "idle"
    /\ Take(r, c, chal[c].wa, "register")
    /\ UNCHANGED <<pwVer, totp, passkey, kek>>

RegisterCreate(r) ==
    /\ req[r].pc = "register"
    /\ passkey' = TRUE
    /\ chal' = Used(r)
    /\ Return(r)
    /\ UNCHANGED <<pwVer, totp, kek>>

\* The credential removed is the last one or not.
RemoveCredential(r) ==
    /\ req[r].pc = "remove"
    /\ passkey' \in {passkey, FALSE}
    /\ UNCHANGED <<pwVer, totp, chal, kek>>
    /\ req' = Observed([req EXCEPT ![r] = IdleRequest])

\* Variant: without a new envelope the old row stays.
RotateLoginTOTPKeepOld(resealed) ==
    totp' = IF resealed
            THEN UpsertUserLoginTOTP(totp.enabled, pwVer + 1, FALSE)
            ELSE totp

\* rotateLoginTOTPInTx: the client sends a re-sealed envelope or none.
RotateLoginTOTP(resealed) ==
    totp' = IF resealed
            THEN UpsertUserLoginTOTP(totp.enabled, pwVer + 1, FALSE)
            ELSE NoTotp

\* The transaction of ChangeMasterPassword and of RecoveryComplete.
RotatePassword(r) ==
    /\ req[r].pc = "rotate"
    /\ pwVer < MaxPw
    /\ pwVer' = pwVer + 1
    /\ \E resealed \in BOOLEAN : RotateLoginTOTP(resealed)
    /\ UNCHANGED <<passkey, chal, kek>>
    /\ req' = Observed([req EXCEPT ![r] = IdleRequest])

-----------------------------------------------------------------------------
(* A request ends early: an error of the database, a cancelled context, a  *)
(* crash of the server.  What it committed stays.  A wrong guess whose     *)
(* count or burn is lost this way is remembered in lost.                   *)

Abandon(r) ==
    LET losing == req[r].pc \in {"record", "burn"}
        c      == req[r].ch
    IN  /\ req[r].pc # "idle"
        /\ losing => chal[c].lost < MaxLost
        /\ chal' = IF losing THEN [chal EXCEPT ![c].lost = @ + 1] ELSE chal
        /\ Return(r)
        /\ UNCHANGED <<pwVer, totp, passkey, kek>>

\* At the next start: the same key from a seed, or a random one.
NewMFAKEK == kek' \in {kek, kek + 1} \cap (1..MaxKeys)

\* The server dies with every request in progress and starts again.
Restart ==
    LET losing(c) == {r \in Requests : req[r].pc \in {"record", "burn"}
                                        /\ req[r].ch = c}
    IN  /\ \A c \in DOMAIN chal : chal[c].lost + Cardinality(losing(c)) <= MaxLost
        /\ NewMFAKEK
        /\ chal' = [c \in DOMAIN chal |->
                      [chal[c] EXCEPT !.lost = @ + Cardinality(losing(c))]]
        /\ req' = [r \in Requests |-> IdleRequest]
        /\ UNCHANGED <<pwVer, totp, passkey>>

Next ==
    \/ \E r \in Requests :
         \/ AuthorizeVerified(r) \/ AuthorizeReadTotp(r)
         \/ AuthorizeCountPasskeys(r) \/ AuthorizePut(r) \/ Issue(r)
         \/ CompleteCheckRight(r) \/ CompleteCheckWrong(r) \/ CompleteReject(r)
         \/ CompleteRecord(r) \/ CompleteBurn(r) \/ CompleteTake(r)
         \/ \E pc \in {"setup", "enableRead", "disableRead", "remove", "rotate"} :
              VerifyUserAuthKey(r, pc)
         \/ SetupUpsert(r) \/ EnableRead(r) \/ EnableUpsert(r)
         \/ DisableRead(r) \/ DisableDelete(r)
         \/ BeginAssertion(r) \/ RegisterBegin(r) \/ RegisterCreate(r)
         \/ RemoveCredential(r) \/ RotatePassword(r) \/ Abandon(r)
         \/ \E c \in DOMAIN chal :
              \/ DisableTake(r, c) \/ RegisterFinish(r, c)
              \/ \E f \in Factors : CompletePeek(r, c, f)
    \/ \E c \in DOMAIN chal : ChallengeExpires(c) \/ ChallengeSwept(c)
    \/ Restart

Spec == Init /\ [][Next]_vars

-----------------------------------------------------------------------------
(* Properties                                                              *)

\* TakeMFAChallenge is the only gate between a verified factor and what it
\* authorises: whatever requests race, one challenge grants at most one login,
\* one TOTP removal or one passkey registration.
ChallengeSpentOnce ==
    \A c \in DOMAIN chal : chal[c].uses <= 1

\* RecordFailedAttempt bounds the wrong codes a challenge is tried with: the
\* ceiling, plus one for each further request that peeked before the burn,
\* plus the attempts whose count was lost to a storage error.
GuessBound ==
    \A c \in DOMAIN chal :
       chal[c].guesses <= MaxFailed - 1 + Cardinality(Requests) + chal[c].lost

\* Authorize issues tokens without a challenge only if neither factor was on
\* for the whole request: enrolment changes during the request, and reads that
\* failed, are the only ways past the check.
SecondFactorRequired ==
    \A r \in Requests :
       req[r].pc = "issue" /\ req[r].ch = 0 /\ ~req[r].blind
       => ~req[r].armedT /\ ~req[r].armedW

\* The stored login-TOTP secret opens under the current password: each rotation
\* re-seals or drops it.  The one exception is a Setup or Enable that checked
\* the auth key before a rotation and wrote after it, until the next write.
TOTPOpenable ==
    totp.row /\ ~totp.late => totp.key = pwVer
=============================================================================
