------------------------------ MODULE Account -------------------------------
(***************************************************************************)
(* The life of an account: Register, the verification link sent by e-mail  *)
(* (VerifyEmail, ResendVerification), the rotations of the password's key  *)
(* material, the passkey that unlocks the vault, and DeleteMe              *)
(* (internal/api/auth/service.go, internal/api/vault/service.go,           *)
(* internal/api/webauthn/service.go and the queries they use).             *)
(*                                                                         *)
(* One e-mail address; an account registered again after DeleteMe is a new *)
(* user.  Key material derived from the n-th password ever chosen is n.    *)
(* Statements outside a transaction are one step each; a transaction takes *)
(* effect at its commit.  The check of a secret succeeds or fails by       *)
(* choice; how tokens, challenges and counters gate it is the subject of   *)
(* Sessions, MFA and Lockout.                                              *)
(***************************************************************************)
EXTENDS Integers, Sequences

CONSTANTS
    Requests,   \* requests that may be in progress at once
    None,       \* no request
    Sender,     \* what buildEmailSender chose: "noop", "log" or "smtp"
    MaxUsers,   \* bound on accounts ever created
    MaxLinks,   \* bound on verification links ever created
    MaxPw       \* bound on passwords ever chosen

ASSUME ConstantsAssumption ==
    /\ None \notin Requests
    /\ Sender \in {"noop", "log", "smtp"}
    /\ MaxUsers \in Nat
    /\ MaxLinks \in Nat
    /\ MaxPw \in Nat

VARIABLES
    users,      \* the accounts created so far; user u is users[u]
    emailLock,  \* whose uncommitted INSERT holds the e-mail's index entry
    links,      \* email_verification_tokens, by order of creation
    pwNext,     \* the next password to be chosen
    req         \* per request

vars == <<users, emailLock, links, pwNext, req>>

(***************************************************************************)
(* kdf, auth, vault: which password the user_kdf_params, user_auth and     *)
(* user_vault rows are derived from (0: no row).  bundle is the unlock     *)
(* bundle of the passkey, by the password its EnablePasskeyUnlock proved.  *)
(* For the properties: late says that this request overlapped a rotation,  *)
(* revoked is the last password chosen with revoke_passkey_unlocks.       *)
(***************************************************************************)
User == [exists : BOOLEAN, verified : BOOLEAN, session : BOOLEAN,
         kdf : Nat, auth : Nat, vault : Nat, pepper : Nat,
         passkey : BOOLEAN, bundle : Nat, late : BOOLEAN,
         revoked : Nat]

\* after: the links that existed when the request behind this one last ran
\* InvalidateActiveEmailVerificationTokens.
Link == [user : Nat, st : {"active", "consumed", "expired", "gone"},
         delivered : BOOLEAN, after : Nat]

\* user, pw, pepper, link and vault are the handler's locals, or those of the
\* login and unlock pages; overlap says that a rotation committed since the
\* request began.
Request == [pc : {"idle", "inserted", "issue", "mail", "send", "stamp",
                  "invalidate", "readKDF", "rotate", "recover", "setBundle",
                  "clearBundle", "removePasskey", "append", "delete",
                  "derived", "authorized", "opening"},
            user : Nat, pw : Nat, pepper : Nat, link : Nat, after : Nat,
            vault : Nat, overlap : BOOLEAN]
IdleRequest == [pc |-> "idle", user |-> 0, pw |-> 0, pepper |-> 0, link |-> 0,
                after |-> 0, vault |-> 0, overlap |-> FALSE]

TypeOK ==
    /\ users \in Seq(User)
    /\ emailLock \in Requests \cup {None}
    /\ links \in Seq(Link)
    /\ pwNext \in 1..(MaxPw + 1)
    /\ req \in [Requests -> Request]

Init ==
    /\ users = <<>>
    /\ emailLock = None
    /\ links = <<>>
    /\ pwNext = 1
    /\ req = [r \in Requests |-> IdleRequest]

At(r, pc) == req[r].pc = pc
Begin(r, pc, u) ==
    req' = [req EXCEPT ![r] = [IdleRequest EXCEPT !.pc = pc, !.user = u]]
Goto(r, pc) == req' = [req EXCEPT ![r].pc = pc]
Return(r) == req' = [req EXCEPT ![r] = IdleRequest]

-----------------------------------------------------------------------------
(* Statements, as what they make of the rows of one user                   *)

CreateUser ==
    [exists |-> TRUE, verified |-> FALSE, session |-> FALSE,
     kdf |-> 0, auth |-> 0, vault |-> 0, pepper |-> 0,
     passkey |-> FALSE, bundle |-> 0, late |-> FALSE,
     revoked |-> 0]

UpsertUserKDFParams(row, pw, pepper) ==
    [row EXCEPT !.kdf = pw, !.pepper = pepper]
UpsertUserAuth(row, pw) == [row EXCEPT !.auth = pw]
CreateUserVault(row, pw) == [row EXCEPT !.vault = pw]
UpdateUserVaultPassword(row, pw) == [row EXCEPT !.vault = pw]

\* Variant: the UPDATE leaves wrapped_vault_key alone.
CompleteRecoveryKeepVault(row, pw) == row

CompleteRecovery(row, pw) == [row EXCEPT !.vault = pw]
MarkEmailVerified(row) == [row EXCEPT !.verified = TRUE]

CreateWebAuthnCredential(row) ==
    [row EXCEPT !.passkey = TRUE, !.bundle = 0, !.late = FALSE]
DeleteWebAuthnCredential(row) ==
    [row EXCEPT !.passkey = FALSE, !.bundle = 0, !.late = FALSE]
SetWebAuthnUnlockBundle(row, pw, late) ==
    IF row.passkey THEN [row EXCEPT !.bundle = pw, !.late = late] ELSE row
ClearWebAuthnUnlockBundle(row) == [row EXCEPT !.bundle = 0, !.late = FALSE]

\* Variant: the bundles are left in place.
KeepWebAuthnUnlockBundles(row) == row

ClearAllWebAuthnUnlockBundles(row) == [row EXCEPT !.bundle = 0, !.late = FALSE]

\* ON DELETE CASCADE takes every row that belongs to the user.
DeleteUser == [CreateUser EXCEPT !.exists = FALSE]

\* users.email is unique, so at most one account is found.
GetUserByEmail == {u \in DOMAIN users : users[u].exists}

\* What the salt of the account lets a client derive: the key of the password
\* the KDF row belongs to (0: there is no row).
GetUserKDFParamsRow(u) == users[u].kdf
GetUserVault(u) == users[u].vault

\* The bearer token of a session of this user is accepted.
Authenticated(u) == users[u].exists /\ users[u].session

InsertEmailVerificationToken(u, after) ==
    Append(links, [user |-> u, st |-> "active", delivered |-> FALSE,
                   after |-> after])

\* The WHERE clause of ConsumeEmailVerificationToken.
Consumable(i) == links[i].st = "active"

\* Variant: the test of consumed_at is the wrong way round.
InvalidateInactive(u) ==
    [i \in DOMAIN links |->
       IF links[i].user = u /\ links[i].st # "active"
       THEN [links[i] EXCEPT !.st = "consumed"] ELSE links[i]]

InvalidateActiveEmailVerificationTokens(u) ==
    [i \in DOMAIN links |->
       IF links[i].user = u /\ links[i].st = "active"
       THEN [links[i] EXCEPT !.st = "consumed"] ELSE links[i]]

-----------------------------------------------------------------------------
(* Register                                                                *)

\* BEGIN and CreateUser: waits for an uncommitted row with this address, and
\* is refused (isUniqueViolation) by a committed one.
RegisterInsert(r) ==
    /\ At(r, "idle")
    /\ Len(users) < MaxUsers /\ pwNext <= MaxPw
    /\ emailLock = None
    /\ GetUserByEmail = {}
    /\ req' = [req EXCEPT ![r] = [IdleRequest EXCEPT !.pc = "inserted",
                                                     !.pw = pwNext]]
    /\ pwNext' = pwNext + 1
    /\ emailLock' = r
    /\ UNCHANGED <<users, links>>

\* The other rows of the account and COMMIT.  The pepper is the client's own
\* random choice, told apart by the user it was made for.
RegisterCommit(r) ==
    LET u   == Len(users) + 1
        pw  == req[r].pw
        row == CreateUserVault(
                 UpsertUserAuth(UpsertUserKDFParams(CreateUser, pw, u), pw), pw)
    IN  /\ At(r, "inserted")
        /\ Len(users) < MaxUsers
        /\ users' = Append(users, row)
        /\ emailLock' = None
        /\ req' = [req EXCEPT ![r].pc = "issue", ![r].user = u]
        /\ UNCHANGED <<links, pwNext>>

\* Manager.Issue; auth_sessions.user_id references users.
RegisterIssue(r) ==
    LET u == req[r].user
    IN  /\ At(r, "issue")
        /\ IF users[u].exists
           THEN /\ users' = [users EXCEPT ![u].session = TRUE]
                /\ Goto(r, "mail")
           ELSE Return(r) /\ UNCHANGED users
        /\ UNCHANGED <<emailLock, links, pwNext>>

\* sendVerificationEmail, up to the INSERT: nothing to do without a sender,
\* and no row for a user that is gone.
InsertLink(r) ==
    LET u == req[r].user
    IN  /\ At(r, "mail")
        /\ IF Sender = "noop" \/ ~users[u].exists
           THEN Return(r) /\ UNCHANGED links
           ELSE /\ Len(links) < MaxLinks
                /\ links' = InsertEmailVerificationToken(u, req[r].after)
                /\ req' = [req EXCEPT ![r].pc = "send", ![r].link = Len(links) + 1]
        /\ UNCHANGED <<users, emailLock, pwNext>>

\* Send; the message may get lost, and LogSender delivers nothing.
SendLink(r) ==
    LET i == req[r].link
    IN  /\ At(r, "send")
        /\ links' \in {links, [links EXCEPT ![i].delivered = Sender = "smtp"]}
        /\ Return(r)
        /\ UNCHANGED <<users, emailLock, pwNext>>

-----------------------------------------------------------------------------
(* VerifyEmail: two statements, no transaction                             *)

ConsumeEmailVerificationToken(r, i) ==
    /\ At(r, "idle")
    /\ links[i].delivered
    /\ Consumable(i)
    /\ links' = [links EXCEPT ![i].st = "consumed"]
    /\ req' = [req EXCEPT ![r] = [IdleRequest EXCEPT !.pc = "stamp",
                                                     !.user = links[i].user]]
    /\ UNCHANGED <<users, emailLock, pwNext>>

\* An UPDATE that finds no row is not an error.
VerifyEmailStamp(r) ==
    LET u == req[r].user
    IN  /\ At(r, "stamp")
        /\ users' = IF users[u].exists
                    THEN [users EXCEPT ![u] = MarkEmailVerified(@)] ELSE users
        /\ Return(r)
        /\ UNCHANGED <<emailLock, links, pwNext>>

\* ResendVerification: an unknown or verified address is answered quietly.
ResendVerification(r) ==
    /\ At(r, "idle")
    /\ \E u \in GetUserByEmail :
         /\ ~users[u].verified
         /\ Begin(r, "invalidate", u)
    /\ UNCHANGED <<users, emailLock, links, pwNext>>

\* The error of the invalidation is ignored.
ResendInvalidate(r) ==
    /\ At(r, "invalidate")
    /\ \/ /\ links' = InvalidateActiveEmailVerificationTokens(req[r].user)
          /\ req' = [req EXCEPT ![r].pc = "mail", ![r].after = Len(links)]
       \/ /\ UNCHANGED links
          /\ Goto(r, "mail")
    /\ UNCHANGED <<users, emailLock, pwNext>>

-----------------------------------------------------------------------------
(* Signing in, and the rotations of the password                           *)

\* An address nobody has is answered with pseudoSalt and pseudoKDFParams,
\* from which no account's key can be derived.
PseudoParams == 0

\* GetKDFParams, as the login and unlock pages call it: the password typed is
\* the one in force when the salt is read.
GetKDFParams(r) ==
    /\ At(r, "idle")
    /\ \/ /\ GetUserByEmail = {}
          /\ req' = [req EXCEPT ![r] = [IdleRequest EXCEPT !.pc = "derived",
                                                           !.pw = PseudoParams]]
       \/ \E u \in GetUserByEmail :
            req' = [req EXCEPT ![r] =
                      [IdleRequest EXCEPT !.pc = "derived", !.user = u,
                                          !.pw = GetUserKDFParamsRow(u)]]
    /\ UNCHANGED <<users, emailLock, links, pwNext>>

\* Authorize (and CompleteMFA): whoever has the address now must match.
Authorize(r) ==
    /\ At(r, "derived")
    /\ \E u \in GetUserByEmail :
         /\ users[u].auth = req[r].pw
         /\ req' = [req EXCEPT ![r].pc = "authorized", ![r].user = u]
    /\ UNCHANGED <<users, emailLock, links, pwNext>>

\* issueAuthorized: the wrapped vault key is read, then tokens are minted.
IssueAuthorized(r) ==
    LET u == req[r].user
    IN  /\ At(r, "authorized")
        /\ users[u].exists
        /\ users' = [users EXCEPT ![u].session = TRUE]
        /\ req' = [req EXCEPT ![r].pc = "opening", ![r].vault = GetUserVault(u)]
        /\ UNCHANGED <<emailLock, links, pwNext>>

\* The unlock page of a client whose session is still open.
GetMyKeys(r) ==
    LET u == req[r].user
    IN  /\ At(r, "derived")
        /\ u # 0
        /\ Authenticated(u)
        /\ req' = [req EXCEPT ![r].pc = "opening", ![r].vault = GetUserVault(u)]
        /\ UNCHANGED <<users, emailLock, links, pwNext>>

\* Logout, an expired session or TerminateSession.
SessionEnds(u) ==
    /\ users[u].session
    /\ users' = [users EXCEPT ![u].session = FALSE]
    /\ UNCHANGED <<emailLock, links, pwNext, req>>

\* ChangeMasterPassword: the old key is verified, then the KDF row is read.
ChangeMasterPassword(r, u) ==
    /\ At(r, "idle")
    /\ Authenticated(u)
    /\ pwNext <= MaxPw
    /\ Begin(r, "rotate", u)
    /\ UNCHANGED <<users, emailLock, links, pwNext>>

\* RecoveryComplete: RecoveryStore.Take, for a user that exists.
RecoveryComplete(r, u) ==
    /\ At(r, "idle")
    /\ users[u].exists
    /\ pwNext <= MaxPw
    /\ Begin(r, "recover", u)
    /\ UNCHANGED <<users, emailLock, links, pwNext>>

\* Both read the KDF row before their transaction, for the pepper.
GetUserKDFParams(r) ==
    LET u == req[r].user
    IN  /\ req[r].pc \in {"rotate", "recover"}
        /\ req[r].pepper = 0
        /\ users[u].exists
        /\ req' = [req EXCEPT ![r].pepper = users[u].pepper]
        /\ UNCHANGED <<users, emailLock, links, pwNext>>

\* Every request in progress, but the one that commits, saw a rotation.
MarkOverlap(r) ==
    req' = [q \in Requests |->
              IF q = r THEN IdleRequest
              ELSE IF req[q].pc = "idle" THEN req[q]
              ELSE [req[q] EXCEPT !.overlap = TRUE]]

\* Variant: the wrapped vault key is written outside the transaction, later.
RotatedNoVault(row, pw, pepper) ==
    UpsertUserAuth(UpsertUserKDFParams(row, pw, pepper), pw)

\* The statements of ChangeMasterPassword's transaction on the key material.
Rotated(row, pw, pepper) ==
    UpdateUserVaultPassword(
      UpsertUserAuth(UpsertUserKDFParams(row, pw, pepper), pw), pw)

\* The transaction of ChangeMasterPassword.  The caller's session survives;
\* the INSERT of a KDF row for a user that is gone fails.
RotateCommit(r, revoke) ==
    LET u   == req[r].user
        row == Rotated(users[u], pwNext, req[r].pepper)
    IN  /\ At(r, "rotate")
        /\ req[r].pepper # 0
        /\ users[u].exists
        /\ pwNext <= MaxPw
        /\ users' = [users EXCEPT ![u] =
                       IF revoke
                       THEN [ClearAllWebAuthnUnlockBundles(row) EXCEPT !.revoked = pwNext]
                       ELSE row]
        /\ pwNext' = pwNext + 1
        /\ MarkOverlap(r)
        /\ UNCHANGED <<emailLock, links>>

\* The transaction of RecoveryComplete: every session is revoked.
RecoverCommit(r) ==
    LET u == req[r].user
    IN  /\ At(r, "recover")
        /\ req[r].pepper # 0
        /\ users[u].exists
        /\ pwNext <= MaxPw
        /\ users' = [users EXCEPT ![u] =
                       [CompleteRecovery(
                          UpsertUserAuth(
                            UpsertUserKDFParams(@, pwNext, req[r].pepper), pwNext),
                          pwNext) EXCEPT !.session = FALSE]]
        /\ pwNext' = pwNext + 1
        /\ MarkOverlap(r)
        /\ UNCHANGED <<emailLock, links>>

-----------------------------------------------------------------------------
(* Passkeys: RegisterFinish, RemoveCredential and the unlock bundle        *)

RegisterPasskey(u) ==
    /\ Authenticated(u) /\ ~users[u].passkey
    /\ users' = [users EXCEPT ![u] = CreateWebAuthnCredential(@)]
    /\ UNCHANGED <<emailLock, links, pwNext, req>>

\* The password is proved (VerifyUserAuthKey) and the credential found; the
\* write comes later in the same READ COMMITTED transaction.
PasskeyHandler(r, u, pc) ==
    /\ At(r, "idle")
    /\ Authenticated(u)
    /\ users[u].passkey
    /\ req' = [req EXCEPT ![r] = [IdleRequest EXCEPT !.pc = pc, !.user = u,
                                                     !.pw = users[u].auth]]
    /\ UNCHANGED <<users, emailLock, links, pwNext>>

EnablePasskeyUnlock(r, u) == PasskeyHandler(r, u, "setBundle")
DisablePasskeyUnlock(r, u) == PasskeyHandler(r, u, "clearBundle")
RemoveCredential(r, u) == PasskeyHandler(r, u, "removePasskey")

PasskeyCommit(r) ==
    LET u == req[r].user
    IN  /\ req[r].pc \in {"setBundle", "clearBundle", "removePasskey"}
        /\ users' =
             [users EXCEPT ![u] =
                CASE At(r, "setBundle") ->
                       SetWebAuthnUnlockBundle(@, req[r].pw, req[r].overlap)
                  [] At(r, "clearBundle") -> ClearWebAuthnUnlockBundle(@)
                  [] At(r, "removePasskey") -> DeleteWebAuthnCredential(@)]
        /\ Return(r)
        /\ UNCHANGED <<emailLock, links, pwNext>>

-----------------------------------------------------------------------------
(* DeleteMe                                                                *)

\* Every factor is proved before anything is touched.
DeleteMe(r, u) ==
    /\ At(r, "idle")
    /\ Authenticated(u)
    /\ Begin(r, "append", u)
    /\ UNCHANGED <<users, emailLock, links, pwNext>>

\* Writer.Append in its own transaction; an error ends the request.
DeleteAppend(r) ==
    /\ At(r, "append")
    /\ Goto(r, "delete")
    /\ UNCHANGED <<users, emailLock, links, pwNext>>

\* DeleteUser and the commit of the request's transaction.
DeleteCommit(r) ==
    LET u == req[r].user
    IN  /\ At(r, "delete")
        /\ users' = [users EXCEPT ![u] = DeleteUser]
        /\ links' = [i \in DOMAIN links |->
                       IF links[i].user = u THEN [links[i] EXCEPT !.st = "gone"]
                       ELSE links[i]]
        /\ Return(r)
        /\ UNCHANGED <<emailLock, pwNext>>

-----------------------------------------------------------------------------

LinkExpires(i) ==
    /\ links[i].st = "active"
    /\ links' = [links EXCEPT ![i].st = "expired"]
    /\ UNCHANGED <<users, emailLock, pwNext, req>>

\* An error, a crash or a client that went away: an open transaction is
\* rolled back, what was committed stays.
Abandon(r) ==
    /\ req[r].pc # "idle"
    /\ emailLock' = IF emailLock = r THEN None ELSE emailLock
    /\ Return(r)
    /\ UNCHANGED <<users, links, pwNext>>

RegisterStep(r) ==
    \/ RegisterInsert(r) \/ RegisterCommit(r) \/ RegisterIssue(r)
    \/ InsertLink(r) \/ SendLink(r)

VerifyStep(r) ==
    \/ \E i \in DOMAIN links : ConsumeEmailVerificationToken(r, i)
    \/ VerifyEmailStamp(r)
    \/ ResendVerification(r)
    \/ ResendInvalidate(r)

SignInStep(r) ==
    \/ GetKDFParams(r) \/ Authorize(r) \/ IssueAuthorized(r) \/ GetMyKeys(r)

KeyStep(r) ==
    \/ \E u \in DOMAIN users :
         \/ ChangeMasterPassword(r, u) \/ RecoveryComplete(r, u)
         \/ EnablePasskeyUnlock(r, u) \/ DisablePasskeyUnlock(r, u)
         \/ RemoveCredential(r, u)
    \/ GetUserKDFParams(r)
    \/ \E revoke \in BOOLEAN : RotateCommit(r, revoke)
    \/ RecoverCommit(r)
    \/ PasskeyCommit(r)

DeleteStep(r) ==
    \/ \E u \in DOMAIN users : DeleteMe(r, u)
    \/ DeleteAppend(r)
    \/ DeleteCommit(r)

Next ==
    \/ \E r \in Requests :
         \/ RegisterStep(r) \/ VerifyStep(r) \/ SignInStep(r) \/ KeyStep(r) \/ DeleteStep(r)
         \/ Abandon(r)
    \/ \E u \in DOMAIN users : SessionEnds(u) \/ RegisterPasskey(u)
    \/ \E i \in DOMAIN links : LinkExpires(i)

Spec == Init /\ [][Next]_vars

-----------------------------------------------------------------------------
(* Properties                                                              *)

\* An account that exists is whole: its salt, its auth hash and its wrapped
\* vault key come from one and the same password, whatever rotations and
\* recoveries overlapped or failed, or else the password that signs in would
\* not open the vault; and its pepper, which the rotations read before the
\* transaction that writes it back, is the one it was registered with.
KeysAgree ==
    \A u \in DOMAIN users :
        users[u].exists =>
            /\ users[u].vault # 0
            /\ users[u].kdf = users[u].auth
            /\ users[u].auth = users[u].vault
            /\ users[u].pepper = u

\* The key a client derives from the salt it was given opens the wrapped
\* vault key it is given next, when it signs in and when it unlocks, though
\* GetKDFParams, Authorize and the read of user_vault are separate calls; only
\* a rotation that committed in between can part them.
SignInOpens ==
    \A r \in Requests :
        At(r, "opening") /\ ~req[r].overlap =>
            /\ req[r].pw # PseudoParams
            /\ req[r].vault = req[r].pw

\* ResendVerification leaves no earlier link of the user alive: of two active
\* links the older one was created after the younger one's request had run
\* its invalidation, that is, by an overlapping request.
ResendKillsOlder ==
    \A i, j \in DOMAIN links :
        /\ i < j
        /\ links[i].user = links[j].user
        /\ links[i].st = "active" /\ links[j].st = "active"
        => i > links[j].after

\* The comment on revoke_passkey_unlocks: a rotation that asks for it revokes
\* "the passkey-unlock pathway in one shot": a bundle authorised with an
\* earlier password is left only by a request the rotation overlapped.
BundleRevoked ==
    \A u \in DOMAIN users :
        users[u].bundle # 0 /\ ~users[u].late => users[u].bundle >= users[u].revoked

=============================================================================
