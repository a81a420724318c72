------------------------------ MODULE Sessions ------------------------------
(***************************************************************************)
(* Token pairs and sessions of one user: auth.Manager (internal/auth/      *)
(* manager.go) over the auth_sessions and auth_tokens tables, and the      *)
(* handlers that end sessions in bulk (ChangeMasterPassword and            *)
(* RecoveryComplete in internal/api/auth/service.go, TerminateSession and  *)
(* TerminateAllExceptCurrent in internal/api/sessions/service.go).  All    *)
(* of these queries are scoped by user_id, so users do not interact.       *)
(*                                                                         *)
(* Every database call is one step; a call inside SystemDo is one          *)
(* transaction.  Requests interleave between the calls and may die there.  *)
(* A transaction's statements take effect at its commit: a token row       *)
(* inserted between a bulk DELETE and its COMMIT survives it, exactly as   *)
(* one inserted just after.  A session id is <<device, k>>: the k-th row   *)
(* the device has had, since sessions_gc deletes rows.                     *)
(***************************************************************************)
EXTENDS Integers, Sequences

CONSTANTS
    Devices,    \* UNIQUE (user_id, device_id): a session row per device
    Requests,   \* requests of this user that may be in progress at once
    NoDevice,
    MaxPairs,   \* bound on token pairs ever minted
    MaxPw,      \* bound on master-password versions
    MaxRows     \* bound on session rows a device ever has

ASSUME ConstantsAssumption ==
    /\ NoDevice \notin Devices
    /\ MaxPairs \in Nat
    /\ MaxPw \in Nat \ {0}
    /\ MaxRows \in Nat \ {0}

VARIABLES
    sess,     \* auth_sessions by device: row present and its number,
              \*   revoked_at set, current_refresh_key (0: NULL), and, for
              \*   the properties, the password version that opened it
    pairs,    \* the token pairs minted so far, in order; pair n is pairs[n]
    access,   \* the pairs whose access token has an auth_tokens row
    refresh,  \* the pairs whose refresh token has one
    pwVer,    \* version of user_auth.auth_key_hash
    req,      \* per request: where its handler is
    overlap   \* for the properties: two requests were once under way together

vars == <<sess, pairs, access, refresh, pwVer, req, overlap>>
tokenVars == <<pairs, access, refresh>>

Session == [exists : BOOLEAN, id : Nat, revoked : BOOLEAN, key : Nat, pw : Nat]

\* by: the request that minted the pair; used: how many refreshes it paid for.
Pair == [sid : Devices \X Nat, by : Requests, delivered : BOOLEAN, used : Nat]

IssueSteps == {"upsert", "clear", "mintAccess", "mintRefresh", "stamp"}
RefreshSteps == {"readKey", "burn", "revokeOld", "clearOld"}
RevokeSteps == {"revokeTokens", "revokeRow", "dropOthers", "revokeOthers",
                "rotate", "recover"}

NoSession == <<NoDevice, 0>>

\* sid: the session worked on, <<d, 0>> before Issue knows its row; pair: the
\* refresh token presented (0: none); new: the pair being minted; outcome and
\* pair outlive a refresh that was refused.
Request == [pc : {"idle"} \cup IssueSteps \cup RefreshSteps \cup RevokeSteps,
            sid : (Devices \cup {NoDevice}) \X Nat, pair : Nat, new : Nat, pw : Nat,
            outcome : {"none", "invalid", "reuse"}]

TypeOK ==
    /\ sess \in [Devices -> Session]
    /\ pairs \in Seq(Pair)
    /\ access \in SUBSET (1..Len(pairs))
    /\ refresh \in SUBSET (1..Len(pairs))
    /\ pwVer \in Nat
    /\ req \in [Requests -> Request]
    /\ overlap \in BOOLEAN

Ended(outcome, pair) ==
    [pc |-> "idle", sid |-> NoSession, pair |-> pair, new |-> 0, pw |-> 0,
     outcome |-> outcome]

Begun(pc, sid, n) ==
    [pc |-> pc, sid |-> sid, pair |-> n, new |-> 0, pw |-> 0, outcome |-> "none"]

Init ==
    /\ sess = [d \in Devices |->
                 [exists |-> FALSE, id |-> 0, revoked |-> FALSE, key |-> 0, pw |-> 0]]
    /\ pairs = <<>>
    /\ access = {}
    /\ refresh = {}
    /\ pwVer = 1
    /\ req = [r \in Requests |-> Ended("none", 0)]
    /\ overlap = FALSE

Delivered == {n \in DOMAIN pairs : pairs[n].delivered}

Goto(r, pc) == req' = [req EXCEPT ![r].pc = pc]
Return(r) == req' = [req EXCEPT ![r] = Ended("none", 0)]

-----------------------------------------------------------------------------
(* Statements on auth_sessions, as the table they leave or the rows found  *)

HasRow(sid) == sess[sid[1]].exists /\ sess[sid[1]].id = sid[2]

\* A conflicting row is opened again, its current_refresh_key left alone.
UpsertSession(d) ==
    [sess EXCEPT ![d] =
       [@ EXCEPT !.exists = TRUE, !.revoked = FALSE,
                 !.id = IF sess[d].exists THEN sess[d].id ELSE sess[d].id + 1,
                 !.key = IF sess[d].exists THEN sess[d].key ELSE 0]]

SetSessionCurrentRefreshKey(sid, n) ==
    IF HasRow(sid) THEN [sess EXCEPT ![sid[1]].key = n] ELSE sess

\* A row that is not revoked, or none: GetSessionByID, and
\* GetSessionCurrentRefreshKey for its one column.
GetSessionByID(sid) == HasRow(sid) /\ ~sess[sid[1]].revoked
GetSessionCurrentRefreshKey(sid) ==
    {sess[d].key : d \in {d \in Devices : d = sid[1] /\ GetSessionByID(sid)}}

ListUserSessions ==
    {<<d, sess[d].id>> : d \in {d \in Devices : sess[d].exists /\ ~sess[d].revoked}}

RevokeSession(sid) ==
    IF HasRow(sid) THEN [sess EXCEPT ![sid[1]].revoked = TRUE] ELSE sess

RevokeAllUserSessionsExcept(sid) ==
    [d \in Devices |->
       [sess[d] EXCEPT !.revoked = @ \/ (sess[d].exists /\ <<d, sess[d].id>> # sid)]]

RevokeAllUserSessions ==
    [d \in Devices |-> [sess[d] EXCEPT !.revoked = @ \/ sess[d].exists]]

(* Statements on auth_tokens.  Set takes a row's session_id from the       *)
(* envelope of the token it stores.                                        *)

SessionOf(n) == pairs[n].sid

UpsertAuthToken(tokens, n) == tokens \cup {n}

DeleteAuthToken(tokens, n) == tokens \ {n}

\* GetAuthToken finds rows that have not expired.
GetAuthToken(tokens, n) == n \in tokens

TokensOf(sid) == {n \in DOMAIN pairs : SessionOf(n) = sid}

DeleteBySession(sid) ==
    /\ access' = access \ TokensOf(sid)
    /\ refresh' = refresh \ TokensOf(sid)

\* The user's tokens, those of one session excepted.
DeleteAuthTokensByUser(except) ==
    {n \in DOMAIN pairs : except = NoSession \/ SessionOf(n) # except}

DeleteByUser(except) ==
    /\ access' = access \ DeleteAuthTokensByUser(except)
    /\ refresh' = refresh \ DeleteAuthTokensByUser(except)

-----------------------------------------------------------------------------
(* Manager.Issue, one step per store call                                  *)

IssueUpsert(r) ==
    LET d == req[r].sid[1]
    IN  /\ req[r].pc = "upsert"
        /\ ~sess[d].exists => sess[d].id < MaxRows
        /\ sess' = [UpsertSession(d) EXCEPT
                      ![d].pw = IF req[r].pair = 0 THEN req[r].pw ELSE @]
        /\ req' = [req EXCEPT ![r].pc = "clear", ![r].sid = <<d, sess'[d].id>>]
        /\ UNCHANGED <<tokenVars, pwVer>>

\* Variant: only the access token of the earlier login is removed.
IssueClearAccessOnly(r) ==
    /\ req[r].pc = "clear"
    /\ access' = access \ TokensOf(req[r].sid)
    /\ Goto(r, "mintAccess")
    /\ UNCHANGED <<sess, pairs, refresh, pwVer>>

\* Tokens of an earlier login from this device.
IssueClear(r) ==
    /\ req[r].pc = "clear"
    /\ DeleteBySession(req[r].sid)
    /\ Goto(r, "mintAccess")
    /\ UNCHANGED <<sess, pairs, pwVer>>

\* CreateToken for the access token.
IssueAccess(r) ==
    LET n == Len(pairs) + 1
    IN  /\ req[r].pc = "mintAccess"
        /\ n <= MaxPairs
        /\ pairs' = Append(pairs, [sid |-> req[r].sid, by |-> r,
                                   delivered |-> FALSE, used |-> 0])
        /\ access' = UpsertAuthToken(access, n)
        /\ req' = [req EXCEPT ![r].pc = "mintRefresh", ![r].new = n]
        /\ UNCHANGED <<sess, refresh, pwVer>>

\* CreateToken for the refresh token.
IssueRefresh(r) ==
    /\ req[r].pc = "mintRefresh"
    /\ refresh' = UpsertAuthToken(refresh, req[r].new)
    /\ Goto(r, "stamp")
    /\ UNCHANGED <<sess, pairs, access, pwVer>>

\* Variant: the new refresh token is handed out without being stamped.
IssueNoStamp(r) ==
    LET n == req[r].new
        p == req[r].pair
    IN  /\ req[r].pc = "stamp"
        /\ pairs' = [k \in DOMAIN pairs |->
                       [pairs[k] EXCEPT !.delivered = @ \/ k = n,
                                        !.used = IF k = p THEN @ + 1 ELSE @]]
        /\ Return(r)
        /\ UNCHANGED <<sess, access, refresh, pwVer>>

\* The stamp, and the pair goes out in the response.
IssueStamp(r) ==
    LET n == req[r].new
        p == req[r].pair
    IN  /\ req[r].pc = "stamp"
        /\ sess' = SetSessionCurrentRefreshKey(req[r].sid, n)
        /\ pairs' = [k \in DOMAIN pairs |->
                       [pairs[k] EXCEPT !.delivered = @ \/ k = n,
                                        !.used = IF k = p THEN @ + 1 ELSE @]]
        /\ Return(r)
        /\ UNCHANGED <<access, refresh, pwVer>>

\* CreateToken or the stamp failed: what was minted is revoked again.
IssueError(r) ==
    /\ req[r].pc \in {"mintRefresh", "stamp"}
    /\ access' = DeleteAuthToken(access, req[r].new)
    /\ refresh' = DeleteAuthToken(refresh, req[r].new)
    /\ Return(r)
    /\ UNCHANGED <<sess, pairs, pwVer>>

-----------------------------------------------------------------------------
(* Authorize / CompleteMFA: the credential check, then issueAuthorized     *)

Login(r, d) ==
    /\ req[r].pc = "idle"
    /\ req' = [req EXCEPT ![r] = [Begun("upsert", <<d, 0>>, 0) EXCEPT !.pw = pwVer]]
    /\ UNCHANGED <<sess, tokenVars, pwVer>>

-----------------------------------------------------------------------------
(* Manager.Refresh, presented with any refresh token ever handed out       *)

RefreshValidate(r, n) ==
    /\ req[r].pc = "idle"
    /\ n \in Delivered
    /\ req' = [req EXCEPT ![r] = IF GetAuthToken(refresh, n)
                                 THEN Begun("readKey", SessionOf(n), n)
                                 ELSE Ended("invalid", n)]
    /\ UNCHANGED <<sess, tokenVars, pwVer>>

\* No row, or a revoked one, is an error; another key than the presented one
\* is taken for theft.
RefreshReadKey(r) ==
    LET key == GetSessionCurrentRefreshKey(req[r].sid)
    IN  /\ req[r].pc = "readKey"
        /\ \/ key = {} /\ Return(r)
           \/ key = {req[r].pair} /\ Goto(r, "revokeOld")
           \/ key \notin {{}, {req[r].pair}} /\ Goto(r, "burn")
        /\ UNCHANGED <<sess, tokenVars, pwVer>>

\* The burn is one transaction; its error is ignored, the caller is told
\* ErrRefreshReuse either way.
RefreshBurn(r) ==
    /\ req[r].pc = "burn"
    /\ \/ DeleteByUser(NoSession) /\ sess' = RevokeAllUserSessions
       \/ UNCHANGED <<access, refresh, sess>>
    /\ req' = [req EXCEPT ![r] = Ended("reuse", 0)]
    /\ UNCHANGED <<pairs, pwVer>>

\* RevokeToken and DeleteBySession, whose errors are both ignored.
RefreshRevokeOld(r) ==
    /\ req[r].pc = "revokeOld"
    /\ refresh' \in {refresh, DeleteAuthToken(refresh, req[r].pair)}
    /\ Goto(r, "clearOld")
    /\ UNCHANGED <<sess, pairs, access, pwVer>>

RefreshClearOld(r) ==
    /\ req[r].pc = "clearOld"
    /\ \/ DeleteBySession(req[r].sid)
       \/ UNCHANGED <<access, refresh>>
    /\ Goto(r, "upsert")
    /\ UNCHANGED <<sess, pairs, pwVer>>

-----------------------------------------------------------------------------
(* Handlers behind the access token of pair n                              *)

Authenticated(n) == n \in Delivered /\ GetAuthToken(access, n)

\* The sessions the caller is shown, each with its IsCurrent.
ListSessions(n) == [sid \in ListUserSessions |-> sid = SessionOf(n)]

Logout(r, n) ==
    /\ req[r].pc = "idle"
    /\ Authenticated(n)
    /\ req' = [req EXCEPT ![r] = Begun("revokeTokens", SessionOf(n), 0)]
    /\ UNCHANGED <<sess, tokenVars, pwVer>>

TerminateSession(r, n, sid) ==
    /\ req[r].pc = "idle"
    /\ Authenticated(n)
    /\ GetSessionByID(sid)
    /\ req' = [req EXCEPT ![r] = Begun("revokeTokens", sid, 0)]
    /\ UNCHANGED <<sess, tokenVars, pwVer>>

\* Variant: the row is revoked before the tokens are deleted.
RevokeRowFirst(r) ==
    /\ req[r].pc = "revokeTokens"
    /\ sess' = RevokeSession(req[r].sid)
    /\ Goto(r, "revokeRow")
    /\ UNCHANGED <<tokenVars, pwVer>>

\* Manager.Logout and Manager.RevokeSession: the tokens first, then the row.
RevokeTokens(r) ==
    /\ req[r].pc = "revokeTokens"
    /\ DeleteBySession(req[r].sid)
    /\ Goto(r, "revokeRow")
    /\ UNCHANGED <<sess, pairs, pwVer>>

RevokeRow(r) ==
    /\ req[r].pc = "revokeRow"
    /\ sess' = RevokeSession(req[r].sid)
    /\ Return(r)
    /\ UNCHANGED <<tokenVars, pwVer>>

TerminateAllExceptCurrent(r, n) ==
    /\ req[r].pc = "idle"
    /\ Authenticated(n)
    /\ req' = [req EXCEPT ![r] = Begun("dropOthers", SessionOf(n), 0)]
    /\ UNCHANGED <<sess, tokenVars, pwVer>>

\* RevokeUserTokensExceptSession runs outside the request's transaction.
DropOthers(r) ==
    /\ req[r].pc = "dropOthers"
    /\ DeleteByUser(req[r].sid)
    /\ Goto(r, "revokeOthers")
    /\ UNCHANGED <<sess, pairs, pwVer>>

RevokeOthers(r) ==
    /\ req[r].pc = "revokeOthers"
    /\ sess' = RevokeAllUserSessionsExcept(req[r].sid)
    /\ Return(r)
    /\ UNCHANGED <<tokenVars, pwVer>>

\* The old auth key is checked before the transaction.
ChangeMasterPassword(r, n) ==
    /\ req[r].pc = "idle"
    /\ Authenticated(n)
    /\ pwVer < MaxPw
    /\ req' = [req EXCEPT ![r] = Begun("rotate", SessionOf(n), 0)]
    /\ UNCHANGED <<sess, tokenVars, pwVer>>

\* Variant: the other sessions' rows are revoked but their tokens are kept.
RotatePasswordKeepTokens(r) ==
    LET keep == req[r].sid
    IN  /\ req[r].pc = "rotate"
        /\ pwVer < MaxPw
        /\ pwVer' = pwVer + 1
        /\ sess' = [RevokeAllUserSessionsExcept(keep) EXCEPT
                      ![keep[1]].pw = pwVer + 1]
        /\ Return(r)
        /\ UNCHANGED tokenVars

\* One transaction: the new hash, every other row revoked, their tokens gone.
RotatePassword(r) ==
    LET keep == req[r].sid
    IN  /\ req[r].pc = "rotate"
        /\ pwVer < MaxPw
        /\ pwVer' = pwVer + 1
        /\ sess' = [RevokeAllUserSessionsExcept(keep) EXCEPT
                      ![keep[1]].pw = pwVer + 1]
        /\ DeleteByUser(keep)
        /\ Return(r)
        /\ UNCHANGED pairs

\* RecoveryComplete: the recovery session is consumed, then one transaction.
RecoveryTake(r) ==
    /\ req[r].pc = "idle"
    /\ pwVer < MaxPw
    /\ req' = [req EXCEPT ![r] = Begun("recover", NoSession, 0)]
    /\ UNCHANGED <<sess, tokenVars, pwVer>>

RecoveryComplete(r) ==
    /\ req[r].pc = "recover"
    /\ pwVer < MaxPw
    /\ pwVer' = pwVer + 1
    /\ sess' = RevokeAllUserSessions
    /\ DeleteByUser(NoSession)
    /\ Return(r)
    /\ UNCHANGED pairs

-----------------------------------------------------------------------------

\* The process dies or the client goes away between two calls.
Crash(r) ==
    /\ req[r].pc # "idle"
    /\ Return(r)
    /\ UNCHANGED <<sess, tokenVars, pwVer>>

\* PGTokenStore.Get ignores an expired row; auth_tokens_gc removes it.
ExpireAccess(n) ==
    /\ n \in access
    /\ access' = DeleteAuthToken(access, n)
    /\ UNCHANGED <<sess, pairs, refresh, pwVer, req>>

ExpireRefresh(n) ==
    /\ n \in refresh
    /\ refresh' = DeleteAuthToken(refresh, n)
    /\ UNCHANGED <<sess, pairs, access, pwVer, req>>

\* refresh_expires_at, or revoked_at, is more than a day past: a row whose
\* tokens have all expired, or that was revoked, whatever its tokens.
DeleteExpiredSessions(d) ==
    /\ sess[d].exists
    /\ sess[d].revoked \/ TokensOf(<<d, sess[d].id>>) \cap (access \cup refresh) = {}

\* sessions_gc.  No request lasts a day, so none is at work on the row.
SessionsGC(d) ==
    /\ DeleteExpiredSessions(d)
    /\ \A r \in Requests : req[r].sid[1] # d
    /\ sess' = [sess EXCEPT ![d] = [@ EXCEPT !.exists = FALSE, !.revoked = FALSE,
                                              !.key = 0, !.pw = 0]]
    /\ UNCHANGED <<tokenVars, pwVer, req>>

IssueStep(r) ==
    \/ IssueUpsert(r)
    \/ IssueClear(r)
    \/ IssueAccess(r)
    \/ IssueRefresh(r)
    \/ IssueStamp(r)
    \/ IssueError(r)

RefreshStep(r) ==
    \/ \E n \in DOMAIN pairs : RefreshValidate(r, n)
    \/ RefreshReadKey(r)
    \/ RefreshBurn(r)
    \/ RefreshRevokeOld(r)
    \/ RefreshClearOld(r)

RevokeStep(r) ==
    \/ \E n \in DOMAIN pairs :
         \/ Logout(r, n)
         \/ TerminateAllExceptCurrent(r, n)
         \/ ChangeMasterPassword(r, n)
         \/ \E sid \in Devices \X (1..MaxRows) : TerminateSession(r, n, sid)
    \/ RevokeTokens(r)
    \/ RevokeRow(r)
    \/ DropOthers(r)
    \/ RevokeOthers(r)
    \/ RotatePassword(r)
    \/ RecoveryTake(r)
    \/ RecoveryComplete(r)

Step ==
    \/ \E r \in Requests :
         \/ \E d \in Devices : Login(r, d)
         \/ IssueStep(r)
         \/ RefreshStep(r)
         \/ RevokeStep(r)
         \/ Crash(r)
    \/ \E n \in DOMAIN pairs : ExpireAccess(n) \/ ExpireRefresh(n)
    \/ \E d \in Devices : SessionsGC(d)

UnderWay == {r \in Requests : req[r].pc # "idle"}

Next == Step /\ overlap' = (overlap \/ \E r, q \in UnderWay' : r # q)

Spec == Init /\ [][Next]_vars

-----------------------------------------------------------------------------
(* Properties of any number of overlapping requests                        *)

Live == access \cup refresh

\* Two live refresh tokens (or access tokens) of one session were minted by
\* requests that overlapped: Issue clears the session before it mints, so a
\* session never holds more pairs than requests ran at once.
OnePairPerIssuer ==
    \A n, m \in Live :
        /\ SessionOf(n) = SessionOf(m)
        /\ pairs[n].by = pairs[m].by
        => n = m

\* Once Refresh has exchanged a pair, neither of its tokens is valid again,
\* even though Refresh ignores the errors of its own two revocations.
ExchangedIsDead == \A n \in Live : pairs[n].used = 0

-----------------------------------------------------------------------------
(* Properties that hold as long as no two requests have overlapped,        *)
(* crashes between any two store calls included                            *)

\* A token that still authenticates belongs to a session that ListSessions
\* shows its holder, as the current one, so that it can be terminated: every
\* handler deletes tokens before, or together with, revoking the row, and
\* sessions_gc leaves used rows alone.
LiveMeansOpen ==
    ~overlap =>
        \A n \in Live :
            /\ SessionOf(n) \in DOMAIN ListSessions(n)
            /\ ListSessions(n)[SessionOf(n)]

\* The refresh token a client holds, while valid, is the stamped one, so an
\* honest client is never answered ErrRefreshReuse.
ValidIsStamped ==
    ~overlap =>
        /\ \A n \in refresh \cap Delivered :
              GetSessionCurrentRefreshKey(SessionOf(n)) = {n}
        /\ \A r \in Requests : req[r].outcome # "reuse"

\* service.go on ChangeMasterPassword: all other sessions are revoked "so a
\* stolen password can't outlive the rotation": every live token belongs to a
\* session opened, or kept by a rotation, under the current password.
LiveKnowsPassword ==
    ~overlap => \A n \in Live \cap Delivered : sess[SessionOf(n)[1]].pw = pwVer

\* README.md: "replaying an old refresh token revokes the entire session": a
\* refresh with an exchanged pair leaves no valid token in its session.
ReplayRevokesSession ==
    \A r \in Requests :
        LET n == req[r].pair
        IN  /\ req[r].pc = "idle"
            /\ n # 0
            /\ req[r].outcome = "invalid"
            /\ pairs[n].used > 0
            => TokensOf(SessionOf(n)) \cap Live = {}
=============================================================================
