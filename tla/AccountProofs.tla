---------------------------- MODULE AccountProofs ---------------------------
(***************************************************************************)
(* Proofs about Account for every set of requests, every e-mail sender and *)
(* every bound.                                                            *)
(*                                                                         *)
(* The inductive invariant says of every account that its rows belong to   *)
(* one password, of every link which older ones are dead, and of every     *)
(* request what its locals still have to do with the rows: nothing, once a *)
(* rotation has overlapped it.                                             *)
(***************************************************************************)
EXTENDS Account, TLAPS

\* The rows of user u, while next is the next password to be chosen.
Whole(row, u, next) ==
    /\ row.exists => /\ row.vault # 0
                     /\ row.kdf = row.auth
                     /\ row.auth = row.vault
                     /\ row.pepper = u
                     /\ row.revoked <= row.auth
                     /\ row.auth < next
    /\ ~row.exists => row.revoked = 0
    /\ row.bundle # 0 /\ ~row.late => row.bundle >= row.revoked

UserInv == \A u \in DOMAIN users : Whole(users[u], u, pwNext)

\* A link dates back to a user, and the invalidation its request ran left
\* no active one among those of the user that existed then.
LinkInv ==
    \A j \in DOMAIN links :
        /\ links[j].user \in DOMAIN users
        /\ links[j].after < j
        /\ \A i \in DOMAIN links :
             i <= links[j].after /\ links[i].user = links[j].user
             => links[i].st # "active"

\* The steps at which a request works on a user.
OfUser == {"issue", "mail", "send", "stamp", "invalidate", "rotate", "recover",
           "setBundle", "clearBundle", "removePasskey", "append", "delete",
           "authorized", "opening"}

\* What the locals of a request are at each step, for the rows U, the links L
\* and the next password n.
Formed(q, U, L, n) ==
    /\ q.pc \in OfUser => q.user \in DOMAIN U
    /\ q.pc = "derived" => q.user = 0 \/ q.user \in DOMAIN U
    /\ q.pc = "inserted" => 0 < q.pw /\ q.pw < n
    /\ q.pc \in {"rotate", "recover"} => q.pepper = 0 \/ q.pepper = q.user
    /\ q.pc = "send" => q.link \in DOMAIN L
    /\ q.pc \notin {"mail", "send"} => q.after = 0
    /\ q.pc = "mail" =>
         /\ q.after <= Len(L)
         /\ \A i \in DOMAIN L :
              i <= q.after /\ L[i].user = q.user => L[i].st # "active"

\* What a request that no rotation overlapped knows of the rows of its user.
Current(q, U) ==
    /\ q.pc = "derived" /\ q.user # 0 /\ U[q.user].exists => U[q.user].kdf = q.pw
    /\ q.pc = "authorized" /\ U[q.user].exists => U[q.user].vault = q.pw
    /\ q.pc = "opening" => q.pw # 0 /\ q.vault = q.pw
    /\ q.pc = "setBundle" => q.pw >= U[q.user].revoked

ReqOK(q, U, L, n) == Formed(q, U, L, n) /\ (~q.overlap => Current(q, U))
ReqInv == \A r \in Requests : ReqOK(req[r], users, links, pwNext)

AccountInv == TypeOK /\ UserInv /\ LinkInv /\ ReqInv

-----------------------------------------------------------------------------
(* What the steps of other requests leave of what a request knows          *)

\* The rows x of a user become y by a step that is no rotation.
RowKeeps(x, y) ==
    /\ y.exists => /\ x.exists
                   /\ y.kdf = x.kdf
                   /\ y.auth = x.auth
                   /\ y.vault = x.vault
    /\ y.revoked <= x.revoked

RowsKeep(U, V) ==
    /\ DOMAIN U \subseteq DOMAIN V
    /\ \A u \in DOMAIN U : RowKeeps(U[u], V[u])

\* Links are never removed and never come back to life.
LinksKeep(L, K) ==
    /\ Len(L) <= Len(K)
    /\ \A i \in DOMAIN L : /\ K[i].user = L[i].user
                           /\ K[i].after = L[i].after
                           /\ K[i].st = "active" => L[i].st = "active"

\* What a request is, of the right shape, survives every step of the others.
LEMMA FormedKeeps ==
    ASSUME NEW q \in Request, NEW U \in Seq(User), NEW V \in Seq(User),
           NEW L \in Seq(Link), NEW K \in Seq(Link), NEW n \in Nat, NEW m \in Nat,
           DOMAIN U \subseteq DOMAIN V, LinksKeep(L, K), n <= m,
           Formed(q, U, L, n)
    PROVE  Formed(q, V, K, m)
<1>1. /\ q.pc \in OfUser => q.user \in DOMAIN V
      /\ q.pc = "derived" => q.user = 0 \/ q.user \in DOMAIN V
      /\ q.pc \in {"rotate", "recover"} => q.pepper = 0 \/ q.pepper = q.user
      /\ q.pc \notin {"mail", "send"} => q.after = 0
  BY Zenon DEF Formed
<1>2. q.pc = "inserted" => 0 < q.pw /\ q.pw < m
  BY DEF Formed, Request
<1>3. DOMAIN L = 1..Len(L) /\ DOMAIN K = 1..Len(K) /\ Len(L) \in Nat /\ Len(K) \in Nat
  OBVIOUS
<1>4. q.pc = "send" => q.link \in DOMAIN K
  BY <1>3 DEF Formed, LinksKeep
<1>5. ASSUME q.pc = "mail"
      PROVE  /\ q.after <= Len(K)
             /\ \A i \in DOMAIN K :
                  i <= q.after /\ K[i].user = q.user => K[i].st # "active"
  <2>1. q.after \in Nat
    BY Zenon DEF Request
  <2>2. q.after <= Len(L)
    BY <1>5, Zenon DEF Formed
  <2>3. ASSUME NEW i \in DOMAIN K, i <= q.after, K[i].user = q.user
        PROVE  K[i].st # "active"
    <3>1. i \in DOMAIN L
      BY <1>3, <2>1, <2>2, <2>3
    <3> QED
      BY <1>5, <2>3, <3>1, Zenon DEF Formed, LinksKeep
  <2> QED
    BY <1>3, <2>1, <2>2, <2>3 DEF LinksKeep
<1> QED
  BY <1>1, <1>2, <1>4, <1>5, Zenon DEF Formed

\* What a request knows of the rows survives every step that is no rotation.
LEMMA CurrentKeeps ==
    ASSUME NEW q \in Request, NEW U \in Seq(User), NEW V \in Seq(User),
           NEW L \in Seq(Link), NEW n \in Nat, RowsKeep(U, V),
           Formed(q, U, L, n), Current(q, U)
    PROVE  Current(q, V)
<1>1. CASE q.pc = "derived" /\ q.user # 0
  <2>1. q.user \in DOMAIN U
    BY <1>1, Zenon DEF Formed
  <2> QED
    BY <1>1, <2>1, Zenon DEF RowsKeep, RowKeeps, Current
<1>2. CASE q.pc \in {"authorized", "setBundle"}
  <2>1. q.user \in DOMAIN U /\ q.user \in DOMAIN V
    BY <1>2, Zenon DEF Formed, OfUser, RowsKeep
  <2>2. U[q.user] \in User /\ V[q.user] \in User
    BY <2>1
  <2>3. q.pw \in Nat /\ U[q.user].revoked \in Nat /\ V[q.user].revoked \in Nat
    BY <2>2, Zenon DEF User, Request
  <2>4. RowKeeps(U[q.user], V[q.user])
    BY <2>1, Zenon DEF RowsKeep
  <2> QED
    BY <1>2, <2>3, <2>4, SMTT(40) DEF RowKeeps, Current
<1>3. CASE ~(q.pc = "derived" /\ q.user # 0) /\ q.pc \notin {"authorized", "setBundle"}
  BY <1>3, Zenon DEF Current
<1> QED
  BY <1>1, <1>2, <1>3, Zenon

\* A step that is no rotation: a request that moves ends well, all others stay.
LEMMA StepKeeps ==
    ASSUME AccountInv, req' \in [Requests -> Request],
           users' \in Seq(User), links' \in Seq(Link), pwNext' \in 1..(MaxPw + 1),
           emailLock' \in Requests \cup {None}, pwNext <= pwNext',
           RowsKeep(users, users'), LinksKeep(links, links'), UserInv', LinkInv',
           \A p \in Requests : \/ req'[p] = req[p]
                               \/ ReqOK(req'[p], users', links', pwNext')
    PROVE  AccountInv'
<1>1. req \in [Requests -> Request] /\ users \in Seq(User) /\ links \in Seq(Link)
      /\ pwNext \in Nat /\ pwNext' \in Nat
  BY ConstantsAssumption DEF AccountInv, TypeOK
<1>2. TypeOK'
  BY Zenon DEF TypeOK
<1>3. ASSUME NEW p \in Requests, req'[p] = req[p]
      PROVE  ReqOK(req'[p], users', links', pwNext')
  <2>1. req[p] \in Request
    BY <1>1, Zenon
  <2>2. ReqOK(req[p], users, links, pwNext)
    BY Zenon DEF AccountInv, ReqInv
  <2>3. Formed(req[p], users', links', pwNext')
    BY <1>1, <2>1, <2>2, FormedKeeps, Zenon DEF ReqOK, RowsKeep
  <2>4. ~req[p].overlap => Current(req[p], users')
    BY <1>1, <2>1, <2>2, CurrentKeeps, Zenon DEF ReqOK
  <2> QED
    BY <1>3, <2>3, <2>4, Zenon DEF ReqOK
<1>4. ReqInv'
  BY <1>3, Zenon DEF ReqInv
<1> QED
  BY <1>2, <1>4, Zenon DEF AccountInv

\* One user's rows change, and no password.
LEMMA OneRow ==
    ASSUME AccountInv, NEW u \in DOMAIN users, NEW row \in User,
           users' = [users EXCEPT ![u] = row], pwNext' = pwNext,
           Whole(row, u, pwNext), RowKeeps(users[u], row)
    PROVE  /\ users' \in Seq(User)
           /\ DOMAIN users' = DOMAIN users
           /\ RowsKeep(users, users')
           /\ UserInv'
<1>1. users \in Seq(User) /\ UserInv
  BY Zenon DEF AccountInv, TypeOK
<1>2. users' \in Seq(User) /\ DOMAIN users' = DOMAIN users
  BY <1>1
<1>3. \A v \in DOMAIN users : users'[v] = IF v = u THEN row ELSE users[v]
  BY <1>1, Zenon
<1>4. \A v \in DOMAIN users : users[v] \in User
  BY <1>1
<1>5. \A v \in DOMAIN users : RowKeeps(users[v], users[v])
  BY <1>4 DEF RowKeeps, User
<1>6. RowsKeep(users, users')
  BY <1>2, <1>3, <1>5, Zenon DEF RowsKeep
<1>7. UserInv'
  BY <1>1, <1>2, <1>3, Zenon DEF UserInv
<1> QED
  BY <1>2, <1>6, <1>7, Zenon

\* No row changes and passwords are only added: every account stays whole.
LEMMA SameRows ==
    ASSUME AccountInv, users' = users, pwNext' \in Nat, pwNext <= pwNext'
    PROVE  /\ users' \in Seq(User)
           /\ RowsKeep(users, users')
           /\ UserInv'
<1>1. users \in Seq(User) /\ UserInv /\ pwNext \in Nat
  BY ConstantsAssumption DEF AccountInv, TypeOK
<1>2. \A v \in DOMAIN users : users[v] \in User
  BY <1>1
<1>3. \A v \in DOMAIN users : RowKeeps(users[v], users[v])
  BY <1>2 DEF RowKeeps, User
<1>4. ASSUME NEW v \in DOMAIN users
      PROVE  Whole(users[v], v, pwNext')
  <2>1. Whole(users[v], v, pwNext) /\ users[v].auth \in Nat
    BY <1>1, <1>2, Zenon DEF UserInv, User
  <2> QED
    BY <1>1, <2>1 DEF Whole
<1> QED
  BY <1>1, <1>3, <1>4, Zenon DEF RowsKeep, UserInv

\* The links keep their number, and users are only added.
LEMMA SameLinks ==
    ASSUME AccountInv, links' \in Seq(Link), Len(links') = Len(links),
           LinksKeep(links, links'), DOMAIN users \subseteq DOMAIN users'
    PROVE  LinkInv'
<1>1. links \in Seq(Link) /\ LinkInv
  BY Zenon DEF AccountInv, TypeOK
<1>2. DOMAIN links' = DOMAIN links
  BY <1>1
<1> QED
  BY <1>1, <1>2, ZenonT(40) DEF LinkInv, LinksKeep

\* No link changes and no user goes: what is known of the links stays.
LEMMA LinksStay ==
    ASSUME AccountInv, links' = links, DOMAIN users \subseteq DOMAIN users'
    PROVE  /\ links' \in Seq(Link)
           /\ LinksKeep(links, links')
           /\ LinkInv'
<1>1. links \in Seq(Link) /\ LinkInv
  BY Zenon DEF AccountInv, TypeOK
<1>2. LinksKeep(links, links')
  BY <1>1 DEF LinksKeep
<1> QED
  BY <1>1, <1>2, SameLinks, Zenon

-----------------------------------------------------------------------------
(* Steps that touch only the request, or the request and one user's rows   *)

\* The types of the rows, the links and the requests, one by one.
LEMMA Typed ==
    ASSUME AccountInv
    PROVE  /\ users \in Seq(User)
           /\ links \in Seq(Link)
           /\ pwNext \in 1..(MaxPw + 1)
           /\ pwNext \in Nat
           /\ req \in [Requests -> Request]
           /\ emailLock \in Requests \cup {None}
           /\ \A u \in DOMAIN users : users[u] \in User /\ Whole(users[u], u, pwNext)
           /\ \A r \in Requests : req[r] \in Request /\ ReqOK(req[r], users, links, pwNext)
BY ConstantsAssumption DEF AccountInv, TypeOK, UserInv, ReqInv

\* An idle request knows nothing, so it is right of any rows.
LEMMA IdleOK ==
    /\ IdleRequest \in Request
    /\ \A U, L, n : ReqOK(IdleRequest, U, L, n)
BY Zenon DEF IdleRequest, Request, ReqOK, Formed, Current, OfUser

\* A request that only reads keeps the invariant if what it read is right.
LEMMA LocalStep ==
    ASSUME AccountInv, NEW r \in Requests, NEW q \in Request,
           req' = [req EXCEPT ![r] = q], UNCHANGED <<users, links, pwNext>>,
           emailLock' \in Requests \cup {None},
           ReqOK(q, users, links, pwNext)
    PROVE  AccountInv'
<1>1. pwNext' \in Nat /\ pwNext <= pwNext' /\ pwNext' \in 1..(MaxPw + 1)
  BY Typed
<1>2. users' \in Seq(User) /\ RowsKeep(users, users') /\ UserInv'
  BY <1>1, SameRows, Zenon
<1>3. links' \in Seq(Link) /\ LinksKeep(links, links') /\ LinkInv'
  BY <1>2, LinksStay, Zenon DEF RowsKeep
<1>4. req' \in [Requests -> Request]
  BY Typed, Zenon
<1>5. \A p \in Requests : \/ req'[p] = req[p]
                          \/ ReqOK(req'[p], users', links', pwNext')
  BY Typed, Zenon
<1> QED
  BY <1>1, <1>2, <1>3, <1>4, <1>5, StepKeeps, Zenon

\* A row changed by a step that is no rotation, seen by every request.
LEMMA RowStep ==
    ASSUME AccountInv, NEW u \in DOMAIN users, NEW row \in User,
           users' = [users EXCEPT ![u] = row], UNCHANGED <<emailLock, links, pwNext>>,
           Whole(row, u, pwNext), RowKeeps(users[u], row),
           req' \in [Requests -> Request],
           \A p \in Requests : \/ req'[p] = req[p]
                               \/ ReqOK(req'[p], users', links', pwNext')
    PROVE  AccountInv'
<1>1. pwNext <= pwNext' /\ pwNext' \in 1..(MaxPw + 1) /\ emailLock' \in Requests \cup {None}
  BY Typed
<1>2. /\ users' \in Seq(User) /\ RowsKeep(users, users') /\ UserInv'
      /\ DOMAIN users' = DOMAIN users
  BY OneRow, Zenon
<1>3. links' \in Seq(Link) /\ LinksKeep(links, links') /\ LinkInv'
  BY <1>2, LinksStay, Zenon
<1> QED
  BY <1>1, <1>2, <1>3, StepKeeps, Zenon

-----------------------------------------------------------------------------
(* Requests: their types and what they begin with                          *)

PCs == {"idle", "inserted", "issue", "mail", "send", "stamp", "invalidate",
        "readKDF", "rotate", "recover", "setBundle", "clearBundle",
        "removePasskey", "append", "delete", "derived", "authorized", "opening"}

\* A request with some fields set is a request.
LEMMA RequestWith ==
    ASSUME NEW q \in Request
    PROVE  /\ \A pc \in PCs : [q EXCEPT !.pc = pc] \in Request
           /\ \A pc \in PCs, u \in Nat : [q EXCEPT !.pc = pc, !.user = u] \in Request
           /\ \A pc \in PCs, w \in Nat : [q EXCEPT !.pc = pc, !.pw = w] \in Request
           /\ \A pc \in PCs, u, w \in Nat :
                [q EXCEPT !.pc = pc, !.user = u, !.pw = w] \in Request
           /\ \A pc \in PCs, i \in Nat : [q EXCEPT !.pc = pc, !.link = i] \in Request
           /\ \A pc \in PCs, i \in Nat : [q EXCEPT !.pc = pc, !.after = i] \in Request
           /\ \A pc \in PCs, v \in Nat : [q EXCEPT !.pc = pc, !.vault = v] \in Request
           /\ \A n \in Nat : [q EXCEPT !.pepper = n] \in Request
           /\ [q EXCEPT !.overlap = TRUE] \in Request
<1>1. /\ \A pc \in PCs : [q EXCEPT !.pc = pc] \in Request
      /\ \A pc \in PCs, u \in Nat : [q EXCEPT !.pc = pc, !.user = u] \in Request
      /\ \A pc \in PCs, w \in Nat : [q EXCEPT !.pc = pc, !.pw = w] \in Request
  BY ZenonT(40) DEF Request, PCs
<1>2. \A pc \in PCs, u, w \in Nat :
        [q EXCEPT !.pc = pc, !.user = u, !.pw = w] \in Request
  BY ZenonT(40) DEF Request, PCs
<1>3. /\ \A pc \in PCs, i \in Nat : [q EXCEPT !.pc = pc, !.link = i] \in Request
      /\ \A pc \in PCs, i \in Nat : [q EXCEPT !.pc = pc, !.after = i] \in Request
      /\ \A pc \in PCs, v \in Nat : [q EXCEPT !.pc = pc, !.vault = v] \in Request
  BY ZenonT(40) DEF Request, PCs
<1>4. \A n \in Nat : [q EXCEPT !.pepper = n] \in Request
  BY Zenon DEF Request
<1>5. \A b \in BOOLEAN : [q EXCEPT !.overlap = b] \in Request
  BY Zenon DEF Request
<1> QED
  BY <1>1, <1>2, <1>3, <1>4, <1>5, Zenon

\* What a request that has just begun has in its locals: w is the password.
BegunAs(q, pc, u, w) ==
    /\ q \in Request
    /\ q.pc = pc
    /\ q.user = u
    /\ q.pw = w
    /\ q.pepper = 0
    /\ q.after = 0

\* What a request begins with.
LEMMA BegunIs ==
    ASSUME NEW pc \in PCs, NEW u \in Nat, NEW w \in Nat
    PROVE  /\ BegunAs([IdleRequest EXCEPT !.pc = pc, !.user = u, !.pw = w], pc, u, w)
           /\ BegunAs([IdleRequest EXCEPT !.pc = pc, !.user = u], pc, u, 0)
           /\ BegunAs([IdleRequest EXCEPT !.pc = pc, !.pw = w], pc, 0, w)
<1>1. /\ [IdleRequest EXCEPT !.pc = pc, !.user = u, !.pw = w] \in Request
      /\ [IdleRequest EXCEPT !.pc = pc, !.user = u] \in Request
      /\ [IdleRequest EXCEPT !.pc = pc, !.pw = w] \in Request
  BY RequestWith, IdleOK, Zenon
<1>2. BegunAs([IdleRequest EXCEPT !.pc = pc, !.user = u, !.pw = w], pc, u, w)
  BY <1>1, Zenon DEF BegunAs, IdleRequest
<1>3. BegunAs([IdleRequest EXCEPT !.pc = pc, !.user = u], pc, u, 0)
  BY <1>1, Zenon DEF BegunAs, IdleRequest
<1>4. BegunAs([IdleRequest EXCEPT !.pc = pc, !.pw = w], pc, 0, w)
  BY <1>1, Zenon DEF BegunAs, IdleRequest
<1> QED
  BY <1>2, <1>3, <1>4, Zenon

\* A request begins and has not written yet.
LEMMA BeginStep ==
    ASSUME AccountInv, NEW r \in Requests, NEW pc \in PCs, NEW u \in Nat, NEW w \in Nat,
           NEW q, BegunAs(q, pc, u, w), req' = [req EXCEPT ![r] = q],
           UNCHANGED <<users, emailLock, links, pwNext>>,
           pc \notin {"inserted", "send", "opening", "authorized"},
           (pc = "derived" /\ u = 0) \/ u \in DOMAIN users,
           pc = "derived" /\ u # 0 /\ users[u].exists => users[u].kdf = w,
           pc = "setBundle" => w >= users[u].revoked
    PROVE  AccountInv'
<1>1. /\ q \in Request /\ q.pc = pc /\ q.user = u /\ q.pw = w /\ q.pepper = 0
      /\ q.after = 0
  BY Zenon DEF BegunAs
<1>2. links \in Seq(Link)
  BY Typed, Zenon
<1>3. Formed(q, users, links, pwNext)
  BY <1>1, <1>2 DEF Formed, OfUser, PCs
<1>4. Current(q, users)
  BY <1>1, Zenon DEF Current
<1>5. emailLock' \in Requests \cup {None}
  BY Typed, Zenon
<1> QED
  BY <1>1, <1>3, <1>4, <1>5, LocalStep, Zenon DEF ReqOK

\* A handler that returns without having written.
LEMMA ReturnStep ==
    ASSUME AccountInv, NEW r \in Requests, Return(r),
           UNCHANGED <<users, links, pwNext>>, emailLock' \in Requests \cup {None}
    PROVE  AccountInv'
BY IdleOK, LocalStep, Zenon DEF Return

\* Handlers that find the user, read and come back later to write.
LEMMA BeginKeeps ==
    ASSUME AccountInv, NEW r \in Requests,
           \/ ResendVerification(r)
           \/ GetKDFParams(r)
           \/ \E u \in DOMAIN users :
                \/ ChangeMasterPassword(r, u) \/ RecoveryComplete(r, u)
                \/ EnablePasskeyUnlock(r, u) \/ DisablePasskeyUnlock(r, u)
                \/ RemoveCredential(r, u) \/ DeleteMe(r, u)
    PROVE  AccountInv'
<1>1. /\ users \in Seq(User) /\ DOMAIN users \subseteq Nat
      /\ \A u \in DOMAIN users : users[u] \in User /\ Whole(users[u], u, pwNext)
      /\ \A u \in DOMAIN users : /\ users[u].auth \in Nat /\ users[u].kdf \in Nat
                                 /\ users[u].revoked \in Nat
  <2>1. /\ users \in Seq(User)
        /\ \A u \in DOMAIN users : users[u] \in User /\ Whole(users[u], u, pwNext)
    BY Typed, Zenon
  <2>2. DOMAIN users = 1..Len(users) /\ Len(users) \in Nat
    BY <2>1
  <2>3. \A u \in DOMAIN users : /\ users[u].auth \in Nat /\ users[u].kdf \in Nat
                                /\ users[u].revoked \in Nat
    BY <2>1, Zenon DEF User
  <2> QED
    BY <2>1, <2>2, <2>3
<1>2. ASSUME NEW u \in DOMAIN users, NEW pc \in PCs, Begin(r, pc, u),
             UNCHANGED <<users, emailLock, links, pwNext>>,
             pc \in {"invalidate", "rotate", "recover", "append"}
      PROVE  AccountInv'
  <2> DEFINE q == [IdleRequest EXCEPT !.pc = pc, !.user = u]
  <2>1. u \in Nat /\ BegunAs(q, pc, u, 0)
    BY <1>1, BegunIs, Zenon
  <2>2. req' = [req EXCEPT ![r] = q]
    BY <1>2, Zenon DEF Begin
  <2> HIDE DEF q
  <2> QED
    BY <1>2, <2>1, <2>2, BeginStep, Zenon
<1>3. ASSUME NEW u \in DOMAIN users, NEW pc \in {"setBundle", "clearBundle", "removePasskey"},
             PasskeyHandler(r, u, pc)
      PROVE  AccountInv'
  <2> DEFINE w == users[u].auth
             q == [IdleRequest EXCEPT !.pc = pc, !.user = u, !.pw = w]
  <2>1. pc \in PCs /\ u \in Nat /\ w \in Nat /\ users[u].revoked \in Nat
    BY <1>1, Zenon DEF PCs
  <2>2. BegunAs(q, pc, u, w)
    BY <2>1, BegunIs, Zenon
  <2>3. req' = [req EXCEPT ![r] = q] /\ UNCHANGED <<users, emailLock, links, pwNext>>
    BY <1>3, Zenon DEF PasskeyHandler
  <2>4. w >= users[u].revoked
    BY <1>1, <1>3, <2>1, Zenon DEF PasskeyHandler, Authenticated, Whole
  <2> HIDE DEF q, w
  <2> QED
    BY <2>1, <2>2, <2>3, <2>4, BeginStep, Zenon
<1>4. CASE ResendVerification(r)
  BY <1>2, <1>4, Zenon DEF ResendVerification, GetUserByEmail, PCs
<1>5. CASE GetKDFParams(r)
  <2>0. "derived" \in PCs /\ UNCHANGED <<users, emailLock, links, pwNext>>
    BY <1>5, Zenon DEF GetKDFParams, PCs
  <2>1. CASE req' = [req EXCEPT ![r] = [IdleRequest EXCEPT !.pc = "derived",
                                                           !.pw = PseudoParams]]
    <3> DEFINE q == [IdleRequest EXCEPT !.pc = "derived", !.pw = 0]
    <3>1. BegunAs(q, "derived", 0, 0)
      BY <2>0, BegunIs, Zenon
    <3>2. req' = [req EXCEPT ![r] = q]
      BY <2>1, Zenon DEF PseudoParams
    <3> HIDE DEF q
    <3> QED
      BY <2>0, <3>1, <3>2, BeginStep, Zenon
  <2>2. ASSUME NEW u \in GetUserByEmail,
               req' = [req EXCEPT ![r] =
                        [IdleRequest EXCEPT !.pc = "derived", !.user = u,
                                            !.pw = GetUserKDFParamsRow(u)]]
        PROVE  AccountInv'
    <3> DEFINE w == users[u].kdf
               q == [IdleRequest EXCEPT !.pc = "derived", !.user = u, !.pw = w]
    <3>1. u \in DOMAIN users /\ u \in Nat /\ w \in Nat
      BY <1>1, Zenon DEF GetUserByEmail
    <3>2. BegunAs(q, "derived", u, w)
      BY <2>0, <3>1, BegunIs, Zenon
    <3>3. req' = [req EXCEPT ![r] = q]
      BY <2>2, Zenon DEF GetUserKDFParamsRow
    <3>4. w = users[u].kdf
      BY Zenon
    <3> HIDE DEF q, w
    <3> QED
      BY <2>0, <3>1, <3>2, <3>3, <3>4, BeginStep, Zenon
  <2> QED
    BY <1>5, <2>1, <2>2, Zenon DEF GetKDFParams
<1>6. ASSUME NEW u \in DOMAIN users,
             ChangeMasterPassword(r, u) \/ RecoveryComplete(r, u) \/ DeleteMe(r, u)
      PROVE  AccountInv'
  BY <1>2, <1>6, Zenon DEF ChangeMasterPassword, RecoveryComplete, DeleteMe, PCs
<1> QED
  BY <1>3, <1>4, <1>5, <1>6, Zenon DEF EnablePasskeyUnlock, DisablePasskeyUnlock, RemoveCredential

\* What holds of the request that takes the step.
LEMMA Taker ==
    ASSUME AccountInv, NEW r \in Requests
    PROVE  /\ req[r] \in Request
           /\ req[r].user \in Nat /\ req[r].pw \in Nat /\ req[r].pepper \in Nat
           /\ req[r].link \in Nat /\ req[r].after \in Nat /\ req[r].vault \in Nat
           /\ req[r].overlap \in BOOLEAN
           /\ Formed(req[r], users, links, pwNext)
           /\ ~req[r].overlap => Current(req[r], users)
<1>1. req[r] \in Request /\ ReqOK(req[r], users, links, pwNext)
  BY Typed, Zenon
<1>2. /\ req[r].user \in Nat /\ req[r].pw \in Nat /\ req[r].pepper \in Nat
      /\ req[r].link \in Nat /\ req[r].after \in Nat /\ req[r].vault \in Nat
      /\ req[r].overlap \in BOOLEAN
  BY <1>1, Zenon DEF Request
<1> QED
  BY <1>1, <1>2, Zenon DEF ReqOK

\* The columns of a row are of their types.
LEMMA Columns ==
    ASSUME AccountInv, NEW u \in DOMAIN users
    PROVE  /\ u \in Nat
           /\ users[u] \in User
           /\ users[u].exists \in BOOLEAN /\ users[u].passkey \in BOOLEAN
           /\ users[u].kdf \in Nat /\ users[u].auth \in Nat /\ users[u].vault \in Nat
           /\ users[u].pepper \in Nat /\ users[u].bundle \in Nat
           /\ users[u].revoked \in Nat /\ users[u].late \in BOOLEAN
           /\ Whole(users[u], u, pwNext)
<1>1. users \in Seq(User) /\ users[u] \in User /\ Whole(users[u], u, pwNext)
  BY Typed, Zenon
<1>2. u \in Nat
  <2>1. DOMAIN users = 1..Len(users) /\ Len(users) \in Nat
    BY <1>1
  <2> QED
    BY <2>1
<1>3. /\ users[u].exists \in BOOLEAN /\ users[u].passkey \in BOOLEAN
      /\ users[u].kdf \in Nat /\ users[u].auth \in Nat /\ users[u].vault \in Nat
      /\ users[u].pepper \in Nat /\ users[u].bundle \in Nat
      /\ users[u].revoked \in Nat /\ users[u].late \in BOOLEAN
  BY <1>1, Zenon DEF User
<1> QED
  BY <1>1, <1>2, <1>3, Zenon

\* The second call of a sign-in finds the password the first one derived.
LEMMA AuthorizeKeeps ==
    ASSUME AccountInv, NEW r \in Requests, Authorize(r)
    PROVE  AccountInv'
<1>1. PICK u \in DOMAIN users :
        /\ users[u].exists
        /\ users[u].auth = req[r].pw
        /\ req' = [req EXCEPT ![r].pc = "authorized", ![r].user = u]
  BY Zenon DEF Authorize, GetUserByEmail
<1> DEFINE q == [req[r] EXCEPT !.pc = "authorized", !.user = u]
<1>2. req[r].pc = "derived" /\ UNCHANGED <<users, emailLock, links, pwNext>>
  BY Zenon DEF Authorize, At
<1>3. q \in Request
  <2>1. "authorized" \in PCs /\ u \in Nat /\ req[r] \in Request
    BY Columns, Taker, Zenon DEF PCs
  <2> QED
    BY <2>1, RequestWith, Zenon
<1>4. /\ q.pc = "authorized" /\ q.user = u /\ q.pw = req[r].pw
      /\ q.after = req[r].after
  BY Taker, Zenon DEF Request
<1>5. req' = [req EXCEPT ![r] = q] /\ emailLock' \in Requests \cup {None}
  BY <1>1, <1>2, Typed, Zenon
<1> HIDE DEF q
<1>6. Formed(q, users, links, pwNext)
  BY <1>2, <1>4, Taker, Zenon DEF Formed, OfUser
<1>7. Current(q, users)
  BY <1>1, <1>4, Columns, Zenon DEF Current, Whole
<1> QED
  BY <1>2, <1>3, <1>5, <1>6, <1>7, LocalStep, Zenon DEF ReqOK

\* The unlock page is given the wrapped vault key.
LEMMA GetMyKeysKeeps ==
    ASSUME AccountInv, NEW r \in Requests, GetMyKeys(r)
    PROVE  AccountInv'
<1> DEFINE u == req[r].user
           v == users[u].vault
           q == [req[r] EXCEPT !.pc = "opening", !.vault = v]
<1>1. /\ req[r].pc = "derived" /\ u # 0 /\ users[u].exists
      /\ UNCHANGED <<users, emailLock, links, pwNext>>
  BY Zenon DEF GetMyKeys, At, Authenticated
<1>2. u \in DOMAIN users
  BY <1>1, Taker, Zenon DEF Formed
<1>3. q \in Request
  <2>1. "opening" \in PCs /\ v \in Nat /\ req[r] \in Request
    BY <1>2, Columns, Taker, Zenon DEF PCs
  <2> QED
    BY <2>1, RequestWith, Zenon
<1>4. /\ q.pc = "opening" /\ q.user = u /\ q.pw = req[r].pw
      /\ q.after = req[r].after /\ q.vault = v /\ q.overlap = req[r].overlap
  BY Taker, Zenon DEF Request
<1>5. req' = [req EXCEPT ![r] = q] /\ emailLock' \in Requests \cup {None}
  BY <1>1, Typed, Zenon DEF GetMyKeys, GetUserVault
<1>6. Formed(q, users, links, pwNext)
  <2> HIDE DEF q, v
  <2> QED
    BY <1>1, <1>2, <1>4, Taker, Zenon DEF Formed, OfUser
<1>7. ~q.overlap => Current(q, users)
  <2>1. ~req[r].overlap => users[u].kdf = req[r].pw
    BY <1>1, Taker, Zenon DEF Current
  <2>2. users[u].kdf = v /\ v # 0
    BY <1>1, <1>2, Columns, Zenon DEF Whole
  <2> HIDE DEF q, v
  <2> QED
    BY <1>4, <2>1, <2>2, Zenon DEF Current
<1> HIDE DEF q
<1> QED
  BY <1>1, <1>3, <1>5, <1>6, <1>7, LocalStep, Zenon DEF ReqOK

\* The pepper read back is the user's own.
LEMMA GetPepperKeeps ==
    ASSUME AccountInv, NEW r \in Requests, GetUserKDFParams(r)
    PROVE  AccountInv'
<1> DEFINE u == req[r].user
           n == users[u].pepper
           q == [req[r] EXCEPT !.pepper = n]
<1>1. /\ req[r].pc \in {"rotate", "recover"} /\ users[u].exists
      /\ UNCHANGED <<users, emailLock, links, pwNext>>
  BY Zenon DEF GetUserKDFParams
<1>2. u \in DOMAIN users
  BY <1>1, Taker, Zenon DEF Formed, OfUser
<1>3. n \in Nat /\ n = u
  BY <1>1, <1>2, Columns, Zenon DEF Whole
<1>4. q \in Request
  BY <1>3, Taker, RequestWith, Zenon
<1>5. /\ q.pc = req[r].pc /\ q.user = u /\ q.after = req[r].after /\ q.pepper = n
  BY Taker, Zenon DEF Request
<1>6. req' = [req EXCEPT ![r] = q] /\ emailLock' \in Requests \cup {None}
  BY <1>1, Typed, Zenon DEF GetUserKDFParams
<1> HIDE DEF q, n
<1>7. Formed(q, users, links, pwNext)
  BY <1>1, <1>2, <1>3, <1>5, Taker, Zenon DEF Formed, OfUser
<1>8. Current(q, users)
  BY <1>1, <1>5, Zenon DEF Current
<1> QED
  BY <1>1, <1>4, <1>6, <1>7, <1>8, LocalStep, Zenon DEF ReqOK

\* DeleteMe writes its audit row.
LEMMA DeleteAppendKeeps ==
    ASSUME AccountInv, NEW r \in Requests, DeleteAppend(r)
    PROVE  AccountInv'
<1> DEFINE q == [req[r] EXCEPT !.pc = "delete"]
<1>1. req[r].pc = "append" /\ UNCHANGED <<users, emailLock, links, pwNext>>
  BY Zenon DEF DeleteAppend, At
<1>2. q \in Request
  <2>1. "delete" \in PCs /\ req[r] \in Request
    BY Taker, Zenon DEF PCs
  <2> QED
    BY <2>1, RequestWith, Zenon
<1>3. q.pc = "delete" /\ q.user = req[r].user /\ q.after = req[r].after
  BY Taker, Zenon DEF Request
<1>4. req' = [req EXCEPT ![r] = q] /\ emailLock' \in Requests \cup {None}
  BY <1>1, Typed, Zenon DEF DeleteAppend, Goto
<1> HIDE DEF q
<1>5. Formed(q, users, links, pwNext)
  BY <1>1, <1>3, Taker, Zenon DEF Formed, OfUser
<1>6. Current(q, users)
  BY <1>3, Zenon DEF Current
<1> QED
  BY <1>1, <1>2, <1>4, <1>5, <1>6, LocalStep, Zenon DEF ReqOK

\* A handler fails or its client goes away, anywhere.
LEMMA AbandonKeeps ==
    ASSUME AccountInv, NEW r \in Requests, Abandon(r)
    PROVE  AccountInv'
BY ReturnStep, Typed, Zenon DEF Abandon

-----------------------------------------------------------------------------
(* Statements on the rows of one user that choose no password              *)

\* The rows x of user u become y, and stay whole.
KeptAs(x, y, u, n) == y \in User /\ Whole(y, u, n) /\ RowKeeps(x, y)

\* Neither the session, the verification nor the passkey touches a key.
LEMMA StatementsKeep ==
    ASSUME NEW x \in User, NEW u \in Nat, NEW n \in Nat, Whole(x, u, n)
    PROVE  /\ \A b \in BOOLEAN : KeptAs(x, [x EXCEPT !.session = b], u, n)
           /\ KeptAs(x, MarkEmailVerified(x), u, n)
           /\ KeptAs(x, CreateWebAuthnCredential(x), u, n)
           /\ KeptAs(x, DeleteWebAuthnCredential(x), u, n)
           /\ KeptAs(x, ClearWebAuthnUnlockBundle(x), u, n)
           /\ \A w \in Nat, b \in BOOLEAN :
                (~b => w >= x.revoked)
                => KeptAs(x, SetWebAuthnUnlockBundle(x, w, b), u, n)
<1>0. x.revoked \in Nat /\ x.bundle \in Nat
  BY Zenon DEF User
<1>1. ASSUME NEW b \in BOOLEAN PROVE KeptAs(x, [x EXCEPT !.session = b], u, n)
  <2>1. [x EXCEPT !.session = b] \in User
    BY Zenon DEF User
  <2> QED
    BY <1>0, <2>1 DEF KeptAs, Whole, RowKeeps, User
<1>2. ASSUME NEW b \in BOOLEAN PROVE KeptAs(x, [x EXCEPT !.verified = b], u, n)
  <2>1. [x EXCEPT !.verified = b] \in User
    BY Zenon DEF User
  <2> QED
    BY <1>0, <2>1 DEF KeptAs, Whole, RowKeeps, User
<1>3. ASSUME NEW p \in BOOLEAN, NEW w \in Nat, NEW b \in BOOLEAN, w # 0 /\ ~b => w >= x.revoked
      PROVE  /\ KeptAs(x, [x EXCEPT !.passkey = p, !.bundle = w, !.late = b], u, n)
             /\ KeptAs(x, [x EXCEPT !.bundle = w, !.late = b], u, n)
  <2>1. /\ [x EXCEPT !.passkey = p, !.bundle = w, !.late = b] \in User
        /\ [x EXCEPT !.bundle = w, !.late = b] \in User
    BY Zenon DEF User
  <2>2. KeptAs(x, [x EXCEPT !.passkey = p, !.bundle = w, !.late = b], u, n)
    BY <1>0, <1>3, <2>1 DEF KeptAs, Whole, RowKeeps, User
  <2>3. KeptAs(x, [x EXCEPT !.bundle = w, !.late = b], u, n)
    BY <1>0, <1>3, <2>1 DEF KeptAs, Whole, RowKeeps, User
  <2> QED
    BY <2>2, <2>3, Zenon
<1>4. KeptAs(x, x, u, n)
  BY <1>0 DEF KeptAs, RowKeeps
<1>5. TRUE \in BOOLEAN /\ FALSE \in BOOLEAN /\ 0 \in Nat
  BY Zenon
<1>6. KeptAs(x, MarkEmailVerified(x), u, n)
  BY <1>2, <1>5, Zenon DEF MarkEmailVerified
<1>7. /\ KeptAs(x, CreateWebAuthnCredential(x), u, n)
      /\ KeptAs(x, DeleteWebAuthnCredential(x), u, n)
      /\ KeptAs(x, ClearWebAuthnUnlockBundle(x), u, n)
  BY <1>3, <1>5, Zenon
     DEF CreateWebAuthnCredential, DeleteWebAuthnCredential, ClearWebAuthnUnlockBundle
<1>8. ASSUME NEW w \in Nat, NEW b \in BOOLEAN, ~b => w >= x.revoked
      PROVE  KeptAs(x, SetWebAuthnUnlockBundle(x, w, b), u, n)
  BY <1>3, <1>4, <1>5, <1>8, Zenon DEF SetWebAuthnUnlockBundle
<1> QED
  BY <1>1, <1>6, <1>7, <1>8, Zenon

\* A statement on the rows of a user, and the request goes on as q.
LEMMA RowMove ==
    ASSUME AccountInv, NEW r \in Requests, NEW q \in Request, NEW u \in DOMAIN users,
           NEW y, KeptAs(users[u], y, u, pwNext),
           users' = [users EXCEPT ![u] = y], req' = [req EXCEPT ![r] = q],
           UNCHANGED <<emailLock, links, pwNext>>,
           ReqOK(q, users', links, pwNext)
    PROVE  AccountInv'
<1>1. req' \in [Requests -> Request] /\ \A p \in Requests : req'[p] = req[p] \/ req'[p] = q
  BY Typed, Zenon
<1>2. y \in User /\ Whole(y, u, pwNext) /\ RowKeeps(users[u], y)
  BY Zenon DEF KeptAs
<1>3. \A p \in Requests : req'[p] = req[p] \/ ReqOK(req'[p], users', links', pwNext')
  BY <1>1, Zenon
<1> QED
  BY <1>1, <1>2, <1>3, RowStep, Zenon

\* A handler that writes a row of its user and returns.
LEMMA RowReturn ==
    ASSUME AccountInv, NEW r \in Requests, NEW u \in DOMAIN users,
           NEW y, KeptAs(users[u], y, u, pwNext),
           users' = [users EXCEPT ![u] = y], Return(r),
           UNCHANGED <<emailLock, links, pwNext>>
    PROVE  AccountInv'
BY IdleOK, RowMove, Zenon DEF Return

\* Register's first session, once the account is committed.
LEMMA RegisterIssueKeeps ==
    ASSUME AccountInv, NEW r \in Requests, RegisterIssue(r)
    PROVE  AccountInv'
<1> DEFINE u == req[r].user
           q == [req[r] EXCEPT !.pc = "mail"]
           y == [users[u] EXCEPT !.session = TRUE]
<1>1. req[r].pc = "issue" /\ UNCHANGED <<emailLock, links, pwNext>>
  BY Zenon DEF RegisterIssue, At
<1>2. u \in DOMAIN users
  BY <1>1, Taker, Zenon DEF Formed, OfUser
<1>3. CASE users[u].exists
  <2>1. q \in Request
    <3>1. "mail" \in PCs /\ req[r] \in Request
      BY Taker, Zenon DEF PCs
    <3> QED
      BY <3>1, RequestWith, Zenon
  <2>2. q.pc = "mail" /\ q.user = u /\ q.after = req[r].after
    BY Taker, Zenon DEF Request
  <2>3. KeptAs(users[u], y, u, pwNext)
    <3>1. TRUE \in BOOLEAN /\ pwNext \in Nat
      BY Typed, Zenon
    <3> QED
      BY <1>2, <3>1, Columns, StatementsKeep, Zenon
  <2>4. users' = [users EXCEPT ![u] = y] /\ req' = [req EXCEPT ![r] = q]
    BY <1>3, Zenon DEF RegisterIssue, Goto
  <2>5. DOMAIN users' = DOMAIN users
    BY <2>4, Typed, Zenon
  <2>6. DOMAIN links = 1..Len(links) /\ Len(links) \in Nat
    BY Typed
  <2> HIDE DEF q, y
  <2>7. ReqOK(q, users', links, pwNext)
    BY <1>1, <1>2, <2>2, <2>5, <2>6, Taker DEF ReqOK, Formed, Current, OfUser
  <2> QED
    BY <1>1, <1>2, <2>1, <2>3, <2>4, <2>7, RowMove, Zenon
<1>4. CASE ~users[u].exists
  BY <1>1, <1>4, ReturnStep, Typed, Zenon DEF RegisterIssue
<1> QED
  BY <1>3, <1>4, Zenon

\* issueAuthorized reads the vault key of the password it has just checked.
LEMMA IssueAuthorizedKeeps ==
    ASSUME AccountInv, NEW r \in Requests, IssueAuthorized(r)
    PROVE  AccountInv'
<1> DEFINE u == req[r].user
           v == users[u].vault
           q == [req[r] EXCEPT !.pc = "opening", !.vault = v]
           y == [users[u] EXCEPT !.session = TRUE]
<1>1. /\ req[r].pc = "authorized" /\ users[u].exists
      /\ UNCHANGED <<emailLock, links, pwNext>>
  BY Zenon DEF IssueAuthorized, At
<1>2. u \in DOMAIN users
  BY <1>1, Taker, Zenon DEF Formed, OfUser
<1>3. q \in Request
  <2>1. "opening" \in PCs /\ v \in Nat /\ req[r] \in Request
    BY <1>2, Columns, Taker, Zenon DEF PCs
  <2> QED
    BY <2>1, RequestWith, Zenon
<1>4. /\ q.pc = "opening" /\ q.user = u /\ q.pw = req[r].pw
      /\ q.after = req[r].after /\ q.vault = v /\ q.overlap = req[r].overlap
  BY Taker, Zenon DEF Request
<1>5. KeptAs(users[u], y, u, pwNext)
  <2>1. TRUE \in BOOLEAN /\ pwNext \in Nat
    BY Typed, Zenon
  <2> QED
    BY <1>2, <2>1, Columns, StatementsKeep, Zenon
<1>6. users' = [users EXCEPT ![u] = y] /\ req' = [req EXCEPT ![r] = q]
  BY Zenon DEF IssueAuthorized, GetUserVault
<1>7. DOMAIN users' = DOMAIN users
  BY <1>6, Typed, Zenon
<1>8. v # 0 /\ (~req[r].overlap => v = req[r].pw)
  BY <1>1, <1>2, Columns, Taker, Zenon DEF Whole, Current
<1> HIDE DEF q, y, v
<1>9. ReqOK(q, users', links, pwNext)
  BY <1>1, <1>2, <1>4, <1>7, <1>8, Taker, Zenon DEF ReqOK, Formed, Current, OfUser
<1> QED
  BY <1>1, <1>2, <1>3, <1>5, <1>6, <1>9, RowMove, Zenon

\* VerifyEmail stamps the user after it has consumed the link.
LEMMA VerifyStampKeeps ==
    ASSUME AccountInv, NEW r \in Requests, VerifyEmailStamp(r)
    PROVE  AccountInv'
<1> DEFINE u == req[r].user
<1>1. req[r].pc = "stamp" /\ Return(r) /\ UNCHANGED <<emailLock, links, pwNext>>
  BY Zenon DEF VerifyEmailStamp, At
<1>2. u \in DOMAIN users
  BY <1>1, Taker, Zenon DEF Formed, OfUser
<1>3. CASE users[u].exists
  <2>1. KeptAs(users[u], MarkEmailVerified(users[u]), u, pwNext)
    BY <1>2, Typed, Columns, StatementsKeep, Zenon
  <2>2. users' = [users EXCEPT ![u] = MarkEmailVerified(users[u])]
    BY <1>3, Zenon DEF VerifyEmailStamp
  <2> QED
    BY <1>1, <1>2, <2>1, <2>2, RowReturn, Zenon
<1>4. CASE ~users[u].exists
  BY <1>1, <1>4, ReturnStep, Typed, Zenon DEF VerifyEmailStamp
<1> QED
  BY <1>3, <1>4, Zenon

\* Steps of no request: a session ends, a passkey is registered.
LEMMA SessionEndsKeeps ==
    ASSUME AccountInv, NEW u \in DOMAIN users, SessionEnds(u) \/ RegisterPasskey(u)
    PROVE  AccountInv'
<1>1. /\ KeptAs(users[u], [users[u] EXCEPT !.session = FALSE], u, pwNext)
      /\ KeptAs(users[u], CreateWebAuthnCredential(users[u]), u, pwNext)
  <2>1. FALSE \in BOOLEAN /\ pwNext \in Nat
    BY Typed, Zenon
  <2> QED
    BY <2>1, Columns, StatementsKeep, Zenon
<1>2. PICK y : KeptAs(users[u], y, u, pwNext) /\ users' = [users EXCEPT ![u] = y]
  <2>1. CASE SessionEnds(u)
    <3>1. users' = [users EXCEPT ![u] = [users[u] EXCEPT !.session = FALSE]]
      BY <2>1, Zenon DEF SessionEnds
    <3> QED
      BY <1>1, <3>1, Zenon
  <2>2. CASE RegisterPasskey(u)
    <3>1. users' = [users EXCEPT ![u] = CreateWebAuthnCredential(users[u])]
      BY <2>2, Zenon DEF RegisterPasskey
    <3> QED
      BY <1>1, <3>1, Zenon
  <2> QED
    BY <2>1, <2>2, Zenon
<1>3. UNCHANGED <<emailLock, links, pwNext, req>>
  BY Zenon DEF SessionEnds, RegisterPasskey
<1>4. y \in User /\ Whole(y, u, pwNext) /\ RowKeeps(users[u], y)
  BY <1>2, Zenon DEF KeptAs
<1>5. req' \in [Requests -> Request] /\ \A p \in Requests : req'[p] = req[p]
  BY <1>3, Typed, Zenon
<1> QED
  BY <1>2, <1>3, <1>4, <1>5, RowStep, Zenon

\* A bundle is written on the password its request proved, if that is still
\* later than the last revocation, or marked late.
LEMMA PasskeyCommitKeeps ==
    ASSUME AccountInv, NEW r \in Requests, PasskeyCommit(r)
    PROVE  AccountInv'
<1> DEFINE u == req[r].user
<1>1. /\ req[r].pc \in {"setBundle", "clearBundle", "removePasskey"}
      /\ Return(r) /\ UNCHANGED <<emailLock, links, pwNext>>
  BY Zenon DEF PasskeyCommit
<1>2. u \in DOMAIN users
  BY <1>1, Taker, Zenon DEF Formed, OfUser
<1>3. CASE req[r].pc = "setBundle"
  <2>1. ~req[r].overlap => req[r].pw >= users[u].revoked
    BY <1>3, Taker, Zenon DEF Current
  <2>2. KeptAs(users[u], SetWebAuthnUnlockBundle(users[u], req[r].pw, req[r].overlap), u, pwNext)
    BY <1>2, <2>1, Typed, Taker, Columns, StatementsKeep, Zenon
  <2>3. users' = [users EXCEPT ![u] =
                    SetWebAuthnUnlockBundle(users[u], req[r].pw, req[r].overlap)]
    BY <1>3, Zenon DEF PasskeyCommit, At
  <2> QED
    BY <1>1, <1>2, <2>2, <2>3, RowReturn, Zenon
<1>4. CASE req[r].pc = "clearBundle"
  <2>1. KeptAs(users[u], ClearWebAuthnUnlockBundle(users[u]), u, pwNext)
    BY <1>2, Typed, Columns, StatementsKeep, Zenon
  <2>2. users' = [users EXCEPT ![u] = ClearWebAuthnUnlockBundle(users[u])]
    BY <1>4, Zenon DEF PasskeyCommit, At
  <2> QED
    BY <1>1, <1>2, <2>1, <2>2, RowReturn, Zenon
<1>5. CASE req[r].pc = "removePasskey"
  <2>1. KeptAs(users[u], DeleteWebAuthnCredential(users[u]), u, pwNext)
    BY <1>2, Typed, Columns, StatementsKeep, Zenon
  <2>2. users' = [users EXCEPT ![u] = DeleteWebAuthnCredential(users[u])]
    BY <1>5, Zenon DEF PasskeyCommit, At
  <2> QED
    BY <1>1, <1>2, <2>1, <2>2, RowReturn, Zenon
<1> QED
  BY <1>1, <1>3, <1>4, <1>5, Zenon

-----------------------------------------------------------------------------
(* Register                                                                *)

\* Register holds the address's index entry from its insert on.
LEMMA RegisterInsertKeeps ==
    ASSUME AccountInv, NEW r \in Requests, RegisterInsert(r)
    PROVE  AccountInv'
<1> DEFINE q == [IdleRequest EXCEPT !.pc = "inserted", !.pw = pwNext]
<1>1. /\ pwNext \in Nat /\ pwNext > 0 /\ pwNext' = pwNext + 1
      /\ pwNext' \in 1..(MaxPw + 1) /\ pwNext <= pwNext' /\ pwNext' \in Nat
  BY ConstantsAssumption, Typed DEF RegisterInsert
<1>2. BegunAs(q, "inserted", 0, pwNext)
  BY <1>1, BegunIs, Zenon DEF PCs
<1>3. /\ req' = [req EXCEPT ![r] = q] /\ users' = users /\ links' = links
      /\ emailLock' \in Requests \cup {None}
  BY Zenon DEF RegisterInsert
<1> HIDE DEF q
<1>4. users' \in Seq(User) /\ RowsKeep(users, users') /\ UserInv'
  BY <1>1, <1>3, SameRows, Zenon
<1>5. links' \in Seq(Link) /\ LinksKeep(links, links') /\ LinkInv'
  BY <1>3, LinksStay, Zenon
<1>6. ReqOK(q, users', links', pwNext')
  BY <1>1, <1>2 DEF BegunAs, ReqOK, Formed, Current, OfUser
<1>7. /\ req' \in [Requests -> Request]
      /\ \A p \in Requests : req'[p] = req[p] \/ ReqOK(req'[p], users', links', pwNext')
  BY <1>2, <1>3, <1>6, Typed, Zenon DEF BegunAs
<1> QED
  BY <1>1, <1>3, <1>4, <1>5, <1>7, StepKeeps, Zenon

\* The rows of a fresh account come from the password it was registered with.
LEMMA FreshRow ==
    ASSUME NEW u \in Nat, NEW pw \in Nat, NEW n \in Nat, 0 < pw, pw < n
    PROVE  LET row == CreateUserVault(
                        UpsertUserAuth(UpsertUserKDFParams(CreateUser, pw, u), pw), pw)
           IN  row \in User /\ Whole(row, u, n)
<1> DEFINE a == [CreateUser EXCEPT !.kdf = pw, !.pepper = u]
           b == [a EXCEPT !.auth = pw]
           c == [b EXCEPT !.vault = pw]
<1>1. CreateUser \in User
  BY Zenon DEF CreateUser, User
<1>2. \A x \in User : \A w, v \in Nat : [x EXCEPT !.kdf = w, !.pepper = v] \in User
  BY Zenon DEF User
<1>3. \A x \in User : \A w \in Nat : [x EXCEPT !.auth = w] \in User
  BY Zenon DEF User
<1>4. \A x \in User : \A w \in Nat : [x EXCEPT !.vault = w] \in User
  BY Zenon DEF User
<1>5. a \in User /\ b \in User /\ c \in User
  BY <1>1, <1>2, <1>3, <1>4, Zenon
<1>6. /\ c.exists = TRUE /\ c.kdf = pw /\ c.auth = pw /\ c.vault = pw /\ c.pepper = u
      /\ c.bundle = 0 /\ c.revoked = 0
  BY Zenon DEF CreateUser
<1>7. Whole(c, u, n)
  <2> HIDE DEF c
  <2> QED
    BY <1>6 DEF Whole
<1> QED
  BY <1>5, <1>7, Zenon DEF CreateUserVault, UpsertUserAuth, UpsertUserKDFParams

\* Register commits all rows of the account at once.
LEMMA RegisterCommitKeeps ==
    ASSUME AccountInv, NEW r \in Requests, RegisterCommit(r)
    PROVE  AccountInv'
<1> DEFINE u == Len(users) + 1
           pw == req[r].pw
           row == CreateUserVault(
                    UpsertUserAuth(UpsertUserKDFParams(CreateUser, pw, u), pw), pw)
           q == [req[r] EXCEPT !.pc = "issue", !.user = u]
<1>1. /\ req[r].pc = "inserted" /\ users' = Append(users, row) /\ emailLock' = None
      /\ links' = links /\ pwNext' = pwNext
      /\ req' = [req EXCEPT ![r] = q]
  BY Typed, Zenon DEF RegisterCommit, At
<1>2. users \in Seq(User) /\ u \in Nat /\ pw \in Nat /\ pwNext \in Nat /\ 0 < pw /\ pw < pwNext
  BY <1>1, Typed, Taker DEF Formed
<1>3. row \in User /\ Whole(row, u, pwNext)
  BY <1>2, FreshRow, Zenon
<1>4. q \in Request
  <2>1. "issue" \in PCs /\ req[r] \in Request
    BY Taker, Zenon DEF PCs
  <2> QED
    BY <1>2, <2>1, RequestWith, Zenon
<1>5. q.pc = "issue" /\ q.user = u /\ q.after = req[r].after
  BY Taker, Zenon DEF Request
<1> HIDE DEF row, q
<1>6. /\ users' \in Seq(User) /\ DOMAIN users' = DOMAIN users \cup {u}
      /\ users'[u] = row /\ \A v \in DOMAIN users : users'[v] = users[v]
  BY <1>1, <1>2, <1>3
<1>7. RowsKeep(users, users')
  <2>1. \A v \in DOMAIN users : RowKeeps(users[v], users[v])
    BY Columns DEF RowKeeps
  <2> QED
    BY <1>6, <2>1, Zenon DEF RowsKeep
<1>8. UserInv'
  BY <1>1, <1>3, <1>6, Typed, Zenon DEF UserInv
<1>9. links' \in Seq(Link) /\ LinksKeep(links, links') /\ LinkInv'
  BY <1>1, <1>6, LinksStay, Zenon
<1>10. ReqOK(q, users', links', pwNext')
  BY <1>1, <1>5, <1>6, Taker, Zenon DEF ReqOK, Formed, Current, OfUser
<1>11. /\ req' \in [Requests -> Request]
       /\ \A p \in Requests : req'[p] = req[p] \/ ReqOK(req'[p], users', links', pwNext')
  BY <1>1, <1>4, <1>10, Typed, Zenon
<1>12. pwNext' \in 1..(MaxPw + 1) /\ pwNext <= pwNext'
  BY <1>1, <1>2, Typed
<1> QED
  BY <1>1, <1>6, <1>7, <1>8, <1>9, <1>11, <1>12, StepKeeps, Zenon

-----------------------------------------------------------------------------
(* Verification links                                                      *)

\* The types of the links, one by one.
LEMMA LinkTypes ==
    ASSUME AccountInv
    PROVE  /\ links \in Seq(Link)
           /\ DOMAIN links = 1..Len(links)
           /\ Len(links) \in Nat
           /\ \A i \in DOMAIN links :
                /\ i \in Nat
                /\ links[i] \in Link
                /\ links[i].user \in DOMAIN users
                /\ links[i].user \in Nat
                /\ links[i].after \in Nat
<1>1. links \in Seq(Link) /\ LinkInv
  BY Zenon DEF AccountInv, TypeOK
<1>2. DOMAIN links = 1..Len(links) /\ Len(links) \in Nat
  BY <1>1
<1>3. \A i \in DOMAIN links : links[i] \in Link
  BY <1>1
<1>4. \A i \in DOMAIN links : links[i].user \in Nat /\ links[i].after \in Nat
  BY <1>3, Zenon DEF Link
<1> QED
  BY <1>1, <1>2, <1>3, <1>4 DEF LinkInv

\* What the statements make of one link.
LEMMA LinkWith ==
    ASSUME NEW x \in Link
    PROVE  /\ \A s \in {"consumed", "expired", "gone"} :
                /\ [x EXCEPT !.st = s] \in Link
                /\ [x EXCEPT !.st = s].user = x.user
                /\ [x EXCEPT !.st = s].after = x.after
                /\ [x EXCEPT !.st = s].st = s
           /\ \A b \in BOOLEAN :
                /\ [x EXCEPT !.delivered = b] \in Link
                /\ [x EXCEPT !.delivered = b].user = x.user
                /\ [x EXCEPT !.delivered = b].after = x.after
                /\ [x EXCEPT !.delivered = b].st = x.st
BY Zenon DEF Link

\* The new state f of the links has lost none, moved none and revived none.
OnlyEnds(f) ==
    /\ f \in [DOMAIN links -> Link]
    /\ \A i \in DOMAIN links : /\ f[i].user = links[i].user
                               /\ f[i].after = links[i].after
                               /\ f[i].st = "active" => links[i].st = "active"

\* One link ends; no link comes back to life.
LEMMA OneLink ==
    ASSUME AccountInv, NEW i \in DOMAIN links, NEW y \in Link,
           y.user = links[i].user, y.after = links[i].after,
           y.st = "active" => links[i].st = "active"
    PROVE  OnlyEnds([links EXCEPT ![i] = y])
<1>1. links \in [DOMAIN links -> Link]
  BY LinkTypes
<1> QED
  BY <1>1, Zenon DEF OnlyEnds

\* Links change, and none is added.
LEMMA LinkMove ==
    ASSUME AccountInv, OnlyEnds(links'), UNCHANGED <<users, emailLock, pwNext>>,
           req' \in [Requests -> Request],
           \A p \in Requests : \/ req'[p] = req[p]
                               \/ ReqOK(req'[p], users', links', pwNext')
    PROVE  AccountInv'
<1>1. DOMAIN links = 1..Len(links) /\ Len(links) \in Nat /\ links' \in [DOMAIN links -> Link]
  BY LinkTypes, Zenon DEF OnlyEnds
<1>2. links' \in Seq(Link) /\ Len(links') = Len(links)
  BY <1>1
<1>3. LinksKeep(links, links')
  BY <1>1, <1>2 DEF LinksKeep, OnlyEnds
<1>4. LinkInv'
  BY <1>2, <1>3, SameLinks, Zenon
<1>5. /\ pwNext' \in 1..(MaxPw + 1) /\ pwNext <= pwNext' /\ pwNext' \in Nat
      /\ emailLock' \in Requests \cup {None}
  BY Typed
<1>6. users' \in Seq(User) /\ RowsKeep(users, users') /\ UserInv'
  BY <1>5, SameRows, Zenon
<1> QED
  BY <1>2, <1>3, <1>4, <1>5, <1>6, StepKeeps, Zenon

\* A link runs out.
LEMMA LinkExpiresKeeps ==
    ASSUME AccountInv, NEW i \in DOMAIN links, LinkExpires(i)
    PROVE  AccountInv'
<1> DEFINE y == [links[i] EXCEPT !.st = "expired"]
<1>1. links' = [links EXCEPT ![i] = y] /\ UNCHANGED <<users, emailLock, pwNext, req>>
  BY Zenon DEF LinkExpires
<1>2. y \in Link /\ y.user = links[i].user /\ y.after = links[i].after /\ y.st = "expired"
  BY LinkTypes, LinkWith, Zenon
<1> HIDE DEF y
<1>3. OnlyEnds(links')
  BY <1>1, <1>2, OneLink, Zenon
<1>4. req' \in [Requests -> Request] /\ \A p \in Requests : req'[p] = req[p]
  BY <1>1, Typed, Zenon
<1> QED
  BY <1>1, <1>3, <1>4, LinkMove, Zenon

\* A step that ends links and moves one request.
LEMMA LinkReturn ==
    ASSUME AccountInv, NEW r \in Requests, OnlyEnds(links'),
           UNCHANGED <<users, emailLock, pwNext>>,
           NEW q \in Request, req' = [req EXCEPT ![r] = q],
           ReqOK(q, users, links', pwNext)
    PROVE  AccountInv'
<1>1. /\ req' \in [Requests -> Request]
      /\ \A p \in Requests : req'[p] = req[p] \/ ReqOK(req'[p], users', links', pwNext')
  BY Typed, Zenon
<1> QED
  BY <1>1, LinkMove, Zenon

\* The message goes out or gets lost.
LEMMA SendLinkKeeps ==
    ASSUME AccountInv, NEW r \in Requests, SendLink(r)
    PROVE  AccountInv'
<1> DEFINE i == req[r].link
<1>1. /\ req[r].pc = "send" /\ UNCHANGED <<users, emailLock, pwNext>>
      /\ req' = [req EXCEPT ![r] = IdleRequest]
  BY Zenon DEF SendLink, At, Return
<1>2. i \in DOMAIN links /\ links[i] \in Link
  BY <1>1, Taker, LinkTypes, Zenon DEF Formed
<1>3. CASE links' = links
  BY <1>1, <1>3, ReturnStep, Typed, Zenon DEF Return
<1>4. ASSUME NEW b \in BOOLEAN, links' = [links EXCEPT ![i].delivered = b]
      PROVE  AccountInv'
  <2> DEFINE y == [links[i] EXCEPT !.delivered = b]
  <2>1. /\ y \in Link /\ y.user = links[i].user /\ y.after = links[i].after
        /\ y.st = links[i].st
    BY <1>2, LinkWith, ZenonT(40)
  <2>2. links' = [links EXCEPT ![i] = y]
    BY <1>4, Zenon
  <2> HIDE DEF y
  <2>3. OnlyEnds(links')
    BY <1>2, <2>1, <2>2, OneLink, Zenon
  <2> QED
    BY <1>1, <2>3, IdleOK, LinkReturn, Zenon
<1>5. \/ links' = links
      \/ links' = [links EXCEPT ![i].delivered = TRUE]
      \/ links' = [links EXCEPT ![i].delivered = FALSE]
  BY Zenon DEF SendLink
<1> QED
  BY <1>3, <1>4, <1>5, Zenon

\* VerifyEmail consumes a link.
LEMMA ConsumeKeeps ==
    ASSUME AccountInv, NEW r \in Requests, NEW i \in DOMAIN links,
           ConsumeEmailVerificationToken(r, i)
    PROVE  AccountInv'
<1> DEFINE u == links[i].user
           y == [links[i] EXCEPT !.st = "consumed"]
           q == [IdleRequest EXCEPT !.pc = "stamp", !.user = u]
<1>1. /\ UNCHANGED <<users, emailLock, pwNext>> /\ links' = [links EXCEPT ![i] = y]
      /\ req' = [req EXCEPT ![r] = q]
  BY Zenon DEF ConsumeEmailVerificationToken
<1>2. u \in DOMAIN users /\ u \in Nat
  BY LinkTypes, Zenon
<1>3. BegunAs(q, "stamp", u, 0)
  BY <1>2, BegunIs, Zenon DEF PCs
<1>4. y \in Link /\ y.user = links[i].user /\ y.after = links[i].after /\ y.st = "consumed"
  BY LinkTypes, LinkWith, Zenon
<1> HIDE DEF y, q
<1>5. OnlyEnds(links')
  BY <1>1, <1>4, OneLink, Zenon
<1> HIDE DEF u
<1>6. q \in Request /\ ReqOK(q, users, links', pwNext)
  BY <1>2, <1>3, Zenon DEF BegunAs, ReqOK, Formed, Current
<1> QED
  BY <1>1, <1>5, <1>6, LinkReturn, Zenon

\* The invalidation ends every active link of the user: whatever link the
\* request creates next, the older ones are dead.
LEMMA InvalidateKeeps ==
    ASSUME AccountInv, NEW r \in Requests, ResendInvalidate(r)
    PROVE  AccountInv'
<1> DEFINE u == req[r].user
           f == InvalidateActiveEmailVerificationTokens(u)
<1>0. /\ req[r].pc = "invalidate" /\ UNCHANGED <<users, emailLock, pwNext>>
      /\ req[r] \in Request /\ req[r].after = 0 /\ u \in DOMAIN users
      /\ "mail" \in PCs
  BY Taker, Zenon DEF ResendInvalidate, At, Formed, OfUser, PCs
<1>l. /\ DOMAIN links = 1..Len(links) /\ Len(links) \in Nat
      /\ \A i \in DOMAIN links : i \in Nat /\ links[i] \in Link
  BY LinkTypes, Zenon
<1>1. CASE links' = f /\ req' = [req EXCEPT ![r].pc = "mail", ![r].after = Len(links)]
  <2> DEFINE n == Len(links)
             q == [req[r] EXCEPT !.pc = "mail", !.after = n]
  <2>1. q \in Request
    BY <1>0, <1>l, RequestWith, Zenon
  <2>2. q.pc = "mail" /\ q.user = u /\ q.after = n
    BY <1>0, Zenon DEF Request
  <2>3. req' = [req EXCEPT ![r] = q]
    BY <1>1, Zenon
  <2> HIDE DEF q
  <2>4. ASSUME NEW i \in DOMAIN links
        PROVE  /\ links'[i] \in Link
               /\ links'[i].user = links[i].user
               /\ links'[i].after = links[i].after
               /\ links'[i].st = "active" => links[i].st = "active"
               /\ links'[i].user = u => links'[i].st # "active"
    <3>1. CASE links[i].user = u /\ links[i].st = "active"
      <4> DEFINE y == [links[i] EXCEPT !.st = "consumed"]
      <4>1. links'[i] = y
        BY <1>1, <3>1, Zenon DEF InvalidateActiveEmailVerificationTokens
      <4>2. y \in Link /\ y.user = links[i].user /\ y.after = links[i].after /\ y.st = "consumed"
        BY <1>l, LinkWith, Zenon
      <4> HIDE DEF y
      <4> QED
        BY <3>1, <4>1, <4>2, Zenon
    <3>2. CASE ~(links[i].user = u /\ links[i].st = "active")
      BY <1>1, <1>l, <3>2, Zenon DEF InvalidateActiveEmailVerificationTokens
    <3> QED
      BY <3>1, <3>2, Zenon
  <2>5. DOMAIN links' = DOMAIN links /\ links' \in [DOMAIN links -> Link]
    <3>1. links' = [i \in DOMAIN links |->
                      IF links[i].user = u /\ links[i].st = "active"
                      THEN [links[i] EXCEPT !.st = "consumed"] ELSE links[i]]
      BY <1>1, Zenon DEF InvalidateActiveEmailVerificationTokens
    <3> QED
      BY <2>4, <3>1, Zenon
  <2>6. OnlyEnds(links')
    BY <2>4, <2>5, Zenon DEF OnlyEnds
  <2>7. Len(links') = n
    BY <1>l, <2>5
  <2>8. ReqOK(q, users, links', pwNext)
    BY <1>0, <1>l, <2>2, <2>4, <2>5, <2>7 DEF ReqOK, Formed, Current, OfUser
  <2> QED
    BY <1>0, <2>1, <2>3, <2>6, <2>8, LinkReturn, Zenon
<1>2. CASE links' = links /\ Goto(r, "mail")
  <2> DEFINE q == [req[r] EXCEPT !.pc = "mail"]
  <2>1. q \in Request
    BY <1>0, RequestWith, Zenon
  <2>2. q.pc = "mail" /\ q.user = u /\ q.after = 0
    BY <1>0, Zenon DEF Request
  <2>3. req' = [req EXCEPT ![r] = q] /\ emailLock' \in Requests \cup {None}
    BY <1>0, <1>2, Typed, Zenon DEF Goto
  <2> HIDE DEF q
  <2>4. ReqOK(q, users, links, pwNext)
    BY <1>0, <1>l, <2>2 DEF ReqOK, Formed, Current, OfUser
  <2> QED
    BY <1>0, <1>2, <2>1, <2>3, <2>4, LocalStep, Zenon
<1> QED
  BY <1>1, <1>2, Zenon DEF ResendInvalidate
\* A new link knows how many links its request's invalidation had ended.
LEMMA InsertLinkKeeps ==
    ASSUME AccountInv, NEW r \in Requests, InsertLink(r)
    PROVE  AccountInv'
<1> DEFINE u == req[r].user
           n == Len(links) + 1
           a == req[r].after
           x == [user |-> u, st |-> "active", delivered |-> FALSE, after |-> a]
           q == [req[r] EXCEPT !.pc = "send", !.link = n]
<1>0. /\ req[r].pc = "mail" /\ UNCHANGED <<users, emailLock, pwNext>>
      /\ req[r] \in Request /\ u \in DOMAIN users /\ u \in Nat /\ a \in Nat
      /\ a <= Len(links)
      /\ \A i \in DOMAIN links : i <= a /\ links[i].user = u => links[i].st # "active"
      /\ "send" \in PCs
  BY Taker, Zenon DEF InsertLink, At, Formed, OfUser, PCs
<1>1. CASE Return(r) /\ UNCHANGED links
  BY <1>0, <1>1, ReturnStep, Typed, Zenon
<1>2. CASE /\ links' = InsertEmailVerificationToken(u, a)
           /\ req' = [req EXCEPT ![r].pc = "send", ![r].link = Len(links) + 1]
  <2>1. x \in Link /\ x.user = u /\ x.after = a
    BY <1>0, Zenon DEF Link
  <2>2. links' = Append(links, x) /\ req' = [req EXCEPT ![r] = q]
    BY <1>2, Zenon DEF InsertEmailVerificationToken
  <2>3. q \in Request /\ n \in Nat
    <3>1. n \in Nat
      BY LinkTypes
    <3> QED
      BY <1>0, <3>1, RequestWith, Zenon
  <2>4. q.pc = "send" /\ q.user = u /\ q.link = n
    BY <1>0, Zenon DEF Request
  <2> HIDE DEF x, q
  <2>5. /\ links' \in Seq(Link) /\ DOMAIN links' = DOMAIN links \cup {n}
        /\ Len(links') = n /\ links'[n] = x
        /\ \A i \in DOMAIN links : links'[i] = links[i]
    BY <2>1, <2>2, LinkTypes
  <2>6. LinksKeep(links, links')
    BY <2>5, LinkTypes DEF LinksKeep
  <2>7. LinkInv'
    <3> SUFFICES ASSUME NEW j \in DOMAIN links'
                 PROVE  /\ links'[j].user \in DOMAIN users'
                        /\ links'[j].after < j
                        /\ \A i \in DOMAIN links' :
                             i <= links'[j].after /\ links'[i].user = links'[j].user
                             => links'[i].st # "active"
      BY Zenon DEF LinkInv
    <3>1. CASE j = n
      BY <1>0, <2>1, <2>5, <3>1, LinkTypes
    <3>2. CASE j \in DOMAIN links
      <4>1. /\ links[j].user \in DOMAIN users
            /\ links[j].after < j
            /\ \A i \in DOMAIN links :
                 i <= links[j].after /\ links[i].user = links[j].user
                 => links[i].st # "active"
        BY <3>2, Zenon DEF AccountInv, LinkInv
      <4>2. links[j].after < n /\ links[j].after \in Nat
        BY <3>2, <4>1, LinkTypes
      <4> QED
        BY <1>0, <2>3, <2>5, <3>2, <4>1, <4>2
    <3> QED
      BY <2>5, <3>1, <3>2, Zenon
  <2>8. /\ pwNext' \in 1..(MaxPw + 1) /\ pwNext <= pwNext' /\ pwNext' \in Nat
        /\ emailLock' \in Requests \cup {None}
    BY <1>0, Typed
  <2>9. users' \in Seq(User) /\ RowsKeep(users, users') /\ UserInv'
    BY <1>0, <2>8, SameRows, Zenon
  <2>10. ReqOK(q, users', links', pwNext')
    BY <1>0, <2>4, <2>5, Zenon DEF ReqOK, Formed, Current, OfUser
  <2>11. /\ req' \in [Requests -> Request]
         /\ \A p \in Requests : req'[p] = req[p] \/ ReqOK(req'[p], users', links', pwNext')
    BY <2>2, <2>3, <2>10, Typed, Zenon
  <2> QED
    BY <2>5, <2>6, <2>7, <2>8, <2>9, <2>11, StepKeeps, Zenon
<1> QED
  BY <1>1, <1>2, Zenon DEF InsertLink

-----------------------------------------------------------------------------
(* DeleteMe, and the rotations                                             *)

\* DeleteMe commits: the rows of the user are gone.
LEMMA DeleteCommitKeeps ==
    ASSUME AccountInv, NEW r \in Requests, DeleteCommit(r)
    PROVE  AccountInv'
<1> DEFINE u == req[r].user
<1>0. /\ req[r].pc = "delete" /\ UNCHANGED <<emailLock, pwNext>> /\ Return(r)
      /\ users' = [users EXCEPT ![u] = DeleteUser]
      /\ u \in DOMAIN users
  BY Taker, Zenon DEF DeleteCommit, At, Formed, OfUser
<1>1. /\ DeleteUser \in User /\ DeleteUser.exists = FALSE /\ DeleteUser.revoked = 0
      /\ DeleteUser.bundle = 0
  <2>1. CreateUser \in User
    BY Zenon DEF CreateUser, User
  <2>2. \A x \in User : \A b \in BOOLEAN : [x EXCEPT !.exists = b] \in User
    BY Zenon DEF User
  <2>3. DeleteUser \in User
    <3>1. FALSE \in BOOLEAN
      BY Zenon
    <3> QED
      BY <2>1, <2>2, <3>1, Zenon DEF DeleteUser
  <2> QED
    BY <2>3, Zenon DEF DeleteUser, CreateUser
<1>2. /\ users' \in Seq(User) /\ RowsKeep(users, users') /\ UserInv'
      /\ DOMAIN users' = DOMAIN users
  <2>1. Whole(DeleteUser, u, pwNext) /\ RowKeeps(users[u], DeleteUser)
    BY <1>0, <1>1, Columns DEF Whole, RowKeeps
  <2> QED
    BY <1>0, <1>1, <2>1, OneRow, Zenon
<1>3. ASSUME NEW i \in DOMAIN links
      PROVE  /\ links'[i] \in Link
             /\ links'[i].user = links[i].user
             /\ links'[i].after = links[i].after
             /\ links'[i].st = "active" => links[i].st = "active"
  <2> DEFINE y == [links[i] EXCEPT !.st = "gone"]
  <2>1. links'[i] = IF links[i].user = u THEN y ELSE links[i]
    BY Zenon DEF DeleteCommit
  <2>2. y \in Link /\ y.user = links[i].user /\ y.after = links[i].after /\ y.st = "gone"
    BY LinkTypes, LinkWith, Zenon
  <2> HIDE DEF y
  <2> QED
    BY <2>1, <2>2, LinkTypes, Zenon
<1>4. DOMAIN links' = DOMAIN links /\ links' \in [DOMAIN links -> Link]
  <2>1. links' = [i \in DOMAIN links |->
                    IF links[i].user = u THEN [links[i] EXCEPT !.st = "gone"]
                    ELSE links[i]]
    BY Zenon DEF DeleteCommit
  <2> QED
    BY <1>3, <2>1, Zenon
<1>5. /\ links' \in Seq(Link) /\ Len(links') = Len(links)
  BY <1>4, LinkTypes
<1>6. LinksKeep(links, links') /\ LinkInv'
  <2>1. LinksKeep(links, links')
    BY <1>3, <1>5, LinkTypes DEF LinksKeep
  <2> QED
    BY <1>2, <1>5, <2>1, SameLinks, Zenon
<1>7. /\ req' \in [Requests -> Request]
      /\ \A p \in Requests : req'[p] = req[p] \/ ReqOK(req'[p], users', links', pwNext')
  BY <1>0, IdleOK, Typed, Zenon DEF Return
<1>8. /\ pwNext' \in 1..(MaxPw + 1) /\ pwNext <= pwNext'
      /\ emailLock' \in Requests \cup {None}
  BY <1>0, Typed
<1> QED
  BY <1>2, <1>5, <1>6, <1>7, <1>8, StepKeeps, Zenon

\* A rotation may change everything a request in progress has read, and says
\* so to each of them.
LEMMA RotationKeeps ==
    ASSUME AccountInv, NEW r \in Requests, NEW u \in DOMAIN users, NEW y \in User,
           Whole(y, u, pwNext + 1), users' = [users EXCEPT ![u] = y],
           pwNext <= MaxPw, pwNext' = pwNext + 1, MarkOverlap(r),
           UNCHANGED <<emailLock, links>>
    PROVE  AccountInv'
<1>1. /\ users \in Seq(User) /\ links \in Seq(Link) /\ pwNext \in Nat /\ pwNext' \in Nat
      /\ pwNext' \in 1..(MaxPw + 1) /\ req \in [Requests -> Request]
      /\ emailLock' \in Requests \cup {None}
  BY ConstantsAssumption, Typed
<1>2. /\ users' \in Seq(User) /\ DOMAIN users' = DOMAIN users
      /\ \A v \in DOMAIN users : users'[v] = IF v = u THEN y ELSE users[v]
  BY <1>1
<1>3. UserInv'
  <2>1. ASSUME NEW v \in DOMAIN users
        PROVE  Whole(users[v], v, pwNext + 1)
    BY <1>1, Columns DEF Whole
  <2> QED
    BY <1>2, <2>1, Zenon DEF UserInv
<1>4. links' \in Seq(Link) /\ LinksKeep(links, links') /\ LinkInv'
  BY <1>2, LinksStay
<1>5. ASSUME NEW p \in Requests
      PROVE  req'[p] \in Request /\ ReqOK(req'[p], users', links', pwNext')
  <2>0. req[p] \in Request /\ Formed(req[p], users, links, pwNext)
    BY Taker, Zenon
  <2>f. Formed(req[p], users', links', pwNext')
    <3>1. pwNext <= pwNext' /\ DOMAIN users \subseteq DOMAIN users'
      BY <1>1, <1>2
    <3> QED
      BY <1>1, <1>2, <1>4, <2>0, <3>1, FormedKeeps, Zenon
  <2>1. CASE p = r
    BY <2>1, IdleOK, Zenon DEF MarkOverlap
  <2>2. CASE p # r /\ req[p].pc = "idle"
    <3>1. req'[p] = req[p]
      BY <2>2, Zenon DEF MarkOverlap
    <3>2. Current(req[p], users')
      BY <2>2, Zenon DEF Current
    <3> QED
      BY <2>0, <2>f, <3>1, <3>2, Zenon DEF ReqOK
  <2>3. CASE p # r /\ req[p].pc # "idle"
    <3> DEFINE q == [req[p] EXCEPT !.overlap = TRUE]
    <3>1. req'[p] = q
      BY <2>3, Zenon DEF MarkOverlap
    <3>2. q \in Request
      BY <2>0, RequestWith, Zenon
    <3>3. /\ q.overlap = TRUE /\ q.pc = req[p].pc /\ q.user = req[p].user
          /\ q.pw = req[p].pw /\ q.pepper = req[p].pepper /\ q.link = req[p].link
          /\ q.after = req[p].after
      BY <2>0, Zenon DEF Request
    <3> HIDE DEF q
    <3>4. Formed(q, users', links', pwNext')
      BY <2>f, <3>3, Zenon DEF Formed
    <3> QED
      BY <3>1, <3>2, <3>3, <3>4, Zenon DEF ReqOK
  <2> QED
    BY <2>1, <2>2, <2>3, Zenon
<1>6. req' \in [Requests -> Request]
  <2>1. req' = [p \in Requests |-> req'[p]]
    BY Zenon DEF MarkOverlap
  <2> QED
    BY <1>5, <2>1, Zenon
<1>7. TypeOK'
  BY <1>1, <1>2, <1>4, <1>6, Zenon DEF TypeOK
<1> QED
  BY <1>3, <1>4, <1>5, <1>7, Zenon DEF AccountInv, ReqInv
\* The statements of both rotations leave one password in all three rows.
LEMMA RotatedRow ==
    ASSUME NEW x \in User, NEW u \in Nat, NEW n \in Nat, Whole(x, u, n),
           x.exists, n # 0, x.auth < n
    PROVE  LET k == UpsertUserAuth(UpsertUserKDFParams(x, n, u), n)
           IN  /\ Rotated(x, n, u) \in User
               /\ Whole(Rotated(x, n, u), u, n + 1)
               /\ LET y == [ClearAllWebAuthnUnlockBundles(Rotated(x, n, u)) EXCEPT
                              !.revoked = n]
                  IN  y \in User /\ Whole(y, u, n + 1)
               /\ LET y == [CompleteRecovery(k, n) EXCEPT !.session = FALSE]
                  IN  y \in User /\ Whole(y, u, n + 1)
<1> DEFINE a == [x EXCEPT !.kdf = n, !.pepper = u]
           b == [a EXCEPT !.auth = n]
           c == [b EXCEPT !.vault = n]
           d == [c EXCEPT !.bundle = 0, !.late = FALSE]
           e == [d EXCEPT !.revoked = n]
           f == [c EXCEPT !.session = FALSE]
<1>1. /\ \A z \in User : \A w, v \in Nat : [z EXCEPT !.kdf = w, !.pepper = v] \in User
      /\ \A z \in User : \A w \in Nat : [z EXCEPT !.auth = w] \in User
      /\ \A z \in User : \A w \in Nat : [z EXCEPT !.vault = w] \in User
  BY Zenon DEF User
<1>2. /\ \A z \in User : \A w \in Nat, l \in BOOLEAN : [z EXCEPT !.bundle = w, !.late = l] \in User
      /\ \A z \in User : \A w \in Nat : [z EXCEPT !.revoked = w] \in User
      /\ \A z \in User : \A l \in BOOLEAN : [z EXCEPT !.session = l] \in User
  BY Zenon DEF User
<1>3. a \in User /\ b \in User /\ c \in User
  BY <1>1, Zenon
<1>4. d \in User /\ e \in User /\ f \in User
  <2>1. 0 \in Nat /\ FALSE \in BOOLEAN
    BY Zenon
  <2> HIDE DEF c
  <2> QED
    BY <1>2, <1>3, <2>1, Zenon
<1>5. /\ a.kdf = n /\ a.pepper = u /\ a.exists = x.exists /\ a.bundle = x.bundle
      /\ a.late = x.late /\ a.revoked = x.revoked
  BY Zenon DEF User
<1>6. /\ b.kdf = n /\ b.pepper = u /\ b.exists = x.exists /\ b.bundle = x.bundle
      /\ b.late = x.late /\ b.revoked = x.revoked /\ b.auth = n
  <2> HIDE DEF a
  <2> QED
    BY <1>3, <1>5, Zenon DEF User
<1>7. /\ c.kdf = n /\ c.pepper = u /\ c.exists = x.exists /\ c.bundle = x.bundle
      /\ c.late = x.late /\ c.revoked = x.revoked /\ c.auth = n /\ c.vault = n
  <2> HIDE DEF b
  <2> QED
    BY <1>3, <1>6, Zenon DEF User
<1>8. /\ e.kdf = n /\ e.pepper = u /\ e.exists = x.exists /\ e.bundle = 0
      /\ e.revoked = n /\ e.auth = n /\ e.vault = n
  <2> HIDE DEF c
  <2> QED
    BY <1>3, <1>7, Zenon DEF User
<1>9. /\ f.kdf = n /\ f.pepper = u /\ f.exists = x.exists /\ f.bundle = x.bundle
      /\ f.late = x.late /\ f.revoked = x.revoked /\ f.auth = n /\ f.vault = n
  <2> HIDE DEF c
  <2> QED
    BY <1>3, <1>7, Zenon DEF User
<1>10. x.revoked \in Nat /\ x.bundle \in Nat /\ x.revoked <= n
  <2>1. x.revoked \in Nat /\ x.bundle \in Nat /\ x.auth \in Nat
    BY Zenon DEF User
  <2> QED
    BY <2>1 DEF Whole
<1>11. Rotated(x, n, u) = c
  BY Zenon DEF Rotated, UpdateUserVaultPassword, UpsertUserAuth, UpsertUserKDFParams
<1>12. [ClearAllWebAuthnUnlockBundles(Rotated(x, n, u)) EXCEPT !.revoked = n] = e
  BY <1>11, Zenon DEF ClearAllWebAuthnUnlockBundles
<1>13. [CompleteRecovery(UpsertUserAuth(UpsertUserKDFParams(x, n, u), n), n)
          EXCEPT !.session = FALSE] = f
  BY Zenon DEF CompleteRecovery, UpsertUserAuth, UpsertUserKDFParams
<1> HIDE DEF a, b, c, d, e, f
<1>14. Whole(c, u, n + 1) /\ Whole(f, u, n + 1)
  BY <1>7, <1>9, <1>10 DEF Whole
<1>15. Whole(e, u, n + 1)
  BY <1>8 DEF Whole
<1> QED
  BY <1>3, <1>4, <1>11, <1>12, <1>13, <1>14, <1>15, Zenon

\* A rotation replaces all key material of the user in one commit and makes
\* what the others had read stale.
LEMMA RotateKeeps ==
    ASSUME AccountInv, NEW r \in Requests,
           (\E revoke \in BOOLEAN : RotateCommit(r, revoke)) \/ RecoverCommit(r)
    PROVE  AccountInv'
<1> DEFINE u == req[r].user
           x == users[u]
<1>1. /\ req[r].pc \in {"rotate", "recover"} /\ req[r].pepper # 0 /\ x.exists
      /\ pwNext <= MaxPw /\ pwNext' = pwNext + 1 /\ MarkOverlap(r)
      /\ UNCHANGED <<emailLock, links>>
  BY Zenon DEF RotateCommit, RecoverCommit, At
<1>2. u \in DOMAIN users /\ req[r].pepper = u
  BY <1>1, Taker, Zenon DEF Formed, OfUser
<1>3. pwNext \in Nat /\ pwNext # 0 /\ u \in Nat /\ x \in User /\ Whole(x, u, pwNext)
  BY <1>2, Typed, Columns
<1>4. x.auth < pwNext
  BY <1>1, <1>3, Zenon DEF Whole
<1> DEFINE c == Rotated(x, pwNext, u)
           e == [ClearAllWebAuthnUnlockBundles(c) EXCEPT !.revoked = pwNext]
           f == [CompleteRecovery(
                   UpsertUserAuth(UpsertUserKDFParams(x, pwNext, u), pwNext), pwNext)
                   EXCEPT !.session = FALSE]
<1>5. /\ c \in User /\ Whole(c, u, pwNext + 1)
      /\ e \in User /\ Whole(e, u, pwNext + 1)
      /\ f \in User /\ Whole(f, u, pwNext + 1)
  <2> HIDE DEF x, u
  <2> QED
    BY <1>1, <1>3, <1>4, RotatedRow, Zenon
<1>6. \/ users' = [users EXCEPT ![u] = c]
      \/ users' = [users EXCEPT ![u] = e]
      \/ users' = [users EXCEPT ![u] = f]
  <2>1. CASE RecoverCommit(r)
    BY <1>2, <2>1, Zenon DEF RecoverCommit
  <2>2. ASSUME NEW revoke \in BOOLEAN, RotateCommit(r, revoke)
        PROVE  users' = [users EXCEPT ![u] = c] \/ users' = [users EXCEPT ![u] = e]
    <3>1. CASE revoke
      BY <1>2, <2>2, <3>1, Zenon DEF RotateCommit
    <3>2. CASE ~revoke
      BY <1>2, <2>2, <3>2, Zenon DEF RotateCommit
    <3> QED
      BY <3>1, <3>2, Zenon
  <2> QED
    BY <2>1, <2>2, Zenon
<1> HIDE DEF c, e, f
<1> QED
  BY <1>1, <1>2, <1>5, <1>6, RotationKeeps, Zenon
-----------------------------------------------------------------------------
(* The invariant, and the properties                                       *)

\* An empty database satisfies the invariant.
LEMMA AccountInit == Init => AccountInv
<1> SUFFICES ASSUME Init PROVE AccountInv
  BY Zenon
<1>1. users = <<>> /\ links = <<>>
  BY Zenon DEF Init
<1>2. TypeOK
  BY ConstantsAssumption, IdleOK DEF TypeOK, Init
<1>3. UserInv /\ LinkInv
  BY <1>1 DEF UserInv, LinkInv
<1>4. ReqInv
  BY IdleOK, Zenon DEF ReqInv, Init
<1> QED
  BY <1>2, <1>3, <1>4, Zenon DEF AccountInv

\* Every step keeps it.
LEMMA AccountStep == AccountInv /\ [Next]_vars => AccountInv'
<1> SUFFICES ASSUME AccountInv, [Next]_vars PROVE AccountInv'
  BY Zenon
<1>1. ASSUME NEW r \in Requests, RegisterStep(r)
      PROVE  AccountInv'
  BY <1>1, RegisterInsertKeeps, RegisterCommitKeeps, RegisterIssueKeeps,
     InsertLinkKeeps, SendLinkKeeps, Zenon DEF RegisterStep
<1>2. ASSUME NEW r \in Requests, VerifyStep(r)
      PROVE  AccountInv'
  BY <1>2, ConsumeKeeps, VerifyStampKeeps, BeginKeeps, InvalidateKeeps, Zenon DEF VerifyStep
<1>3. ASSUME NEW r \in Requests, SignInStep(r)
      PROVE  AccountInv'
  BY <1>3, BeginKeeps, AuthorizeKeeps, IssueAuthorizedKeeps, GetMyKeysKeeps, Zenon DEF SignInStep
<1>4. ASSUME NEW r \in Requests, KeyStep(r)
      PROVE  AccountInv'
  <2>1. CASE \E u \in DOMAIN users :
               \/ ChangeMasterPassword(r, u) \/ RecoveryComplete(r, u)
               \/ EnablePasskeyUnlock(r, u) \/ DisablePasskeyUnlock(r, u)
               \/ RemoveCredential(r, u)
    BY <2>1, BeginKeeps, Zenon
  <2>2. CASE GetUserKDFParams(r) \/ PasskeyCommit(r)
    BY <2>2, GetPepperKeeps, PasskeyCommitKeeps, Zenon
  <2>3. CASE (\E revoke \in BOOLEAN : RotateCommit(r, revoke)) \/ RecoverCommit(r)
    BY <2>3, RotateKeeps, Zenon
  <2> QED
    BY <1>4, <2>1, <2>2, <2>3, Zenon DEF KeyStep
<1>5. ASSUME NEW r \in Requests, DeleteStep(r)
      PROVE  AccountInv'
  BY <1>5, BeginKeeps, DeleteAppendKeeps, DeleteCommitKeeps, Zenon DEF DeleteStep
<1>6. ASSUME NEW r \in Requests, Abandon(r)
      PROVE  AccountInv'
  BY <1>6, AbandonKeeps, Zenon
<1>7. ASSUME NEW u \in DOMAIN users, SessionEnds(u) \/ RegisterPasskey(u)
      PROVE  AccountInv'
  BY <1>7, SessionEndsKeeps, Zenon
<1>8. ASSUME NEW i \in DOMAIN links, LinkExpires(i)
      PROVE  AccountInv'
  BY <1>8, LinkExpiresKeeps, Zenon
<1>9. CASE UNCHANGED vars
  BY <1>9, Zenon DEF vars, AccountInv, TypeOK, UserInv, LinkInv, ReqInv
<1> QED
  BY <1>1, <1>2, <1>3, <1>4, <1>5, <1>6, <1>7, <1>8, <1>9 DEF Next

\* So it always holds.
LEMMA AccountAlways == Spec => []AccountInv
BY AccountInit, AccountStep, PTL DEF Spec

\* Salt, auth hash and wrapped vault key of an account belong to one password,
\* and its pepper never changes, whatever Register, ChangeMasterPassword,
\* RecoveryComplete and DeleteMe overlap.
THEOREM OnePassword == Spec => []KeysAgree
<1>1. ASSUME AccountInv PROVE KeysAgree
  BY <1>1, Zenon DEF AccountInv, UserInv, Whole, KeysAgree
<1> QED
  BY <1>1, AccountAlways, PTL

\* What the login and unlock pages derive opens what they are given, unless a
\* rotation committed between their calls.
THEOREM SignInsOpen == Spec => []SignInOpens
<1>1. ASSUME AccountInv PROVE SignInOpens
  BY <1>1, Zenon DEF AccountInv, ReqInv, ReqOK, Current, SignInOpens, At, PseudoParams
<1> QED
  BY <1>1, AccountAlways, PTL

\* No active link is older than the invalidation that a younger active link's
\* request ran, however ResendVerification, Register and VerifyEmail overlap.
THEOREM OlderLinksDie == Spec => []ResendKillsOlder
<1>1. ASSUME AccountInv PROVE ResendKillsOlder
  <2>1. SUFFICES ASSUME NEW i \in DOMAIN links, NEW j \in DOMAIN links,
                        links[i].user = links[j].user, links[i].st = "active"
                 PROVE  i > links[j].after
    BY Zenon DEF ResendKillsOlder
  <2>2. ~(i <= links[j].after)
    BY <1>1, <2>1, Zenon DEF AccountInv, LinkInv
  <2>3. i \in Nat /\ links[j].after \in Nat
    BY <1>1, LinkTypes, Zenon
  <2> QED
    BY <2>2, <2>3
<1> QED
  BY <1>1, AccountAlways, PTL

\* A bundle left by a rotation that revokes passkey unlocking was authorised
\* with the new password, or by a request the rotation overlapped.
THEOREM BundlesRevoked == Spec => []BundleRevoked
<1>1. ASSUME AccountInv PROVE BundleRevoked
  BY <1>1, Zenon DEF AccountInv, UserInv, Whole, BundleRevoked
<1> QED
  BY <1>1, AccountAlways, PTL
=============================================================================
