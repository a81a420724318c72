------------------------------ MODULE Recovery -------------------------------
(***************************************************************************)
(* The recovery code: what Register stores of it, what the recover page    *)
(* derives from it, and RecoveryStart and RecoveryComplete in between      *)
(* (internal/api/auth/service.go, internal/auth/argon2.go,                 *)
(* frontend/src/pages/{register,recover}.tsx and settings/security.tsx,    *)
(* frontend/packages/crypto/src/{recovery,kdf}.ts).                        *)
(*                                                                         *)
(* Argon2 is injective in all its arguments, the parameters included.  The *)
(* failure counter and the single use of the recovery session are the      *)
(* subject of Lockout, the password's key material that of Account.        *)
(***************************************************************************)
EXTENDS Naturals

CONSTANTS
    Pages,            \* recover pages open at once
    Codes, Code,      \* recovery codes; the one Register generated
    Profiles,         \* what pickArgon2Params chooses from
    RecoveryDefault,  \* the default parameters of deriveRecoveryKey
    ServerParams,     \* the argon2 parameters the server was ever given
    None,
    MaxRotations      \* bound on the times the password is replaced

VARIABLES
    server,     \* the process: argon2 parameters, pseudoKDFParams' choice
    account,    \* the rows of the account, or NoAccount
    rotations,  \* how often the password was replaced
    page        \* per recover page: its step and what it holds

vars == <<server, account, rotations, page>>

\* Salts: the account's, and the one pseudoSalt makes up for its address.
Salt == "recovery_salt"
pseudoSalt == "pseudo"

Argon2id(secret, salt, params) == <<secret, salt, params>>
RecoveryKey == Codes \X {Salt, pseudoSalt} \X (Profiles \cup {RecoveryDefault})

\* The PHC string: the parameters, the salt and the hash.
PHC == [params : ServerParams,
        hash : ({"proof"} \X RecoveryKey) \X {"random"} \X ServerParams]

\* kdf: user_kdf_params; wrap and proof: user_vault.recovery_wrapped_vault_key,
\* by the key it is sealed with, and recovery_proof_hash.
NoAccount == [kdf |-> None]
Account == {NoAccount} \cup [kdf : Profiles, salt : {Salt}, wrap : RecoveryKey, proof : PHC]

Page == [pc : {"code", "params", "newpw", "refused", "done"},
         code : Codes \cup {None}, key : RecoveryKey \cup {None},
         vaultKey : BOOLEAN, rotations : Nat]
FreshPage == [pc |-> "code", code |-> None, key |-> None, vaultKey |-> FALSE,
              rotations |-> 0]

TypeOK ==
    /\ server \in [argon2 : ServerParams, pseudo : Profiles]
    /\ account \in Account
    /\ rotations \in 0..MaxRotations
    /\ page \in [Pages -> Page]

Init ==
    /\ server \in [argon2 : ServerParams, pseudo : Profiles]
    /\ account = NoAccount
    /\ rotations = 0
    /\ page = [g \in Pages |-> FreshPage]

-----------------------------------------------------------------------------
(* Key derivation                                                          *)

\* The server hashes with the parameters in force and verifies with the ones
\* in the string it stored.
HashAuthKey(key) ==
    [params |-> server.argon2, hash |-> Argon2id(key, "random", server.argon2)]
VerifyAuthKey(key, phc) == Argon2id(key, "random", phc.params) = phc.hash

deriveRecoveryKey(code, salt, params) == Argon2id(code, salt, params)
deriveRecoveryProof(key) == <<"proof", key>>

\* The register page leaves the parameters of deriveRecoveryKey at their
\* defaults; the profile of its device goes to user_kdf_params.
RegisterKey == deriveRecoveryKey(Code, Salt, RecoveryDefault)

-----------------------------------------------------------------------------
(* The account                                                             *)

Register(profile) ==
    /\ account = NoAccount
    /\ account' = [kdf |-> profile, salt |-> Salt, wrap |-> RegisterKey,
                   proof |-> HashAuthKey(deriveRecoveryProof(RegisterKey))]
    /\ UNCHANGED <<server, rotations, page>>

\* The transactions of ChangeMasterPassword and RecoveryComplete write
\* user_kdf_params for the device they are called from, and none of the
\* recovery columns.
Rotate(profile) ==
    /\ account # NoAccount
    /\ rotations < MaxRotations
    /\ account' = [account EXCEPT !.kdf = profile]
    /\ rotations' = rotations + 1

ChangeMasterPassword(profile) == Rotate(profile) /\ UNCHANGED <<server, page>>

\* A restart draws pseudoSaltSecret anew and may bring another configuration.
Restart ==
    /\ server' \in [argon2 : ServerParams, pseudo : Profiles]
    /\ UNCHANGED <<account, rotations, page>>

-----------------------------------------------------------------------------
(* The recover page                                                        *)

pseudoKDFParams == server.pseudo

\* handleCodeSubmit up to the derivation: an unknown address is answered with
\* made-up values.
GetRecoveryParams(g, code) ==
    LET salt   == IF account = NoAccount THEN pseudoSalt ELSE account.salt
        params == IF account = NoAccount THEN pseudoKDFParams ELSE account.kdf
    IN  /\ page[g].pc = "code"
        /\ page' = [page EXCEPT ![g] =
                      [FreshPage EXCEPT !.pc = "params", !.code = code,
                                        !.key = deriveRecoveryKey(code, salt, params),
                                        !.rotations = rotations]]
        /\ UNCHANGED <<server, account, rotations>>

\* RecoveryStart, and the unwrapping of the vault key it returns.
RecoveryStart(g) ==
    LET key == page[g].key
        ok  == account # NoAccount /\ VerifyAuthKey(deriveRecoveryProof(key), account.proof)
    IN  /\ page[g].pc = "params"
        /\ page' = [page EXCEPT ![g].pc = IF ok THEN "newpw" ELSE "refused",
                                ![g].vaultKey = ok /\ account.wrap = key]
        /\ UNCHANGED <<server, account, rotations>>

\* The page stays on its first step after an error.
TryAgain(g) ==
    /\ page[g].pc = "refused"
    /\ page' = [page EXCEPT ![g] = FreshPage]
    /\ UNCHANGED <<server, account, rotations>>

RecoveryComplete(g, profile) ==
    /\ page[g].pc = "newpw"
    /\ page[g].vaultKey
    /\ Rotate(profile)
    /\ page' = [page EXCEPT ![g] = [FreshPage EXCEPT !.pc = "done"]]
    /\ UNCHANGED server

Next ==
    \/ \E profile \in Profiles : Register(profile) \/ ChangeMasterPassword(profile)
    \/ Restart
    \/ \E g \in Pages :
         \/ \E code \in Codes : GetRecoveryParams(g, code)
         \/ RecoveryStart(g)
         \/ TryAgain(g)
         \/ \E profile \in Profiles : RecoveryComplete(g, profile)

Spec == Init /\ [][Next]_vars

-----------------------------------------------------------------------------

\* A recover page that is given the code Register generated, and derives its
\* key with the parameters GetRecoveryParams returned for the account, is not
\* refused: "Client: recovery_key = Argon2id(recovery_code, recovery_salt,
\* kdf_params)" (docs/oblivio.md).  A password replaced between the two
\* requests is no part of this.
RightCodeRecovers ==
    \A g \in Pages :
        (page[g].pc = "refused" /\ page[g].code = Code /\ page[g].rotations = rotations)
            => page[g].key[2] # Salt
=============================================================================
