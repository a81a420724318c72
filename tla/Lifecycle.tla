----------------------------- MODULE Lifecycle ------------------------------
(***************************************************************************)
(* From start to exit: what `oblivio start` does before it serves and      *)
(* after it is told to stop (cmd/oblivio/start.go), the migration commands *)
(* (cmd/oblivio/migrations.go), the key files (internal/auth/secrets.go,   *)
(* internal/audit/anchor.go) and the services the launcher runs.           *)
(*                                                                         *)
(* Several processes, of different releases, share one database and one    *)
(* data directory.  A process may crash, or be interrupted, at any step:   *)
(* memguard answers SIGINT by ending the process on the spot.              *)
(***************************************************************************)
EXTENDS Integers, FiniteSets

CONSTANTS
    Processes,      \* processes of the deployment
    ReleaseOf,      \* per process: the migrations its binary carries
    RiverSteps      \* River's own migrations

ASSUME LifecycleAssumption ==
    /\ IsFiniteSet(Processes)
    /\ ReleaseOf \in [Processes -> Nat \ {0}]
    /\ RiverSteps \in Nat \ {0}

VARIABLES
    proc,       \* per process
    schema,     \* the database: both migration tables and migrate's lock
    watched,    \* the file under data/secrets that the behaviour follows
    file,       \* what it holds
    op,         \* a `migrations down` in progress: "idle" or "app"
    reverted,   \* processes alive when a command last took schema away
    raced       \* two first starts were about to write the file at once

lifeVars == <<proc, schema, watched, file, op, reverted, raced>>

\* secrets.json and audit_signer.json are read and made by the same steps and
\* have nothing to do with each other: a behaviour follows one of them, and the
\* other is found, made or refused by choice.
Files == {"secrets", "signer"}
Keys == 1 .. 2 * Cardinality(Processes) + 1
\* In memory: no key yet, one that the configuration gives, or one that was
\* generated.
NoKey == 0
GivenKey == -1
\* A file is absent, cut short by a crash in os.WriteFile, or holds a key.
Absent == 0
Partial == -1

\* The deferred closes of startCMD that others depend on: the pool's, and those
\* of what holds keys in memory (the secrets, the KEK, the stores over it).
Resources == {"pool", "keys"}

Process == [pc : {"down", "lock", "migrate", "river", "pool",
                  "secrets", "kek", "signer", "write", "flush", "launch",
                  "jobs", "serving", "stopJobs", "unwind"},
            key : Keys \cup {NoKey, GivenKey},
            defers : SUBSET Resources,
            busy : SUBSET {"request", "job"}]

NotRunning == [pc |-> "down", key |-> NoKey, defers |-> {}, busy |-> {}]

LifeTypeOK ==
    /\ proc \in [Processes -> Process]
    /\ schema \in [ver : Nat, dirty : BOOLEAN, river : 0 .. RiverSteps,
                   lock : Processes \cup {"free"}]
    /\ watched \in Files
    /\ file \in Keys \cup {Absent, Partial}
    /\ op \in {"idle", "app"}
    /\ reverted \subseteq Processes
    /\ raced \in BOOLEAN

LifeInit ==
    /\ proc = [p \in Processes |-> NotRunning]
    /\ schema = [ver |-> 0, dirty |-> FALSE, river |-> 0, lock |-> "free"]
    /\ watched \in Files
    /\ file = Absent
    /\ op = "idle"
    /\ reverted = {}
    /\ raced = FALSE

At(p, pc) == proc[p].pc = pc
Goto(p, pc) == proc' = [proc EXCEPT ![p].pc = pc]
\* A return from startCMD runs what it has deferred.
Exit(p) ==
    proc' = [proc EXCEPT ![p].pc = "unwind", ![p].key = NoKey]
\* The next step, with one more deferred close.
Acquired(p, res, pc) ==
    proc' = [proc EXCEPT ![p].pc = pc, ![p].defers = @ \cup {res}]

-----------------------------------------------------------------------------
(* Configuration and migrations                                            *)

\* `oblivio start`, or `oblivio migrations up`.  A config.Load that fails (the
\* Vault client, a file, the validation) closes its client itself and leaves
\* nothing deferred.
LoadConfig(p) ==
    /\ At(p, "down")
    /\ Goto(p, "lock") \/ Exit(p)
    /\ raced' = (raced /\ \E q \in Processes : ~At(q, "down"))
    /\ UNCHANGED <<schema, watched, file, op, reverted>>

\* migrate.Up: takes the advisory lock, or gives up after its timeout; refuses
\* a dirty database, and one migrated by a release it does not know.
MigrateLock(p) ==
    /\ At(p, "lock")
    /\ \/ /\ schema.lock = "free"
          /\ ~schema.dirty
          /\ schema.ver <= ReleaseOf[p]
          /\ schema' = [schema EXCEPT !.lock = p]
          /\ Goto(p, "migrate")
       \/ Exit(p) /\ UNCHANGED schema
    /\ UNCHANGED <<watched, file, op, reverted, raced>>

\* One migration: the version is written as dirty before its SQL runs, and as
\* clean after it.  SQL that fails leaves it dirty.
MigrateStep(p) ==
    /\ At(p, "migrate")
    /\ schema.ver < ReleaseOf[p] \/ schema.dirty
    /\ \/ /\ ~schema.dirty
          /\ schema' = [schema EXCEPT !.ver = @ + 1, !.dirty = TRUE]
          /\ UNCHANGED proc
       \/ /\ schema.dirty
          /\ schema' = [schema EXCEPT !.dirty = FALSE]
          /\ UNCHANGED proc
       \/ /\ schema.dirty
          /\ schema' = [schema EXCEPT !.lock = "free"]
          /\ Exit(p)
    /\ UNCHANGED <<watched, file, op, reverted, raced>>

\* migrate.Up returns, in `start` and in `migrations up`; River's migrations
\* are next in both.
MigrateDone(p) ==
    /\ At(p, "migrate")
    /\ ~schema.dirty /\ schema.ver = ReleaseOf[p]
    /\ schema' = [schema EXCEPT !.lock = "free"]
    /\ Goto(p, "river")
    /\ UNCHANGED <<watched, file, op, reverted, raced>>

\* Variant: a failure of River's migrations is only logged.
RiverOrLog(p) ==
    /\ At(p, "river")
    /\ Goto(p, "pool")
    /\ schema' \in {schema, [schema EXCEPT !.river = RiverSteps]}
    /\ UNCHANGED <<watched, file, op, reverted, raced>>

\* runRiverMigrations, after which `migrations up` is done.
RunRiverMigrations(p) ==
    /\ At(p, "river")
    /\ \/ /\ schema' = [schema EXCEPT !.river = RiverSteps]
          /\ Goto(p, "pool") \/ Exit(p)
       \/ Exit(p) /\ UNCHANGED schema
    /\ UNCHANGED <<watched, file, op, reverted, raced>>

Alive == {p \in Processes : ~At(p, "down")}

\* Bound: no command takes schema away while a process is left from the last
\* one that did.
RevertBound == reverted = {}

\* `migrations down`: one River migration first, then one of the app's, which
\* is refused on a dirty or empty database and may fail on the way.
MigrationsDown ==
    /\ op = "idle" /\ RevertBound
    /\ op' = "app"
    /\ schema' = [schema EXCEPT !.river = IF @ > 0 THEN @ - 1 ELSE 0]
    /\ reverted' = reverted \cup Alive
    /\ UNCHANGED <<proc, watched, file, raced>>

MigrationsDownApp ==
    /\ op = "app"
    /\ op' = "idle"
    /\ \/ UNCHANGED <<schema, reverted>>
       \/ /\ schema.lock = "free" /\ ~schema.dirty /\ schema.ver > 0
          /\ \E d \in BOOLEAN :
               schema' = [schema EXCEPT !.ver = @ - 1, !.dirty = d]
          /\ reverted' = reverted \cup Alive
    /\ UNCHANGED <<proc, watched, file, raced>>

\* `migrations drop`: every table, River's and the version table included.
MigrationsDrop ==
    /\ op = "idle" /\ RevertBound
    /\ schema.lock = "free"
    /\ schema' = [schema EXCEPT !.ver = 0, !.dirty = FALSE, !.river = 0]
    /\ reverted' = reverted \cup Alive
    /\ UNCHANGED <<proc, watched, file, op, raced>>

-----------------------------------------------------------------------------
(* The pool and the keys                                                   *)

\* postgres.DB.Start; a pool that cannot ping is closed again.
StartPool(p) ==
    /\ At(p, "pool")
    /\ Exit(p) \/ Acquired(p, "pool", "secrets")
    /\ UNCHANGED <<schema, watched, file, op, reverted, raced>>

\* A key nobody holds and the file does not contain.
RandomKey == CHOOSE k \in Keys : k # file /\ \A q \in Processes : proc[q].key # k

\* Where the start continues once a file's key is in memory.
Loaded(p, f, key) ==
    proc' = [proc EXCEPT
        ![p].pc = IF f = "secrets" THEN "kek" ELSE "launch",
        ![p].key = IF f = watched THEN key ELSE @,
        ![p].defers = IF f = "secrets" THEN @ \cup {"keys"} ELSE @]

\* Generated, and about to be written.
Generated(p) ==
    /\ proc' = [proc EXCEPT ![p].pc = "write", ![p].key = RandomKey]
    /\ raced' = (raced \/ \E q \in Processes : At(q, "write"))

\* os.ReadFile, shared by LoadSecrets and NewLocalSigner: use the file, refuse
\* to start on one that does not parse, or make a key where there is none.
LoadOrGenerate(p, f) ==
    \/ f # watched /\ (Loaded(p, f, NoKey) \/ Exit(p)) /\ UNCHANGED raced
    \/ f = watched /\ file \in Keys /\ Loaded(p, f, file) /\ UNCHANGED raced
    \/ f = watched /\ file = Partial /\ Exit(p) /\ UNCHANGED raced
    \/ f = watched /\ file = Absent /\ Generated(p)

\* LoadSecrets: the pair of the configuration, else the keys derived from
\* OBLIVIO_MASTER_SEED, which ends the start if it is too short, else the file.
LoadSecrets(p) ==
    /\ At(p, "secrets")
    /\ \/ Loaded(p, "secrets", GivenKey) /\ UNCHANGED raced
       \/ Exit(p) /\ UNCHANGED raced
       \/ LoadOrGenerate(p, "secrets")
    /\ UNCHANGED <<schema, watched, file, op, reverted>>

\* Variant: the key is used even if it could not be written.
WriteOrWarn(p) ==
    /\ At(p, "flush")
    /\ Loaded(p, watched, proc[p].key)
    /\ file' \in {file, proc[p].key}
    /\ UNCHANGED <<schema, watched, op, reverted, raced>>

\* os.WriteFile: truncates, then writes; an error ends the start.
WriteOpen(p) ==
    /\ At(p, "write")
    /\ \/ file' = Partial /\ Goto(p, "flush")
       \/ Exit(p) /\ UNCHANGED file
    /\ UNCHANGED <<schema, watched, op, reverted, raced>>

WriteFile(p) ==
    /\ At(p, "flush")
    /\ \/ file' = proc[p].key /\ Loaded(p, watched, proc[p].key)
       \/ Exit(p) /\ UNCHANGED file
    /\ UNCHANGED <<schema, watched, op, reverted, raced>>

\* An operator removes a file that the service refuses.
RemoveFile ==
    /\ file = Partial
    /\ \A p \in Processes : ~At(p, "flush")
    /\ file' = Absent
    /\ UNCHANGED <<proc, schema, watched, op, reverted, raced>>

\* DecodeKEKSeed and NewMFAKEK: a seed that is too short ends the start.
NewMFAKEK(p) ==
    /\ At(p, "kek")
    /\ Exit(p) \/ Goto(p, "signer")
    /\ UNCHANGED <<schema, watched, file, op, reverted, raced>>

NewLocalSigner(p) ==
    /\ At(p, "signer")
    /\ LoadOrGenerate(p, "signer")
    /\ UNCHANGED <<schema, watched, file, op, reverted>>

-----------------------------------------------------------------------------
(* The launcher: jobs, then the API; the API, then jobs                    *)

StartJobs(p) ==
    /\ At(p, "launch")
    /\ Goto(p, "jobs") \/ Exit(p)
    /\ UNCHANGED <<schema, watched, file, op, reverted, raced>>

\* Server.Start: the listener, or the error of a taken address, upon which the
\* launcher stops what it had started.
StartAPI(p) ==
    /\ At(p, "jobs")
    /\ Goto(p, "serving") \/ Goto(p, "stopJobs")
    /\ UNCHANGED <<schema, watched, file, op, reverted, raced>>

\* A request or a job takes a connection, and gives it back.
Begin(p, u) ==
    /\ IF u = "request" THEN At(p, "serving")
       ELSE proc[p].pc \in {"jobs", "serving"}
    /\ u \notin proc[p].busy
    /\ proc' = [proc EXCEPT ![p].busy = @ \cup {u}]
    /\ UNCHANGED <<schema, watched, file, op, reverted, raced>>

\* Variant: nothing bounds a request that outlives the listener.
EndWhileServing(p, u) ==
    /\ u \in proc[p].busy
    /\ u = "request" => At(p, "serving")
    /\ proc' = [proc EXCEPT ![p].busy = @ \ {u}]
    /\ UNCHANGED <<schema, watched, file, op, reverted, raced>>

\* ReadTimeout and WriteTimeout end every request, a job has a timeout.
End(p, u) ==
    /\ u \in proc[p].busy
    /\ proc' = [proc EXCEPT ![p].busy = @ \ {u}]
    /\ UNCHANGED <<schema, watched, file, op, reverted, raced>>

\* SIGTERM, and Server.Stop: Shutdown closes the listener and waits for the
\* requests, but no more than 10 s.
StopAPI(p) ==
    /\ At(p, "serving")
    /\ Goto(p, "stopJobs")
    /\ UNCHANGED <<schema, watched, file, op, reverted, raced>>

\* River's client waits for its jobs.
StopJobs(p) ==
    /\ At(p, "stopJobs")
    /\ "job" \notin proc[p].busy
    /\ Exit(p)
    /\ UNCHANGED <<schema, watched, file, op, reverted, raced>>

\* The process is no more.
Gone(p) ==
    /\ proc' = [proc EXCEPT ![p] = NotRunning]
    /\ reverted' = reverted \ {p}

\* The deferred closes, last one first: what holds keys, then the pool, whose
\* Close waits for every connection to come back, then the rest.
Unwind(p) ==
    /\ At(p, "unwind")
    /\ IF "keys" \in proc[p].defers
       THEN /\ proc' = [proc EXCEPT ![p].defers = @ \ {"keys"}]
            /\ UNCHANGED reverted
       ELSE /\ "pool" \in proc[p].defers => proc[p].busy = {}
            /\ Gone(p)
    /\ UNCHANGED <<schema, watched, file, op, raced>>

\* A crash, or SIGINT.  The database drops the lock with the connection.
Crash(p) ==
    /\ ~At(p, "down")
    /\ Gone(p)
    /\ schema' = [schema EXCEPT !.lock = IF @ = p THEN "free" ELSE @]
    /\ UNCHANGED <<watched, file, op, raced>>

-----------------------------------------------------------------------------

Step(p) ==
    \/ MigrateLock(p) \/ MigrateStep(p) \/ MigrateDone(p)
    \/ RunRiverMigrations(p) \/ StartPool(p) \/ LoadSecrets(p) \/ NewMFAKEK(p)
    \/ NewLocalSigner(p) \/ WriteOpen(p) \/ WriteFile(p)
    \/ StartJobs(p) \/ StartAPI(p)
    \/ StopJobs(p) \/ Unwind(p)

LifeNext ==
    \/ \E p \in Processes :
         \/ LoadConfig(p) \/ Step(p) \/ StopAPI(p) \/ Crash(p)
         \/ \E u \in {"request", "job"} : Begin(p, u) \/ End(p, u)
    \/ RemoveFile
    \/ MigrationsDown \/ MigrationsDownApp \/ MigrationsDrop

\* A process runs, and its requests and jobs are bounded by their timeouts.
LifeFairness ==
    \A p \in Processes :
        WF_lifeVars(Step(p)) /\ \A u \in {"request", "job"} : WF_lifeVars(End(p, u))

LifeSpec == LifeInit /\ [][LifeNext]_lifeVars /\ LifeFairness

-----------------------------------------------------------------------------
(* Properties                                                              *)

\* "before starting services so that a clean database boots": a process serves
\* only on a database with every migration of its release and of River,
\* whatever release migrated it and whatever crashed on the way, unless
\* `migrations down` or `drop` was run since it started.
ServesOnItsSchema ==
    \A p \in Processes \ reverted :
        proc[p].pc \in {"jobs", "serving"} =>
            schema.ver >= ReleaseOf[p] /\ schema.river = RiverSteps

\* LoadSecrets and NewLocalSigner persist before they return: a process that
\* serves with keys of its own making finds them again on its next start, and
\* so does every process on the same directory, unless two first starts
\* overlapped.
KeysAreDurable ==
    \A p \in Processes :
        At(p, "serving") /\ proc[p].key \in Keys /\ ~raced => file = proc[p].key

\* A start ends in a service or in an exit, and so does a stop, however the
\* migrations, the files and the requests in flight turn out.
Settles ==
    \A p \in Processes :
        proc[p].pc \notin {"down", "serving"} ~> proc[p].pc \in {"down", "serving"}
=============================================================================
