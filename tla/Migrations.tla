----------------------------- MODULE Migrations -----------------------------
(***************************************************************************)
(* The migration runner: control-plane pods booting together, provisioning *)
(* runs and `npm run db:migrate`, all against ONE database.  A runner is a *)
(* process with one Postgres session; the advisory lock belongs to the     *)
(* session, which may outlive a process that died.  Runners may be of      *)
(* different images, so of different numbers of files.                     *)
(***************************************************************************)
EXTENDS Naturals, Sequences, FiniteSets

CONSTANTS
    Runners,        \* processes that call runMigrations
    NoRunner,       \* the lock is free
    NumFiles,       \* migration files of the newest image
    Needs,          \* Needs[r]: how many files runner r's image ships
    MaxTries,       \* bound: lock attempts within lockAcquireTimeoutMs
    MaxCrashes      \* bound: processes that die, files that fail

ASSUME MigrationsAssumption ==
    /\ NumFiles \in Nat \ {0}
    /\ Needs \in [Runners -> 1 .. NumFiles]
    /\ NoRunner \notin Runners
    /\ MaxTries \in Nat
    /\ MaxCrashes \in Nat

VARIABLES
    runner,         \* runner[r]: a runMigrations call
    lock,           \* whose session holds the advisory lock
    ledger,         \* names in schema_migrations_<set>
    schema,         \* ghost: the files whose SQL was committed, in order
    crashes         \* bounded faults so far

migrationVars == <<runner, lock, ledger, schema, crashes>>

Files   == 1 .. NumFiles
Live    == {"lock", "ledger", "list", "up", "open", "commit", "log", "unlock"}
Runner  == [pc: Live \cup {"off", "dead", "ok", "failed"},
            todo: SUBSET Files,     \* umzug's pending list
            tries: 0 .. MaxTries,
            failed: BOOLEAN,        \* the call will throw
            at: {"none"} \cup Live] \* what a dead process's session was at

Idle == [pc |-> "off", todo |-> {}, tries |-> 0, failed |-> FALSE, at |-> "none"]

First(S) == CHOOSE f \in S : \A g \in S : f <= g

MigrationsTypeOK ==
    /\ runner \in [Runners -> Runner]
    /\ lock \in Runners \cup {NoRunner}
    /\ ledger \in SUBSET Files
    /\ schema \in Seq(Files)
    /\ crashes \in 0 .. MaxCrashes

-----------------------------------------------------------------------------
(* runMigrations connects and asks for the lock. *)
Start(r) ==
    /\ runner[r].pc = "off"
    /\ runner' = [runner EXCEPT ![r].pc = "lock"]
    /\ UNCHANGED <<lock, ledger, schema, crashes>>

(* Variant: the answer `locked` is not looked at. *)
TryLockUnheeded(r) ==
    /\ runner[r].pc = "lock"
    /\ lock' = IF lock = NoRunner THEN r ELSE lock
    /\ runner' = [runner EXCEPT ![r].pc = "ledger"]
    /\ UNCHANGED <<ledger, schema, crashes>>

(* pg_try_advisory_lock, again after a delay until the time is up; giving  *)
(* up throws, and release(error) ends the session.                         *)
TryLock(r) ==
    /\ runner[r].pc = "lock"
    /\ \/ /\ lock = NoRunner
          /\ lock' = r
          /\ runner' = [runner EXCEPT ![r].pc = "ledger"]
       \/ /\ lock # NoRunner
          /\ IF runner[r].tries < MaxTries
             THEN runner' = [runner EXCEPT ![r].tries = @ + 1]
             ELSE runner' = [runner EXCEPT ![r].pc = "failed"]
          /\ UNCHANGED lock
    /\ UNCHANGED <<ledger, schema, crashes>>

(* ensureMigrationLedgerTable is idempotent: it leaves the rows alone. *)
EnsureLedger(r) ==
    /\ runner[r].pc = "ledger"
    /\ runner' = [runner EXCEPT ![r].pc = "list"]
    /\ UNCHANGED <<lock, ledger, schema, crashes>>

(* umzug.up reads the ledger once, and takes this image's files that are   *)
(* not in it.                                                              *)
ListPending(r) ==
    /\ runner[r].pc = "list"
    /\ runner' = [runner EXCEPT ![r].todo = (1 .. Needs[r]) \ ledger,
                                ![r].pc = "up"]
    /\ UNCHANGED <<lock, ledger, schema, crashes>>

(* BEGIN, the file's SQL, and the ledger's INSERT: nothing anyone else sees. *)
RunFile(r) ==
    /\ runner[r].pc = "up"
    /\ runner' = [runner EXCEPT ![r].pc =
                    IF runner[r].todo = {} THEN "unlock" ELSE "open"]
    /\ UNCHANGED <<lock, ledger, schema, crashes>>

(* A statement of the file fails: ROLLBACK, and the call throws. *)
FailFile(r) ==
    /\ runner[r].pc = "open" /\ crashes < MaxCrashes
    /\ runner' = [runner EXCEPT ![r].pc = "unlock", ![r].failed = TRUE]
    /\ crashes' = crashes + 1
    /\ UNCHANGED <<lock, ledger, schema>>

SendCommit(r) ==
    /\ runner[r].pc = "open"
    /\ runner' = [runner EXCEPT ![r].pc = "commit"]
    /\ UNCHANGED <<lock, ledger, schema, crashes>>

(* What the file's COMMIT makes visible: its SQL and its row, together. *)
Apply(f) ==
    /\ schema' = Append(schema, f)
    /\ ledger' = ledger \cup {f}

Commit(r) ==
    /\ runner[r].pc = "commit"
    /\ Apply(First(runner[r].todo))
    /\ runner' = [runner EXCEPT ![r].pc = "log"]
    /\ UNCHANGED <<lock, crashes>>

(* logMigration: ON CONFLICT DO NOTHING.  Then umzug's next file. *)
LogFile(r) ==
    /\ runner[r].pc = "log"
    /\ ledger' = ledger \cup {First(runner[r].todo)}
    /\ runner' = [runner EXCEPT ![r].todo = @ \ {First(@)}, ![r].pc = "up"]
    /\ UNCHANGED <<lock, schema, crashes>>

(* The finally block: pg_advisory_unlock, and the client is released. *)
Unlock(r) ==
    /\ runner[r].pc = "unlock"
    /\ lock' = NoRunner
    /\ runner' = [runner EXCEPT ![r].pc = IF runner[r].failed THEN "failed" ELSE "ok"]
    /\ UNCHANGED <<ledger, schema, crashes>>

(* The process dies; its session does not know yet. *)
Die(r) ==
    /\ runner[r].pc \in Live /\ crashes < MaxCrashes
    /\ runner' = [runner EXCEPT ![r].at = runner[r].pc, ![r].pc = "dead"]
    /\ crashes' = crashes + 1
    /\ UNCHANGED <<lock, ledger, schema>>

(* The server executes what its dead client had sent: the COMMIT, or the   *)
(* request for the lock.                                                   *)
Late(r) ==
    /\ runner[r].pc = "dead"
    /\ \/ /\ runner[r].at = "commit"
          /\ Apply(First(runner[r].todo))
          /\ runner' = [runner EXCEPT ![r].at = "log"]
          /\ UNCHANGED lock
       \/ /\ runner[r].at = "lock" /\ lock = NoRunner
          /\ lock' = r
          /\ runner' = [runner EXCEPT ![r].at = "ledger"]
          /\ UNCHANGED <<schema, ledger>>
    /\ UNCHANGED crashes

(* The server ends a dead process's session: an open transaction is rolled *)
(* back and the lock freed.  The next process may start.                   *)
SessionEnds(r) ==
    /\ runner[r].pc = "dead"
    /\ lock' = IF lock = r THEN NoRunner ELSE lock
    /\ runner' = [runner EXCEPT ![r] = Idle]
    /\ UNCHANGED <<ledger, schema, crashes>>

(* A failed call's process exits and is started again (a pod by its        *)
(* kubelet, the CLI by its operator).                                      *)
Again(r) ==
    /\ runner[r].pc = "failed" /\ crashes < MaxCrashes
    /\ runner' = [runner EXCEPT ![r] = Idle]
    /\ crashes' = crashes + 1
    /\ UNCHANGED <<lock, ledger, schema>>

Advance(r) ==
    \/ Start(r) \/ TryLock(r) \/ EnsureLedger(r) \/ ListPending(r)
    \/ RunFile(r) \/ SendCommit(r) \/ Commit(r) \/ LogFile(r) \/ Unlock(r)
    \/ SessionEnds(r)

MigrationsNext ==
    \E r \in Runners :
        Advance(r) \/ FailFile(r) \/ Die(r) \/ Late(r) \/ Again(r)

-----------------------------------------------------------------------------
(* The ledger tells the schema: each file's SQL is committed at most once, *)
(* in the files' order with none skipped, and a file is in the ledger iff  *)
(* its SQL is in the schema, whichever processes raced, died or gave up.   *)
LedgerIsSchema ==
    /\ schema = [i \in 1 .. Len(schema) |-> i]
    /\ ledger = 1 .. Len(schema)
=============================================================================
