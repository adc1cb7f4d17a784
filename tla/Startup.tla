------------------------------- MODULE Startup -------------------------------
(***************************************************************************)
(* A process comes up (internal/app/app.go): it applies the migrations it  *)
(* was shipped with (internal/db/migrate.go) and then serves. Each         *)
(* migration is one transaction, its version recorded in the same one, but *)
(* the check that it was not applied yet is a statement before it: two     *)
(* processes that start together may both run the same file. A process     *)
(* that fails exits, and is started again. A process may be told not to    *)
(* migrate (AUTO_MIGRATE). One that has no database at all has no rows and *)
(* no workers either: it is left out.                                      *)
(*                                                                         *)
(* Migrations are numbered in the order of their file names. What one does *)
(* to the database shows when its transaction commits; several of them     *)
(* (0010, for one) overwrite rows, so that running one twice would undo    *)
(* what the administrator has edited since.                                *)
(***************************************************************************)
EXTENDS Integers

CONSTANTS
  Processes,   \* starts of the program that share a database
  AutoMigrate, \* those of them that apply migrations: cfg.AutoMigrate
  Shipped,     \* how many migrations the build of each process brings
  MaxFailures  \* bound on crashes and lost connections, of all processes

ASSUME ShippedAssumption == Shipped \in [Processes -> Nat \ {0}]
ASSUME MigrateAssumption == AutoMigrate \subseteq Processes
ASSUME FailuresAssumption == MaxFailures \in Nat

VARIABLES
  pc,        \* where each process is
  next,      \* the migration each process looks at
  applied,   \* schema_migrations
  effects,   \* history: how often each migration's statements were committed
  failures   \* history: crashes and lost connections so far

startupVars == <<pc, next, applied, effects, failures>>

Versions == UNION {1 .. Shipped[p] : p \in Processes}

StartupInit ==
  /\ pc = [p \in Processes |-> "down"]
  /\ next = [p \in Processes |-> 1]
  /\ applied = {}
  /\ effects = [m \in Versions |-> 0]
  /\ failures = 0

----------------------------------------------------------------------------
\* The transactions that hold a row of schema_migrations they have inserted
Inserted(m) == {p \in Processes : pc[p] = "commit" /\ next[p] = m}

\* main, db.Open and the list of files: the process is started, or restarted
Boot(p) ==
  /\ pc[p] = "down"
  /\ pc' = [pc EXCEPT ![p] = IF p \in AutoMigrate THEN "check" ELSE "up"]
  /\ next' = [next EXCEPT ![p] = 1]
  /\ UNCHANGED <<applied, effects, failures>>

\* Mutant: whether the migration was applied is not asked.
CheckOmitted(p) ==
  /\ pc[p] = "check"
  /\ next[p] <= Shipped[p]
  /\ pc' = [pc EXCEPT ![p] = "exec"]
  /\ UNCHANGED <<next, applied, effects, failures>>

\* SELECT EXISTS: an applied migration is skipped
Check(p) ==
  /\ pc[p] = "check"
  /\ next[p] <= Shipped[p]
  /\ IF next[p] \in applied
     THEN next' = [next EXCEPT ![p] = @ + 1] /\ UNCHANGED pc
     ELSE pc' = [pc EXCEPT ![p] = "exec"] /\ UNCHANGED next
  /\ UNCHANGED <<applied, effects, failures>>

\* Begin and the statements of the file succeed
Exec(p) ==
  /\ pc[p] = "exec"
  /\ pc' = [pc EXCEPT ![p] = "insert"]
  /\ UNCHANGED <<next, applied, effects, failures>>

\* Mutant: a migration that fails is skipped.
SkipFailed(p) ==
  /\ pc' = [pc EXCEPT ![p] = "check"]
  /\ next' = [next EXCEPT ![p] = @ + 1]

\* The process gives up: New returns the error and main exits
GiveUp(p) == pc' = [pc EXCEPT ![p] = "down"] /\ UNCHANGED next

\* The statements fail on what another process does at the same time (CREATE
\* ... IF NOT EXISTS may), and the transaction is rolled back
ExecFails(p) ==
  /\ pc[p] = "exec"
  /\ \/ next[p] \in applied
     \/ \E q \in Processes \ {p} : next[q] = next[p] /\ pc[q] \in {"insert", "commit"}
  /\ GiveUp(p)
  /\ UNCHANGED <<applied, effects, failures>>

\* INSERT INTO schema_migrations waits for another transaction that has
\* inserted the version. It fails if that one commits.
InsertVersion(p) ==
  /\ pc[p] = "insert"
  /\ Inserted(next[p]) = {}
  /\ IF next[p] \in applied
     THEN GiveUp(p)
     ELSE pc' = [pc EXCEPT ![p] = "commit"] /\ UNCHANGED next
  /\ UNCHANGED <<applied, effects, failures>>

\* Mutant: the version is recorded by a transaction of its own.
CommitStatementsOnly(p) ==
  /\ pc[p] \in {"insert", "commit"}
  /\ IF pc[p] = "insert"
     THEN /\ effects' = [effects EXCEPT ![next[p]] = @ + 1]
          /\ pc' = [pc EXCEPT ![p] = "commit"]
          /\ UNCHANGED <<next, applied>>
     ELSE /\ applied' = applied \cup {next[p]}
          /\ pc' = [pc EXCEPT ![p] = "check"]
          /\ next' = [next EXCEPT ![p] = @ + 1]
          /\ UNCHANGED effects
  /\ UNCHANGED failures

Commit(p) ==
  /\ pc[p] = "commit"
  /\ applied' = applied \cup {next[p]}
  /\ effects' = [effects EXCEPT ![next[p]] = @ + 1]
  /\ pc' = [pc EXCEPT ![p] = "check"]
  /\ next' = [next EXCEPT ![p] = @ + 1]
  /\ UNCHANGED failures

\* ApplyMigrations returns, New builds the server, Run starts workers and HTTP
Serve(p) ==
  /\ pc[p] = "check"
  /\ next[p] > Shipped[p]
  /\ pc' = [pc EXCEPT ![p] = "up"]
  /\ UNCHANGED <<next, applied, effects, failures>>

\* A crash, a signal, or a database or storage that cannot be reached: what the
\* process has not committed is rolled back
Fail(p) ==
  /\ pc[p] # "down"
  /\ failures < MaxFailures
  /\ failures' = failures + 1
  /\ GiveUp(p)
  /\ UNCHANGED <<applied, effects>>

ProcessStep(p) ==
  Boot(p) \/ Check(p) \/ Exec(p) \/ InsertVersion(p) \/ Commit(p) \/ Serve(p)

StartupNext == \E p \in Processes : ProcessStep(p) \/ ExecFails(p) \/ Fail(p)

StartupSpec == StartupInit /\ [][StartupNext]_startupVars

----------------------------------------------------------------------------
(***************************************************************************)
(* Properties                                                              *)
(***************************************************************************)

\* Every variable keeps its type.
StartupTypeOK ==
  /\ pc \in [Processes -> {"down", "check", "exec", "insert", "commit", "up"}]
  /\ next \in [Processes -> Nat \ {0}]
  /\ applied \subseteq Versions
  /\ effects \in [Versions -> Nat]
  /\ failures \in 0 .. MaxFailures

\* However processes that start together interleave and crash, the statements of
\* a migration take effect exactly as often as its version is recorded: once.
AppliedOnce ==
  \A m \in Versions : effects[m] = IF m \in applied THEN 1 ELSE 0

\* The migrations are applied in the order of their names, and a process that
\* applies them serves only when the database has all those its build needs.
ServedSchema ==
  /\ \A m \in applied : 1 .. m \subseteq applied
  /\ \A p \in AutoMigrate : pc[p] = "up" => 1 .. Shipped[p] \subseteq applied

\* The loser of a race for a migration fails and exits, and yet every process is
\* eventually up for good.
EveryProcessComesUp == \A p \in Processes : <>[](pc[p] = "up")
=============================================================================
