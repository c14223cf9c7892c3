------------------------------ MODULE Migrations ------------------------------
(***************************************************************************)
(* migrate() of db/migrate.py: jobs that start at once against one         *)
(* database, fail, and are killed; and assert_current, with which the      *)
(* other jobs look before they spend anything.                             *)
(*                                                                         *)
(* The advisory lock belongs to a server session.  Behind the pooled       *)
(* endpoint (db/connection.py) two jobs may be given the same session, and *)
(* the lock then keeps neither out.                                        *)
(***************************************************************************)
EXTENDS Integers, Sequences

CONSTANTS
  MigrationJobs,
  LastMigration,\* the newest migration; they are 1 .. LastMigration in filename order
  MaxMigrates   \* runs of migrate()

ASSUME MigrationsAssumption == LastMigration \in Nat /\ MaxMigrates \in Nat

VARIABLES
  pooled,      \* whether the connections are pooled
  created,     \* schema_migrations exists
  applied,     \* the migrations whose DDL is committed, in that order
  versions,    \* schema_migrations
  ships,       \* the newest migration in each job's checkout
  migrateAt,   \* where each job is
  sawTable,    \* what its "create table if not exists" found
  todo,        \* migrations it has still to run
  conflicted,  \* jobs that failed because another had been faster
  current,     \* jobs assert_current let pass
  migrates

jobStateVars == <<migrateAt, sawTable, todo>>
migrationVars == <<pooled, created, applied, versions, ships, jobStateVars, conflicted,
                   current, migrates>>

MigrationsTypeOK ==
  /\ pooled \in BOOLEAN /\ created \in BOOLEAN
  /\ applied \in Seq(1 .. LastMigration)
  /\ versions \subseteq 1 .. LastMigration
  /\ ships \in [MigrationJobs -> 0 .. LastMigration]
  /\ migrateAt \in [MigrationJobs -> {"off", "bootstrap", "lock", "read", "apply", "record",
                                      "unlock"}]
  /\ sawTable \in [MigrationJobs -> BOOLEAN]
  /\ todo \in [MigrationJobs -> SUBSET (1 .. LastMigration)]
  /\ conflicted \subseteq MigrationJobs /\ current \subseteq MigrationJobs
  /\ migrates \in 0 .. MaxMigrates

MigrationsInit ==
  /\ pooled \in BOOLEAN
  /\ created = FALSE
  /\ applied = <<>>
  /\ versions = {}
  /\ ships \in [MigrationJobs -> 0 .. LastMigration]
  /\ migrateAt = [j \in MigrationJobs |-> "off"]
  /\ sawTable = [j \in MigrationJobs |-> FALSE]
  /\ todo = [j \in MigrationJobs |-> {}]
  /\ conflicted = {} /\ current = {}
  /\ migrates = 0

-----------------------------------------------------------------------------
MigrateGoes(j, to) == migrateAt' = [migrateAt EXCEPT ![j] = to]

(* The job connects; what its first statement finds is fixed then.         *)
Connect(j) ==
  /\ migrateAt[j] = "off"
  /\ migrates < MaxMigrates
  /\ migrates' = migrates + 1
  /\ MigrateGoes(j, "bootstrap")
  /\ sawTable' = [sawTable EXCEPT ![j] = created]
  /\ UNCHANGED <<pooled, created, applied, versions, ships, todo, conflicted, current>>

(***************************************************************************)
(* create table if not exists runs in front of the lock: a job that did    *)
(* not see the table fails if it is there when the statement ends.         *)
(***************************************************************************)
Bootstrap(j) ==
  /\ migrateAt[j] = "bootstrap"
  /\ created' = TRUE
  /\ MigrateGoes(j, IF created /\ ~sawTable[j] THEN "off" ELSE "lock")
  /\ UNCHANGED <<pooled, applied, versions, ships, sawTable, todo, conflicted, current,
                 migrates>>

Holds(j) == migrateAt[j] \in {"read", "apply", "record", "unlock"}

(* Mutant: no lock is taken.                                               *)
LockNothing(j) ==
  /\ migrateAt[j] = "lock"
  /\ MigrateGoes(j, "read")
  /\ UNCHANGED <<pooled, created, applied, versions, ships, sawTable, todo, conflicted,
                 current, migrates>>

Lock(j) ==
  /\ migrateAt[j] = "lock"
  /\ pooled \/ \A i \in MigrationJobs : ~Holds(i)
  /\ MigrateGoes(j, "read")
  /\ UNCHANGED <<pooled, created, applied, versions, ships, sawTable, todo, conflicted,
                 current, migrates>>

(* pending(): what the checkout has and the table has not.                 *)
ReadVersions(j) ==
  /\ migrateAt[j] = "read"
  /\ todo' = [todo EXCEPT ![j] = (1 .. ships[j]) \ versions]
  /\ MigrateGoes(j, IF todo'[j] = {} THEN "unlock" ELSE "apply")
  /\ UNCHANGED <<pooled, created, applied, versions, ships, sawTable, conflicted, current,
                 migrates>>

(* pending() sorts by filename.                                            *)
IsNext(j, v) == v \in todo[j] /\ \A w \in todo[j] : v <= w

(* The file's statements, in a transaction that stays open.                *)
Apply(j) ==
  /\ migrateAt[j] = "apply"
  /\ MigrateGoes(j, "record")
  /\ UNCHANGED <<pooled, created, applied, versions, ships, sawTable, todo, conflicted,
                 current, migrates>>

(* The row and the commit.  The row's key is the version, so what another  *)
(* job has committed since is refused and the transaction rolled back.     *)
Record(j) ==
  /\ migrateAt[j] = "record"
  /\ \E v \in todo[j] \ versions :
       /\ IsNext(j, v)
       /\ applied' = Append(applied, v)
       /\ versions' = versions \cup {v}
       /\ todo' = [todo EXCEPT ![j] = @ \ {v}]
  /\ MigrateGoes(j, IF todo'[j] = {} THEN "unlock" ELSE "apply")
  /\ UNCHANGED <<pooled, created, ships, sawTable, conflicted, current, migrates>>

RecordRefused(j) ==
  /\ migrateAt[j] = "record"
  /\ \E v \in versions : IsNext(j, v)
  /\ conflicted' = conflicted \cup {j}
  /\ MigrateGoes(j, "unlock")
  /\ UNCHANGED <<pooled, created, applied, versions, ships, sawTable, todo, current, migrates>>

(* A statement of the file fails: the transaction is rolled back, and the  *)
(* migrations behind it are not tried.                                     *)
MigrationFails(j) ==
  /\ migrateAt[j] \in {"apply", "record"}
  /\ MigrateGoes(j, "unlock")
  /\ UNCHANGED <<pooled, created, applied, versions, ships, sawTable, todo, conflicted,
                 current, migrates>>

Unlock(j) ==
  /\ migrateAt[j] = "unlock"
  /\ MigrateGoes(j, "off")
  /\ UNCHANGED <<pooled, created, applied, versions, ships, sawTable, todo, conflicted,
                 current, migrates>>

(* The job is killed; the server rolls back and frees the lock.            *)
KillMigrate(j) ==
  /\ migrateAt[j] # "off"
  /\ MigrateGoes(j, "off")
  /\ UNCHANGED <<pooled, created, applied, versions, ships, sawTable, todo, conflicted,
                 current, migrates>>

(* assert_current of a job with this checkout.                             *)
AssertCurrent(j) ==
  /\ created
  /\ 1 .. ships[j] \subseteq versions
  /\ current' = current \cup {j}
  /\ UNCHANGED <<pooled, created, applied, versions, ships, jobStateVars, conflicted,
                 migrates>>

MigrationsNext ==
  \E j \in MigrationJobs :
    \/ Connect(j) \/ Bootstrap(j) \/ Lock(j) \/ ReadVersions(j) \/ Apply(j)
    \/ Record(j) \/ RecordRefused(j) \/ MigrationFails(j) \/ Unlock(j) \/ KillMigrate(j)
    \/ AssertCurrent(j)

MigrationsSpec == MigrationsInit /\ [][MigrationsNext]_migrationVars

-----------------------------------------------------------------------------
(***************************************************************************)
(* Safety.                                                                 *)
(***************************************************************************)

(* Whatever jobs race, fail or are killed, pooled or not: every migration  *)
(* is applied once and in filename order, the table says exactly which     *)
(* ("each migration commits with its own version row"), and a job that     *)
(* assert_current let pass has all its own.  With a lock of their own no   *)
(* two jobs meet on a migration.                                           *)
MigratedOnce ==
  /\ \A i \in 1 .. Len(applied) : applied[i] = i
  /\ versions = {applied[i] : i \in 1 .. Len(applied)}
  /\ \A j \in current : ships[j] <= Len(applied)
  /\ ~pooled => conflicted = {}

(* What makes it inductive: a job between two migrations has still to run  *)
(* whatever its checkout has and the table has not, and with a lock of its *)
(* own it is alone there, so the table has none of that meanwhile.         *)
MigrationsInv ==
  /\ MigrationsTypeOK
  /\ MigratedOnce
  /\ \A j \in MigrationJobs : migrateAt[j] \in {"apply", "record"} =>
       /\ todo[j] \subseteq 1 .. ships[j]
       /\ (1 .. ships[j]) \ todo[j] \subseteq versions
       /\ ~pooled => todo[j] \cap versions = {}
  /\ ~pooled => \A i, j \in MigrationJobs : Holds(i) /\ Holds(j) => i = j
=============================================================================
