----------------------------- MODULE SupportProofs -----------------------------
(***************************************************************************)
(* What five parts around the review guarantee for every value of their    *)
(* constants, proved with TLAPS.                                           *)
(*                                                                         *)
(* Migrations: for every set of jobs, every list of migrations and every   *)
(* bound on the runs of migrate(), what is applied is always a prefix of   *)
(* the files, the table says which prefix, and a session lock keeps the    *)
(* jobs apart.                                                             *)
(*                                                                         *)
(* PromptFit: for any hunks, renderings and budget, the prompt is within   *)
(* the budget, no hunk that fits is left out, and none is shown poorer     *)
(* than fits.                                                              *)
(*                                                                         *)
(* DiffLines: for any files, hunks and sides, the numbers read from a diff *)
(* are git's, as long as no line holds a break that git does not know.     *)
(*                                                                         *)
(* Toolbox: for any files and whatever is asked and refused, an answer is  *)
(* true of the files at the head commit.                                   *)
(*                                                                         *)
(* Search: for any corpus, holdout, scores and depths, a review is shown   *)
(* the nearest comments of earlier pull requests and no other.             *)
(***************************************************************************)
EXTENDS Migrations, PromptFit, DiffLines, Toolbox, Search, CountingLemmas,
        FiniteSetTheorems, SequenceTheorems, TLAPS

(* Applied in filename order, and the table its image: the table holds     *)
(* 1 .. n and n is how many migrations were applied (db/migrate.py, one    *)
(* transaction for the file and its row).                                  *)
LEMMA VersionsArePrefix ==
  ASSUME MigrationsTypeOK, MigratedOnce
  PROVE  /\ Len(applied) \in Nat
         /\ versions = 1 .. Len(applied)
<1>1. applied \in Seq(1 .. LastMigration)  BY DEF MigrationsTypeOK
<1>2. Len(applied) \in Nat  BY <1>1
<1>3. \A i \in 1 .. Len(applied) : applied[i] = i  BY DEF MigratedOnce
<1>4. versions = {applied[i] : i \in 1 .. Len(applied)}  BY DEF MigratedOnce
<1>5. versions = 1 .. Len(applied)  BY <1>3, <1>4, Zenon
<1> QED  BY <1>2, <1>5

(* The argument behind the ordering: a job that works through its list     *)
(* smallest first can only record the successor of what is recorded, for   *)
(* everything its checkout has below that is in the table.                 *)
LEMMA NextIsSuccessor ==
  ASSUME MigrationsInv,
         NEW j \in MigrationJobs, migrateAt[j] = "record",
         NEW v \in todo[j] \ versions, IsNext(j, v)
  PROVE  v = Len(applied) + 1
<1>1. MigrationsTypeOK /\ MigratedOnce  BY DEF MigrationsInv
<1>2. Len(applied) \in Nat /\ versions = 1 .. Len(applied)  BY <1>1, VersionsArePrefix
<1>3. ships[j] \in Nat  BY <1>1, MigrationsAssumption DEF MigrationsTypeOK
<1>4. /\ todo[j] \subseteq 1 .. ships[j]
      /\ (1 .. ships[j]) \ todo[j] \subseteq versions
  BY DEF MigrationsInv
<1>5. v \in 1 .. ships[j] /\ v > Len(applied)  BY <1>2, <1>3, <1>4
<1>6. ASSUME v > Len(applied) + 1 PROVE FALSE
  <2>1. Len(applied) + 1 \in (1 .. ships[j]) \ versions  BY <1>2, <1>3, <1>5, <1>6
  <2>2. Len(applied) + 1 \in todo[j]  BY <2>1, <1>4
  <2> QED  BY <2>2, <1>2, <1>3, <1>5, <1>6 DEF IsNext
<1> QED  BY <1>2, <1>3, <1>5, <1>6

LEMMA InvInit == ASSUME MigrationsInit PROVE MigrationsInv
<1>1. MigrationsTypeOK
  <2>1. applied \in Seq(1 .. LastMigration)  BY DEF MigrationsInit
  <2>2. pooled \in BOOLEAN /\ created \in BOOLEAN  BY Zenon DEF MigrationsInit
  <2>3. /\ versions \subseteq 1 .. LastMigration
        /\ ships \in [MigrationJobs -> 0 .. LastMigration]
        /\ conflicted \subseteq MigrationJobs /\ current \subseteq MigrationJobs
    BY DEF MigrationsInit
  <2>4. migrates \in 0 .. MaxMigrates  BY MigrationsAssumption DEF MigrationsInit
  <2>5. /\ migrateAt \in [MigrationJobs -> {"off", "bootstrap", "lock", "read", "apply",
                                            "record", "unlock"}]
        /\ sawTable \in [MigrationJobs -> BOOLEAN]
        /\ todo \in [MigrationJobs -> SUBSET (1 .. LastMigration)]
    BY DEF MigrationsInit
  <2> QED  BY <2>1, <2>2, <2>3, <2>4, <2>5 DEF MigrationsTypeOK
<1>2. MigratedOnce
  <2>1. Len(applied) = 0 /\ versions = {} /\ current = {} /\ conflicted = {}
    BY DEF MigrationsInit
  <2> QED  BY <2>1 DEF MigratedOnce
<1> QED  BY <1>1, <1>2 DEF MigrationsInit, MigrationsInv, Holds

-----------------------------------------------------------------------------
(***************************************************************************)
(* The steps.                                                              *)
(***************************************************************************)

(* Nothing a job does on its own way moves the table or what was applied.  *)
LEMMA OnceFramed ==
  ASSUME MigratedOnce, UNCHANGED <<pooled, applied, versions, ships, conflicted, current>>
  PROVE  MigratedOnce'
BY DEF MigratedOnce

(* Going somewhere off the middle of the list keeps the invariant if it    *)
(* takes no lock: so it is with every step that only moves the job.        *)
LEMMA StaysOut ==
  ASSUME MigrationsInv, MigrationsTypeOK', MigratedOnce',
         NEW j \in MigrationJobs, NEW to \in {"off", "bootstrap", "lock", "unlock"},
         MigrateGoes(j, to), to = "unlock" => Holds(j),
         UNCHANGED <<pooled, versions, ships, todo>>
  PROVE  MigrationsInv'
<1>1. migrateAt' = [migrateAt EXCEPT ![j] = to]  BY DEF MigrateGoes
<1>2. \A i \in MigrationJobs : migrateAt'[i] = IF i = j THEN to ELSE migrateAt[i]
  BY <1>1 DEF MigrationsInv, MigrationsTypeOK
<1>3. \A i \in MigrationJobs : Holds(i)' => Holds(i)
  BY <1>2 DEF Holds
<1>4. \A i \in MigrationJobs : migrateAt'[i] \in {"apply", "record"} =>
        /\ migrateAt[i] \in {"apply", "record"}
  BY <1>2
<1>5. \A i \in MigrationJobs : migrateAt'[i] \in {"apply", "record"} =>
       /\ todo'[i] \subseteq 1 .. ships'[i]
       /\ (1 .. ships'[i]) \ todo'[i] \subseteq versions'
       /\ ~pooled' => todo'[i] \cap versions' = {}
  BY <1>4 DEF MigrationsInv
<1>6. ~pooled' => \A i, k \in MigrationJobs : Holds(i)' /\ Holds(k)' => i = k
  BY <1>3 DEF MigrationsInv
<1> QED  BY <1>5, <1>6 DEF MigrationsInv

LEMMA InvNext ==
  ASSUME MigrationsInv, [MigrationsNext]_migrationVars
  PROVE  MigrationsInv'
<1>1. MigrationsTypeOK /\ MigratedOnce  BY DEF MigrationsInv
<1>2. Len(applied) \in Nat /\ versions = 1 .. Len(applied)  BY <1>1, VersionsArePrefix
<1> SUFFICES ASSUME MigrationsNext PROVE MigrationsInv'
  <2>1. CASE UNCHANGED migrationVars
    BY <2>1 DEF migrationVars, jobStateVars, MigrationsInv, MigrationsTypeOK, MigratedOnce,
                Holds
  <2> QED  BY <2>1
<1> PICK j \in MigrationJobs :
      \/ Connect(j) \/ Bootstrap(j) \/ Lock(j) \/ ReadVersions(j) \/ Apply(j)
      \/ Record(j) \/ RecordRefused(j) \/ MigrationFails(j) \/ Unlock(j) \/ KillMigrate(j)
      \/ AssertCurrent(j)
  BY DEF MigrationsNext
<1>3. CASE Connect(j)
  <2>1. MigrationsTypeOK'
    BY <1>1, <1>3, MigrationsAssumption DEF Connect, MigrateGoes, MigrationsTypeOK
  <2>2. MigratedOnce'  BY <1>1, <1>3, OnceFramed DEF Connect
  <2> QED  BY <1>3, <2>1, <2>2, StaysOut DEF Connect
<1>4. CASE Bootstrap(j)
  <2>1. MigrationsTypeOK'  BY <1>1, <1>4 DEF Bootstrap, MigrateGoes, MigrationsTypeOK
  <2>2. MigratedOnce'  BY <1>1, <1>4, OnceFramed DEF Bootstrap
  <2>3. PICK to \in {"off", "lock"} : MigrateGoes(j, to)  BY <1>4 DEF Bootstrap
  <2> QED  BY <1>4, <2>1, <2>2, <2>3, StaysOut DEF Bootstrap
<1>5. CASE Lock(j)
  <2>1. MigrationsTypeOK'  BY <1>1, <1>5 DEF Lock, MigrateGoes, MigrationsTypeOK
  <2>2. MigratedOnce'  BY <1>1, <1>5, OnceFramed DEF Lock
  <2>3. \A i \in MigrationJobs : migrateAt'[i] = IF i = j THEN "read" ELSE migrateAt[i]
    BY <1>1, <1>5 DEF Lock, MigrateGoes, MigrationsTypeOK
  <2>4. ~pooled => \A i \in MigrationJobs : Holds(i)' => i = j
    BY <1>5, <2>3 DEF Lock, Holds
  <2> QED  BY <1>5, <2>1, <2>2, <2>3, <2>4 DEF Lock, MigrationsInv
<1>6. CASE ReadVersions(j)
  <2>1. todo'[j] = (1 .. ships[j]) \ versions
    BY <1>1, <1>6 DEF ReadVersions, MigrationsTypeOK
  <2>2. \A i \in MigrationJobs \ {j} : todo'[i] = todo[i] /\ migrateAt'[i] = migrateAt[i]
    BY <1>1, <1>6 DEF ReadVersions, MigrateGoes, MigrationsTypeOK
  <2>3. PICK to \in {"unlock", "apply"} : migrateAt' = [migrateAt EXCEPT ![j] = to]
    BY <1>6 DEF ReadVersions, MigrateGoes
  <2>4. MigrationsTypeOK'
    <3>1. ships[j] \in 0 .. LastMigration  BY <1>1 DEF MigrationsTypeOK
    <3>2. (1 .. ships[j]) \ versions \in SUBSET (1 .. LastMigration)  BY <3>1, MigrationsAssumption
    <3>3. todo' \in [MigrationJobs -> SUBSET (1 .. LastMigration)]
      BY <1>1, <1>6, <3>2 DEF ReadVersions, MigrationsTypeOK
    <3> QED  BY <1>1, <1>6, <2>3, <3>3 DEF ReadVersions, MigrationsTypeOK
  <2>5. MigratedOnce'  BY <1>1, <1>6, OnceFramed DEF ReadVersions
  <2>6. \A i \in MigrationJobs : Holds(i)' => Holds(i)
    BY <1>6, <2>2 DEF ReadVersions, Holds
  <2>7. \A i \in MigrationJobs : migrateAt'[i] \in {"apply", "record"} =>
       /\ todo'[i] \subseteq 1 .. ships'[i]
       /\ (1 .. ships'[i]) \ todo'[i] \subseteq versions'
       /\ ~pooled' => todo'[i] \cap versions' = {}
    BY <1>6, <2>1, <2>2 DEF ReadVersions, MigrationsInv
  <2>8. ~pooled' => \A i, k \in MigrationJobs : Holds(i)' /\ Holds(k)' => i = k
    BY <1>6, <2>6 DEF ReadVersions, MigrationsInv
  <2> QED  BY <2>4, <2>5, <2>7, <2>8 DEF MigrationsInv
<1>7. CASE Apply(j)
  <2>1. MigrationsTypeOK'  BY <1>1, <1>7 DEF Apply, MigrateGoes, MigrationsTypeOK
  <2>2. MigratedOnce'  BY <1>1, <1>7, OnceFramed DEF Apply
  <2>3. \A i \in MigrationJobs : migrateAt'[i] = IF i = j THEN "record" ELSE migrateAt[i]
    BY <1>1, <1>7 DEF Apply, MigrateGoes, MigrationsTypeOK
  <2>4. \A i \in MigrationJobs :
          /\ Holds(i)' => Holds(i)
          /\ migrateAt'[i] \in {"apply", "record"} => migrateAt[i] \in {"apply", "record"}
    BY <1>7, <2>3 DEF Apply, Holds
  <2> QED  BY <1>7, <2>1, <2>2, <2>4 DEF Apply, MigrationsInv
<1>8. CASE Record(j)
  <2>1. PICK v \in todo[j] \ versions :
          /\ IsNext(j, v)
          /\ applied' = Append(applied, v)
          /\ versions' = versions \cup {v}
          /\ todo' = [todo EXCEPT ![j] = @ \ {v}]
    BY <1>8 DEF Record
  <2>2. v = Len(applied) + 1
    <3>1. migrateAt[j] = "record"  BY <1>8 DEF Record
    <3> QED  BY <2>1, <3>1, NextIsSuccessor
  <2>3. PICK to \in {"unlock", "apply"} : migrateAt' = [migrateAt EXCEPT ![j] = to]
    BY <1>8 DEF Record, MigrateGoes
  <2>4. \A i \in MigrationJobs :
          /\ migrateAt'[i] = IF i = j THEN to ELSE migrateAt[i]
          /\ todo'[i] = IF i = j THEN todo[j] \ {v} ELSE todo[i]
    BY <1>1, <2>1, <2>3 DEF MigrationsTypeOK
  <2>5. MigrationsTypeOK'
    <3>1. v \in 1 .. LastMigration  BY <1>1 DEF MigrationsTypeOK
    <3>2. applied' \in Seq(1 .. LastMigration)  BY <1>1, <2>1, <3>1 DEF MigrationsTypeOK
    <3>3. versions' \subseteq 1 .. LastMigration  BY <1>1, <2>1, <3>1 DEF MigrationsTypeOK
    <3>4. todo' \in [MigrationJobs -> SUBSET (1 .. LastMigration)]
      BY <1>1, <2>1 DEF MigrationsTypeOK
    <3> QED  BY <1>1, <1>8, <2>3, <3>2, <3>3, <3>4 DEF Record, MigrationsTypeOK
  <2>6. MigratedOnce'
    <3>1. /\ Len(applied') = Len(applied) + 1
          /\ \A i \in 1 .. Len(applied') :
               applied'[i] = IF i = v THEN v ELSE applied[i]
      BY <1>1, <1>2, <2>1, <2>2 DEF MigrationsTypeOK
    <3>2. \A i \in 1 .. Len(applied') : applied'[i] = i
      BY <1>1, <1>2, <2>2, <3>1 DEF MigratedOnce
    <3>3. versions' = 1 .. Len(applied')  BY <1>2, <2>1, <2>2, <3>1
    <3>4. versions' = {applied'[i] : i \in 1 .. Len(applied')}  BY <3>2, <3>3, Zenon
    <3>5. \A i \in current' : ships'[i] <= Len(applied')
      <4> SUFFICES ASSUME NEW i \in current PROVE ships[i] <= Len(applied) + 1
        BY <1>8, <3>1 DEF Record
      <4>1. ships[i] \in Int  BY <1>1 DEF MigrationsTypeOK
      <4> QED  BY <1>1, <1>2, <4>1 DEF MigratedOnce
    <3> QED  BY <1>1, <1>8, <3>2, <3>4, <3>5 DEF Record, MigratedOnce
  <2>7. \A i \in MigrationJobs : Holds(i)' => Holds(i)
    BY <1>8, <2>4 DEF Record, Holds
  <2>8. ~pooled => \A i \in MigrationJobs \ {j} : migrateAt[i] \notin {"apply", "record"}
    BY <1>8 DEF Record, MigrationsInv, Holds
  <2>9. ASSUME NEW i \in MigrationJobs, migrateAt'[i] \in {"apply", "record"}
        PROVE  /\ todo'[i] \subseteq 1 .. ships'[i]
               /\ (1 .. ships'[i]) \ todo'[i] \subseteq versions'
               /\ ~pooled' => todo'[i] \cap versions' = {}
    <3>1. migrateAt[i] \in {"apply", "record"}  BY <1>8, <2>4, <2>9 DEF Record
    <3>2. /\ todo[i] \subseteq 1 .. ships[i]
          /\ (1 .. ships[i]) \ todo[i] \subseteq versions
          /\ ~pooled => todo[i] \cap versions = {}
      BY <3>1 DEF MigrationsInv
    <3>3. ships' = ships /\ pooled' = pooled  BY <1>8 DEF Record
    <3> QED  BY <2>1, <2>4, <2>8, <3>1, <3>2, <3>3
  <2>10. ~pooled' => \A i, k \in MigrationJobs : Holds(i)' /\ Holds(k)' => i = k
    BY <1>8, <2>7 DEF Record, MigrationsInv
  <2> QED  BY <2>5, <2>6, <2>9, <2>10 DEF MigrationsInv
<1>9. CASE RecordRefused(j)
  <2>1. MigrationsTypeOK'
    BY <1>1, <1>9 DEF RecordRefused, MigrateGoes, MigrationsTypeOK
  <2>2. pooled
    <3>1. PICK v \in versions : IsNext(j, v)  BY <1>9 DEF RecordRefused
    <3>2. v \in todo[j] \cap versions  BY <3>1 DEF IsNext
    <3> QED  BY <1>9, <3>2 DEF RecordRefused, MigrationsInv
  <2>3. MigratedOnce'  BY <1>1, <1>9, <2>2 DEF RecordRefused, MigratedOnce
  <2> QED  BY <1>9, <2>1, <2>3, StaysOut DEF RecordRefused, Holds
<1>10. CASE MigrationFails(j)
  <2>1. MigrationsTypeOK'
    BY <1>1, <1>10 DEF MigrationFails, MigrateGoes, MigrationsTypeOK
  <2>2. MigratedOnce'  BY <1>1, <1>10, OnceFramed DEF MigrationFails
  <2> QED  BY <1>10, <2>1, <2>2, StaysOut DEF MigrationFails, Holds
<1>11. CASE Unlock(j)
  <2>1. MigrationsTypeOK'  BY <1>1, <1>11 DEF Unlock, MigrateGoes, MigrationsTypeOK
  <2>2. MigratedOnce'  BY <1>1, <1>11, OnceFramed DEF Unlock
  <2> QED  BY <1>11, <2>1, <2>2, StaysOut DEF Unlock
<1>12. CASE KillMigrate(j)
  <2>1. MigrationsTypeOK'  BY <1>1, <1>12 DEF KillMigrate, MigrateGoes, MigrationsTypeOK
  <2>2. MigratedOnce'  BY <1>1, <1>12, OnceFramed DEF KillMigrate
  <2> QED  BY <1>12, <2>1, <2>2, StaysOut DEF KillMigrate
<1>13. CASE AssertCurrent(j)
  <2>1. MigrationsTypeOK'
    BY <1>1, <1>13 DEF AssertCurrent, jobStateVars, MigrationsTypeOK
  <2>2. ships[j] <= Len(applied)
    <3>1. ships[j] \in Nat  BY <1>1, MigrationsAssumption DEF MigrationsTypeOK
    <3>2. 1 .. ships[j] \subseteq 1 .. Len(applied)  BY <1>2, <1>13 DEF AssertCurrent
    <3>3. ships[j] # 0 => ships[j] \in 1 .. ships[j]  BY <3>1
    <3> QED  BY <1>2, <3>1, <3>2, <3>3
  <2>3. MigratedOnce'
    BY <1>1, <1>13, <2>2 DEF AssertCurrent, MigratedOnce
  <2> QED  BY <1>13, <2>1, <2>3 DEF AssertCurrent, jobStateVars, MigrationsInv, Holds
<1> QED  BY <1>3, <1>4, <1>5, <1>6, <1>7, <1>8, <1>9, <1>10, <1>11, <1>12, <1>13

-----------------------------------------------------------------------------
(* The strengthening holds in every reachable state.                       *)
THEOREM MigrationsInvariant == MigrationsSpec => []MigrationsInv
<1>1. MigrationsInit => MigrationsInv  BY InvInit
<1>2. MigrationsInv /\ [MigrationsNext]_migrationVars => MigrationsInv'
  BY InvNext
<1> QED  BY <1>1, <1>2, PTL DEF MigrationsSpec

(* However many jobs race, fail and are killed, behind the pooled endpoint *)
(* or not: each migration is applied once and in filename order, and the   *)
(* table says which ("each migration commits with its own version row",    *)
(* db/migrate.py).                                                         *)
THEOREM EachMigratedOnce == MigrationsSpec => []MigratedOnce
<1>1. MigrationsInv => MigratedOnce  BY DEF MigrationsInv
<1> QED  BY <1>1, MigrationsInvariant, PTL

-----------------------------------------------------------------------------
(* What fits the prompt.                                                   *)

(* In the first pass nothing is shown from the position on, and above it   *)
(* what is shown is bare; in the second, what was passed is as rich as it  *)
(* will get.                                                               *)
FitInv ==
  /\ FitTypeOK
  /\ \A i \in Hunks : chosen[i] <= Len(blocks[i])
  /\ spent = SumFunctionOnSet(CostOf, Hunks) /\ spent <= budget
  /\ pass = 1 =>
       \A i \in Hunks : IF i < position THEN chosen[i] \in {0, Len(blocks[i])} /\ LeftOutForItsSize(i)
                                        ELSE chosen[i] = 0
  /\ pass > 1 => \A i \in Hunks : LeftOutForItsSize(i)
  /\ pass = 2 => \A i \in Hunks : i < position => AsRichAsFits(i)
  /\ pass = 3 => \A i \in Hunks : AsRichAsFits(i)

(* The costs of a rendering and of a choice are naturals, and a richer     *)
(* rendering costs no less.                                                *)
LEMMA BlocksCost ==
  ASSUME NEW b \in Block
  PROVE  /\ Len(b) \in 1 .. 3 /\ DOMAIN b = 1 .. Len(b)
         /\ \A v \in 1 .. Len(b) : b[v] \in Nat
         /\ \A v, w \in 1 .. Len(b) : v <= w => b[v] >= b[w]
<1>1. PICK n \in 1 .. 3 : b \in [1 .. n -> 1 .. MaxCost]
  BY DEF Block
<1>2. Len(b) = n
  BY <1>1
<1>3. \A v \in 1 .. n : b[v] \in 1 .. MaxCost
  BY <1>1
<1>4. \A v \in 1 .. n : b[v] \in Nat
  BY <1>3, FitAssumption
<1>5. \A v \in 1 .. n - 1 : b[v] >= b[v + 1]
  BY <1>2 DEF Block
<1>6. \A v, w \in 1 .. n : v <= w => b[v] >= b[w]
  <2>1. CASE n = 1
    BY <1>4, <2>1
  <2>2. CASE n = 2
    <3>1. b[1] >= b[2]
      BY <1>5, <2>2
    <3> QED  BY <1>4, <2>2, <3>1
  <2>3. CASE n = 3
    <3>1. b[1] >= b[2] /\ b[2] >= b[3]
      <4>1. 1 \in 1 .. n - 1 /\ 2 \in 1 .. n - 1
        BY <2>3
      <4> QED  BY <1>5, <4>1
    <3>2. b[1] \in Nat /\ b[2] \in Nat /\ b[3] \in Nat
      BY <1>4, <2>3
    <3>3. \A v \in 1 .. n : v = 1 \/ v = 2 \/ v = 3
      BY <2>3
    <3> QED  BY <3>1, <3>2, <3>3
  <2> QED  BY <1>1, <2>1, <2>2, <2>3
<1> QED  BY <1>1, <1>2, <1>4, <1>6

LEMMA HunksCost ==
  ASSUME FitTypeOK, \A i \in Hunks : chosen[i] <= Len(blocks[i])
  PROVE  /\ IsFiniteSet(Hunks) /\ Len(blocks) \in Nat
         /\ \A i \in Hunks : /\ blocks[i] \in Block /\ chosen[i] \in 0 .. 3 /\ CostOf[i] = Cost(i)
                             /\ Cost(i) \in Nat /\ BareOf[i] \in Nat
                             /\ BareOf[i] = blocks[i][Len(blocks[i])]
<1>1. Len(blocks) \in Nat /\ \A i \in Hunks : blocks[i] \in Block /\ chosen[i] \in 0 .. 3
  BY DEF FitTypeOK, Hunks
<1>2. IsFiniteSet(Hunks)
  BY <1>1, FS_Interval DEF Hunks
<1>3. ASSUME NEW i \in Hunks
      PROVE  /\ CostOf[i] = Cost(i) /\ Cost(i) \in Nat /\ BareOf[i] \in Nat
             /\ BareOf[i] = blocks[i][Len(blocks[i])]
  <2>1. blocks[i] \in Block
    BY <1>1
  <2>2. Len(blocks[i]) \in 1 .. 3 /\ \A v \in 1 .. Len(blocks[i]) : blocks[i][v] \in Nat
    BY <2>1, BlocksCost
  <2>3. Len(blocks[i]) \in 1 .. Len(blocks[i])
    BY <2>2
  <2>4. chosen[i] # 0 => chosen[i] \in 1 .. Len(blocks[i])
    BY <1>1, <2>2
  <2> QED  BY <2>2, <2>3, <2>4 DEF CostOf, Cost, BareOf
<1> QED  BY <1>1, <1>2, <1>3

(* What showing a rendering of the hunk in hand does to the costs.         *)
LEMMA ShownCosts ==
  ASSUME FitTypeOK, \A i \in Hunks : chosen[i] <= Len(blocks[i]),
         spent = SumFunctionOnSet(CostOf, Hunks),
         position \in Hunks, UNCHANGED blocks,
         NEW v \in 1 .. Len(blocks[position]), Fits(v), Show(v)
  PROVE  /\ chosen' \in [Hunks -> 0 .. 3] /\ \A i \in Hunks : chosen'[i] <= Len(blocks[i])
         /\ chosen'[position] = v /\ \A i \in Hunks \ {position} : chosen'[i] = chosen[i]
         /\ spent' = SumFunctionOnSet(CostOf', Hunks) /\ spent' <= budget /\ spent' \in Nat
         /\ spent' = spent - Cost(position) + blocks[position][v]
         /\ \A i \in Hunks : Cost(i)' = IF i = position THEN blocks[position][v] ELSE Cost(i)
<1>1. /\ IsFiniteSet(Hunks)
      /\ \A i \in Hunks : /\ blocks[i] \in Block /\ chosen[i] \in 0 .. 3 /\ CostOf[i] = Cost(i)
                          /\ Cost(i) \in Nat
  BY HunksCost
<1>2. Len(blocks[position]) \in 1 .. 3 /\ blocks[position][v] \in Nat
  BY <1>1, BlocksCost
<1>3. chosen \in [Hunks -> 0 .. 3]
  BY DEF FitTypeOK, Hunks
<1>4. /\ chosen' \in [Hunks -> 0 .. 3] /\ chosen'[position] = v
      /\ \A i \in Hunks \ {position} : chosen'[i] = chosen[i]
  BY <1>2, <1>3 DEF Show
<1>5. \A i \in Hunks : chosen'[i] <= Len(blocks[i])
  BY <1>2, <1>4
<1>6. Hunks' = Hunks
  BY DEF Hunks
<1>7. \A i \in Hunks : Cost(i)' = IF i = position THEN blocks[position][v] ELSE Cost(i)
  BY <1>2, <1>4 DEF Cost
<1>8. \A i \in Hunks : CostOf'[i] = Cost(i)'
  BY <1>6 DEF CostOf
<1>9. /\ \A i \in Hunks : CostOf[i] \in Int /\ CostOf'[i] \in Int
      /\ \A i \in Hunks \ {position} : CostOf'[i] = CostOf[i]
  BY <1>1, <1>2, <1>7, <1>8
<1>10. SumFunctionOnSet(CostOf', Hunks) = SumFunctionOnSet(CostOf, Hunks) - CostOf[position] + CostOf'[position]
  <2>1. PICK earlier, after : earlier = CostOf /\ after = CostOf'
    OBVIOUS
  <2>2. /\ \A i \in Hunks : earlier[i] \in Int /\ after[i] \in Int
        /\ \A i \in Hunks \ {position} : after[i] = earlier[i]
    BY <1>9, <2>1
  <2>3. SumFunctionOnSet(after, Hunks) = SumFunctionOnSet(earlier, Hunks) - earlier[position] + after[position]
    BY <1>1, <2>2, SumChanges
  <2> QED  BY <2>1, <2>3
<1>11. spent' = spent - Cost(position) + blocks[position][v]
  BY DEF Show
<1>12. spent' = SumFunctionOnSet(CostOf', Hunks)
  BY <1>1, <1>7, <1>8, <1>10, <1>11
<1>13. \A i \in Hunks : CostOf'[i] \in Nat
  BY <1>1, <1>2, <1>7, <1>8
<1>14. SumFunctionOnSet(CostOf', Hunks) \in Nat
  BY <1>1, <1>13, SumOfPart
<1>15. spent' <= budget
  BY <1>11 DEF Fits
<1> QED  BY <1>4, <1>5, <1>7, <1>11, <1>12, <1>14, <1>15

(* In the first pass what was spent is the bare forms shown above.         *)
LEMMA SpentOnBare ==
  ASSUME FitInv, pass = 1, position \in Hunks
  PROVE  spent = SumFunctionOnSet(BareOf, ShownAbove(position))
<1>1. /\ IsFiniteSet(Hunks)
      /\ \A i \in Hunks : CostOf[i] = Cost(i) /\ Cost(i) \in Nat /\ BareOf[i] \in Nat
                          /\ BareOf[i] = blocks[i][Len(blocks[i])]
  BY HunksCost DEF FitInv
<1>2. ShownAbove(position) \in SUBSET Hunks
  BY DEF ShownAbove, Hunks
<1>3. \A i \in Hunks : i \in 1 .. Len(blocks)
  BY DEF Hunks
<1>4. \A i \in Hunks \ ShownAbove(position) : chosen[i] = 0
  BY <1>3 DEF FitInv, ShownAbove
<1>5. \A i \in Hunks \ ShownAbove(position) : CostOf[i] = 0
  BY <1>1, <1>4 DEF Cost
<1>6. \A i \in ShownAbove(position) : chosen[i] = Len(blocks[i]) /\ chosen[i] # 0
  BY <1>2 DEF FitInv, ShownAbove
<1>7. \A i \in ShownAbove(position) : CostOf[i] \in Int /\ BareOf[i] = CostOf[i]
  BY <1>1, <1>2, <1>6 DEF Cost
<1>8. \A i \in Hunks : CostOf[i] \in Int
  BY <1>1
<1>9. SumFunctionOnSet(CostOf, Hunks) = SumFunctionOnSet(CostOf, ShownAbove(position))
  BY <1>1, <1>2, <1>5, <1>8, SumSkipsZeros
<1>10. IsFiniteSet(ShownAbove(position))
  BY <1>1, <1>2, FS_Subset
<1>11. SumFunctionOnSet(CostOf, ShownAbove(position)) = SumFunctionOnSet(BareOf, ShownAbove(position))
  BY <1>7, <1>10, SumOfEquals
<1> QED  BY <1>9, <1>11 DEF FitInv

(* What is shown above a hunk depends on which of those are shown.         *)
LEMMA SameAbove ==
  ASSUME NEW i \in Hunks, UNCHANGED <<blocks, budget>>,
         \A j \in 1 .. i - 1 : chosen'[j] = 0 <=> chosen[j] = 0,
         chosen'[i] = 0 <=> chosen[i] = 0
  PROVE  LeftOutForItsSize(i)' <=> LeftOutForItsSize(i)
<1>1. ShownAbove(i)' = ShownAbove(i)
  BY DEF ShownAbove
<1>2. BareOf' = BareOf
  BY DEF BareOf, Hunks
<1> QED  BY <1>1, <1>2 DEF LeftOutForItsSize

LEMMA FitInvInit == ASSUME FitInit PROVE FitInv
<1>1. PICK n \in 0 .. MaxBlocks : blocks \in [1 .. n -> Block]
  BY DEF FitInit
<1>2. Len(blocks) = n /\ n \in Nat /\ blocks \in Seq(Block)
  BY <1>1, FitAssumption
<1>3. Hunks = 1 .. n /\ \A i \in Hunks : chosen[i] = 0
  BY <1>2 DEF FitInit, Hunks
<1>4. FitTypeOK
  BY <1>2 DEF FitInit, FitTypeOK
<1>5. \A i \in Hunks : blocks[i] \in Block
  BY <1>1, <1>3
<1>6. \A i \in Hunks : chosen[i] <= Len(blocks[i])
  BY <1>3, <1>5, BlocksCost
<1>7. IsFiniteSet(Hunks) /\ \A i \in Hunks : CostOf[i] = 0
  BY <1>3, <1>4, <1>6, HunksCost DEF Cost
<1>8. SumFunctionOnSet(CostOf, Hunks) = 0
  <2>1. \A i \in Hunks \ {} : CostOf[i] = 0
    BY <1>7
  <2>2. \A i \in Hunks : CostOf[i] \in Int
    BY <1>7
  <2>3. SumFunctionOnSet(CostOf, Hunks) = SumFunctionOnSet(CostOf, {})
    BY <1>7, <2>1, <2>2, SumSkipsZeros
  <2>4. SumFunctionOnSet(CostOf, {}) = 0
    BY <1>7, <2>2, SumOfSome
  <2> QED  BY <2>3, <2>4
<1>9. spent = 0 /\ pass = 1 /\ position = 1 /\ budget \in Nat
  BY FitAssumption DEF FitInit
<1>10. \A i \in Hunks : ~(i < position)
  BY <1>9 DEF Hunks
<1> QED  BY <1>3, <1>4, <1>6, <1>8, <1>9, <1>10 DEF FitInv

LEMMA TakeKeepsInv == ASSUME FitInv, TakeCheapest PROVE FitInv'
<1>. DEFINE cheapest == Len(blocks[position])
<1>1. /\ pass = 1 /\ position <= Len(blocks) /\ position' = position + 1
      /\ UNCHANGED <<blocks, budget, pass>>
  BY DEF TakeCheapest
<1>2. position \in Hunks /\ position \in Nat /\ Len(blocks) \in Nat /\ Hunks' = Hunks
  BY <1>1 DEF FitInv, FitTypeOK, Hunks
<1>3. \A i \in Hunks : i \in Nat
  BY <1>2 DEF Hunks
<1>4. spent = SumFunctionOnSet(BareOf, ShownAbove(position))
  BY <1>1, <1>2, SpentOnBare
<1>5. /\ chosen[position] = 0 /\ Cost(position) = 0
      /\ blocks[position] \in Block /\ BareOf[position] = blocks[position][cheapest]
  BY <1>1, <1>2, <1>3, HunksCost DEF FitInv, Cost
<1>6. cheapest \in 1 .. cheapest /\ blocks[position][cheapest] \in Nat
  BY <1>5, BlocksCost
<1>7. spent \in Nat /\ budget \in Nat
  BY FitAssumption DEF FitInv, FitTypeOK
<1>8. Fits(cheapest) <=> spent + BareOf[position] <= budget
  BY <1>5, <1>6, <1>7 DEF Fits
<1>10. CASE Fits(cheapest)
  <2>1. Show(cheapest)
    BY <1>10 DEF TakeCheapest
  <2>2. /\ chosen' \in [Hunks -> 0 .. 3] /\ \A i \in Hunks : chosen'[i] <= Len(blocks[i])
        /\ chosen'[position] = cheapest /\ \A i \in Hunks \ {position} : chosen'[i] = chosen[i]
        /\ spent' = SumFunctionOnSet(CostOf', Hunks) /\ spent' <= budget /\ spent' \in Nat
    BY <1>1, <1>2, <1>6, <1>10, <2>1, ShownCosts DEF FitInv
  <2>3. FitTypeOK'
    BY <1>1, <1>2, <2>2 DEF FitInv, FitTypeOK, Hunks
  <2>4. ASSUME NEW i \in Hunks, i < position
        PROVE  chosen'[i] \in {0, Len(blocks[i])} /\ LeftOutForItsSize(i)'
    <3>1. \A j \in 1 .. i : chosen'[j] = chosen[j]
      BY <1>2, <1>3, <2>2, <2>4 DEF Hunks
    <3>2. i \in 1 .. i
      BY <1>2, <2>4 DEF Hunks
    <3>3. \A j \in 1 .. i - 1 : j \in 1 .. i
      BY <1>3, <2>4
    <3>4. LeftOutForItsSize(i)' <=> LeftOutForItsSize(i)
      BY <1>1, <2>4, <3>1, <3>2, <3>3, SameAbove
    <3> QED  BY <1>1, <2>4, <3>1, <3>2, <3>4 DEF FitInv
  <2>5. ASSUME NEW i \in Hunks, i = position
        PROVE  chosen'[i] \in {0, Len(blocks[i])} /\ LeftOutForItsSize(i)'
    <3>1. \A j \in 1 .. i - 1 : chosen'[j] = chosen[j]
      BY <1>2, <2>2, <2>5 DEF Hunks
    <3>2. ShownAbove(i)' = ShownAbove(i) /\ BareOf' = BareOf
      BY <1>1, <1>2, <3>1 DEF ShownAbove, BareOf
    <3>3. chosen'[i] = cheapest /\ chosen'[i] # 0
      <4>1. Len(blocks[position]) \in 1 .. 3
        BY <1>5, BlocksCost
      <4>2. cheapest \in 1 .. 3 /\ chosen'[position] = cheapest
        BY <2>2, <4>1
      <4>3. chosen'[i] = chosen'[position]
        BY <2>5
      <4> HIDE DEF cheapest
      <4> QED  BY <4>2, <4>3
    <3>4. ~(SumFunctionOnSet(BareOf, ShownAbove(i)) + BareOf[i] > budget)
      BY <1>2, <1>4, <1>7, <1>8, <1>10, <2>5, HunksCost DEF FitInv
    <3> QED  BY <1>1, <2>5, <3>2, <3>3, <3>4 DEF LeftOutForItsSize
  <2>6. ASSUME NEW i \in Hunks, i > position
        PROVE  chosen'[i] = 0
    BY <1>1, <1>2, <1>3, <2>2, <2>6 DEF FitInv
  <2>7. \A i \in Hunks : IF i < position' THEN chosen'[i] \in {0, Len(blocks[i])} /\ LeftOutForItsSize(i)'
                                         ELSE chosen'[i] = 0
    BY <1>1, <1>2, <1>3, <2>4, <2>5, <2>6
  <2> HIDE DEF cheapest
  <2> QED  BY <1>1, <1>2, <2>2, <2>3, <2>7 DEF FitInv
<1>11. CASE ~Fits(cheapest)
  <2>1. UNCHANGED <<chosen, spent>>
    BY <1>11 DEF TakeCheapest
  <2>2. CostOf' = CostOf /\ BareOf' = BareOf /\ \A i \in Hunks : ShownAbove(i)' = ShownAbove(i)
    BY <1>1, <1>2, <2>1 DEF CostOf, BareOf, Cost, ShownAbove
  <2>3. \A i \in Hunks : LeftOutForItsSize(i)' <=> LeftOutForItsSize(i)
    BY <1>1, <2>1, <2>2 DEF LeftOutForItsSize
  <2>4. LeftOutForItsSize(position)
    BY <1>2, <1>4, <1>5, <1>6, <1>7, <1>8, <1>11 DEF LeftOutForItsSize
  <2>5. \A i \in Hunks : IF i < position' THEN chosen'[i] \in {0, Len(blocks[i])} /\ LeftOutForItsSize(i)'
                                         ELSE chosen'[i] = 0
    <3>1. SUFFICES ASSUME NEW i \in Hunks
                   PROVE  IF i < position' THEN chosen'[i] \in {0, Len(blocks[i])} /\ LeftOutForItsSize(i)'
                                           ELSE chosen'[i] = 0
      OBVIOUS
    <3>2. CASE i = position
      BY <1>1, <1>2, <1>5, <2>1, <2>3, <2>4, <3>2
    <3>3. CASE i # position
      <4>1. i < position' <=> i < position
        BY <1>1, <1>2, <1>3, <3>3
      <4> QED  BY <1>1, <2>1, <2>3, <4>1 DEF FitInv
    <3> QED  BY <3>2, <3>3
  <2>6. FitTypeOK'
    BY <1>1, <1>2, <2>1 DEF FitInv, FitTypeOK, Hunks
  <2> QED  BY <1>1, <1>2, <2>1, <2>2, <2>5, <2>6 DEF FitInv
<1> QED  BY <1>10, <1>11

LEMMA UpgradeKeepsInv == ASSUME FitInv, Upgrade PROVE FitInv'
<1>. DEFINE richer == {v \in 1 .. chosen[position] - 1 : Fits(v)}
<1>1. /\ pass = 2 /\ position <= Len(blocks) /\ position' = position + 1
      /\ UNCHANGED <<blocks, budget, pass>>
  BY DEF Upgrade
<1>2. position \in Hunks /\ position \in Nat /\ Len(blocks) \in Nat /\ Hunks' = Hunks
  BY <1>1 DEF FitInv, FitTypeOK, Hunks
<1>3. \A i \in Hunks : i \in Nat
  BY <1>2 DEF Hunks
<1>4. /\ \A i \in Hunks : /\ blocks[i] \in Block /\ chosen[i] \in 0 .. 3 /\ Cost(i) \in Nat
                            /\ chosen[i] <= Len(blocks[i]) /\ LeftOutForItsSize(i)
      /\ \A i \in Hunks : i < position => AsRichAsFits(i)
      /\ spent \in Nat /\ budget \in Nat
  BY <1>1, HunksCost, FitAssumption DEF FitInv, FitTypeOK
<1>5. \A i \in Hunks : /\ Len(blocks[i]) \in 1 .. 3 /\ \A v \in 1 .. Len(blocks[i]) : blocks[i][v] \in Nat
                       /\ \A v, w \in 1 .. Len(blocks[i]) : v <= w => blocks[i][v] >= blocks[i][w]
  BY <1>4, BlocksCost
<1>6. CASE richer = {}
  <2>1. UNCHANGED <<chosen, spent>>
    BY <1>6 DEF Upgrade
  <2>2. CostOf' = CostOf /\ BareOf' = BareOf
        /\ \A i \in Hunks : ShownAbove(i)' = ShownAbove(i) /\ Cost(i)' = Cost(i)
    BY <1>1, <1>2, <2>1 DEF CostOf, BareOf, Cost, ShownAbove
  <2>3. \A i \in Hunks : LeftOutForItsSize(i)' /\ (AsRichAsFits(i)' <=> AsRichAsFits(i))
    BY <1>1, <1>4, <2>1, <2>2 DEF LeftOutForItsSize, AsRichAsFits
  <2>4. AsRichAsFits(position)
    <3>1. SUFFICES ASSUME NEW v \in 1 .. chosen[position] - 1
                   PROVE  spent - Cost(position) + blocks[position][v] > budget
      BY DEF AsRichAsFits
    <3>2. v \in 1 .. Len(blocks[position])
      BY <1>2, <1>4, <1>5
    <3>3. blocks[position][v] \in Nat /\ Cost(position) \in Nat
      BY <1>2, <1>4, <1>5, <3>2
    <3>4. ~Fits(v)
      BY <1>6
    <3> QED  BY <1>4, <3>3, <3>4 DEF Fits
  <2>5. \A i \in Hunks : i < position' => AsRichAsFits(i)'
    <3>1. \A i \in Hunks : i < position' => i = position \/ i < position
      BY <1>1, <1>2, <1>3
    <3> QED  BY <1>2, <1>4, <2>3, <2>4, <3>1
  <2>6. FitTypeOK'
    BY <1>1, <1>2, <2>1 DEF FitInv, FitTypeOK, Hunks
  <2> QED  BY <1>1, <1>2, <2>1, <2>2, <2>3, <2>5, <2>6 DEF FitInv
<1>7. CASE richer # {}
  <2>. DEFINE best == Min(richer)
  <2>1. chosen[position] \in 0 .. 3 /\ richer \in SUBSET Nat
    BY <1>2, <1>4
  <2>2. best \in richer /\ \A v \in richer : best <= v
    <3> HIDE DEF richer
    <3> QED  BY <1>7, <2>1, MinIsLeast
  <2>3. /\ best \in 1 .. chosen[position] - 1 /\ Fits(best) /\ best \in Nat
        /\ best \in 1 .. Len(blocks[position]) /\ chosen[position] \in 1 .. Len(blocks[position])
    BY <1>2, <1>4, <1>5, <2>1, <2>2
  <2>4. Show(best)
    BY <1>7 DEF Upgrade
  <2> HIDE DEF best
  <2>5. /\ chosen' \in [Hunks -> 0 .. 3] /\ \A i \in Hunks : chosen'[i] <= Len(blocks[i])
        /\ chosen'[position] = best /\ \A i \in Hunks \ {position} : chosen'[i] = chosen[i]
        /\ spent' = SumFunctionOnSet(CostOf', Hunks) /\ spent' <= budget /\ spent' \in Nat
        /\ spent' = spent - Cost(position) + blocks[position][best]
        /\ \A i \in Hunks : Cost(i)' = IF i = position THEN blocks[position][best] ELSE Cost(i)
    BY <1>1, <1>2, <2>3, <2>4, ShownCosts DEF FitInv
  <2>6. \A i \in Hunks : chosen'[i] = 0 <=> chosen[i] = 0
    BY <2>3, <2>5
  <2>7. \A i \in Hunks : LeftOutForItsSize(i)'
    <3>1. SUFFICES ASSUME NEW i \in Hunks
                   PROVE  LeftOutForItsSize(i)'
      OBVIOUS
    <3>2. \A j \in 1 .. i - 1 : j \in Hunks
      BY <1>2 DEF Hunks
    <3>3. \A j \in 1 .. i - 1 : chosen'[j] = 0 <=> chosen[j] = 0
      BY <2>6, <3>2
    <3> QED  BY <1>1, <1>4, <2>6, <3>3, SameAbove
  <2>8. Cost(position) = blocks[position][chosen[position]]
    BY <2>3 DEF Cost
  <2>9. blocks[position][best] >= Cost(position) /\ blocks[position][best] \in Nat /\ Cost(position) \in Nat
    BY <1>2, <1>4, <1>5, <2>3, <2>8
  <2>10. spent' >= spent
    BY <1>4, <2>5, <2>9
  <2>11. ASSUME NEW i \in Hunks, i < position'
         PROVE  AsRichAsFits(i)'
    <3>1. CASE i = position
      <4>1. SUFFICES ASSUME NEW v \in 1 .. best - 1
                     PROVE  spent' - Cost(i)' + blocks[i][v] > budget
        BY <1>1, <2>5, <3>1 DEF AsRichAsFits
      <4>2. v \in 1 .. chosen[position] - 1 /\ v \notin richer /\ v \in 1 .. Len(blocks[position])
        BY <2>2, <2>3
      <4>3. ~(spent - Cost(position) + blocks[position][v] <= budget)
        BY <4>2 DEF Fits
      <4>4. blocks[position][v] \in Nat /\ spent' - Cost(i)' = spent - Cost(position)
        BY <1>2, <1>4, <1>5, <2>5, <2>9, <3>1, <4>2
      <4> QED  BY <1>4, <2>9, <3>1, <4>3, <4>4
    <3>2. CASE i # position
      <4>1. AsRichAsFits(i) /\ chosen'[i] = chosen[i] /\ Cost(i)' = Cost(i) /\ Cost(i) \in Nat
        <5>1. i \in Hunks /\ i \in Hunks \ {position}
          BY <2>11, <3>2
        <5>2. chosen'[i] = chosen[i] /\ Cost(i)' = Cost(i)
          BY <2>5, <3>2, <5>1
        <5>3. Cost(i) \in Nat
          BY <1>4, <5>1
        <5>4. AsRichAsFits(i)
          BY <1>1, <1>2, <1>3, <1>4, <2>11, <3>2, <5>1
        <5> QED  BY <5>2, <5>3, <5>4
      <4>2. SUFFICES ASSUME NEW v \in 1 .. chosen[i] - 1
                     PROVE  spent' - Cost(i)' + blocks[i][v] > budget
        BY <1>1, <4>1 DEF AsRichAsFits
      <4>3. spent - Cost(i) + blocks[i][v] > budget
        BY <4>1 DEF AsRichAsFits
      <4>4. v \in 1 .. Len(blocks[i])
        BY <1>4, <1>5
      <4>5. blocks[i][v] \in Nat
        BY <1>5, <4>4
      <4>6. PICK cost \in Nat, text \in Nat : cost = Cost(i) /\ cost = Cost(i)' /\ text = blocks[i][v]
        BY <4>1, <4>5
      <4>7. PICK sooner \in Int, later \in Int : sooner = spent /\ later = spent' /\ later >= sooner
        BY <1>4, <2>5, <2>9, <2>10
      <4>8. PICK room \in Int : room = budget
        BY <1>4
      <4>9. sooner - cost + text > room
        BY <4>3, <4>6, <4>7, <4>8
      <4>10. later - cost + text > room
        BY <4>6, <4>7, <4>8, <4>9
      <4> QED  BY <4>6, <4>7, <4>8, <4>10
    <3> QED  BY <3>1, <3>2
  <2>12. FitTypeOK'
    BY <1>1, <1>2, <2>5 DEF FitInv, FitTypeOK, Hunks
  <2> QED  BY <1>1, <1>2, <2>5, <2>7, <2>11, <2>12 DEF FitInv
<1> QED  BY <1>6, <1>7

LEMMA RestOfFit == ASSUME FitInv, EndPass \/ UNCHANGED fitVars PROVE FitInv'
<1>1. UNCHANGED <<blocks, budget, chosen, spent>> /\ Hunks' = Hunks
  BY DEF EndPass, fitVars, Hunks
<1>2. CostOf' = CostOf /\ BareOf' = BareOf
      /\ \A i \in Hunks : ShownAbove(i)' = ShownAbove(i) /\ Cost(i)' = Cost(i)
  BY <1>1 DEF CostOf, BareOf, Cost, ShownAbove
<1>3. \A i \in Hunks : /\ LeftOutForItsSize(i)' <=> LeftOutForItsSize(i)
                       /\ AsRichAsFits(i)' <=> AsRichAsFits(i)
  BY <1>1, <1>2 DEF LeftOutForItsSize, AsRichAsFits
<1>4. CASE EndPass
  <2>1. pass \in 1 .. 2 /\ pass' = pass + 1 /\ position' = 1
        /\ \A i \in Hunks : i < position
    BY <1>4 DEF EndPass, FitInv, FitTypeOK, Hunks
  <2>2. FitTypeOK' /\ \A i \in Hunks : ~(i < position')
    BY <1>1, <2>1 DEF FitInv, FitTypeOK, Hunks
  <2> QED  BY <1>1, <1>2, <1>3, <2>1, <2>2 DEF FitInv
<1>5. CASE UNCHANGED fitVars
  BY <1>1, <1>2, <1>3, <1>5 DEF FitInv, FitTypeOK, fitVars
<1> QED  BY <1>4, <1>5

(* What fit() keeps from turn to turn of its two loops.                    *)
THEOREM FitInvariant == FitSpec => []FitInv
<1>1. FitInv /\ [FitNext]_fitVars => FitInv'
  BY TakeKeepsInv, UpgradeKeepsInv, RestOfFit DEF FitNext
<1> QED  BY <1>1, FitInvInit, PTL DEF FitSpec

(* For any number of hunks, costs and budget fit() keeps to the budget and *)
(* passes nobody over (review/context.py).                                 *)
THEOREM FitAlwaysFair == FitSpec => []FitIsFair
<1>1. FitInv => FitIsFair
  BY DEF FitInv, FitIsFair
<1> QED  BY <1>1, FitInvariant, PTL

-----------------------------------------------------------------------------
(* What is read from a diff.                                               *)

LEMMA AppendIs ==
  ASSUME NEW S, NEW body \in Seq(S), NEW line \in S, NEW n, n = Len(body) + 1,
         NEW longer, longer = Append(body, line)
  PROVE  /\ n \in Nat /\ DOMAIN body = 1 .. n - 1 /\ DOMAIN longer = (1 .. n - 1) \cup {n}
         /\ longer \in Seq(S)
         /\ longer[n] = line /\ \A k \in 1 .. n - 1 : longer[k] = body[k]
<1>1. Len(body) \in Nat /\ DOMAIN body = 1 .. Len(body)
  OBVIOUS
<1>2. /\ longer \in Seq(S) /\ Len(longer) = Len(body) + 1
      /\ \A k \in 1 .. Len(body) : longer[k] = body[k]
      /\ longer[Len(body) + 1] = line
  BY AppendProperties
<1>3. DOMAIN longer = 1 .. Len(longer)
  BY <1>2
<1>4. 1 .. Len(body) + 1 = (1 .. Len(body)) \cup {Len(body) + 1} /\ n - 1 = Len(body)
  BY <1>1
<1> QED  BY <1>1, <1>2, <1>3, <1>4

(* The lines of a hunk with one more at its end.                           *)
LEMMA CountedAppend ==
  ASSUME NEW body \in Seq(DiffLine), NEW line \in DiffLine
  PROVE  /\ IsFiniteSet(Counted(body)) /\ Cardinality(Counted(body)) \in Nat
         /\ Cardinality(Counted(Append(body, line)))
              = Cardinality(Counted(body)) + (IF line.mark \in {"-", "\\"} THEN 0 ELSE 1)
         /\ CountedBefore(Append(body, line), Len(body) + 1) = Counted(body)
         /\ \A k \in DOMAIN body : CountedBefore(Append(body, line), k) = CountedBefore(body, k)
<1>. DEFINE longer == Append(body, line)
            n == Len(body) + 1
<1>1. /\ n \in Nat /\ DOMAIN body = 1 .. n - 1 /\ DOMAIN longer = (1 .. n - 1) \cup {n}
      /\ longer[n] = line /\ \A k \in 1 .. n - 1 : longer[k] = body[k]
  BY AppendIs
<1>2. IsFiniteSet(1 .. n - 1)
  BY <1>1, FS_Interval
<1>3. Counted(body) \subseteq 1 .. n - 1 /\ n \notin Counted(body)
  BY <1>1 DEF Counted
<1>4. IsFiniteSet(Counted(body))
  BY <1>2, <1>3, FS_Subset
<1>5. Cardinality(Counted(body)) \in Nat
  BY <1>4, FS_CardinalityType
<1>6. Counted(longer) = IF line.mark \in {"-", "\\"} THEN Counted(body) ELSE Counted(body) \cup {n}
  <2> HIDE DEF longer, n
  <2> QED  BY <1>1 DEF Counted
<1>7. Cardinality(Counted(body) \cup {n}) = Cardinality(Counted(body)) + 1
  BY <1>3, <1>4, FS_AddElement
<1>8. /\ CountedBefore(longer, n) = Counted(body)
      /\ \A k \in DOMAIN body : CountedBefore(longer, k) = CountedBefore(body, k)
  <2> HIDE DEF longer, n
  <2> QED  BY <1>1, <1>3, <1>6 DEF CountedBefore
<1> QED  BY <1>4, <1>5, <1>6, <1>7, <1>8

LEMMA LinesAppend ==
  ASSUME NEW body \in Seq(DiffLine), NEW line \in DiffLine, NEW path, NEW start,
         NEW h, h = [path |-> path, start |-> start, lines |-> body],
         NEW g, g = [path |-> path, start |-> start, lines |-> Append(body, line)]
  PROVE  NewFileLines(g) = NewFileLines(h) \cup
           (IF line.mark \in {"+", "blank"}
              THEN {[path |-> path, at |-> start + Cardinality(Counted(body)),
                     mark |-> line.mark, text |-> line.text]}
              ELSE {})
<1>. DEFINE longer == Append(body, line)
            n == Len(body) + 1
            InNewFile(lines) == {i \in DOMAIN lines : lines[i].mark \in {"+", "blank"}}
<1>1. /\ n \in Nat /\ DOMAIN body = 1 .. n - 1 /\ DOMAIN longer = (1 .. n - 1) \cup {n}
      /\ longer[n] = line /\ \A k \in 1 .. n - 1 : longer[k] = body[k]
  BY AppendIs
<1>2. \A k \in 1 .. n - 1 : Numbered(path, start, longer, k) = Numbered(path, start, body, k)
  <2>1. \A k \in 1 .. n - 1 : CountedBefore(longer, k) = CountedBefore(body, k)
    BY <1>1, CountedAppend
  <2> HIDE DEF longer
  <2> QED  BY <1>1, <2>1 DEF Numbered
<1>3. Numbered(path, start, longer, n) = [path |-> path, at |-> start + Cardinality(Counted(body)),
                                          mark |-> line.mark, text |-> line.text]
  BY <1>1, CountedAppend DEF Numbered
<1>4. InNewFile(longer) = InNewFile(body) \cup (IF line.mark \in {"+", "blank"} THEN {n} ELSE {})
  <2> HIDE DEF longer, n
  <2> QED  BY <1>1
<1>5. InNewFile(body) \subseteq 1 .. n - 1
  BY <1>1
<1>6. NewFileLines(h) = {Numbered(path, start, body, k) : k \in InNewFile(body)}
  BY DEF NewFileLines
<1>7. NewFileLines(g) = {Numbered(path, start, longer, k) : k \in InNewFile(longer)}
  BY DEF NewFileLines
<1> HIDE DEF longer, n, InNewFile
<1> QED  BY <1>2, <1>3, <1>4, <1>5, <1>6, <1>7

-----------------------------------------------------------------------------
(* The hunk the reader is in, and the lines all its hunks carry.           *)
Open == [path |-> parser.path, start |-> parser.header[1], lines |-> parser.body]

OpenLines == IF parser.header = NoHeader \/ parser.path = NoPath THEN {} ELSE NewFileLines(Open)

HunkLines(hunks) == UNION {NewFileLines(hunks[i]) : i \in DOMAIN hunks}

Carried == HunkLines(parser.hunks) \cup OpenLines

(* The reader is where the writer is.                                      *)
InStep ==
  /\ parser.path = git.path
  /\ parser.old = git.old /\ parser.new = git.new
  /\ git.old > 0 \/ git.new > 0 => parser.header # NoHeader
  /\ parser.header # NoHeader => parser.header[1] + Cardinality(Counted(parser.body)) = git.at

(* It has still to read the line that was written last.                    *)
OneLineBehind(mark, text) ==
  /\ mark \in {"+", "-", "blank"} /\ text \in Texts
  /\ parser.path = git.path /\ parser.header # NoHeader
  /\ parser.old = git.old + (IF mark = "+" THEN 0 ELSE 1)
  /\ parser.new = git.new + (IF mark = "-" THEN 0 ELSE 1)
  /\ parser.header[1] + Cardinality(Counted(parser.body)) = git.at - (IF mark = "-" THEN 0 ELSE 1)
  /\ mark # "-" => git.path # NoPath
  /\ git.lines = Carried \cup
       (IF mark = "-" THEN {}
        ELSE {[path |-> git.path, at |-> git.at - 1, mark |-> mark, text |-> text]})

(* It is through the hunk before the header that was written last.         *)
BeforeHeader(old, new) ==
  /\ parser.path = git.path /\ parser.old = 0 /\ parser.new = 0
  /\ git.old = Left(old) /\ git.new = Left(new) /\ old \in Int /\ new \in Int

BeforeFile == parser.old = 0 /\ parser.new = 0 /\ git.old = 0 /\ git.new = 0

Behind ==
  \/ wire = <<>> /\ InStep
  \/ wire = <<Content("\\", "plain")>> /\ InStep /\ parser.header # NoHeader
  \/ \E old, new \in Int : wire = <<Opening(git.at, old, new)>> /\ BeforeHeader(old, new)
  \/ wire = <<Content("d", "plain"), Content("-", "heads"), Preamble(git.path)>> /\ BeforeFile
  \/ wire = <<Content("-", "heads"), Preamble(git.path)>> /\ BeforeFile
  \/ wire = <<Preamble(git.path)>> /\ BeforeFile

DiffInv ==
  /\ DiffTypeOK
  /\ parser.header = NoHeader => parser.body = <<>> \/ parser.over
  /\ git.path = NoPath => git.new = 0
  /\ parser.over => wire = <<>> /\ parser.header = NoHeader
  /\ \/ Behind /\ git.lines = Carried
     \/ \E mark \in Marks, text \in Texts : wire = <<Content(mark, text)>> /\ OneLineBehind(mark, text)

(* A hunk that is put away carries what it carried.                        *)
LEMMA FlushedCarries ==
  ASSUME DiffTypeOK
  PROVE  HunkLines(Flushed) = Carried
<1>1. CASE parser.header = NoHeader \/ parser.path = NoPath
  BY <1>1 DEF Flushed, Carried, OpenLines
<1>2. CASE ~(parser.header = NoHeader \/ parser.path = NoPath)
  <2>. DEFINE n == Len(parser.hunks)
  <2>1. parser.hunks \in Seq(Hunk) /\ Flushed = Append(parser.hunks, Open)
    BY <1>2 DEF DiffTypeOK, Flushed, Open
  <2>2. /\ n \in Nat /\ DOMAIN parser.hunks = 1 .. n /\ DOMAIN Flushed = 1 .. n + 1
        /\ Flushed[n + 1] = Open /\ \A k \in 1 .. n : Flushed[k] = parser.hunks[k]
    BY <2>1
  <2> HIDE DEF n
  <2>3. 1 .. n + 1 = (1 .. n) \cup {n + 1}
    BY <2>2
  <2>4. OpenLines = NewFileLines(Open)
    BY <1>2 DEF OpenLines
  <2> QED  BY <2>2, <2>3, <2>4 DEF HunkLines, Carried
<1> QED  BY <1>1, <1>2

-----------------------------------------------------------------------------
(* The types, with BOOLEAN under a name the provers leave folded.          *)
Flags == BOOLEAN

GitStates ==
  [path : DiffPaths \cup {NoPath}, whole : Flags, files : SUBSET DiffPaths,
   hunks : Nat, size : Nat, at : Nat, old : 0 .. MaxSide, new : 0 .. MaxSide,
   marked : Flags, last : Marks, shut : Flags, lines : SUBSET GitLine]

ParserStates ==
  [path : DiffPaths \cup {NoPath}, header : Seq(Int), body : Seq(DiffLine),
   old : Int, new : Int, hunks : Seq(Hunk), over : Flags]

LEMMA StatesTyped ==
  DiffTypeOK <=> git \in GitStates /\ parser \in ParserStates /\ wire \in Seq(DiffLine)
BY DEF DiffTypeOK, GitStates, ParserStates, Flags

LEMMA StatesStayTyped ==
  ASSUME git' \in GitStates, parser' \in ParserStates, wire' \in Seq(DiffLine)
  PROVE  DiffTypeOK'
BY DEF DiffTypeOK, GitStates, ParserStates, Flags

LEMMA AreFlags == TRUE \in Flags /\ FALSE \in Flags
BY DEF Flags

(* The fields of the writer and the reader, one by one.                    *)
GitTyped ==
  /\ git.path \in DiffPaths \cup {NoPath} /\ git.whole \in Flags /\ git.files \in SUBSET DiffPaths
  /\ git.hunks \in Nat /\ git.size \in Nat /\ git.at \in Nat
  /\ git.old \in 0 .. MaxSide /\ git.new \in 0 .. MaxSide
  /\ git.marked \in Flags /\ git.last \in Marks /\ git.shut \in Flags
  /\ git.lines \in SUBSET GitLine

ParserTyped ==
  /\ parser.path \in DiffPaths \cup {NoPath} /\ parser.header \in Seq(Int)
  /\ parser.body \in Seq(DiffLine) /\ parser.old \in Int /\ parser.new \in Int
  /\ parser.hunks \in Seq(Hunk) /\ parser.over \in Flags

LEMMA FieldsTyped ==
  ASSUME DiffTypeOK
  PROVE  /\ git \in GitStates /\ GitTyped /\ parser \in ParserStates /\ ParserTyped
         /\ wire \in Seq(DiffLine)
BY StatesTyped DEF GitStates, ParserStates, GitTyped, ParserTyped

LEMMA LinesOfTheWire ==
  /\ \A mark \in Marks, text \in Texts : Content(mark, text) \in DiffLine
  /\ \A p \in DiffPaths \cup {NoPath} : Preamble(p) \in DiffLine
  /\ \A start, old, new \in Int : Opening(start, old, new) \in DiffLine
<1>1. NoHeader \in Seq(Int) /\ \A start, old, new \in Int : <<start, old, new>> \in Seq(Int)
  BY DEF NoHeader
<1> QED  BY <1>1 DEF Content, Preamble, Opening, DiffLine, Marks, Texts, NoHeader

LEMMA FlushedTyped == ASSUME ParserTyped PROVE Flushed \in Seq(Hunk)
<1>1. CASE parser.header = NoHeader \/ parser.path = NoPath
  BY <1>1 DEF Flushed, ParserTyped
<1>2. CASE ~(parser.header = NoHeader \/ parser.path = NoPath)
  <2>1. parser.header[1] \in Int
    BY <1>2 DEF ParserTyped, NoHeader
  <2>2. [path |-> parser.path, start |-> parser.header[1], lines |-> parser.body] \in Hunk
    BY <1>2, <2>1 DEF ParserTyped, Hunk
  <2> QED  BY <1>2, <2>2 DEF Flushed, ParserTyped
<1> QED  BY <1>1, <1>2

LEMMA WhenIdle ==
  ASSUME DiffInv, wire = <<>>
  PROVE  InStep /\ git.lines = Carried
BY DEF DiffInv, Behind

LEMMA DiffInvInit == ASSUME DiffInit PROVE DiffInv
<1>1. PICK whole \in Flags, shape \in DiffPaths \cup {NoPath} :
      /\ git = [path |-> shape, whole |-> whole, files |-> {}, hunks |-> 0, size |-> 0,
                at |-> 1, old |-> 0, new |-> 0, marked |-> FALSE, last |-> "blank",
                shut |-> FALSE, lines |-> {}]
      /\ parser = [path |-> shape, header |-> NoHeader, body |-> <<>>, old |-> 0,
                   new |-> 0, hunks |-> <<>>, over |-> FALSE]
  <2>1. (CHOOSE p \in DiffPaths : TRUE) \in DiffPaths
    BY DiffAssumption
  <2>2. \A whole \in BOOLEAN :
          (IF whole THEN {NoPath} ELSE {CHOOSE p \in DiffPaths : TRUE}) \subseteq DiffPaths \cup {NoPath}
    BY <2>1
  <2> QED  BY <2>2 DEF DiffInit, Flags
<1>2. git = [path |-> shape, whole |-> whole, files |-> {}, hunks |-> 0, size |-> 0,
             at |-> 1, old |-> 0, new |-> 0, marked |-> FALSE, last |-> "blank",
             shut |-> FALSE, lines |-> {}]
  BY <1>1
<1>3. parser = [path |-> shape, header |-> NoHeader, body |-> <<>>, old |-> 0,
                new |-> 0, hunks |-> <<>>, over |-> FALSE]
  BY <1>1
<1>4. git.path = shape /\ git.old = 0 /\ git.new = 0 /\ git.lines = {}
  BY <1>2
<1>5. /\ parser.path = shape /\ parser.header = NoHeader /\ parser.old = 0 /\ parser.new = 0
      /\ parser.body = <<>> /\ parser.hunks = <<>> /\ parser.over = FALSE
  BY <1>3
<1>6. wire = <<>>
  BY DEF DiffInit
<1>7. DiffTypeOK
  <2>1. 0 \in 0 .. MaxSide /\ "blank" \in Marks
    BY DiffAssumption DEF Marks
  <2>2. wire \in Seq(DiffLine) /\ NoHeader \in Seq(Int)
    BY <1>6 DEF NoHeader
  <2>3. git \in GitStates
    BY <1>2, <2>1, AreFlags DEF GitStates
  <2>4. <<>> \in Seq(DiffLine) /\ <<>> \in Seq(Hunk) /\ FALSE \in Flags
    BY AreFlags, EmptySeq
  <2>5. shape \in DiffPaths \cup {NoPath}
    BY <1>1
  <2>6. parser \in ParserStates
    <3>1. PICK nobody, nothing, no : nobody = <<>> /\ nothing = <<>> /\ no = FALSE
      OBVIOUS
    <3>2. parser = [path |-> shape, header |-> NoHeader, body |-> nobody, old |-> 0,
                    new |-> 0, hunks |-> nothing, over |-> no]
      BY <1>3, <3>1
    <3>3. nobody \in Seq(DiffLine) /\ nothing \in Seq(Hunk) /\ no \in Flags
      BY <2>4, <3>1
    <3> QED  BY <2>2, <2>5, <3>2, <3>3 DEF ParserStates
  <2> QED  BY <2>2, <2>3, <2>6, StatesTyped
<1>8. Carried = {}
  BY <1>5 DEF Carried, HunkLines, OpenLines
<1>9. InStep
  BY <1>4, <1>5 DEF InStep
<1> QED  BY <1>4, <1>5, <1>6, <1>7, <1>8, <1>9 DEF DiffInv, Behind

(* What the writer does leaves what was read alone.                        *)
LEMMA Unread ==
  ASSUME UNCHANGED parser
  PROVE  Carried' = Carried
BY DEF Carried, HunkLines, OpenLines, Open

LEMMA WriteFileKeepsInv ==
  ASSUME DiffInv, NEW p \in DiffPaths, NEW deleted \in BOOLEAN, WriteFile(p, deleted)
  PROVE  DiffInv'
<1>1. git \in GitStates /\ GitTyped /\ parser \in ParserStates /\ wire \in Seq(DiffLine)
  BY FieldsTyped DEF DiffInv
<1>2. InStep /\ git.lines = Carried /\ git.old = 0 /\ git.new = 0 /\ ~parser.over
  BY WhenIdle DEF WriteFile, Between
<1>3. Carried' = Carried /\ UNCHANGED parser
  BY Unread DEF WriteFile
<1>4. /\ git' = [git EXCEPT !.path = IF deleted THEN NoPath ELSE p, !.files = @ \cup {p},
                        !.at = 1, !.marked = FALSE, !.last = "blank", !.shut = FALSE]
      /\ wire' = << Content("d", "plain"), Content("-", "heads"),
                    Preamble(IF deleted THEN NoPath ELSE p) >>
  BY DEF WriteFile
<1>5. /\ git'.path = (IF deleted THEN NoPath ELSE p)
      /\ git'.old = 0 /\ git'.new = 0 /\ git'.lines = git.lines
  BY <1>1, <1>2, <1>4 DEF GitStates
<1>6. wire' \in Seq(DiffLine)
  <2>1. /\ Content("d", "plain") \in DiffLine /\ Content("-", "heads") \in DiffLine
        /\ Preamble(IF deleted THEN NoPath ELSE p) \in DiffLine
    BY LinesOfTheWire DEF Marks, Texts
  <2> QED  BY <1>4, <2>1
<1>7. DiffTypeOK'
  <2>1. "blank" \in Marks
    BY DEF Marks
  <2>2. git' \in GitStates
    BY <1>1, <1>4, <2>1, AreFlags DEF GitStates
  <2> QED  BY <1>1, <1>3, <1>6, <2>2, StatesStayTyped
<1>8. Behind'
  BY <1>2, <1>3, <1>4, <1>5 DEF Behind, BeforeFile, InStep
<1> QED  BY <1>2, <1>3, <1>5, <1>7, <1>8 DEF DiffInv

LEMMA WriteHunkKeepsInv ==
  ASSUME DiffInv, NEW old \in 0 .. MaxSide, NEW new \in 0 .. MaxSide, WriteHunk(old, new)
  PROVE  DiffInv'
<1>. DEFINE count(n) == IF n = 1 THEN LeftOut ELSE n
            start == git.at + 1
<1>1. git \in GitStates /\ GitTyped /\ parser \in ParserStates /\ wire \in Seq(DiffLine)
  BY FieldsTyped DEF DiffInv
<1>2. InStep /\ git.lines = Carried /\ git.old = 0 /\ git.new = 0 /\ ~parser.over
  BY WhenIdle DEF WriteHunk, Between
<1>3. Carried' = Carried /\ UNCHANGED parser
  BY Unread DEF WriteHunk
<1>4. /\ git' = [git EXCEPT !.hunks = @ + 1, !.size = @ + old + new, !.at = start,
                              !.old = old, !.new = new, !.last = "blank",
                              !.shut = git.path = NoPath]
      /\ wire' = <<Opening(start, count(old), count(new))>>
      /\ git.path = NoPath => new = 0
  BY DEF WriteHunk
<1>5. start \in Nat /\ count(old) \in Int /\ count(new) \in Int
      /\ Left(count(old)) = old /\ Left(count(new)) = new
  BY <1>1, DiffAssumption DEF GitTyped, LeftOut, Left
<1> HIDE DEF start, count
<1>6. /\ git'.path = git.path /\ git'.at = start
      /\ git'.old = old /\ git'.new = new /\ git'.lines = git.lines
  BY <1>1, <1>4 DEF GitStates, ParserStates
<1>7. wire' \in Seq(DiffLine)
  BY <1>4, <1>5, LinesOfTheWire
<1>8. DiffTypeOK'
  <2>1. old \in Nat /\ new \in Nat
    BY DiffAssumption
  <2>2. git.hunks + 1 \in Nat /\ git.size + old + new \in Nat
    BY <1>1, <2>1 DEF GitTyped
  <2>3. "blank" \in Marks
    BY DEF Marks
  <2>4. git' \in GitStates
    BY <1>1, <1>4, <1>5, <2>2, <2>3, AreFlags DEF GitStates
  <2> QED  BY <1>1, <1>3, <1>7, <2>4, StatesStayTyped
<1>9. BeforeHeader(count(old), count(new))'
  BY <1>2, <1>3, <1>5, <1>6 DEF BeforeHeader, InStep
<1>10. Behind'
  <2>1. wire' = <<Opening(git'.at, count(old), count(new))>>
    BY <1>4, <1>6
  <2> QED  BY <1>5, <1>9, <2>1 DEF Behind
<1> QED  BY <1>2, <1>3, <1>4, <1>6, <1>8, <1>10 DEF DiffInv

LEMMA WriteLineKeepsInv ==
  ASSUME Breaks = FALSE, DiffInv, NEW mark \in Marks, NEW text \in Texts, WriteLine(mark, text)
  PROVE  DiffInv'
<1>1. git \in GitStates /\ GitTyped /\ parser \in ParserStates /\ wire \in Seq(DiffLine)
  BY FieldsTyped DEF DiffInv
<1>2. InStep /\ git.lines = Carried
  BY WhenIdle DEF WriteLine
<1>3. Carried' = Carried /\ UNCHANGED parser
  BY Unread DEF WriteLine
<1>4. (mark # "+" => git.old > 0) /\ (mark # "-" => git.new > 0)
  BY DEF WriteLine
<1>5. mark \in {"+", "-", "blank"}
  BY DEF WriteLine
<1>6. git.path = NoPath => git.new = 0
  BY DEF DiffInv
<1>7. wire' = <<Content(mark, text)>>
  BY DEF WriteLine
<1>8. git' = [git EXCEPT !.old = IF mark = "+" THEN @ ELSE @ - 1,
                        !.new = IF mark = "-" THEN @ ELSE @ - 1,
                        !.at = IF mark = "-" THEN @ ELSE @ + 1,
                        !.last = mark,
                        !.lines = IF mark = "-" THEN @ ELSE @ \cup
                           {[path |-> git.path, at |-> git.at, mark |-> mark, text |-> text]}]
  BY DEF WriteLine
<1>9. /\ git'.path = git.path /\ git'.at = git.at + (IF mark = "-" THEN 0 ELSE 1)
      /\ git'.old = git.old - (IF mark = "+" THEN 0 ELSE 1)
      /\ git'.new = git.new - (IF mark = "-" THEN 0 ELSE 1)
  <2>1. git'.path = git.path /\ git'.at = IF mark = "-" THEN git.at ELSE git.at + 1
    BY <1>1, <1>8 DEF GitStates
  <2>2. git'.old = IF mark = "+" THEN git.old ELSE git.old - 1
    BY <1>1, <1>8 DEF GitStates
  <2>3. git'.new = IF mark = "-" THEN git.new ELSE git.new - 1
    BY <1>1, <1>8 DEF GitStates
  <2> QED  BY <1>1, <2>1, <2>2, <2>3 DEF GitTyped
<1>10. git'.lines = git.lines \cup
           (IF mark = "-" THEN {}
            ELSE {[path |-> git.path, at |-> git.at, mark |-> mark, text |-> text]})
  <2>1. git'.lines = IF mark = "-" THEN git.lines ELSE git.lines \cup
                           {[path |-> git.path, at |-> git.at, mark |-> mark, text |-> text]}
    BY <1>1, <1>8 DEF GitStates
  <2> QED  BY <2>1
<1>11. wire' \in Seq(DiffLine)
  <2>1. Content(mark, text) \in DiffLine
    BY LinesOfTheWire
  <2> QED  BY <1>7, <2>1
<1>12. git'.old \in 0 .. MaxSide /\ git'.new \in 0 .. MaxSide /\ git'.at \in Nat
  BY <1>1, <1>4, <1>9, DiffAssumption DEF GitTyped
<1>13. git'.lines \in SUBSET GitLine
  <2>1. [path |-> git.path, at |-> git.at, mark |-> mark, text |-> text] \in GitLine
    BY <1>1 DEF GitTyped, GitLine
  <2> QED  BY <1>1, <1>10, <2>1 DEF GitTyped
<1>14. DiffTypeOK'
  <2>1. git' = [path |-> git.path, whole |-> git.whole, files |-> git.files, hunks |-> git.hunks,
                size |-> git.size, at |-> git'.at, old |-> git'.old, new |-> git'.new,
                marked |-> git.marked, last |-> mark, shut |-> git.shut, lines |-> git'.lines]
    BY <1>1, <1>8 DEF GitStates
  <2>2. git' \in GitStates
    BY <1>1, <1>12, <1>13, <2>1 DEF GitTyped, GitStates
  <2> QED  BY <1>1, <1>3, <1>11, <2>2, StatesStayTyped
<1>15. git.path = NoPath => mark = "-" /\ git'.new = 0
  BY <1>1, <1>4, <1>9, <1>6 DEF GitTyped
<1>16. parser.header # NoHeader
  BY <1>1, <1>2, <1>4 DEF InStep, GitTyped
<1>17. OneLineBehind(mark, text)'
  <2>1. parser'.header[1] + Cardinality(Counted(parser'.body)) = git'.at - (IF mark = "-" THEN 0 ELSE 1)
    BY <1>1, <1>2, <1>3, <1>9, <1>16 DEF InStep, GitTyped
  <2>2. /\ parser'.old = git'.old + (IF mark = "+" THEN 0 ELSE 1)
        /\ parser'.new = git'.new + (IF mark = "-" THEN 0 ELSE 1)
    BY <1>1, <1>2, <1>3, <1>9 DEF InStep, GitTyped
  <2>3. mark # "-" => git'.at - 1 = git.at
    BY <1>1, <1>9 DEF GitTyped
  <2> QED  BY <1>2, <1>3, <1>5, <1>9, <1>10, <1>15, <1>16, <2>1, <2>2, <2>3 DEF OneLineBehind, InStep
<1>18. ~parser.over
  BY <1>16 DEF DiffInv
<1> QED  BY <1>3, <1>7, <1>9, <1>14, <1>15, <1>16, <1>17, <1>18 DEF DiffInv

LEMMA WriteNoNewlineKeepsInv == ASSUME DiffInv, WriteNoNewline PROVE DiffInv'
<1>1. git \in GitStates /\ GitTyped /\ parser \in ParserStates /\ wire \in Seq(DiffLine)
  BY FieldsTyped DEF DiffInv
<1>2. InStep /\ git.lines = Carried
  BY WhenIdle DEF WriteNoNewline
<1>3. Carried' = Carried /\ UNCHANGED parser
  BY Unread DEF WriteNoNewline
<1>4. /\ git' = [git EXCEPT !.marked = TRUE] /\ wire' = <<Content("\\", "plain")>>
      /\ ~parser.over /\ parser.body # <<>>
  BY DEF WriteNoNewline
<1>5. /\ git'.path = git.path /\ git'.at = git.at
      /\ git'.old = git.old /\ git'.new = git.new /\ git'.lines = git.lines
  BY <1>1, <1>4 DEF GitStates, ParserStates
<1>6. wire' \in Seq(DiffLine)
  <2>1. Content("\\", "plain") \in DiffLine
    BY LinesOfTheWire DEF Marks, Texts
  <2> QED  BY <1>4, <2>1
<1>7. DiffTypeOK'
  <2>1. git' \in GitStates
    BY <1>1, <1>4, AreFlags DEF GitStates
  <2> QED  BY <1>1, <1>3, <1>6, <2>1, StatesStayTyped
<1>8. InStep' /\ parser'.header # NoHeader
  BY <1>2, <1>3, <1>4, <1>5 DEF InStep, DiffInv
<1> QED  BY <1>2, <1>3, <1>4, <1>5, <1>7, <1>8 DEF DiffInv, Behind

LEMMA ReadAllKeepsInv == ASSUME DiffInv, ReadAll PROVE DiffInv'
<1>1. git \in GitStates /\ parser \in ParserStates /\ ParserTyped /\ wire \in Seq(DiffLine)
  BY FieldsTyped DEF DiffInv
<1>2. InStep /\ git.lines = Carried /\ wire = <<>> /\ git.old = 0 /\ git.new = 0
  BY WhenIdle DEF ReadAll, Between
<1>3. /\ parser' = [parser EXCEPT !.hunks = Flushed, !.header = NoHeader, !.over = TRUE]
      /\ UNCHANGED <<git, wire>>
  BY DEF ReadAll
<1>4. /\ parser'.path = parser.path /\ parser'.header = NoHeader /\ parser'.body = parser.body
      /\ parser'.old = parser.old /\ parser'.new = parser.new /\ parser'.hunks = Flushed
      /\ parser'.over = TRUE
  BY <1>1, <1>3 DEF GitStates, ParserStates
<1>5. Carried' = Carried
  <2>1. OpenLines' = {} /\ HunkLines(parser.hunks)' = HunkLines(Flushed)
    BY <1>4 DEF OpenLines, HunkLines
  <2> QED  BY <2>1, FlushedCarries DEF Carried, DiffInv
<1>6. Flushed \in Seq(Hunk)
  BY <1>1, FlushedTyped
<1>7. DiffTypeOK'
  <2>1. NoHeader \in Seq(Int)
    BY DEF NoHeader
  <2>2. parser' \in ParserStates
    BY <1>1, <1>3, <1>6, <2>1, AreFlags DEF ParserStates
  <2> QED  BY <1>1, <1>3, <2>2, StatesStayTyped
<1>8. InStep'
  BY <1>2, <1>3, <1>4 DEF InStep
<1> QED  BY <1>2, <1>3, <1>4, <1>5, <1>7, <1>8 DEF DiffInv, Behind

(* Which of its four cases the reader is in.                               *)
LEMMA InHunkTakes == ASSUME ReadLine, InHunk PROVE TakeContent
BY DEF ReadLine, TakeTrailer, TakeHeader, TakePreamble

LEMMA TrailerTakes ==
  ASSUME ReadLine, ~InHunk, parser.header # NoHeader, NextLine.mark = "\\"
  PROVE  TakeTrailer
BY DEF ReadLine, TakeContent, TakeHeader, TakePreamble

LEMMA HeaderTakes == ASSUME ReadLine, ~InHunk, NextLine.mark = "@" PROVE TakeHeader
BY DEF ReadLine, TakeContent, TakeTrailer, TakePreamble

LEMMA PreambleTakes ==
  ASSUME ReadLine, ~InHunk, NextLine.mark \in {"d", "-", "+"}
  PROVE  TakePreamble
BY DEF ReadLine, TakeContent, TakeTrailer, TakeHeader

LEMMA HeadsAndTails ==
  ASSUME NEW a, NEW b, NEW c
  PROVE  /\ Head(<<a>>) = a /\ Tail(<<a>>) = <<>>
         /\ Head(<<a, b>>) = a /\ Tail(<<a, b>>) = <<b>>
         /\ Head(<<a, b, c>>) = a /\ Tail(<<a, b, c>>) = <<b, c>>
OBVIOUS

LEMMA ShortSeqs ==
  ASSUME NEW S, NEW a \in S, NEW b \in S
  PROVE  <<b>> \in Seq(S) /\ <<a, b>> \in Seq(S)
OBVIOUS

(* One more line of the hunk in hand.                                      *)
LEMMA CarriedAppend ==
  ASSUME ParserTyped, NEW line \in DiffLine,
         parser'.path = parser.path, parser'.header = parser.header, parser.header # NoHeader,
         parser'.hunks = parser.hunks, parser'.body = Append(parser.body, line),
         parser.path = NoPath => line.mark \notin {"+", "blank"}
  PROVE  /\ Carried' = Carried \cup
              (IF line.mark \in {"+", "blank"}
                 THEN {[path |-> parser.path, at |-> parser.header[1] + Cardinality(Counted(parser.body)),
                        mark |-> line.mark, text |-> line.text]}
                 ELSE {})
         /\ Cardinality(Counted(parser'.body))
              = Cardinality(Counted(parser.body)) + (IF line.mark \in {"-", "\\"} THEN 0 ELSE 1)
         /\ Cardinality(Counted(parser.body)) \in Nat
         /\ parser'.body \in Seq(DiffLine)
<1>1. parser.body \in Seq(DiffLine)
  BY DEF ParserTyped
<1>2. /\ Cardinality(Counted(parser'.body))
           = Cardinality(Counted(parser.body)) + (IF line.mark \in {"-", "\\"} THEN 0 ELSE 1)
      /\ Cardinality(Counted(parser.body)) \in Nat
  BY <1>1, CountedAppend
<1>3. parser'.body \in Seq(DiffLine)
  BY <1>1, AppendProperties
<1>4. HunkLines(parser'.hunks) = HunkLines(parser.hunks)
  OBVIOUS
<1>5. CASE parser.path = NoPath
  <2>1. OpenLines' = {} /\ OpenLines = {}
    BY <1>5 DEF OpenLines
  <2> QED  BY <1>2, <1>3, <1>4, <1>5, <2>1 DEF Carried
<1>6. CASE parser.path # NoPath
  <2>1. PICK h, g : h = Open /\ g = Open'
    OBVIOUS
  <2>2. h = [path |-> parser.path, start |-> parser.header[1], lines |-> parser.body]
    BY <2>1 DEF Open
  <2>3. g = [path |-> parser.path, start |-> parser.header[1], lines |-> Append(parser.body, line)]
    BY <2>1 DEF Open
  <2>4. NewFileLines(g) = NewFileLines(h) \cup
           (IF line.mark \in {"+", "blank"}
              THEN {[path |-> parser.path, at |-> parser.header[1] + Cardinality(Counted(parser.body)),
                     mark |-> line.mark, text |-> line.text]}
              ELSE {})
    <3>1. PICK path, start, body : path = parser.path /\ start = parser.header[1] /\ body = parser.body
      OBVIOUS
    <3>2. /\ h = [path |-> path, start |-> start, lines |-> body]
          /\ g = [path |-> path, start |-> start, lines |-> Append(body, line)]
          /\ body \in Seq(DiffLine)
      BY <1>1, <2>2, <2>3, <3>1
    <3>3. NewFileLines(g) = NewFileLines(h) \cup
             (IF line.mark \in {"+", "blank"}
                THEN {[path |-> path, at |-> start + Cardinality(Counted(body)),
                       mark |-> line.mark, text |-> line.text]}
                ELSE {})
      BY <3>2, LinesAppend
    <3> QED  BY <3>1, <3>3
  <2>5. OpenLines' = NewFileLines(g) /\ OpenLines = NewFileLines(h)
    BY <1>6, <2>1 DEF OpenLines
  <2> QED  BY <1>2, <1>3, <1>4, <2>4, <2>5 DEF Carried
<1> QED  BY <1>5, <1>6

LEMMA LineKeepsInv ==
  ASSUME DiffInv, NEW mark \in Marks, NEW text \in Texts, wire = <<Content(mark, text)>>,
         OneLineBehind(mark, text), ReadLine
  PROVE  DiffInv'
<1>. DEFINE line == Content(mark, text)
<1>1. git \in GitStates /\ GitTyped /\ parser \in ParserStates /\ ParserTyped
  BY FieldsTyped DEF DiffInv
<1>2. line \in DiffLine /\ line.mark = mark /\ line.text = text
  BY LinesOfTheWire DEF Content
<1>3. NextLine = line /\ Tail(wire) = <<>>
  BY HeadsAndTails DEF NextLine
<1>4. mark \in {"+", "-", "blank"} /\ parser.header # NoHeader /\ parser.path = git.path
  BY DEF OneLineBehind
<1>5. /\ parser.old = git.old + (IF mark = "+" THEN 0 ELSE 1)
      /\ parser.new = git.new + (IF mark = "-" THEN 0 ELSE 1)
  BY DEF OneLineBehind
<1>6. git.old \in Nat /\ git.new \in Nat
  BY <1>1, DiffAssumption DEF GitTyped
<1>7. parser.old > 0 \/ parser.new > 0
  BY <1>5, <1>6
<1>8. InHunk
  BY <1>4, <1>7 DEF InHunk
<1>9. TakeContent /\ UNCHANGED git /\ wire' = <<>>
  BY <1>3, <1>8, InHunkTakes DEF ReadLine
<1> HIDE DEF line
<1>10. parser' = [parser EXCEPT
       !.body = Append(@, line),
       !.old = IF mark \in {"+", "\\"} THEN @ ELSE @ - 1,
       !.new = IF mark \in {"-", "\\"} THEN @ ELSE @ - 1]
  BY <1>2, <1>3, <1>9 DEF TakeContent
<1>11. /\ parser'.path = parser.path /\ parser'.header = parser.header
       /\ parser'.hunks = parser.hunks /\ parser'.body = Append(parser.body, line)
       /\ parser'.over = parser.over
  BY <1>1, <1>10 DEF ParserStates
<1>12. parser'.old = IF mark \in {"+", "\\"} THEN parser.old ELSE parser.old - 1
  BY <1>1, <1>10 DEF ParserStates
<1>13. parser'.new = IF mark \in {"-", "\\"} THEN parser.new ELSE parser.new - 1
  BY <1>1, <1>10 DEF ParserStates
<1>14. parser'.old = git.old /\ parser'.new = git.new
  <2>1. CASE mark = "+"
    BY <1>5, <1>6, <1>12, <1>13, <2>1
  <2>2. CASE mark = "-"
    BY <1>5, <1>6, <1>12, <1>13, <2>2
  <2>3. CASE mark = "blank"
    BY <1>5, <1>6, <1>12, <1>13, <2>3
  <2> QED  BY <1>4, <2>1, <2>2, <2>3
<1>15. mark # "-" => git.path # NoPath
  BY DEF OneLineBehind
<1>16. parser.path = NoPath => line.mark \notin {"+", "blank"}
  BY <1>2, <1>4, <1>15
<1>17. /\ Carried' = Carried \cup
              (IF line.mark \in {"+", "blank"}
                 THEN {[path |-> parser.path, at |-> parser.header[1] + Cardinality(Counted(parser.body)),
                        mark |-> line.mark, text |-> line.text]}
                 ELSE {})
       /\ Cardinality(Counted(parser'.body))
              = Cardinality(Counted(parser.body)) + (IF line.mark \in {"-", "\\"} THEN 0 ELSE 1)
       /\ Cardinality(Counted(parser.body)) \in Nat
       /\ parser'.body \in Seq(DiffLine)
  BY <1>1, <1>2, <1>4, <1>11, <1>16, CarriedAppend
<1>18. parser.header[1] \in Int /\ git.at \in Nat
  <2>1. parser.header \in Seq(Int)
    BY <1>1 DEF ParserTyped
  <2>2. parser.header[1] \in Int
    BY <1>4, <2>1 DEF NoHeader
  <2> QED  BY <1>1, <2>2 DEF GitTyped
<1>19. parser.header[1] + Cardinality(Counted(parser.body)) = git.at - (IF mark = "-" THEN 0 ELSE 1)
  BY DEF OneLineBehind
<1>20. parser'.header[1] + Cardinality(Counted(parser'.body)) = git'.at
  <2>1. Cardinality(Counted(parser'.body))
          = Cardinality(Counted(parser.body)) + (IF mark = "-" THEN 0 ELSE 1)
    BY <1>2, <1>4, <1>17
  <2>2. Cardinality(Counted(parser.body)) \in Nat
    BY <1>17
  <2>3. parser'.header[1] = parser.header[1] /\ git'.at = git.at
    BY <1>9, <1>11
  <2>4. CASE mark = "-"
    BY <1>18, <1>19, <2>1, <2>2, <2>3, <2>4
  <2>5. CASE mark # "-"
    BY <1>18, <1>19, <2>1, <2>2, <2>3, <2>5
  <2> QED  BY <2>4, <2>5
<1>21. git'.lines = Carried'
  <2>1. git.lines = Carried \cup
          (IF mark = "-" THEN {}
           ELSE {[path |-> git.path, at |-> git.at - 1, mark |-> mark, text |-> text]})
    BY DEF OneLineBehind
  <2>2. CASE mark = "-"
    BY <1>2, <1>9, <1>17, <2>1, <2>2
  <2>3. CASE mark # "-"
    <3>1. parser.header[1] + Cardinality(Counted(parser.body)) = git.at - 1
      BY <1>19, <2>3
    <3>2. line.mark \in {"+", "blank"}
      BY <1>2, <1>4, <2>3
    <3> QED  BY <1>2, <1>4, <1>9, <1>17, <2>1, <2>3, <3>1, <3>2
  <2> QED  BY <2>2, <2>3
<1>22. parser' \in ParserStates
  <2>1. parser'.old \in Int /\ parser'.new \in Int
    BY <1>6, <1>14
  <2>2. parser' = [path |-> parser.path, header |-> parser.header, body |-> parser'.body,
                   old |-> parser'.old, new |-> parser'.new, hunks |-> parser.hunks,
                   over |-> parser.over]
    BY <1>1, <1>10 DEF ParserStates
  <2>3. parser'.body \in Seq(DiffLine)
    BY <1>17
  <2> QED  BY <1>1, <2>1, <2>2, <2>3 DEF ParserTyped, ParserStates
<1>23. DiffTypeOK'
  <2>1. wire' \in Seq(DiffLine)
    BY <1>9, EmptySeq
  <2>2. git' \in GitStates
    BY <1>1, <1>9
  <2> QED  BY <1>22, <2>1, <2>2, StatesStayTyped
<1>24. InStep'
  <2>1. parser'.path = git'.path /\ parser'.old = git'.old /\ parser'.new = git'.new
    BY <1>4, <1>9, <1>11, <1>14
  <2> QED  BY <1>4, <1>11, <1>20, <2>1 DEF InStep
<1>25. parser'.header # NoHeader /\ ~parser'.over /\ (git'.path = NoPath => git'.new = 0)
  BY <1>4, <1>9, <1>11 DEF DiffInv
<1>26. Behind'
  BY <1>9, <1>24 DEF Behind
<1> QED  BY <1>21, <1>23, <1>25, <1>26 DEF DiffInv

LEMMA MarkKeepsInv ==
  ASSUME DiffInv, wire = <<Content("\\", "plain")>>, InStep, parser.header # NoHeader,
         git.lines = Carried, ReadLine
  PROVE  DiffInv'
<1>. DEFINE line == Content("\\", "plain")
<1>1. git \in GitStates /\ GitTyped /\ parser \in ParserStates /\ ParserTyped
  BY FieldsTyped DEF DiffInv
<1>2. line \in DiffLine /\ line.mark = "\\"
  BY LinesOfTheWire DEF Content, Marks, Texts
<1>3. NextLine = line /\ Tail(wire) = <<>>
  BY HeadsAndTails DEF NextLine
<1>4. UNCHANGED git /\ wire' = <<>>
  BY <1>3 DEF ReadLine
<1>5. \/ parser' = [parser EXCEPT !.body = Append(@, line)]
      \/ parser' = [parser EXCEPT !.body = Append(@, line), !.old = @, !.new = @]
  <2>1. CASE InHunk
    BY <1>2, <1>3, <2>1, InHunkTakes DEF TakeContent
  <2>2. CASE ~InHunk
    BY <1>2, <1>3, <2>2, TrailerTakes DEF TakeTrailer
  <2> QED  BY <2>1, <2>2
<1> HIDE DEF line
<1>6. /\ parser'.path = parser.path /\ parser'.header = parser.header
      /\ parser'.hunks = parser.hunks /\ parser'.body = Append(parser.body, line)
      /\ parser'.over = parser.over /\ parser'.old = parser.old /\ parser'.new = parser.new
  BY <1>1, <1>5 DEF ParserStates
<1>7. line.mark \notin {"+", "blank"} /\ line.mark \in {"-", "\\"}
  BY <1>2
<1>8. /\ Carried' = Carried
      /\ Cardinality(Counted(parser'.body)) = Cardinality(Counted(parser.body))
      /\ parser'.body \in Seq(DiffLine)
  BY <1>1, <1>2, <1>6, <1>7, CarriedAppend
<1>9. DiffTypeOK'
  <2>1. parser' = [path |-> parser.path, header |-> parser.header, body |-> parser'.body,
                   old |-> parser.old, new |-> parser.new, hunks |-> parser.hunks,
                   over |-> parser.over]
    BY <1>1, <1>5 DEF ParserStates
  <2>2. parser' \in ParserStates
    BY <1>1, <1>8, <2>1 DEF ParserTyped, ParserStates
  <2>3. wire' \in Seq(DiffLine) /\ git' \in GitStates
    BY <1>1, <1>4, EmptySeq
  <2> QED  BY <2>2, <2>3, StatesStayTyped
<1>10. InStep'
  BY <1>4, <1>6, <1>8 DEF InStep
<1>11. parser'.header # NoHeader /\ ~parser'.over /\ (git'.path = NoPath => git'.new = 0)
  BY <1>4, <1>6 DEF DiffInv
<1> QED  BY <1>4, <1>8, <1>9, <1>10, <1>11 DEF DiffInv, Behind

(* The hunk in hand is put away.                                           *)
LEMMA CarriedOver ==
  ASSUME DiffTypeOK, parser'.hunks = Flushed,
         parser'.header = NoHeader \/ NewFileLines(Open') = {}
  PROVE  Carried' = Carried /\ Flushed \in Seq(Hunk)
<1>1. OpenLines' = {}
  BY DEF OpenLines
<1>2. HunkLines(parser'.hunks) = Carried
  BY FlushedCarries
<1> QED  BY <1>1, <1>2, FieldsTyped, FlushedTyped DEF Carried

LEMMA HeaderKeepsInv ==
  ASSUME DiffInv, NEW old \in Int, NEW new \in Int, wire = <<Opening(git.at, old, new)>>,
         BeforeHeader(old, new), git.lines = Carried, ReadLine
  PROVE  DiffInv'
<1>. DEFINE line == Opening(git.at, old, new)
<1>1. git \in GitStates /\ GitTyped /\ parser \in ParserStates /\ ParserTyped /\ DiffTypeOK
  BY FieldsTyped DEF DiffInv
<1>2. line.mark = "@" /\ line.counts = <<git.at, old, new>>
  BY DEF Opening
<1>3. NextLine = line /\ Tail(wire) = <<>>
  BY HeadsAndTails DEF NextLine
<1>4. ~InHunk
  BY DEF InHunk, BeforeHeader
<1>5. TakeHeader /\ UNCHANGED git /\ wire' = <<>>
  BY <1>2, <1>3, <1>4, HeaderTakes DEF ReadLine
<1> HIDE DEF line
<1>6. parser' = [parser EXCEPT !.hunks = Flushed, !.header = <<git.at, old, new>>, !.body = <<>>,
                              !.old = Left(old), !.new = Left(new)]
  <2>1. <<git.at, old, new>>[2] = old /\ <<git.at, old, new>>[3] = new
    OBVIOUS
  <2> QED  BY <1>2, <1>3, <1>5, <2>1 DEF TakeHeader
<1>7. PICK header : header = <<git.at, old, new>>
  OBVIOUS
<1>8. header \in Seq(Int) /\ header # NoHeader /\ header[1] = git.at /\ git.at \in Int
  <2>1. git.at \in Int
    BY <1>1 DEF GitTyped
  <2> QED  BY <1>7, <2>1 DEF NoHeader
<1>9. /\ parser'.path = parser.path /\ parser'.header = header /\ parser'.body = <<>>
      /\ parser'.old = Left(old) /\ parser'.new = Left(new)
      /\ parser'.hunks = Flushed /\ parser'.over = parser.over
  BY <1>1, <1>6, <1>7 DEF ParserStates
<1>10. parser'.path = git.path /\ parser'.old = git.old /\ parser'.new = git.new
  BY <1>9 DEF BeforeHeader
<1>11. Counted(<<>>) = {}
  BY DEF Counted
<1>12. Cardinality(Counted(parser'.body)) = 0
  BY <1>9, <1>11, FS_EmptySet
<1>13. NewFileLines(Open') = {}
  <2>1. Open'.lines = <<>>
    BY <1>9 DEF Open
  <2> QED  BY <2>1 DEF NewFileLines
<1>14. Carried' = Carried /\ Flushed \in Seq(Hunk)
  BY <1>1, <1>9, <1>13, CarriedOver
<1>15. DiffTypeOK'
  <2>1. git.old \in Int /\ git.new \in Int
    BY <1>1, DiffAssumption DEF GitTyped
  <2>2. parser' = [path |-> parser.path, header |-> header, body |-> parser'.body,
                   old |-> git.old, new |-> git.new, hunks |-> Flushed, over |-> parser.over]
    BY <1>1, <1>6, <1>7, <1>9, <1>10 DEF ParserStates
  <2>3. parser'.body \in Seq(DiffLine)
    BY <1>9, EmptySeq
  <2>4. parser' \in ParserStates
    BY <1>1, <1>8, <1>14, <2>1, <2>2, <2>3 DEF ParserTyped, ParserStates
  <2>5. wire' \in Seq(DiffLine) /\ git' \in GitStates
    BY <1>1, <1>5, EmptySeq
  <2> QED  BY <2>4, <2>5, StatesStayTyped
<1>16. parser'.header # NoHeader /\ parser'.header[1] + Cardinality(Counted(parser'.body)) = git'.at
  BY <1>5, <1>8, <1>9, <1>12
<1>17. InStep'
  BY <1>5, <1>10, <1>16 DEF InStep
<1>18. ~parser.over /\ (git'.path = NoPath => git'.new = 0)
  <2>1. wire # <<>>
    OBVIOUS
  <2> QED  BY <1>5, <2>1 DEF DiffInv
<1>19. ~parser'.over /\ git'.lines = Carried'
  BY <1>5, <1>9, <1>14, <1>18
<1> QED  BY <1>5, <1>15, <1>16, <1>17, <1>18, <1>19 DEF DiffInv, Behind

(* A line before a file's hunks.                                           *)
LEMMA PreambleTaken ==
  ASSUME DiffInv, BeforeFile, wire # <<>>, NextLine.mark \in {"d", "-", "+"},
         git.lines = Carried, ReadLine
  PROVE  /\ git' = git /\ wire' = Tail(wire) /\ BeforeFile' /\ git'.lines = Carried'
         /\ parser' \in ParserStates \/ NextLine.path \notin DiffPaths \cup {NoPath}
         /\ parser'.header = NoHeader /\ parser'.body = <<>> /\ ~parser'.over
         /\ parser'.path = IF NextLine.mark = "+" /\ NextLine.text = "heads"
                             THEN NextLine.path ELSE parser.path
<1>1. git \in GitStates /\ GitTyped /\ parser \in ParserStates /\ ParserTyped /\ DiffTypeOK
  BY FieldsTyped DEF DiffInv
<1>2. ~InHunk
  BY DEF InHunk, BeforeFile
<1>3. TakePreamble /\ git' = git /\ wire' = Tail(wire)
  BY <1>2, PreambleTakes DEF ReadLine
<1>4. PICK path : path = IF NextLine.mark = "+" /\ NextLine.text = "heads"
                           THEN NextLine.path ELSE parser.path
  OBVIOUS
<1>5. parser' = [parser EXCEPT !.hunks = Flushed, !.header = NoHeader, !.body = <<>>, !.path = path]
  BY <1>3, <1>4 DEF TakePreamble
<1>6. /\ parser'.path = path /\ parser'.header = NoHeader /\ parser'.body = <<>>
      /\ parser'.old = parser.old /\ parser'.new = parser.new
      /\ parser'.hunks = Flushed /\ parser'.over = parser.over
  BY <1>1, <1>5 DEF ParserStates
<1>7. Carried' = Carried /\ Flushed \in Seq(Hunk)
  BY <1>1, <1>6, CarriedOver
<1>8. ~parser.over
  BY DEF DiffInv
<1>9. BeforeFile'
  BY <1>3, <1>6 DEF BeforeFile
<1>10. path \in DiffPaths \cup {NoPath} \/ NextLine.path \notin DiffPaths \cup {NoPath}
  BY <1>1, <1>4 DEF ParserTyped
<1>11. path \in DiffPaths \cup {NoPath} => parser' \in ParserStates
  <2>1. parser' = [path |-> path, header |-> NoHeader, body |-> parser'.body,
                   old |-> parser.old, new |-> parser.new, hunks |-> Flushed, over |-> parser.over]
    BY <1>1, <1>5 DEF ParserStates
  <2>2. parser'.body \in Seq(DiffLine) /\ NoHeader \in Seq(Int)
    BY <1>6, EmptySeq DEF NoHeader
  <2> QED  BY <1>1, <1>7, <2>1, <2>2 DEF ParserTyped, ParserStates
<1> QED  BY <1>3, <1>4, <1>6, <1>7, <1>8, <1>9, <1>10, <1>11

LEMMA FileKeepsInv ==
  ASSUME DiffInv, BeforeFile, git.lines = Carried, ReadLine,
         \/ wire = <<Content("d", "plain"), Content("-", "heads"), Preamble(git.path)>>
         \/ wire = <<Content("-", "heads"), Preamble(git.path)>>
         \/ wire = <<Preamble(git.path)>>
  PROVE  DiffInv'
<1>1. git \in GitStates /\ GitTyped /\ ParserTyped
  BY FieldsTyped DEF DiffInv
<1>2. git.path \in DiffPaths \cup {NoPath} /\ parser.path \in DiffPaths \cup {NoPath}
  BY <1>1 DEF GitTyped, ParserTyped
<1>3. Content("-", "heads") \in DiffLine /\ Preamble(git.path) \in DiffLine
  BY <1>2, LinesOfTheWire DEF Marks, Texts
<1>4. CASE wire # <<Preamble(git.path)>>
  <2>1. \/ /\ NextLine = Content("d", "plain")
           /\ Tail(wire) = <<Content("-", "heads"), Preamble(git.path)>>
        \/ NextLine = Content("-", "heads") /\ Tail(wire) = <<Preamble(git.path)>>
    <3>1. CASE wire = <<Content("d", "plain"), Content("-", "heads"), Preamble(git.path)>>
      BY <3>1, HeadsAndTails DEF NextLine
    <3>2. CASE wire = <<Content("-", "heads"), Preamble(git.path)>>
      BY <3>2, HeadsAndTails DEF NextLine
    <3> QED  BY <1>4, <3>1, <3>2
  <2>2. NextLine.mark \in {"d", "-"} /\ NextLine.path = NoPath
    BY <2>1 DEF Content
  <2>3. wire # <<>> /\ NextLine.mark \in {"d", "-", "+"}
    BY <2>2
  <2>4. /\ git' = git /\ wire' = Tail(wire) /\ BeforeFile' /\ git'.lines = Carried'
        /\ parser' \in ParserStates
        /\ parser'.header = NoHeader /\ parser'.body = <<>> /\ ~parser'.over
    <3>1. NextLine.path \in DiffPaths \cup {NoPath}
      BY <2>2
    <3>2. /\ git' = git /\ wire' = Tail(wire) /\ BeforeFile' /\ git'.lines = Carried'
          /\ parser' \in ParserStates \/ NextLine.path \notin DiffPaths \cup {NoPath}
          /\ parser'.header = NoHeader /\ parser'.body = <<>> /\ ~parser'.over
      BY <2>3, PreambleTaken
    <3> QED  BY <3>1, <3>2
  <2>5. wire' \in Seq(DiffLine)
    <3>1. /\ <<Preamble(git.path)>> \in Seq(DiffLine)
          /\ <<Content("-", "heads"), Preamble(git.path)>> \in Seq(DiffLine)
      BY <1>3, ShortSeqs
    <3> QED  BY <2>1, <2>4, <3>1
  <2>6. DiffTypeOK'
    BY <1>1, <2>4, <2>5, StatesStayTyped
  <2>7. git'.path = NoPath => git'.new = 0
    BY <2>4 DEF DiffInv
  <2>8. Behind'
    BY <2>1, <2>4 DEF Behind
  <2> QED  BY <2>4, <2>6, <2>7, <2>8 DEF DiffInv
<1>5. CASE wire = <<Preamble(git.path)>>
  <2>1. NextLine = Preamble(git.path) /\ Tail(wire) = <<>>
    BY <1>5, HeadsAndTails DEF NextLine
  <2>2. NextLine.mark = "+" /\ NextLine.text = "heads" /\ NextLine.path = git.path
    BY <2>1 DEF Preamble
  <2>3. wire # <<>> /\ NextLine.mark \in {"d", "-", "+"}
    BY <1>5, <2>2
  <2>4. /\ git' = git /\ wire' = <<>> /\ BeforeFile' /\ git'.lines = Carried'
        /\ parser' \in ParserStates
        /\ parser'.header = NoHeader /\ parser'.body = <<>> /\ ~parser'.over
        /\ parser'.path = git.path
    BY <1>2, <2>1, <2>2, <2>3, PreambleTaken
  <2>5. DiffTypeOK'
    BY <1>1, <2>4, EmptySeq, StatesStayTyped
  <2>6. git'.path = NoPath => git'.new = 0
    BY <2>4 DEF DiffInv
  <2>7. InStep'
    BY <2>4 DEF InStep, BeforeFile
  <2> QED  BY <2>4, <2>5, <2>6, <2>7 DEF DiffInv, Behind
<1> QED  BY <1>4, <1>5

LEMMA ReadLineKeepsInv == ASSUME DiffInv, ReadLine PROVE DiffInv'
<1>1. wire # <<>>
  BY DEF ReadLine
<1>2. CASE Behind /\ git.lines = Carried
  BY <1>1, <1>2, MarkKeepsInv, HeaderKeepsInv, FileKeepsInv DEF Behind
<1>3. CASE \E mark \in Marks, text \in Texts : wire = <<Content(mark, text)>> /\ OneLineBehind(mark, text)
  BY <1>3, LineKeepsInv
<1> QED  BY <1>2, <1>3 DEF DiffInv

LEMMA DiffStill == ASSUME DiffInv, UNCHANGED diffVars PROVE DiffInv'
<1>1. git' = git /\ wire' = wire /\ parser' = parser
  BY DEF diffVars
<1>2. Carried' = Carried
  BY <1>1, Unread
<1>3. DiffTypeOK'
  BY <1>1 DEF DiffInv, DiffTypeOK
<1>4. InStep' <=> InStep
  BY <1>1 DEF InStep
<1>5. BeforeFile' <=> BeforeFile
  BY <1>1 DEF BeforeFile
<1>6. \A old, new : BeforeHeader(old, new)' <=> BeforeHeader(old, new)
  BY <1>1 DEF BeforeHeader
<1>7. \A mark, text : OneLineBehind(mark, text)' <=> OneLineBehind(mark, text)
  BY <1>1, <1>2 DEF OneLineBehind
<1>8. Behind' <=> Behind
  BY <1>1, <1>4, <1>5, <1>6 DEF Behind
<1> QED  BY <1>1, <1>2, <1>3, <1>7, <1>8 DEF DiffInv

LEMMA DiffInvNext ==
  ASSUME Breaks = FALSE, DiffInv, [DiffNext]_diffVars
  PROVE  DiffInv'
BY WriteFileKeepsInv, WriteHunkKeepsInv, WriteLineKeepsInv, WriteNoNewlineKeepsInv,
   ReadLineKeepsInv, ReadAllKeepsInv, DiffStill DEF DiffNext

(* Where the reader stands behind git, line for line, as long as no line   *)
(* holds a break that git does not know.                                   *)
THEOREM DiffInvariant == ASSUME Breaks = FALSE PROVE DiffSpec => []DiffInv
<1>1. DiffInv /\ [DiffNext]_diffVars => DiffInv'
  BY DiffInvNext
<1> QED  BY <1>1, DiffInvInit, PTL DEF DiffSpec

(* For any files, hunks and sides: the numbers the hunks carry are git's   *)
(* (ingest/diff.py), unless a line holds a break of splitlines.            *)
THEOREM NumbersAlwaysTrue == ASSUME Breaks = FALSE PROVE DiffSpec => []NumbersAreTrue
<1>1. DiffInv => NumbersAreTrue
  <2>1. SUFFICES ASSUME DiffInv, parser.over
                 PROVE  UNION {NewFileLines(parser.hunks[i]) : i \in DOMAIN parser.hunks} = git.lines
    BY DEF NumbersAreTrue
  <2>2. wire = <<>> /\ parser.header = NoHeader
    BY <2>1 DEF DiffInv
  <2>3. git.lines = Carried
    BY <2>1, <2>2, WhenIdle
  <2>4. OpenLines = {}
    BY <2>2 DEF OpenLines
  <2> QED  BY <2>3, <2>4 DEF Carried, HunkLines
<1> QED  BY <1>1, DiffInvariant, PTL

-----------------------------------------------------------------------------
(* The research tools.                                                     *)
(* The first hits are as many as there is room for, or all.                *)
LEMMA FirstHitsFill ==
  ASSUME NEW p \in Paths, NEW n \in Nat
  PROVE  /\ IsFiniteSet(HitsOf[p]) /\ FirstHits(p, n) \subseteq HitsOf[p]
         /\ Cardinality(FirstHits(p, n)) <= n
         /\ Cardinality(FirstHits(p, n)) < n => FirstHits(p, n) = HitsOf[p]
         /\ Cardinality(HitsOf[p]) <= n => FirstHits(p, n) = HitsOf[p]
<1>. DEFINE S == HitsOf[p]
            R == {q \in S \X S : q[1] < q[2]}
<1>1. S \subseteq 1 .. LinesOf[p] /\ LinesOf[p] \in Nat
  BY ToolAssumption
<1>2. IsFiniteSet(S) /\ Cardinality(S) \in Nat
  <2>1. PICK m \in Nat : m = LinesOf[p]
    BY <1>1
  <2>2. IsFiniteSet(1 .. m)
    BY FS_Interval
  <2> QED  BY <1>1, <2>1, <2>2, FS_Subset, FS_CardinalityType
<1>3. Orders(R, S)
  BY <1>1 DEF Orders
<1>4. FirstHits(p, n) = {i \in S : Cardinality(Below(R, S, i)) < n}
  <2>1. \A i \in S : Below(R, S, i) = {q \in S : q < i}
    BY DEF Below
  <2> QED  BY <2>1 DEF FirstHits
<1>5. Cardinality(FirstHits(p, n)) = IF Cardinality(S) < n THEN Cardinality(S) ELSE n
  <2> HIDE DEF S, R
  <2> QED  BY <1>2, <1>3, <1>4, FirstOnes
<1>6. FirstHits(p, n) \subseteq S
  BY <1>4
<1>7. Cardinality(FirstHits(p, n)) = Cardinality(S) => FirstHits(p, n) = S
  <2> HIDE DEF S
  <2> QED  BY <1>2, <1>6, FS_Subset
<1> QED  BY <1>2, <1>5, <1>6, <1>7

(* Rows are counted file by file.                                          *)
Counts(paths) == [j \in 1 .. Len(paths) |-> Cardinality(HitsOf[paths[j]])]

Earlier(paths, readable, i) == {j \in 1 .. i - 1 : paths[j] \in readable}

LEMMA RowsAddUp ==
  ASSUME NEW paths \in Seq(Paths), NEW readable, NEW i \in 1 .. Len(paths)
  PROVE  /\ RowsBefore(paths, readable, i) \in Nat
         /\ \A j \in Earlier(paths, readable, i) :
              RowsBefore(paths, readable, j) + Cardinality(HitsOf[paths[j]]) <= RowsBefore(paths, readable, i)
<1>. DEFINE N == 1 .. Len(paths)
            c == Counts(paths)
            Sum(s) == SumFunctionOnSet(c, s)
            Before(j) == Earlier(paths, readable, j)
<1>1. \A j \in N : paths[j] \in Paths /\ c[j] = Cardinality(HitsOf[paths[j]]) /\ c[j] \in Nat
  <2>1. SUFFICES ASSUME NEW j \in N
                 PROVE  paths[j] \in Paths /\ c[j] = Cardinality(HitsOf[paths[j]]) /\ c[j] \in Nat
    OBVIOUS
  <2>2. paths[j] \in Paths
    OBVIOUS
  <2>3. IsFiniteSet(HitsOf[paths[j]])
    BY <2>2, FirstHitsFill
  <2>4. c[j] = Cardinality(HitsOf[paths[j]])
    BY DEF Counts
  <2> QED  BY <2>2, <2>3, <2>4, FS_CardinalityType
<1>2. \A j \in N : RowsBefore(paths, readable, j) = Sum(Before(j))
  BY DEF RowsBefore, Counts, Earlier
<1>3. IsFiniteSet(Before(i)) /\ Before(i) \subseteq N
  <2>1. IsFiniteSet(1 .. i - 1)
    BY FS_Interval
  <2> QED  BY <2>1, FS_Subset DEF Earlier
<1> HIDE DEF c
<1>4. Sum(Before(i)) \in Nat
  <2>1. \A j \in Before(i) : c[j] \in Nat
    BY <1>1, <1>3
  <2> HIDE DEF Before
  <2> QED  BY <1>3, <2>1, SumOfPart
<1>5. ASSUME NEW j \in Before(i)
      PROVE  Sum(Before(j)) + c[j] <= Sum(Before(i))
  <2>1. PICK T : T = Before(j) \cup {j}
    OBVIOUS
  <2>2. T \subseteq Before(i) /\ j \in T /\ T \ {j} = Before(j)
    BY <1>3, <2>1 DEF Earlier
  <2>3. IsFiniteSet(T) /\ \A x \in T : c[x] \in Int
    BY <1>1, <1>3, <2>2, FS_Subset
  <2>4. Sum(T) = c[j] + Sum(T \ {j})
    BY <2>2, <2>3, SumOfAny
  <2>5. \A x \in Before(i) : c[x] \in Nat
    BY <1>1, <1>3
  <2> HIDE DEF Before
  <2>6. Sum(T) \in Nat /\ Sum(T) <= Sum(Before(i))
    BY <1>3, <2>2, <2>5, SumOfPart
  <2>7. Sum(Before(j)) \in Nat
    <3>1. Before(j) \subseteq Before(i)
      BY <2>2
    <3> QED  BY <1>3, <2>5, <3>1, SumOfPart
  <2>8. c[j] \in Nat
    BY <2>5
  <2>9. Sum(T) = c[j] + Sum(Before(j))
    BY <2>2, <2>4
  <2> HIDE DEF Sum
  <2> QED  BY <2>6, <2>7, <2>8, <2>9
<1> QED  BY <1>1, <1>2, <1>3, <1>4, <1>5

(* The files a search reaches, and the rows it shows of them.              *)
Searched(paths, readable) == {j \in Reached(paths, readable) : paths[j] \in readable}

Cut(paths, readable) ==
  [j \in 1 .. Len(paths) |->
     {paths[j]} \X FirstHits(paths[j], MaxGrepMatches - RowsBefore(paths, readable, j))]

Whole(paths) == [j \in 1 .. Len(paths) |-> {paths[j]} \X HitsOf[paths[j]]]

(* No more rows than the cap; and fewer only if they are all there are.    *)
LEMMA SearchFillsUp ==
  ASSUME NEW paths \in Seq(Paths), \A i, j \in 1 .. Len(paths) : paths[i] = paths[j] => i = j,
         NEW readable
  PROVE  LET S == Searched(paths, readable)
             hitRows == Together(Cut(paths, readable), S)
         IN  /\ hitRows \subseteq Together(Whole(paths), S)
             /\ Cardinality(hitRows) <= MaxGrepMatches
             /\ Cardinality(hitRows) < MaxGrepMatches => hitRows = Together(Whole(paths), S)
<1>. DEFINE N == 1 .. Len(paths)
            S == Searched(paths, readable)
            cut == Cut(paths, readable)
            whole == Whole(paths)
            hitRows == Together(cut, S)
            RB(j) == RowsBefore(paths, readable, j)
            Hits(j) == HitsOf[paths[j]]
            c == Counts(paths)
<1>1. MaxGrepMatches \in Nat \ {0}
  BY ToolAssumption
<1>2. S \subseteq N /\ \A j \in S : paths[j] \in readable /\ RB(j) < MaxGrepMatches
  BY DEF Searched, Reached
<1>3. \A j \in N : /\ paths[j] \in Paths /\ RB(j) \in Nat /\ IsFiniteSet(Hits(j))
                   /\ Cardinality(Hits(j)) \in Nat /\ c[j] = Cardinality(Hits(j))
  <2>1. SUFFICES ASSUME NEW j \in N
                 PROVE  /\ paths[j] \in Paths /\ RB(j) \in Nat /\ IsFiniteSet(Hits(j))
                        /\ Cardinality(Hits(j)) \in Nat /\ c[j] = Cardinality(Hits(j))
    OBVIOUS
  <2>2. paths[j] \in Paths /\ c[j] = Cardinality(Hits(j))
    BY DEF Counts
  <2>3. IsFiniteSet(Hits(j))
    BY <2>2, FirstHitsFill
  <2> QED  BY <2>2, <2>3, RowsAddUp, FS_CardinalityType
<1>4. \A j \in S : /\ cut[j] \subseteq whole[j] /\ IsFiniteSet(cut[j])
                   /\ Cardinality(cut[j]) \in Nat
                   /\ Cardinality(cut[j]) <= MaxGrepMatches - RB(j)
                   /\ Cardinality(cut[j]) < MaxGrepMatches - RB(j) => cut[j] = whole[j]
                   /\ Cardinality(Hits(j)) <= MaxGrepMatches - RB(j) => cut[j] = whole[j]
  <2>1. SUFFICES ASSUME NEW j \in S
                 PROVE  /\ cut[j] \subseteq whole[j] /\ IsFiniteSet(cut[j])
                        /\ Cardinality(cut[j]) \in Nat
                        /\ Cardinality(cut[j]) <= MaxGrepMatches - RB(j)
                        /\ Cardinality(cut[j]) < MaxGrepMatches - RB(j) => cut[j] = whole[j]
                        /\ Cardinality(Hits(j)) <= MaxGrepMatches - RB(j) => cut[j] = whole[j]
    OBVIOUS
  <2>2. PICK n \in Nat : n = MaxGrepMatches - RB(j)
    BY <1>1, <1>2, <1>3
  <2>3. PICK p \in Paths : p = paths[j]
    BY <1>2, <1>3
  <2>4. /\ IsFiniteSet(HitsOf[p]) /\ FirstHits(p, n) \subseteq HitsOf[p]
        /\ Cardinality(FirstHits(p, n)) <= n
        /\ Cardinality(FirstHits(p, n)) < n => FirstHits(p, n) = HitsOf[p]
        /\ Cardinality(HitsOf[p]) <= n => FirstHits(p, n) = HitsOf[p]
    BY FirstHitsFill
  <2>5. cut[j] = {p} \X FirstHits(p, n) /\ whole[j] = {p} \X HitsOf[p]
    BY <1>2, <2>2, <2>3 DEF Cut, Whole
  <2>6. IsFiniteSet(FirstHits(p, n)) /\ Cardinality(FirstHits(p, n)) \in Nat
    BY <2>4, FS_Subset, FS_CardinalityType
  <2>7. IsFiniteSet(cut[j]) /\ Cardinality(cut[j]) = Cardinality(FirstHits(p, n))
    <3>1. IsFiniteSet({p}) /\ Cardinality({p}) = 1
      BY FS_Singleton
    <3>2. IsFiniteSet(cut[j]) /\ Cardinality(cut[j]) = 1 * Cardinality(FirstHits(p, n))
      BY <2>5, <2>6, <3>1, FS_Product
    <3> QED  BY <2>6, <3>2
  <2> HIDE DEF cut, whole, RB
  <2>8. cut[j] \subseteq whole[j] /\ (FirstHits(p, n) = HitsOf[p] => cut[j] = whole[j])
    BY <2>4, <2>5
  <2> QED  BY <2>2, <2>3, <2>4, <2>6, <2>7, <2>8
<1>5. \A j \in N : \A i \in Earlier(paths, readable, j) :
        i \in N /\ i < j /\ paths[i] \in readable /\ RB(i) + Cardinality(Hits(i)) <= RB(j)
  <2>1. SUFFICES ASSUME NEW j \in N, NEW i \in Earlier(paths, readable, j)
                 PROVE  i \in N /\ i < j /\ paths[i] \in readable
                        /\ RB(i) + Cardinality(Hits(i)) <= RB(j)
    OBVIOUS
  <2>2. i \in N /\ i < j /\ paths[i] \in readable
    BY DEF Earlier
  <2> QED  BY <2>2, RowsAddUp
<1>6. hitRows \subseteq Together(whole, S)
  BY <1>4 DEF Together
<1>7. CASE S = {}
  <2>1. hitRows = {} /\ Together(whole, S) = {}
    BY <1>7 DEF Together
  <2>2. Cardinality({}) = 0
    BY FS_EmptySet
  <2> QED  BY <1>1, <2>1, <2>2
<1>8. CASE S # {}
  <2>1. PICK m \in S : \A j \in S : j <= m
    <3>1. S \in SUBSET Nat /\ \A j \in S : j <= Len(paths)
      BY <1>2
    <3>2. Len(paths) \in Nat
      OBVIOUS
    <3> HIDE DEF S
    <3> QED  BY <1>8, <3>1, <3>2, BoundedHasGreatest
  <2>2. PICK E : E = Earlier(paths, readable, m)
    OBVIOUS
  <2>3. E \subseteq N /\ m \notin E /\ m \in N
    BY <1>2, <1>5, <2>1, <2>2
  <2>4. \A i \in E : i \in S /\ Cardinality(Hits(i)) <= MaxGrepMatches - RB(i)
    <3>1. SUFFICES ASSUME NEW i \in E
                   PROVE  i \in S /\ Cardinality(Hits(i)) <= MaxGrepMatches - RB(i)
      OBVIOUS
    <3>2. i \in N /\ paths[i] \in readable /\ RB(i) + Cardinality(Hits(i)) <= RB(m)
      BY <1>5, <2>2, <2>3
    <3>3. /\ RB(m) < MaxGrepMatches /\ RB(m) \in Nat /\ RB(i) \in Nat
          /\ Cardinality(Hits(i)) \in Nat
      BY <1>2, <1>3, <2>1, <2>3, <3>2
    <3>4. RB(i) < MaxGrepMatches /\ Cardinality(Hits(i)) <= MaxGrepMatches - RB(i)
      <4> HIDE DEF RB, Hits
      <4> QED  BY <1>1, <3>2, <3>3
    <3> QED  BY <3>2, <3>4 DEF Searched, Reached
  <2>5. S = E \cup {m}
    <3>1. ASSUME NEW j \in S, j # m
          PROVE  j \in E
      <4>1. j \in N /\ m \in N /\ j <= m /\ paths[j] \in readable
        BY <1>2, <2>1
      <4> QED  BY <2>2, <3>1, <4>1 DEF Earlier
    <3> QED  BY <2>1, <2>4, <3>1
  <2> HIDE DEF S, cut, whole, RB, Hits, c
  <2>6. \A i \in E : cut[i] = whole[i]
    BY <1>4, <2>4
  <2>7. hitRows = Together(whole, E) \cup cut[m] /\ Together(whole, S) = Together(whole, E) \cup whole[m]
    BY <2>5, <2>6 DEF Together
  <2>8. \A i, j \in N : i = j \/ whole[i] \cap whole[j] = {}
    BY DEF whole, Whole
  <2>9. \A i \in N : IsFiniteSet(whole[i]) /\ c[i] = Cardinality(whole[i])
    <3>1. SUFFICES ASSUME NEW i \in N
                   PROVE  IsFiniteSet(whole[i]) /\ c[i] = Cardinality(whole[i])
      OBVIOUS
    <3>2. whole[i] = {paths[i]} \X Hits(i)
      BY DEF whole, Whole, Hits
    <3>3. IsFiniteSet({paths[i]}) /\ Cardinality({paths[i]}) = 1
      BY FS_Singleton
    <3>4. PICK h : h = Hits(i) /\ IsFiniteSet(h) /\ Cardinality(h) \in Nat
      BY <1>3
    <3>5. /\ IsFiniteSet({paths[i]} \X h)
          /\ Cardinality({paths[i]} \X h) = 1 * Cardinality(h)
      BY <3>3, <3>4, FS_Product
    <3> QED  BY <1>3, <3>2, <3>4, <3>5
  <2>10. IsFiniteSet(E)
    <3>1. IsFiniteSet(N)
      BY FS_Interval
    <3> QED  BY <2>3, <3>1, FS_Subset
  <2>11. IsFiniteSet(Together(whole, E)) /\ Cardinality(Together(whole, E)) = RB(m)
    <3>1. /\ IsFiniteSet(Together(whole, E))
          /\ Cardinality(Together(whole, E)) = SumFunctionOnSet(c, E)
      BY <2>3, <2>8, <2>9, <2>10, TogetherIsSum
    <3>2. RB(m) = SumFunctionOnSet(c, E)
      BY <2>2 DEF RB, c, RowsBefore, Counts, Earlier
    <3> QED  BY <3>1, <3>2
  <2>12. Together(whole, E) \cap cut[m] = {}
    BY <1>4, <2>1, <2>3, <2>8 DEF Together
  <2>13. Cardinality(hitRows) = RB(m) + Cardinality(cut[m])
    <3>1. IsFiniteSet(cut[m]) /\ Cardinality(cut[m]) \in Nat /\ RB(m) \in Nat
      BY <1>3, <1>4, <2>1, <2>3
    <3>2. Cardinality(hitRows) = RB(m) + Cardinality(cut[m]) - Cardinality({})
      BY <2>7, <2>11, <2>12, <3>1, FS_Union
    <3>3. Cardinality({}) = 0
      BY FS_EmptySet
    <3> QED  BY <3>1, <3>2, <3>3
  <2>14. /\ Cardinality(cut[m]) \in Nat /\ RB(m) \in Nat
         /\ Cardinality(cut[m]) <= MaxGrepMatches - RB(m)
         /\ Cardinality(cut[m]) < MaxGrepMatches - RB(m) => cut[m] = whole[m]
    BY <1>3, <1>4, <2>1, <2>3
  <2>15. Cardinality(hitRows) <= MaxGrepMatches
         /\ (Cardinality(hitRows) < MaxGrepMatches => cut[m] = whole[m])
    <3> HIDE DEF hitRows
    <3> QED  BY <1>1, <2>13, <2>14
  <2>16. Cardinality(hitRows) < MaxGrepMatches => hitRows = Together(whole, S)
    <3> HIDE DEF hitRows
    <3> QED  BY <2>7, <2>15
  <2> QED  BY <1>6, <2>15, <2>16 DEF S, cut, whole
<1> QED  BY <1>7, <1>8

-----------------------------------------------------------------------------
(* What is held of a file is the file, and it was paid for if it was read. *)
FilesAreTrue ==
  \A p \in Paths : /\ files[p] \in {NoFile, LinesOf[p]}
                   /\ requests[p] <= 1
                   /\ requests[p] = 1 => Held(p)

(* An answer is true of the files at the head commit.                      *)
AnswerIsTrue == IF reply.from = NoNumber THEN SearchIsTrue(reply) ELSE WindowIsTrue(reply)

ReplyIsTrue ==
  /\ reply.outcome = "answered" => AnswerIsTrue
  /\ reply.why = "empty" => \E p \in Paths : Held(p) /\ LinesOf[p] = 0

ToolInv == ToolTypeOK /\ FilesAreTrue /\ ReplyIsTrue

LEMMA ToolInvInit == ASSUME ToolInit PROVE ToolInv
<1>1. \A p \in Paths : LinesOf[p] \in Nat
  BY ToolAssumption
<1>2. FilesAreTrue
  BY DEF ToolInit, FilesAreTrue
<1>3. ReplyIsTrue
  BY DEF ToolInit, ReplyIsTrue, NoReply
<1>4. ToolTypeOK
  <2>1. files \in [Paths -> Nat \cup {NoFile}] /\ requests \in [Paths -> Nat]
    BY <1>1 DEF ToolInit
  <2>2. used \in Seq(BOOLEAN) /\ Len(used) <= MaxToolCalls
    BY ToolAssumption DEF ToolInit
  <2>3. /\ reply.outcome = "none" /\ reply.shown = {} /\ reply.searched = {}
        /\ reply.stated = 0 /\ reply.cut = FALSE /\ hasIndex \in BOOLEAN
    BY DEF ToolInit, NoReply
  <2>4. /\ reply.outcome \in {"none", "answered", "failed", "raised"}
        /\ reply.shown \subseteq Paths \X Nat /\ reply.searched \subseteq Paths
        /\ reply.stated \in Nat /\ reply.cut \in BOOLEAN
    <3>1. reply.outcome \in {"none", "answered", "failed", "raised"}
      BY <2>3
    <3>2. reply.shown \subseteq Paths \X Nat /\ reply.searched \subseteq Paths
      BY <2>3
    <3>3. reply.stated \in Nat
      BY <2>3
    <3>4. reply.cut \in BOOLEAN
      BY <2>3, Zenon
    <3> QED  BY <3>1, <3>2, <3>3, <3>4
  <2> QED  BY <2>1, <2>2, <2>3, <2>4 DEF ToolTypeOK
<1> QED  BY <1>2, <1>3, <1>4 DEF ToolInv

(* Reading keeps what is held true, and holds every file it did get.       *)
LEMMA ReadsAreTrue ==
  ASSUME ToolInv, NEW wanted \in SUBSET Paths, NEW refused, Reads(wanted, refused)
  PROVE  /\ FilesAreTrue'
         /\ files' \in [Paths -> Nat \cup {NoFile}] /\ requests' \in [Paths -> Nat]
         /\ \A p \in Paths : Held(p) => Held(p)'
         /\ \A p \in wanted \ refused : files'[p] = LinesOf[p] /\ Held(p)'
<1>1. /\ \A p \in Paths : LinesOf[p] \in Nat /\ LinesOf[p] # NoFile
      /\ files \in [Paths -> Nat \cup {NoFile}] /\ requests \in [Paths -> Nat]
  BY ToolAssumption DEF ToolInv, ToolTypeOK
<1>2. \A p \in Paths :
        /\ files'[p] = IF p \in wanted /\ p \notin refused /\ ~Held(p) THEN LinesOf[p] ELSE files[p]
        /\ requests'[p] = IF p \in wanted /\ p \notin refused /\ ~Held(p)
                            THEN requests[p] + 1 ELSE requests[p]
  BY DEF Reads
<1>3. files' \in [Paths -> Nat \cup {NoFile}] /\ requests' \in [Paths -> Nat]
  BY <1>1 DEF Reads
<1>4. FilesAreTrue'
  <2>1. SUFFICES ASSUME NEW p \in Paths
                 PROVE  /\ files'[p] \in {NoFile, LinesOf[p]} /\ requests'[p] <= 1
                        /\ requests'[p] = 1 => Held(p)'
    BY DEF FilesAreTrue
  <2>2. /\ files[p] \in {NoFile, LinesOf[p]} /\ requests[p] <= 1 /\ requests[p] \in Nat
        /\ requests[p] = 1 => Held(p)
    BY <1>1 DEF ToolInv, FilesAreTrue
  <2> QED  BY <1>1, <1>2, <2>2 DEF Held
<1>5. \A p \in Paths : Held(p) => Held(p)'
  BY <1>1, <1>2 DEF Held
<1>6. \A p \in wanted \ refused : files'[p] = LinesOf[p] /\ Held(p)'
  BY <1>1, <1>2 DEF ToolInv, FilesAreTrue, Held
<1> QED  BY <1>3, <1>4, <1>5, <1>6

(* What stands in an answer: all of it unless it is cut, and with a row    *)
(* every row before it; a row that ends the body is lost when it is cut.   *)
Stands(r, paths, rows, searched, from) ==
  /\ r.outcome = "answered" /\ r.why = "" /\ r.from = from /\ r.searched = searched
  /\ r.shown \subseteq rows /\ r.cut \in BOOLEAN
  /\ r.stated = Cardinality(rows) /\ r.stated \in Nat
  /\ ~r.cut => r.shown = rows
  /\ \A x \in r.shown : \A y \in rows :
       UpTo(paths, rows, y) \subseteq UpTo(paths, rows, x) => y \in r.shown
  /\ \A x \in rows : r.cut /\ UpTo(paths, rows, x) = rows => x \notin r.shown

LEMMA AnswerStands ==
  ASSUME NEW from, NEW paths, NEW rows, IsFiniteSet(rows), NEW size \in [rows -> Nat],
         NEW searched, Replied(from, paths, rows, size, searched)
  PROVE  Stands(reply', paths, rows, searched, from)
<1>1. HeaderChars \in Nat /\ MAX_RESULT_CHARS \in Nat
  BY ToolAssumption
<1>2. \A x : UpTo(paths, rows, x) \subseteq rows
  BY DEF UpTo
<1>3. ASSUME NEW T \in SUBSET rows, NEW U \in SUBSET T, HasRoom(size, T)
      PROVE  HasRoom(size, U)
  <2>1. IsFiniteSet(T) /\ \A x \in T : size[x] \in Nat
    BY FS_Subset
  <2>2. IsFiniteSet({}) /\ T \in SUBSET T
    BY FS_EmptySet
  <2>3. /\ SumFunctionOnSet(size, U) \in Nat /\ SumFunctionOnSet(size, T) \in Nat
        /\ SumFunctionOnSet(size, U) <= SumFunctionOnSet(size, T)
    BY <2>1, <2>2, SumOfPart
  <2> QED  BY <1>1, <1>3, <2>3 DEF HasRoom
<1>4. PICK shown : shown = {r \in rows : HasRoom(size, UpTo(paths, rows, r))}
  OBVIOUS
<1>5. /\ reply'.outcome = "answered" /\ reply'.why = "" /\ reply'.from = from
      /\ reply'.searched = searched /\ reply'.shown = shown
      /\ reply'.stated = Cardinality(rows) /\ reply'.cut = ~HasRoom(size, rows)
  BY <1>4 DEF Replied, NoReply
<1>6. Cardinality(rows) \in Nat
  BY FS_CardinalityType
<1>7. HasRoom(size, rows) => shown = rows
  BY <1>2, <1>3, <1>4
<1>8. ASSUME NEW x \in shown, NEW y \in rows, UpTo(paths, rows, y) \subseteq UpTo(paths, rows, x)
      PROVE  y \in shown
  BY <1>2, <1>3, <1>4, <1>8
<1>9. ASSUME NEW x \in rows, ~HasRoom(size, rows), UpTo(paths, rows, x) = rows
      PROVE  x \notin shown
  BY <1>4, <1>9
<1>10. shown \subseteq rows /\ (~HasRoom(size, rows)) \in BOOLEAN
  BY <1>4
<1> QED  BY <1>5, <1>6, <1>7, <1>8, <1>9, <1>10 DEF Stands

(* What a row takes.                                                       *)
LEMMA RowsHaveSizes ==
  ASSUME NEW rows, \A r \in rows : r[1] \in Paths /\ r[2] \in 1 .. LinesOf[r[1]]
  PROVE  WholeLines(rows) \in [rows -> Nat] /\ LinesCut(rows) \in [rows -> Nat]
<1>1. SUFFICES ASSUME NEW r \in rows
               PROVE  /\ RowChars + CharsOf[r[1]][r[2]] \in Nat
                      /\ RowChars + Clamp(CharsOf[r[1]][r[2]], 0, MAX_ROW_CHARS) \in Nat
  BY DEF WholeLines, LinesCut
<1>2. PICK p \in Paths : p = r[1]
  OBVIOUS
<1>5. PICK n \in 1 .. LinesOf[p] : n = r[2]
  BY <1>2
<1>3. CharsOf[p] \in [1 .. LinesOf[p] -> Nat] /\ RowChars \in Nat /\ MAX_ROW_CHARS \in Nat
  BY ToolAssumption
<1>4. CharsOf[p][n] \in Nat
  BY <1>3
<1> QED  BY <1>2, <1>3, <1>4, <1>5 DEF Clamp

(* A call that leaves no wrong reply behind keeps the invariant.           *)
LEMMA Answering ==
  ASSUME ToolInv, ToolReady, NEW from, NEW paths, NEW rows \in SUBSET (Paths \X Nat), NEW size,
         NEW searched \in SUBSET Paths, Replied(from, paths, rows, size, searched),
         Stands(reply', paths, rows, searched, from), UNCHANGED hasIndex,
         FilesAreTrue', files' \in [Paths -> Nat \cup {NoFile}], requests' \in [Paths -> Nat],
         AnswerIsTrue'
  PROVE  ToolInv'
<1>1. /\ reply'.outcome = "answered" /\ reply'.why = "" /\ reply'.shown \subseteq rows
      /\ reply'.searched = searched /\ reply'.stated \in Nat /\ reply'.cut \in BOOLEAN
  BY DEF Stands
<1>2. used' \in Seq(BOOLEAN) /\ Len(used') <= MaxToolCalls
  <2>1. used' = Append(used, TRUE) /\ used \in Seq(BOOLEAN) /\ Len(used) < MaxToolCalls
    BY DEF Replied, ToolReady, ToolInv, ToolTypeOK
  <2> QED  BY <2>1, ToolAssumption
<1>3. ToolTypeOK'
  <2>1. /\ reply'.outcome \in {"none", "answered", "failed", "raised"}
        /\ reply'.shown \subseteq Paths \X Nat /\ reply'.searched \subseteq Paths
        /\ reply'.stated \in Nat /\ reply'.cut \in BOOLEAN
    <3>1. reply'.outcome \in {"none", "answered", "failed", "raised"}
      BY <1>1
    <3>2. reply'.shown \subseteq Paths \X Nat /\ reply'.searched \subseteq Paths
      BY <1>1
    <3>3. reply'.stated \in Nat
      BY <1>1
    <3>4. reply'.cut \in BOOLEAN
      BY <1>1, Zenon
    <3> QED  BY <3>1, <3>2, <3>3, <3>4
  <2>2. hasIndex' \in BOOLEAN
    BY DEF ToolInv, ToolTypeOK
  <2> QED  BY <1>2, <2>1, <2>2 DEF ToolTypeOK
<1>4. ReplyIsTrue'
  BY <1>1 DEF ReplyIsTrue
<1> QED  BY <1>3, <1>4 DEF ToolInv

LEMMA Failing ==
  ASSUME ToolInv, ToolReady, NEW why, Failed(why), UNCHANGED hasIndex,
         FilesAreTrue', files' \in [Paths -> Nat \cup {NoFile}], requests' \in [Paths -> Nat],
         why = "empty" => \E p \in Paths : Held(p)' /\ LinesOf[p] = 0
  PROVE  ToolInv'
<1>1. /\ reply'.outcome = "failed" /\ reply'.why = why
      /\ reply'.shown = {} /\ reply'.searched = {}
      /\ reply'.stated = 0 /\ reply'.cut = FALSE
  BY DEF Failed, NoReply
<1>2. used' \in Seq(BOOLEAN) /\ Len(used') <= MaxToolCalls
  <2>1. used' = Append(used, FALSE) /\ used \in Seq(BOOLEAN) /\ Len(used) < MaxToolCalls
    BY DEF Failed, ToolReady, ToolInv, ToolTypeOK
  <2> QED  BY <2>1, ToolAssumption
<1>3. ToolTypeOK'
  <2>1. /\ reply'.outcome \in {"none", "answered", "failed", "raised"}
        /\ reply'.shown \subseteq Paths \X Nat /\ reply'.searched \subseteq Paths
        /\ reply'.stated \in Nat /\ reply'.cut \in BOOLEAN
    <3>1. reply'.outcome \in {"none", "answered", "failed", "raised"}
      BY <1>1
    <3>2. reply'.shown \subseteq Paths \X Nat /\ reply'.searched \subseteq Paths
      BY <1>1
    <3>3. reply'.stated \in Nat
      BY <1>1
    <3>4. reply'.cut \in BOOLEAN
      BY <1>1, Zenon
    <3> QED  BY <3>1, <3>2, <3>3, <3>4
  <2>2. hasIndex' \in BOOLEAN
    BY DEF ToolInv, ToolTypeOK
  <2> QED  BY <1>2, <2>1, <2>2 DEF ToolTypeOK
<1>4. ReplyIsTrue'
  BY <1>1 DEF ReplyIsTrue
<1> QED  BY <1>3, <1>4 DEF ToolInv

(* The window of read_file, whatever numbers it was asked for.             *)
LEMMA WindowsAre ==
  ASSUME NEW p \in Paths, LinesOf[p] # 0, NEW start \in Given, NEW end \in Given,
         Infinite \notin {start, end}
  PROVE  /\ AsInt(start, 1) \in Int
         /\ Nearest(p, AsInt(start, 1)) \in 1 .. LinesOf[p]
         /\ \E last \in Nearest(p, AsInt(start, 1)) .. LinesOf[p] :
              /\ last < Nearest(p, AsInt(start, 1)) + MaxReadLines
              /\ Window(start, end, LinesOf[p]) = Nearest(p, AsInt(start, 1)) .. last
<1>. DEFINE n == LinesOf[p]
            from == AsInt(start, 1)
            to == AsInt(end, from + MaxReadLines - 1)
            first == Clamp(from, 1, n)
            high == IF first + MaxReadLines - 1 < n THEN first + MaxReadLines - 1 ELSE n
            last == Clamp(to, first, high)
<1>1. n \in Nat \ {0} /\ MaxReadLines \in Nat \ {0}
  BY ToolAssumption
<1>2. from \in Int
  BY ToolAssumption DEF Given, AsInt
<1> HIDE DEF n, from
<1>3. to \in Int
  BY <1>1, <1>2, ToolAssumption DEF Given, AsInt
<1> HIDE DEF to
<1>4. first \in 1 .. n
  BY <1>1, <1>2 DEF Clamp
<1>5. last \in first .. n /\ last < first + MaxReadLines
  <2> HIDE DEF first
  <2>1. high \in first .. n /\ high < first + MaxReadLines
    BY <1>1, <1>4
  <2> HIDE DEF high
  <2> QED  BY <1>1, <1>3, <1>4, <2>1 DEF Clamp
<1>6. Window(start, end, n) = first .. last /\ Nearest(p, from) = first
  BY DEF Window, Nearest, from, to, n
<1> HIDE DEF first, last
<1> QED  BY <1>2, <1>4, <1>5, <1>6 DEF n, from

(* The rows of a window that stand are its first ones.                     *)
LEMMA FirstOnesStand ==
  ASSUME NEW p, NEW first \in Nat, NEW last \in Nat, first <= last,
         NEW r, NEW searched, NEW from,
         Stands(r, <<p>>, {p} \X (first .. last), searched, from)
  PROVE  /\ r.stated = last - first + 1
         /\ \E n \in 0 .. r.stated : /\ r.shown = {p} \X (first .. first + n - 1)
                                     /\ r.cut <=> n < r.stated
<1>. DEFINE rows == {p} \X (first .. last)
            G == {m \in first .. last : <<p, m>> \in r.shown}
<1>1. Cardinality(rows) = last - first + 1
  <2>1. IsFiniteSet(first .. last) /\ Cardinality(first .. last) = last - first + 1
    BY FS_Interval
  <2>2. IsFiniteSet({p}) /\ Cardinality({p}) = 1
    BY FS_Singleton
  <2>3. Cardinality(rows) = 1 * Cardinality(first .. last)
    BY <2>1, <2>2, FS_Product
  <2> QED  BY <2>1, <2>3
<1>2. \A m \in first .. last : UpTo(<<p>>, rows, <<p, m>>) = {p} \X (first .. m)
  <2>1. SUFFICES ASSUME NEW m \in first .. last, NEW q \in rows
                 PROVE  Sooner(<<p>>, q, <<p, m>>) <=> q[2] <= m
    BY DEF UpTo
  <2>2. Len(<<p>>) = 1 /\ ~(\E i, j \in 1 .. 1 : i < j)
    OBVIOUS
  <2> QED  BY <2>2 DEF Sooner
<1>3. /\ r.shown \subseteq rows /\ r.cut \in BOOLEAN /\ r.stated = Cardinality(rows)
      /\ ~r.cut => r.shown = rows
      /\ \A x \in r.shown : \A y \in rows :
           UpTo(<<p>>, rows, y) \subseteq UpTo(<<p>>, rows, x) => y \in r.shown
      /\ \A x \in rows : r.cut /\ UpTo(<<p>>, rows, x) = rows => x \notin r.shown
  BY DEF Stands
<1>4. \A m \in G : \A k \in first .. m : k \in G
  <2>1. SUFFICES ASSUME NEW m \in G, NEW k \in first .. m
                 PROVE  k \in G
    OBVIOUS
  <2>2. m \in first .. last /\ k \in first .. last /\ <<p, m>> \in r.shown /\ <<p, k>> \in rows
    OBVIOUS
  <2>3. UpTo(<<p>>, rows, <<p, k>>) = {p} \X (first .. k) /\ UpTo(<<p>>, rows, <<p, m>>) = {p} \X (first .. m)
    BY <1>2, <2>2
  <2>4. UpTo(<<p>>, rows, <<p, k>>) \subseteq UpTo(<<p>>, rows, <<p, m>>)
    BY <2>3
  <2> HIDE DEF rows
  <2>5. <<p, k>> \in r.shown
    BY <1>3, <2>2, <2>4
  <2> QED  BY <2>2, <2>5
<1>5. r.shown = {p} \X G
  BY <1>3
<1>6. r.cut => last \notin G
  <2>1. UpTo(<<p>>, rows, <<p, last>>) = rows /\ <<p, last>> \in rows
    BY <1>2
  <2> HIDE DEF rows
  <2> QED  BY <1>3, <2>1
<1>7. ~r.cut => G = first .. last
  BY <1>3
<1>8. \E n \in 0 .. last - first + 1 : G = first .. first + n - 1 /\ (r.cut <=> n < last - first + 1)
  <2>1. CASE G = {}
    <3>1. first .. first + 0 - 1 = {} /\ 0 \in 0 .. last - first + 1 /\ 0 < last - first + 1
      OBVIOUS
    <3>2. r.cut
      <4>1. first \in first .. last
        OBVIOUS
      <4> HIDE DEF G
      <4> QED  BY <1>3, <1>7, <2>1, <4>1
    <3> QED  BY <2>1, <3>1, <3>2
  <2>2. CASE G # {}
    <3>1. G \in SUBSET Nat /\ \A m \in G : m <= last
      OBVIOUS
    <3>2. PICK g \in G : \A m \in G : m <= g
      <4> HIDE DEF G
      <4> QED  BY <2>2, <3>1, BoundedHasGreatest
    <3>3. g \in first .. last /\ G = first .. g
      <4>1. g \in first .. last /\ G \subseteq first .. g
        BY <3>2
      <4> QED  BY <1>4, <3>2, <4>1
    <3>4. PICK n \in 1 .. last - first + 1 : g = first + n - 1
      <4>1. g - first + 1 \in 1 .. last - first + 1 /\ g = first + (g - first + 1) - 1
        BY <3>3
      <4> QED  BY <4>1
    <3> HIDE DEF G
    <3>5. r.cut <=> n < last - first + 1
      <4>1. r.cut => g # last
        BY <1>6, <3>2
      <4>2. ~r.cut => g = last
        BY <1>7, <3>2, <3>3
      <4> QED  BY <1>3, <3>3, <3>4, <4>1, <4>2
    <3> QED  BY <3>3, <3>4, <3>5
  <2> QED  BY <2>1, <2>2
<1> HIDE DEF rows, G
<1> QED  BY <1>1, <1>3, <1>5, <1>8

LEMMA ReadFileIsHonest ==
  ASSUME ToolInv, NEW p \in Paths, NEW start \in Given, NEW end \in Given, ReadFile(p, start, end)
  PROVE  ToolInv'
<1>1. ToolReady /\ UNCHANGED hasIndex
  BY DEF ReadFile
<1>2. CASE Infinite \in {start, end}
  <2>1. /\ reply' = [NoReply EXCEPT !.outcome = "raised"]
        /\ UNCHANGED <<used, files, requests, hasIndex>>
    BY <1>1, <1>2 DEF ReadFile, Raised
  <2>2. /\ reply'.outcome = "raised" /\ reply'.why = ""
        /\ reply'.shown = {} /\ reply'.searched = {} /\ reply'.stated = 0 /\ reply'.cut = FALSE
    BY <2>1 DEF NoReply
  <2>3. /\ reply'.outcome \in {"none", "answered", "failed", "raised"}
        /\ reply'.shown \subseteq Paths \X Nat /\ reply'.searched \subseteq Paths
        /\ reply'.stated \in Nat /\ reply'.cut \in BOOLEAN
    <3>1. reply'.outcome \in {"none", "answered", "failed", "raised"}
      BY <2>2
    <3>2. reply'.shown \subseteq Paths \X Nat /\ reply'.searched \subseteq Paths
      BY <2>2
    <3>3. reply'.stated \in Nat
      <4>1. reply'.stated = 0
        BY <2>1 DEF NoReply
      <4> QED  BY ONLY <4>1
    <3>4. reply'.cut \in BOOLEAN
      BY <2>2, Zenon
    <3> QED  BY <3>1, <3>2, <3>3, <3>4
  <2>4. ToolTypeOK'
    BY <2>1, <2>3 DEF ToolInv, ToolTypeOK
  <2>5. FilesAreTrue' /\ ReplyIsTrue'
    BY <2>1, <2>2 DEF ToolInv, FilesAreTrue, ReplyIsTrue, Held
  <2> QED  BY <2>4, <2>5 DEF ToolInv
<1>3. CASE Infinite \notin {start, end}
  <2>1. PICK refused \in SUBSET ({p} \ {q \in Paths : Held(q)}) :
          /\ Reads({p}, refused)
          /\ IF refused # {} THEN Failed("refused")
             ELSE IF files'[p] = 0 THEN Failed("empty")
             ELSE Replied(AsInt(start, 1), <<p>>, {p} \X Window(start, end, files'[p]),
                          WholeLines({p} \X Window(start, end, files'[p])), {p})
    BY <1>3 DEF ReadFile
  <2>2. /\ FilesAreTrue'
        /\ files' \in [Paths -> Nat \cup {NoFile}] /\ requests' \in [Paths -> Nat]
        /\ \A q \in {p} \ refused : files'[q] = LinesOf[q] /\ Held(q)'
    <3>1. {p} \in SUBSET Paths
      OBVIOUS
    <3> QED  BY <2>1, <3>1, ReadsAreTrue
  <2>3. CASE refused # {}
    <3>1. Failed("refused")
      BY <2>1, <2>3
    <3> QED  BY <1>1, <2>2, <3>1, Failing
  <2>4. CASE refused = {} /\ files'[p] = 0
    <3>1. Failed("empty") /\ Held(p)' /\ LinesOf[p] = 0
      BY <2>1, <2>2, <2>4
    <3> QED  BY <1>1, <2>2, <3>1, Failing
  <2>5. CASE refused = {} /\ files'[p] # 0
    <3>1. LinesOf[p] # 0 /\ files'[p] = LinesOf[p]
      BY <2>2, <2>5
    <3>2. PICK from \in Int : from = AsInt(start, 1)
      BY <1>3, <3>1, WindowsAre
    <3>3. PICK first \in 1 .. LinesOf[p] : first = Nearest(p, from)
      BY <1>3, <3>1, <3>2, WindowsAre
    <3>4. PICK last \in first .. LinesOf[p] :
            last < first + MaxReadLines /\ Window(start, end, LinesOf[p]) = first .. last
      BY <1>3, <3>1, <3>2, <3>3, WindowsAre
    <3>5. /\ first \in Nat \ {0} /\ last \in Nat /\ first <= last /\ last <= LinesOf[p]
          /\ LinesOf[p] \in Nat /\ MaxReadLines \in Nat /\ last < first + MaxReadLines
      BY <3>3, <3>4, ToolAssumption
    <3>6. PICK rows \in SUBSET (Paths \X Nat) : rows = {p} \X (first .. last)
      <4>1. first .. last \subseteq Nat
        BY <3>5
      <4>2. {p} \X (first .. last) \subseteq Paths \X Nat
        BY <4>1
      <4> QED  BY <4>2
    <3>7. IsFiniteSet(rows)
      <4>1. IsFiniteSet(first .. last)
        BY <3>5, FS_Interval
      <4>2. IsFiniteSet({p})
        BY FS_Singleton
      <4>3. IsFiniteSet({p} \X (first .. last))
        BY ONLY <4>1, <4>2, FS_Product
      <4> QED  BY <3>6, <4>3
    <3>8. WholeLines(rows) \in [rows -> Nat]
      <4>1. \A x \in rows : x[1] \in Paths /\ x[2] \in 1 .. LinesOf[x[1]]
        BY <3>5, <3>6
      <4> QED  BY <4>1, RowsHaveSizes
    <3>9. PICK size \in [rows -> Nat] : Replied(from, <<p>>, rows, size, {p})
      BY <2>1, <2>5, <3>1, <3>2, <3>4, <3>6, <3>8
    <3>10. Stands(reply', <<p>>, rows, {p}, from)
      BY <3>7, <3>9, AnswerStands
    <3>11. /\ reply'.stated = last - first + 1
           /\ \E n \in 0 .. reply'.stated : /\ reply'.shown = {p} \X (first .. first + n - 1)
                                            /\ reply'.cut <=> n < reply'.stated
      BY <3>5, <3>6, <3>10, FirstOnesStand
    <3>12. AnswerIsTrue'
      <4>1. reply'.from = from /\ reply'.searched = {p} /\ from # NoNumber
        BY <3>10, ToolAssumption DEF Stands
      <4>2. PICK s \in Nat : s = reply'.stated /\ s \in 1 .. MaxReadLines /\ first + s - 1 <= LinesOf[p]
        BY <3>5, <3>11
      <4>3. WindowIsTrue(reply')
        BY <3>3, <3>11, <4>1, <4>2 DEF WindowIsTrue
      <4> QED  BY <4>1, <4>3 DEF AnswerIsTrue, WindowIsTrue
    <3>13. {p} \in SUBSET Paths
      OBVIOUS
    <3> QED  BY <1>1, <2>2, <3>9, <3>10, <3>12, <3>13, Answering
  <2> QED  BY <2>3, <2>4, <2>5
<1> QED  BY <1>2, <1>3

(* The rows a search finds: as many as there is room for, or all, and of   *)
(* a file the first.                                                       *)
Finds(rows, searched) ==
  /\ rows \subseteq HitsIn(searched) /\ Cardinality(rows) <= MaxGrepMatches
  /\ Cardinality(rows) < MaxGrepMatches => rows = HitsIn(searched)
  /\ \A x \in rows : {x[1]} \X {h \in HitsOf[x[1]] : h < x[2]} \subseteq rows

LEMMA FirstHitsAreFirst ==
  ASSUME NEW p \in Paths, NEW n \in Nat, NEW k \in FirstHits(p, n), NEW h \in HitsOf[p], h < k
  PROVE  h \in FirstHits(p, n)
<1>1. HitsOf[p] \subseteq Nat /\ IsFiniteSet(HitsOf[p])
  BY FirstHitsFill, ToolAssumption
<1>2. h \in Nat /\ k \in Nat /\ k \in HitsOf[p]
  BY <1>1 DEF FirstHits
<1>3. {g \in HitsOf[p] : g < h} \subseteq {g \in HitsOf[p] : g < k}
  BY <1>1, <1>2
<1>4. PICK A, B : A = {g \in HitsOf[p] : g < h} /\ B = {g \in HitsOf[p] : g < k}
  OBVIOUS
<1>5. IsFiniteSet(A) /\ IsFiniteSet(B) /\ A \subseteq B
  BY <1>1, <1>3, <1>4, FS_Subset
<1>6. Cardinality(A) <= Cardinality(B) /\ Cardinality(A) \in Nat /\ Cardinality(B) \in Nat
  BY <1>5, FS_Subset, FS_CardinalityType
<1>7. Cardinality(B) < n
  BY <1>4 DEF FirstHits
<1> QED  BY <1>4, <1>6, <1>7 DEF FirstHits

LEMMA SearchFinds ==
  ASSUME NEW paths \in Seq(Paths), \A i, j \in 1 .. Len(paths) : paths[i] = paths[j] => i = j,
         NEW readable \in SUBSET Paths
  PROVE  /\ SearchedOf(paths, readable) \in SUBSET Paths
         /\ RowsOf(paths, readable) \in SUBSET (Paths \X Nat)
         /\ IsFiniteSet(RowsOf(paths, readable))
         /\ Finds(RowsOf(paths, readable), SearchedOf(paths, readable))
<1>. DEFINE S == Searched(paths, readable)
            hits == SearchedOf(paths, readable)
            hitRows == RowsOf(paths, readable)
<1>1. S \subseteq 1 .. Len(paths)
  BY DEF Searched, Reached
<1>2. /\ Together(Cut(paths, readable), S) \subseteq Together(Whole(paths), S)
      /\ Cardinality(Together(Cut(paths, readable), S)) <= MaxGrepMatches
      /\ Cardinality(Together(Cut(paths, readable), S)) < MaxGrepMatches =>
           Together(Cut(paths, readable), S) = Together(Whole(paths), S)
  BY SearchFillsUp
<1>3. \A i \in S : Cut(paths, readable)[i] =
        {paths[i]} \X FirstHits(paths[i], MaxGrepMatches - RowsBefore(paths, readable, i))
  BY <1>1 DEF Cut
<1>4. hitRows = Together(Cut(paths, readable), S)
  BY <1>3 DEF RowsOf, Searched, Together
<1>5. hits = {paths[i] : i \in S}
  BY DEF SearchedOf, Searched
<1>6. HitsIn(hits) = Together(Whole(paths), S)
  <2> HIDE DEF hits, S
  <2>1. \A i \in S : Whole(paths)[i] = {paths[i]} \X HitsOf[paths[i]]
    BY <1>1 DEF Whole
  <2>2. \A x : x \in HitsIn(hits) <=> \E p \in hits : x \in {p} \X HitsOf[p]
    BY DEF HitsIn
  <2>3. \A x : x \in HitsIn(hits) <=> \E i \in S : x \in Whole(paths)[i]
    BY <1>5, <2>1, <2>2
  <2>4. \A x : x \in Together(Whole(paths), S) <=> \E i \in S : x \in Whole(paths)[i]
    BY DEF Together
  <2> QED  BY <2>3, <2>4
<1>7. hits \in SUBSET Paths
  BY DEF SearchedOf
<1>8. HitsIn(hits) \subseteq Paths \X Nat
  BY <1>7, ToolAssumption DEF HitsIn
<1>9. \A i \in S : /\ paths[i] \in Paths /\ RowsBefore(paths, readable, i) \in Nat
                   /\ MaxGrepMatches - RowsBefore(paths, readable, i) \in Nat
  <2>1. SUFFICES ASSUME NEW i \in S
                 PROVE  /\ paths[i] \in Paths /\ RowsBefore(paths, readable, i) \in Nat
                        /\ MaxGrepMatches - RowsBefore(paths, readable, i) \in Nat
    OBVIOUS
  <2>2. i \in 1 .. Len(paths) /\ RowsBefore(paths, readable, i) < MaxGrepMatches
    BY <1>1 DEF Searched, Reached
  <2>3. RowsBefore(paths, readable, i) \in Nat /\ paths[i] \in Paths
    BY <2>2, RowsAddUp
  <2> QED  BY <2>2, <2>3, ToolAssumption
<1>10. ASSUME NEW x \in hitRows, NEW h \in HitsOf[x[1]], h < x[2]
       PROVE  <<x[1], h>> \in hitRows
  <2>1. PICK i \in S : x \in Cut(paths, readable)[i]
    BY <1>4 DEF Together
  <2>2. PICK p \in Paths, n \in Nat : p = paths[i] /\ n = MaxGrepMatches - RowsBefore(paths, readable, i)
    BY <1>9
  <2>3. x[1] = p /\ x[2] \in FirstHits(p, n)
    BY <1>3, <2>1, <2>2
  <2>4. h \in FirstHits(p, n)
    BY <1>10, <2>3, FirstHitsAreFirst
  <2>5. <<p, h>> \in Cut(paths, readable)[i]
    BY <1>3, <2>2, <2>4
  <2> QED  BY <1>4, <2>3, <2>5 DEF Together
<1>11. IsFiniteSet(hitRows)
  <2>1. SUFFICES IsFiniteSet(Together(Whole(paths), S))
    BY <1>2, <1>4, FS_Subset
  <2>2. IsFiniteSet(S)
    <3>1. IsFiniteSet(1 .. Len(paths))
      BY FS_Interval
    <3> QED  BY <1>1, <3>1, FS_Subset
  <2>3. \A i \in S : IsFiniteSet(Whole(paths)[i])
    <3>1. SUFFICES ASSUME NEW i \in S
                   PROVE  IsFiniteSet(Whole(paths)[i])
      OBVIOUS
    <3>2. PICK H : H = HitsOf[paths[i]] /\ IsFiniteSet(H)
      BY <1>9, FirstHitsFill
    <3>3. IsFiniteSet({paths[i]})
      BY FS_Singleton
    <3>4. IsFiniteSet({paths[i]} \X H)
      BY <3>2, <3>3, FS_Product
    <3> QED  BY <1>1, <3>2, <3>4 DEF Whole
  <2>4. PICK W, f : W = {Whole(paths)[i] : i \in S} /\ f = [i \in S |-> Whole(paths)[i]]
    OBVIOUS
  <2>5. IsFiniteSet(W)
    <3>1. f \in Surjection(S, W)
      BY <2>4 DEF Surjection
    <3> QED  BY <2>2, <3>1, FS_Surjection
  <2>6. Together(Whole(paths), S) = UNION W
    BY <2>4 DEF Together
  <2>7. \A T \in W : IsFiniteSet(T)
    BY <2>3, <2>4
  <2> QED  BY <2>5, <2>6, <2>7, FS_UNION
<1> HIDE DEF hits, hitRows, S
<1>12. hitRows \in SUBSET (Paths \X Nat)
  BY <1>2, <1>4, <1>6, <1>8
<1>13. \A x \in hitRows : {x[1]} \X {h \in HitsOf[x[1]] : h < x[2]} \subseteq hitRows
  BY <1>10
<1>14. Finds(hitRows, hits)
  BY <1>2, <1>4, <1>6, <1>13 DEF Finds
<1> QED  BY <1>7, <1>11, <1>12, <1>14 DEF hits, hitRows

(* What stands of what a search finds is true of the files.                *)
LEMMA SearchIsHonest ==
  ASSUME NEW paths, NEW rows \in SUBSET (Paths \X Nat), NEW searched \in SUBSET Paths,
         Finds(rows, searched), NEW r, NEW from, Stands(r, paths, rows, searched, from)
  PROVE  SearchIsTrue(r)
<1>1. /\ r.searched = searched /\ r.shown \subseteq rows /\ r.cut \in BOOLEAN
      /\ r.stated = Cardinality(rows) /\ (~r.cut => r.shown = rows)
      /\ \A x \in r.shown : \A y \in rows :
           UpTo(paths, rows, y) \subseteq UpTo(paths, rows, x) => y \in r.shown
  BY DEF Stands
<1>2. ASSUME NEW x \in r.shown, NEW h \in HitsOf[x[1]], h < x[2]
      PROVE  <<x[1], h>> \in r.shown
  <2>1. x \in rows /\ x[1] \in Paths /\ x[2] \in Nat
    BY <1>1
  <2>2. <<x[1], h>> \in rows /\ h \in Nat
    <3>1. <<x[1], h>> \in {x[1]} \X {k \in HitsOf[x[1]] : k < x[2]}
      BY <1>2
    <3> QED  BY <2>1, <3>1 DEF Finds
  <2>3. ASSUME NEW q \in rows, Sooner(paths, q, <<x[1], h>>)
        PROVE  Sooner(paths, q, x)
    <3>1. q[2] \in Nat
      OBVIOUS
    <3> QED  BY <1>2, <2>1, <2>2, <2>3, <3>1 DEF Sooner
  <2>4. UpTo(paths, rows, <<x[1], h>>) \subseteq UpTo(paths, rows, x)
    BY <2>3 DEF UpTo
  <2> QED  BY <1>1, <2>2, <2>4
<1>3. \A x \in r.shown : {x[1]} \X {h \in HitsOf[x[1]] : h < x[2]} \subseteq r.shown
  BY <1>2
<1> QED  BY <1>1, <1>3 DEF Finds, SearchIsTrue

LEMMA GrepIsHonest ==
  ASSUME ToolInv, NEW paths \in Seq(Paths),
         \A i, j \in 1 .. Len(paths) : paths[i] = paths[j] => i = j, Grep(paths)
  PROVE  ToolInv'
<1>1. ToolReady /\ UNCHANGED hasIndex
  BY DEF Grep
<1>2. CASE paths = <<>>
  <2>1. Failed("nothing to search") /\ UNCHANGED <<files, requests>>
    BY <1>2 DEF Grep
  <2>2. FilesAreTrue' /\ files' \in [Paths -> Nat \cup {NoFile}] /\ requests' \in [Paths -> Nat]
    BY <2>1 DEF ToolInv, ToolTypeOK, FilesAreTrue, Held
  <2> QED  BY <1>1, <2>1, <2>2, Failing
<1>3. CASE paths # <<>>
  <2>1. PICK refused \in SUBSET {p \in Paths : ~Held(p) /\ \E i \in 1 .. Len(paths) : paths[i] = p} :
          /\ Reads({paths[i] : i \in Reached(paths, Paths \ refused)}, refused)
          /\ IF SearchedOf(paths, Paths \ refused) = {} THEN Failed("refused")
             ELSE Replied(NoNumber, paths, RowsOf(paths, Paths \ refused),
                          LinesCut(RowsOf(paths, Paths \ refused)),
                          SearchedOf(paths, Paths \ refused))
    BY <1>3 DEF Grep
  <2>2. PICK wanted \in SUBSET Paths : wanted = {paths[i] : i \in Reached(paths, Paths \ refused)}
    <3>1. PICK R : R = Reached(paths, Paths \ refused)
      OBVIOUS
    <3>2. R \subseteq 1 .. Len(paths)
      BY <3>1 DEF Reached
    <3>3. {paths[i] : i \in R} \subseteq Paths
      BY <3>2
    <3> QED  BY <3>1, <3>3
  <2>3. FilesAreTrue' /\ files' \in [Paths -> Nat \cup {NoFile}] /\ requests' \in [Paths -> Nat]
    BY <2>1, <2>2, ReadsAreTrue
  <2>4. CASE SearchedOf(paths, Paths \ refused) = {}
    <3>1. Failed("refused")
      BY <2>1, <2>4
    <3> QED  BY <1>1, <2>3, <3>1, Failing
  <2>5. CASE SearchedOf(paths, Paths \ refused) # {}
    <3>1. PICK readable \in SUBSET Paths : readable = Paths \ refused
      OBVIOUS
    <3>2. PICK rows \in SUBSET (Paths \X Nat), searched \in SUBSET Paths :
            rows = RowsOf(paths, readable) /\ searched = SearchedOf(paths, readable)
      BY SearchFinds
    <3>3. IsFiniteSet(rows) /\ Finds(rows, searched)
      BY <3>2, SearchFinds
    <3>4. LinesCut(rows) \in [rows -> Nat]
      <4>1. rows \subseteq HitsIn(searched)
        BY <3>3 DEF Finds
      <4>2. \A x \in rows : x[1] \in Paths /\ x[2] \in 1 .. LinesOf[x[1]]
        BY <4>1, ToolAssumption DEF HitsIn
      <4> QED  BY <4>2, RowsHaveSizes
    <3>5. PICK size \in [rows -> Nat] : Replied(NoNumber, paths, rows, size, searched)
      BY <2>1, <2>5, <3>1, <3>2, <3>4
    <3>6. Stands(reply', paths, rows, searched, NoNumber)
      BY <3>3, <3>5, AnswerStands
    <3>7. SearchIsTrue(reply')
      BY <3>3, <3>6, SearchIsHonest
    <3>8. AnswerIsTrue'
      BY <3>6, <3>7 DEF AnswerIsTrue, SearchIsTrue, Stands
    <3> QED  BY <1>1, <2>3, <3>5, <3>6, <3>8, Answering
  <2> QED  BY <2>4, <2>5
<1> QED  BY <1>2, <1>3

LEMMA ToolInvNext == ASSUME ToolInv, [ToolNext]_toolVars PROVE ToolInv'
<1>1. CASE UNCHANGED toolVars
  BY <1>1 DEF toolVars, ToolInv, ToolTypeOK, FilesAreTrue, ReplyIsTrue, AnswerIsTrue, Held
<1>2. ASSUME NEW p \in Paths, NEW start \in Given, NEW end \in Given, ReadFile(p, start, end)
      PROVE  ToolInv'
  BY <1>2, ReadFileIsHonest
<1>3. ASSUME NEW p \in Paths, Grep(<<p>>)
      PROVE  ToolInv'
  <2>1. <<p>> \in Seq(Paths) /\ \A i, j \in 1 .. Len(<<p>>) : <<p>>[i] = <<p>>[j] => i = j
    OBVIOUS
  <2> QED  BY <1>3, <2>1, GrepIsHonest
<1>4. CASE Grep(Changed)
  BY <1>4, ToolAssumption, GrepIsHonest
<1>5. ASSUME UNCHANGED <<files, hasIndex, requests>>
      PROVE  FilesAreTrue' /\ files' \in [Paths -> Nat \cup {NoFile}] /\ requests' \in [Paths -> Nat]
  BY <1>5 DEF ToolInv, ToolTypeOK, FilesAreTrue, Held
<1>6. CASE SearchHistory
  <2>1. ToolReady /\ UNCHANGED <<files, hasIndex, requests>>
    BY <1>6 DEF SearchHistory
  <2>2. CASE Replied(NoNumber, <<>>, {}, <<>>, {})
    <3>1. HitsIn({}) = {} /\ Cardinality({}) = 0 /\ IsFiniteSet({})
      BY FS_EmptySet DEF HitsIn
    <3>2. PICK rows, paths, size : rows = {} /\ paths = <<>> /\ size = <<>>
      OBVIOUS
    <3>3. rows \in SUBSET (Paths \X Nat) /\ {} \in SUBSET Paths /\ size \in [rows -> Nat]
      BY <3>2
    <3>4. Replied(NoNumber, paths, rows, size, {})
      BY <2>2, <3>2
    <3>5. Stands(reply', paths, rows, {}, NoNumber)
      BY <3>1, <3>2, <3>3, <3>4, AnswerStands
    <3>6. Finds(rows, {})
      BY <3>1, <3>2, ToolAssumption DEF Finds
    <3>7. SearchIsTrue(reply')
      BY <3>3, <3>5, <3>6, SearchIsHonest
    <3>8. AnswerIsTrue'
      BY <3>5, <3>7 DEF AnswerIsTrue, SearchIsTrue, Stands
    <3> QED  BY <1>5, <2>1, <3>3, <3>4, <3>5, <3>8, Answering
  <2>3. CASE Failed("no index")
    BY <1>5, <2>1, <2>3, Failing
  <2> QED  BY <1>6, <2>2, <2>3 DEF SearchHistory
<1>7. CASE Malformed
  <2>1. ToolReady /\ UNCHANGED <<files, hasIndex, requests>> /\ Failed("malformed")
    BY <1>7 DEF Malformed
  <2> QED  BY <1>5, <2>1, Failing
<1> QED  BY <1>1, <1>2, <1>3, <1>4, <1>6, <1>7 DEF ToolNext

(* What is held of a file is the file, and the last reply is true of it.   *)
THEOREM ToolInvariant == ToolSpec => []ToolInv
<1>1. ToolInit => ToolInv
  BY ToolInvInit
<1>2. ToolInv /\ [ToolNext]_toolVars => ToolInv'
  BY ToolInvNext
<1> QED  BY <1>1, <1>2, PTL DEF ToolSpec

(* Whatever a model asks for and GitHub refuses, an answer shows lines the *)
(* head commit has: the first of the window asked for or the nearest, the  *)
(* first matches of a file, all of what its header counts unless it is     *)
(* marked as cut, and nothing of a file that was not read; below its cap a *)
(* search counts every match; and a file is read once.                     *)
THEOREM AnswersAlwaysHonest == ToolSpec => []AnswersAreHonest
<1>1. ToolInv => AnswersAreHonest
  BY DEF ToolInv, FilesAreTrue, ReplyIsTrue, AnswerIsTrue, AnswersAreHonest
<1> QED  BY <1>1, ToolInvariant, PTL

-----------------------------------------------------------------------------
(***************************************************************************)
(* Past comments, and the rankings of the recall table.                    *)
(***************************************************************************)

(* A set listed in an order: all of it, each once, and in that order.      *)
LEMMA ListedInOrder ==
  ASSUME NEW S, IsFiniteSet(S), NEW R, Orders(R, S)
  PROVE  /\ Cardinality(S) \in Nat
         /\ InOrder(S, R) \in [1 .. Cardinality(S) -> S]
         /\ \A r \in S : \E i \in 1 .. Cardinality(S) : InOrder(S, R)[i] = r
         /\ \A i, j \in 1 .. Cardinality(S) : i < j => <<InOrder(S, R)[i], InOrder(S, R)[j]>> \in R
         /\ \A i, j \in 1 .. Cardinality(S) : InOrder(S, R)[i] = InOrder(S, R)[j] => i = j
<1>. DEFINE n == Cardinality(S)
            s == InOrder(S, R)
<1>1. n \in Nat
  BY FS_CardinalityType
<1>2. /\ RankIn(R, S) \in [S -> 0 .. n - 1]
      /\ \A r, q \in S : RankIn(R, S)[r] = RankIn(R, S)[q] => r = q
      /\ \A t \in 0 .. n - 1 : \E r \in S : RankIn(R, S)[r] = t
  <2>1. RankIn(R, S) \in Bijection(S, 0 .. n - 1)
    BY RanksNumber
  <2> QED  BY <2>1 DEF Bijection, Injection, Surjection, IsInjective
<1>3. \A r \in S : /\ RankIn(R, S)[r] = Cardinality({q \in S : <<q, r>> \in R})
                   /\ RankIn(R, S)[r] \in 0 .. n - 1
  BY <1>2 DEF RankIn, Below
<1>4. ASSUME NEW i \in 1 .. n
      PROVE  s[i] \in S /\ RankIn(R, S)[s[i]] = i - 1
  <2>1. i - 1 \in 0 .. n - 1
    BY <1>1
  <2>2. \E r \in S : Cardinality({q \in S : <<q, r>> \in R}) = i - 1
    BY <1>2, <1>3, <2>1
  <2>3. s[i] = CHOOSE r \in S : Cardinality({q \in S : <<q, r>> \in R}) = i - 1
    BY DEF InOrder
  <2>4. s[i] \in S /\ Cardinality({q \in S : <<q, s[i]>> \in R}) = i - 1
    BY <2>2, <2>3
  <2> QED  BY <1>3, <2>4
<1>5. s \in [1 .. n -> S]
  <2>. DEFINE at(i) == CHOOSE r \in S : Cardinality({q \in S : <<q, r>> \in R}) = i - 1
  <2>1. s = [i \in 1 .. n |-> at(i)]
    BY DEF InOrder
  <2> HIDE DEF s, n, at
  <2>2. \A i \in 1 .. n : s[i] = at(i)
    BY <2>1
  <2>3. \A i \in 1 .. n : at(i) \in S
    BY <1>4, <2>2
  <2> QED  BY <2>1, <2>3
<1>6. ASSUME NEW r \in S
      PROVE  \E i \in 1 .. n : s[i] = r
  <2> HIDE DEF s, n
  <2>1. PICK t \in 0 .. n - 1 : RankIn(R, S)[r] = t
    BY <1>3
  <2>2. t + 1 \in 1 .. n /\ (t + 1) - 1 = t
    BY <1>1
  <2>3. s[t + 1] \in S /\ RankIn(R, S)[s[t + 1]] = t
    BY <1>4, <2>2
  <2>4. s[t + 1] = r
    BY <1>2, <2>1, <2>3
  <2> QED  BY <2>2, <2>4
<1>7. ASSUME NEW i \in 1 .. n, NEW j \in 1 .. n, i < j
      PROVE  <<s[i], s[j]>> \in R
  <2>1. /\ s[i] \in S /\ s[j] \in S
        /\ RankIn(R, S)[s[i]] = i - 1 /\ RankIn(R, S)[s[j]] = j - 1
    BY <1>4
  <2>2. s[i] # s[j]
    <3> HIDE DEF s, n
    <3> QED  BY <1>1, <1>7, <2>1
  <2>3. ASSUME <<s[j], s[i]>> \in R
        PROVE  FALSE
    <3>1. Below(R, S, s[j]) \subseteq Below(R, S, s[i])
      BY <2>1, <2>3 DEF Below, Orders
    <3>2. Below(R, S, s[i]) \subseteq S
      BY DEF Below
    <3>3. IsFiniteSet(Below(R, S, s[i]))
      BY <3>2, FS_Subset
    <3>4. Cardinality(Below(R, S, s[j])) <= Cardinality(Below(R, S, s[i]))
      BY <3>1, <3>3, FS_Subset
    <3>5. Cardinality(Below(R, S, s[j])) = j - 1 /\ Cardinality(Below(R, S, s[i])) = i - 1
      BY <2>1 DEF RankIn
    <3> HIDE DEF s, n
    <3> QED  BY <1>1, <1>7, <3>4, <3>5
  <2> QED  BY <2>1, <2>2, <2>3 DEF Orders
<1>8. ASSUME NEW i \in 1 .. n, NEW j \in 1 .. n, s[i] = s[j]
      PROVE  i = j
  <2> HIDE DEF s, n
  <2> QED  BY <1>1, <1>4, <1>8
<1> QED  BY <1>1, <1>5, <1>6, <1>7, <1>8

ScoresTyped == scores \in [Rows -> 0 .. MaxScore]

LEMMA RowsAre ==
  /\ Len(Documents) \in Nat /\ Rows = 1 .. Len(Documents)
  /\ Rows \in SUBSET Nat /\ IsFiniteSet(Rows) /\ Cardinality(Rows) = Len(Documents)
<1>1. Len(Documents) \in Nat
  BY SearchAssumption DEF SearchAssumption
<1>. DEFINE n == Len(Documents)
<1> HIDE DEF n
<1>2. n \in Nat /\ 1 \in Int /\ n \in Int
  BY <1>1 DEF n
<1>3. IsFiniteSet(1 .. n) /\ Cardinality(1 .. n) = IF 1 > n THEN 0 ELSE n - 1 + 1
  BY <1>2, FS_Interval
<1>4. Cardinality(1 .. n) = n
  BY <1>2, <1>3
<1>5. 1 .. n \in SUBSET Nat
  BY <1>2
<1> QED  BY <1>1, <1>3, <1>4, <1>5 DEF Rows, n

LEMMA BoundsTyped == MaxScore \in Nat /\ K \in Nat \ {0} /\ RRF_K \in Nat /\ Scale \in Nat
                     /\ FUSION_DEPTH \in Nat \ {0} /\ IsFiniteSet(Budgets)
                     /\ Budgets # {} /\ Budgets \subseteq Nat \ {0}
BY SearchAssumption DEF SearchAssumption

LEMMA ScoresAre ==
  ASSUME ScoresTyped
  PROVE  \A r \in Rows : scores[r] \in Nat
<1>1. 0 .. MaxScore \subseteq Nat
  BY BoundsTyped
<1> QED  BY <1>1 DEF ScoresTyped

LEMMA BestFirstOrders ==
  ASSUME NEW S \in SUBSET Nat, NEW by, \A r \in S : by[r] \in Nat
  PROVE  Orders(BestFirst(S, by), S)
<1>. DEFINE P(r, q) == by[r] > by[q] \/ (by[r] = by[q] /\ r < q)
<1>1. \A r, q \in S : <<r, q>> \in BestFirst(S, by) <=> P(r, q)
  BY DEF BestFirst
<1>2. \A i \in S : ~P(i, i)
  OBVIOUS
<1>3. ASSUME NEW i \in S, NEW j \in S, NEW k \in S, P(i, j), P(j, k)
      PROVE  P(i, k)
  <2>1. by[i] \in Nat /\ by[j] \in Nat /\ by[k] \in Nat /\ i \in Nat /\ j \in Nat /\ k \in Nat
    OBVIOUS
  <2> QED  BY <1>3, <2>1
<1>4. ASSUME NEW i \in S, NEW j \in S
      PROVE  i = j \/ P(i, j) \/ P(j, i)
  <2>1. by[i] \in Nat /\ by[j] \in Nat /\ i \in Nat /\ j \in Nat
    OBVIOUS
  <2> QED  BY <2>1
<1> HIDE DEF P
<1> QED  BY <1>1, <1>2, <1>3, <1>4 DEF Orders

(* The best of a set of rows, best first: what is left out is no better    *)
(* than what is in.                                                        *)
IsTop(s, A) ==
  /\ Len(s) \in Nat /\ s \in [1 .. Len(s) -> A]
  /\ \A i, j \in 1 .. Len(s) : s[i] = s[j] => i = j
  /\ \A i, j \in 1 .. Len(s) : i <= j => scores[s[i]] >= scores[s[j]]
  /\ \A q \in A : (\A i \in 1 .. Len(s) : s[i] # q) =>
       \A i \in 1 .. Len(s) : scores[s[i]] >= scores[q]

LEMMA BestFirstMeans ==
  ASSUME NEW S, NEW by, NEW r, NEW q, <<r, q>> \in BestFirst(S, by)
  PROVE  by[r] > by[q] \/ by[r] = by[q]
BY DEF BestFirst

LEMMA SortedIsTop ==
  ASSUME ScoresTyped, NEW A \in SUBSET Rows, NEW best \in SUBSET A,
         \A r \in best : \A q \in A \ best : scores[r] >= scores[q]
  PROVE  IsTop(Sorted(best, scores), A) /\ Len(Sorted(best, scores)) = Cardinality(best)
<1>. DEFINE n == Cardinality(best)
            R == BestFirst(best, scores)
            s == Sorted(best, scores)
<1>1. best \in SUBSET Nat /\ \A r \in Rows : scores[r] \in Nat
  BY RowsAre, ScoresAre
<1>2. IsFiniteSet(best)
  BY RowsAre, FS_Subset
<1>3. Orders(R, best)
  BY <1>1, BestFirstOrders
<1>4. /\ n \in Nat /\ s \in [1 .. n -> best]
      /\ \A r \in best : \E i \in 1 .. n : s[i] = r
      /\ \A i, j \in 1 .. n : i < j => <<s[i], s[j]>> \in R
      /\ \A i, j \in 1 .. n : s[i] = s[j] => i = j
  <2>1. s = InOrder(best, R)
    BY DEF Sorted
  <2> HIDE DEF R, s
  <2> QED  BY <1>2, <1>3, <2>1, ListedInOrder
<1> HIDE DEF R, n, s
<1>5. Len(s) = n
  BY <1>4
<1>6. \A i, j \in 1 .. n : i <= j => scores[s[i]] >= scores[s[j]]
  <2>1. SUFFICES ASSUME NEW i \in 1 .. n, NEW j \in 1 .. n, i <= j
                 PROVE  scores[s[i]] >= scores[s[j]]
    OBVIOUS
  <2>2. scores[s[i]] \in Nat /\ scores[s[j]] \in Nat
    BY <1>1, <1>4
  <2>3. CASE i = j
    BY <2>2, <2>3
  <2>4. CASE i < j
    <3>1. <<s[i], s[j]>> \in R
      BY <1>4, <2>4
    <3>2. scores[s[i]] > scores[s[j]] \/ scores[s[i]] = scores[s[j]]
      BY <3>1, BestFirstMeans DEF R
    <3> QED  BY <2>2, <3>2
  <2> QED  BY <1>4, <2>1, <2>3, <2>4
<1>7. \A q \in A : (\A i \in 1 .. n : s[i] # q) => \A i \in 1 .. n : scores[s[i]] >= scores[q]
  BY <1>4
<1>8. s \in [1 .. n -> A]
  BY <1>4
<1>9. IsTop(s, A) /\ Len(s) = n
  BY <1>4, <1>5, <1>6, <1>7, <1>8 DEF IsTop
<1> QED  BY <1>9 DEF n, s

LEMMA TopKIsTop ==
  ASSUME ScoresTyped, NEW A \in SUBSET Rows, NEW k \in Nat, NEW s \in TopK(k, A)
  PROVE  IsTop(s, A) /\ Len(s) = Least(k, Cardinality(A))
<1>1. PICK best \in SUBSET A :
        /\ Cardinality(best) = Least(k, Cardinality(A))
        /\ \A r \in best : \A q \in A \ best : scores[r] >= scores[q]
        /\ s = Sorted(best, scores)
  BY DEF TopK, kSubset
<1> QED  BY <1>1, SortedIsTop

(* Two lists of the best of a set agree on the scores, row by row, as far  *)
(* as both go: however ties were broken.                                   *)
LEMMA TopIsAsGood ==
  ASSUME ScoresTyped, NEW A \in SUBSET Rows, NEW s, NEW t, IsTop(s, A), IsTop(t, A),
         NEW i \in 1 .. Len(s), i \in 1 .. Len(t)
  PROVE  scores[s[i]] >= scores[t[i]]
<1>1. \A r \in A : scores[r] \in Nat
  BY ScoresAre
<1>2. i \in Nat /\ Len(s) \in Nat /\ Len(t) \in Nat /\ i >= 1
  BY DEF IsTop
<1>3. SUFFICES ASSUME scores[s[i]] < scores[t[i]]
               PROVE  FALSE
  <2>1. s[i] \in A /\ t[i] \in A
    BY DEF IsTop
  <2> QED  BY <1>1, <2>1
<1>4. ASSUME NEW j \in 1 .. i
      PROVE  \E p \in 1 .. i - 1 : s[p] = t[j]
  <2>1. j \in 1 .. Len(t) /\ s[i] \in A /\ t[i] \in A /\ t[j] \in A
    BY <1>2 DEF IsTop
  <2>2. scores[t[j]] >= scores[t[i]]
    BY <1>2, <2>1 DEF IsTop
  <2>3. scores[t[j]] > scores[s[i]]
    BY <1>1, <1>3, <2>1, <2>2
  <2>4. PICK p \in 1 .. Len(s) : s[p] = t[j]
    BY <1>1, <2>1, <2>3 DEF IsTop
  <2>5. ~(i <= p)
    BY <1>1, <2>1, <2>3, <2>4 DEF IsTop
  <2>6. p \in 1 .. i - 1
    BY <1>2, <2>5
  <2> QED  BY <2>4, <2>6
<1>. DEFINE f == [j \in 1 .. i |-> CHOOSE p \in 1 .. i - 1 : s[p] = t[j]]
<1>5. \A j \in 1 .. i : f[j] \in 1 .. i - 1 /\ s[f[j]] = t[j]
  BY <1>4
<1>6. f \in [1 .. i -> 1 .. i - 1]
  BY <1>5
<1> HIDE DEF f
<1>7. /\ IsFiniteSet(1 .. i) /\ IsFiniteSet(1 .. i - 1)
      /\ Cardinality(1 .. i - 1) < Cardinality(1 .. i)
  <2>1. 1 \in Int /\ i \in Int /\ i - 1 \in Int
    BY <1>2
  <2>2. IsFiniteSet(1 .. i) /\ Cardinality(1 .. i) = IF 1 > i THEN 0 ELSE i - 1 + 1
    BY <2>1, FS_Interval
  <2>3. /\ IsFiniteSet(1 .. i - 1)
        /\ Cardinality(1 .. i - 1) = IF 1 > i - 1 THEN 0 ELSE (i - 1) - 1 + 1
    BY <2>1, FS_Interval
  <2> QED  BY <1>2, <2>2, <2>3
<1>8. PICK x, y \in 1 .. i : x # y /\ f[x] = f[y]
  BY <1>6, <1>7, FS_PigeonHole
<1>9. x \in 1 .. Len(t) /\ y \in 1 .. Len(t) /\ t[x] = t[y]
  BY <1>2, <1>5, <1>8
<1> QED  BY <1>8, <1>9 DEF IsTop

LEMMA TopsAgree ==
  ASSUME ScoresTyped, NEW A \in SUBSET Rows, NEW s, NEW t, IsTop(s, A), IsTop(t, A),
         NEW i \in 1 .. Len(s), i \in 1 .. Len(t)
  PROVE  scores[s[i]] = scores[t[i]]
<1>1. scores[s[i]] >= scores[t[i]] /\ scores[t[i]] >= scores[s[i]]
  BY TopIsAsGood
<1>2. scores[s[i]] \in Nat /\ scores[t[i]] \in Nat
  BY ScoresAre DEF IsTop
<1> QED  BY <1>1, <1>2

(* Where a row is in a ranking.                                            *)
LEMMA PlaceIs ==
  ASSUME NEW s, Len(s) \in Nat, NEW r
  PROVE  /\ Place(s, r) \in 1 .. Len(s) + 1
         /\ Place(s, r) <= Len(s) => s[Place(s, r)] = r
         /\ \A i \in 1 .. Len(s) : s[i] = r => Place(s, r) <= i
<1>. DEFINE n == Len(s)
            P == {i \in 1 .. n : s[i] = r} \cup {n + 1}
<1>1. P \in SUBSET Nat /\ P # {}
  <2> HIDE DEF n
  <2>1. n \in Nat
    BY DEF n
  <2> QED  BY <2>1
<1>2. Place(s, r) = Min(P)
  BY DEF Place
<1>3. Min(P) \in P /\ \A m \in P : Min(P) <= m
  <2> HIDE DEF P
  <2> QED  BY <1>1, MinIsLeast
<1>4. n \in Nat
  OBVIOUS
<1>5. Place(s, r) \in P /\ \A m \in P : Place(s, r) <= m
  <2> HIDE DEF P
  <2> QED  BY <1>2, <1>3
<1> HIDE DEF n
<1>6. Place(s, r) \in 1 .. n + 1
  BY <1>4, <1>5
<1>7. Place(s, r) <= n => s[Place(s, r)] = r
  BY <1>4, <1>5
<1>8. \A i \in 1 .. n : s[i] = r => Place(s, r) <= i
  BY <1>5
<1> QED  BY <1>6, <1>7, <1>8 DEF n

LEMMA RankingIs ==
  ASSUME NEW s, IsRanking(s)
  PROVE  /\ Len(s) \in Nat /\ s \in [1 .. Len(s) -> Rows]
         /\ \A i, j \in 1 .. Len(s) : s[i] = s[j] => i = j
BY DEF IsRanking

(* A filter that runs after the ranking leaves the best of what it lets    *)
(* through, too, and all of it when the candidates were all the rows.      *)
LEMMA SurvivorsAreTop ==
  ASSUME ScoresTyped, IsTop(deepest, Rows), NEW b \in Nat
  PROVE  /\ Cardinality(Survivors(b)) \in Nat /\ Cardinality(Allowed) \in Nat
         /\ Len(PostFilter(b)) = Least(K, Cardinality(Survivors(b)))
         /\ IsTop(PostFilter(b), Allowed)
         /\ Cardinality(Survivors(b)) <= Cardinality(Allowed)
         /\ b >= Len(Documents) /\ Len(deepest) = Len(Documents) =>
              Cardinality(Survivors(b)) = Cardinality(Allowed)
<1>. DEFINE kept == Survivors(b)
            m == Cardinality(kept)
            O == {p \in kept \X kept : p[1] < p[2]}
            order == InOrder(kept, O)
            t == PostFilter(b)
            n == Least(K, m)
            D == Len(deepest)
<1>1. /\ D \in Nat /\ deepest \in [1 .. D -> Rows]
      /\ \A i, j \in 1 .. D : deepest[i] = deepest[j] => i = j
      /\ \A i, j \in 1 .. D : i <= j => scores[deepest[i]] >= scores[deepest[j]]
      /\ \A q \in Rows : (\A i \in 1 .. D : deepest[i] # q) =>
           \A i \in 1 .. D : scores[deepest[i]] >= scores[q]
  BY DEF IsTop
<1>2. K \in Nat \ {0}
  BY BoundsTyped
<1> HIDE DEF D
<1>3. \A p \in Nat : p \in kept <=> p \in 1 .. D /\ p <= b /\ deepest[p] \in Allowed
  BY <1>1 DEF Survivors, Least, D
<1>4. kept \subseteq 1 .. D /\ kept \subseteq Nat
  BY <1>1 DEF Survivors, Least, D
<1>5. IsFiniteSet(1 .. D)
  BY <1>1, FS_Interval
<1>6. IsFiniteSet(kept) /\ m \in Nat
  BY <1>4, <1>5, FS_Subset, FS_CardinalityType
<1>7. Orders(O, kept)
  <2> HIDE DEF kept
  <2>1. \A i, j \in kept : <<i, j>> \in O <=> i < j
    OBVIOUS
  <2> HIDE DEF O
  <2> QED  BY <1>4, <2>1 DEF Orders
<1>8. /\ order \in [1 .. m -> kept]
      /\ \A p \in kept : \E i \in 1 .. m : order[i] = p
      /\ \A i, j \in 1 .. m : i < j => <<order[i], order[j]>> \in O
      /\ \A i, j \in 1 .. m : order[i] = order[j] => i = j
  <2> HIDE DEF kept, O
  <2> QED  BY <1>6, <1>7, ListedInOrder
<1>9. \A i, j \in 1 .. m : i < j => order[i] < order[j]
  <2> HIDE DEF kept, order
  <2> QED  BY <1>8
<1>10. t = [i \in 1 .. n |-> deepest[order[i]]]
  BY DEF PostFilter
<1>11. n \in Nat /\ n <= m /\ n <= K /\ (n = m \/ n = K)
  <2> HIDE DEF m
  <2> QED  BY <1>2, <1>6 DEF Least
<1>12. \A i \in 1 .. n : /\ t[i] = deepest[order[i]] /\ order[i] \in kept /\ i \in 1 .. m
                         /\ order[i] \in 1 .. D /\ order[i] <= b /\ t[i] \in Allowed
  <2> HIDE DEF kept, order, t, n, m
  <2>1. \A i \in 1 .. n : i \in 1 .. m
    BY <1>6, <1>11
  <2>2. \A i \in 1 .. n : order[i] \in kept /\ t[i] = deepest[order[i]]
    BY <1>8, <1>10, <2>1
  <2> QED  BY <1>3, <1>4, <2>1, <2>2
<1>13. Len(t) = n
  <2> HIDE DEF n, order
  <2> QED  BY <1>10, <1>11
<1>14. t \in [1 .. n -> Allowed]
  <2>1. t = [i \in 1 .. n |-> t[i]]
    <3> HIDE DEF n, order
    <3> QED  BY <1>10
  <2> HIDE DEF n, order, t
  <2> QED  BY <1>12, <2>1
<1> HIDE DEF kept, m, O, order, t, n
<1>15. \A i, j \in 1 .. n : t[i] = t[j] => i = j
  BY <1>1, <1>8, <1>12
<1>16. ASSUME NEW i \in 1 .. n, NEW j \in 1 .. n, i <= j
       PROVE  scores[t[i]] >= scores[t[j]]
  <2>1. order[i] <= order[j]
    BY <1>4, <1>9, <1>12, <1>16
  <2> QED  BY <1>1, <1>12, <2>1
<1>17. ASSUME NEW q \in Allowed, \A i \in 1 .. n : t[i] # q, NEW i \in 1 .. n
       PROVE  scores[t[i]] >= scores[q]
  <2>1. q \in Rows
    BY DEF Allowed, Comments
  <2>2. CASE \A p \in 1 .. D : deepest[p] # q
    BY <1>1, <1>12, <2>1, <2>2
  <2>3. ASSUME NEW p \in 1 .. D, deepest[p] = q
        PROVE  scores[t[i]] >= scores[q]
    <3>1. order[i] <= p
      <4>1. p \in Nat /\ order[i] \in Nat /\ order[i] <= b
        BY <1>4, <1>12
      <4>2. CASE p > b
        BY <4>1, <4>2
      <4>3. CASE p <= b
        <5>1. p \in kept
          BY <1>3, <2>3, <4>1, <4>3
        <5>2. PICK j \in 1 .. m : order[j] = p
          BY <1>8, <5>1
        <5>3. j \notin 1 .. n
          BY <1>12, <1>17, <2>3, <5>2
        <5>4. i < j /\ i \in 1 .. m
          BY <1>6, <1>11, <5>3
        <5> QED  BY <1>9, <4>1, <5>2, <5>4
      <4> QED  BY <4>1, <4>2, <4>3
    <3> QED  BY <1>1, <1>12, <2>3, <3>1
  <2> QED  BY <2>2, <2>3
<1>18. IsTop(t, Allowed)
  BY <1>11, <1>13, <1>14, <1>15, <1>16, <1>17 DEF IsTop
<1>19. IsFiniteSet(Allowed) /\ Cardinality(Allowed) \in Nat
  <2>1. Allowed \subseteq Rows
    BY DEF Allowed, Comments
  <2> QED  BY <2>1, RowsAre, FS_Subset, FS_CardinalityType
<1>. DEFINE f == [p \in kept |-> deepest[p]]
<1>20. f \in Injection(kept, Allowed)
  <2>1. f \in [kept -> Allowed]
    BY <1>3, <1>4
  <2>2. \A p, q \in kept : f[p] = f[q] => p = q
    BY <1>1, <1>4
  <2> QED  BY <2>1, <2>2, Fun_IsInj
<1>21. m <= Cardinality(Allowed)
  <2> HIDE DEF f
  <2> QED  BY <1>19, <1>20, FS_Injection DEF m
<1>22. ASSUME b >= Len(Documents), D = Len(Documents)
       PROVE  m = Cardinality(Allowed)
  <2>1. Cardinality(1 .. D) = Cardinality(Rows)
    BY <1>22, RowsAre
  <2>2. deepest \in Injection(1 .. D, Rows)
    BY <1>1, Fun_IsInj
  <2>3. deepest \in Surjection(1 .. D, Rows)
    BY <2>1, <2>2, RowsAre, FS_Injection
  <2>4. \A r \in Rows : \E p \in 1 .. D : deepest[p] = r
    BY <2>3 DEF Surjection
  <2>5. ASSUME NEW r \in Allowed
        PROVE  \E p \in kept : f[p] = r
    <3>1. r \in Rows
      BY DEF Allowed, Comments
    <3>2. PICK p \in 1 .. D : deepest[p] = r
      BY <2>4, <3>1
    <3>3. p \in Nat /\ p <= b
      BY <1>1, <1>22
    <3>4. p \in kept
      BY <1>3, <3>2, <3>3
    <3> QED  BY <3>2, <3>4
  <2>6. f \in Surjection(kept, Allowed)
    <3>1. f \in [kept -> Allowed]
      BY <1>3, <1>4
    <3> HIDE DEF f
    <3> QED  BY <2>5, <3>1, Fun_IsSurj
  <2>7. Cardinality(Allowed) <= m
    <3> HIDE DEF f
    <3> QED  BY <1>6, <2>6, FS_Surjection DEF m
  <2> QED  BY <1>6, <1>19, <1>21, <2>7
<1> QED  BY <1>6, <1>13, <1>18, <1>19, <1>21, <1>22 DEF kept, m, t, n, D

LEMMA DeepestBudget == Max(Budgets) \in Nat /\ \A b \in Budgets : b <= Max(Budgets)
<1>1. IsFiniteSet(Budgets) /\ Budgets # {} /\ Budgets \subseteq Nat
  BY BoundsTyped
<1>2. PICK x \in Budgets : \A y \in Budgets : y <= x
  BY <1>1, FiniteHasGreatest
<1>3. \E z \in Budgets : \A y \in Budgets : z >= y
  BY <1>1, <1>2
<1>4. Max(Budgets) \in Budgets /\ \A y \in Budgets : Max(Budgets) >= y
  BY <1>3 DEF Max
<1> QED  BY <1>1, <1>4

LEMMA FilterLoses ==
  ASSUME ScoresTyped, IsTop(found, Allowed), Len(found) = Least(K, Cardinality(Allowed)),
         IsTop(deepest, Rows), Len(deepest) = Least(Max(Budgets), Cardinality(Rows))
  PROVE  FilteringLosesTheRest
<1>1. K \in Nat \ {0} /\ IsFiniteSet(Budgets) /\ Budgets # {} /\ Budgets \subseteq Nat \ {0}
  BY BoundsTyped
<1>2. Max(Budgets) \in Nat /\ \A b \in Budgets : b <= Max(Budgets)
  BY DeepestBudget
<1>3. Len(Documents) \in Nat /\ Cardinality(Rows) = Len(Documents)
  BY RowsAre
<1>4. Allowed \in SUBSET Rows
  BY DEF Allowed, Comments
<1>. SUFFICES ASSUME NEW b \in Budgets
              PROVE  /\ \A i \in 1 .. Len(PostFilter(b)) : scores[PostFilter(b)[i]] = scores[found[i]]
                     /\ Len(PostFilter(b)) <= Len(found)
                     /\ Len(PostFilter(b)) < Len(found) => b < Len(Documents)
  BY DEF FilteringLosesTheRest
<1>. DEFINE m == Cardinality(Survivors(b))
            a == Cardinality(Allowed)
<1>5. b \in Nat /\ b <= Max(Budgets)
  BY <1>1, <1>2
<1>6. /\ m \in Nat /\ a \in Nat /\ m <= a
      /\ Len(PostFilter(b)) = Least(K, m) /\ IsTop(PostFilter(b), Allowed)
      /\ b >= Len(Documents) /\ Len(deepest) = Len(Documents) => m = a
  BY <1>5, SurvivorsAreTop
<1> HIDE DEF m, a
<1>7. Len(found) = Least(K, a)
  BY DEF a
<1>8. Len(PostFilter(b)) <= Len(found)
  BY <1>1, <1>6, <1>7 DEF Least
<1>9. b >= Len(Documents) => Len(deepest) = Len(Documents)
  BY <1>2, <1>3, <1>5 DEF Least
<1>10. b >= Len(Documents) => Len(PostFilter(b)) = Len(found)
  BY <1>6, <1>7, <1>9
<1>11. Len(PostFilter(b)) < Len(found) => b < Len(Documents)
  BY <1>1, <1>3, <1>5, <1>6, <1>7, <1>10 DEF Least
<1>12. ASSUME NEW i \in 1 .. Len(PostFilter(b))
       PROVE  scores[PostFilter(b)[i]] = scores[found[i]]
  <2>1. Len(PostFilter(b)) \in Nat /\ Len(found) \in Nat
    BY <1>6 DEF IsTop
  <2>2. i \in 1 .. Len(found)
    BY <1>8, <2>1
  <2> QED  BY <1>4, <1>6, <2>2, TopsAgree
<1> QED  BY <1>8, <1>11, <1>12

LEMMA NumbersTyped == \A r \in Rows : Documents[r].number \in Nat
<1>. SUFFICES ASSUME NEW r \in Rows PROVE Documents[r].number \in Nat
  OBVIOUS
<1>. DEFINE D == [kind : {"review_comment", "source"}, number : Nat,
                  body : BOOLEAN, automated : BOOLEAN]
<1>1. \A d \in D : d.number \in Nat
  OBVIOUS
<1>2. Documents \in Seq(D)
  BY SearchAssumption DEF SearchAssumption
<1> HIDE DEF D
<1>3. Documents[r] \in D
  BY <1>2 DEF Rows
<1> QED  BY <1>1, <1>3

LEMMA NumbersAre ==
  ASSUME before \in Nat, NEW r \in Allowed
  PROVE  /\ r \in Comments /\ Documents[r].number \in 1 .. before - 1
         /\ ~Documents[r].automated
<1>1. r \in Comments /\ r \in Rows /\ Documents[r].number < before
  BY DEF Allowed, Comments
<1>2. Documents[r].number # 0 /\ ~Documents[r].automated
  BY <1>1 DEF Comments
<1>3. Documents[r].number \in Nat
  BY <1>1, NumbersTyped
<1> QED  BY <1>1, <1>2, <1>3

LEMMA NearestFound ==
  ASSUME ScoresTyped, before \in Nat, IsTop(found, Allowed),
         Len(found) = Least(K, Cardinality(Allowed))
  PROVE  NearestOfThePast
<1>1. /\ Len(found) \in Nat /\ found \in [1 .. Len(found) -> Allowed]
      /\ \A i, j \in 1 .. Len(found) : i <= j => scores[found[i]] >= scores[found[j]]
      /\ \A q \in Allowed : (\A i \in 1 .. Len(found) : found[i] # q) =>
           \A i \in 1 .. Len(found) : scores[found[i]] >= scores[q]
  BY DEF IsTop
<1>2. \A i \in 1 .. Len(found) : Documents[found[i]].number \in 1 .. before - 1
                                /\ ~Documents[found[i]].automated
  BY <1>1, NumbersAre
<1>3. ASSUME NEW i \in 1 .. Len(found), NEW r \in Comments,
             Documents[r].number < before, scores[r] > scores[found[i]]
      PROVE  Place(found, r) < i
  <2>1. r \in Allowed /\ \A q \in Allowed : scores[q] \in Nat
    BY <1>3, ScoresAre DEF Allowed, Comments
  <2>2. PICK p \in 1 .. Len(found) : found[p] = r
    BY <1>1, <1>3, <2>1
  <2>3. p < i
    BY <1>1, <1>3, <2>1, <2>2
  <2>4. Place(found, r) <= p /\ Place(found, r) \in Nat
    BY <1>1, <2>2, PlaceIs
  <2> QED  BY <2>3, <2>4
<1> QED  BY <1>2, <1>3 DEF NearestOfThePast

(* A share falls with the rank.                                            *)
LEMMA SharesFall ==
  ASSUME NEW c \in Nat, NEW a \in Nat \ {0}, NEW b \in Nat \ {0}
  PROVE  c \div a \in Nat /\ (a <= b => c \div a >= c \div b)
<1>1. /\ c \div a \in Int /\ c \div b \in Int
      /\ a * (c \div a) <= c /\ c < a * (c \div a) + a
      /\ b * (c \div b) <= c /\ c < b * (c \div b) + b
  OBVIOUS
<1>. DEFINE x == c \div a
            y == c \div b
<1> HIDE DEF x, y
<1>2. /\ x \in Int /\ y \in Int
      /\ a * x <= c /\ c < a * x + a /\ b * y <= c /\ c < b * y + b
  BY <1>1 DEF x, y
<1>3. x >= 0 /\ y >= 0
  <2>1. x < 0 => a * x + a <= 0
    BY <1>2
  <2>2. y < 0 => b * y + b <= 0
    BY <1>2
  <2> QED  BY <1>2, <2>1, <2>2
<1>4. ASSUME a <= b, x < y
      PROVE  FALSE
  <2>1. a * x + a <= a * y
    BY <1>2, <1>4
  <2>2. a * y <= b * y
    BY <1>2, <1>3, <1>4
  <2>3. a * x \in Int /\ a * y \in Int /\ b * y \in Int
    BY <1>2
  <2> QED  BY <1>2, <2>1, <2>2, <2>3
<1> QED  BY <1>2, <1>3, <1>4 DEF x, y

LEMMA ShareIs ==
  ASSUME NEW s, IsRanking(s), NEW r, NEW q
  PROVE  Share(s, r) \in Nat /\ (Place(s, r) <= Place(s, q) => Share(s, r) >= Share(s, q))
<1>. DEFINE n == Len(s)
            a == Place(s, r)
            b == Place(s, q)
<1>1. n \in Nat /\ a \in 1 .. n + 1 /\ b \in 1 .. n + 1
  BY RankingIs, PlaceIs
<1>2. /\ Share(s, r) = IF a > n THEN 0 ELSE Scale \div (RRF_K + a)
      /\ Share(s, q) = IF b > n THEN 0 ELSE Scale \div (RRF_K + b)
  BY DEF Share
<1> HIDE DEF n, a, b
<1>3. RRF_K + a \in Nat \ {0} /\ RRF_K + b \in Nat \ {0} /\ Scale \in Nat
  BY <1>1, BoundsTyped
<1>4. /\ Scale \div (RRF_K + a) \in Nat /\ Scale \div (RRF_K + b) \in Nat
      /\ RRF_K + a <= RRF_K + b => Scale \div (RRF_K + a) >= Scale \div (RRF_K + b)
  BY <1>3, SharesFall
<1>5. a <= b => RRF_K + a <= RRF_K + b
  BY <1>1, BoundsTyped
<1>6. Share(s, r) \in Nat
  BY <1>2, <1>4
<1>7. ASSUME a <= b PROVE Share(s, r) >= Share(s, q)
  <2>1. CASE b > n
    BY <1>2, <1>6, <2>1
  <2>2. CASE ~(b > n)
    <3>1. ~(a > n)
      BY <1>1, <1>7, <2>2
    <3> QED  BY <1>2, <1>4, <1>5, <1>7, <2>2, <3>1
  <2> QED  BY <2>1, <2>2
<1> QED  BY <1>6, <1>7 DEF a, b

(* The rows of the two rankings are in a strict order: those that weigh    *)
(* the same by where they appear first.                                    *)
LEMMA AppearanceIs ==
  ASSUME IsRanking(dense), IsRanking(lexical), NEW r \in Ranked, NEW q \in Ranked
  PROVE  /\ Appearance(r) \in Nat /\ Appearance(q) \in Nat
         /\ Appearance(r) = Appearance(q) => r = q
<1>. DEFINE n == Len(dense)
            m == Len(lexical)
            a == Place(dense, r)
            b == Place(dense, q)
            c == Place(lexical, r)
            d == Place(lexical, q)
<1>1. /\ n \in Nat /\ m \in Nat /\ a \in 1 .. n + 1 /\ b \in 1 .. n + 1
      /\ c \in 1 .. m + 1 /\ d \in 1 .. m + 1
      /\ a <= n => dense[a] = r
      /\ b <= n => dense[b] = q
      /\ c <= m => lexical[c] = r
      /\ d <= m => lexical[d] = q
  BY RankingIs, PlaceIs
<1>2. (a <= n \/ c <= m) /\ (b <= n \/ d <= m)
  <2>1. ASSUME NEW x \in Ranked
        PROVE  Place(dense, x) <= n \/ Place(lexical, x) <= m
    <3>1. CASE \E i \in 1 .. n : dense[i] = x
      <4>1. PICK i \in 1 .. n : dense[i] = x
        BY <3>1
      <4>2. Place(dense, x) <= i /\ Place(dense, x) \in Nat
        BY <1>1, <4>1, PlaceIs
      <4> QED  BY <1>1, <4>2
    <3>2. CASE \E i \in 1 .. m : lexical[i] = x
      <4>1. PICK i \in 1 .. m : lexical[i] = x
        BY <3>2
      <4>2. Place(lexical, x) <= i /\ Place(lexical, x) \in Nat
        BY <1>1, <4>1, PlaceIs
      <4> QED  BY <1>1, <4>2
    <3> QED  BY <2>1, <3>1, <3>2 DEF Ranked
  <2> QED  BY <2>1
<1>3. /\ Appearance(r) = IF a <= n THEN a ELSE n + c
      /\ Appearance(q) = IF b <= n THEN b ELSE n + d
  BY DEF Appearance
<1> HIDE DEF n, m, a, b, c, d
<1>4. Appearance(r) \in Nat /\ Appearance(q) \in Nat
  BY <1>1, <1>3
<1>5. ASSUME Appearance(r) = Appearance(q) PROVE r = q
  <2>1. CASE a <= n /\ b <= n
    BY <1>1, <1>3, <1>5, <2>1
  <2>2. CASE ~(a <= n) /\ ~(b <= n)
    BY <1>1, <1>2, <1>3, <1>5, <2>2
  <2>3. CASE a <= n /\ ~(b <= n)
    BY <1>1, <1>3, <1>5, <2>3
  <2>4. CASE ~(a <= n) /\ b <= n
    BY <1>1, <1>3, <1>5, <2>4
  <2> QED  BY <2>1, <2>2, <2>3, <2>4
<1> QED  BY <1>4, <1>5

LEMMA WeightsTyped ==
  ASSUME IsRanking(dense), IsRanking(lexical), NEW r
  PROVE  Weight(r) \in Nat
<1>1. Share(dense, r) \in Nat /\ Share(lexical, r) \in Nat
  BY ShareIs
<1> QED  BY <1>1 DEF Weight

AheadPairs == {p \in Ranked \X Ranked : Ahead(p[1], p[2])}

LEMMA AheadOrders ==
  ASSUME IsRanking(dense), IsRanking(lexical)
  PROVE  Orders(AheadPairs, Ranked)
<1>1. \A r, q \in Ranked : <<r, q>> \in AheadPairs <=> Ahead(r, q)
  BY DEF AheadPairs
<1>2. \A r, q \in Ranked : /\ Appearance(r) \in Nat /\ Weight(r) \in Nat
                           /\ Appearance(r) = Appearance(q) => r = q
  BY AppearanceIs, WeightsTyped
<1>3. \A i \in Ranked : ~Ahead(i, i)
  BY <1>2 DEF Ahead
<1>4. ASSUME NEW i \in Ranked, NEW j \in Ranked, NEW k \in Ranked, Ahead(i, j), Ahead(j, k)
      PROVE  Ahead(i, k)
  <2>1. /\ Weight(i) \in Nat /\ Weight(j) \in Nat /\ Weight(k) \in Nat
        /\ Appearance(i) \in Nat /\ Appearance(j) \in Nat /\ Appearance(k) \in Nat
    BY <1>2
  <2> QED  BY <1>4, <2>1 DEF Ahead
<1>5. ASSUME NEW i \in Ranked, NEW j \in Ranked
      PROVE  i = j \/ Ahead(i, j) \/ Ahead(j, i)
  <2>1. /\ Weight(i) \in Nat /\ Weight(j) \in Nat
        /\ Appearance(i) \in Nat /\ Appearance(j) \in Nat
        /\ Appearance(i) = Appearance(j) => i = j
    BY <1>2
  <2> QED  BY <2>1 DEF Ahead
<1> QED  BY <1>1, <1>3, <1>4, <1>5 DEF Orders

(* The inductive part of the fusion.                                       *)
Fused == IsRanking(dense) /\ IsRanking(lexical) /\ fused = Prefix(Fusion, FUSION_DEPTH)

LEMMA FusionIs == Fused => IsRanking(fused) /\ FusionAgrees
<1>. SUFFICES ASSUME Fused PROVE IsRanking(fused) /\ FusionAgrees
  OBVIOUS
<1>. DEFINE N == Cardinality(Ranked)
            n == Least(FUSION_DEPTH, N)
            s == Fusion
<1>1. IsRanking(dense) /\ IsRanking(lexical) /\ fused = Prefix(s, FUSION_DEPTH)
  BY DEF Fused
<1>2. Ranked \subseteq Rows
  BY <1>1, RankingIs DEF Ranked
<1>3. IsFiniteSet(Ranked) /\ N \in Nat
  BY <1>2, RowsAre, FS_Subset, FS_CardinalityType
<1>4. /\ s \in [1 .. N -> Ranked]
      /\ \A r \in Ranked : \E i \in 1 .. N : s[i] = r
      /\ \A i, j \in 1 .. N : i < j => <<s[i], s[j]>> \in AheadPairs
      /\ \A i, j \in 1 .. N : s[i] = s[j] => i = j
  <2>1. s = InOrder(Ranked, AheadPairs)
    BY DEF Fusion, AheadPairs
  <2>2. Orders(AheadPairs, Ranked)
    BY <1>1, AheadOrders
  <2> HIDE DEF s
  <2> QED  BY <1>3, <2>1, <2>2, ListedInOrder
<1> HIDE DEF N, s
<1>5. Len(s) = N
  BY <1>3, <1>4
<1>6. n \in Nat /\ n <= N
  BY <1>3, BoundsTyped DEF Least
<1>7. fused = [i \in 1 .. n |-> s[i]]
  BY <1>1, <1>5 DEF Prefix
<1> HIDE DEF n
<1>8. Len(fused) = n /\ \A i \in 1 .. n : i \in 1 .. N /\ fused[i] = s[i] /\ s[i] \in Ranked
  BY <1>3, <1>4, <1>6, <1>7
<1>9. fused \in [1 .. n -> Rows]
  BY <1>2, <1>7, <1>8
<1>10. fused \in Seq(Rows)
  BY <1>6, <1>9
<1>11. \A i, j \in 1 .. n : fused[i] = fused[j] => i = j
  BY <1>4, <1>8
<1>12. IsRanking(fused)
  BY <1>8, <1>10, <1>11 DEF IsRanking
<1>13. ASSUME NEW r \in Rows, NEW q \in Rows,
              Place(dense, r) <= Place(dense, q), Place(lexical, r) < Place(lexical, q),
              Place(fused, q) <= Len(fused)
       PROVE  Place(fused, r) < Place(fused, q)
  <2>. DEFINE j == Place(fused, q)
              a == Place(dense, r)
              b == Place(dense, q)
              c == Place(lexical, r)
              d == Place(lexical, q)
              L == Len(dense)
              M == Len(lexical)
  <2>1. j \in 1 .. n /\ fused[j] = q
    BY <1>6, <1>8, <1>13, PlaceIs
  <2>2. j \in 1 .. N /\ s[j] = q /\ q \in Ranked
    <3> HIDE DEF j
    <3> QED  BY <1>8, <2>1
  <2>3. /\ L \in Nat /\ M \in Nat /\ a \in 1 .. L + 1 /\ b \in 1 .. L + 1
        /\ c \in 1 .. M + 1 /\ d \in 1 .. M + 1
        /\ c <= M => lexical[c] = r
    BY <1>1, RankingIs, PlaceIs
  <2>4. a <= b /\ c < d
    BY <1>13
  <2>5. /\ Share(dense, r) >= Share(dense, q) /\ Share(lexical, r) >= Share(lexical, q)
        /\ Share(dense, r) \in Nat /\ Share(dense, q) \in Nat
        /\ Share(lexical, r) \in Nat /\ Share(lexical, q) \in Nat
    <3>1. Place(lexical, r) <= Place(lexical, q)
      BY <2>3, <2>4
    <3> QED  BY <1>1, <1>13, <3>1, ShareIs
  <2>6. Weight(r) >= Weight(q)
    BY <2>5 DEF Weight
  <2>7. /\ Appearance(r) = IF a <= L THEN a ELSE L + c
        /\ Appearance(q) = IF b <= L THEN b ELSE L + d
    BY DEF Appearance
  <2>8. r \in Ranked
    <3> HIDE DEF c, d, M
    <3>1. c \in 1 .. M /\ lexical[c] = r
      BY <2>3, <2>4
    <3> QED  BY <3>1 DEF Ranked, M
  <2>9. r # q
    <3>1. ASSUME r = q PROVE c = d
      BY <3>1
    <3> HIDE DEF c, d
    <3> QED  BY <2>3, <2>4, <3>1
  <2>10. Appearance(r) <= Appearance(q)
    <3> HIDE DEF a, b, c, d, L, M
    <3> QED  BY <2>3, <2>4, <2>7
  <2>11. /\ Appearance(r) \in Nat /\ Appearance(q) \in Nat /\ Appearance(r) # Appearance(q)
         /\ Weight(r) \in Nat /\ Weight(q) \in Nat
    BY <1>1, <2>2, <2>8, <2>9, AppearanceIs, WeightsTyped
  <2>12. ~Ahead(q, r)
    BY <2>6, <2>10, <2>11 DEF Ahead
  <2>13. PICK i \in 1 .. N : s[i] = r
    BY <1>4, <2>8
  <2>14. ~(j < i)
    <3> HIDE DEF j
    <3>1. j < i => <<q, r>> \in AheadPairs
      BY <1>4, <2>2, <2>13
    <3> QED  BY <2>12, <3>1 DEF AheadPairs
  <2>15. i # j
    BY <2>2, <2>9, <2>13
  <2>16. i < j /\ i \in 1 .. n
    <3> HIDE DEF j
    <3> QED  BY <1>3, <1>6, <2>1, <2>2, <2>14, <2>15
  <2>17. fused[i] = r
    BY <1>8, <2>13, <2>16
  <2>18. Place(fused, r) <= i /\ Place(fused, r) \in Nat
    BY <1>6, <1>8, <2>16, <2>17, PlaceIs
  <2> HIDE DEF j
  <2>19. Place(fused, r) < j
    BY <2>1, <2>16, <2>18
  <2> QED  BY <2>19 DEF j
<1>14. FusionAgrees
  BY <1>13 DEF FusionAgrees
<1> QED  BY <1>12, <1>14

(* A cross-encoder's order over the first candidates is of those alone.    *)
LEMMA OnlyReordered ==
  ASSUME IsRanking(fused), NEW cross \in [1 .. Len(fused) -> 0 .. MaxScore],
         NEW depth \in Nat
  PROVE  /\ IsRanking(Reordered(depth, cross))
         /\ {Reordered(depth, cross)[i] : i \in 1 .. Len(Reordered(depth, cross))}
              = {fused[i] : i \in 1 .. Least(depth, Len(fused))}
<1>. DEFINE n == Least(depth, Len(fused))
            R == BestFirst(1 .. n, cross)
            order == Sorted(1 .. n, cross)
            t == Reordered(depth, cross)
<1>1. /\ Len(fused) \in Nat /\ fused \in [1 .. Len(fused) -> Rows]
      /\ \A i, j \in 1 .. Len(fused) : fused[i] = fused[j] => i = j
  BY RankingIs
<1>2. n \in Nat /\ n <= Len(fused)
  BY <1>1 DEF Least
<1>3. t = [i \in 1 .. n |-> fused[order[i]]]
  BY DEF Reordered
<1> HIDE DEF n
<1>4. IsFiniteSet(1 .. n) /\ Cardinality(1 .. n) = n
  <2>1. Cardinality(1 .. n) = (IF 1 > n THEN 0 ELSE n - 1 + 1) /\ IsFiniteSet(1 .. n)
    BY <1>2, FS_Interval
  <2> QED  BY <1>2, <2>1
<1>5. Orders(R, 1 .. n)
  <2>1. 1 .. n \in SUBSET Nat
    BY <1>2
  <2>2. \A i \in 1 .. n : cross[i] \in Nat
    BY <1>1, <1>2, BoundsTyped
  <2> QED  BY <2>1, <2>2, BestFirstOrders
<1>6. /\ order \in [1 .. n -> 1 .. n]
      /\ \A r \in 1 .. n : \E i \in 1 .. n : order[i] = r
      /\ \A i, j \in 1 .. n : order[i] = order[j] => i = j
  <2>1. order = InOrder(1 .. n, R)
    BY DEF Sorted
  <2> HIDE DEF R, order
  <2> QED  BY <1>4, <1>5, <2>1, ListedInOrder
<1> HIDE DEF order, R, t
<1>7. \A i \in 1 .. n : /\ order[i] \in 1 .. n /\ order[i] \in 1 .. Len(fused)
                        /\ t[i] = fused[order[i]] /\ t[i] \in Rows
  BY <1>1, <1>2, <1>3, <1>6
<1>8. Len(t) = n
  BY <1>2, <1>3
<1>9. t \in [1 .. n -> Rows]
  BY <1>3, <1>7
<1>10. t \in Seq(Rows)
  BY <1>2, <1>9
<1>11. \A i, j \in 1 .. n : t[i] = t[j] => i = j
  BY <1>1, <1>6, <1>7
<1>12. IsRanking(t)
  BY <1>8, <1>10, <1>11 DEF IsRanking
<1>13. {t[i] : i \in 1 .. n} = {fused[i] : i \in 1 .. n}
  <2>1. ASSUME NEW i \in 1 .. n PROVE t[i] \in {fused[p] : p \in 1 .. n}
    BY <1>7
  <2>2. ASSUME NEW p \in 1 .. n PROVE fused[p] \in {t[i] : i \in 1 .. n}
    <3>1. PICK i \in 1 .. n : order[i] = p
      BY <1>6
    <3> QED  BY <1>7, <3>1
  <2> QED  BY <2>1, <2>2
<1> QED  BY <1>8, <1>12, <1>13 DEF t, n

(* What holds of the searches: the two rankings are of the best, the       *)
(* fusion is that of the two lists, and each depth has its own prefix.     *)
SearchInv ==
  /\ SearchTypeOK
  /\ asked \in {"searched", "fused", "reranked"} =>
       /\ repository \notin Holdout
       /\ IsTop(found, Allowed) /\ Len(found) = Least(K, Cardinality(Allowed))
       /\ IsTop(deepest, Rows) /\ Len(deepest) = Least(Max(Budgets), Cardinality(Rows))
  /\ asked \in {"fused", "reranked"} => FusionAgrees
  /\ asked = "reranked" => OnlyReorders

LEMMA TopIsRanking ==
  ASSUME NEW A \in SUBSET Rows, NEW s, IsTop(s, A)
  PROVE  IsRanking(s)
<1>1. Len(s) \in Nat /\ s \in [1 .. Len(s) -> Rows]
  BY DEF IsTop
<1>2. s \in Seq(Rows)
  BY <1>1
<1> QED  BY <1>2 DEF IsTop, IsRanking

LEMMA EmptyIsRanking == IsRanking(<<>>) /\ DOMAIN <<>> = {}
<1>1. <<>> \in Seq(Rows) /\ Len(<<>>) = 0
  OBVIOUS
<1>2. 1 .. 0 = {} /\ DOMAIN <<>> = {}
  OBVIOUS
<1> QED  BY <1>1, <1>2 DEF IsRanking

LEMMA SearchInvInit == ASSUME SearchInit PROVE SearchInv
<1>1. before \in Nat
  <2>1. PICK r \in Rows : before = Documents[r].number
    BY DEF SearchInit
  <2> QED  BY <2>1, NumbersTyped
<1>2. SearchTypeOK
  BY <1>1, EmptyIsRanking DEF SearchInit, SearchTypeOK
<1> QED  BY <1>2 DEF SearchInit, SearchInv

LEMMA SearchesKeepInv == ASSUME SearchInv, SearchComments PROVE SearchInv'
<1>1. SearchTypeOK /\ ScoresTyped
  BY DEF SearchInv, SearchTypeOK, ScoresTyped
<1>2. Allowed \in SUBSET Rows /\ Rows \in SUBSET Rows
  BY DEF Allowed, Comments
<1>3. K \in Nat /\ Max(Budgets) \in Nat
  BY BoundsTyped, DeepestBudget
<1>4. IsTop(found', Allowed) /\ Len(found') = Least(K, Cardinality(Allowed))
  <2>1. found' \in TopK(K, Allowed)
    BY DEF SearchComments
  <2> QED  BY <1>1, <1>2, <1>3, <2>1, TopKIsTop
<1>5. IsTop(deepest', Rows) /\ Len(deepest') = Least(Max(Budgets), Cardinality(Rows))
  <2>1. deepest' \in TopK(Max(Budgets), Rows)
    BY DEF SearchComments
  <2> QED  BY <1>1, <1>2, <1>3, <2>1, TopKIsTop
<1>6. /\ asked' = "searched" /\ repository \notin Holdout
      /\ UNCHANGED <<repository, scores, before, dense, lexical, fused, reranked>>
  BY DEF SearchComments
<1>7. IsRanking(found') /\ IsRanking(deepest')
  BY <1>2, <1>4, <1>5, TopIsRanking
<1>8. SearchTypeOK'
  BY <1>1, <1>6, <1>7 DEF SearchTypeOK
<1>9. Allowed' = Allowed
  BY <1>6 DEF Allowed
<1>10. IsTop(found, Allowed)' /\ IsTop(deepest, Rows)'
  BY <1>4, <1>5, <1>6, <1>9 DEF IsTop
<1> QED  BY <1>4, <1>5, <1>6, <1>8, <1>9, <1>10 DEF SearchInv

LEMMA FrameOfFound ==
  ASSUME SearchInv, UNCHANGED <<repository, scores, before, found, deepest>>,
         asked \in {"searched", "fused", "reranked"}
  PROVE  /\ repository' \notin Holdout
         /\ IsTop(found, Allowed)' /\ Len(found') = Least(K, Cardinality(Allowed'))
         /\ IsTop(deepest, Rows)' /\ Len(deepest') = Least(Max(Budgets), Cardinality(Rows))
<1>1. Allowed' = Allowed
  BY DEF Allowed
<1>2. /\ IsTop(found, Allowed) /\ Len(found) = Least(K, Cardinality(Allowed))
      /\ IsTop(deepest, Rows) /\ Len(deepest) = Least(Max(Budgets), Cardinality(Rows))
      /\ repository \notin Holdout
  BY DEF SearchInv
<1>3. IsTop(found, Allowed)' /\ IsTop(deepest, Rows)'
  BY <1>1, <1>2 DEF IsTop
<1> QED  BY <1>1, <1>2, <1>3

LEMMA FuseKeepsInv == ASSUME SearchInv, Fuse PROVE SearchInv'
<1>1. SearchTypeOK /\ ScoresTyped
  BY DEF SearchInv, SearchTypeOK, ScoresTyped
<1>2. /\ asked = "searched" /\ asked' = "fused"
      /\ UNCHANGED <<repository, scores, before, found, deepest, reranked>>
      /\ IsRanking(lexical') /\ fused' = Prefix(Fusion', FUSION_DEPTH)
      /\ dense' \in TopK(FUSION_DEPTH, Rows)
  BY DEF Fuse
<1>3. IsRanking(dense')
  <2>1. Rows \in SUBSET Rows /\ FUSION_DEPTH \in Nat
    BY BoundsTyped
  <2>2. IsTop(dense', Rows)
    BY <1>1, <1>2, <2>1, TopKIsTop
  <2> QED  BY <2>1, <2>2, TopIsRanking
<1>4. Fused'
  BY <1>2, <1>3 DEF Fused, IsRanking
<1>5. (Fused => IsRanking(fused) /\ FusionAgrees)'
  BY FusionIs, PTL
<1>6. IsRanking(fused') /\ FusionAgrees'
  BY <1>4, <1>5 DEF IsRanking
<1>7. SearchTypeOK'
  BY <1>1, <1>2, <1>3, <1>6 DEF SearchTypeOK
<1>8. /\ repository' \notin Holdout
      /\ IsTop(found, Allowed)' /\ Len(found') = Least(K, Cardinality(Allowed'))
      /\ IsTop(deepest, Rows)' /\ Len(deepest') = Least(Max(Budgets), Cardinality(Rows))
  BY <1>2, FrameOfFound
<1> QED  BY <1>2, <1>6, <1>7, <1>8 DEF SearchInv

LEMMA RerankKeepsInv == ASSUME SearchInv, Rerank PROVE SearchInv'
<1>1. SearchTypeOK /\ FusionAgrees
  BY DEF SearchInv, Rerank
<1>2. /\ asked = "fused" /\ asked' = "reranked"
      /\ UNCHANGED <<repository, scores, before, found, deepest, dense, lexical, fused>>
  BY DEF Rerank
<1>3. PICK cross \in [1 .. Len(fused) -> 0 .. MaxScore] :
        reranked' = [d \in Budgets |-> Reordered(d, cross)]
  BY DEF Rerank
<1>4. IsRanking(fused)
  BY <1>1 DEF SearchTypeOK
<1>5. ASSUME NEW d \in Budgets
      PROVE  /\ reranked'[d] = Reordered(d, cross) /\ IsRanking(reranked'[d])
             /\ {reranked'[d][i] : i \in 1 .. Len(reranked'[d])}
                  = {fused[i] : i \in 1 .. Least(d, Len(fused))}
  <2>1. reranked'[d] = Reordered(d, cross)
    BY <1>3
  <2>2. d \in Nat
    BY BoundsTyped
  <2>3. /\ IsRanking(Reordered(d, cross))
        /\ {Reordered(d, cross)[i] : i \in 1 .. Len(Reordered(d, cross))}
             = {fused[i] : i \in 1 .. Least(d, Len(fused))}
    BY <1>4, <2>2, OnlyReordered
  <2> QED  BY <2>1, <2>3, Zenon
<1>6. DOMAIN reranked' = Budgets
  BY <1>3
<1>7. SearchTypeOK'
  BY <1>1, <1>2, <1>5, <1>6 DEF SearchTypeOK
<1>8. OnlyReorders'
  BY <1>2, <1>5 DEF OnlyReorders
<1>9. FusionAgrees'
  BY <1>1, <1>2 DEF FusionAgrees
<1>10. /\ repository' \notin Holdout
       /\ IsTop(found, Allowed)' /\ Len(found') = Least(K, Cardinality(Allowed'))
       /\ IsTop(deepest, Rows)' /\ Len(deepest') = Least(Max(Budgets), Cardinality(Rows))
  BY <1>2, FrameOfFound
<1> QED  BY <1>2, <1>7, <1>8, <1>9, <1>10 DEF SearchInv

LEMMA SearchInvNext == ASSUME SearchInv, [SearchNext]_searchVars PROVE SearchInv'
<1>1. CASE Refuse
  BY <1>1 DEF Refuse, rankings, SearchInv, SearchTypeOK
<1>2. CASE SearchComments
  BY <1>2, SearchesKeepInv
<1>3. CASE Fuse
  BY <1>3, FuseKeepsInv
<1>4. CASE Rerank
  BY <1>4, RerankKeepsInv
<1>5. CASE UNCHANGED searchVars
  <2>1. /\ UNCHANGED <<repository, scores, before, asked>>
        /\ UNCHANGED <<found, deepest, dense, lexical, fused, reranked>>
    BY <1>5 DEF searchVars, rankings
  <2>2. SearchTypeOK'
    BY <2>1 DEF SearchInv, SearchTypeOK
  <2>3. FusionAgrees' = FusionAgrees /\ OnlyReorders' = OnlyReorders
    BY <2>1 DEF FusionAgrees, OnlyReorders
  <2> QED  BY <2>1, <2>2, <2>3, FrameOfFound DEF SearchInv
<1> QED  BY <1>1, <1>2, <1>3, <1>4, <1>5 DEF SearchNext

(* For every corpus, holdout, budgets and depths: the two searches are of  *)
(* the best rows, and what is fused and reranked is what was found         *)
(* (CommentIndex.search, top_k, reciprocal_rank_fusion, rerank_plateau).   *)
THEOREM SearchInvariant == SearchSpec => []SearchInv
<1>1. SearchInit => SearchInv
  BY SearchInvInit
<1>2. SearchInv /\ [SearchNext]_searchVars => SearchInv'
  BY SearchInvNext
<1> QED  BY <1>1, <1>2, PTL DEF SearchSpec

(* A pull request sees the nearest comments of earlier ones and no other,  *)
(* whatever ties, and filtering afterwards, fusing and reranking lose and  *)
(* reorder only what they say (review/retrieve.py, eval/recall.py).        *)
THEOREM OnlyThePast == SearchSpec => []PastOnly
<1>1. SearchInv => PastOnly
  <2>. SUFFICES ASSUME SearchInv PROVE PastOnly
    OBVIOUS
  <2>1. SearchTypeOK
    BY DEF SearchInv
  <2>2. ScoresTyped /\ before \in Nat
    BY <2>1 DEF SearchTypeOK, ScoresTyped
  <2>3. ASSUME asked \in {"searched", "fused", "reranked"}
        PROVE  repository \notin Holdout /\ NearestOfThePast /\ FilteringLosesTheRest
    <3>1. /\ repository \notin Holdout
          /\ IsTop(found, Allowed) /\ Len(found) = Least(K, Cardinality(Allowed))
          /\ IsTop(deepest, Rows) /\ Len(deepest) = Least(Max(Budgets), Cardinality(Rows))
      BY <2>3 DEF SearchInv
    <3>2. NearestOfThePast
      BY <2>2, <3>1, NearestFound
    <3>3. FilteringLosesTheRest
      BY <2>2, <3>1, FilterLoses
    <3> QED  BY <3>1, <3>2, <3>3
  <2>4. /\ asked \in {"fused", "reranked"} => FusionAgrees
        /\ asked = "reranked" => OnlyReorders
    BY DEF SearchInv
  <2> QED  BY <2>3, <2>4 DEF PastOnly
<1> QED  BY <1>1, SearchInvariant, PTL
=============================================================================
