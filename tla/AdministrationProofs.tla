-------------------------- MODULE AdministrationProofs --------------------------
(***************************************************************************)
(* Theorems about RechargePlans, for any number of plans and edits, about  *)
(* Startup, for any number of processes and of migrations, and about       *)
(* RuntimeSettings, for any number of tasks, providers, workers and        *)
(* updates and any bounds of the settings. The module that puts the three  *)
(* side by side inherits their types and their invariants.                 *)
(***************************************************************************)
EXTENDS MCAdministration, FiniteSetTheorems, SequenceTheorems, TLAPS

----------------------------------------------------------------------------
(***************************************************************************)
(* Startup                                                                 *)
(***************************************************************************)
USE ShippedAssumption, MigrateAssumption, FailuresAssumption

\* A process in the transaction of a migration was shipped with it.
Migrating ==
  \A p \in Processes : pc[p] \in {"exec", "insert", "commit"} => next[p] <= Shipped[p]

\* A process that has recorded a version and not committed it is the only one.
Recording ==
  \A p \in Processes : pc[p] = "commit" =>
    /\ next[p] \notin applied
    /\ \A q \in Processes : pc[q] = "commit" /\ next[q] = next[p] => q = p

\* What a process has passed is applied.
Passed ==
  \A p \in Processes : pc[p] # "down" =>
    \A m \in Versions : m < next[p] => m \in applied

\* A process that migrates and serves has passed all that it was shipped with.
Serving == \A p \in AutoMigrate : pc[p] = "up" => next[p] > Shipped[p]

\* Applied migrations have no gap before them.
NoGap == \A m \in applied : \A n \in Versions : n < m => n \in applied

StartupTypeInv == StartupTypeOK /\ Migrating
OnceInv == StartupTypeInv /\ Recording /\ AppliedOnce
SchemaInv == StartupTypeInv /\ Passed /\ Serving /\ NoGap

----------------------------------------------------------------------------
LEMMA VersionRange ==
  /\ Versions \subseteq Nat \ {0}
  /\ \A p \in Processes : \A n \in Nat \ {0} : n <= Shipped[p] => n \in Versions
BY DEF Versions

LEMMA StartupTypeInit == StartupInit => StartupTypeInv
BY VersionRange DEF StartupInit, StartupTypeInv, StartupTypeOK, Migrating

LEMMA StartupTypeStep == StartupTypeInv /\ [StartupNext]_startupVars => StartupTypeInv'
<1> SUFFICES ASSUME StartupTypeInv, [StartupNext]_startupVars PROVE StartupTypeInv'
  OBVIOUS
<1> USE VersionRange DEF StartupTypeInv, StartupTypeOK, Migrating
<1>1. CASE UNCHANGED startupVars
  BY <1>1 DEF startupVars
<1>2. ASSUME NEW p \in Processes, Boot(p) PROVE StartupTypeInv'
  BY <1>2 DEF Boot
<1>3. ASSUME NEW p \in Processes, Check(p) PROVE StartupTypeInv'
  BY <1>3 DEF Check
<1>4. ASSUME NEW p \in Processes, Exec(p) PROVE StartupTypeInv'
  BY <1>4 DEF Exec
<1>5. ASSUME NEW p \in Processes, ExecFails(p) PROVE StartupTypeInv'
  BY <1>5 DEF ExecFails, GiveUp
<1>6. ASSUME NEW p \in Processes, InsertVersion(p) PROVE StartupTypeInv'
  BY <1>6 DEF InsertVersion, GiveUp
<1>7. ASSUME NEW p \in Processes, Commit(p) PROVE StartupTypeInv'
  <2>1. next[p] \in Versions /\ next[p] + 1 \in Nat \ {0}
    BY <1>7 DEF Commit
  <2>2. effects' \in [Versions -> Nat] /\ applied' \subseteq Versions
    <3>1. effects' = [effects EXCEPT ![next[p]] = @ + 1] /\ effects[next[p]] + 1 \in Nat
      BY <1>7, <2>1 DEF Commit
    <3>2. effects' \in [Versions -> Nat]
      BY <3>1
    <3>3. applied' \subseteq Versions
      BY <1>7, <2>1 DEF Commit
    <3> QED
      BY <3>2, <3>3
  <2>3. next' \in [Processes -> Nat \ {0}] /\ Migrating'
    BY <1>7, <2>1 DEF Commit
  <2> QED
    BY <1>7, <2>2, <2>3 DEF Commit
<1>8. ASSUME NEW p \in Processes, Serve(p) PROVE StartupTypeInv'
  BY <1>8 DEF Serve
<1>9. ASSUME NEW p \in Processes, Fail(p) PROVE StartupTypeInv'
  BY <1>9 DEF Fail, GiveUp
<1> QED
  BY <1>1, <1>2, <1>3, <1>4, <1>5, <1>6, <1>7, <1>8, <1>9 DEF StartupNext, ProcessStep

\* Every variable keeps its type, and only shipped migrations are applied.
THEOREM StartupTypeCorrect == StartupSpec => []StartupTypeOK
<1>1. StartupTypeInv => StartupTypeOK
  BY DEF StartupTypeInv
<1> QED
  BY <1>1, StartupTypeInit, StartupTypeStep, PTL DEF StartupSpec

----------------------------------------------------------------------------
\* Only a commit records a version or lets statements take effect.
LEMMA OnceStep == OnceInv /\ [StartupNext]_startupVars => OnceInv'
<1> SUFFICES ASSUME OnceInv, [StartupNext]_startupVars PROVE OnceInv'
  OBVIOUS
<1>t. StartupTypeInv /\ StartupTypeInv'
  BY StartupTypeStep DEF OnceInv
<1> SUFFICES Recording' /\ AppliedOnce'
  BY <1>t DEF OnceInv
<1> USE VersionRange, <1>t DEF OnceInv, StartupTypeInv, StartupTypeOK, Migrating, Recording, AppliedOnce
<1>1. CASE UNCHANGED startupVars
  BY <1>1 DEF startupVars
<1>2. ASSUME NEW p \in Processes, Boot(p) PROVE Recording' /\ AppliedOnce'
  BY <1>2 DEF Boot
<1>3. ASSUME NEW p \in Processes, Check(p) PROVE Recording' /\ AppliedOnce'
  BY <1>3 DEF Check
<1>4. ASSUME NEW p \in Processes, Exec(p) PROVE Recording' /\ AppliedOnce'
  BY <1>4 DEF Exec
<1>5. ASSUME NEW p \in Processes, ExecFails(p) PROVE Recording' /\ AppliedOnce'
  BY <1>5 DEF ExecFails, GiveUp
<1>6. ASSUME NEW p \in Processes, InsertVersion(p) PROVE Recording' /\ AppliedOnce'
  \* nobody else has inserted the version, and it is not applied
  BY <1>6 DEF InsertVersion, Inserted, GiveUp
<1>7. ASSUME NEW p \in Processes, Commit(p) PROVE Recording' /\ AppliedOnce'
  <2>1. next[p] \in Versions /\ next[p] \notin applied
    BY <1>7 DEF Commit
  <2>2. AppliedOnce'
    BY <1>7, <2>1 DEF Commit
  <2>3. Recording'
    BY <1>7 DEF Commit
  <2> QED
    BY <2>2, <2>3
<1>8. ASSUME NEW p \in Processes, Serve(p) PROVE Recording' /\ AppliedOnce'
  BY <1>8 DEF Serve
<1>9. ASSUME NEW p \in Processes, Fail(p) PROVE Recording' /\ AppliedOnce'
  BY <1>9 DEF Fail, GiveUp
<1> QED
  BY <1>1, <1>2, <1>3, <1>4, <1>5, <1>6, <1>7, <1>8, <1>9 DEF StartupNext, ProcessStep

\* However many processes migrate together and crash, a migration takes effect
\* exactly as often as its version is recorded.
THEOREM MigratedOnce == StartupSpec => []AppliedOnce
<1>1. StartupInit => OnceInv
  BY StartupTypeInit DEF StartupInit, OnceInv, Recording, AppliedOnce
<1>2. OnceInv => AppliedOnce
  BY DEF OnceInv
<1> QED
  BY <1>1, <1>2, OnceStep, PTL DEF StartupSpec

----------------------------------------------------------------------------
\* A process goes past a migration only when it is applied.
LEMMA SchemaStep == SchemaInv /\ [StartupNext]_startupVars => SchemaInv'
<1> SUFFICES ASSUME SchemaInv, [StartupNext]_startupVars PROVE SchemaInv'
  OBVIOUS
<1>t. StartupTypeInv /\ StartupTypeInv'
  BY StartupTypeStep DEF SchemaInv
<1> DEFINE Goal == Passed' /\ Serving' /\ NoGap'
<1> SUFFICES Goal
  BY <1>t DEF SchemaInv
<1> USE VersionRange, <1>t DEF SchemaInv, StartupTypeInv, StartupTypeOK, Passed, Serving, NoGap
<1>1. CASE UNCHANGED startupVars
  BY <1>1 DEF startupVars
<1>2. ASSUME NEW p \in Processes, Boot(p) PROVE Goal
  BY <1>2 DEF Boot
<1>3. ASSUME NEW p \in Processes, Check(p) PROVE Goal
  BY <1>3 DEF Check
<1>4. ASSUME NEW p \in Processes, Exec(p) PROVE Goal
  BY <1>4 DEF Exec
<1>5. ASSUME NEW p \in Processes, ExecFails(p) PROVE Goal
  BY <1>5 DEF ExecFails, GiveUp
<1>6. ASSUME NEW p \in Processes, InsertVersion(p) PROVE Goal
  BY <1>6 DEF InsertVersion, GiveUp
<1>7. ASSUME NEW p \in Processes, Commit(p) PROVE Goal
  <2>1. /\ pc[p] = "commit"
        /\ applied' = applied \cup {next[p]}
        /\ next[p] \in Nat
    BY <1>7 DEF Commit
  <2>2. Passed'
    BY <1>7, <2>1 DEF Commit
  <2>3. Serving'
    BY <1>7 DEF Commit
  <2>4. NoGap'
    BY <2>1
  <2> QED
    BY <2>2, <2>3, <2>4
<1>8. ASSUME NEW p \in Processes, Serve(p) PROVE Goal
  BY <1>8 DEF Serve
<1>9. ASSUME NEW p \in Processes, Fail(p) PROVE Goal
  BY <1>9 DEF Fail, GiveUp
<1> QED
  BY <1>1, <1>2, <1>3, <1>4, <1>5, <1>6, <1>7, <1>8, <1>9 DEF StartupNext, ProcessStep

LEMMA SchemaIsServed == SchemaInv => ServedSchema
<1> SUFFICES ASSUME SchemaInv PROVE ServedSchema
  OBVIOUS
<1> USE DEF SchemaInv, StartupTypeInv, StartupTypeOK
<1>1. ASSUME NEW m \in applied PROVE 1 .. m \subseteq applied
  <2>1. PICK p \in Processes : m \in 1 .. Shipped[p]
    BY <1>1 DEF Versions
  <2>2. \A n \in 1 .. m : n \in Versions /\ (n < m \/ n = m)
    BY <2>1, VersionRange
  <2> QED
    BY <1>1, <2>2 DEF NoGap
<1>2. ASSUME NEW p \in AutoMigrate, pc[p] = "up" PROVE 1 .. Shipped[p] \subseteq applied
  BY <1>2, VersionRange DEF Passed, Serving
<1> QED
  BY <1>1, <1>2 DEF ServedSchema

\* Migrations are applied without gaps, and a process that applies them serves only
\* when all it was shipped with are.
THEOREM SchemaServed == StartupSpec => []ServedSchema
<1>1. StartupInit => SchemaInv
  BY StartupTypeInit DEF StartupInit, SchemaInv, Passed, Serving, NoGap
<1> QED
  BY <1>1, SchemaIsServed, SchemaStep, PTL DEF StartupSpec

----------------------------------------------------------------------------
(***************************************************************************)
(* RechargePlans                                                           *)
(***************************************************************************)

USE PlanAssumption, BodyAssumption

\* The row an edit writes
Own(e) == body[e].plan

\* No plan is removed.
Kept == Migrated \subseteq DOMAIN isDefault

\* An edit that makes a plan the default one sees every plan that was migrated,
\* and holds its row once its UPDATE has passed it.
Clearing ==
  \A e \in Edits : \A p \in Migrated \ {Own(e)} :
    /\ edit[e] = "clear" => p \in todo[e] \/ holder[p] = e
    /\ edit[e] \in {"upsert", "commit"} /\ body[e].isDefault => holder[p] = e

AtMostOne ==
  \A p, q \in Migrated : isDefault[p] /\ isDefault[q] => p = q

DefaultInv == PlansTypeOK /\ Kept /\ Clearing /\ AtMostOne

----------------------------------------------------------------------------
LEMMA BodyType ==
  ASSUME PlansTypeOK, NEW e \in Edits
  PROVE  Own(e) \in Plans /\ body[e].isDefault \in BOOLEAN
BY DEF PlansTypeOK, Own

LEMMA PlansTypeInit == PlansInit => PlansTypeOK
<1> SUFFICES ASSUME PlansInit PROVE PlansTypeOK
  OBVIOUS
<1>1. PICK first \in Migrated : isDefault = [p \in Migrated |-> p = first]
  BY DEF PlansInit
<1>2. DOMAIN isDefault = Migrated /\ \A p \in Migrated : isDefault[p] = (p = first)
  BY <1>1
<1>3. \A p \in DOMAIN isDefault : isDefault[p] \in BOOLEAN
  BY <1>2
<1> QED
  BY <1>2, <1>3, PlanAssumption DEF PlansInit, PlansTypeOK

\* What a commit leaves of each row
LEMMA CommitRow ==
  ASSUME NEW e \in Edits, CommitEdit(e)
  PROVE  /\ DOMAIN isDefault' = DOMAIN isDefault \cup {Own(e)}
         /\ isDefault'[Own(e)] = body[e].isDefault
         /\ \A p \in DOMAIN isDefault \ {Own(e)} :
              isDefault'[p] = (isDefault[p] /\ holder[p] # e)
<1> DEFINE row(p) == IF p = Own(e) THEN body[e].isDefault ELSE isDefault[p] /\ holder[p] # e
<1>1. isDefault' = [p \in DOMAIN isDefault \cup {Own(e)} |-> row(p)]
  BY Zenon DEF CommitEdit, Own
<1> HIDE DEF row
<1>2. /\ DOMAIN isDefault' = DOMAIN isDefault \cup {Own(e)}
      /\ \A p \in DOMAIN isDefault \cup {Own(e)} : isDefault'[p] = row(p)
  BY <1>1
<1>3. row(Own(e)) = body[e].isDefault
  BY Zenon DEF row
<1>4. ASSUME NEW p \in DOMAIN isDefault \ {Own(e)}
      PROVE  row(p) = (isDefault[p] /\ holder[p] # e)
  <2>1. p # Own(e)
    OBVIOUS
  <2> QED
    BY <2>1, Zenon DEF row
<1> QED
  BY <1>2, <1>3, <1>4, Zenon

LEMMA CommitType ==
  ASSUME PlansTypeOK, NEW e \in Edits, CommitEdit(e)
  PROVE  DOMAIN isDefault' \subseteq Plans /\ \A p \in DOMAIN isDefault' : isDefault'[p] \in BOOLEAN
<1>1. \A p \in DOMAIN isDefault \ {Own(e)} : isDefault'[p] \in BOOLEAN
  BY CommitRow, Zenon
<1>2. isDefault'[Own(e)] \in BOOLEAN
  BY CommitRow, BodyType
<1>3. DOMAIN isDefault' = DOMAIN isDefault \cup {Own(e)}
  BY CommitRow
<1> QED
  BY <1>1, <1>2, <1>3, BodyType DEF PlansTypeOK

LEMMA PlansTypeStep == PlansTypeOK /\ [PlansNext]_plansVars => PlansTypeOK'
<1> SUFFICES ASSUME PlansTypeOK, [PlansNext]_plansVars PROVE PlansTypeOK'
  OBVIOUS
<1> USE DEF PlansTypeOK
<1>1. CASE UNCHANGED plansVars
  BY <1>1 DEF plansVars
<1>2. ASSUME NEW e \in Edits, BeginEdit(e) PROVE PlansTypeOK'
  <2>1. PICK seen \in SUBSET Plans, s \in {"clear", "upsert"} :
          edit' = [edit EXCEPT ![e] = s] /\ todo' = [todo EXCEPT ![e] = seen]
    <3>1. CASE body[e].isDefault
      BY <1>2, <3>1 DEF BeginEdit
    <3>2. CASE ~body[e].isDefault
      <4>1. todo' = [todo EXCEPT ![e] = todo[e]]
        BY <1>2, <3>2 DEF BeginEdit
      <4> QED
        BY <1>2, <3>2, <4>1 DEF BeginEdit
    <3> QED
      BY <3>1, <3>2
  <2>2. edit' \in [Edits -> {"new", "clear", "upsert", "commit", "over"}] /\ todo' \in [Edits -> SUBSET Plans]
    BY <2>1
  <2> QED
    BY <1>2, <2>2 DEF BeginEdit
<1>3. ASSUME NEW e \in Edits, ClearRow(e) PROVE PlansTypeOK'
  BY <1>3 DEF ClearRow
<1>4. ASSUME NEW e \in Edits, EndClear(e) PROVE PlansTypeOK'
  BY <1>4 DEF EndClear
<1>5. ASSUME NEW e \in Edits, Upsert(e) PROVE PlansTypeOK'
  BY <1>5, BodyType DEF Upsert, Own
<1>6. ASSUME NEW e \in Edits, CommitEdit(e) PROVE PlansTypeOK'
  <2>1. DOMAIN isDefault' \subseteq Plans /\ \A p \in DOMAIN isDefault' : isDefault'[p] \in BOOLEAN
    BY <1>6, CommitType
  <2>2. Release(e)
    BY <1>6 DEF CommitEdit
  <2> QED
    BY <2>1, <2>2 DEF Release
<1>7. ASSUME NEW e \in Edits, FailEdit(e) PROVE PlansTypeOK'
  BY <1>7 DEF FailEdit, Release
<1> QED
  BY <1>1, <1>2, <1>3, <1>4, <1>5, <1>6, <1>7 DEF PlansNext, EditStep

\* Every variable keeps its type.
THEOREM PlansTypeCorrect == PlansSpec => []PlansTypeOK
BY PlansTypeInit, PlansTypeStep, PTL DEF PlansSpec

----------------------------------------------------------------------------
LEMMA DefaultInit == PlansInit => DefaultInv
BY PlansTypeInit DEF PlansInit, DefaultInv, Kept, Clearing, AtMostOne

\* What a commit leaves: the rows the edit holds are not the default, its own is
\* what it asked for.
LEMMA CommitDefault ==
  ASSUME DefaultInv, NEW e \in Edits, CommitEdit(e)
  PROVE  AtMostOne'
<1> USE DEF DefaultInv
<1>1. \A p \in Migrated \ {Own(e)} : isDefault'[p] = (isDefault[p] /\ holder[p] # e)
  BY CommitRow DEF Kept
<1>2. CASE body[e].isDefault
  <2>1. \A p \in Migrated \ {Own(e)} : ~isDefault'[p]
    BY <1>1, <1>2 DEF CommitEdit, Clearing
  <2> QED
    BY <2>1 DEF AtMostOne
<1>3. CASE ~body[e].isDefault
  <2>1. \A p \in Migrated : isDefault'[p] => isDefault[p]
    BY <1>1, <1>3, CommitRow
  <2> QED
    BY <2>1 DEF AtMostOne
<1> QED
  BY <1>2, <1>3

LEMMA DefaultStep == DefaultInv /\ [PlansNext]_plansVars => DefaultInv'
<1> SUFFICES ASSUME DefaultInv, [PlansNext]_plansVars PROVE DefaultInv'
  OBVIOUS
<1>t. PlansTypeOK /\ PlansTypeOK'
  BY PlansTypeStep DEF DefaultInv
<1> DEFINE Goal == Kept' /\ Clearing' /\ AtMostOne'
<1> SUFFICES Goal
  BY <1>t DEF DefaultInv
<1> USE <1>t DEF DefaultInv, Kept, AtMostOne
<1>1. CASE UNCHANGED plansVars
  BY <1>1 DEF plansVars, Clearing, Own
<1>2. ASSUME NEW e \in Edits, BeginEdit(e) PROVE Goal
  BY <1>2, BodyType DEF BeginEdit, Clearing, Own, PlansTypeOK
<1>3. ASSUME NEW e \in Edits, ClearRow(e) PROVE Goal
  <2>1. PICK p \in todo[e] : /\ holder[p] \in {NoEdit, e}
                             /\ holder' = [holder EXCEPT ![p] = e]
                             /\ todo' = [todo EXCEPT ![e] = @ \ {p}]
    BY <1>3 DEF ClearRow
  <2>2. UNCHANGED <<isDefault, edit, body>>
    BY <1>3 DEF ClearRow
  <2>3. p \in Plans /\ e # NoEdit
    BY <2>1 DEF PlansTypeOK
  <2>4. Clearing'
    BY <2>1, <2>2, <2>3 DEF Clearing, Own, PlansTypeOK
  <2> QED
    BY <2>2, <2>4
<1>4. ASSUME NEW e \in Edits, EndClear(e) PROVE Goal
  BY <1>4 DEF EndClear, Clearing, Own, PlansTypeOK
<1>5. ASSUME NEW e \in Edits, Upsert(e) PROVE Goal
  <2>1. /\ holder[Own(e)] \in {NoEdit, e}
        /\ holder' = [holder EXCEPT ![Own(e)] = e]
        /\ edit[e] = "upsert" /\ edit' = [edit EXCEPT ![e] = "commit"]
        /\ UNCHANGED <<isDefault, body, todo>>
    BY <1>5 DEF Upsert, Own
  <2>2. Clearing'
    BY <2>1, BodyType DEF Clearing, Own, PlansTypeOK
  <2> QED
    BY <2>1, <2>2
<1>6. ASSUME NEW e \in Edits, CommitEdit(e) PROVE Goal
  <2>1. AtMostOne'
    BY <1>6, CommitDefault
  <2>2. Kept'
    BY <1>6 DEF CommitEdit
  <2>3. Clearing'
    BY <1>6 DEF CommitEdit, Release, Clearing, Own, PlansTypeOK
  <2> QED
    BY <2>1, <2>2, <2>3
<1>7. ASSUME NEW e \in Edits, FailEdit(e) PROVE Goal
  BY <1>7 DEF FailEdit, Release, Clearing, Own, PlansTypeOK
<1> QED
  BY <1>1, <1>2, <1>3, <1>4, <1>5, <1>6, <1>7 DEF PlansNext, EditStep

\* At most one of the migrated plans is the default one, however edits overlap.
THEOREM OneMigratedDefault == PlansSpec => []OneDefault
<1>1. DefaultInv => OneDefault
  <2> SUFFICES ASSUME AtMostOne PROVE OneDefault
    BY DEF DefaultInv
  <2> DEFINE D == {p \in Migrated : isDefault[p]}
  <2>1. CASE D = {}
    <3>1. Cardinality({}) = 0
      BY FS_EmptySet
    <3>2. Cardinality(D) = 0
      BY <2>1, <3>1, Zenon
    <3> QED
      BY <3>2 DEF OneDefault
  <2>2. CASE D # {}
    <3>1. PICK p \in D : D = {p}
      BY <2>2 DEF AtMostOne
    <3>2. Cardinality({p}) = 1
      BY FS_Singleton
    <3>3. Cardinality(D) = 1
      BY <3>1, <3>2, Zenon
    <3> QED
      BY <3>3 DEF OneDefault
  <2> QED
    BY <2>1, <2>2
<1> QED
  BY <1>1, DefaultInit, DefaultStep, PTL DEF PlansSpec

----------------------------------------------------------------------------
(***************************************************************************)
(* RuntimeSettings                                                         *)
(***************************************************************************)

Within(k) == Bounds[k].least .. Bounds[k].most

\* SettingsTypeOK, with functions and sequences where it has only their values; and
\* a worker that executes has a task
SettingsTypeInv ==
  /\ setting \in [Keys -> Int] /\ \A k \in Keys : setting[k] \in Within(k)
  /\ limits \in [Workers -> [Keys -> Int]]
  /\ \A w \in Workers, k \in Keys : limits[w][k] \in Within(k)
  /\ update \in [Updates -> 0 .. Len(Order)]
  /\ worker \in [Workers -> {"poll", "claim", "work", "again"}]
  /\ claimed \in [Workers -> Tasks \cup {NoTask}]
  /\ \A w \in Executing : claimed[w] \in Tasks
  /\ queue \in Seq(Tasks)
  /\ running \subseteq Tasks
  /\ profile \in [Tasks -> Providers]
  /\ mishaps \in 0 .. MaxMishaps

LEMMA OrderType ==
  /\ Len(Order) = 3
  /\ \A n \in 1 .. 3 : Order[n] \in Keys
BY DEF Order, Keys

\* Whatever was asked for or is in a row, what is used is within the bounds.
LEMMA BoundedIntIsWithin ==
  ASSUME NEW k \in Keys, NEW value \in Int
  PROVE  BoundedInt(k, value) \in Within(k) /\ BoundedInt(k, value) \in Int
<1>1. /\ Bounds[k].least \in Nat /\ Bounds[k].most \in Nat
      /\ Bounds[k].default \in Bounds[k].least .. Bounds[k].most
  BY BoundsAssumption
<1>2. PICK a \in Nat, b \in Nat, c \in Nat :
        a = Bounds[k].least /\ b = Bounds[k].most /\ c = Bounds[k].default
  BY <1>1
<1>3. a <= c /\ c <= b
  BY <1>1, <1>2
<1> QED
  BY <1>2, <1>3 DEF BoundedInt, Within

LEMMA DefaultsAreWithin ==
  Defaults \in [Keys -> Int] /\ \A k \in Keys : Defaults[k] \in Within(k)
BY BoundsAssumption DEF Defaults, Within

LEMMA SettingsTypeInit == SettingsInit => SettingsTypeInv
BY DefaultsAreWithin, OrderType, MishapsAssumption, TaskAssumption
DEF SettingsInit, SettingsTypeInv, Executing

LEMMA WriteRowType ==
  ASSUME SettingsTypeInv, NEW u \in Updates, WriteRow(u)
  PROVE  SettingsTypeInv'
<1> DEFINE n == update[u] + 1
<1>1. n \in 1 .. 3
  <2>1. update[u] \in 0 .. 3
    BY OrderType DEF SettingsTypeInv
  <2>2. n <= 3
    BY OrderType DEF WriteRow
  <2> QED
    BY <2>1, <2>2
<1>2. Order[n] \in Keys /\ Body[u][Order[n]] \in Int
  BY <1>1, OrderType, UpdatesAssumption
<1>3. PICK value \in Within(Order[n]) :
        value \in Int /\ setting' = [setting EXCEPT ![Order[n]] = value]
  BY <1>1, <1>2, BoundedIntIsWithin DEF WriteRow
<1>4. setting' \in [Keys -> Int] /\ \A k \in Keys : setting'[k] \in Within(k)
  BY <1>2, <1>3 DEF SettingsTypeInv
<1>5. update' \in [Updates -> 0 .. Len(Order)]
  BY <1>1, OrderType DEF WriteRow, SettingsTypeInv
<1> QED
  BY <1>4, <1>5 DEF WriteRow, taskVars, SettingsTypeInv, Executing

LEMMA RemoveAtType ==
  ASSUME NEW q \in Seq(Tasks), NEW n \in 1 .. Len(q)
  PROVE  RemoveAt(q, n) \in Seq(Tasks)
<1>1. SubSeq(q, 1, n - 1) \in Seq(Tasks)
  BY SubSeqProperties
<1>2. SubSeq(q, n + 1, Len(q)) \in Seq(Tasks)
  BY SubSeqProperties
<1> QED
  BY <1>1, <1>2, ConcatProperties DEF RemoveAt

LEMMA LimitsType ==
  ASSUME SettingsTypeInv, NEW w \in Workers, NEW read \in [Keys -> Int],
         \A k \in Keys : read[k] \in Within(k), limits' = [limits EXCEPT ![w] = read]
  PROVE  /\ limits' \in [Workers -> [Keys -> Int]]
         /\ \A v \in Workers, k \in Keys : limits'[v][k] \in Within(k)
BY DEF SettingsTypeInv

LEMMA MishapType ==
  ASSUME mishaps \in 0 .. MaxMishaps, Mishap \/ UNCHANGED mishaps
  PROVE  mishaps' \in 0 .. MaxMishaps
BY MishapsAssumption DEF Mishap

LEMMA FinishType ==
  ASSUME SettingsTypeInv, NEW T, Finish(T)
  PROVE  running' \subseteq Tasks /\ profile' \in [Tasks -> Providers]
BY TaskAssumption DEF SettingsTypeInv, Finish

LEMMA WorkerStepType ==
  ASSUME SettingsTypeInv, NEW w \in Workers, WorkerStep(w)
  PROVE  SettingsTypeInv'
<1>1. CASE Load(w)
  <2>1. PICK unread \in SUBSET Keys :
          /\ limits' = [limits EXCEPT ![w] =
               [k \in Keys |-> IF k \in unread THEN Defaults[k] ELSE BoundedInt(k, setting[k])]]
          /\ Mishap \/ UNCHANGED mishaps
    BY <1>1 DEF Load
  <2> DEFINE read == [k \in Keys |->
                IF k \in unread THEN Defaults[k] ELSE BoundedInt(k, setting[k])]
  <2>2. read \in [Keys -> Int] /\ \A k \in Keys : read[k] \in Within(k)
    BY DefaultsAreWithin, BoundedIntIsWithin DEF SettingsTypeInv
  <2>3. limits' = [limits EXCEPT ![w] = read]
    BY <2>1
  <2> HIDE DEF read
  <2>4. /\ limits' \in [Workers -> [Keys -> Int]]
        /\ \A v \in Workers, k \in Keys : limits'[v][k] \in Within(k)
    BY <2>2, <2>3, LimitsType
  <2>5. mishaps' \in 0 .. MaxMishaps
    BY <2>1, MishapType DEF SettingsTypeInv
  <2> QED
    BY <1>1, <2>4, <2>5 DEF Load, taskVars, SettingsTypeInv, Executing
<1>2. Forget(w) =>
        /\ limits' \in [Workers -> [Keys -> Int]]
        /\ \A v \in Workers, k \in Keys : limits'[v][k] \in Within(k)
  BY DefaultsAreWithin, LimitsType DEF Forget
<1>3. CASE Claim(w)
  <2>1. PICK n \in Claimable(w) :
          /\ claimed' = [claimed EXCEPT ![w] = queue[n]]
          /\ running' = running \cup {queue[n]}
          /\ queue' = RemoveAt(queue, n)
    BY <1>3 DEF Claim
  <2>2. n \in 1 .. Len(queue) /\ queue \in Seq(Tasks)
    BY DEF Claimable, SettingsTypeInv
  <2>3. queue[n] \in Tasks /\ queue' \in Seq(Tasks)
    BY <2>1, <2>2, RemoveAtType
  <2> QED
    BY <1>2, <1>3, <2>1, <2>3 DEF Claim, SettingsTypeInv, Executing
<1>4. CASE ClaimNothing(w)
  <2>1. mishaps' \in 0 .. MaxMishaps
    BY <1>4, MishapType DEF ClaimNothing, SettingsTypeInv
  <2> QED
    BY <1>2, <1>4, <2>1 DEF ClaimNothing, taskVars, SettingsTypeInv, Executing
<1>5. CASE FallBack(w)
  BY <1>5 DEF FallBack, SettingsTypeInv, Executing
<1>6. CASE Complete(w)
  <2>1. running' \subseteq Tasks /\ profile' \in [Tasks -> Providers]
    BY <1>6, FinishType DEF Complete, SettingsTypeInv
  <2>2. mishaps' \in 0 .. MaxMishaps
    BY <1>6, MishapType DEF Complete, SettingsTypeInv
  <2> QED
    BY <1>6, <2>1, <2>2 DEF Complete, SettingsTypeInv, Executing
<1> QED
  BY <1>1, <1>3, <1>4, <1>5, <1>6 DEF WorkerStep

LEMMA RestartType ==
  ASSUME SettingsTypeInv, Restart
  PROVE  SettingsTypeInv'
<1>1. running' \subseteq Tasks /\ profile' \in [Tasks -> Providers]
  BY FinishType DEF Restart
<1>2. mishaps' \in 0 .. MaxMishaps
  BY MishapType DEF Restart, SettingsTypeInv
<1>3. /\ limits' \in [Workers -> [Keys -> Int]]
      /\ \A v \in Workers, k \in Keys : limits'[v][k] \in Within(k)
  BY DefaultsAreWithin DEF Restart
<1>4. update' \in [Updates -> 0 .. Len(Order)]
  BY OrderType DEF Restart
<1> QED
  BY <1>1, <1>2, <1>3, <1>4 DEF Restart, SettingsTypeInv, Executing

LEMMA SettingsTypeStep == SettingsTypeInv /\ [SettingsNext]_settingsVars => SettingsTypeInv'
<1> SUFFICES ASSUME SettingsTypeInv, [SettingsNext]_settingsVars PROVE SettingsTypeInv'
  OBVIOUS
<1>1. ASSUME NEW u \in Updates, WriteRow(u) PROVE SettingsTypeInv'
  BY <1>1, WriteRowType
<1>2. ASSUME NEW t \in Tasks, Submit(t) PROVE SettingsTypeInv'
  <2>1. queue' \in Seq(Tasks)
    BY <1>2 DEF Submit, SettingsTypeInv
  <2> QED
    BY <1>2, <2>1 DEF Submit, SettingsTypeInv, Executing
<1>3. ASSUME NEW w \in Workers, WorkerStep(w) PROVE SettingsTypeInv'
  BY <1>3, WorkerStepType
<1>4. CASE Restart
  BY <1>4, RestartType
<1>5. CASE UNCHANGED settingsVars
  BY <1>5 DEF settingsVars, taskVars, SettingsTypeInv, Executing
<1> QED
  BY <1>1, <1>2, <1>3, <1>4, <1>5 DEF SettingsNext

LEMMA SettingsTypeInvIsTypeOK == SettingsTypeInv => SettingsTypeOK
<1> SUFFICES ASSUME SettingsTypeInv PROVE SettingsTypeOK
  OBVIOUS
<1>1. ToSet(queue) \subseteq Tasks
  <2>1. PICK q \in Seq(Tasks) : q = queue
    BY DEF SettingsTypeInv
  <2>2. \A n \in DOMAIN q : q[n] \in Tasks
    OBVIOUS
  <2> QED
    BY <2>1, <2>2 DEF ToSet
<1> QED
  BY <1>1 DEF SettingsTypeInv, SettingsTypeOK, Within

\* Every variable keeps its type: whatever an administrator asks for, and however
\* updates and readings mix, every limit that is stored or used is within its bounds.
THEOREM SettingsTypeCorrect == SettingsSpec => []SettingsTypeOK
BY SettingsTypeInit, SettingsTypeStep, SettingsTypeInvIsTypeOK, PTL DEF SettingsSpec

----------------------------------------------------------------------------
(***************************************************************************)
(* Side by side                                                            *)
(***************************************************************************)

\* Where it is not Startup that moves, all processes are up.
LEMMA UpType == Up => StartupTypeInv
<1> SUFFICES ASSUME Up PROVE StartupTypeInv
  OBVIOUS
<1>1. \A p \in Processes : Shipped[p] + 1 \in Nat \ {0}
  OBVIOUS
<1>2. effects \in [Versions -> Nat] /\ applied \subseteq Versions
  BY DEF Up
<1> QED
  BY <1>1, <1>2 DEF Up, StartupTypeInv, StartupTypeOK, Migrating

\* A step of one module is a step or a stutter of each.
LEMMA PartStep ==
  [Next]_vars => /\ [SettingsNext]_settingsVars
                 /\ [PlansNext]_plansVars
                 /\ [StartupNext]_startupVars
BY DEF Next, SettingsStep, PlansStep, StartStep, vars

\* Every variable of the three modules keeps its type, in any one of them that moves.
THEOREM AdministrationTypeCorrect == Spec => []TypeOK
<1> DEFINE Inv == SettingsTypeInv /\ PlansTypeOK /\ StartupTypeInv
<1>1. Init => Inv
  BY SettingsTypeInit, PlansTypeInit, StartupTypeInit, UpType DEF Init
<1>2. Inv /\ [Next]_vars => Inv'
  BY PartStep, SettingsTypeStep, PlansTypeStep, StartupTypeStep
<1>3. Inv => TypeOK
  BY SettingsTypeInvIsTypeOK DEF TypeOK, StartupTypeInv
<1> HIDE DEF Inv
<1> QED
  BY <1>1, <1>2, <1>3, PTL DEF Spec

\* Whichever module moves, its edits of plans are those of RechargePlans.
LEMMA PlansAreAPart == Spec => PlansSpec
<1>1. Init => PlansInit
  BY DEF Init
<1> QED
  BY <1>1, PartStep, PTL DEF Spec, PlansSpec

\* Where all processes are up, every migration is applied once.
LEMMA UpIsServed == Up => OnceInv /\ SchemaInv
<1> SUFFICES ASSUME Up PROVE OnceInv /\ SchemaInv
  OBVIOUS
<1> USE DEF Up
<1>1. StartupTypeInv
  BY UpType
<1>2. Recording /\ AppliedOnce
  BY DEF Recording, AppliedOnce
<1>3. Passed /\ Serving /\ NoGap
  BY DEF Passed, Serving, NoGap
<1> QED
  BY <1>1, <1>2, <1>3 DEF OnceInv, SchemaInv

\* The invariants of the three modules hold of the specification they share: one
\* default plan, each migration applied once, and processes that serve only when they
\* have all of theirs.
THEOREM AdministrationSafe ==
  Spec => [](OneDefault /\ AppliedOnce /\ ServedSchema)
<1>1. Init => OnceInv /\ SchemaInv
  <2>1. StartupInit => OnceInv /\ SchemaInv
    BY StartupTypeInit DEF StartupInit, OnceInv, SchemaInv, Recording, AppliedOnce, Passed,
       Serving, NoGap
  <2> QED
    BY <2>1, UpIsServed DEF Init
<1>2. OnceInv /\ SchemaInv /\ [Next]_vars => (OnceInv /\ SchemaInv)'
  BY PartStep, OnceStep, SchemaStep
<1>3. OnceInv => AppliedOnce
  BY DEF OnceInv
<1> QED
  BY <1>1, <1>2, <1>3, SchemaIsServed, PlansAreAPart, OneMigratedDefault, PTL DEF Spec
=============================================================================
