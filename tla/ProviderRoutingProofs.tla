------------------------- MODULE ProviderRoutingProofs -------------------------
(***************************************************************************)
(* Theorems about ProviderRouting, for any number of jobs, providers,      *)
(* workers and connections, and whatever administrators write.             *)
(***************************************************************************)
EXTENDS ProviderRouting, FiniteSetTheorems, TLAPS

USE JobsAssumption, ProvidersAssumption, PoolAssumption

Rows == [bucket : Buckets, priority : Nat \ {0},
         status : {"active", "disabled", "deleted"}]

\* Nobody has a count of failures that is above the number of failed calls; who
\* is about to record a failure has one that is below it.
CountsAreOld ==
  \A j \in Jobs : LET p == route[j].provider IN
    p \in Providers =>
      /\ route[j].failures <= failed[p]
      /\ stage[j] = "failed" => route[j].failures + 1 <= failed[p]

HealthInv == TypeOK /\ CountsAreOld /\ HealthIsEarned

----------------------------------------------------------------------------
LEMMA SelectedServices ==
  ASSUME NEW j \in Jobs
  PROVE  PaidServices(j) \subseteq Services
BY DEF PaidServices, EntitlementBillings, CreditBillings, EntitlementServices,
       CreditService, Services

\* What an action may do to the route and the stage of a job keeps their types.
LEMMA RouteType ==
  ASSUME TypeOK, NEW j \in Jobs, NEW s \in Stages, NEW t \in Routes,
         stage' = [stage EXCEPT ![j] = s], route' = [route EXCEPT ![j] = t],
         s \in {"touch", "insert", "queued"} \cup WorkerStages => t.provider \in Providers
  PROVE  /\ stage' \in [Jobs -> Stages]
         /\ route' \in [Jobs -> Routes]
         /\ \A i \in Jobs :
              stage'[i] \in {"touch", "insert", "queued"} \cup WorkerStages
                => route'[i].provider \in Providers
BY DEF TypeOK

LEMMA EndType ==
  ASSUME TypeOK, NEW j \in Jobs, End(j)
  PROVE  /\ stage' \in [Jobs -> Stages]
         /\ route' \in [Jobs -> Routes]
         /\ \A i \in Jobs :
              stage'[i] \in {"touch", "insert", "queued"} \cup WorkerStages
                => route'[i].provider \in Providers
<1>1. NoRoute \in Routes
  BY DEF NoRoute, Routes, Services
<1>2. "over" \in Stages /\ "over" \notin {"touch", "insert", "queued"} \cup WorkerStages
  BY DEF Stages, WorkerStages
<1> QED
  BY <1>1, <1>2, RouteType DEF End, GoTo

LEMMA SelectType ==
  ASSUME TypeOK, NEW j \in Jobs, NEW service \in Services,
         NEW onward \in {"touch", "retouch"}, SelectProvider(j, service, onward)
  PROVE  TypeOK'
<1> USE DEF TypeOK
<1>1. UNCHANGED <<providerVars, removing, failed>>
  BY DEF SelectProvider
<1>2. CASE End(j)
  BY <1>1, <1>2, EndType DEF providerVars
<1>3. CASE ~End(j)
  <2>1. PICK p \in Providers :
          /\ GoTo(j, onward)
          /\ route' = [route EXCEPT ![j].service = service, ![j].provider = p,
                                    ![j].failures = failures[p]]
    BY <1>3 DEF SelectProvider, Best, Usable
  <2>0. PICK count \in Nat : count = failures[p]
    OBVIOUS
  <2>5. route[j] \in Routes
    OBVIOUS
  <2> DEFINE t == [route[j] EXCEPT !.service = service, !.provider = p,
                                   !.failures = count]
  <2>2. t \in Routes /\ t.provider = p
    <3> HIDE DEF TypeOK
    <3> QED
      BY <2>5 DEF Routes
  <2>4. route' = [route EXCEPT ![j] = t]
    BY <2>0, <2>1
  <2> HIDE DEF t
  <2>3. onward \in Stages
    BY DEF Stages, RequestStages, WorkerStages
  <2> QED
    BY <1>1, <2>1, <2>2, <2>3, <2>4, RouteType DEF GoTo, providerVars
<1> QED
  BY <1>2, <1>3

LEMMA TypeInit == Init => TypeOK
BY DEF Init, TypeOK, Settings, NoRoute, Routes, Services, Stages, RequestStages,
       WorkerStages

LEMMA JobStepType ==
  ASSUME TypeOK, NEW j \in Jobs, RequestStep(j) \/ WorkerStep(j)
  PROVE  TypeOK'
<1>c. route[j] \in Routes
  BY DEF TypeOK
<1> USE DEF TypeOK, providerVars
<1>a. ASSUME NEW s \in {"insert", "queued", "load", "call", "succeeded", "failed", "again", "move"}
      PROVE  s \in Stages
  BY DEF Stages, RequestStages, WorkerStages
<1>b. /\ {"touch", "insert", "queued"} \cup WorkerStages \subseteq Stages
      /\ {"load", "call", "succeeded", "failed", "again", "retouch", "move"} = WorkerStages
  BY DEF Stages, RequestStages, WorkerStages
<1>1. CASE Ask(j)
  BY <1>1, SelectedServices, SelectType DEF Ask
<1>2. CASE Touch(j)
  BY <1>2, <1>a DEF Touch, GoTo
<1>3. CASE Insert(j)
  <2>1. CASE End(j)
    BY <1>3, <2>1, EndType DEF Insert
  <2>2. CASE ~End(j)
    <3>1. PICK t \in Routes : t.provider = route[j].provider /\ route' = [route EXCEPT ![j] = t]
      BY <1>3, <2>2 DEF Insert, Routes
    <3> QED
      BY <1>3, <2>2, <3>1, <1>a, RouteType DEF Insert, GoTo
  <2> QED
    BY <2>1, <2>2
<1>4. CASE TimeOut(j)
  BY <1>4, EndType DEF TimeOut
<1>5. CASE Claim(j)
  BY <1>5, <1>a DEF Claim, GoTo
<1>6. CASE Load(j)
  <2>1. CASE End(j)
    BY <1>6, <2>1, EndType DEF Load
  <2>2. CASE ~End(j)
    <3>0. route[j].provider \in Providers
      BY <1>6, <1>b DEF Load
    <3>3. PICK count \in Nat : count = failures[route[j].provider]
      BY <3>0
    <3> DEFINE t == [route[j] EXCEPT !.failures = count]
    <3>1. t \in Routes /\ t.provider = route[j].provider
      <4> HIDE DEF TypeOK
      <4> QED
        BY <1>c DEF Routes
    <3>2. route' = [route EXCEPT ![j] = t]
      BY <1>6, <2>2, <3>3 DEF Load
    <3> HIDE DEF t
    <3> QED
      BY <1>6, <2>2, <3>0, <3>1, <3>2, <1>a, RouteType DEF Load, GoTo
  <2> QED
    BY <2>1, <2>2
<1>7. CASE Call(j)
  <2>0. route[j].provider \in Providers
    BY <1>7, <1>b DEF Call
  <2>1. failed' \in [Providers -> Nat]
    BY <1>7, <2>0 DEF Call
  <2>2. CASE GoTo(j, "succeeded")
    <3> DEFINE t == [route[j] EXCEPT !.tried = @ \cup {route[j].provider}, !.failures = 0]
    <3>1. t \in Routes /\ t.provider = route[j].provider
      <4> HIDE DEF TypeOK
      <4> QED
        BY <1>c, <2>0 DEF Routes
    <3>2. route' = [route EXCEPT ![j] = t]
      BY <1>7, <2>2 DEF Call, GoTo
    <3> HIDE DEF t
    <3> QED
      BY <1>7, <2>0, <2>1, <2>2, <3>1, <3>2, <1>a, RouteType DEF Call, GoTo
  <2>3. CASE GoTo(j, "failed")
    <3> DEFINE t == [route[j] EXCEPT !.tried = @ \cup {route[j].provider}]
    <3>1. t \in Routes /\ t.provider = route[j].provider
      <4> HIDE DEF TypeOK
      <4> QED
        BY <1>c, <2>0 DEF Routes
    <3>2. route' = [route EXCEPT ![j] = t]
      BY <1>7, <2>3 DEF Call, GoTo
    <3> HIDE DEF t
    <3> QED
      BY <1>7, <2>0, <2>1, <2>3, <3>1, <3>2, <1>a, RouteType DEF Call, GoTo
  <2> QED
    BY <1>7, <2>2, <2>3 DEF Call
<1>8. CASE RecordSuccess(j)
  <2>1. failures' \in [Providers -> Nat] /\ cooling' \in [Providers -> BOOLEAN]
    <3>1. \/ UNCHANGED <<failures, cooling>>
          \/ /\ failures' = [failures EXCEPT ![route[j].provider] = 0]
             /\ cooling' = [cooling EXCEPT ![route[j].provider] = FALSE]
      BY <1>8 DEF RecordSuccess
    <3>2. failures' \in [Providers -> Nat]
      BY <3>1
    <3>3. cooling' \in [Providers -> BOOLEAN]
      BY <3>1
    <3> QED
      BY <3>2, <3>3
  <2> QED
    BY <1>8, <2>1, EndType DEF RecordSuccess
<1>9. CASE RecordFailure(j)
  <2>1. failures' \in [Providers -> Nat] /\ cooling' \in [Providers -> BOOLEAN]
    <3>1. PICK count \in Nat : count = route[j].failures + 1
      BY <1>c DEF Routes
    <3>2. \/ UNCHANGED <<failures, cooling>>
          \/ /\ failures' = [failures EXCEPT ![route[j].provider] = count]
             /\ cooling' = [cooling EXCEPT ![route[j].provider] = CoolsDown(count)]
      BY <1>9, <3>1 DEF RecordFailure
    <3>3. CoolsDown(count) \in BOOLEAN
      BY DEF CoolsDown
    <3>4. failures' \in [Providers -> Nat]
      BY <3>2
    <3>5. cooling' \in [Providers -> BOOLEAN]
      BY <3>2, <3>3
    <3> QED
      BY <3>4, <3>5
  <2>2. UNCHANGED <<provider, removing, failed>>
    BY <1>9 DEF RecordFailure
  <2>3. CASE End(j)
    BY <2>1, <2>2, <2>3, EndType
  <2>4. CASE ~End(j)
    <3>0. route[j].provider \in Providers
      BY <1>9, <1>b DEF RecordFailure
    <3>1. GoTo(j, "again") /\ route' = [route EXCEPT ![j].failures = 0]
      BY <1>9, <2>4 DEF RecordFailure
    <3> DEFINE t == [route[j] EXCEPT !.failures = 0]
    <3>2. t \in Routes /\ t.provider = route[j].provider
      <4> HIDE DEF TypeOK
      <4> QED
        BY <1>c, <3>0 DEF Routes
    <3>3. route' = [route EXCEPT ![j] = t]
      BY <3>1
    <3> HIDE DEF t
    <3> QED
      BY <2>1, <2>2, <3>0, <3>1, <3>2, <3>3, <1>a, RouteType DEF GoTo
  <2> QED
    BY <2>3, <2>4
<1>10. CASE SelectAgain(j)
  <2>1. route[j].service \in Services
    BY DEF Routes
  <2> QED
    BY <1>10, <2>1, SelectType DEF SelectAgain
<1>11. CASE TouchAgain(j)
  BY <1>11, <1>a, <1>b DEF TouchAgain, GoTo
<1>12. CASE MoveTask(j)
  <2>0. route[j].provider \in Providers
    BY <1>12, <1>b DEF MoveTask
  <2>1. CASE UNCHANGED route
    BY <1>12, <2>0, <2>1, <1>a DEF MoveTask, GoTo
  <2>2. CASE ~UNCHANGED route
    <3> DEFINE t == [route[j] EXCEPT !.task = route[j].provider]
    <3>1. t \in Routes /\ t.provider = route[j].provider
      <4> HIDE DEF TypeOK
      <4> QED
        BY <1>c, <2>0 DEF Routes
    <3>2. route' = [route EXCEPT ![j] = t]
      BY <1>12, <2>2 DEF MoveTask
    <3> HIDE DEF t
    <3> QED
      BY <1>12, <2>0, <3>1, <3>2, <1>a, RouteType DEF MoveTask, GoTo
  <2> QED
    BY <2>1, <2>2
<1> QED
  BY <1>1, <1>2, <1>3, <1>4, <1>5, <1>6, <1>7, <1>8, <1>9, <1>10, <1>11, <1>12
  DEF RequestStep, WorkerStep

LEMMA AdminStepType ==
  ASSUME TypeOK,
         \/ \E p \in Providers : CooldownEnds(p)
         \/ \E p \in Deletions : CountForDelete(p)
         \/ \E e \in Edits : Upsert(e)
         \/ Delete
  PROVE  TypeOK'
<1> USE DEF TypeOK
<1>1. ASSUME NEW p \in Providers, CooldownEnds(p) PROVE TypeOK'
  BY <1>1 DEF CooldownEnds
<1>2. ASSUME NEW p \in Deletions, CountForDelete(p) PROVE TypeOK'
  BY <1>2 DEF CountForDelete, providerVars
<1>3. ASSUME NEW e \in Edits, Upsert(e) PROVE TypeOK'
  BY <1>3 DEF Upsert, Settings
<1>4. CASE Delete
  <2>1. CASE UNCHANGED provider
    BY <1>4, <2>1 DEF Delete
  <2>2. CASE provider' = [provider EXCEPT ![removing].status = "deleted"]
    <3> DEFINE row == [provider[removing] EXCEPT !.status = "deleted"]
    <3>1. removing \in Providers
      BY <1>4 DEF Delete
    <3>2. row \in Rows
      BY <3>1 DEF Rows
    <3>3. provider' = [provider EXCEPT ![removing] = row]
      BY <2>2
    <3>4. provider' \in [Providers -> Rows]
      BY <3>1, <3>2, <3>3 DEF Rows
    <3> QED
      BY <1>4, <3>4 DEF Delete, Rows
  <2> QED
    BY <1>4, <2>1, <2>2 DEF Delete
<1> QED
  BY <1>1, <1>2, <1>3, <1>4

LEMMA TypeStep == TypeOK /\ [Next]_vars => TypeOK'
<1> SUFFICES ASSUME TypeOK, [Next]_vars PROVE TypeOK'
  OBVIOUS
<1>1. CASE UNCHANGED vars
  BY <1>1 DEF vars, providerVars, TypeOK
<1> QED
  BY <1>1, JobStepType, AdminStepType DEF Next

----------------------------------------------------------------------------
\* A job that goes to s with a count of failures that is not above the failed
\* calls of its provider.
LEMMA CountsStep ==
  ASSUME TypeOK, CountsAreOld, NEW j \in Jobs, NEW s, NEW t \in Routes,
         stage' = [stage EXCEPT ![j] = s], route' = [route EXCEPT ![j] = t],
         failed' \in [Providers -> Nat], \A p \in Providers : failed[p] <= failed'[p],
         t.provider \in Providers =>
           /\ t.failures <= failed'[t.provider]
           /\ s = "failed" => t.failures + 1 <= failed'[t.provider]
  PROVE  CountsAreOld'
<1> SUFFICES ASSUME NEW i \in Jobs, NEW p \in Providers, route'[i].provider = p
             PROVE  /\ route'[i].failures <= failed'[p]
                    /\ stage'[i] = "failed" => route'[i].failures + 1 <= failed'[p]
  BY DEF CountsAreOld
<1>1. CASE i = j
  BY <1>1 DEF TypeOK
<1>2. CASE i # j
  <2>1. route'[i] = route[i] /\ stage'[i] = stage[i]
    BY <1>2 DEF TypeOK
  <2>2. /\ route[i].failures <= failed[p]
        /\ stage[i] = "failed" => route[i].failures + 1 <= failed[p]
    BY <2>1 DEF CountsAreOld
  <2>3. route[i].failures \in Nat /\ failed[p] \in Nat /\ failed'[p] \in Nat
    <3>1. route[i] \in Routes
      BY DEF TypeOK
    <3> QED
      BY <3>1 DEF TypeOK, Routes
  <2>4. failed[p] <= failed'[p]
    OBVIOUS
  <2> QED
    BY <2>1, <2>2, <2>3, <2>4
<1> QED
  BY <1>1, <1>2

LEMMA CountsEnd ==
  ASSUME TypeOK, CountsAreOld, NEW j \in Jobs, End(j), UNCHANGED failed
  PROVE  CountsAreOld'
<1>1. NoRoute \in Routes /\ NoRoute.provider \notin Providers
  BY DEF NoRoute, Routes, Services
<1>2. \A p \in Providers : failed[p] <= failed'[p]
  BY DEF TypeOK
<1>3. failed' \in [Providers -> Nat]
  BY DEF TypeOK
<1> QED
  BY <1>1, <1>2, <1>3, CountsStep DEF End, GoTo

\* As long as the failed calls stay what they are: a new count that is not above
\* them, or none, and no step to "failed".
LEMMA CountsEdit ==
  ASSUME TypeOK, CountsAreOld, NEW j \in Jobs, NEW s, s # "failed", NEW t \in Routes,
         stage' = [stage EXCEPT ![j] = s], route' = [route EXCEPT ![j] = t],
         UNCHANGED failed,
         \/ t.failures = 0
         \/ t.provider = route[j].provider /\ t.failures = route[j].failures
         \/ t.provider \in Providers /\ t.failures <= failed[t.provider]
  PROVE  CountsAreOld'
<1>1. failed' \in [Providers -> Nat]
  BY DEF TypeOK
<1>2. \A p \in Providers : failed[p] <= failed'[p]
  BY DEF TypeOK
<1>3. ASSUME t.provider \in Providers
      PROVE  t.failures <= failed'[t.provider]
  <2>1. failed[t.provider] \in Nat /\ failed' = failed
    BY <1>3 DEF TypeOK
  <2>2. CASE t.failures = 0
    BY <2>1, <2>2
  <2>3. CASE t.provider = route[j].provider /\ t.failures = route[j].failures
    BY <1>3, <2>1, <2>3 DEF CountsAreOld
  <2>4. CASE t.failures <= failed[t.provider]
    BY <2>1, <2>4
  <2> QED
    BY <2>2, <2>3, <2>4
<1> QED
  BY <1>1, <1>2, <1>3, CountsStep

LEMMA SelectCounts ==
  ASSUME HealthInv, NEW j \in Jobs, NEW service \in Services,
         NEW onward \in {"touch", "retouch"}, SelectProvider(j, service, onward)
  PROVE  CountsAreOld'
<1> USE DEF HealthInv
<1>1. UNCHANGED failed
  BY DEF SelectProvider
<1>2. CASE End(j)
  BY <1>1, <1>2, CountsEnd
<1>3. CASE ~End(j)
  <2>1. PICK p \in Providers :
          /\ GoTo(j, onward)
          /\ route' = [route EXCEPT ![j].service = service, ![j].provider = p,
                                    ![j].failures = failures[p]]
    BY <1>3 DEF SelectProvider, Best, Usable
  <2>2. PICK count \in Nat : count = failures[p]
    BY DEF TypeOK
  <2>3. route[j] \in Routes
    BY DEF TypeOK
  <2>4. count <= failed[p]
    BY <2>2 DEF HealthIsEarned
  <2> DEFINE t == [route[j] EXCEPT !.service = service, !.provider = p,
                                   !.failures = count]
  <2>5. t \in Routes /\ t.provider = p /\ t.failures = count
    <3> HIDE DEF HealthInv
    <3> QED
      BY <2>3 DEF Routes
  <2>6. route' = [route EXCEPT ![j] = t]
    BY <2>1, <2>2
  <2>7. stage' = [stage EXCEPT ![j] = onward] /\ onward # "failed"
    BY <2>1 DEF GoTo
  <2> HIDE DEF t
  <2> QED
    BY <1>1, <2>4, <2>5, <2>6, <2>7, CountsEdit
<1> QED
  BY <1>2, <1>3

LEMMA JobStepCounts ==
  ASSUME HealthInv, NEW j \in Jobs, RequestStep(j) \/ WorkerStep(j)
  PROVE  CountsAreOld'
<1>a. route[j] \in Routes
  BY DEF HealthInv, TypeOK
<1>b. TypeOK /\ CountsAreOld /\ HealthIsEarned
  BY DEF HealthInv
<1>k. ASSUME NEW s, s # "failed", stage' = [stage EXCEPT ![j] = s],
             UNCHANGED <<route, failed>>
      PROVE  CountsAreOld'
  <2>1. route' = [route EXCEPT ![j] = route[j]]
    BY <1>b, <1>k DEF TypeOK
  <2> QED
    BY <1>a, <1>b, <1>k, <2>1, CountsEdit
<1>1. CASE Ask(j)
  BY <1>1, SelectedServices, SelectCounts DEF Ask
<1>2. CASE Touch(j)
  BY <1>2, <1>k DEF Touch, GoTo
<1>3. CASE Insert(j)
  <2>1. UNCHANGED failed
    BY <1>3 DEF Insert
  <2>2. CASE End(j)
    BY <1>b, <2>1, <2>2, CountsEnd
  <2>3. CASE ~End(j)
    <3>1. /\ route' = [route EXCEPT ![j].failures = 0, ![j].task = route[j].provider]
          /\ stage' = [stage EXCEPT ![j] = "queued"]
          /\ stage[j] = "insert"
      BY <1>3, <2>3 DEF Insert, GoTo
    <3>2. route[j].provider \in Providers
      BY <1>b, <3>1 DEF TypeOK
    <3> DEFINE t == [route[j] EXCEPT !.failures = 0, !.task = route[j].provider]
    <3>3. t \in Routes /\ t.failures = 0
      BY <1>a, <3>2 DEF Routes
    <3>4. route' = [route EXCEPT ![j] = t]
      BY <3>1
    <3> HIDE DEF t
    <3> QED
      BY <1>b, <2>1, <3>1, <3>3, <3>4, CountsEdit
  <2> QED
    BY <2>2, <2>3
<1>4. CASE TimeOut(j)
  BY <1>b, <1>4, CountsEnd DEF TimeOut
<1>5. CASE Claim(j)
  BY <1>5, <1>k DEF Claim, GoTo
<1>6. CASE Load(j)
  <2>1. UNCHANGED failed
    BY <1>6 DEF Load
  <2>2. CASE End(j)
    BY <1>b, <2>1, <2>2, CountsEnd
  <2>3. CASE ~End(j)
    <3>1. /\ route' = [route EXCEPT ![j].failures = failures[route[j].provider]]
          /\ stage' = [stage EXCEPT ![j] = "call"]
          /\ stage[j] = "load"
      BY <1>6, <2>3 DEF Load, GoTo
    <3>2. route[j].provider \in Providers
      BY <1>b, <3>1 DEF TypeOK, WorkerStages
    <3>3. PICK count \in Nat : count = failures[route[j].provider]
      BY <1>b, <3>2 DEF TypeOK
    <3>4. count <= failed[route[j].provider]
      BY <1>b, <3>2, <3>3 DEF HealthIsEarned
    <3> DEFINE t == [route[j] EXCEPT !.failures = count]
    <3>5. t \in Routes /\ t.provider = route[j].provider /\ t.failures = count
      BY <1>a DEF Routes
    <3>6. route' = [route EXCEPT ![j] = t]
      BY <3>1, <3>3
    <3> HIDE DEF t
    <3>7. t.provider \in Providers /\ t.failures <= failed[t.provider]
      BY <3>2, <3>4, <3>5
    <3> QED
      BY <1>b, <2>1, <3>1, <3>5, <3>6, <3>7, CountsEdit
  <2> QED
    BY <2>2, <2>3
<1>7. CASE Call(j)
  <2>1. stage[j] = "call" /\ route[j].provider \in Providers
    BY <1>b, <1>7 DEF Call, TypeOK, WorkerStages
  <2>2. PICK p \in Providers : p = route[j].provider
    BY <2>1
  <2>3. CASE GoTo(j, "succeeded")
    <3> DEFINE t == [route[j] EXCEPT !.tried = @ \cup {p}, !.failures = 0]
    <3>1. t \in Routes /\ t.failures = 0
      BY <1>a DEF Routes
    <3>2. /\ route' = [route EXCEPT ![j] = t]
          /\ stage' = [stage EXCEPT ![j] = "succeeded"]
          /\ UNCHANGED failed
      BY <1>b, <1>7, <2>2, <2>3 DEF Call, GoTo, TypeOK
    <3> HIDE DEF t
    <3> QED
      BY <1>b, <3>1, <3>2, CountsEdit
  <2>4. CASE GoTo(j, "failed")
    <3> DEFINE t == [route[j] EXCEPT !.tried = @ \cup {p}]
    <3>1. t \in Routes /\ t.provider = p /\ t.failures = route[j].failures
      BY <1>a, <2>2 DEF Routes
    <3>2. /\ route' = [route EXCEPT ![j] = t]
          /\ stage' = [stage EXCEPT ![j] = "failed"]
          /\ failed' = [failed EXCEPT ![p] = @ + 1]
      BY <1>b, <1>7, <2>2, <2>4 DEF Call, GoTo, TypeOK
    <3> HIDE DEF t
    <3>3. failed' \in [Providers -> Nat] /\ \A q \in Providers : failed[q] <= failed'[q]
      BY <1>b, <3>2 DEF TypeOK
    <3>4. failed'[p] = failed[p] + 1 /\ failed[p] \in Nat
      BY <1>b, <3>2 DEF TypeOK
    <3>5. t.failures \in Nat /\ t.failures <= failed[p]
      BY <1>a, <1>b, <2>2, <3>1 DEF CountsAreOld, Routes
    <3>6. t.failures <= failed'[p] /\ t.failures + 1 <= failed'[p]
      BY <3>4, <3>5
    <3> QED
      BY <1>b, <3>1, <3>2, <3>3, <3>6, CountsStep
  <2> QED
    BY <1>7, <2>3, <2>4 DEF Call
<1>8. CASE RecordSuccess(j)
  BY <1>b, <1>8, CountsEnd DEF RecordSuccess
<1>9. CASE RecordFailure(j)
  <2>1. UNCHANGED failed
    BY <1>9 DEF RecordFailure
  <2>2. CASE End(j)
    BY <1>b, <2>1, <2>2, CountsEnd
  <2>3. CASE ~End(j)
    <3> DEFINE t == [route[j] EXCEPT !.failures = 0]
    <3>1. t \in Routes /\ t.failures = 0
      BY <1>a DEF Routes
    <3>2. /\ route' = [route EXCEPT ![j] = t]
          /\ stage' = [stage EXCEPT ![j] = "again"]
      BY <1>9, <2>3 DEF RecordFailure, GoTo
    <3> HIDE DEF t
    <3> QED
      BY <1>b, <2>1, <3>1, <3>2, CountsEdit
  <2> QED
    BY <2>2, <2>3
<1>10. CASE SelectAgain(j)
  <2>1. route[j].service \in Services
    BY <1>a DEF Routes
  <2> QED
    BY <1>10, <2>1, SelectCounts DEF SelectAgain
<1>11. CASE TouchAgain(j)
  BY <1>11, <1>k DEF TouchAgain, GoTo
<1>12. CASE MoveTask(j)
  <2>1. stage[j] = "move" /\ route[j].provider \in Providers
    BY <1>b, <1>12 DEF MoveTask, TypeOK, WorkerStages
  <2>2. CASE UNCHANGED route
    BY <1>12, <2>2, <1>k DEF MoveTask, GoTo
  <2>3. CASE ~UNCHANGED route
    <3> DEFINE t == [route[j] EXCEPT !.task = route[j].provider]
    <3>1. /\ t \in Routes
          /\ t.provider = route[j].provider /\ t.failures = route[j].failures
      BY <1>a, <2>1 DEF Routes
    <3>2. /\ route' = [route EXCEPT ![j] = t]
          /\ stage' = [stage EXCEPT ![j] = "call"]
          /\ UNCHANGED failed
      BY <1>12, <2>3 DEF MoveTask, GoTo
    <3> HIDE DEF t
    <3> QED
      BY <1>b, <3>1, <3>2, CountsEdit
  <2> QED
    BY <2>2, <2>3
<1> QED
  BY <1>1, <1>2, <1>3, <1>4, <1>5, <1>6, <1>7, <1>8, <1>9, <1>10, <1>11, <1>12
  DEF RequestStep, WorkerStep

\* The steps that write the health of a provider: the count is that of a job that
\* failed, which CountsAreOld bounds.
LEMMA RecordFailureHealth ==
  ASSUME HealthInv, NEW j \in Jobs, RecordFailure(j)
  PROVE  HealthIsEarned'
<1> USE DEF HealthInv
<1>1. stage[j] = "failed" /\ route[j].provider \in Providers /\ UNCHANGED failed
  BY DEF RecordFailure, TypeOK, WorkerStages
<1>2. PICK p \in Providers : p = route[j].provider
  BY <1>1
<1>3. PICK count \in Nat : count = route[j].failures + 1
  <2>1. route[j] \in Routes
    BY DEF TypeOK
  <2> HIDE DEF HealthInv
  <2> QED
    BY <2>1 DEF Routes
<1>4. count <= failed[p]
  BY <1>1, <1>2, <1>3 DEF CountsAreOld
<1>5. CASE UNCHANGED <<failures, cooling>>
  BY <1>1, <1>5 DEF HealthIsEarned
<1>6. CASE /\ failures' = [failures EXCEPT ![p] = count]
           /\ cooling' = [cooling EXCEPT ![p] = CoolsDown(count)]
  <2> SUFFICES ASSUME NEW q \in Providers
               PROVE  /\ failures'[q] <= failed[q]
                      /\ cooling'[q] => failed[q] >= CooldownFailures
    BY <1>1 DEF HealthIsEarned
  <2>1. CASE q # p
    BY <1>6, <2>1 DEF HealthIsEarned, TypeOK
  <2>2. CASE q = p
    <3>1. failures'[q] = count /\ cooling'[q] = CoolsDown(count)
      BY <1>6, <2>2 DEF TypeOK
    <3>2. CoolsDown(count) => failed[p] >= CooldownFailures
      <4>1. failed[p] \in Nat
        BY DEF TypeOK
      <4> QED
        BY <1>4, <4>1 DEF CoolsDown, CooldownFailures
    <3> QED
      BY <1>4, <2>2, <3>1, <3>2
  <2> QED
    BY <2>1, <2>2
<1> QED
  BY <1>2, <1>3, <1>5, <1>6 DEF RecordFailure

LEMMA HealthStep ==
  ASSUME HealthInv, [Next]_vars
  PROVE  HealthIsEarned'
<1> USE DEF HealthInv
<1>1. ASSUME UNCHANGED <<failures, cooling, failed>> PROVE HealthIsEarned'
  BY <1>1 DEF HealthIsEarned
<1>2. ASSUME NEW j \in Jobs, RequestStep(j) \/ WorkerStep(j) PROVE HealthIsEarned'
  <2>1. CASE Call(j)
    <3>1. PICK p : failed' = [failed EXCEPT ![p] = @ + 1] \/ failed' = failed
      BY <2>1 DEF Call
    <3>2. UNCHANGED <<failures, cooling>>
      BY <2>1 DEF Call, providerVars
    <3> QED
      BY <3>1, <3>2 DEF HealthIsEarned, TypeOK, CooldownFailures
  <2>2. CASE RecordSuccess(j)
    BY <2>2 DEF RecordSuccess, HealthIsEarned, TypeOK
  <2>3. CASE RecordFailure(j)
    BY <2>3, RecordFailureHealth
  <2> QED
    BY <1>1, <1>2, <2>1, <2>2, <2>3
    DEF RequestStep, WorkerStep, Ask, SelectProvider, Touch, Insert, TimeOut, Claim,
        Load, SelectAgain, TouchAgain, MoveTask, providerVars
<1>3. ASSUME NEW p \in Providers, CooldownEnds(p) PROVE HealthIsEarned'
  BY <1>3 DEF CooldownEnds, HealthIsEarned, TypeOK
<1>4. ASSUME NEW p \in Deletions, CountForDelete(p) PROVE HealthIsEarned'
  BY <1>1, <1>4 DEF CountForDelete, providerVars
<1>5. ASSUME NEW e \in Edits, Upsert(e) PROVE HealthIsEarned'
  BY <1>5 DEF Upsert, HealthIsEarned, TypeOK
<1>6. CASE Delete
  BY <1>1, <1>6 DEF Delete
<1>7. CASE UNCHANGED vars
  BY <1>1, <1>7 DEF vars, providerVars
<1> QED
  BY <1>2, <1>3, <1>4, <1>5, <1>6, <1>7 DEF Next

LEMMA HealthInvStep == HealthInv /\ [Next]_vars => HealthInv'
<1> SUFFICES ASSUME HealthInv, [Next]_vars PROVE HealthInv'
  OBVIOUS
<1>1. TypeOK'
  BY TypeStep DEF HealthInv
<1>2. HealthIsEarned'
  BY HealthStep
<1>3. CountsAreOld'
  <2>1. ASSUME UNCHANGED <<stage, route, failed>> PROVE CountsAreOld'
    BY <2>1 DEF HealthInv, CountsAreOld
  <2> QED
    BY <2>1, JobStepCounts
    DEF Next, CooldownEnds, CountForDelete, Upsert, Delete, vars, providerVars
<1> QED
  BY <1>1, <1>2, <1>3 DEF HealthInv

LEMMA HealthInit == Init => HealthInv
<1> SUFFICES ASSUME Init PROVE HealthInv
  OBVIOUS
<1>1. \A j \in Jobs : route[j].provider \notin Providers
  BY DEF Init, NoRoute
<1>2. CountsAreOld
  BY <1>1 DEF CountsAreOld
<1>3. HealthIsEarned
  BY DEF Init, HealthIsEarned
<1> QED
  BY <1>2, <1>3, TypeInit DEF HealthInv

----------------------------------------------------------------------------
LEMMA BucketsHigh ==
  ASSUME NEW service, NEW tier, IsHigh(tier), NEW b,
         b \in Range(CandidateBuckets(service, tier))
  PROVE  service = HD /\ b = "hd"
BY DEF CandidateBuckets, Range

LEMMA BucketsLow ==
  ASSUME NEW service, NEW tier, ~IsHigh(tier)
  PROVE  CandidateBuckets(service, tier) = <<"1k", "hd">>
BY DEF CandidateBuckets

\* A provider of the other bucket comes before an HD one.
LEMMA OthersFirst ==
  ASSUME NEW p \in Providers, NEW q \in Providers,
         provider[p].bucket = "hd", provider[q].bucket = "1k"
  PROVE  Precedes(q, p, <<"1k", "hd">>)
<1> DEFINE buckets == <<"1k", "hd">>
           position(r) == CHOOSE n \in DOMAIN buckets : buckets[n] = provider[r].bucket
<1>1. DOMAIN buckets = {1, 2} /\ buckets[1] = "1k" /\ buckets[2] = "hd"
  OBVIOUS
<1>2. position(p) = 2
  BY <1>1
<1>3. position(q) = 1
  BY <1>1
<1> QED
  BY <1>2, <1>3 DEF Precedes

LEMMA SelectTier ==
  ASSUME TypeOK, NEW j \in Jobs, NEW service \in Services,
         NEW onward \in {"touch", "retouch"}, SelectProvider(j, service, onward),
         stage'[j] \in {"touch", "retouch"}, NEW p, p = route'[j].provider
  PROVE  /\ IsHigh(Tier[j]) => provider[p].bucket = "hd" /\ route'[j].service = HD
         /\ ~IsHigh(Tier[j]) /\ provider[p].bucket = "hd" =>
              \A q \in Providers \ route[j].tried :
                provider[q].bucket = "hd" \/ provider[q].status # "active" \/ cooling[q]
<1> DEFINE buckets == CandidateBuckets(service, Tier[j])
<1>1. ~End(j)
  BY DEF End, GoTo, TypeOK
<1>2. PICK b \in Best(buckets, route[j].tried) :
        route' = [route EXCEPT ![j].service = service, ![j].provider = b,
                               ![j].failures = failures[b]]
  BY <1>1 DEF SelectProvider
<1>3. route[j] \in Routes
  BY DEF TypeOK
<1>4. p = b /\ route'[j].service = service
  BY <1>2, <1>3 DEF TypeOK, Routes
<1>5. p \in Usable(buckets, route[j].tried) /\ p \in Providers
  BY <1>2, <1>4 DEF Best, Usable
<1>6. ASSUME IsHigh(Tier[j])
      PROVE  provider[p].bucket = "hd" /\ route'[j].service = HD
  BY <1>4, <1>5, <1>6, BucketsHigh DEF Usable
<1>7. ASSUME ~IsHigh(Tier[j]), provider[p].bucket = "hd",
             NEW q \in Providers \ route[j].tried,
             provider[q].status = "active", ~cooling[q]
      PROVE  provider[q].bucket = "hd"
  <2>1. SUFFICES ASSUME provider[q].bucket # "hd" PROVE FALSE
    OBVIOUS
  <2>2. provider[q].bucket = "1k"
    BY <2>1 DEF TypeOK, Buckets
  <2>3. buckets = <<"1k", "hd">>
    BY <1>7, BucketsLow
  <2>4. q \in Usable(buckets, route[j].tried)
    <3>1. "1k" \in Range(<<"1k", "hd">>)
      BY DEF Range
    <3> QED
      BY <1>7, <2>2, <2>3, <3>1 DEF Usable
  <2>5. ~Precedes(q, p, buckets)
    BY <1>2, <1>4, <2>4 DEF Best
  <2> QED
    BY <1>5, <1>7, <2>2, <2>3, <2>5, OthersFirst
<1> QED
  BY <1>6, <1>7

\* docs/deployment.md: a 2K or 4K image is only made by an HD provider of the HD
\* service, a 1K image by one only where no other is usable, also by the fallback.
THEOREM TierServed == Spec => TierIsServed
<1>1. ASSUME TypeOK, [Next]_vars,
             NEW j \in Jobs, stage'[j] # stage[j], stage'[j] \in {"touch", "retouch"}
      PROVE  LET p == route'[j].provider IN
             /\ IsHigh(Tier[j]) => provider[p].bucket = "hd" /\ route'[j].service = HD
             /\ ~IsHigh(Tier[j]) /\ provider[p].bucket = "hd" =>
                  \A q \in Providers \ route[j].tried :
                    provider[q].bucket = "hd" \/ provider[q].status # "active" \/ cooling[q]
  <2>1. PICK i \in Jobs : RequestStep(i) \/ WorkerStep(i)
    BY <1>1 DEF Next, CooldownEnds, CountForDelete, Upsert, Delete, vars
  <2>2. i = j
    BY <1>1, <2>1 DEF TypeOK, RequestStep, WorkerStep, Ask, SelectProvider, Touch, Insert,
       TimeOut, Claim, Load, Call, RecordSuccess, RecordFailure, SelectAgain, TouchAgain,
       MoveTask, End, GoTo
  <2>3. Ask(j) \/ SelectAgain(j)
    BY <1>1, <2>1, <2>2 DEF TypeOK, RequestStep, WorkerStep, Touch, Insert, TimeOut, Claim,
       Load, Call, RecordSuccess, RecordFailure, TouchAgain, MoveTask, End, GoTo
  <2>4. PICK service \in Services : \E onward \in {"touch", "retouch"} :
          SelectProvider(j, service, onward)
    <3>1. route[j].service \in Services
      BY <1>1 DEF TypeOK, Routes
    <3> QED
      BY <2>3, <3>1, SelectedServices DEF Ask, SelectAgain
  <2> QED
    BY <1>1, <2>4, SelectTier
<1>2. TypeOK /\ [Next]_vars =>
       [\A j \in Jobs :
         stage'[j] # stage[j] /\ stage'[j] \in {"touch", "retouch"} =>
           LET p == route'[j].provider IN
           /\ IsHigh(Tier[j]) => provider[p].bucket = "hd" /\ route'[j].service = HD
           /\ ~IsHigh(Tier[j]) /\ provider[p].bucket = "hd" =>
                \A q \in Providers \ route[j].tried :
                  provider[q].bucket = "hd" \/ provider[q].status # "active" \/ cooling[q]
       ]_vars
  BY <1>1
<1> QED
  BY TypeInit, TypeStep, <1>2, PTL DEF Spec, TierIsServed

\* Whatever stale counts workers write back, a provider is put on cooldown only
\* after two calls to it failed.
THEOREM HealthEarned == Spec => []HealthIsEarned
<1>1. HealthInv => HealthIsEarned
  BY DEF HealthInv
<1> QED
  BY HealthInit, HealthInvStep, <1>1, PTL DEF Spec

\* Every variable keeps its type, and whoever calls has a provider.
THEOREM TypeCorrect == Spec => []TypeOK
BY TypeInit, TypeStep, PTL DEF Spec

----------------------------------------------------------------------------
(***************************************************************************)
(* The connection pool                                                     *)
(***************************************************************************)

\* No more tasks are with workers than there are workers.
ClaimedInv == Cardinality(Claimed) <= Workers

LEMMA JobsAreFinite ==
  ASSUME NEW S \in SUBSET Jobs
  PROVE  IsFiniteSet(S) /\ Cardinality(S) \in Nat
BY FS_Subset, FS_CardinalityType

\* Only a claim brings a task to a worker.
LEMMA ClaimedStep ==
  ASSUME TypeOK, ClaimedInv, [Next]_vars
  PROVE  ClaimedInv'
<1>1. ASSUME \A j \in Jobs : stage'[j] \in WorkerStages => stage[j] \in WorkerStages
      PROVE  ClaimedInv'
  <2>1. Claimed' \subseteq Claimed
    BY <1>1 DEF Claimed
  <2>2. Cardinality(Claimed') <= Cardinality(Claimed)
    BY <2>1, JobsAreFinite, FS_Subset DEF Claimed
  <2>3. Claimed \in SUBSET Jobs /\ Claimed' \in SUBSET Jobs
    BY DEF Claimed
  <2>4. Cardinality(Claimed) \in Nat /\ Cardinality(Claimed') \in Nat
    BY <2>3, JobsAreFinite
  <2> QED
    BY <2>2, <2>4 DEF ClaimedInv
<1>2. ASSUME NEW j \in Jobs, Claim(j) PROVE ClaimedInv'
  <2>1. Cardinality(Claimed) < Workers /\ stage' = [stage EXCEPT ![j] = "load"]
    BY <1>2 DEF Claim, GoTo
  <2>2. Claimed' = Claimed \cup {j}
    BY <2>1 DEF TypeOK, Claimed, WorkerStages
  <2>3. IsFiniteSet(Claimed) /\ Cardinality(Claimed) \in Nat
    BY JobsAreFinite DEF Claimed
  <2>4. \/ Cardinality(Claimed \cup {j}) = Cardinality(Claimed)
        \/ Cardinality(Claimed \cup {j}) = Cardinality(Claimed) + 1
    BY <2>3, FS_AddElement
  <2> QED
    BY <2>1, <2>2, <2>3, <2>4 DEF ClaimedInv
<1>3. ASSUME NEW j \in Jobs, RequestStep(j) \/ WorkerStep(j), ~Claim(j)
      PROVE  ClaimedInv'
  <2>1. \A i \in Jobs : i # j => stage'[i] = stage[i]
    BY <1>3 DEF TypeOK, RequestStep, WorkerStep, Ask, SelectProvider, Touch, Insert, TimeOut,
       Load, Call, RecordSuccess, RecordFailure, SelectAgain, TouchAgain, MoveTask, End, GoTo
  <2>2. stage'[j] \in WorkerStages => stage[j] \in WorkerStages
    BY <1>3 DEF TypeOK, WorkerStages, RequestStep, WorkerStep, Ask, SelectProvider, Touch,
       Insert, TimeOut, Load, Call, RecordSuccess, RecordFailure, SelectAgain, TouchAgain,
       MoveTask, End, GoTo
  <2> QED
    BY <1>1, <2>1, <2>2
<1>4. ASSUME UNCHANGED stage PROVE ClaimedInv'
  BY <1>1, <1>4
<1> QED
  BY <1>2, <1>3, <1>4 DEF Next, CooldownEnds, CountForDelete, Upsert, Delete, vars

\* Where no request holds a connection only workers do, of which there are fewer
\* than connections.
LEMMA WorkersAreFewer == ClaimedInv => WorkersLeaveConnections
<1> SUFFICES ASSUME ClaimedInv, \A j \in Jobs : stage[j] # "touch" PROVE ConnectionFree
  BY DEF WorkersLeaveConnections
<1>1. Holding \subseteq Claimed
  BY DEF Holding, Claimed, WorkerStages
<1>2. Claimed \in SUBSET Jobs /\ Holding \in SUBSET Jobs
  BY DEF Holding, Claimed
<1>3. /\ Cardinality(Holding) <= Cardinality(Claimed)
      /\ Cardinality(Holding) \in Nat /\ Cardinality(Claimed) \in Nat
  BY <1>1, <1>2, JobsAreFinite, FS_Subset
<1> QED
  BY <1>3 DEF ConnectionFree, ClaimedInv

\* With more connections than workers the pool is never exhausted by workers
\* alone: a request, which gives up, is among those that wait.
THEOREM PoolSurvivesWorkers == Spec => []WorkersLeaveConnections
<1>1. Init => ClaimedInv
  <2> SUFFICES ASSUME Init PROVE ClaimedInv
    OBVIOUS
  <2>1. Claimed = {}
    BY DEF Init, Claimed, WorkerStages
  <2> QED
    BY <2>1, FS_EmptySet DEF ClaimedInv
<1>2. TypeOK /\ ClaimedInv /\ [Next]_vars => ClaimedInv'
  BY ClaimedStep
<1> QED
  BY <1>1, <1>2, WorkersAreFewer, TypeCorrect, PTL DEF Spec
=============================================================================
