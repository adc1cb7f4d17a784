------------------------ MODULE TaskLifecycleProofs ------------------------
(***************************************************************************)
(* Proofs about TaskLifecycle, for every set of tasks, accounts, providers *)
(* and processes, every cost, grant and limit.                             *)
(***************************************************************************)
EXTENDS TaskLifecycle, FiniteSetTheorems, TLAPS

----------------------------------------------------------------------------
(***************************************************************************)
(* Type correctness                                                        *)
(***************************************************************************)

\* Giving back the cost of a set of tasks keeps a balance a natural number.
LEMMA RefundIsNatural ==
  ASSUME NEW S, S \subseteq Tasks, NEW b \in Nat, NEW a \in Accounts
  PROVE  b + Cost[a] * Cardinality(S) \in Nat
<1>1. IsFiniteSet(S)
  BY TasksAssumption, FS_Subset
<1>2. Cardinality(S) \in Nat
  BY <1>1, FS_CardinalityType
<1>3. Cost[a] \in Nat
  BY CostAssumption
<1>4. Cost[a] * Cardinality(S) \in Nat
  BY <1>2, <1>3
<1> QED
  BY <1>4

LEMMA WorkerInstance ==
  ASSUME NEW w \in Workers
  PROVE  w[1] \in Instances
BY DEF Workers

LEMMA InitType == Init => TypeOK
<1> SUFFICES ASSUME Init PROVE TypeOK
  OBVIOUS
<1>1. (CHOOSE a \in Accounts : TRUE) \in Accounts
  BY RowsAssumption
<1>2. (CHOOSE p \in Profiles : TRUE) \in Profiles
  BY RowsAssumption
<1>3. account \in [Tasks -> Accounts] /\ profile \in [Tasks -> Profiles]
  BY <1>1, <1>2 DEF Init
<1>4. held \in [Workers -> Copies]
  BY DEF Init, Copies, NoCopy
<1>5. \A w \in Workers : ~Busy(w)
  BY DEF Init, Busy
<1> QED
  BY <1>3, <1>4, <1>5, CostAssumption DEF Init, TypeOK, Statuses, Stages

\* The part of the type invariant that is about workers.
WorkerType ==
  /\ pc \in [Workers -> Stages]
  /\ held \in [Workers -> Copies]
  /\ \A w \in Workers :
       Busy(w) => held[w].task \in Tasks /\ held[w].profile \in Profiles

\* Dropping a task leaves the worker polling with an empty copy.
LEMMA DropType ==
  ASSUME TypeOK, NEW w \in Workers, Drop(w)
  PROVE  WorkerType'
BY DEF TypeOK, WorkerType, Busy, Drop, Stages, Copies, NoCopy

\* Going on to another stage with the same copy keeps the type.
LEMMA AdvanceType ==
  ASSUME TypeOK, NEW w \in Workers, Busy(w), NEW s \in Stages,
         pc' = [pc EXCEPT ![w] = s], held' = held
  PROVE  WorkerType'
BY DEF TypeOK, WorkerType, Busy, Stages

LEMMA StepType == TypeOK /\ [Next]_vars => TypeOK'
<1> SUFFICES ASSUME TypeOK, [Next]_vars PROVE TypeOK'
  OBVIOUS
<1>1. ASSUME NEW t \in Tasks, NEW a \in Accounts, NEW p \in Profiles,
             CreateTask(t, a, p)
      PROVE  TypeOK'
  <2>1. balance[a] \in Nat /\ Cost[a] \in Nat
    BY CostAssumption DEF TypeOK
  <2>2. balance[a] >= Cost[a]
    BY <1>1 DEF CreateTask
  <2>3. balance[a] - Cost[a] \in Nat
    BY <2>1, <2>2
  <2>4. balance' \in [Accounts -> Nat]
    BY <1>1, <2>3 DEF TypeOK, CreateTask
  <2> QED
    BY <1>1, <2>4 DEF TypeOK, CreateTask, Statuses, Busy
<1>2. ASSUME NEW t \in Tasks, Age(t) PROVE TypeOK'
  BY <1>2 DEF TypeOK, Age, Busy
<1>3. ASSUME NEW w \in Workers, WorkerStep(w) PROVE TypeOK'
  <2>1. ASSUME NEW t \in Tasks, Claim(w, t) PROVE TypeOK'
    <3> DEFINE copy == [task |-> t, reserved |-> reserved[t],
                        charged |-> charged[t], tried |-> {},
                        profile |-> profile[t]]
    <3>1. copy \in Copies /\ copy.task \in Tasks /\ copy.profile \in Profiles
      BY DEF TypeOK, Copies
    <3>2. held' = [held EXCEPT ![w] = copy] /\ pc' = [pc EXCEPT ![w] = "load"]
      BY <2>1 DEF Claim
    <3> HIDE DEF copy
    <3>3. WorkerType'
      BY <3>1, <3>2 DEF TypeOK, WorkerType, Busy, Stages
    <3> QED
      BY <2>1, <3>3 DEF TypeOK, WorkerType, Claim, Statuses
  <2>2. ASSUME Load(w) PROVE TypeOK'
    <3>1. WorkerType'
      BY <2>2, AdvanceType DEF Load, Busy, Stages
    <3>2. UNCHANGED <<instance, rowVars, balance, refunds>>
      BY <2>2 DEF Load
    <3> QED
      BY <3>1, <3>2 DEF TypeOK, WorkerType, rowVars
  <2>3. ASSUME CallSucceeds(w) PROVE TypeOK'
    <3>1. WorkerType'
      BY <2>3, AdvanceType DEF CallSucceeds, Busy, Stages
    <3> QED
      BY <2>3, <3>1 DEF TypeOK, WorkerType, CallSucceeds, rowVars
  <2>4. ASSUME NEW p \in Profiles, CallFallsBack(w, p) PROVE TypeOK'
    <3>1. held[w] \in Copies /\ held[w].task \in Tasks
          /\ Tried(w) \in SUBSET Profiles
      BY <2>4 DEF TypeOK, CallFallsBack, Busy, Tried, Copies
    <3>2. held' = [held EXCEPT ![w].tried = Tried(w), ![w].profile = p] /\ pc' = pc
      BY <2>4 DEF CallFallsBack
    <3> HIDE DEF Tried
    <3>3. WorkerType'
      BY <3>1, <3>2 DEF TypeOK, WorkerType, Busy, Copies
    <3>4. profile' \in [Tasks -> Profiles] /\ stale' \in [Tasks -> BOOLEAN]
      <4>1. \/ /\ profile' = [profile EXCEPT ![held[w].task] = p]
               /\ stale' = [stale EXCEPT ![held[w].task] = FALSE]
            \/ profile' = profile /\ stale' = stale
        BY <2>4 DEF CallFallsBack
      <4>2. profile \in [Tasks -> Profiles] /\ stale \in [Tasks -> BOOLEAN]
        BY DEF TypeOK
      <4> QED
        BY <4>1, <4>2
    <3>5. UNCHANGED <<instance, status, account, reserved, charged, balance, refunds>>
      BY <2>4 DEF CallFallsBack
    <3> QED
      BY <3>3, <3>4, <3>5 DEF TypeOK, WorkerType
  <2>5. ASSUME CallGivesUp(w) PROVE TypeOK'
    <3>1. held[w] \in Copies /\ Tried(w) \in SUBSET Profiles
      BY <2>5 DEF TypeOK, CallGivesUp, Busy, Tried, Copies
    <3>2. Busy(w)
      BY <2>5 DEF CallGivesUp, Busy
    <3>3. /\ held' = [held EXCEPT ![w].tried = Tried(w)]
          /\ pc' = [pc EXCEPT ![w] = "fail"]
      BY <2>5 DEF CallGivesUp
    <3> HIDE DEF Tried
    <3>4. WorkerType'
      BY <3>1, <3>2, <3>3 DEF TypeOK, WorkerType, Busy, Copies, Stages
    <3> QED
      BY <2>5, <3>4 DEF TypeOK, WorkerType, CallGivesUp, rowVars
  <2>6. ASSUME Store(w) PROVE TypeOK'
    <3>1. WorkerType'
      BY <2>6, AdvanceType DEF Store, Busy, Stages
    <3>2. UNCHANGED <<instance, rowVars, balance, refunds>>
      BY <2>6 DEF Store
    <3> QED
      BY <3>1, <3>2 DEF TypeOK, WorkerType, rowVars
  <2>7. ASSUME Finish(w) PROVE TypeOK'
    BY <2>7, DropType DEF TypeOK, WorkerType, Finish, Statuses
  <2>8. ASSUME FailMark(w) PROVE TypeOK'
    <3>1. WorkerType'
      BY <2>8, DropType, AdvanceType DEF FailMark, Busy, Stages
    <3> QED
      BY <2>8, <3>1 DEF TypeOK, WorkerType, FailMark, Statuses
  <2>9. ASSUME FailRefund(w) PROVE TypeOK'
    <3> DEFINE t == held[w].task
               a == account[t]
    <3>1. t \in Tasks /\ a \in Accounts
      BY <2>9 DEF TypeOK, FailRefund, Busy
    <3>2. balance[a] + Cost[a] \in Nat
      BY <3>1, CostAssumption DEF TypeOK
    <3>3. balance' \in [Accounts -> Nat] /\ refunds' \in [Tasks -> Nat]
      BY <2>9, <3>1, <3>2 DEF TypeOK, FailRefund
    <3>4. WorkerType'
      BY <2>9, AdvanceType DEF FailRefund, Busy, Stages
    <3> QED
      BY <2>9, <3>3, <3>4 DEF TypeOK, WorkerType, FailRefund, rowVars
  <2>10. ASSUME FailRelease(w) PROVE TypeOK'
    BY <2>10, DropType DEF TypeOK, WorkerType, FailRelease
  <2> QED
    BY <1>3, <2>1, <2>2, <2>3, <2>4, <2>5, <2>6, <2>7, <2>8, <2>9, <2>10
    DEF WorkerStep
<1>4. ASSUME NEW i \in Instances, Start(i) PROVE TypeOK'
  <2>1. WorkerType'
    BY <1>4 DEF TypeOK, Start, WorkerType, Busy, Stages
  <2>2. instance' \in [Instances -> {"new", "up", "down"}]
    BY <1>4 DEF TypeOK, Start
  <2>3. account' = account /\ profile' = profile /\ charged' = charged
    BY <1>4 DEF Start
  <2>4. CASE Recover
    <3>1. balance' \in [Accounts -> Nat]
      <4>1. ASSUME NEW a \in Accounts
            PROVE  balance[a] + Cost[a] * Cardinality({t \in Abandoned : account[t] = a})
                     \in Nat
        <5>1. {t \in Abandoned : account[t] = a} \subseteq Tasks
          BY DEF Abandoned, Running
        <5>2. balance[a] \in Nat
          BY DEF TypeOK
        <5> QED
          BY <5>1, <5>2, RefundIsNatural
      <4> QED
        BY <2>4, <4>1 DEF Recover
    <3>2. /\ status' \in [Tasks -> Statuses]
          /\ reserved' \in [Tasks -> BOOLEAN]
          /\ stale' \in [Tasks -> BOOLEAN]
          /\ refunds' \in [Tasks -> Nat]
      BY <2>4 DEF TypeOK, Recover, Statuses
    <3> QED
      BY <2>1, <2>2, <2>3, <3>1, <3>2 DEF TypeOK, WorkerType
  <2>5. CASE UNCHANGED <<status, reserved, stale, balance, refunds>>
    BY <2>1, <2>2, <2>3, <2>5 DEF TypeOK, WorkerType
  <2> QED
    BY <1>4, <2>4, <2>5 DEF Start
<1>5. ASSUME NEW i \in Instances, Stop(i) PROVE TypeOK'
  <2>1. WorkerType'
    BY <1>5 DEF TypeOK, Stop, WorkerType, Busy, Stages, Copies, NoCopy
  <2> QED
    BY <1>5, <2>1 DEF TypeOK, WorkerType, Stop, rowVars
<1>6. CASE UNCHANGED vars
  BY <1>6 DEF TypeOK, vars, rowVars, Busy
<1> QED
  BY <1>1, <1>2, <1>3, <1>4, <1>5, <1>6 DEF Next

\* Every variable keeps its type in every behaviour of requests, workers,
\* crashes and recoveries.
THEOREM TypeCorrect == Spec => []TypeOK
<1>1. Init => TypeOK
  BY InitType
<1>2. TypeOK /\ [Next]_vars => TypeOK'
  BY StepType
<1> QED
  BY <1>1, <1>2, PTL DEF Spec

----------------------------------------------------------------------------
(***************************************************************************)
(* Exclusive execution, whatever overlaps, crashes or is lost              *)
(***************************************************************************)

\* Only a running process has workers; a task somebody executes has left the
\* queue for good; and nobody else executes it.
ExclusiveInv ==
  /\ \A w \in Workers : pc[w] # "off" => instance[w[1]] = "up"
  /\ \A w \in Workers : Busy(w) => status[held[w].task] \notin {"none", "queued"}
  /\ ExclusiveExecution

\* No step puts a task back in the queue.
LEMMA QueueIsLeftOnce ==
  ASSUME TypeOK, [Next]_vars, NEW t \in Tasks,
         status[t] \notin {"none", "queued"}
  PROVE  status'[t] \notin {"none", "queued"}
<1>1. ASSUME NEW u \in Tasks, NEW a \in Accounts, NEW p \in Profiles,
             CreateTask(u, a, p)
      PROVE  status'[t] \notin {"none", "queued"}
  BY <1>1 DEF TypeOK, CreateTask
<1>2. ASSUME NEW u \in Tasks, Age(u) PROVE status'[t] \notin {"none", "queued"}
  BY <1>2 DEF Age
<1>3. ASSUME NEW w \in Workers, WorkerStep(w)
      PROVE  status'[t] \notin {"none", "queued"}
  BY <1>3 DEF TypeOK, WorkerStep, Claim, Load, CallSucceeds, CallFallsBack,
     CallGivesUp, Store, Finish, FailMark, FailRefund, FailRelease, rowVars
<1>4. ASSUME NEW i \in Instances, Start(i)
      PROVE  status'[t] \notin {"none", "queued"}
  BY <1>4 DEF TypeOK, Start, Recover
<1>5. ASSUME NEW i \in Instances, Stop(i)
      PROVE  status'[t] \notin {"none", "queued"}
  BY <1>5 DEF Stop, rowVars
<1>6. CASE UNCHANGED vars
  BY <1>6 DEF vars, rowVars
<1> QED
  BY <1>1, <1>2, <1>3, <1>4, <1>5, <1>6 DEF Next

\* A worker that is busy after a step was busy with the same task before it, or
\* has just claimed its task; only one worker moves.
LEMMA BusyWorkers ==
  ASSUME TypeOK, [Next]_vars,
         \A w \in Workers : pc[w] # "off" => instance[w[1]] = "up"
  PROVE  \/ \A w \in Workers : Busy(w)' => Busy(w) /\ held'[w].task = held[w].task
         \/ \E v \in Workers, t \in Tasks :
              /\ Claim(v, t)
              /\ \A w \in Workers \ {v} :
                   Busy(w)' => Busy(w) /\ held'[w].task = held[w].task
<1> DEFINE Same(w) == Busy(w)' => Busy(w) /\ held'[w].task = held[w].task
<1>1. ASSUME NEW u \in Tasks, NEW a \in Accounts, NEW p \in Profiles,
             CreateTask(u, a, p)
      PROVE  \A w \in Workers : Same(w)
  BY <1>1 DEF CreateTask, Busy
<1>2. ASSUME NEW u \in Tasks, Age(u) PROVE \A w \in Workers : Same(w)
  BY <1>2 DEF Age, Busy
<1>3. ASSUME NEW v \in Workers, NEW t \in Tasks, Claim(v, t)
      PROVE  \A w \in Workers \ {v} : Same(w)
  BY <1>3 DEF TypeOK, Claim, Busy
<1>4. ASSUME NEW v \in Workers, WorkerStep(v), ~ \E t \in Tasks : Claim(v, t)
      PROVE  \A w \in Workers : Same(w)
  <2>1. CASE Drop(v) /\ Busy(v)
    BY <2>1 DEF TypeOK, Drop, Busy
  <2>2. CASE /\ Busy(v)
             /\ held' = held
             /\ \E s \in Stages : pc' = [pc EXCEPT ![v] = s]
    BY <2>2 DEF TypeOK, Busy
  <2>3. CASE \E p \in Profiles : CallFallsBack(v, p)
    BY <2>3 DEF TypeOK, Copies, CallFallsBack, Busy
  <2>4. CASE CallGivesUp(v)
    BY <2>4 DEF TypeOK, Copies, CallGivesUp, Busy
  <2>5. CASE Finish(v) \/ FailMark(v) \/ FailRelease(v)
    BY <2>1, <2>2, <2>5 DEF Finish, FailMark, FailRelease, Busy, Stages
  <2>6. CASE Load(v) \/ CallSucceeds(v) \/ Store(v) \/ FailRefund(v)
    BY <2>2, <2>6 DEF Load, CallSucceeds, Store, FailRefund, Busy, Stages
  <2> QED
    BY <1>4, <2>3, <2>4, <2>5, <2>6 DEF WorkerStep
<1>5. ASSUME NEW i \in Instances, Start(i) PROVE \A w \in Workers : Same(w)
  BY <1>5 DEF TypeOK, Start, Busy
<1>6. ASSUME NEW i \in Instances, Stop(i) PROVE \A w \in Workers : Same(w)
  BY <1>6 DEF TypeOK, Stop, Busy
<1>7. CASE UNCHANGED vars
  BY <1>7 DEF vars, Busy
<1> QED
  BY <1>1, <1>2, <1>3, <1>4, <1>5, <1>6, <1>7 DEF Next

\* Workers run only while their process does.
LEMMA OffWhenDown ==
  ASSUME TypeOK, [Next]_vars,
         \A w \in Workers : pc[w] # "off" => instance[w[1]] = "up"
  PROVE  \A w \in Workers : pc'[w] # "off" => instance'[w[1]] = "up"
<1>1. ASSUME NEW v \in Workers, WorkerStep(v)
      PROVE  /\ instance' = instance
             /\ \A w \in Workers : pc'[w] # "off" => pc[w] # "off"
  BY <1>1 DEF TypeOK, WorkerStep, Claim, Load, CallSucceeds, CallFallsBack,
     CallGivesUp, Store, Finish, FailMark, FailRefund, FailRelease, Drop
<1>2. ASSUME NEW i \in Instances, Start(i)
      PROVE  \A w \in Workers : pc'[w] # "off" => instance'[w[1]] = "up"
  BY <1>2, WorkerInstance DEF TypeOK, Start
<1>3. ASSUME NEW i \in Instances, Stop(i)
      PROVE  \A w \in Workers : pc'[w] # "off" => instance'[w[1]] = "up"
  BY <1>3, WorkerInstance DEF TypeOK, Stop
<1>4. ASSUME NEW u \in Tasks, NEW a \in Accounts, NEW p \in Profiles,
             CreateTask(u, a, p)
      PROVE  instance' = instance /\ pc' = pc
  BY <1>4 DEF CreateTask
<1>5. ASSUME NEW u \in Tasks, Age(u) PROVE instance' = instance /\ pc' = pc
  BY <1>5 DEF Age
<1>6. CASE UNCHANGED vars
  BY <1>6 DEF vars
<1> QED
  BY <1>1, <1>2, <1>3, <1>4, <1>5, <1>6 DEF Next

LEMMA StepExclusive == TypeOK /\ ExclusiveInv /\ [Next]_vars => ExclusiveInv'
<1> SUFFICES ASSUME TypeOK, ExclusiveInv, [Next]_vars PROVE ExclusiveInv'
  OBVIOUS
<1>1. \A w \in Workers : pc'[w] # "off" => instance'[w[1]] = "up"
  BY OffWhenDown DEF ExclusiveInv
<1>2. CASE \A w \in Workers : Busy(w)' => Busy(w) /\ held'[w].task = held[w].task
  <2>1. \A w \in Workers : Busy(w)' => status'[held'[w].task] \notin {"none", "queued"}
    BY <1>2, QueueIsLeftOnce DEF ExclusiveInv, TypeOK
  <2>2. ExclusiveExecution'
    BY <1>2 DEF ExclusiveInv, ExclusiveExecution
  <2> QED
    BY <1>1, <2>1, <2>2 DEF ExclusiveInv
<1>3. ASSUME NEW v \in Workers, NEW t \in Tasks, Claim(v, t),
             \A w \in Workers \ {v} :
               Busy(w)' => Busy(w) /\ held'[w].task = held[w].task
      PROVE  ExclusiveInv'
  <2>1. status[t] = "queued" /\ status'[t] = "running" /\ held'[v].task = t
    BY <1>3 DEF TypeOK, Claim, Claimable, Queued
  <2>2. \A w \in Workers \ {v} :
          Busy(w)' => /\ held'[w].task # t
                      /\ status'[held'[w].task] \notin {"none", "queued"}
    BY <1>3, <2>1, QueueIsLeftOnce DEF ExclusiveInv, TypeOK
  <2>3. \A w \in Workers : Busy(w)' => status'[held'[w].task] \notin {"none", "queued"}
    BY <2>1, <2>2
  <2>4. ExclusiveExecution'
    BY <1>3, <2>1, <2>2 DEF ExclusiveInv, ExclusiveExecution
  <2> QED
    BY <1>1, <2>3, <2>4 DEF ExclusiveInv
<1> QED
  BY <1>2, <1>3, BusyWorkers DEF ExclusiveInv

\* The claim hands every task to at most one worker, of all processes that ever
\* run against the database, overlapping or not.
THEOREM TaskExecutedByOne == Spec => []ExclusiveExecution
<1>1. Init => ExclusiveInv
  BY DEF Init, ExclusiveInv, ExclusiveExecution, Busy
<1>2. ExclusiveInv => ExclusiveExecution
  BY DEF ExclusiveInv
<1> QED
  BY <1>1, <1>2, StepExclusive, TypeCorrect, PTL DEF Spec

----------------------------------------------------------------------------
(***************************************************************************)
(* One process at a time                                                   *)
(***************************************************************************)

Executing(w) == pc[w] \in {"load", "call", "store", "finish", "fail"}
Settling(w) == pc[w] \in {"refund", "release"}

\* A reservation nobody has touched
Intact(t) == reserved[t] /\ ~charged[t] /\ refunds[t] = 0

\* When no two processes run together, a task is refunded only after its worker
\* is done with it: recovery runs while there is no worker. So a worker that
\* still executes a task finds its row running and its reservation intact.
SingleInv ==
  /\ \A i, j \in Instances : instance[i] = "up" /\ instance[j] = "up" => i = j
  /\ \A t \in Tasks : status[t] = "none" => refunds[t] = 0
  /\ \A t \in Tasks : status[t] = "queued" => Intact(t)
  /\ \A w \in Workers :
       Executing(w) => status[held[w].task] = "running" /\ Intact(held[w].task)
  /\ \A w \in Workers : Settling(w) => status[held[w].task] \in {"running", "error"}
  /\ DoneIsPaid

\* When besides no write is lost, a running task has not been refunded and a
\* worker about to refund has marked the task error first.
OnceInv ==
  /\ \A t \in Tasks : status[t] = "running" => Intact(t)
  /\ \A w \in Workers : Settling(w) => status[held[w].task] = "error"
  /\ \A w \in Workers : pc[w] = "refund" => refunds[held[w].task] = 0
  /\ RefundedOnce

\* The facts a step of worker w relies on: it holds a task nobody else holds.
LEMMA OwnTask ==
  ASSUME TypeOK, ExclusiveInv, NEW w \in Workers, Busy(w)
  PROVE  /\ held[w].task \in Tasks
         /\ \A v \in Workers \ {w} : Busy(v) => held[v].task # held[w].task
         /\ \A v \in Workers : Busy(v) => held[v].task \in Tasks
         /\ status[held[w].task] \notin {"none", "queued"}
BY DEF TypeOK, ExclusiveInv, ExclusiveExecution

\* Executing and settling are the two ways to be busy.
LEMMA BusyKinds ==
  ASSUME TypeOK, NEW w \in Workers
  PROVE  Busy(w) <=> Executing(w) \/ Settling(w)
BY DEF TypeOK, Busy, Executing, Settling, Stages

\* A worker that goes on executing without touching a row keeps SingleInv.
LEMMA KeepsExecuting ==
  ASSUME TypeOK, SingleInv, NEW w \in Workers, Executing(w),
         pc' \in [Workers -> Stages], \A v \in Workers \ {w} : pc'[v] = pc[v],
         Executing(w)',
         \A v \in Workers : held'[v].task = held[v].task,
         UNCHANGED <<instance, status, reserved, charged, refunds>>
  PROVE  SingleInv'
<1>1. \A v \in Workers : (Executing(v)' => Executing(v)) /\ (Settling(v)' => Settling(v))
  BY DEF Executing, Settling
<1> QED
  BY <1>1 DEF SingleInv, Intact, DoneIsPaid

LEMMA WorkerStepSingle ==
  ASSUME TypeOK, ExclusiveInv, SingleInv, NEW w \in Workers, WorkerStep(w)
  PROVE  SingleInv'
<1>1. ASSUME NEW t \in Tasks, Claim(w, t) PROVE SingleInv'
  <2>1. status[t] = "queued" /\ Intact(t)
    BY <1>1 DEF Claim, Claimable, Queued, SingleInv
  <2>2. /\ status' = [status EXCEPT ![t] = "running"]
        /\ UNCHANGED <<instance, reserved, charged, refunds>>
        /\ pc'[w] = "load" /\ held'[w].task = t
        /\ \A v \in Workers \ {w} : pc'[v] = pc[v] /\ held'[v] = held[v]
    BY <1>1 DEF TypeOK, Claim
  <2>3. \A v \in Workers : Busy(v) => held[v].task # t /\ held[v].task \in Tasks
    BY <2>1 DEF ExclusiveInv, TypeOK
  <2>4. DoneIsPaid'
    BY <2>2 DEF TypeOK, SingleInv, DoneIsPaid
  <2>5. \A v \in Workers : Executing(v)' =>
          status'[held'[v].task] = "running" /\ Intact(held[v].task)'
    BY <2>1, <2>2, <2>3, BusyKinds DEF TypeOK, SingleInv, Executing, Intact
  <2>6. \A v \in Workers : Settling(v)' => status'[held'[v].task] \in {"running", "error"}
    BY <2>1, <2>2, <2>3, BusyKinds DEF TypeOK, SingleInv, Settling
  <2> QED
    BY <2>1, <2>2, <2>4, <2>5, <2>6 DEF TypeOK, SingleInv, Intact
<1>2. CASE Load(w) \/ CallSucceeds(w) \/ Store(w)
  BY <1>2, KeepsExecuting
  DEF TypeOK, Stages, Load, CallSucceeds, Store, rowVars, Executing
<1>3. ASSUME NEW p \in Profiles, CallFallsBack(w, p) PROVE SingleInv'
  <2>1. \A v \in Workers : held'[v].task = held[v].task
    BY <1>3 DEF TypeOK, Copies, CallFallsBack
  <2> QED
    BY <1>3, <2>1, KeepsExecuting DEF TypeOK, CallFallsBack, Executing
<1>4. CASE CallGivesUp(w)
  <2>1. \A v \in Workers : held'[v].task = held[v].task
    BY <1>4 DEF TypeOK, Copies, CallGivesUp
  <2> QED
    BY <1>4, <2>1, KeepsExecuting DEF TypeOK, Stages, CallGivesUp, rowVars, Executing
<1>5. CASE Finish(w)
  <2> DEFINE t == held[w].task
  <2>1. Busy(w) /\ Executing(w)
    BY <1>5 DEF Finish, Busy, Executing
  <2>2. t \in Tasks /\ status[t] = "running" /\ Intact(t)
    BY <2>1, OwnTask DEF SingleInv
  <2>3. \A v \in Workers : \/ pc'[v] = pc[v] /\ held'[v] = held[v] /\ v # w
                           \/ ~Executing(v)' /\ ~Settling(v)'
    BY <1>5 DEF TypeOK, Finish, Drop, Executing, Settling
  <2>4. \A v \in Workers \ {w} : Busy(v) => held[v].task # t /\ held[v].task \in Tasks
    BY <2>1, OwnTask
  <2>5. /\ UNCHANGED <<instance, reserved, refunds>>
        /\ \/ status' = [status EXCEPT ![t] = "done"] /\ charged' = [charged EXCEPT ![t] = TRUE]
           \/ UNCHANGED <<status, charged>>
    BY <1>5 DEF Finish
  <2> HIDE DEF t
  <2>6. \A v \in Workers : Executing(v)' =>
          status'[held'[v].task] = "running" /\ Intact(held[v].task)'
    BY <2>3, <2>4, <2>5, BusyKinds DEF TypeOK, SingleInv, Executing, Intact
  <2>7. \A v \in Workers : Settling(v)' => status'[held'[v].task] \in {"running", "error"}
    BY <2>3, <2>4, <2>5, BusyKinds DEF TypeOK, SingleInv, Settling
  <2>8. DoneIsPaid'
    BY <2>2, <2>5 DEF TypeOK, SingleInv, DoneIsPaid, Intact
  <2> QED
    BY <2>2, <2>5, <2>6, <2>7, <2>8 DEF TypeOK, SingleInv, Intact
<1>6. CASE FailMark(w)
  <2> DEFINE t == held[w].task
  <2>1. Busy(w) /\ Executing(w)
    BY <1>6 DEF FailMark, Busy, Executing
  <2>2. t \in Tasks /\ status[t] = "running" /\ Intact(t)
    BY <2>1, OwnTask DEF SingleInv
  <2>3. \A v \in Workers \ {w} : pc'[v] = pc[v] /\ held'[v] = held[v]
    BY <1>6 DEF TypeOK, FailMark, Drop
  <2>4. ~Executing(w)' /\ (Settling(w)' => held'[w] = held[w])
    BY <1>6 DEF TypeOK, FailMark, Drop, Executing, Settling
  <2>5. \A v \in Workers \ {w} : Busy(v) => held[v].task # t /\ held[v].task \in Tasks
    BY <2>1, OwnTask
  <2>6. /\ UNCHANGED <<instance, reserved, charged, refunds>>
        /\ \/ status' = [status EXCEPT ![t] = "error"]
           \/ UNCHANGED status
    BY <1>6 DEF FailMark
  <2>7. Settling(w)' => status'[held'[w].task] \in {"running", "error"}
    BY <2>2, <2>4, <2>6 DEF TypeOK
  <2> HIDE DEF t
  <2>8. \A v \in Workers : Executing(v)' =>
          status'[held'[v].task] = "running" /\ Intact(held[v].task)'
    BY <2>3, <2>4, <2>5, <2>6, BusyKinds DEF TypeOK, SingleInv, Executing, Intact
  <2>9. \A v \in Workers : Settling(v)' => status'[held'[v].task] \in {"running", "error"}
    BY <2>3, <2>5, <2>6, <2>7, BusyKinds DEF TypeOK, SingleInv, Settling
  <2>10. DoneIsPaid'
    BY <2>2, <2>6 DEF TypeOK, SingleInv, DoneIsPaid
  <2> QED
    BY <2>2, <2>6, <2>8, <2>9, <2>10 DEF TypeOK, SingleInv, Intact
<1>7. CASE FailRefund(w)
  <2> DEFINE t == held[w].task
  <2>1. Busy(w) /\ Settling(w)
    BY <1>7 DEF FailRefund, Busy, Settling
  <2>2. t \in Tasks /\ status[t] \in {"running", "error"}
    BY <2>1, OwnTask DEF SingleInv
  <2>3. \A v \in Workers \ {w} : pc'[v] = pc[v]
    BY <1>7 DEF TypeOK, FailRefund
  <2>4. pc'[w] = "release" /\ held' = held
    BY <1>7 DEF TypeOK, FailRefund
  <2>5. \A v \in Workers \ {w} : Busy(v) => held[v].task # t /\ held[v].task \in Tasks
    BY <2>1, OwnTask
  <2>6. /\ UNCHANGED <<instance, status, reserved, charged>>
        /\ \A u \in Tasks \ {t} : refunds'[u] = refunds[u]
    BY <1>7 DEF TypeOK, FailRefund, rowVars
  <2> HIDE DEF t
  <2>7. \A v \in Workers : Executing(v)' =>
          status'[held'[v].task] = "running" /\ Intact(held[v].task)'
    BY <2>3, <2>4, <2>5, <2>6, BusyKinds DEF SingleInv, Executing, Intact
  <2>8. \A v \in Workers : Settling(v)' => status'[held'[v].task] \in {"running", "error"}
    BY <2>1, <2>3, <2>4, <2>6 DEF SingleInv, Settling
  <2>9. DoneIsPaid'
    BY <2>2, <2>6 DEF SingleInv, DoneIsPaid
  <2> QED
    BY <2>2, <2>6, <2>7, <2>8, <2>9 DEF SingleInv, Intact
<1>8. CASE FailRelease(w)
  <2> DEFINE t == held[w].task
  <2>1. Busy(w) /\ Settling(w)
    BY <1>8 DEF FailRelease, Busy, Settling
  <2>2. t \in Tasks /\ status[t] \in {"running", "error"}
    BY <2>1, OwnTask DEF SingleInv
  <2>3. \A v \in Workers : \/ pc'[v] = pc[v] /\ held'[v] = held[v] /\ v # w
                           \/ ~Executing(v)' /\ ~Settling(v)'
    BY <1>8 DEF TypeOK, FailRelease, Drop, Executing, Settling
  <2>4. \A v \in Workers \ {w} : Busy(v) => held[v].task # t /\ held[v].task \in Tasks
    BY <2>1, OwnTask
  <2>5. /\ UNCHANGED <<instance, status, charged, refunds>>
        /\ \A u \in Tasks \ {t} : reserved'[u] = reserved[u]
    BY <1>8 DEF TypeOK, FailRelease
  <2> HIDE DEF t
  <2>6. \A v \in Workers : Executing(v)' =>
          status'[held'[v].task] = "running" /\ Intact(held[v].task)'
    BY <2>3, <2>4, <2>5, BusyKinds DEF SingleInv, Executing, Intact
  <2>7. \A v \in Workers : Settling(v)' => status'[held'[v].task] \in {"running", "error"}
    BY <2>3, <2>5 DEF SingleInv, Settling
  <2>8. DoneIsPaid'
    BY <2>2, <2>5 DEF SingleInv, DoneIsPaid
  <2> QED
    BY <2>2, <2>5, <2>6, <2>7, <2>8 DEF SingleInv, Intact
<1> QED
  BY <1>1, <1>2, <1>3, <1>4, <1>5, <1>6, <1>7, <1>8 DEF WorkerStep

LEMMA StepSingle ==
  ASSUME ~Overlap, TypeOK, ExclusiveInv, SingleInv, [Next]_vars
  PROVE  SingleInv'
<1>1. ASSUME NEW u \in Tasks, NEW a \in Accounts, NEW p \in Profiles,
             CreateTask(u, a, p)
      PROVE  SingleInv'
  <2>1. \A w \in Workers : Busy(w) => held[w].task # u
    BY <1>1 DEF ExclusiveInv, CreateTask
  <2>2. Intact(u)'
    BY <1>1 DEF TypeOK, CreateTask, Intact, SingleInv
  <2>3. \A t \in Tasks \ {u} : status'[t] = status[t] /\ (Intact(t) => Intact(t)')
    BY <1>1 DEF TypeOK, CreateTask, Intact
  <2>4. status'[u] = "queued" /\ UNCHANGED <<instance, pc, held, refunds>>
    BY <1>1 DEF TypeOK, CreateTask
  <2>5. DoneIsPaid'
    BY <1>1 DEF TypeOK, CreateTask, DoneIsPaid, SingleInv
  <2> QED
    BY <2>1, <2>2, <2>3, <2>4, <2>5
    DEF SingleInv, Busy, Executing, Settling, TypeOK
<1>2. ASSUME NEW u \in Tasks, Age(u) PROVE SingleInv'
  BY <1>2 DEF Age, SingleInv, Executing, Settling, Intact, DoneIsPaid
<1>3. ASSUME NEW w \in Workers, WorkerStep(w) PROVE SingleInv'
  BY <1>3, WorkerStepSingle
<1>4. ASSUME NEW i \in Instances, Start(i) PROVE SingleInv'
  <2>1. \A w \in Workers : pc[w] = "off"
    BY <1>4, WorkerInstance DEF Start, ExclusiveInv
  <2>2. \A w \in Workers : pc'[w] \in {"off", "poll"}
    BY <1>4, <2>1 DEF TypeOK, Start
  <2>3. \A w \in Workers : ~Executing(w)' /\ ~Settling(w)'
    BY <2>2 DEF Executing, Settling
  <2>4. \A j, k \in Instances : instance'[j] = "up" /\ instance'[k] = "up" => j = k
    BY <1>4 DEF TypeOK, Start
  <2>5. \A t \in Tasks : status[t] # "running" =>
          /\ status'[t] = status[t]
          /\ reserved'[t] = reserved[t] /\ charged'[t] = charged[t]
          /\ refunds'[t] = refunds[t]
    BY <1>4 DEF TypeOK, Start, Recover, Abandoned, Running
  <2>6. \A t \in Tasks : status[t] = "running" => status'[t] \in {"running", "error"}
    BY <1>4 DEF TypeOK, Start, Recover
  <2>7. DoneIsPaid'
    BY <2>5, <2>6 DEF SingleInv, DoneIsPaid
  <2> QED
    BY <2>3, <2>4, <2>5, <2>6, <2>7 DEF SingleInv, Intact
<1>5. ASSUME NEW i \in Instances, Stop(i) PROVE SingleInv'
  <2>1. \A w \in Workers : Busy(w)' => pc'[w] = pc[w] /\ held'[w] = held[w]
    BY <1>5 DEF TypeOK, Stop, Busy
  <2>2. \A w \in Workers :
          /\ Executing(w)' => Executing(w) /\ held'[w] = held[w]
          /\ Settling(w)' => Settling(w) /\ held'[w] = held[w]
    BY <2>1 DEF Busy, Executing, Settling
  <2>3. UNCHANGED <<status, reserved, charged, refunds>>
    BY <1>5 DEF Stop, rowVars
  <2>4. \A j \in Instances : instance'[j] = "up" => instance[j] = "up"
    BY <1>5 DEF TypeOK, Stop
  <2> QED
    BY <2>2, <2>3, <2>4 DEF SingleInv, Intact, DoneIsPaid
<1>6. CASE UNCHANGED vars
  BY <1>6 DEF vars, rowVars, SingleInv, Executing, Settling, Intact, DoneIsPaid
<1> QED
  BY <1>1, <1>2, <1>3, <1>4, <1>5, <1>6 DEF Next

\* An outcome is only written over a running task.
LEMMA StepFinal ==
  ASSUME TypeOK, ExclusiveInv, SingleInv, [Next]_vars, NEW t \in Tasks,
         status[t] \in {"done", "error"}
  PROVE  status'[t] = status[t]
<1>1. ASSUME NEW u \in Tasks, NEW a \in Accounts, NEW p \in Profiles,
             CreateTask(u, a, p)
      PROVE  status'[t] = status[t]
  BY <1>1 DEF TypeOK, CreateTask
<1>2. ASSUME NEW u \in Tasks, Age(u) PROVE status'[t] = status[t]
  BY <1>2 DEF Age
<1>3. ASSUME NEW w \in Workers, WorkerStep(w) PROVE status'[t] = status[t]
  <2>1. ASSUME NEW u \in Tasks, Claim(w, u) PROVE status'[t] = status[t]
    BY <2>1 DEF TypeOK, Claim, Claimable, Queued
  <2>2. CASE Finish(w) \/ FailMark(w)
    <3>1. Busy(w) /\ Executing(w)
      BY <2>2 DEF Finish, FailMark, Busy, Executing
    <3>2. held[w].task # t
      BY <3>1 DEF SingleInv
    <3> QED
      BY <2>2, <3>2 DEF TypeOK, Finish, FailMark
  <2>3. ASSUME ~ \E u \in Tasks : Claim(w, u), ~Finish(w), ~FailMark(w)
        PROVE  status'[t] = status[t]
    BY <1>3, <2>3 DEF WorkerStep, Load, CallSucceeds, CallFallsBack,
       CallGivesUp, Store, FailRefund, FailRelease, rowVars
  <2> QED
    BY <2>1, <2>2, <2>3
<1>4. ASSUME NEW i \in Instances, Start(i) PROVE status'[t] = status[t]
  BY <1>4 DEF TypeOK, Start, Recover, Abandoned, Running
<1>5. ASSUME NEW i \in Instances, Stop(i) PROVE status'[t] = status[t]
  BY <1>5 DEF Stop, rowVars
<1>6. CASE UNCHANGED vars
  BY <1>6 DEF vars, rowVars
<1> QED
  BY <1>1, <1>2, <1>3, <1>4, <1>5, <1>6 DEF Next

\* When processes do not overlap, SingleInv holds for ever.
LEMMA SingleCorrect ==
  ASSUME ~Overlap
  PROVE  Spec => [](TypeOK /\ ExclusiveInv /\ SingleInv)
<1>1. Init => TypeOK
  BY InitType
<1>2. Init => ExclusiveInv
  BY DEF Init, ExclusiveInv, ExclusiveExecution, Busy
<1>3. Init => SingleInv
  BY DEF Init, SingleInv, Executing, Settling, DoneIsPaid
<1>4. (TypeOK /\ ExclusiveInv /\ SingleInv) /\ [Next]_vars
        => (TypeOK /\ ExclusiveInv /\ SingleInv)'
  BY StepType, StepExclusive, StepSingle
<1> QED
  BY <1>1, <1>2, <1>3, <1>4, PTL DEF Spec

\* When processes do not overlap, no image is delivered for a debit that was
\* given back, even if statements whose errors are ignored fail.
THEOREM DoneTasksArePaid ==
  ASSUME ~Overlap
  PROVE  Spec => []DoneIsPaid
<1>1. SingleInv => DoneIsPaid
  BY DEF SingleInv
<1> QED
  BY <1>1, SingleCorrect, PTL

\* When processes do not overlap, a task never leaves done or error.
THEOREM OutcomesAreFinal ==
  ASSUME ~Overlap
  PROVE  Spec => OutcomeIsFinal
<1>1. (TypeOK /\ ExclusiveInv /\ SingleInv) /\ [Next]_vars
        => [\A t \in Tasks : status[t] \in {"done", "error"}
                               => status'[t] = status[t]]_vars
  BY StepFinal
<1> QED
  BY <1>1, SingleCorrect, PTL DEF Spec, OutcomeIsFinal

----------------------------------------------------------------------------
(***************************************************************************)
(* One process at a time, and no write is lost                             *)
(***************************************************************************)

\* A step that leaves every reservation, outcome and settling worker alone.
LEMMA KeepsOnce ==
  ASSUME OnceInv, UNCHANGED <<status, reserved, charged, refunds>>,
         \A v \in Workers : Settling(v)' => pc'[v] = pc[v] /\ held'[v] = held[v]
  PROVE  OnceInv'
BY DEF OnceInv, Settling, Intact, RefundedOnce

LEMMA WorkerStepOnce ==
  ASSUME ~LostWrites, TypeOK, ExclusiveInv, SingleInv, OnceInv,
         NEW w \in Workers, WorkerStep(w)
  PROVE  OnceInv'
<1>1. ASSUME NEW t \in Tasks, Claim(w, t) PROVE OnceInv'
  <2>1. status[t] = "queued" /\ Intact(t)
    BY <1>1 DEF Claim, Claimable, Queued, SingleInv
  <2>2. /\ status' = [status EXCEPT ![t] = "running"]
        /\ UNCHANGED <<reserved, charged, refunds>>
        /\ pc'[w] = "load"
        /\ \A v \in Workers \ {w} : pc'[v] = pc[v] /\ held'[v] = held[v]
    BY <1>1 DEF TypeOK, Claim
  <2>3. \A v \in Workers : Settling(v) => held[v].task # t /\ held[v].task \in Tasks
    BY <2>1, OwnTask, BusyKinds
  <2> QED
    BY <2>1, <2>2, <2>3 DEF TypeOK, OnceInv, Settling, Intact, RefundedOnce
<1>2. CASE Load(w) \/ CallSucceeds(w) \/ Store(w)
  BY <1>2, KeepsOnce
  DEF TypeOK, Load, CallSucceeds, Store, rowVars, Settling
<1>3. ASSUME NEW p \in Profiles, CallFallsBack(w, p) PROVE OnceInv'
  <2>1. \A v \in Workers : Settling(v)' => pc'[v] = pc[v] /\ held'[v] = held[v]
    BY <1>3 DEF TypeOK, CallFallsBack, Settling
  <2> QED
    BY <1>3, <2>1, KeepsOnce DEF CallFallsBack
<1>4. CASE CallGivesUp(w)
  <2>1. \A v \in Workers : Settling(v)' => pc'[v] = pc[v] /\ held'[v] = held[v]
    BY <1>4 DEF TypeOK, CallGivesUp, Settling
  <2> QED
    BY <1>4, <2>1, KeepsOnce DEF CallGivesUp, rowVars
<1>5. CASE Finish(w) \/ FailRelease(w)
  <2> DEFINE t == held[w].task
  <2>1. Busy(w)
    BY <1>5 DEF Finish, FailRelease, Busy
  <2>2. \A v \in Workers : Settling(v)' => pc'[v] = pc[v] /\ held'[v] = held[v] /\ v # w
    BY <1>5 DEF TypeOK, Finish, FailRelease, Drop, Settling
  <2>3. \A v \in Workers \ {w} : Settling(v) => held[v].task # t /\ held[v].task \in Tasks
    BY <2>1, OwnTask, BusyKinds
  <2>4. /\ refunds' = refunds
        /\ status'[t] # "running"
        /\ \A u \in Tasks \ {t} : /\ status'[u] = status[u]
                                  /\ reserved'[u] = reserved[u]
                                  /\ charged'[u] = charged[u]
    <3>1. CASE Finish(w)
      BY <2>1, <3>1, OwnTask DEF TypeOK, Finish
    <3>2. CASE FailRelease(w)
      <4>1. Settling(w)
        BY <3>2 DEF FailRelease, Settling
      <4> QED
        BY <3>2, <4>1 DEF TypeOK, FailRelease, OnceInv
    <3> QED
      BY <1>5, <3>1, <3>2
  <2> HIDE DEF t
  <2> QED
    BY <2>2, <2>3, <2>4 DEF OnceInv, Settling, Intact, RefundedOnce
<1>6. CASE FailMark(w)
  <2> DEFINE t == held[w].task
  <2>1. Busy(w) /\ Executing(w)
    BY <1>6 DEF FailMark, Busy, Executing
  <2>2. t \in Tasks /\ status[t] = "running" /\ Intact(t)
    BY <2>1, OwnTask DEF SingleInv
  <2>3. /\ status' = [status EXCEPT ![t] = "error"]
        /\ UNCHANGED <<reserved, charged, refunds>>
    BY <1>6, <2>2 DEF FailMark
  <2>4. \A v \in Workers \ {w} : pc'[v] = pc[v] /\ held'[v] = held[v]
    BY <1>6 DEF TypeOK, FailMark, Drop
  <2>5. Settling(w)' => held'[w] = held[w]
    BY <1>6 DEF TypeOK, FailMark, Drop, Settling
  <2>6. \A v \in Workers \ {w} : Settling(v) => held[v].task # t /\ held[v].task \in Tasks
    BY <2>1, OwnTask, BusyKinds
  <2>7. Settling(w)' => held'[w].task = t
    BY <2>5
  <2> HIDE DEF t
  <2> QED
    BY <2>2, <2>3, <2>4, <2>6, <2>7
    DEF TypeOK, OnceInv, Settling, Intact, RefundedOnce
<1>7. CASE FailRefund(w)
  <2> DEFINE t == held[w].task
  <2>1. Busy(w) /\ Settling(w) /\ pc[w] = "refund"
    BY <1>7 DEF FailRefund, Busy, Settling
  <2>2. t \in Tasks /\ status[t] = "error" /\ refunds[t] = 0
    BY <2>1, OwnTask DEF OnceInv
  <2>3. /\ UNCHANGED <<status, reserved, charged, held>>
        /\ refunds' = [refunds EXCEPT ![t] = @ + 1]
        /\ pc'[w] = "release"
        /\ \A v \in Workers \ {w} : pc'[v] = pc[v]
    BY <1>7 DEF TypeOK, FailRefund, rowVars
  <2>4. \A v \in Workers \ {w} : Settling(v) => held[v].task # t /\ held[v].task \in Tasks
    BY <2>1, OwnTask, BusyKinds
  <2>5. refunds'[t] = 1 /\ \A u \in Tasks \ {t} : refunds'[u] = refunds[u]
    BY <2>2, <2>3 DEF TypeOK
  <2>6. held[w].task = t
    OBVIOUS
  <2> HIDE DEF t
  <2> QED
    BY <2>2, <2>3, <2>4, <2>5, <2>6
    DEF OnceInv, Settling, Intact, RefundedOnce
<1> QED
  BY <1>1, <1>2, <1>3, <1>4, <1>5, <1>6, <1>7 DEF WorkerStep

LEMMA StepOnce ==
  ASSUME ~Overlap, ~LostWrites,
         TypeOK, ExclusiveInv, SingleInv, OnceInv, [Next]_vars
  PROVE  OnceInv'
<1>1. ASSUME NEW u \in Tasks, NEW a \in Accounts, NEW p \in Profiles,
             CreateTask(u, a, p)
      PROVE  OnceInv'
  <2>1. \A w \in Workers : Settling(w) => held[w].task # u
    BY <1>1 DEF OnceInv, CreateTask
  <2>2. /\ UNCHANGED <<pc, held, refunds>>
        /\ status'[u] = "queued"
        /\ \A t \in Tasks \ {u} : status'[t] = status[t] /\ (Intact(t) => Intact(t)')
    BY <1>1 DEF TypeOK, CreateTask, Intact
  <2>3. \A w \in Workers : Settling(w) => held[w].task \in Tasks
    BY OwnTask, BusyKinds
  <2> QED
    BY <2>1, <2>2, <2>3 DEF OnceInv, Settling, RefundedOnce
<1>2. ASSUME NEW u \in Tasks, Age(u) PROVE OnceInv'
  BY <1>2 DEF Age, OnceInv, Settling, Intact, RefundedOnce
<1>3. ASSUME NEW w \in Workers, WorkerStep(w) PROVE OnceInv'
  BY <1>3, WorkerStepOnce
<1>4. ASSUME NEW i \in Instances, Start(i) PROVE OnceInv'
  <2>1. \A w \in Workers : pc'[w] \in {"off", "poll"}
    BY <1>4, WorkerInstance DEF TypeOK, Start, ExclusiveInv
  <2>2. \A w \in Workers : ~Settling(w)' /\ pc'[w] # "refund"
    BY <2>1 DEF Settling
  <2>3. Recover /\ charged' = charged
    BY <1>4 DEF Start
  <2>4. \A t \in Tasks : t \notin Abandoned =>
          /\ status'[t] = status[t]
          /\ reserved'[t] = reserved[t] /\ charged'[t] = charged[t]
          /\ refunds'[t] = refunds[t]
    BY <2>3 DEF TypeOK, Recover
  <2>5. \A t \in Abandoned : status'[t] = "error" /\ refunds'[t] = 1
    BY <2>3 DEF TypeOK, Recover, Abandoned, Running, OnceInv, Intact
  <2>6. \A t \in Tasks : status'[t] = "running" => Intact(t)'
    BY <2>4, <2>5 DEF OnceInv, Intact
  <2>7. RefundedOnce'
    BY <2>4, <2>5 DEF OnceInv, RefundedOnce
  <2> QED
    BY <2>2, <2>6, <2>7 DEF OnceInv
<1>5. ASSUME NEW i \in Instances, Stop(i) PROVE OnceInv'
  <2>1. \A w \in Workers : Settling(w)' => pc'[w] = pc[w] /\ held'[w] = held[w]
    BY <1>5 DEF TypeOK, Stop, Settling
  <2>2. UNCHANGED <<status, reserved, charged, refunds>>
    BY <1>5 DEF Stop, rowVars
  <2> QED
    BY <2>1, <2>2 DEF OnceInv, Settling, Intact, RefundedOnce
<1>6. CASE UNCHANGED vars
  BY <1>6 DEF vars, rowVars, OnceInv, Settling, Intact, RefundedOnce
<1> QED
  BY <1>1, <1>2, <1>3, <1>4, <1>5, <1>6 DEF Next

LEMMA OnceCorrect ==
  ASSUME ~Overlap, ~LostWrites
  PROVE  Spec => [](TypeOK /\ ExclusiveInv /\ SingleInv /\ OnceInv)
<1>1. Init => OnceInv
  BY DEF Init, OnceInv, Settling, RefundedOnce
<1>2. TypeOK /\ ExclusiveInv /\ SingleInv /\ OnceInv /\ [Next]_vars => OnceInv'
  BY StepOnce
<1> QED
  BY <1>1, <1>2, SingleCorrect, PTL DEF Spec

\* When processes do not overlap and no write is lost, crashes and recoveries
\* give every debit back at most once.
THEOREM DebitsRefundedOnce ==
  ASSUME ~Overlap, ~LostWrites
  PROVE  Spec => []RefundedOnce
<1>1. OnceInv => RefundedOnce
  BY DEF OnceInv
<1> QED
  BY <1>1, OnceCorrect, PTL

----------------------------------------------------------------------------
(***************************************************************************)
(* The global limit                                                        *)
(***************************************************************************)

\* Only a claim adds to the running tasks, and it adds one.
LEMMA RunningGrowsByClaims ==
  ASSUME TypeOK, [Next]_vars
  PROVE  \/ Running' \subseteq Running
         \/ \E t \in Tasks : /\ Cardinality(Running) < GlobalLimit
                             /\ Running' = Running \cup {t}
<1>1. ASSUME NEW t \in Tasks, NEW a \in Accounts, NEW p \in Profiles,
             CreateTask(t, a, p)
      PROVE  Running' \subseteq Running
  BY <1>1 DEF TypeOK, CreateTask, Running
<1>2. ASSUME NEW t \in Tasks, Age(t) PROVE Running' \subseteq Running
  BY <1>2 DEF Age, Running
<1>3. ASSUME NEW w \in Workers, NEW t \in Tasks, Claim(w, t)
      PROVE  Cardinality(Running) < GlobalLimit /\ Running' = Running \cup {t}
  <2>1. Cardinality(Running) < GlobalLimit
    BY <1>3 DEF Claim, Claimable
  <2>2. status' = [status EXCEPT ![t] = "running"]
    BY <1>3 DEF Claim
  <2> QED
    BY <2>1, <2>2 DEF TypeOK, Running
<1>4. ASSUME NEW w \in Workers, WorkerStep(w), ~ \E t \in Tasks : Claim(w, t)
      PROVE  Running' \subseteq Running
  <2>1. CASE Finish(w) \/ FailMark(w)
    BY <2>1 DEF TypeOK, Finish, FailMark, Running
  <2>2. CASE ~Finish(w) /\ ~FailMark(w)
    <3>1. status' = status
      BY <1>4, <2>2 DEF WorkerStep, Load, CallSucceeds, CallFallsBack,
         CallGivesUp, Store, FailRefund, FailRelease, rowVars
    <3> QED
      BY <3>1 DEF Running
  <2> QED
    BY <2>1, <2>2
<1>5. ASSUME NEW i \in Instances, Start(i) PROVE Running' \subseteq Running
  BY <1>5 DEF TypeOK, Start, Recover, Running
<1>6. ASSUME NEW i \in Instances, Stop(i) PROVE Running' \subseteq Running
  BY <1>6 DEF Stop, rowVars, Running
<1>7. CASE UNCHANGED vars
  BY <1>7 DEF vars, rowVars, Running
<1> QED
  BY <1>1, <1>2, <1>3, <1>4, <1>5, <1>6, <1>7 DEF Next

\* Whatever overlaps, crashes or is lost, the claims of all processes together
\* never run more tasks than the global limit.
THEOREM RunningStayWithinLimit == Spec => []GlobalConcurrency
<1>1. Init => GlobalConcurrency
  <2>1. ASSUME Init PROVE Running = {}
    BY <2>1 DEF Init, Running
  <2> QED
    BY <2>1, FS_EmptySet, LimitAssumption DEF GlobalConcurrency
<1>2. TypeOK /\ GlobalConcurrency /\ [Next]_vars => GlobalConcurrency'
  <2> SUFFICES ASSUME TypeOK, GlobalConcurrency, [Next]_vars
               PROVE  Cardinality(Running') <= GlobalLimit
    BY DEF GlobalConcurrency
  <2>1. IsFiniteSet(Running)
    BY TasksAssumption, FS_Subset DEF Running
  <2>2. Cardinality(Running) \in Nat /\ GlobalLimit \in Nat
    BY <2>1, FS_CardinalityType, LimitAssumption
  <2>3. CASE Running' \subseteq Running
    <3>1. Cardinality(Running') <= Cardinality(Running)
      BY <2>1, <2>3, FS_Subset
    <3>2. IsFiniteSet(Running')
      BY <2>1, <2>3, FS_Subset
    <3>3. Cardinality(Running') \in Nat
      BY <3>2, FS_CardinalityType
    <3> QED
      BY <2>2, <3>1, <3>3 DEF GlobalConcurrency
  <2>4. ASSUME NEW t \in Tasks, Cardinality(Running) < GlobalLimit,
               Running' = Running \cup {t}
        PROVE  Cardinality(Running') <= GlobalLimit
    <3>1. Cardinality(Running \cup {t}) \in {Cardinality(Running), Cardinality(Running) + 1}
      BY <2>1, FS_AddElement
    <3> QED
      BY <2>2, <2>4, <3>1
  <2> QED
    BY <2>3, <2>4, RunningGrowsByClaims
<1> QED
  BY <1>1, <1>2, TypeCorrect, PTL DEF Spec

----------------------------------------------------------------------------
(***************************************************************************)
(* One process at a time, no write lost: every image is paid for           *)
(***************************************************************************)

\* The tasks of an account whose debit nobody gave back
Unreturned(a) ==
  {t \in Tasks : account[t] = a /\ status[t] # "none" /\ refunds[t] = 0}

\* What an account holds and what its unreturned tasks took is what was granted
\* or less. NoFreeImages does not say it of tasks in error: between FailMark
\* and FailRefund the debit of such a task is still out.
PaidInv ==
  \A a \in Accounts :
    balance[a] + Cost[a] * Cardinality(Unreturned(a)) <= Grant[a]

LEMMA UnreturnedFinite ==
  ASSUME NEW a
  PROVE  IsFiniteSet(Unreturned(a)) /\ Cardinality(Unreturned(a)) \in Nat
<1>1. IsFiniteSet(Unreturned(a))
  BY TasksAssumption, FS_Subset DEF Unreturned
<1> QED
  BY <1>1, FS_CardinalityType

LEMMA Distribute ==
  ASSUME NEW c \in Nat, NEW n \in Nat, NEW k \in Nat
  PROVE  c * (n + k) = c * n + c * k
OBVIOUS

\* A set of no more tasks costs no more.
LEMMA CostIsMonotone ==
  ASSUME NEW c \in Nat, NEW m \in Nat, NEW n \in Nat, m <= n
  PROVE  c * m <= c * n
<1>1. n - m \in Nat /\ n = m + (n - m)
  OBVIOUS
<1>2. c * (m + (n - m)) = c * m + c * (n - m)
  BY <1>1, Distribute
<1>3. c * (n - m) \in Nat /\ c * m \in Nat
  BY <1>1
<1> QED
  BY <1>1, <1>2, <1>3

\* A step that neither writes a balance nor lets a debit appear keeps PaidInv.
LEMMA KeepsPaid ==
  ASSUME PaidInv, UNCHANGED <<account, balance, refunds>>,
         \A t \in Tasks : status'[t] # "none" => status[t] # "none",
         balance \in [Accounts -> Nat]
  PROVE  PaidInv'
<1> SUFFICES ASSUME NEW a \in Accounts
             PROVE  balance[a] + Cost[a] * Cardinality(Unreturned(a)') <= Grant[a]
  BY DEF PaidInv
<1>1. Unreturned(a)' \subseteq Unreturned(a)
  BY DEF Unreturned
<1>2. IsFiniteSet(Unreturned(a)) /\ Cardinality(Unreturned(a)) \in Nat
  BY UnreturnedFinite
<1>3. /\ IsFiniteSet(Unreturned(a)')
      /\ Cardinality(Unreturned(a)') <= Cardinality(Unreturned(a))
  BY <1>1, <1>2, FS_Subset
<1>4. Cardinality(Unreturned(a)') \in Nat
  BY <1>3, FS_CardinalityType
<1> DEFINE m == Cardinality(Unreturned(a)')
           n == Cardinality(Unreturned(a))
<1>5. Cost[a] \in Nat /\ Grant[a] \in Nat /\ balance[a] \in Nat
  BY CostAssumption
<1>6. balance[a] + Cost[a] * n <= Grant[a]
  BY DEF PaidInv
<1>7. m \in Nat /\ n \in Nat /\ m <= n
  BY <1>2, <1>3, <1>4
<1> HIDE DEF m, n
<1>8. Cost[a] * m <= Cost[a] * n /\ Cost[a] * m \in Nat /\ Cost[a] * n \in Nat
  BY <1>5, <1>7, CostIsMonotone
<1>9. balance[a] + Cost[a] * m <= Grant[a]
  BY <1>5, <1>6, <1>8
<1> QED
  BY <1>9 DEF m

\* A request debits what the set of its account grows by.
LEMMA CreatePaid ==
  ASSUME TypeOK, SingleInv, PaidInv, NEW u \in Tasks, NEW b \in Accounts,
         NEW p \in Profiles, CreateTask(u, b, p)
  PROVE  PaidInv'
<1> SUFFICES ASSUME NEW a \in Accounts
             PROVE  balance'[a] + Cost[a] * Cardinality(Unreturned(a)') <= Grant[a]
  BY DEF PaidInv
<1>1. /\ status[u] = "none" /\ refunds[u] = 0 /\ refunds' = refunds
      /\ status' = [status EXCEPT ![u] = "queued"]
      /\ account' = [account EXCEPT ![u] = b]
      /\ balance' = [balance EXCEPT ![b] = @ - Cost[b]]
  BY DEF CreateTask, SingleInv
<1>2. u \notin Unreturned(a)
  BY <1>1 DEF Unreturned
<1>3. Unreturned(a)' = IF a = b THEN Unreturned(a) \cup {u} ELSE Unreturned(a)
  BY <1>1 DEF TypeOK, Unreturned
<1>4. IsFiniteSet(Unreturned(a)) /\ Cardinality(Unreturned(a)) \in Nat
  BY UnreturnedFinite
<1>5. Cost[a] \in Nat /\ Grant[a] \in Nat /\ balance[a] \in Nat
  BY CostAssumption DEF TypeOK
<1>6. balance[a] + Cost[a] * Cardinality(Unreturned(a)) <= Grant[a]
  BY DEF PaidInv
<1>7. CASE a = b
  <2> DEFINE n == Cardinality(Unreturned(a))
  <2>1. Cardinality(Unreturned(a)') = n + 1
    BY <1>2, <1>3, <1>4, <1>7, FS_AddElement
  <2>2. balance'[a] = balance[a] - Cost[a]
    BY <1>1, <1>7 DEF TypeOK
  <2>3. n \in Nat /\ balance[a] + Cost[a] * n <= Grant[a]
    BY <1>4, <1>6
  <2> HIDE DEF n
  <2>4. Cost[a] * (n + 1) = Cost[a] * n + Cost[a] * 1
    BY <1>5, <2>3, Distribute
  <2>5. Cost[a] * n \in Nat /\ Cost[a] * 1 = Cost[a]
    BY <1>5, <2>3
  <2>6. balance[a] - Cost[a] + Cost[a] * (n + 1) <= Grant[a]
    BY <1>5, <2>3, <2>4, <2>5
  <2> QED
    BY <2>1, <2>2, <2>6
<1>8. CASE a # b
  <2>1. balance'[a] = balance[a] /\ Unreturned(a)' = Unreturned(a)
    BY <1>1, <1>3, <1>8 DEF TypeOK
  <2> QED
    BY <1>6, <2>1
<1> QED
  BY <1>7, <1>8

\* Giving back the debits of R, one each, keeps PaidInv: the set of unreturned
\* tasks loses what the balance gains.
LEMMA ReturnPaid ==
  ASSUME NEW a \in Accounts, NEW R, R \subseteq Unreturned(a), NEW b \in Nat,
         b + Cost[a] * Cardinality(Unreturned(a)) <= Grant[a]
  PROVE  b + Cost[a] * Cardinality(R) + Cost[a] * Cardinality(Unreturned(a) \ R)
           <= Grant[a]
<1>1. IsFiniteSet(Unreturned(a)) /\ Cardinality(Unreturned(a)) \in Nat
  BY UnreturnedFinite
<1>2. IsFiniteSet(R) /\ IsFiniteSet(Unreturned(a) \ R)
  BY <1>1, FS_Subset
<1>3. Unreturned(a) \cap R = R
  OBVIOUS
<1>4. Cardinality(Unreturned(a) \ R) = Cardinality(Unreturned(a)) - Cardinality(R)
  BY <1>1, <1>3, FS_Difference, Zenon
<1> DEFINE n == Cardinality(R)
           k == Cardinality(Unreturned(a) \ R)
           c == Cost[a]
<1>5. n \in Nat /\ k \in Nat /\ c \in Nat /\ Grant[a] \in Nat
  BY <1>2, FS_CardinalityType, CostAssumption
<1>6. Cardinality(Unreturned(a)) = n + k
  BY <1>1, <1>4, <1>5
<1>7. b + c * (n + k) <= Grant[a]
  BY <1>6
<1> HIDE DEF n, k, c
<1>8. c * (n + k) = c * n + c * k /\ c * n \in Nat /\ c * k \in Nat
  BY <1>5, Distribute
<1>9. b + c * n + c * k <= Grant[a]
  BY <1>5, <1>7, <1>8
<1> QED
  BY <1>9 DEF n, k, c

\* failTaskAndRefund gives back the debit of a task nobody returned before.
LEMMA RefundPaid ==
  ASSUME ~LostWrites, TypeOK, ExclusiveInv, OnceInv, PaidInv,
         NEW w \in Workers, FailRefund(w)
  PROVE  PaidInv'
<1> SUFFICES ASSUME NEW a \in Accounts
             PROVE  balance'[a] + Cost[a] * Cardinality(Unreturned(a)') <= Grant[a]
  BY DEF PaidInv
<1> DEFINE t == held[w].task
<1>1. pc[w] = "refund" /\ Busy(w)
  BY DEF FailRefund, Busy
<1>2. t \in Tasks /\ status[t] # "none" /\ refunds[t] = 0
  BY <1>1, OwnTask DEF OnceInv
<1>3. /\ balance' = [balance EXCEPT ![account[t]] = @ + Cost[account[t]]]
      /\ refunds' = [refunds EXCEPT ![t] = @ + 1]
      /\ UNCHANGED <<status, account>>
  BY DEF FailRefund, rowVars
<1> HIDE DEF t
<1>4. Unreturned(a)' = IF account[t] = a THEN Unreturned(a) \ {t} ELSE Unreturned(a)
  BY <1>2, <1>3 DEF TypeOK, Unreturned
<1>5. balance[a] \in Nat /\ Cost[a] \in Nat
  BY CostAssumption DEF TypeOK
<1>6. balance[a] + Cost[a] * Cardinality(Unreturned(a)) <= Grant[a]
  BY DEF PaidInv
<1>7. CASE account[t] = a
  <2>1. {t} \subseteq Unreturned(a)
    BY <1>2, <1>7 DEF Unreturned
  <2>2. Cardinality({t}) = 1
    BY FS_Singleton
  <2>3. balance[a] + Cost[a] * Cardinality({t})
          + Cost[a] * Cardinality(Unreturned(a) \ {t}) <= Grant[a]
    BY <1>5, <1>6, <2>1, ReturnPaid
  <2>4. balance'[a] = balance[a] + Cost[a] * Cardinality({t})
    <3>1. balance'[a] = balance[a] + Cost[a]
      BY <1>3, <1>7 DEF TypeOK
    <3>2. Cost[a] * 1 = Cost[a]
      BY <1>5
    <3> QED
      BY <2>2, <3>1, <3>2
  <2> QED
    BY <1>4, <1>7, <2>3, <2>4
<1>8. CASE account[t] # a
  <2>1. balance'[a] = balance[a] /\ Unreturned(a)' = Unreturned(a)
    BY <1>2, <1>3, <1>4, <1>8 DEF TypeOK
  <2> QED
    BY <1>6, <2>1
<1> QED
  BY <1>7, <1>8

\* A recovery gives back the debits of the abandoned tasks, none twice.
LEMMA RecoverPaid ==
  ASSUME TypeOK, OnceInv, PaidInv, Recover, account' = account
  PROVE  PaidInv'
<1> SUFFICES ASSUME NEW a \in Accounts
             PROVE  balance'[a] + Cost[a] * Cardinality(Unreturned(a)') <= Grant[a]
  BY DEF PaidInv
<1>1. PICK R : R = {t \in Abandoned : account[t] = a}
  OBVIOUS
<1>2. R \subseteq Unreturned(a)
  BY <1>1 DEF Abandoned, Running, Unreturned, OnceInv, Intact
<1>3. balance'[a] = balance[a] + Cost[a] * Cardinality(R)
  BY <1>1 DEF Recover
<1>4. Unreturned(a)' = Unreturned(a) \ R
  <2>1. \A t \in Tasks : /\ status'[t] # "none" <=> status[t] # "none"
                         /\ refunds'[t] = IF t \in Abandoned THEN refunds[t] + 1
                                                             ELSE refunds[t]
    BY DEF Recover, Abandoned, Running
  <2>2. \A t \in Abandoned : refunds[t] + 1 # 0
    BY DEF TypeOK, Abandoned, Running
  <2> QED
    BY <1>1, <2>1, <2>2 DEF Unreturned
<1>5. balance[a] \in Nat
  BY DEF TypeOK
<1>6. balance[a] + Cost[a] * Cardinality(Unreturned(a)) <= Grant[a]
  BY DEF PaidInv
<1> QED
  BY <1>2, <1>3, <1>4, <1>5, <1>6, ReturnPaid

LEMMA StepPaid ==
  ASSUME ~LostWrites, TypeOK, ExclusiveInv, SingleInv, OnceInv, PaidInv, [Next]_vars
  PROVE  PaidInv'
<1>0. balance \in [Accounts -> Nat]
  BY DEF TypeOK
<1>1. ASSUME NEW u \in Tasks, NEW a \in Accounts, NEW p \in Profiles,
             CreateTask(u, a, p)
      PROVE  PaidInv'
  BY <1>1, CreatePaid
<1>2. ASSUME NEW u \in Tasks, Age(u) PROVE PaidInv'
  BY <1>0, <1>2, KeepsPaid DEF Age
<1>3. ASSUME NEW w \in Workers, WorkerStep(w) PROVE PaidInv'
  <2>1. CASE FailRefund(w)
    BY <2>1, RefundPaid
  <2>2. CASE ~FailRefund(w)
    <3>1. UNCHANGED <<account, balance, refunds>>
      BY <1>3, <2>2 DEF WorkerStep, Claim, Load, CallSucceeds, CallFallsBack,
         CallGivesUp, Store, Finish, FailMark, FailRelease, rowVars
    <3>2. \A t \in Tasks : status'[t] # "none" => status[t] # "none"
      <4>1. ASSUME NEW t \in Tasks, Claim(w, t)
            PROVE  \A u \in Tasks : status'[u] # "none" => status[u] # "none"
        BY <4>1 DEF TypeOK, Claim, Claimable, Queued
      <4>2. CASE Finish(w) \/ FailMark(w)
        <5>1. held[w].task \in Tasks /\ status[held[w].task] # "none"
          BY <4>2, OwnTask DEF Finish, FailMark, Busy
        <5> QED
          BY <4>2, <5>1 DEF TypeOK, Finish, FailMark
      <4>3. ASSUME ~ \E t \in Tasks : Claim(w, t), ~Finish(w), ~FailMark(w)
            PROVE  status' = status
        BY <1>3, <4>3 DEF WorkerStep, Load, CallSucceeds, CallFallsBack,
           CallGivesUp, Store, FailRefund, FailRelease, rowVars
      <4> QED
        BY <4>1, <4>2, <4>3
    <3> QED
      BY <1>0, <3>1, <3>2, KeepsPaid
  <2> QED
    BY <2>1, <2>2
<1>4. ASSUME NEW i \in Instances, Start(i) PROVE PaidInv'
  BY <1>4, RecoverPaid DEF Start
<1>5. ASSUME NEW i \in Instances, Stop(i) PROVE PaidInv'
  BY <1>0, <1>5, KeepsPaid DEF Stop, rowVars
<1>6. CASE UNCHANGED vars
  BY <1>0, <1>6, KeepsPaid DEF vars, rowVars
<1> QED
  BY <1>1, <1>2, <1>3, <1>4, <1>5, <1>6 DEF Next

\* When processes do not overlap and no write is lost, an account never paid
\* for less than what was delivered for it or may still be.
THEOREM EveryImageIsPaid ==
  ASSUME ~Overlap, ~LostWrites
  PROVE  Spec => []NoFreeImages
<1>1. Init => PaidInv
  <2> SUFFICES ASSUME Init, NEW a \in Accounts
               PROVE  balance[a] + Cost[a] * Cardinality(Unreturned(a)) <= Grant[a]
    BY DEF PaidInv
  <2>1. Unreturned(a) = {}
    BY DEF Init, Unreturned
  <2>2. Cardinality(Unreturned(a)) = 0
    BY <2>1, FS_EmptySet
  <2>3. Cost[a] * 0 = 0 /\ Grant[a] \in Nat /\ balance[a] = Grant[a]
    BY CostAssumption DEF Init
  <2> QED
    BY <2>2, <2>3
<1>2. TypeOK /\ ExclusiveInv /\ SingleInv /\ OnceInv /\ PaidInv /\ [Next]_vars => PaidInv'
  BY StepPaid
<1>3. TypeOK /\ SingleInv /\ OnceInv /\ PaidInv => NoFreeImages
  <2> SUFFICES ASSUME TypeOK, SingleInv, OnceInv, PaidInv, NEW a \in Accounts
               PROVE  balance[a] + Cost[a] * Cardinality(
                        {t \in Tasks : account[t] = a
                           /\ status[t] \in {"queued", "running", "done"}}) <= Grant[a]
    BY DEF NoFreeImages
  <2>1. PICK C : C = {t \in Tasks : account[t] = a
                        /\ status[t] \in {"queued", "running", "done"}}
    OBVIOUS
  <2>2. C \subseteq Unreturned(a)
    BY <2>1 DEF Unreturned, SingleInv, OnceInv, DoneIsPaid, Intact
  <2>3. IsFiniteSet(Unreturned(a)) /\ Cardinality(Unreturned(a)) \in Nat
    BY UnreturnedFinite
  <2>4. Cardinality(C) <= Cardinality(Unreturned(a)) /\ Cardinality(C) \in Nat
    BY <2>2, <2>3, FS_Subset, FS_CardinalityType
  <2>5. Cost[a] \in Nat /\ Grant[a] \in Nat /\ balance[a] \in Nat
    BY CostAssumption DEF TypeOK
  <2>6. PICK m \in Nat, n \in Nat :
          m = Cardinality(C) /\ n = Cardinality(Unreturned(a))
    BY <2>3, <2>4
  <2>7. balance[a] + Cost[a] * n <= Grant[a]
    BY <2>6 DEF PaidInv
  <2>8. Cost[a] * m <= Cost[a] * n /\ Cost[a] * m \in Nat /\ Cost[a] * n \in Nat
    BY <2>4, <2>5, <2>6, CostIsMonotone
  <2>9. balance[a] + Cost[a] * m <= Grant[a]
    BY <2>5, <2>7, <2>8
  <2> QED
    BY <2>1, <2>6, <2>9
<1> QED
  BY <1>1, <1>2, <1>3, OnceCorrect, PTL DEF Spec

=============================================================================
