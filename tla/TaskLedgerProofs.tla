-------------------------- MODULE TaskLedgerProofs --------------------------
(***************************************************************************)
(* TaskLifecycle implements CreditLedger when processes do not overlap and *)
(* no ignored write fails: every step of a request, a worker or a recovery *)
(* is a step of the ledger or leaves it alone.                             *)
(***************************************************************************)
EXTENDS TaskLifecycleProofs

\* The ledger counts as FiniteSets does.
LEMMA SameCardinality ==
  \A S : Ledger!Cardinality(S) = Cardinality(S)
BY DEF Ledger!Cardinality, Cardinality

\* The ledger sees a task through its status and its refunds alone.
LEMMA SamePhases ==
  ASSUME UNCHANGED <<status, refunds, account, balance>>
  PROVE  UNCHANGED Ledger!ledgerVars
BY DEF Ledger!ledgerVars, PhaseOf

\* A step that changes one task moves one phase.
LEMMA OnePhase ==
  ASSUME NEW t \in Tasks, NEW ph,
         \A u \in Tasks \ {t} : status'[u] = status[u] /\ refunds'[u] = refunds[u],
         PhaseOf(t)' = ph
  PROVE  [u \in Tasks |-> PhaseOf(u)]'
           = [[u \in Tasks |-> PhaseOf(u)] EXCEPT ![t] = ph]
BY DEF PhaseOf

\* Refunding the only element of a set is refunding once.
LEMMA ReturnOne ==
  ASSUME NEW t \in Tasks, NEW a \in Accounts, account[t] = a, TypeOK,
         balance' = [balance EXCEPT ![a] = @ + Cost[a]]
  PROVE  balance' = [b \in Accounts |->
           balance[b] + Cost[b] * Cardinality({u \in {t} : account[u] = b})]
<1>1. ASSUME NEW b \in Accounts
      PROVE  balance'[b]
               = balance[b] + Cost[b] * Cardinality({u \in {t} : account[u] = b})
  <2>1. balance[b] \in Nat /\ Cost[b] \in Nat
    BY CostAssumption DEF TypeOK
  <2>2. CASE b = a
    <3>1. {u \in {t} : account[u] = b} = {t}
      BY <2>2
    <3>2. Cardinality({u \in {t} : account[u] = b}) = 1
      BY <3>1, FS_Singleton
    <3>3. balance'[b] = balance[b] + Cost[b]
      BY <2>2 DEF TypeOK
    <3> QED
      BY <2>1, <3>2, <3>3
  <2>3. CASE b # a
    <3>1. {u \in {t} : account[u] = b} = {}
      BY <2>3
    <3>2. Cardinality({u \in {t} : account[u] = b}) = 0
      BY <3>1, FS_EmptySet
    <3>3. balance'[b] = balance[b]
      BY <2>3 DEF TypeOK
    <3> QED
      BY <2>1, <3>2, <3>3
  <2> QED
    BY <2>2, <2>3
<1> QED
  BY <1>1 DEF TypeOK

LEMMA InitLedger == Init => Ledger!LedgerInit
<1> SUFFICES ASSUME Init PROVE Ledger!LedgerInit
  OBVIOUS
<1>1. account \in [Tasks -> Accounts] /\ balance = Grant
  BY InitType DEF Init, TypeOK
<1>2. [t \in Tasks |-> PhaseOf(t)] = [t \in Tasks |-> "open"]
  BY DEF Init, PhaseOf
<1> QED
  BY <1>1, <1>2 DEF Ledger!LedgerInit

LEMMA StepLedger ==
  ASSUME ~Overlap, ~LostWrites, [Next]_vars,
         TypeOK, ExclusiveInv, SingleInv, OnceInv
  PROVE  [Ledger!LedgerNext]_Ledger!ledgerVars
<1>1. ASSUME NEW t \in Tasks, NEW a \in Accounts, NEW p \in Profiles,
             CreateTask(t, a, p)
      PROVE  Ledger!LedgerNext
  <2>1. /\ status'[t] = "queued" /\ refunds'[t] = 0 /\ PhaseOf(t) = "open"
        /\ \A u \in Tasks \ {t} : status'[u] = status[u] /\ refunds'[u] = refunds[u]
    BY <1>1 DEF TypeOK, CreateTask, SingleInv, PhaseOf
  <2>2. PhaseOf(t)' = "held"
    BY <2>1 DEF PhaseOf
  <2>3. [u \in Tasks |-> PhaseOf(u)]'
          = [[u \in Tasks |-> PhaseOf(u)] EXCEPT ![t] = "held"]
    BY <2>1, <2>2, OnePhase
  <2>4. Ledger!Reserve(t, a)
    BY <1>1, <2>1, <2>3 DEF Ledger!Reserve, CreateTask
  <2> QED
    BY <2>4 DEF Ledger!LedgerNext
<1>2. ASSUME NEW t \in Tasks, Age(t) PROVE UNCHANGED Ledger!ledgerVars
  BY <1>2, SamePhases DEF Age
<1>3. ASSUME NEW w \in Workers, WorkerStep(w)
      PROVE  Ledger!LedgerNext \/ UNCHANGED Ledger!ledgerVars
  <2>1. ASSUME NEW t \in Tasks, Claim(w, t) PROVE UNCHANGED Ledger!ledgerVars
    <3>1. /\ UNCHANGED <<account, balance, refunds>>
          /\ status[t] = "queued"
          /\ status' = [status EXCEPT ![t] = "running"]
      BY <2>1 DEF Claim, Claimable, Queued
    <3>2. \A u \in Tasks : PhaseOf(u)' = PhaseOf(u)
      BY <3>1 DEF TypeOK, PhaseOf
    <3> QED
      BY <3>1, <3>2 DEF Ledger!ledgerVars
  <2>2. CASE Finish(w)
    <3>1. Busy(w) /\ Executing(w)
      BY <2>2 DEF Finish, Busy, Executing
    <3>0. PICK t \in Tasks : t = held[w].task
      BY <3>1, OwnTask
    <3>2. t \in Tasks /\ status[t] = "running" /\ refunds[t] = 0
      BY <3>0, <3>1 DEF SingleInv, Intact
    <3>3. /\ status' = [status EXCEPT ![t] = "done"]
          /\ UNCHANGED <<account, balance, refunds>>
      BY <2>2, <3>0 DEF Finish
    <3>4. PhaseOf(t) = "held" /\ PhaseOf(t)' = "spent"
      BY <3>2, <3>3 DEF TypeOK, PhaseOf
    <3>5. [u \in Tasks |-> PhaseOf(u)]'
            = [[u \in Tasks |-> PhaseOf(u)] EXCEPT ![t] = "spent"]
      BY <3>2, <3>3, <3>4, OnePhase DEF TypeOK
    <3>6. Ledger!Spend(t)
      BY <3>2, <3>3, <3>4, <3>5 DEF Ledger!Spend
    <3> QED
      BY <3>2, <3>6 DEF Ledger!LedgerNext
  <2>3. CASE FailMark(w)
    <3> DEFINE t == held[w].task
    <3>1. Busy(w) /\ Executing(w)
      BY <2>3 DEF FailMark, Busy, Executing
    <3>2. t \in Tasks /\ status[t] = "running"
      BY <3>1, OwnTask DEF SingleInv
    <3>3. /\ status' = [status EXCEPT ![t] = "error"]
          /\ UNCHANGED <<account, balance, refunds>>
      BY <2>3, <3>2 DEF FailMark
    <3> HIDE DEF t
    <3>4. \A u \in Tasks : PhaseOf(u)' = PhaseOf(u)
      BY <3>2, <3>3 DEF TypeOK, PhaseOf
    <3> QED
      BY <3>3, <3>4 DEF Ledger!ledgerVars
  <2>4. CASE FailRefund(w)
    <3>1. Busy(w) /\ Settling(w) /\ pc[w] = "refund"
      BY <2>4 DEF FailRefund, Busy, Settling
    <3>0. PICK t \in Tasks : t = held[w].task
      BY <3>1, OwnTask
    <3>2. t \in Tasks /\ status[t] = "error" /\ refunds[t] = 0
      BY <3>0, <3>1 DEF OnceInv
    <3>3. account[t] \in Accounts
      BY <3>2 DEF TypeOK
    <3>4. /\ balance' = [balance EXCEPT ![account[t]] = @ + Cost[account[t]]]
          /\ refunds' = [refunds EXCEPT ![t] = @ + 1]
          /\ UNCHANGED <<account, status>>
      BY <2>4, <3>0 DEF FailRefund, rowVars
    <3>5. PhaseOf(t) = "held" /\ PhaseOf(t)' = "returned"
      BY <3>2, <3>4 DEF TypeOK, PhaseOf
    <3>6. [u \in Tasks |-> PhaseOf(u)]'
            = [[u \in Tasks |-> PhaseOf(u)] EXCEPT ![t] = "returned"]
      BY <3>2, <3>4, <3>5, OnePhase DEF TypeOK
    <3>7. balance' = [b \in Accounts |->
            balance[b] + Cost[b] * Cardinality({u \in {t} : account[u] = b})]
      BY <3>2, <3>3, <3>4, ReturnOne
    <3>8. [u \in Tasks |-> PhaseOf(u)]'
            = [u \in Tasks |-> IF u \in {t} THEN "returned"
                                            ELSE [v \in Tasks |-> PhaseOf(v)][u]]
      BY <3>6
    <3>9. \A u \in {t} : [v \in Tasks |-> PhaseOf(v)][u] = "held"
      BY <3>2, <3>5
    <3>10. account' = account
      BY <3>4
    <3>11. Ledger!Return({t})
      BY <3>7, <3>8, <3>9, <3>10, SameCardinality DEF Ledger!Return
    <3> QED
      BY <3>2, <3>11 DEF Ledger!LedgerNext
  <2>5. CASE \/ Load(w) \/ CallSucceeds(w) \/ CallGivesUp(w) \/ Store(w)
             \/ FailRelease(w) \/ \E p \in Profiles : CallFallsBack(w, p)
    BY <2>5, SamePhases DEF Load, CallSucceeds, CallGivesUp, Store, FailRelease,
       CallFallsBack, rowVars
  <2> QED
    BY <1>3, <2>1, <2>2, <2>3, <2>4, <2>5 DEF WorkerStep
<1>4. ASSUME NEW i \in Instances, Start(i) PROVE Ledger!LedgerNext
  <2>1. Recover /\ account' = account
    BY <1>4 DEF Start
  <2>2. \A t \in Abandoned : t \in Tasks /\ PhaseOf(t) = "held"
    BY DEF Abandoned, Running, OnceInv, Intact, PhaseOf
  <2>3. [t \in Tasks |-> PhaseOf(t)]'
          = [t \in Tasks |-> IF t \in Abandoned THEN "returned"
                                               ELSE [u \in Tasks |-> PhaseOf(u)][t]]
    <3>1. \A t \in Abandoned : PhaseOf(t)' = "returned"
      BY <2>1, <2>2 DEF TypeOK, Recover, PhaseOf
    <3>2. \A t \in Tasks \ Abandoned : PhaseOf(t)' = PhaseOf(t)
      BY <2>1 DEF TypeOK, Recover, PhaseOf
    <3> QED
      BY <3>1, <3>2
  <2>4. \A t \in Abandoned : [u \in Tasks |-> PhaseOf(u)][t] = "held"
    BY <2>2
  <2>5. balance' = [a \in Accounts |->
          balance[a] + Cost[a] * Cardinality({t \in Abandoned : account[t] = a})]
    BY <2>1 DEF Recover
  <2>6. Ledger!Return(Abandoned)
    BY <2>1, <2>3, <2>4, <2>5, SameCardinality DEF Ledger!Return
  <2> QED
    BY <2>2, <2>6 DEF Ledger!LedgerNext
<1>5. ASSUME NEW i \in Instances, Stop(i) PROVE UNCHANGED Ledger!ledgerVars
  BY <1>5, SamePhases DEF Stop, rowVars
<1>6. CASE UNCHANGED vars
  BY <1>6, SamePhases DEF vars, rowVars
<1> QED
  BY <1>1, <1>2, <1>3, <1>4, <1>5, <1>6 DEF Next

\* Reserve-then-charge: with one process at a time and no lost write, however
\* workers crash and recoveries run, TaskLifecycle implements the ledger.
THEOREM LifecycleImplementsLedger ==
  ASSUME ~Overlap, ~LostWrites
  PROVE  Spec => ImplementsLedger
<1>1. Init => Ledger!LedgerInit
  BY InitLedger
<1>2. (TypeOK /\ ExclusiveInv /\ SingleInv /\ OnceInv) /\ [Next]_vars
        => [Ledger!LedgerNext]_Ledger!ledgerVars
  BY StepLedger
<1> QED
  BY <1>1, <1>2, OnceCorrect, PTL DEF Spec, ImplementsLedger, Ledger!LedgerSpec
=============================================================================
