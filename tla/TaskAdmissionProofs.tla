-------------------------- MODULE TaskAdmissionProofs --------------------------
(***************************************************************************)
(* Theorems about TaskAdmission, for any number of requests, redemptions   *)
(* and recoveries, of any wallets, codes, prices and limits.               *)
(***************************************************************************)
EXTENDS TaskAdmission, TotalsProofs

Places == {"new", "lock", "count", "insert", "code", "upsert", "refund", "commit", "over"}

----------------------------------------------------------------------------
(***************************************************************************)
(* Types                                                                   *)
(***************************************************************************)

BalanceType ==
  /\ credits \in [Wallets -> Nat]
  /\ remaining \in [Wallets \X Services -> Nat]
MaxType == maxConcurrent \in [Wallets \X Services -> Nat]
CodeType ==
  /\ code \in [Codes -> {"none", "active", "deleted"}]
  /\ redeemedBy \in [Codes -> Wallets \cup {None}]
RecoveryType == recovery \in [Recoveries -> [tasks : SUBSET Requests, rows : Seq(Rows)]]
LockType ==
  /\ lock \in [Rows -> Processes \cup {None}]
  /\ share \in [Rows -> SUBSET Processes]
PcType == pc \in [Processes -> Places]
BillingType == billing \in [Requests -> Billings]
PriceType == price \in [Services -> Nat \ {0}]
TaskType == task \in [Requests -> TaskStates]

TypeInv ==
  /\ PcType /\ BillingType /\ PriceType /\ TaskType
  /\ BalanceType /\ MaxType /\ CodeType
  /\ RecoveryType /\ LockType

LEMMA TypeInvIsTypeOK == TypeInv => TypeOK
<1> SUFFICES ASSUME TypeInv PROVE TypeOK
  OBVIOUS
<1>1. ASSUME NEW x \in Recoveries
      PROVE  recovery[x].tasks \subseteq Requests /\ Range(recovery[x].rows) \subseteq Rows
  <2>1. recovery[x].tasks \in SUBSET Requests /\ recovery[x].rows \in Seq(Rows)
    BY DEF TypeInv, RecoveryType
  <2>2. PICK q \in Seq(Rows) : q = recovery[x].rows
    BY <2>1
  <2>3. \A n \in DOMAIN q : q[n] \in Rows
    OBVIOUS
  <2> QED
    BY <2>1, <2>2, <2>3 DEF Range
<1>2. /\ PcType /\ BillingType /\ PriceType /\ TaskType
      /\ BalanceType /\ MaxType /\ CodeType /\ LockType
  BY DEF TypeInv
<1> QED
  BY <1>1, <1>2 DEF TypeOK, PcType, Places, BillingType, PriceType, TaskType,
     BalanceType, MaxType, CodeType, LockType

\* What the row that pays is, and what it holds.
LEMMA AccountFacts ==
  ASSUME BillingType, NEW r \in Requests
  PROVE  /\ billing[r].service \in Services
         /\ billing[r].units \in Nat
         /\ billing[r].usesCredits \in BOOLEAN
         /\ WalletOf[r] \in Wallets
         /\ AccountOf(r) \in Wallets \X Services
         /\ AccountRow(r) \in Rows
         /\ Price(r) \in Nat
         /\ Prices[r] = Price(r)
<1>1. billing[r] \in Billings
  BY DEF BillingType
<1>2. billing[r].service \in Services /\ billing[r].units \in Nat /\ billing[r].usesCredits \in BOOLEAN
  BY <1>1 DEF Billings
<1>3. WalletOf[r] \in Wallets
  BY RequestAssumption
<1> QED
  BY <1>2, <1>3 DEF AccountOf, AccountRow, Rows, Price, Prices

LEMMA RedemptionFacts ==
  ASSUME NEW d \in Redemptions
  PROVE  /\ WalletOf[d] \in Wallets /\ CodeOf[d] \in Codes
         /\ EntitlementOf(d) \in Wallets \X Services
         /\ CodeRow(CodeOf[d]) \in Rows
         /\ CodeCredits[CodeOf[d]] \in Nat /\ CodeMax[CodeOf[d]] \in Nat
BY RequestAssumption, RowAssumption DEF EntitlementOf, Rows

LEMMA TypeInit == Init => TypeInv
<1> SUFFICES ASSUME Init PROVE TypeInv
  OBVIOUS
<1>1. PcType /\ TaskType /\ LockType /\ CodeType
  BY DEF Init, PcType, Places, TaskType, TaskStates, LockType, CodeType
<1>2. BillingType
  BY DEF Init, BillingType, Billings, Services
<1>3. PriceType /\ BalanceType /\ MaxType
  BY RowAssumption DEF Init, PriceType, BalanceType, MaxType
<1>4. RecoveryType
  BY DEF Init, RecoveryType, NoRecovery
<1> QED
  BY <1>1, <1>2, <1>3, <1>4 DEF TypeInv

LEMMA ReleaseType ==
  ASSUME PcType, LockType, NEW p \in Processes, Release(p)
  PROVE  PcType' /\ LockType'
BY DEF PcType, LockType, Release, Places

LEMMA MoveType ==
  ASSUME PcType, NEW p \in Processes, NEW place \in Places,
         pc' = [pc EXCEPT ![p] = place]
  PROVE  PcType'
BY DEF PcType

LEMMA LockForType ==
  ASSUME LockType, NEW p \in Processes, NEW row,
         LockForUpdate(p, row) \/ LockForKeyShare(p, row)
  PROVE  LockType'
BY DEF LockType, LockForUpdate, LockForKeyShare

\* The total of the prices of any requests is a number.
LEMMA PricesTotal ==
  ASSUME BillingType, NEW S \in SUBSET Requests
  PROVE  /\ IsFiniteSet(S)
         /\ \A r \in S : Prices[r] \in Nat
         /\ Total(S, Prices) \in Nat
<1>1. IsFiniteSet(S)
  BY SetsAssumption, FS_Subset
<1>2. \A r \in S : Prices[r] \in Nat
  BY AccountFacts
<1> QED
  BY <1>1, <1>2, TotalType

\* A request that is past the lock has it, and its account covers the price.
RequestLock(r) ==
  pc[r] \in {"count", "insert", "commit"} =>
    lock[AccountRow(r)] = r /\ Balance(r) >= Price(r)

LEMMA RequestStepType ==
  ASSUME TypeInv, NEW r \in Requests, RequestLock(r), RequestStep(r)
  PROVE  TypeInv'
<1>p. r \in Processes
  BY DEF Processes
<1>t. /\ PcType /\ BillingType /\ PriceType /\ TaskType
      /\ BalanceType /\ MaxType /\ CodeType /\ RecoveryType /\ LockType
  BY DEF TypeInv
<1>1. CASE SelectBilling(r)
  <2>1. BillingType'
    <3>1. PICK b \in Billings : billing' = [billing EXCEPT ![r] = b]
      <4>1. EntitlementBillings(Tier[r], WithBalance(WalletOf[r])) \subseteq Billings
        <5>1. EntitlementServices(Tier[r]) \in Seq(Services)
          <6>1. SD \in Services /\ HD \in Services
            BY DEF Services
          <6>2. <<HD>> \in Seq(Services) /\ <<SD, HD>> \in Seq(Services)
            BY <6>1
          <6> QED
            BY <6>2 DEF EntitlementServices
        <5>2. PICK q \in Seq(Services) : q = EntitlementServices(Tier[r])
          BY <5>1
        <5>3. \A n \in 1 .. Len(q) :
                [service |-> q[n], units |-> 1, usesCredits |-> FALSE] \in Billings
          BY DEF Billings
        <5> QED
          BY <5>2, <5>3 DEF EntitlementBillings
      <4>2. CreditBillings(Tier[r], price) \subseteq Billings
        <5>1. CreditService(Tier[r]) \in Services
          BY DEF CreditService, Services
        <5>2. price[CreditService(Tier[r])] \in Nat
          BY <1>t, <5>1 DEF PriceType
        <5> QED
          BY <5>1, <5>2 DEF CreditBillings, Billings
      <4> QED
        BY <1>1, <4>1, <4>2 DEF SelectBilling
    <3> QED
      BY <1>t, <3>1 DEF BillingType
  <2>2. PcType'
    BY <1>1, <1>p, <1>t, MoveType DEF SelectBilling, Places
  <2>3. UNCHANGED <<price, balanceVars, codeVars, task, recovery, lockVars>>
    BY <1>1 DEF SelectBilling
  <2> QED
    BY <1>t, <2>1, <2>2, <2>3 DEF TypeInv, PriceType, TaskType, BalanceType, MaxType,
       CodeType, RecoveryType, LockType, balanceVars, codeVars, lockVars
<1>2. CASE LockAccount(r)
  <2>1. PcType'
    BY <1>2, <1>p, <1>t, MoveType DEF LockAccount, Places
  <2>2. LockType'
    BY <1>2, <1>p, <1>t, LockForType DEF LockAccount
  <2>3. UNCHANGED <<billing, price, balanceVars, codeVars, task, recovery>>
    BY <1>2 DEF LockAccount
  <2> QED
    BY <1>t, <2>1, <2>2, <2>3 DEF TypeInv, BillingType, PriceType, TaskType, BalanceType,
       MaxType, CodeType, RecoveryType, balanceVars, codeVars
<1>3. CASE CountActive(r)
  <2>1. PcType'
    BY <1>3, <1>p, <1>t, MoveType DEF CountActive, Places
  <2>2. UNCHANGED <<billing, price, balanceVars, codeVars, task, recovery, lockVars>>
    BY <1>3 DEF CountActive
  <2> QED
    BY <1>t, <2>1, <2>2 DEF TypeInv, BillingType, PriceType, TaskType, BalanceType,
       MaxType, CodeType, RecoveryType, LockType, balanceVars, codeVars, lockVars
<1>4. CASE InsertTask(r)
  <2>1. PcType'
    BY <1>4, <1>p, <1>t, MoveType DEF InsertTask, Places
  <2>2. LockType'
    BY <1>4, <1>p, <1>t, LockForType DEF InsertTask
  <2>3. UNCHANGED <<billing, price, balanceVars, codeVars, task, recovery>>
    BY <1>4 DEF InsertTask
  <2> QED
    BY <1>t, <2>1, <2>2, <2>3 DEF TypeInv, BillingType, PriceType, TaskType, BalanceType,
       MaxType, CodeType, RecoveryType, balanceVars, codeVars
<1>5. CASE CommitTask(r)
  <2>1. PcType' /\ LockType'
    BY <1>5, <1>p, <1>t, ReleaseType DEF CommitTask
  <2>2. PICK p \in Nat : p = Price(r)
    BY <1>t, AccountFacts
  <2>3. Balance(r) >= p
    BY <1>5, <2>2 DEF CommitTask, RequestLock
  <2>4. BalanceType'
    <3>1. CASE billing[r].usesCredits
      <4>1. PICK w \in Wallets : w = WalletOf[r]
        BY <1>t, AccountFacts
      <4>2. credits[w] \in Nat /\ credits[w] >= p
        BY <1>t, <2>3, <3>1, <4>1 DEF Balance, BalanceType
      <4>3. credits[w] - p \in Nat
        BY <4>2
      <4>4. credits' = [credits EXCEPT ![w] = credits[w] - p] /\ UNCHANGED remaining
        BY <1>5, <1>t, <2>2, <3>1, <4>1 DEF CommitTask, BalanceType
      <4> QED
        BY <1>t, <4>3, <4>4 DEF BalanceType
    <3>2. CASE ~billing[r].usesCredits
      <4>1. PICK e \in Wallets \X Services : e = AccountOf(r)
        BY <1>t, AccountFacts
      <4>2. remaining[e] \in Nat /\ remaining[e] >= p
        BY <1>t, <2>3, <3>2, <4>1 DEF Balance, BalanceType
      <4>3. remaining[e] - p \in Nat
        BY <4>2
      <4>4. remaining' = [remaining EXCEPT ![e] = remaining[e] - p] /\ UNCHANGED credits
        BY <1>5, <1>t, <2>2, <3>2, <4>1 DEF CommitTask, BalanceType
      <4> QED
        BY <1>t, <4>3, <4>4 DEF BalanceType
    <3> QED
      BY <3>1, <3>2
  <2>5. TaskType'
    BY <1>5, <1>t DEF CommitTask, TaskType, TaskStates
  <2>6. UNCHANGED <<billing, price, maxConcurrent, codeVars, recovery>>
    BY <1>5 DEF CommitTask
  <2> QED
    BY <1>t, <2>1, <2>4, <2>5, <2>6 DEF TypeInv, BillingType, PriceType, MaxType, CodeType,
       RecoveryType, codeVars
<1> QED
  BY <1>1, <1>2, <1>3, <1>4, <1>5 DEF RequestStep

\* A task ends, is abandoned or gets back what it cost; a price is edited.
LEMMA TaskStepType ==
  ASSUME TypeInv, NEW r \in Requests, EndTask(r) \/ RefundTask(r) \/ StopWorker(r)
  PROVE  TypeInv'
<1>t. /\ PcType /\ BillingType /\ PriceType /\ TaskType
      /\ BalanceType /\ MaxType /\ CodeType /\ RecoveryType /\ LockType
  BY DEF TypeInv
<1>1. TaskType'
  BY <1>t DEF TaskType, TaskStates, EndTask, RefundTask, StopWorker
<1>2. BalanceType'
  <2>1. CASE EndTask(r) \/ StopWorker(r)
    BY <1>t, <2>1 DEF EndTask, StopWorker, balanceVars, BalanceType
  <2>2. CASE RefundTask(r)
    <3>1. PICK p \in Nat : p = Price(r)
      BY <1>t, AccountFacts
    <3>2. PICK w \in Wallets : w = WalletOf[r]
      BY <1>t, AccountFacts
    <3>3. PICK e \in Wallets \X Services : e = AccountOf(r)
      BY <1>t, AccountFacts
    <3>4. \/ credits' = [credits EXCEPT ![w] = @ + p] /\ UNCHANGED remaining
          \/ remaining' = [remaining EXCEPT ![e] = @ + p] /\ UNCHANGED credits
      BY <2>2, <3>1, <3>2, <3>3 DEF RefundTask, GiveBack
    <3> QED
      BY <1>t, <3>4 DEF BalanceType
  <2> QED
    BY <2>1, <2>2
<1>3. UNCHANGED <<pc, billing, price, maxConcurrent, codeVars, recovery, lockVars>>
  BY DEF EndTask, RefundTask, StopWorker, balanceVars
<1> QED
  BY <1>t, <1>1, <1>2, <1>3 DEF TypeInv, PcType, BillingType, PriceType, MaxType, CodeType,
     RecoveryType, LockType, codeVars, lockVars

LEMMA EditStepType ==
  ASSUME TypeInv,
         \/ \E s \in Services : \E units \in NewPrices[s] : SetPrice(s, units)
         \/ \E c \in Codes : CreateCode(c) \/ DeleteCode(c)
  PROVE  TypeInv'
<1>t. /\ PcType /\ BillingType /\ PriceType /\ TaskType
      /\ BalanceType /\ MaxType /\ CodeType /\ RecoveryType /\ LockType
  BY DEF TypeInv
<1>1. PriceType'
  <2>1. CASE UNCHANGED price
    BY <1>t, <2>1 DEF PriceType
  <2>2. ASSUME NEW s \in Services, NEW units \in NewPrices[s], SetPrice(s, units)
        PROVE  PriceType'
    <3>1. units \in Nat \ {0}
      BY RowAssumption
    <3> QED
      BY <1>t, <2>2, <3>1 DEF SetPrice, PriceType
  <2> QED
    BY <2>1, <2>2 DEF CreateCode, DeleteCode
<1>2. CodeType'
  BY <1>t DEF CodeType, SetPrice, CreateCode, DeleteCode, codeVars
<1>3. UNCHANGED <<pc, billing, balanceVars, task, recovery, lockVars>>
  BY DEF SetPrice, CreateCode, DeleteCode
<1> QED
  BY <1>t, <1>1, <1>2, <1>3 DEF TypeInv, PcType, BillingType, TaskType, BalanceType, MaxType,
     RecoveryType, LockType, balanceVars, lockVars

\* The rows a recovery refunds are finitely many, and a sequence of them is one of
\* rows.
LEMMA AccountRowsType ==
  ASSUME BillingType, NEW tasks \in SUBSET Requests, NEW usesCredits,
         NEW q \in SetToSeqs(AccountRows(tasks, usesCredits))
  PROVE  q \in Seq(Rows)
<1> DEFINE payers == {t \in tasks : billing[t].usesCredits = usesCredits}
           rows == AccountRows(tasks, usesCredits)
           row == [r \in payers |-> AccountRow(r)]
<1>1. IsFiniteSet(payers)
  BY SetsAssumption, FS_Subset
<1>2. row \in Surjection(payers, rows)
  BY DEF Surjection, AccountRows
<1>3. IsFiniteSet(rows)
  BY <1>1, <1>2, FS_Surjection
<1>4. Cardinality(rows) \in Nat
  BY <1>3, FS_CardinalityType
<1>5. rows \subseteq Rows
  BY AccountFacts DEF AccountRows
<1> HIDE DEF rows
<1>6. q \in [1 .. Cardinality(rows) -> rows]
  BY DEF SetToSeqs, rows
<1> QED
  BY <1>4, <1>5, <1>6

LEMMA RecoveryStepType ==
  ASSUME TypeInv, NEW x \in Recoveries, RecoveryStep(x)
  PROVE  TypeInv'
<1>p. x \in Processes
  BY DEF Processes
<1>t. /\ PcType /\ BillingType /\ PriceType /\ TaskType
      /\ BalanceType /\ MaxType /\ CodeType /\ RecoveryType /\ LockType
  BY DEF TypeInv
<1>1. CASE MarkStale(x)
  <2>1. PICK stale \in SUBSET {r \in Requests : task[r] = "abandoned"} :
          \E entitlements \in SetToSeqs(AccountRows(stale, FALSE)),
             wallets \in SetToSeqs(AccountRows(stale, TRUE)) :
            recovery' = [recovery EXCEPT ![x] =
                           [tasks |-> stale, rows |-> entitlements \o wallets]]
    BY <1>1 DEF MarkStale
  <2>2. PICK entitlements \in SetToSeqs(AccountRows(stale, FALSE)),
             wallets \in SetToSeqs(AccountRows(stale, TRUE)) :
          recovery' = [recovery EXCEPT ![x] =
                         [tasks |-> stale, rows |-> entitlements \o wallets]]
    BY <2>1
  <2>3. entitlements \in Seq(Rows) /\ wallets \in Seq(Rows)
    BY <1>t, AccountRowsType
  <2>4. entitlements \o wallets \in Seq(Rows)
    BY <2>3
  <2>5. RecoveryType'
    BY <1>t, <2>2, <2>4 DEF RecoveryType
  <2>6. PcType'
    BY <1>1, <1>p, <1>t, MoveType DEF MarkStale, Places
  <2>7. UNCHANGED <<billing, price, balanceVars, codeVars, task, lockVars>>
    BY <1>1 DEF MarkStale
  <2> QED
    BY <1>t, <2>5, <2>6, <2>7 DEF TypeInv, BillingType, PriceType, TaskType, BalanceType,
       MaxType, CodeType, LockType, balanceVars, codeVars, lockVars
<1>2. CASE RefundRow(x)
  <2>1. PICK q \in Seq(Rows) : q = recovery[x].rows /\ q # <<>>
    BY <1>2, <1>t DEF RefundRow, RecoveryType
  <2>2. Tail(q) \in Seq(Rows)
    BY <2>1
  <2>3. recovery' = [recovery EXCEPT ![x].rows = Tail(q)]
    BY <1>2, <1>t, <2>1 DEF RefundRow, RecoveryType
  <2>4. RecoveryType'
    BY <1>t, <2>2, <2>3 DEF RecoveryType
  <2>5. LockType'
    BY <1>2, <1>p, <1>t, LockForType DEF RefundRow
  <2>6. UNCHANGED <<pc, billing, price, balanceVars, codeVars, task>>
    BY <1>2 DEF RefundRow
  <2> QED
    BY <1>t, <2>4, <2>5, <2>6 DEF TypeInv, PcType, BillingType, PriceType, TaskType,
       BalanceType, MaxType, CodeType, balanceVars, codeVars
<1>3. CASE CommitRecovery(x)
  <2>1. \A row : RefundOf(x, row) \in Nat
    <3>1. recovery[x].tasks \in SUBSET Requests
      BY <1>t DEF RecoveryType
    <3> QED
      BY <1>t, <3>1, PricesTotal DEF RefundOf
  <2>2. BalanceType'
    BY <1>3, <1>t, <2>1 DEF CommitRecovery, BalanceType
  <2>3. TaskType'
    BY <1>3, <1>t DEF CommitRecovery, TaskType, TaskStates
  <2>4. RecoveryType'
    BY <1>3, <1>t DEF CommitRecovery, RecoveryType, NoRecovery
  <2>5. PcType' /\ LockType'
    BY <1>3, <1>p, <1>t, ReleaseType DEF CommitRecovery
  <2>6. UNCHANGED <<billing, price, maxConcurrent, codeVars>>
    BY <1>3 DEF CommitRecovery
  <2> QED
    BY <1>t, <2>2, <2>3, <2>4, <2>5, <2>6 DEF TypeInv, BillingType, PriceType, MaxType,
       CodeType, codeVars
<1> QED
  BY <1>1, <1>2, <1>3 DEF RecoveryStep

LEMMA RedemptionStepType ==
  ASSUME TypeInv, NEW d \in Redemptions, RedemptionStep(d)
  PROVE  TypeInv'
<1>p. d \in Processes
  BY DEF Processes
<1>t. /\ PcType /\ BillingType /\ PriceType /\ TaskType
      /\ BalanceType /\ MaxType /\ CodeType /\ RecoveryType /\ LockType
  BY DEF TypeInv
<1>1. CASE LockWallet(d) \/ LockCode(d) \/ UpsertEntitlement(d)
  <2>1. PcType'
    BY <1>1, <1>p, <1>t, MoveType DEF LockWallet, LockCode, UpsertEntitlement, Places
  <2>2. LockType'
    BY <1>1, <1>p, <1>t, LockForType DEF LockWallet, LockCode, UpsertEntitlement
  <2>3. UNCHANGED <<billing, price, balanceVars, codeVars, task, recovery>>
    BY <1>1 DEF LockWallet, LockCode, UpsertEntitlement
  <2> QED
    BY <1>t, <2>1, <2>2, <2>3 DEF TypeInv, BillingType, PriceType, TaskType, BalanceType,
       MaxType, CodeType, RecoveryType, balanceVars, codeVars
<1>2. CASE CommitRedemption(d)
  <2>1. PcType' /\ LockType'
    BY <1>2, <1>p, <1>t, ReleaseType DEF CommitRedemption
  <2>2. PICK e \in Wallets \X Services : e = EntitlementOf(d)
    BY RedemptionFacts
  <2>3. BalanceType' /\ MaxType'
    BY <1>2, <1>t, <2>2, RedemptionFacts DEF CommitRedemption, BalanceType, MaxType
  <2>4. CodeType'
    BY <1>2, <1>t, RedemptionFacts DEF CommitRedemption, CodeType
  <2>5. UNCHANGED <<billing, price, task, recovery>>
    BY <1>2 DEF CommitRedemption
  <2> QED
    BY <1>t, <2>1, <2>3, <2>4, <2>5 DEF TypeInv, BillingType, PriceType, TaskType,
       RecoveryType
<1> QED
  BY <1>1, <1>2 DEF RedemptionStep

LEMMA EndStepType ==
  ASSUME TypeInv, NEW p \in Processes, Refuse(p) \/ Abort(p)
  PROVE  TypeInv'
<1>t. /\ PcType /\ BillingType /\ PriceType /\ TaskType
      /\ BalanceType /\ MaxType /\ CodeType /\ RecoveryType /\ LockType
  BY DEF TypeInv
<1>1. PcType' /\ LockType'
  BY <1>t, ReleaseType DEF Refuse, Abort
<1>2. RecoveryType'
  <2>1. NoRecovery \in [tasks : SUBSET Requests, rows : Seq(Rows)]
    BY DEF NoRecovery
  <2>2. CASE UNCHANGED recovery
    BY <1>t, <2>2 DEF RecoveryType
  <2>3. CASE Abort(p)
    BY <1>t, <2>1, <2>3 DEF Abort, RecoveryType
  <2> QED
    BY <2>2, <2>3 DEF Refuse
<1>3. UNCHANGED <<billing, price, balanceVars, codeVars, task>>
  BY DEF Refuse, Abort
<1> QED
  BY <1>t, <1>1, <1>2, <1>3 DEF TypeInv, BillingType, PriceType, TaskType, BalanceType,
     MaxType, CodeType, balanceVars, codeVars

----------------------------------------------------------------------------
(***************************************************************************)
(* Locks                                                                   *)
(***************************************************************************)

\* So has a redemption its code, which nobody has redeemed then.
RedemptionLock(d) ==
  pc[d] \in {"upsert", "commit"} =>
    lock[CodeRow(CodeOf[d])] = d /\ redeemedBy[CodeOf[d]] = None

LockInv ==
  /\ \A r \in Requests : RequestLock(r)
  /\ \A d \in Redemptions : RedemptionLock(d)

\* What a step of another process, or of none, may do to the locks.
LockStep(p) ==
  \/ Release(p)
  \/ UNCHANGED pc /\ (UNCHANGED lock \/ \E row : LockForUpdate(p, row))
  \/ \E place : pc' = [pc EXCEPT ![p] = place]
                /\ (UNCHANGED lock \/ \E row : LockForUpdate(p, row))

\* Nobody loses a lock by it, and nobody moves.
LEMMA LockKept ==
  ASSUME PcType, LockType, NEW p, LockStep(p),
         NEW q \in Processes, q # p
  PROVE  /\ pc'[q] = pc[q]
         /\ \A row \in Rows : lock[row] = q => lock'[row] = q
<1>1. pc'[q] = pc[q]
  BY DEF LockStep, Release, PcType
<1>2. ASSUME NEW row \in Rows, lock[row] = q PROVE lock'[row] = q
  <2>1. CASE Release(p)
    BY <1>2, <2>1 DEF Release
  <2>2. CASE UNCHANGED lock
    BY <1>2, <2>2
  <2>3. ASSUME NEW other, LockForUpdate(p, other) PROVE lock'[row] = q
    <3>1. q # None
      BY SetsAssumption
    <3>2. other # row
      BY <1>2, <2>3, <3>1 DEF LockForUpdate, UpdateBlockers
    <3> QED
      BY <1>2, <2>3, <3>2 DEF LockForUpdate, LockType
  <2> QED
    BY <2>1, <2>2, <2>3 DEF LockStep
<1> QED
  BY <1>1, <1>2

\* Who locks a row has it then.
LEMMA LockTaken ==
  ASSUME LockType, NEW p \in Processes, NEW row \in Rows, LockForUpdate(p, row)
  PROVE  lock'[row] = p
BY DEF LockType, LockForUpdate

Grown ==
  /\ \A w \in Wallets : credits'[w] >= credits[w]
  /\ \A e \in Wallets \X Services : remaining'[e] >= remaining[e]

LEMMA BalanceGrown ==
  ASSUME BillingType, NEW r \in Requests, billing'[r] = billing[r], Grown
  PROVE  Balance(r)' >= Balance(r)
BY AccountFacts DEF Balance, AccountOf, Grown

LEMMA RequestLockKept ==
  ASSUME TypeInv, TypeInv', NEW r \in Requests, RequestLock(r),
         NEW p, p # r, LockStep(p), billing'[r] = billing[r],
         pc[r] \in {"count", "insert", "commit"} => Balance(r)' >= Balance(r)
  PROVE  RequestLock(r)'
<1> SUFFICES ASSUME pc'[r] \in {"count", "insert", "commit"}
             PROVE  lock'[AccountRow(r)'] = r /\ Balance(r)' >= Price(r)'
  BY DEF RequestLock
<1>1. r \in Processes /\ PcType /\ LockType /\ BillingType /\ BalanceType /\ BalanceType'
  BY DEF TypeInv, Processes
<1>2. pc'[r] = pc[r]
  BY <1>1, LockKept
<1>3. AccountRow(r)' = AccountRow(r) /\ Price(r)' = Price(r)
  BY DEF AccountRow, Price
<1>4. lock[AccountRow(r)] = r /\ Balance(r) >= Price(r) /\ Balance(r)' >= Balance(r)
  BY <1>2 DEF RequestLock
<1>5. lock'[AccountRow(r)] = r
  BY <1>1, <1>4, LockKept, AccountFacts
<1>6. Balance(r) \in Nat /\ Balance(r)' \in Nat /\ Price(r) \in Nat
  BY <1>1, AccountFacts DEF Balance, BalanceType, AccountOf
<1> QED
  BY <1>3, <1>4, <1>5, <1>6

\* The commit of one request leaves the account of another one alone that has
\* locked its account: there is one lock for each.
LEMMA OtherAccount ==
  ASSUME TypeInv, NEW q \in Requests, NEW r \in Requests, q # r, CommitTask(q),
         RequestLock(q), RequestLock(r), pc[r] \in {"count", "insert", "commit"}
  PROVE  Balance(r)' >= Balance(r)
<1>1. lock[AccountRow(q)] = q /\ lock[AccountRow(r)] = r
  BY DEF CommitTask, RequestLock
<1>2. AccountRow(q) # AccountRow(r)
  BY <1>1
<1>3. billing'[r] = billing[r] /\ BillingType /\ BalanceType
  BY DEF CommitTask, TypeInv
<1>4. Balance(r)' = Balance(r)
  <2>1. CASE billing[q].usesCredits
    <3>1. credits' = [credits EXCEPT ![WalletOf[q]] = @ - Price(q)] /\ UNCHANGED remaining
      BY <2>1 DEF CommitTask
    <3>2. billing[r].usesCredits => WalletOf[r] # WalletOf[q]
      BY <1>2, <2>1 DEF AccountRow
    <3> QED
      BY <1>3, <3>1, <3>2, AccountFacts DEF Balance, BalanceType, AccountOf
  <2>2. CASE ~billing[q].usesCredits
    <3>1. remaining' = [remaining EXCEPT ![AccountOf(q)] = @ - Price(q)] /\ UNCHANGED credits
      BY <2>2 DEF CommitTask
    <3>2. ~billing[r].usesCredits => AccountOf(r) # AccountOf(q)
      BY <1>2, <2>2 DEF AccountRow, AccountOf
    <3> QED
      BY <1>3, <3>1, <3>2, AccountFacts DEF Balance, BalanceType, AccountOf
  <2> QED
    BY <2>1, <2>2
<1>5. Balance(r) \in Nat
  BY <1>3, AccountFacts DEF Balance, BalanceType, AccountOf
<1> QED
  BY <1>4, <1>5

\* What a step of p may do to the locks of the requests; a request that moves
\* itself has what it needs.
LEMMA RequestLocksKept ==
  ASSUME TypeInv, TypeInv', LockInv, NEW p, LockStep(p), Grown,
         \A r \in Requests : r # p => billing'[r] = billing[r],
         p \in Requests => RequestLock(p)'
  PROVE  \A r \in Requests : RequestLock(r)'
<1> SUFFICES ASSUME NEW r \in Requests, r # p PROVE RequestLock(r)'
  OBVIOUS
<1>1. Balance(r)' >= Balance(r)
  BY BalanceGrown DEF TypeInv
<1> QED
  BY <1>1, RequestLockKept DEF LockInv

\* So it may to those of the redemptions, as long as no code is redeemed but by p.
LEMMA RedemptionLocksKept ==
  ASSUME TypeInv, LockInv, NEW p, LockStep(p),
         \A d \in Redemptions :
           pc[d] \in {"upsert", "commit"} /\ d # p => redeemedBy'[CodeOf[d]] = None,
         p \in Redemptions => RedemptionLock(p)'
  PROVE  \A d \in Redemptions : RedemptionLock(d)'
<1> SUFFICES ASSUME NEW d \in Redemptions, d # p, pc'[d] \in {"upsert", "commit"}
             PROVE  lock'[CodeRow(CodeOf[d])] = d /\ redeemedBy'[CodeOf[d]] = None
  BY DEF RedemptionLock
<1>1. d \in Processes /\ PcType /\ LockType
  BY DEF TypeInv, Processes
<1>2. pc'[d] = pc[d]
  BY <1>1, LockKept
<1>3. lock[CodeRow(CodeOf[d])] = d /\ CodeRow(CodeOf[d]) \in Rows
  BY <1>2, RedemptionFacts DEF LockInv, RedemptionLock
<1> QED
  BY <1>1, <1>2, <1>3, LockKept

LEMMA SameBalances ==
  ASSUME TypeInv, UNCHANGED <<credits, remaining>>
  PROVE  Grown
BY DEF TypeInv, BalanceType, Grown

LEMMA RequestStepLocks ==
  ASSUME TypeInv, TypeInv', LockInv, NEW r \in Requests, RequestStep(r)
  PROVE  LockInv'
<1>p. r \in Processes /\ r \notin Redemptions
  BY SetsAssumption DEF Processes
<1>t. PcType /\ LockType /\ BillingType /\ AccountRow(r) \in Rows
  BY AccountFacts DEF TypeInv
<1>1. LockStep(r)
  BY DEF LockStep, RequestStep, SelectBilling, LockAccount, CountActive, InsertTask,
     CommitTask, LockForKeyShare, lockVars
<1>2. \A q \in Requests : q # r => billing'[q] = billing[q]
  BY <1>t DEF BillingType, RequestStep, SelectBilling, LockAccount, CountActive, InsertTask,
     CommitTask
<1>3. RequestLock(r)'
  <2>1. CASE SelectBilling(r) \/ CommitTask(r)
    <3>1. pc'[r] \notin {"count", "insert", "commit"}
      BY <1>p, <1>t, <2>1 DEF SelectBilling, CommitTask, Release, PcType
    <3> QED
      BY <3>1 DEF RequestLock
  <2>2. CASE LockAccount(r)
    <3>1. lock'[AccountRow(r)] = r
      BY <1>p, <1>t, <2>2, LockTaken DEF LockAccount
    <3>2. Balance(r) >= Price(r) /\ UNCHANGED <<billing, credits, remaining>>
      BY <2>2 DEF LockAccount, balanceVars
    <3> QED
      BY <3>1, <3>2 DEF RequestLock, Balance, Price, AccountRow, AccountOf
  <2>3. CASE CountActive(r) \/ InsertTask(r)
    <3>1. pc[r] \in {"count", "insert"}
          /\ UNCHANGED <<billing, credits, remaining, lock>>
      BY <2>3 DEF CountActive, InsertTask, balanceVars, lockVars, LockForKeyShare
    <3>2. RequestLock(r)
      BY DEF LockInv
    <3> QED
      BY <3>1, <3>2 DEF RequestLock, Balance, Price, AccountRow, AccountOf
  <2> QED
    BY <2>1, <2>2, <2>3 DEF RequestStep
<1>4. \A q \in Requests : RequestLock(q)'
  <2>1. CASE CommitTask(r)
    <3> SUFFICES ASSUME NEW q \in Requests, q # r PROVE RequestLock(q)'
      BY <1>3
    <3>1. RequestLock(q) /\ RequestLock(r)
      BY DEF LockInv
    <3>2. pc[q] \in {"count", "insert", "commit"} => Balance(q)' >= Balance(q)
      BY <2>1, <3>1, OtherAccount
    <3> QED
      BY <1>1, <1>2, <3>1, <3>2, RequestLockKept
  <2>2. CASE ~CommitTask(r)
    <3>1. UNCHANGED <<credits, remaining>>
      BY <2>2 DEF RequestStep, SelectBilling, LockAccount, CountActive, InsertTask, balanceVars
    <3> QED
      BY <1>1, <1>2, <1>3, <3>1, SameBalances, RequestLocksKept
  <2> QED
    BY <2>1, <2>2
<1>5. \A d \in Redemptions : RedemptionLock(d)'
  <2>1. UNCHANGED redeemedBy
    BY DEF RequestStep, SelectBilling, LockAccount, CountActive, InsertTask, CommitTask,
       codeVars
  <2>2. \A d \in Redemptions :
          pc[d] \in {"upsert", "commit"} => redeemedBy'[CodeOf[d]] = None
    BY <2>1 DEF LockInv, RedemptionLock
  <2> QED
    BY <1>p, <1>1, <2>2, RedemptionLocksKept
<1> QED
  BY <1>4, <1>5 DEF LockInv

\* Steps in which no request and no redemption moves, but those of p, which ends or
\* has nothing to do with these locks.
LEMMA OtherStepLocks ==
  ASSUME TypeInv, TypeInv', LockInv, NEW p, LockStep(p), Grown,
         UNCHANGED <<billing, redeemedBy>>,
         p \in Requests \cup Redemptions => pc'[p] = "over"
  PROVE  LockInv'
<1>1. \A r \in Requests : RequestLock(r)'
  <2>1. p \in Requests => RequestLock(p)'
    BY DEF RequestLock
  <2> QED
    BY <2>1, RequestLocksKept
<1>2. \A d \in Redemptions : RedemptionLock(d)'
  <2>1. p \in Redemptions => RedemptionLock(p)'
    BY DEF RedemptionLock
  <2>2. \A d \in Redemptions :
          pc[d] \in {"upsert", "commit"} => redeemedBy'[CodeOf[d]] = None
    BY DEF LockInv, RedemptionLock
  <2> QED
    BY <2>1, <2>2, RedemptionLocksKept
<1> QED
  BY <1>1, <1>2 DEF LockInv

LEMMA TaskStepLocks ==
  ASSUME TypeInv, TypeInv', LockInv, NEW r \in Requests,
         EndTask(r) \/ RefundTask(r) \/ StopWorker(r)
  PROVE  LockInv'
<1>1. LockStep(None) /\ None \notin Requests \cup Redemptions
  BY SetsAssumption DEF LockStep, EndTask, RefundTask, StopWorker, lockVars, Processes
<1>2. UNCHANGED <<billing, redeemedBy>>
  BY DEF EndTask, RefundTask, StopWorker, codeVars
<1>3. Grown
  <2>1. CASE EndTask(r) \/ StopWorker(r)
    BY <2>1, SameBalances DEF EndTask, StopWorker, balanceVars
  <2>2. CASE RefundTask(r)
    <3>1. PICK p \in Nat : p = Price(r)
      BY AccountFacts DEF TypeInv
    <3>2. \/ credits' = [credits EXCEPT ![WalletOf[r]] = @ + p] /\ UNCHANGED remaining
          \/ remaining' = [remaining EXCEPT ![AccountOf(r)] = @ + p] /\ UNCHANGED credits
      BY <2>2, <3>1 DEF RefundTask, GiveBack
    <3>3. BalanceType
      BY DEF TypeInv
    <3> QED
      BY <3>2, <3>3 DEF BalanceType, Grown
  <2> QED
    BY <2>1, <2>2
<1> QED
  BY <1>1, <1>2, <1>3, OtherStepLocks

LEMMA EditStepLocks ==
  ASSUME TypeInv, TypeInv', LockInv,
         \/ \E s \in Services : \E units \in NewPrices[s] : SetPrice(s, units)
         \/ \E c \in Codes : CreateCode(c) \/ DeleteCode(c)
  PROVE  LockInv'
<1>1. LockStep(None) /\ None \notin Requests \cup Redemptions
  BY SetsAssumption DEF LockStep, SetPrice, CreateCode, DeleteCode, lockVars, Processes
<1>2. UNCHANGED <<billing, redeemedBy, credits, remaining>>
  BY DEF SetPrice, CreateCode, DeleteCode, codeVars, balanceVars
<1> QED
  BY <1>1, <1>2, SameBalances, OtherStepLocks

LEMMA RecoveryStepLocks ==
  ASSUME TypeInv, TypeInv', LockInv, NEW x \in Recoveries, RecoveryStep(x)
  PROVE  LockInv'
<1>1. LockStep(x) /\ x \notin Requests \cup Redemptions
  BY SetsAssumption DEF LockStep, RecoveryStep, MarkStale, RefundRow, CommitRecovery, lockVars
<1>2. UNCHANGED <<billing, redeemedBy>>
  BY DEF RecoveryStep, MarkStale, RefundRow, CommitRecovery, codeVars
<1>3. Grown
  <2>1. CASE MarkStale(x) \/ RefundRow(x)
    BY <2>1, SameBalances DEF MarkStale, RefundRow, balanceVars
  <2>2. CASE CommitRecovery(x)
    <3>1. \A row : RefundOf(x, row) \in Nat
      <4>1. recovery[x].tasks \in SUBSET Requests
        BY DEF TypeInv, RecoveryType
      <4> QED
        BY <4>1, PricesTotal DEF RefundOf, TypeInv
    <3> QED
      BY <2>2, <3>1 DEF CommitRecovery, Grown, TypeInv, BalanceType
  <2> QED
    BY <2>1, <2>2 DEF RecoveryStep
<1> QED
  BY <1>1, <1>2, <1>3, OtherStepLocks

LEMMA RedemptionStepLocks ==
  ASSUME TypeInv, TypeInv', LockInv, NEW d \in Redemptions, RedemptionStep(d)
  PROVE  LockInv'
<1>p. d \in Processes /\ d \notin Requests
  BY SetsAssumption DEF Processes
<1>t. PcType /\ LockType /\ CodeType
  BY DEF TypeInv
<1>1. LockStep(d)
  BY DEF LockStep, RedemptionStep, LockWallet, LockCode, UpsertEntitlement, CommitRedemption
<1>2. UNCHANGED billing
  BY DEF RedemptionStep, LockWallet, LockCode, UpsertEntitlement, CommitRedemption
<1>3. Grown
  <2>1. CASE ~CommitRedemption(d)
    BY <2>1, SameBalances DEF RedemptionStep, LockWallet, LockCode, UpsertEntitlement, balanceVars
  <2>2. CASE CommitRedemption(d)
    BY <2>2, RedemptionFacts DEF CommitRedemption, Grown, TypeInv, BalanceType
  <2> QED
    BY <2>1, <2>2
<1>4. \A r \in Requests : RequestLock(r)'
  BY <1>p, <1>1, <1>2, <1>3, RequestLocksKept
<1>5. RedemptionLock(d)'
  <2>1. CASE LockWallet(d) \/ CommitRedemption(d)
    <3>1. pc'[d] \notin {"upsert", "commit"}
      BY <1>p, <1>t, <2>1 DEF LockWallet, CommitRedemption, Release, PcType
    <3> QED
      BY <3>1 DEF RedemptionLock
  <2>2. CASE LockCode(d)
    <3>1. lock'[CodeRow(CodeOf[d])] = d
      BY <1>p, <1>t, <2>2, LockTaken, RedemptionFacts DEF LockCode
    <3>2. redeemedBy'[CodeOf[d]] = None
      BY <2>2 DEF LockCode, Redeemable, codeVars
    <3> QED
      BY <3>1, <3>2 DEF RedemptionLock
  <2>3. CASE UpsertEntitlement(d)
    <3>1. RedemptionLock(d) /\ pc[d] = "upsert" /\ UNCHANGED redeemedBy
      BY <2>3 DEF LockInv, UpsertEntitlement, codeVars
    <3>2. lock[CodeRow(CodeOf[d])] = d /\ redeemedBy'[CodeOf[d]] = None
      BY <3>1 DEF RedemptionLock
    <3>3. CodeRow(CodeOf[d]) \in Rows
      BY RedemptionFacts
    <3>4. lock'[CodeRow(CodeOf[d])] = d
      BY <1>t, <2>3, <3>2, <3>3 DEF UpsertEntitlement, LockForUpdate, LockType
    <3> QED
      BY <3>2, <3>4 DEF RedemptionLock
  <2> QED
    BY <2>1, <2>2, <2>3 DEF RedemptionStep
<1>6. \A c \in Redemptions :
        pc[c] \in {"upsert", "commit"} /\ c # d => redeemedBy'[CodeOf[c]] = None
  <2>1. SUFFICES ASSUME NEW c \in Redemptions, pc[c] \in {"upsert", "commit"}, c # d
                 PROVE  redeemedBy'[CodeOf[c]] = None
    OBVIOUS
  <2>2. lock[CodeRow(CodeOf[c])] = c /\ redeemedBy[CodeOf[c]] = None
    BY <2>1 DEF LockInv, RedemptionLock
  <2>3. CASE CommitRedemption(d)
    <3>1. lock[CodeRow(CodeOf[d])] = d
      BY <2>3 DEF CommitRedemption, LockInv, RedemptionLock
    <3>2. CodeOf[c] # CodeOf[d]
      BY <2>1, <2>2, <3>1
    <3> QED
      BY <1>t, <2>2, <2>3, <3>2, RedemptionFacts DEF CommitRedemption, CodeType
  <2>4. CASE UNCHANGED redeemedBy
    BY <2>2, <2>4
  <2> QED
    BY <2>3, <2>4 DEF RedemptionStep, LockWallet, LockCode, UpsertEntitlement, codeVars
<1> QED
  BY <1>1, <1>4, <1>5, <1>6, RedemptionLocksKept DEF LockInv

LEMMA EndStepLocks ==
  ASSUME TypeInv, TypeInv', LockInv, NEW p \in Processes, Refuse(p) \/ Abort(p)
  PROVE  LockInv'
<1>1. LockStep(p) /\ pc'[p] = "over"
  BY DEF LockStep, Refuse, Abort, Release, TypeInv, PcType
<1>2. UNCHANGED <<billing, redeemedBy, credits, remaining>>
  BY DEF Refuse, Abort, codeVars, balanceVars
<1> QED
  BY <1>1, <1>2, SameBalances, OtherStepLocks

----------------------------------------------------------------------------
\* Types and locks together are inductive: the lock of a request is what keeps its
\* balance from becoming negative.
AccountInv == TypeInv /\ LockInv

LEMMA AccountInit == Init => AccountInv
<1> SUFFICES ASSUME Init PROVE AccountInv
  OBVIOUS
<1>1. \A p \in Requests \cup Redemptions : pc[p] = "new"
  BY DEF Init, Processes
<1> QED
  BY <1>1, TypeInit DEF AccountInv, LockInv, RequestLock, RedemptionLock

LEMMA AccountStep == AccountInv /\ [Next]_vars => AccountInv'
<1> SUFFICES ASSUME TypeInv, LockInv, [Next]_vars PROVE TypeInv' /\ LockInv'
  BY DEF AccountInv
<1>1. ASSUME NEW r \in Requests, RequestStep(r) PROVE TypeInv' /\ LockInv'
  <2>1. RequestLock(r)
    BY DEF LockInv
  <2> QED
    BY <1>1, <2>1, RequestStepType, RequestStepLocks
<1>2. ASSUME NEW r \in Requests, EndTask(r) \/ RefundTask(r) \/ StopWorker(r)
      PROVE  TypeInv' /\ LockInv'
  BY <1>2, TaskStepType, TaskStepLocks
<1>3. ASSUME NEW d \in Redemptions, RedemptionStep(d) PROVE TypeInv' /\ LockInv'
  BY <1>3, RedemptionStepType, RedemptionStepLocks
<1>4. ASSUME NEW x \in Recoveries, RecoveryStep(x) PROVE TypeInv' /\ LockInv'
  BY <1>4, RecoveryStepType, RecoveryStepLocks
<1>5. CASE \/ \E s \in Services : \E units \in NewPrices[s] : SetPrice(s, units)
           \/ \E c \in Codes : CreateCode(c) \/ DeleteCode(c)
  BY <1>5, EditStepType, EditStepLocks
<1>6. ASSUME NEW p \in Processes, Refuse(p) \/ Abort(p) PROVE TypeInv' /\ LockInv'
  BY <1>6, EndStepType, EndStepLocks
<1>7. CASE UNCHANGED vars
  BY <1>7 DEF vars, balanceVars, codeVars, lockVars, TypeInv, PcType, BillingType, PriceType,
     TaskType, BalanceType, MaxType, CodeType, RecoveryType, LockType, LockInv, RequestLock,
     RedemptionLock, Balance, AccountOf, AccountRow, Price
<1> QED
  BY <1>1, <1>2, <1>3, <1>4, <1>5, <1>6, <1>7 DEF Next

\* Every variable keeps its type: in particular no interleaving of requests,
\* refunds and redemptions makes a balance negative.
THEOREM TypeCorrect == Spec => []TypeOK
<1>1. AccountInv => TypeOK
  BY TypeInvIsTypeOK DEF AccountInv
<1> QED
  BY AccountInit, AccountStep, <1>1, PTL DEF Spec

----------------------------------------------------------------------------
(***************************************************************************)
(* Balances                                                                *)
(***************************************************************************)

\* A request that is under way has no task yet.
Fresh == \A r \in Requests : pc[r] # "over" => task[r] = "none"

\* A recovery has marked tasks that are still abandoned, and no other one has then.
Marked ==
  /\ \A x \in Recoveries : \A r \in recovery[x].tasks : task[r] = "abandoned"
  /\ \A x, y \in Recoveries :
       x # y => recovery[x].tasks = {} \/ recovery[y].tasks = {}

BilledStates == {"active", "abandoned", "done", "failed"}

\* The tasks an entitlement has paid, and the codes it was filled by
Payers(w, s) == {r \in Billed(w, FALSE) : billing[r].service = s}
CodesOf(w, s) == {c \in Codes : redeemedBy[c] = w /\ CodeService[c] = s}

LEMMA HistoryStep ==
  ASSUME AccountInv, Fresh, Marked, [Next]_vars
  PROVE  Fresh' /\ Marked'
<1>t. PcType /\ TaskType /\ RecoveryType
  BY DEF AccountInv, TypeInv
<1>d. \A x \in Recoveries : x \notin Requests \cup Redemptions
  BY SetsAssumption
<1>d2. \A d \in Redemptions : d \notin Requests
  BY SetsAssumption
<1>1. ASSUME UNCHANGED <<task, recovery>>,
             \A r \in Requests : pc'[r] # "over" => pc[r] # "over"
      PROVE  Fresh' /\ Marked'
  BY <1>1 DEF Fresh, Marked
<1>2. ASSUME NEW r \in Requests, RequestStep(r) PROVE Fresh' /\ Marked'
  <2>1. CASE CommitTask(r)
    <3>1. task[r] = "none" /\ task' = [task EXCEPT ![r] = "active"] /\ UNCHANGED recovery
      BY <2>1 DEF CommitTask, Fresh
    <3>2. pc' = [pc EXCEPT ![r] = "over"]
      BY <2>1 DEF CommitTask, Release
    <3>3. Fresh'
      BY <1>t, <3>1, <3>2 DEF Fresh, PcType, TaskType, Processes
    <3>4. Marked'
      BY <1>t, <3>1 DEF Marked, TaskType, RecoveryType
    <3> QED
      BY <3>3, <3>4
  <2>2. CASE ~CommitTask(r)
    <3>1. UNCHANGED <<task, recovery>> /\ pc[r] # "over"
      BY <1>2, <2>2 DEF RequestStep, SelectBilling, LockAccount, CountActive, InsertTask
    <3>2. \A q \in Requests : pc'[q] # "over" => pc[q] # "over"
      BY <1>2, <1>t, <2>2, <3>1 DEF RequestStep, SelectBilling, LockAccount, CountActive,
         InsertTask, PcType, Processes
    <3> QED
      BY <1>1, <3>1, <3>2
  <2> QED
    BY <2>1, <2>2
<1>3. ASSUME NEW r \in Requests, EndTask(r) \/ RefundTask(r) \/ StopWorker(r)
      PROVE  Fresh' /\ Marked'
  <2>1. /\ task[r] \in {"active", "failed"}
        /\ \A q \in Requests : q # r => task'[q] = task[q]
        /\ UNCHANGED <<pc, recovery>>
    BY <1>3, <1>t DEF EndTask, RefundTask, StopWorker, TaskType
  <2> QED
    BY <1>t, <2>1 DEF Fresh, Marked, RecoveryType
<1>4. ASSUME NEW x \in Recoveries, RecoveryStep(x) PROVE Fresh' /\ Marked'
  <2>1. \A r \in Requests : pc'[r] = pc[r]
    BY <1>4, <1>d, <1>t DEF RecoveryStep, MarkStale, RefundRow, CommitRecovery, Release, PcType,
       Processes
  <2>2. CASE MarkStale(x)
    <3>1. UNCHANGED task /\ \A y \in Recoveries : recovery[y].tasks = {}
      BY <2>2 DEF MarkStale
    <3>2. \A r \in recovery'[x].tasks : task[r] = "abandoned"
      BY <1>t, <2>2 DEF MarkStale, RecoveryType
    <3>3. \A y \in Recoveries : y # x => recovery'[y].tasks = {}
      BY <1>t, <2>2, <3>1 DEF MarkStale, RecoveryType
    <3> QED
      BY <2>1, <3>1, <3>2, <3>3 DEF Fresh, Marked
  <2>3. CASE RefundRow(x)
    <3>1. \A y \in Recoveries : recovery'[y].tasks = recovery[y].tasks
      BY <1>t, <2>3 DEF RefundRow, RecoveryType
    <3>2. UNCHANGED task
      BY <2>3 DEF RefundRow
    <3> QED
      BY <2>1, <3>1, <3>2 DEF Fresh, Marked
  <2>4. CASE CommitRecovery(x)
    <3>1. /\ task' = [r \in Requests |-> IF r \in recovery[x].tasks THEN "refunded" ELSE task[r]]
          /\ recovery' = [recovery EXCEPT ![x] = NoRecovery]
      BY <2>4 DEF CommitRecovery
    <3>2. recovery'[x].tasks = {}
          /\ \A y \in Recoveries : y # x => recovery'[y].tasks = recovery[y].tasks
      BY <1>t, <3>1 DEF RecoveryType, NoRecovery
    <3>3. Fresh'
      BY <1>t, <2>1, <3>1 DEF Fresh, Marked
    <3>4. Marked'
      BY <1>t, <3>1, <3>2 DEF Marked, RecoveryType
    <3> QED
      BY <3>3, <3>4
  <2> QED
    BY <1>4, <2>2, <2>3, <2>4 DEF RecoveryStep
<1>5. ASSUME NEW d \in Redemptions, RedemptionStep(d) PROVE Fresh' /\ Marked'
  <2>1. UNCHANGED <<task, recovery>>
    BY <1>5 DEF RedemptionStep, LockWallet, LockCode, UpsertEntitlement, CommitRedemption
  <2>2. \A r \in Requests : pc'[r] = pc[r]
    BY <1>5, <1>d2, <1>t DEF RedemptionStep, LockWallet, LockCode, UpsertEntitlement,
       CommitRedemption, Release, PcType, Processes
  <2> QED
    BY <1>1, <2>1, <2>2
<1>6. ASSUME NEW p \in Processes, Refuse(p) \/ Abort(p) PROVE Fresh' /\ Marked'
  <2>1. UNCHANGED task /\ \A r \in Requests : pc'[r] # "over" => pc[r] # "over"
    BY <1>6, <1>t DEF Refuse, Abort, Release, PcType, Processes
  <2>2. \A x \in Recoveries : recovery'[x].tasks \in {recovery[x].tasks, {}}
    BY <1>6 DEF Refuse, Abort, NoRecovery
  <2> QED
    BY <2>1, <2>2 DEF Fresh, Marked
<1>7. CASE \/ \E s \in Services : \E units \in NewPrices[s] : SetPrice(s, units)
           \/ \E c \in Codes : CreateCode(c) \/ DeleteCode(c)
           \/ UNCHANGED vars
  BY <1>1, <1>7 DEF SetPrice, CreateCode, DeleteCode, vars
<1> QED
  BY <1>2, <1>3, <1>4, <1>5, <1>6, <1>7 DEF Next

\* What a wallet's tasks cost that were paid with credits, and with an entitlement
CreditsSpent(w) == Total(Billed(w, TRUE), Prices)
UnitsSpent(w, s) == Total(Payers(w, s), Prices)

Explained ==
  /\ \A w \in Wallets : credits[w] + CreditsSpent(w) = Credits[w]
  /\ \A w \in Wallets, s \in Services :
       remaining[<<w, s>>] + UnitsSpent(w, s) = Total(CodesOf(w, s), CodeCredits)

LEMMA ExplainedIsExplained == Explained <=> CreditsExplained /\ EntitlementsExplained
BY DEF Explained, CreditsSpent, UnitsSpent, CreditsExplained, EntitlementsExplained, Payers,
   CodesOf

LEMMA SpentType ==
  ASSUME BillingType
  PROVE  /\ \A w \in Wallets : CreditsSpent(w) \in Nat
         /\ \A w \in Wallets, s \in Services : UnitsSpent(w, s) \in Nat
BY PricesTotal DEF CreditsSpent, UnitsSpent, Billed, Payers

LEMMA PricesKept ==
  ASSUME NEW S \in SUBSET Requests, \A r \in S : billing'[r] = billing[r]
  PROVE  Total(S, Prices') = Total(S, Prices)
<1>1. \A r \in S : Prices'[r] = Prices[r]
  BY DEF Prices, Price
<1> QED
  BY <1>1, TotalSame

\* Nothing is spent by a step that bills no task and refunds none.
LEMMA NothingSpent ==
  ASSUME \A r \in Requests :
           /\ task'[r] \in BilledStates <=> task[r] \in BilledStates
           /\ task[r] \in BilledStates => billing'[r] = billing[r]
  PROVE  /\ \A w \in Wallets : CreditsSpent(w)' = CreditsSpent(w)
         /\ \A w \in Wallets, s \in Services : UnitsSpent(w, s)' = UnitsSpent(w, s)
<1>1. ASSUME NEW w \in Wallets PROVE CreditsSpent(w)' = CreditsSpent(w)
  <2>1. Billed(w, TRUE)' = Billed(w, TRUE)
    BY DEF Billed, BilledStates
  <2>2. Billed(w, TRUE) \in SUBSET Requests
        /\ \A r \in Billed(w, TRUE) : billing'[r] = billing[r]
    BY DEF Billed, BilledStates
  <2> QED
    BY <2>1, <2>2, PricesKept DEF CreditsSpent
<1>2. ASSUME NEW w \in Wallets, NEW s \in Services
      PROVE  UnitsSpent(w, s)' = UnitsSpent(w, s)
  <2>1. Payers(w, s)' = Payers(w, s)
    BY DEF Payers, Billed, BilledStates
  <2>2. Payers(w, s) \in SUBSET Requests
        /\ \A r \in Payers(w, s) : billing'[r] = billing[r]
    BY DEF Payers, Billed, BilledStates
  <2> QED
    BY <2>1, <2>2, PricesKept DEF UnitsSpent
<1> QED
  BY <1>1, <1>2

\* So balances stay explained when nothing is spent, redeemed or given back.
LEMMA NothingPaid ==
  ASSUME Explained, UNCHANGED <<credits, remaining, redeemedBy>>,
         \A r \in Requests :
           /\ task'[r] \in BilledStates <=> task[r] \in BilledStates
           /\ task[r] \in BilledStates => billing'[r] = billing[r]
  PROVE  Explained'
<1>1. \A w \in Wallets, s \in Services : CodesOf(w, s)' = CodesOf(w, s)
  BY DEF CodesOf
<1> QED
  BY <1>1, NothingSpent DEF Explained

\* What the account of a request pays is spent, and nothing else.
LEMMA OnePaid ==
  ASSUME BillingType, NEW r \in Requests, NEW S \in SUBSET Requests, r \notin S
  PROVE  Total(S \cup {r}, Prices) = Total(S, Prices) + Price(r)
<1>1. S \cup {r} \in SUBSET Requests
  OBVIOUS
<1>2. IsFiniteSet(S) /\ \A y \in S \cup {r} : Prices[y] \in Nat
  BY <1>1, PricesTotal
<1>3. Prices[r] = Price(r)
  BY AccountFacts
<1> QED
  BY <1>2, <1>3, TotalAdd

LEMMA CommitTaskExplained ==
  ASSUME TypeInv, Fresh, Explained, NEW r \in Requests, CommitTask(r)
  PROVE  Explained'
<1>t. BillingType /\ BalanceType /\ TaskType
  BY DEF TypeInv
<1>b. UNCHANGED <<billing, redeemedBy>> /\ task[r] = "none"
      /\ task' = [task EXCEPT ![r] = "active"]
  BY DEF CommitTask, codeVars, Fresh
<1>s. /\ task'[r] = "active" /\ \A q \in Requests : q # r => task'[q] = task[q]
  BY <1>t, <1>b DEF TaskType
<1>u. Prices' = Prices
  BY <1>b DEF Prices, Price
<1>1. ASSUME NEW w \in Wallets
      PROVE  credits'[w] + CreditsSpent(w)' = Credits[w]
  <2>1. credits[w] + CreditsSpent(w) = Credits[w] /\ credits[w] \in Nat
        /\ CreditsSpent(w) \in Nat
    BY <1>t, SpentType DEF Explained, BalanceType
  <2>2. CASE billing[r].usesCredits /\ WalletOf[r] = w
    <3>1. Billed(w, TRUE)' = Billed(w, TRUE) \cup {r} /\ r \notin Billed(w, TRUE)
      BY <1>b, <1>s, <2>2 DEF Billed
    <3>2. CreditsSpent(w)' = CreditsSpent(w) + Price(r)
      BY <1>t, <1>u, <3>1, OnePaid DEF CreditsSpent, Billed
    <3>3. credits'[w] = credits[w] - Price(r)
      BY <1>t, <2>2 DEF CommitTask, BalanceType
    <3>4. Price(r) \in Nat
      BY <1>t, AccountFacts
    <3> QED
      BY <2>1, <3>2, <3>3, <3>4
  <2>3. CASE ~(billing[r].usesCredits /\ WalletOf[r] = w)
    <3>1. Billed(w, TRUE)' = Billed(w, TRUE)
      <4>1. billing[r].usesCredits \in BOOLEAN
        BY <1>t, AccountFacts
      <4> QED
        BY <1>b, <1>s, <2>3, <4>1 DEF Billed
    <3>2. credits'[w] = credits[w]
      BY <1>t, <2>3 DEF CommitTask, BalanceType
    <3> QED
      BY <1>u, <2>1, <3>1, <3>2 DEF CreditsSpent
  <2> QED
    BY <2>2, <2>3
<1>2. ASSUME NEW w \in Wallets, NEW s \in Services
      PROVE  remaining'[<<w, s>>] + UnitsSpent(w, s)' = Total(CodesOf(w, s)', CodeCredits)
  <2>1. /\ remaining[<<w, s>>] + UnitsSpent(w, s) = Total(CodesOf(w, s), CodeCredits)
        /\ remaining[<<w, s>>] \in Nat /\ UnitsSpent(w, s) \in Nat
    BY <1>t, SpentType DEF Explained, BalanceType
  <2>c. CodesOf(w, s)' = CodesOf(w, s)
    BY <1>b DEF CodesOf
  <2>2. CASE ~billing[r].usesCredits /\ AccountOf(r) = <<w, s>>
    <3>0. WalletOf[r] = w /\ billing[r].service = s /\ billing[r].usesCredits = FALSE
      BY <1>t, <2>2, AccountFacts DEF AccountOf
    <3>1. Payers(w, s)' = Payers(w, s) \cup {r} /\ r \notin Payers(w, s)
      BY <1>b, <1>s, <3>0 DEF Payers, Billed
    <3>2. UnitsSpent(w, s)' = UnitsSpent(w, s) + Price(r)
      BY <1>t, <1>u, <3>1, OnePaid DEF UnitsSpent, Payers, Billed
    <3>3. remaining'[<<w, s>>] = remaining[<<w, s>>] - Price(r)
      BY <1>t, <2>2 DEF CommitTask, BalanceType
    <3>4. Price(r) \in Nat
      BY <1>t, AccountFacts
    <3> QED
      BY <2>1, <2>c, <3>2, <3>3, <3>4
  <2>3. CASE ~(~billing[r].usesCredits /\ AccountOf(r) = <<w, s>>)
    <3>1. Payers(w, s)' = Payers(w, s)
      BY <1>b, <1>s, <2>3 DEF Payers, Billed, AccountOf
    <3>2. remaining'[<<w, s>>] = remaining[<<w, s>>]
      BY <1>t, <2>3 DEF CommitTask, BalanceType
    <3> QED
      BY <1>u, <2>1, <2>c, <3>1, <3>2 DEF UnitsSpent
  <2> QED
    BY <2>2, <2>3
<1> QED
  BY <1>1, <1>2 DEF Explained

LEMMA RefundTaskExplained ==
  ASSUME TypeInv, Explained, NEW r \in Requests, RefundTask(r)
  PROVE  Explained'
<1>t. BillingType /\ BalanceType /\ TaskType
  BY DEF TypeInv
<1>b. UNCHANGED <<billing, redeemedBy>> /\ task[r] = "failed"
      /\ task' = [task EXCEPT ![r] = "refunded"]
  BY DEF RefundTask, codeVars
<1>s. /\ task'[r] = "refunded" /\ \A q \in Requests : q # r => task'[q] = task[q]
  BY <1>t, <1>b DEF TaskType
<1>u. Prices' = Prices
  BY <1>b DEF Prices, Price
<1>g. IF billing[r].usesCredits
      THEN credits' = [credits EXCEPT ![WalletOf[r]] = @ + Price(r)] /\ UNCHANGED remaining
      ELSE remaining' = [remaining EXCEPT ![AccountOf(r)] = @ + Price(r)] /\ UNCHANGED credits
  BY DEF RefundTask, GiveBack
<1>1. ASSUME NEW w \in Wallets
      PROVE  credits'[w] + CreditsSpent(w)' = Credits[w]
  <2>1. credits[w] + CreditsSpent(w) = Credits[w] /\ credits[w] \in Nat
    BY <1>t DEF Explained, BalanceType
  <2>2. CASE billing[r].usesCredits /\ WalletOf[r] = w
    <3>1. Billed(w, TRUE) = Billed(w, TRUE)' \cup {r} /\ r \notin Billed(w, TRUE)'
      <4>1. billing[r].usesCredits = TRUE
        BY <1>t, <2>2, AccountFacts
      <4> QED
        BY <1>b, <1>s, <2>2, <4>1 DEF Billed
    <3>2. Billed(w, TRUE)' \in SUBSET Requests
      BY DEF Billed
    <3>3. CreditsSpent(w) = CreditsSpent(w)' + Price(r)
      BY <1>t, <1>u, <3>1, <3>2, OnePaid DEF CreditsSpent
    <3>4. CreditsSpent(w)' \in Nat
      BY <1>t, <1>u, <3>2, PricesTotal DEF CreditsSpent
    <3>5. credits'[w] = credits[w] + Price(r)
      BY <1>t, <1>g, <2>2 DEF BalanceType
    <3>6. Price(r) \in Nat
      BY <1>t, AccountFacts
    <3> QED
      BY <2>1, <3>3, <3>4, <3>5, <3>6
  <2>3. CASE ~(billing[r].usesCredits /\ WalletOf[r] = w)
    <3>1. Billed(w, TRUE)' = Billed(w, TRUE)
      <4>1. billing[r].usesCredits \in BOOLEAN
        BY <1>t, AccountFacts
      <4> QED
        BY <1>b, <1>s, <2>3, <4>1 DEF Billed
    <3>2. credits'[w] = credits[w]
      BY <1>t, <1>g, <2>3 DEF BalanceType
    <3> QED
      BY <1>u, <2>1, <3>1, <3>2 DEF CreditsSpent
  <2> QED
    BY <2>2, <2>3
<1>2. ASSUME NEW w \in Wallets, NEW s \in Services
      PROVE  remaining'[<<w, s>>] + UnitsSpent(w, s)' = Total(CodesOf(w, s)', CodeCredits)
  <2>1. /\ remaining[<<w, s>>] + UnitsSpent(w, s) = Total(CodesOf(w, s), CodeCredits)
        /\ remaining[<<w, s>>] \in Nat
    BY <1>t DEF Explained, BalanceType
  <2>c. CodesOf(w, s)' = CodesOf(w, s)
    BY <1>b DEF CodesOf
  <2>2. CASE ~billing[r].usesCredits /\ AccountOf(r) = <<w, s>>
    <3>0. WalletOf[r] = w /\ billing[r].service = s /\ billing[r].usesCredits = FALSE
      BY <1>t, <2>2, AccountFacts DEF AccountOf
    <3>1. Payers(w, s) = Payers(w, s)' \cup {r} /\ r \notin Payers(w, s)'
      BY <1>b, <1>s, <3>0 DEF Payers, Billed
    <3>2. Payers(w, s)' \in SUBSET Requests
      BY DEF Payers, Billed
    <3>3. UnitsSpent(w, s) = UnitsSpent(w, s)' + Price(r)
      BY <1>t, <1>u, <3>1, <3>2, OnePaid DEF UnitsSpent
    <3>4. UnitsSpent(w, s)' \in Nat
      BY <1>t, <1>u, <3>2, PricesTotal DEF UnitsSpent
    <3>5. remaining'[<<w, s>>] = remaining[<<w, s>>] + Price(r)
      BY <1>t, <1>g, <2>2 DEF BalanceType
    <3>6. Price(r) \in Nat
      BY <1>t, AccountFacts
    <3> QED
      BY <2>1, <2>c, <3>3, <3>4, <3>5, <3>6
  <2>3. CASE ~(~billing[r].usesCredits /\ AccountOf(r) = <<w, s>>)
    <3>1. Payers(w, s)' = Payers(w, s)
      BY <1>b, <1>s, <2>3 DEF Payers, Billed, AccountOf
    <3>2. remaining'[<<w, s>>] = remaining[<<w, s>>]
      BY <1>t, <1>g, <2>3 DEF BalanceType
    <3> QED
      BY <1>u, <2>1, <2>c, <3>1, <3>2 DEF UnitsSpent
  <2> QED
    BY <2>2, <2>3
<1> QED
  BY <1>1, <1>2 DEF Explained

\* Rows of the two tables are different rows.
LEMMA RowsDiffer ==
  ASSUME BillingType, NEW r \in Requests
  PROVE  /\ \A w \in Wallets :
              AccountRow(r) = WalletRow(w)
                <=> billing[r].usesCredits = TRUE /\ WalletOf[r] = w
         /\ \A w \in Wallets, s \in Services :
              AccountRow(r) = EntitlementRow(w, s)
                <=> /\ billing[r].usesCredits = FALSE
                    /\ WalletOf[r] = w /\ billing[r].service = s
BY AccountFacts DEF AccountRow, WalletRow, EntitlementRow

\* The tasks a recovery has marked are billed until it commits, and it gives back
\* to each row what those of the row have cost.
LEMMA CommitRecoveryExplained ==
  ASSUME TypeInv, Marked, Explained, NEW x \in Recoveries, CommitRecovery(x)
  PROVE  Explained'
<1>t. BillingType /\ BalanceType /\ TaskType /\ recovery[x].tasks \in SUBSET Requests
  BY DEF TypeInv, RecoveryType
<1> DEFINE T == recovery[x].tasks
<1>b. UNCHANGED <<billing, redeemedBy>>
      /\ task' = [r \in Requests |-> IF r \in T THEN "refunded" ELSE task[r]]
      /\ \A r \in T : task[r] = "abandoned"
  BY DEF CommitRecovery, codeVars, Marked
<1>u. Prices' = Prices
  BY <1>b DEF Prices, Price
<1>1. ASSUME NEW w \in Wallets
      PROVE  credits'[w] + CreditsSpent(w)' = Credits[w]
  <2> DEFINE R == {r \in T : AccountRow(r) = WalletRow(w)}
             B == Billed(w, TRUE)'
  <2>1. credits[w] + CreditsSpent(w) = Credits[w] /\ credits[w] \in Nat
    BY <1>t DEF Explained, BalanceType
  <2>2. R = {r \in T : billing[r].usesCredits = TRUE /\ WalletOf[r] = w}
    BY <1>t, RowsDiffer
  <2>3. Billed(w, TRUE) = B \cup R /\ B \cap R = {}
    BY <1>t, <1>b, <2>2 DEF Billed
  <2>4. B \in SUBSET Requests /\ R \in SUBSET Requests
    BY <1>t DEF Billed
  <2>5. credits'[w] = credits[w] + Total(R, Prices)
    BY DEF CommitRecovery, RefundOf
  <2>6. CreditsSpent(w)' = Total(B, Prices)
    BY <1>u DEF CreditsSpent
  <2> HIDE DEF R, B
  <2>7. IsFiniteSet(B) /\ IsFiniteSet(R) /\ Total(B, Prices) \in Nat /\ Total(R, Prices) \in Nat
        /\ \A r \in B \cup R : Prices[r] \in Nat
    BY <1>t, <2>4, PricesTotal
  <2>8. Total(B \cup R, Prices) = Total(B, Prices) + Total(R, Prices)
    BY <2>3, <2>7, TotalOfUnion
  <2>9. CreditsSpent(w) = Total(B, Prices) + Total(R, Prices)
    BY <2>3, <2>8 DEF CreditsSpent
  <2> QED
    BY <2>1, <2>5, <2>6, <2>7, <2>9
<1>2. ASSUME NEW w \in Wallets, NEW s \in Services
      PROVE  remaining'[<<w, s>>] + UnitsSpent(w, s)' = Total(CodesOf(w, s)', CodeCredits)
  <2> DEFINE R == {r \in T : AccountRow(r) = EntitlementRow(w, s)}
             B == Payers(w, s)'
  <2>1. /\ remaining[<<w, s>>] + UnitsSpent(w, s) = Total(CodesOf(w, s), CodeCredits)
        /\ remaining[<<w, s>>] \in Nat
        /\ CodesOf(w, s)' = CodesOf(w, s)
    BY <1>t, <1>b DEF Explained, BalanceType, CodesOf
  <2>2. R = {r \in T : /\ billing[r].usesCredits = FALSE
                        /\ WalletOf[r] = w /\ billing[r].service = s}
    <3>1. \A r \in T : AccountRow(r) = EntitlementRow(w, s)
                          <=> /\ billing[r].usesCredits = FALSE
                              /\ WalletOf[r] = w /\ billing[r].service = s
      BY <1>t, RowsDiffer
    <3> QED
      BY <3>1, Zenon
  <2>3. Payers(w, s) = B \cup R /\ B \cap R = {}
    BY <1>t, <1>b, <2>2 DEF Payers, Billed
  <2>4. B \in SUBSET Requests /\ R \in SUBSET Requests
    BY <1>t DEF Payers, Billed
  <2>5. remaining'[<<w, s>>] = remaining[<<w, s>>] + Total(R, Prices)
    <3>1. PICK e \in Wallets \X Services : e = <<w, s>>
      OBVIOUS
    <3>2. e[1] = w /\ e[2] = s
      BY <3>1
    <3>3. remaining'[e] = remaining[e] + RefundOf(x, EntitlementRow(e[1], e[2]))
      BY DEF CommitRecovery
    <3> QED
      BY <3>1, <3>2, <3>3 DEF RefundOf
  <2>6. UnitsSpent(w, s)' = Total(B, Prices)
    BY <1>u DEF UnitsSpent
  <2> HIDE DEF R, B
  <2>7. IsFiniteSet(B) /\ IsFiniteSet(R) /\ Total(B, Prices) \in Nat /\ Total(R, Prices) \in Nat
        /\ \A r \in B \cup R : Prices[r] \in Nat
    BY <1>t, <2>4, PricesTotal
  <2>8. Total(B \cup R, Prices) = Total(B, Prices) + Total(R, Prices)
    BY <2>3, <2>7, TotalOfUnion
  <2>9. UnitsSpent(w, s) = Total(B, Prices) + Total(R, Prices)
    BY <2>3, <2>8 DEF UnitsSpent
  <2> QED
    BY <2>1, <2>5, <2>6, <2>7, <2>9
<1> QED
  BY <1>1, <1>2 DEF Explained

LEMMA CommitRedemptionExplained ==
  ASSUME AccountInv, Explained, NEW d \in Redemptions, CommitRedemption(d)
  PROVE  Explained'
<1>t. BillingType /\ BalanceType /\ CodeType
  BY DEF AccountInv, TypeInv
<1>b. UNCHANGED <<billing, credits, task>>
      /\ remaining' = [remaining EXCEPT ![EntitlementOf(d)] = @ + CodeCredits[CodeOf[d]]]
      /\ redeemedBy' = [redeemedBy EXCEPT ![CodeOf[d]] = WalletOf[d]]
  BY DEF CommitRedemption
<1>n. redeemedBy[CodeOf[d]] = None /\ None \notin Wallets
  BY SetsAssumption DEF CommitRedemption, AccountInv, LockInv, RedemptionLock
<1>s. /\ \A w \in Wallets : CreditsSpent(w)' = CreditsSpent(w)
      /\ \A w \in Wallets, s \in Services : UnitsSpent(w, s)' = UnitsSpent(w, s)
  BY <1>b, NothingSpent
<1>1. ASSUME NEW w \in Wallets, NEW s \in Services
      PROVE  remaining'[<<w, s>>] + UnitsSpent(w, s)' = Total(CodesOf(w, s)', CodeCredits)
  <2>1. /\ remaining[<<w, s>>] + UnitsSpent(w, s) = Total(CodesOf(w, s), CodeCredits)
        /\ remaining[<<w, s>>] \in Nat /\ UnitsSpent(w, s) \in Nat
    BY <1>t, SpentType DEF Explained, BalanceType
  <2>2. CASE EntitlementOf(d) = <<w, s>>
    <3>0. WalletOf[d] = w /\ CodeService[CodeOf[d]] = s
      BY <2>2 DEF EntitlementOf
    <3>1. CodesOf(w, s)' = CodesOf(w, s) \cup {CodeOf[d]} /\ CodeOf[d] \notin CodesOf(w, s)
      BY <1>t, <1>b, <1>n, <3>0, RedemptionFacts DEF CodesOf, CodeType
    <3>2. IsFiniteSet(CodesOf(w, s))
          /\ \A c \in CodesOf(w, s) \cup {CodeOf[d]} : CodeCredits[c] \in Nat
      BY SetsAssumption, RowAssumption, RedemptionFacts, FS_Subset DEF CodesOf
    <3>3. Total(CodesOf(w, s)', CodeCredits)
            = Total(CodesOf(w, s), CodeCredits) + CodeCredits[CodeOf[d]]
      BY <3>1, <3>2, TotalAdd
    <3>4. remaining'[<<w, s>>] = remaining[<<w, s>>] + CodeCredits[CodeOf[d]]
      BY <1>t, <1>b, <2>2 DEF BalanceType
    <3> QED
      BY <1>s, <2>1, <3>3, <3>4, RedemptionFacts
  <2>3. CASE EntitlementOf(d) # <<w, s>>
    <3>1. CodesOf(w, s)' = CodesOf(w, s)
      BY <1>t, <1>b, <1>n, <2>3, RedemptionFacts DEF CodesOf, CodeType, EntitlementOf
    <3>2. remaining'[<<w, s>>] = remaining[<<w, s>>]
      BY <1>t, <1>b, <2>3 DEF BalanceType
    <3> QED
      BY <1>s, <2>1, <3>1, <3>2
  <2> QED
    BY <2>2, <2>3
<1> QED
  BY <1>b, <1>s, <1>1 DEF Explained

LEMMA ExplainedStep ==
  ASSUME AccountInv, Fresh, Marked, Explained, [Next]_vars
  PROVE  Explained'
<1>t. TypeInv /\ TaskType /\ BillingType
  BY DEF AccountInv, TypeInv
<1>1. ASSUME NEW r \in Requests, RequestStep(r) PROVE Explained'
  <2>1. CASE CommitTask(r)
    BY <1>t, <2>1, CommitTaskExplained
  <2>2. CASE ~CommitTask(r)
    <3>1. UNCHANGED <<credits, remaining, redeemedBy, task>>
      BY <1>1, <2>2 DEF RequestStep, SelectBilling, LockAccount, CountActive, InsertTask,
         balanceVars, codeVars
    <3>2. \A q \in Requests : task[q] \in BilledStates => billing'[q] = billing[q]
      <4>1. CASE SelectBilling(r)
        <5>1. task[r] = "none" /\ \A q \in Requests : q # r => billing'[q] = billing[q]
          BY <1>t, <4>1 DEF SelectBilling, Fresh, BillingType
        <5> QED
          BY <5>1 DEF BilledStates
      <4>2. CASE ~SelectBilling(r)
        BY <1>1, <2>2, <4>2 DEF RequestStep, LockAccount, CountActive, InsertTask
      <4> QED
        BY <4>1, <4>2
    <3> QED
      BY <3>1, <3>2, NothingPaid
  <2> QED
    BY <2>1, <2>2
<1>2. ASSUME NEW r \in Requests, EndTask(r) \/ RefundTask(r) \/ StopWorker(r)
      PROVE  Explained'
  <2>1. CASE RefundTask(r)
    BY <1>t, <2>1, RefundTaskExplained
  <2>2. CASE EndTask(r) \/ StopWorker(r)
    <3>1. UNCHANGED <<credits, remaining, redeemedBy, billing>>
      BY <2>2 DEF EndTask, StopWorker, balanceVars, codeVars
    <3>2. \A q \in Requests : task'[q] \in BilledStates <=> task[q] \in BilledStates
      BY <1>t, <2>2 DEF EndTask, StopWorker, TaskType, BilledStates
    <3> QED
      BY <3>1, <3>2, NothingPaid
  <2> QED
    BY <1>2, <2>1, <2>2
<1>3. ASSUME NEW x \in Recoveries, RecoveryStep(x) PROVE Explained'
  <2>1. CASE CommitRecovery(x)
    BY <1>t, <2>1, CommitRecoveryExplained
  <2>2. CASE MarkStale(x) \/ RefundRow(x)
    <3>1. UNCHANGED <<credits, remaining, redeemedBy, billing, task>>
      BY <2>2 DEF MarkStale, RefundRow, balanceVars, codeVars
    <3> QED
      BY <3>1, NothingPaid
  <2> QED
    BY <1>3, <2>1, <2>2 DEF RecoveryStep
<1>4. ASSUME NEW d \in Redemptions, RedemptionStep(d) PROVE Explained'
  <2>1. CASE CommitRedemption(d)
    BY <2>1, CommitRedemptionExplained
  <2>2. CASE ~CommitRedemption(d)
    <3>1. UNCHANGED <<credits, remaining, redeemedBy, billing, task>>
      BY <1>4, <2>2 DEF RedemptionStep, LockWallet, LockCode, UpsertEntitlement, balanceVars,
         codeVars
    <3> QED
      BY <3>1, NothingPaid
  <2> QED
    BY <2>1, <2>2
<1>5. CASE UNCHANGED <<credits, remaining, redeemedBy, billing, task>>
  BY <1>5, NothingPaid
<1> QED
  BY <1>1, <1>2, <1>3, <1>4, <1>5 DEF Next, SetPrice, CreateCode, DeleteCode, Refuse, Abort,
     vars, balanceVars, codeVars

BalanceInv == AccountInv /\ Fresh /\ Marked /\ Explained

LEMMA BalanceInit == Init => BalanceInv
<1> SUFFICES ASSUME Init PROVE BalanceInv
  OBVIOUS
<1>1. \A r \in Requests : task[r] = "none"
  BY DEF Init
<1>2. \A w, u : Billed(w, u) = {}
  BY <1>1 DEF Billed
<1>3. \A w, s : Payers(w, s) = {}
  BY <1>2 DEF Payers
<1>4. \A w \in Wallets : \A s : CodesOf(w, s) = {}
  BY SetsAssumption DEF Init, CodesOf
<1>5. \A w \in Wallets : credits[w] = Credits[w] /\ credits[w] \in Nat
  BY RowAssumption DEF Init
<1>6. \A e \in Wallets \X Services : remaining[e] = 0
  BY DEF Init
<1>7. Explained
  <2>1. \A w \in Wallets : CreditsSpent(w) = 0
    BY <1>2, TotalOfNone DEF CreditsSpent
  <2>2. \A w \in Wallets, s \in Services : UnitsSpent(w, s) = 0
    BY <1>3, TotalOfNone DEF UnitsSpent
  <2>3. \A w \in Wallets, s \in Services : Total(CodesOf(w, s), CodeCredits) = 0
    BY <1>4, TotalOfNone
  <2> QED
    BY <1>5, <1>6, <2>1, <2>2, <2>3 DEF Explained
<1>8. Fresh /\ Marked
  BY <1>1 DEF Fresh, Marked, Init, NoRecovery
<1> QED
  BY <1>7, <1>8, AccountInit DEF BalanceInv

LEMMA BalancesExplained == Spec => []BalanceInv
<1>1. BalanceInv /\ [Next]_vars => BalanceInv'
  BY AccountStep, HistoryStep, ExplainedStep DEF BalanceInv
<1> QED
  BY BalanceInit, <1>1, PTL DEF Spec

\* However requests, refunds, redemptions and recoveries interleave or are rolled
\* back, an entitlement holds what redeemed codes brought, less what its tasks cost.
THEOREM EntitlementsAreExplained == Spec => []EntitlementsExplained
<1>1. BalanceInv => EntitlementsExplained
  BY ExplainedIsExplained DEF BalanceInv
<1> QED
  BY BalancesExplained, <1>1, PTL

\* And a wallet's credits are what they were less what its tasks cost.
THEOREM CreditsAreExplained == Spec => []CreditsExplained
<1>1. BalanceInv => CreditsExplained
  BY ExplainedIsExplained DEF BalanceInv
<1> QED
  BY BalancesExplained, <1>1, PTL

----------------------------------------------------------------------------
(***************************************************************************)
(* The limit of a wallet and service                                       *)
(***************************************************************************)

Of(r, w, s) == WalletOf[r] = w /\ billing[r].service = s

\* The requests that have locked their account, and those that have also counted
Counting(w, s) ==
  {r \in Requests : pc[r] \in {"count", "insert", "commit"} /\ Of(r, w, s)}
Counted(w, s) ==
  {r \in Requests : pc[r] \in {"insert", "commit"} /\ Of(r, w, s)}

\* The tasks that are active, or will be unless their request is refused
Pending(w, s) == ActiveTasks(w, s) \cup Counted(w, s)

PendingInv ==
  \A w \in Wallets, s \in Services :
    Cardinality(Pending(w, s)) <= LargestLimit(w, s) + 1

LEMMA AtMostOne ==
  ASSUME NEW S, IsFiniteSet(S), \A x, y \in S : x = y
  PROVE  Cardinality(S) <= 1
<1>1. CASE S = {}
  BY <1>1, FS_EmptySet
<1>2. CASE S # {}
  <2>1. PICK x \in S : S = {x}
    BY <1>2
  <2> QED
    BY <2>1, FS_Singleton
<1> QED
  BY <1>1, <1>2

\* There are two accounts a task of a wallet and service may be paid from, and one
\* request at a time has the lock of each.
LEMMA TwoCount ==
  ASSUME TypeInv, LockInv, NEW w \in Wallets, NEW s \in Services
  PROVE  IsFiniteSet(Counting(w, s)) /\ Cardinality(Counting(w, s)) <= 2
<1> DEFINE C == {r \in Counting(w, s) : billing[r].usesCredits}
           E == {r \in Counting(w, s) : ~billing[r].usesCredits}
<1>1. Counting(w, s) = C \cup E
  OBVIOUS
<1>2. IsFiniteSet(C) /\ IsFiniteSet(E)
  <2>1. C \subseteq Requests /\ E \subseteq Requests
    BY DEF Counting
  <2> QED
    BY <2>1, SetsAssumption, FS_Subset
<1>3. \A x, y \in C : x = y
  BY DEF Counting, Of, LockInv, RequestLock, AccountRow
<1>4. \A x, y \in E : x = y
  BY DEF Counting, Of, LockInv, RequestLock, AccountRow
<1> HIDE DEF C, E
<1>5. Cardinality(C) <= 1 /\ Cardinality(E) <= 1
  BY <1>2, <1>3, <1>4, AtMostOne
<1>6. IsFiniteSet(C \cup E)
      /\ Cardinality(C \cup E) = Cardinality(C) + Cardinality(E) - Cardinality(C \cap E)
  BY <1>2, FS_Union
<1>7. Cardinality(C) \in Nat /\ Cardinality(E) \in Nat /\ Cardinality(C \cap E) \in Nat
  BY <1>2, FS_CardinalityType, FS_Intersection
<1> QED
  BY <1>1, <1>5, <1>6, <1>7

LEMMA PendingType ==
  ASSUME NEW w, NEW s
  PROVE  /\ IsFiniteSet(Pending(w, s)) /\ Cardinality(Pending(w, s)) \in Nat
         /\ IsFiniteSet(ActiveTasks(w, s)) /\ Cardinality(ActiveTasks(w, s)) \in Nat
         /\ Cardinality(ActiveTasks(w, s)) <= Cardinality(Pending(w, s))
<1>1. /\ Pending(w, s) \subseteq Requests
      /\ ActiveTasks(w, s) \subseteq Pending(w, s)
  BY DEF Pending, ActiveTasks, Counted
<1>2. IsFiniteSet(Pending(w, s))
  BY <1>1, SetsAssumption, FS_Subset
<1> QED
  BY <1>1, <1>2, FS_Subset, FS_CardinalityType

\* Limits only grow.
LEMMA LimitGrows ==
  ASSUME TypeInv, [Next]_vars, NEW w \in Wallets, NEW s \in Services
  PROVE  LargestLimit(w, s) \in Nat /\ LargestLimit(w, s)' \in Nat
         /\ LargestLimit(w, s) <= LargestLimit(w, s)'
<1>1. MaxType /\ DefaultMax \in Nat
  BY RowAssumption DEF TypeInv
<1>2. maxConcurrent[<<w, s>>] \in Nat
  BY <1>1 DEF MaxType
<1>3. CASE UNCHANGED maxConcurrent
  BY <1>1, <1>2, <1>3 DEF LargestLimit
<1>4. ASSUME NEW d \in Redemptions, CommitRedemption(d)
      PROVE  maxConcurrent'[<<w, s>>] \in Nat /\ maxConcurrent[<<w, s>>] <= maxConcurrent'[<<w, s>>]
  <2>1. PICK m \in Nat : m = CodeMax[CodeOf[d]]
    BY RedemptionFacts
  <2>2. maxConcurrent' = [maxConcurrent EXCEPT ![EntitlementOf(d)] = IF @ < m THEN m ELSE @]
    BY <1>4, <2>1 DEF CommitRedemption
  <2> QED
    BY <1>1, <1>2, <2>2 DEF MaxType
<1>5. CASE \E d \in Redemptions : CommitRedemption(d)
  BY <1>1, <1>2, <1>4, <1>5 DEF LargestLimit
<1>6. UNCHANGED maxConcurrent \/ \E d \in Redemptions : CommitRedemption(d)
  BY DEF Next, RequestStep, SelectBilling, LockAccount, CountActive, InsertTask, CommitTask,
     EndTask, RefundTask, StopWorker, SetPrice, RecoveryStep, MarkStale, RefundRow,
     CommitRecovery, RedemptionStep, LockWallet, LockCode, UpsertEntitlement, CreateCode,
     DeleteCode, Refuse, Abort, vars, balanceVars
<1> QED
  BY <1>3, <1>5, <1>6

\* But for a request that counts, no step adds to the pending tasks: what a commit
\* makes active was counted.
LEMMA PendingShrinks ==
  ASSUME AccountInv, Fresh, Marked, [Next]_vars, NEW w \in Wallets, NEW s \in Services,
         \A r \in Requests : CountActive(r) => ~Of(r, w, s)
  PROVE  Pending(w, s)' \subseteq Pending(w, s)
<1>t. PcType /\ TaskType /\ BillingType
  BY DEF AccountInv, TypeInv
<1> SUFFICES ASSUME NEW r \in Requests,
                    \/ task'[r] \in {"active", "abandoned"}
                    \/ pc'[r] \in {"insert", "commit"},
                    Of(r, w, s)'
             PROVE  /\ Of(r, w, s)
                    /\ \/ task[r] \in {"active", "abandoned"}
                       \/ pc[r] \in {"insert", "commit"}
  BY DEF Pending, ActiveTasks, Counted, Of
<1>p. r \in Processes /\ r \notin Redemptions /\ r \notin Recoveries
  BY SetsAssumption DEF Processes
<1>1. CASE SelectBilling(r)
  <2>1. task'[r] = "none" /\ pc'[r] \in {"lock", "over"}
    BY <1>t, <1>p, <1>1 DEF SelectBilling, Fresh, PcType
  <2> QED
    BY <2>1
<1>2. CASE ~SelectBilling(r)
  <2>1. billing'[r] = billing[r]
    BY <1>t, <1>2 DEF Next, RequestStep, SelectBilling, LockAccount, CountActive, InsertTask,
       CommitTask, EndTask, RefundTask, StopWorker, SetPrice, RecoveryStep, MarkStale,
       RefundRow, CommitRecovery, RedemptionStep, LockWallet, LockCode, UpsertEntitlement,
       CommitRedemption, CreateCode, DeleteCode, Refuse, Abort, vars, BillingType
  <2>2. Of(r, w, s)
    BY <2>1 DEF Of
  <2>3. CASE pc'[r] \in {"insert", "commit"}
    <3>1. ~CountActive(r)
      BY <2>2
    <3>2. pc[r] \in {"insert", "commit"}
      BY <1>t, <1>p, <1>2, <2>3, <3>1 DEF Next, RequestStep, SelectBilling, LockAccount,
         InsertTask, CountActive, CommitTask, EndTask, RefundTask, StopWorker, SetPrice, RecoveryStep,
         MarkStale, RefundRow, CommitRecovery, RedemptionStep, LockWallet, LockCode,
         UpsertEntitlement, CommitRedemption, CreateCode, DeleteCode, Refuse, Abort, Release,
         vars, PcType
    <3> QED
      BY <2>2, <3>2
  <2>4. CASE task'[r] \in {"active", "abandoned"} /\ task[r] \notin {"active", "abandoned"}
    <3>1. CommitTask(r)
      BY <1>t, <2>4 DEF Next, RequestStep, SelectBilling, LockAccount, InsertTask,
         CountActive, CommitTask, EndTask, RefundTask, StopWorker, SetPrice, RecoveryStep, MarkStale,
         RefundRow, CommitRecovery, RedemptionStep, LockWallet, LockCode, UpsertEntitlement,
         CommitRedemption, CreateCode, DeleteCode, Refuse, Abort, vars, TaskType
    <3> QED
      BY <2>2, <3>1 DEF CommitTask
  <2> QED
    BY <2>2, <2>3, <2>4
<1> QED
  BY <1>1, <1>2

\* A request that counts found the limit not reached; whoever else has counted or
\* is about to, there are at most two of them.
LEMMA CountActivePending ==
  ASSUME AccountInv, NEW r \in Requests, CountActive(r),
         NEW w \in Wallets, NEW s \in Services, Of(r, w, s)
  PROVE  Cardinality(Pending(w, s)') <= LargestLimit(w, s) + 1
<1>t. /\ TypeInv /\ LockInv /\ PcType /\ TaskType /\ BillingType /\ MaxType
      /\ DefaultMax \in Nat /\ r \in Processes
  BY RowAssumption DEF AccountInv, TypeInv, Processes
<1>1. Cardinality(ActiveTasks(w, s)) < LargestLimit(w, s) /\ LargestLimit(w, s) \in Nat
  <2>1. Cardinality(ActiveTasks(w, s)) < Limit(r)
    BY DEF CountActive, Of
  <2>2. maxConcurrent[<<w, s>>] \in Nat /\ AccountOf(r) = <<w, s>>
    BY <1>t DEF MaxType, Of, AccountOf
  <2>3. Limit(r) \in Nat /\ Limit(r) <= LargestLimit(w, s) /\ LargestLimit(w, s) \in Nat
    BY <1>t, <2>2 DEF Limit, LargestLimit
  <2> QED
    BY <2>1, <2>3, PendingType
<1>2. Pending(w, s)' \subseteq ActiveTasks(w, s) \cup Counting(w, s)
  <2>1. /\ UNCHANGED <<billing, task>> /\ pc[r] = "count"
        /\ pc' = [pc EXCEPT ![r] = "insert"]
    BY DEF CountActive
  <2> QED
    BY <1>t, <2>1 DEF Pending, ActiveTasks, Counted, Counting, Of, PcType
<1> DEFINE A == ActiveTasks(w, s)
           C == Counting(w, s)
<1>3. IsFiniteSet(A) /\ Cardinality(A) \in Nat /\ IsFiniteSet(C) /\ Cardinality(C) <= 2
  BY <1>t, PendingType, TwoCount
<1> HIDE DEF A, C
<1>4. IsFiniteSet(A \cup C)
      /\ Cardinality(A \cup C) = Cardinality(A) + Cardinality(C) - Cardinality(A \cap C)
  BY <1>3, FS_Union
<1>5. Cardinality(C) \in Nat /\ Cardinality(A \cap C) \in Nat
  BY <1>3, FS_CardinalityType, FS_Intersection
<1>6. Cardinality(Pending(w, s)') <= Cardinality(A \cup C)
      /\ Cardinality(Pending(w, s)') \in Nat
  BY <1>2, <1>4, FS_Subset, FS_CardinalityType DEF A, C
<1>7. Cardinality(A) < LargestLimit(w, s)
  BY <1>1 DEF A
<1> QED
  BY <1>1, <1>3, <1>4, <1>5, <1>6, <1>7

LEMMA PendingStep ==
  ASSUME AccountInv, Fresh, Marked, PendingInv, [Next]_vars
  PROVE  PendingInv'
<1> SUFFICES ASSUME NEW w \in Wallets, NEW s \in Services
             PROVE  Cardinality(Pending(w, s)') <= LargestLimit(w, s)' + 1
  BY DEF PendingInv
<1>1. LargestLimit(w, s) \in Nat /\ LargestLimit(w, s)' \in Nat
      /\ LargestLimit(w, s) <= LargestLimit(w, s)'
  BY LimitGrows DEF AccountInv
<1>2. Cardinality(Pending(w, s)') \in Nat
  <2>1. Pending(w, s)' \subseteq Requests
    BY DEF Pending, ActiveTasks, Counted
  <2> QED
    BY <2>1, SetsAssumption, FS_Subset, FS_CardinalityType
<1>3. Cardinality(Pending(w, s)') <= LargestLimit(w, s) + 1
  <2>1. CASE \E r \in Requests : CountActive(r) /\ Of(r, w, s)
    BY <2>1, CountActivePending
  <2>2. CASE \A r \in Requests : CountActive(r) => ~Of(r, w, s)
    <3>1. Pending(w, s)' \subseteq Pending(w, s)
      BY <2>2, PendingShrinks
    <3>2. Cardinality(Pending(w, s)') <= Cardinality(Pending(w, s))
      BY <3>1, PendingType, FS_Subset
    <3>3. Cardinality(Pending(w, s)) <= LargestLimit(w, s) + 1
      BY DEF PendingInv
    <3> QED
      BY <1>1, <1>2, <3>2, <3>3, PendingType
  <2> QED
    BY <2>1, <2>2
<1> QED
  BY <1>1, <1>2, <1>3

OvershootInv == BalanceInv /\ PendingInv

LEMMA PendingInit == Init => PendingInv
<1> SUFFICES ASSUME Init, NEW w \in Wallets, NEW s \in Services
             PROVE  Cardinality(Pending(w, s)) <= LargestLimit(w, s) + 1
  BY DEF PendingInv
<1>1. Pending(w, s) = {}
  BY DEF Init, Pending, ActiveTasks, Counted, Processes
<1>2. LargestLimit(w, s) \in Nat
  BY RowAssumption DEF Init, LargestLimit
<1> QED
  BY <1>1, <1>2, FS_EmptySet

\* However many requests of a wallet race, no more than one task of a service is
\* active beyond its limit.
THEOREM AdmittedByLimit == Spec => []OvershootByOne
<1>1. Init => OvershootInv
  BY BalanceInit, PendingInit DEF OvershootInv
<1>2. OvershootInv /\ [Next]_vars => OvershootInv'
  BY AccountStep, HistoryStep, ExplainedStep, PendingStep DEF OvershootInv, BalanceInv
<1>3. OvershootInv => OvershootByOne
  <2> SUFFICES ASSUME OvershootInv, NEW w \in Wallets, NEW s \in Services
               PROVE  Cardinality(ActiveTasks(w, s)) <= LargestLimit(w, s) + 1
    BY DEF OvershootByOne
  <2>1. Cardinality(Pending(w, s)) <= LargestLimit(w, s) + 1
    BY DEF OvershootInv, PendingInv
  <2>2. LargestLimit(w, s) \in Nat
    BY RowAssumption DEF OvershootInv, BalanceInv, AccountInv, TypeInv, MaxType, LargestLimit
  <2> QED
    BY <2>1, <2>2, PendingType
<1> QED
  BY <1>1, <1>2, <1>3, PTL DEF Spec

----------------------------------------------------------------------------
(***************************************************************************)
(* Deadlocks                                                               *)
(***************************************************************************)

\* A request has locked no row but the one that pays, since it counts.
RequestHolds(q) ==
  \A row \in Rows :
    lock[row] = q => row = AccountRow(q) /\ pc[q] \in {"count", "insert", "commit"}

\* Only a request whose next step is the commit shares the row of its wallet.
SharesHeld ==
  \A row \in Rows : \A p \in share[row] : p \in Requests /\ pc[p] = "commit"

\* A recovery waits for a row of a task it has marked.
RowsOfTasks == \A x \in Recoveries : recovery[x].rows # <<>> => recovery[x].tasks # {}

HolderInv == (\A q \in Requests : RequestHolds(q)) /\ SharesHeld /\ RowsOfTasks

LEMMA NoRows ==
  ASSUME NEW q \in SetToSeqs({}) PROVE q = <<>>
<1>1. Cardinality({}) = 0
  BY FS_EmptySet
<1>2. q \in [1 .. 0 -> {}]
  BY <1>1 DEF SetToSeqs
<1>3. q \in Seq({}) /\ Len(q) = 0
  BY <1>2
<1> QED
  BY <1>3

LEMMA HolderInit == Init => HolderInv
<1> SUFFICES ASSUME Init PROVE HolderInv
  OBVIOUS
<1>1. None \notin Requests
  BY SetsAssumption DEF Processes
<1>2. \A row \in Rows : lock[row] = None /\ share[row] = {}
  BY DEF Init
<1>3. \A x \in Recoveries : recovery[x].rows = <<>>
  BY DEF Init, NoRecovery
<1> QED
  BY <1>1, <1>2, <1>3 DEF HolderInv, RequestHolds, SharesHeld, RowsOfTasks

\* A request that another process lets alone holds no more than it did.
LEMMA RequestHoldsKept ==
  ASSUME PcType, LockType, NEW q \in Requests, RequestHolds(q), NEW p, p # q, LockStep(p),
         pc[q] # "new" => billing'[q] = billing[q]
  PROVE  RequestHolds(q)'
<1>1. q \in Processes /\ q # None
  BY SetsAssumption DEF Processes
<1>2. pc'[q] = pc[q]
  BY <1>1, LockKept
<1>3. ASSUME NEW row \in Rows, lock'[row] = q PROVE lock[row] = q
  <2>1. CASE Release(p)
    BY <1>1, <1>3, <2>1 DEF Release
  <2>2. CASE UNCHANGED lock
    BY <1>3, <2>2
  <2>3. ASSUME NEW other, LockForUpdate(p, other) PROVE lock[row] = q
    BY <1>3, <2>3 DEF LockForUpdate, LockType
  <2> QED
    BY <2>1, <2>2, <2>3 DEF LockStep
<1> SUFFICES ASSUME NEW row \in Rows, lock'[row] = q
             PROVE  row = AccountRow(q)' /\ pc'[q] \in {"count", "insert", "commit"}
  BY DEF RequestHolds
<1>4. row = AccountRow(q) /\ pc[q] \in {"count", "insert", "commit"}
  BY <1>3 DEF RequestHolds
<1>5. billing'[q] = billing[q]
  BY <1>4
<1> QED
  BY <1>2, <1>4, <1>5 DEF AccountRow

\* So do those that share rows, whoever ends or moves.
LEMMA SharesKept ==
  ASSUME PcType, LockType, SharesHeld, NEW p, LockStep(p),
         Release(p) \/ UNCHANGED share,
         p \in Requests => pc[p] # "commit" \/ Release(p)
  PROVE  SharesHeld'
<1> SUFFICES ASSUME NEW row \in Rows, NEW q \in share'[row]
             PROVE  q \in Requests /\ pc'[q] = "commit"
  BY DEF SharesHeld
<1>1. q \in share[row] /\ (Release(p) => q # p)
  BY DEF Release
<1>2. q \in Requests /\ pc[q] = "commit" /\ q \in Processes
  BY <1>1 DEF SharesHeld, Processes
<1>3. q # p
  BY <1>1, <1>2
<1> QED
  BY <1>2, <1>3, LockKept

LEMMA RequestStepHolders ==
  ASSUME TypeInv, HolderInv, NEW r \in Requests, RequestStep(r)
  PROVE  HolderInv'
<1>t. /\ PcType /\ LockType /\ BillingType /\ r \in Processes /\ r # None
      /\ AccountRow(r) \in Rows /\ WalletRow(WalletOf[r]) \in Rows
  BY AccountFacts, SetsAssumption DEF TypeInv, Processes, Rows
<1>1. LockStep(r)
  BY DEF LockStep, RequestStep, SelectBilling, LockAccount, CountActive, InsertTask,
     CommitTask, LockForKeyShare, lockVars
<1>2. \A q \in Requests : q # r => billing'[q] = billing[q]
  BY <1>t DEF BillingType, RequestStep, SelectBilling, LockAccount, CountActive, InsertTask,
     CommitTask
<1>3. \A q \in Requests \ {r} : RequestHolds(q)'
  BY <1>t, <1>1, <1>2, RequestHoldsKept DEF HolderInv
<1>h. RequestHolds(r)
  BY DEF HolderInv
<1>4. RequestHolds(r)'
  <2>1. CASE SelectBilling(r)
    <3>1. \A row \in Rows : lock'[row] # r
      BY <1>h, <2>1 DEF SelectBilling, lockVars, RequestHolds
    <3> QED
      BY <3>1 DEF RequestHolds
  <2>2. CASE LockAccount(r)
    <3>1. pc'[r] = "count" /\ UNCHANGED billing
      BY <1>t, <2>2 DEF LockAccount, PcType
    <3>2. \A row \in Rows : lock'[row] = r => row = AccountRow(r)
      BY <1>t, <1>h, <2>2 DEF LockAccount, LockForUpdate, LockType, RequestHolds
    <3> QED
      BY <3>1, <3>2 DEF RequestHolds, AccountRow
  <2>3. CASE CountActive(r) \/ InsertTask(r)
    <3>1. pc'[r] \in {"insert", "commit"} /\ UNCHANGED <<billing, lock>>
      BY <1>t, <2>3 DEF CountActive, InsertTask, LockForKeyShare, lockVars, PcType
    <3> QED
      BY <1>h, <3>1 DEF RequestHolds, AccountRow
  <2>4. CASE CommitTask(r)
    <3>1. \A row \in Rows : lock'[row] # r
      BY <1>t, <2>4 DEF CommitTask, Release
    <3> QED
      BY <3>1 DEF RequestHolds
  <2> QED
    BY <2>1, <2>2, <2>3, <2>4 DEF RequestStep
<1>5. SharesHeld'
  <2>1. CASE InsertTask(r)
    <3> SUFFICES ASSUME NEW row \in Rows, NEW q \in share'[row]
                 PROVE  q \in Requests /\ pc'[q] = "commit"
      BY DEF SharesHeld
    <3>1. q \in share[row] \/ q = r
      BY <1>t, <2>1 DEF InsertTask, LockForKeyShare, LockType
    <3>2. pc' = [pc EXCEPT ![r] = "commit"]
      BY <2>1 DEF InsertTask
    <3> QED
      BY <1>t, <3>1, <3>2 DEF HolderInv, SharesHeld, PcType
  <2>2. CASE ~InsertTask(r)
    <3>1. Release(r) \/ UNCHANGED share
      BY <2>2 DEF RequestStep, SelectBilling, LockAccount, CountActive, CommitTask, lockVars,
         LockForUpdate
    <3>2. pc[r] # "commit" \/ Release(r)
      BY <2>2 DEF RequestStep, SelectBilling, LockAccount, CountActive, CommitTask
    <3> QED
      BY <1>t, <1>1, <3>1, <3>2, SharesKept DEF HolderInv
  <2> QED
    BY <2>1, <2>2
<1>6. RowsOfTasks'
  <2>1. UNCHANGED recovery
    BY DEF RequestStep, SelectBilling, LockAccount, CountActive, InsertTask, CommitTask
  <2> QED
    BY <2>1 DEF HolderInv, RowsOfTasks
<1> QED
  BY <1>3, <1>4, <1>5, <1>6 DEF HolderInv

\* Steps of others than requests, and the ends of requests.
LEMMA OtherStepHolders ==
  ASSUME TypeInv, HolderInv, NEW p, LockStep(p), UNCHANGED billing,
         Release(p) \/ UNCHANGED share, p \in Requests => Release(p), RowsOfTasks'
  PROVE  HolderInv'
<1>t. PcType /\ LockType
  BY DEF TypeInv
<1>1. ASSUME NEW q \in Requests PROVE RequestHolds(q)'
  <2>1. CASE q = p
    <3>1. q # None /\ Release(q)
      BY <2>1, SetsAssumption DEF Processes
    <3>2. \A row \in Rows : lock'[row] # q
      BY <3>1 DEF Release
    <3> QED
      BY <3>2 DEF RequestHolds
  <2>2. CASE q # p
    BY <1>t, <2>2, RequestHoldsKept DEF HolderInv
  <2> QED
    BY <2>1, <2>2
<1>2. SharesHeld'
  BY <1>t, SharesKept DEF HolderInv
<1> QED
  BY <1>1, <1>2 DEF HolderInv

LEMMA RecoveryStepHolders ==
  ASSUME TypeInv, HolderInv, NEW x \in Recoveries, RecoveryStep(x)
  PROVE  HolderInv'
<1>t. RecoveryType /\ x \notin Requests
  BY SetsAssumption DEF TypeInv
<1>1. LockStep(x) /\ UNCHANGED billing /\ (Release(x) \/ UNCHANGED share)
  BY DEF LockStep, RecoveryStep, MarkStale, RefundRow, CommitRecovery, lockVars, LockForUpdate
<1>2. \A y \in Recoveries \ {x} : recovery'[y] = recovery[y]
  BY <1>t DEF RecoveryStep, MarkStale, RefundRow, CommitRecovery, RecoveryType
<1>3. recovery'[x].rows # <<>> => recovery'[x].tasks # {}
  <2>1. CASE MarkStale(x)
    <3>1. PICK stale \in SUBSET {r \in Requests : task[r] = "abandoned"} :
            \E entitlements \in SetToSeqs(AccountRows(stale, FALSE)),
               wallets \in SetToSeqs(AccountRows(stale, TRUE)) :
              recovery' = [recovery EXCEPT ![x] =
                             [tasks |-> stale, rows |-> entitlements \o wallets]]
      BY <2>1 DEF MarkStale
    <3>2. PICK entitlements \in SetToSeqs(AccountRows(stale, FALSE)),
               wallets \in SetToSeqs(AccountRows(stale, TRUE)) :
            recovery' = [recovery EXCEPT ![x] =
                           [tasks |-> stale, rows |-> entitlements \o wallets]]
      BY <3>1
    <3>3. recovery'[x].tasks = stale /\ recovery'[x].rows = entitlements \o wallets
      BY <1>t, <3>2 DEF RecoveryType
    <3>4. CASE stale = {}
      <4>1. AccountRows(stale, FALSE) = {} /\ AccountRows(stale, TRUE) = {}
        BY <3>4 DEF AccountRows
      <4>2. entitlements = <<>> /\ wallets = <<>>
        BY <4>1, NoRows
      <4> QED
        BY <3>3, <4>2
    <3> QED
      BY <3>3, <3>4
  <2>2. CASE RefundRow(x)
    BY <1>t, <2>2 DEF RefundRow, RecoveryType, HolderInv, RowsOfTasks
  <2>3. CASE CommitRecovery(x)
    BY <1>t, <2>3 DEF CommitRecovery, RecoveryType, NoRecovery
  <2> QED
    BY <2>1, <2>2, <2>3 DEF RecoveryStep
<1>4. RowsOfTasks'
  BY <1>2, <1>3 DEF HolderInv, RowsOfTasks
<1> QED
  BY <1>t, <1>1, <1>4, OtherStepHolders

LEMMA HolderStep ==
  ASSUME TypeInv, HolderInv, [Next]_vars
  PROVE  HolderInv'
<1>n. None \notin Requests /\ \A d \in Redemptions : d \notin Requests
  BY SetsAssumption DEF Processes
<1>0. UNCHANGED recovery => RowsOfTasks'
  BY DEF HolderInv, RowsOfTasks
<1>1. ASSUME NEW r \in Requests, RequestStep(r) PROVE HolderInv'
  BY <1>1, RequestStepHolders
<1>2. ASSUME NEW d \in Redemptions, RedemptionStep(d) PROVE HolderInv'
  <2>1. LockStep(d) /\ UNCHANGED <<billing, recovery>> /\ (Release(d) \/ UNCHANGED share)
    BY <1>2 DEF LockStep, RedemptionStep, LockWallet, LockCode, UpsertEntitlement,
       CommitRedemption, LockForUpdate
  <2> QED
    BY <1>n, <1>0, <2>1, OtherStepHolders
<1>3. ASSUME NEW x \in Recoveries, RecoveryStep(x) PROVE HolderInv'
  BY <1>3, RecoveryStepHolders
<1>4. ASSUME NEW p \in Processes, Refuse(p) \/ Abort(p) PROVE HolderInv'
  <2>1. LockStep(p) /\ UNCHANGED billing /\ Release(p)
    BY <1>4 DEF LockStep, Refuse, Abort
  <2>2. RowsOfTasks'
    <3>1. CASE Refuse(p)
      BY <1>0, <3>1 DEF Refuse
    <3>2. CASE Abort(p)
      BY <3>2 DEF Abort, NoRecovery, HolderInv, RowsOfTasks
    <3> QED
      BY <1>4, <3>1, <3>2
  <2> QED
    BY <2>1, <2>2, OtherStepHolders
<1>5. CASE \/ \E r \in Requests : EndTask(r) \/ RefundTask(r) \/ StopWorker(r)
           \/ \E s \in Services : \E units \in NewPrices[s] : SetPrice(s, units)
           \/ \E c \in Codes : CreateCode(c) \/ DeleteCode(c)
           \/ UNCHANGED vars
  <2>1. LockStep(None) /\ UNCHANGED <<billing, recovery, share>>
    BY <1>5 DEF LockStep, EndTask, RefundTask, StopWorker, SetPrice, CreateCode, DeleteCode,
       vars, lockVars
  <2> QED
    BY <1>n, <1>0, <2>1, OtherStepHolders
<1> QED
  BY <1>1, <1>2, <1>3, <1>4, <1>5 DEF Next

\* A request that waits for the row of its wallet waits for a redemption: another
\* request that has locked the row shares it without waiting.
LEMMA InsertWaitsForRedemption ==
  ASSUME HolderInv, NEW p \in Requests, pc[p] = "insert",
         NEW q \in Blockers(p), q \in Requests
  PROVE  Blockers(q) = {}
<1>d. /\ p \notin Redemptions /\ p \notin Recoveries
      /\ q \notin Redemptions /\ q \notin Recoveries
      /\ WalletRow(WalletOf[p]) \in Rows
  BY SetsAssumption, RequestAssumption DEF Rows
<1> DEFINE row == WalletRow(WalletOf[p])
<1>1. lock[row] = q
  BY <1>d DEF Blockers, ShareBlockers
<1>2. row = AccountRow(q) /\ pc[q] \in {"count", "insert", "commit"}
  BY <1>d, <1>1 DEF HolderInv, RequestHolds
<1>3. WalletOf[q] = WalletOf[p]
  BY <1>2 DEF AccountRow, WalletRow, EntitlementRow
<1>4. CASE pc[q] = "insert"
  BY <1>d, <1>1, <1>3, <1>4 DEF Blockers, ShareBlockers
<1>5. CASE pc[q] \in {"count", "commit"}
  BY <1>d, <1>5 DEF Blockers
<1> QED
  BY <1>2, <1>4, <1>5

LEMMA StuckHasRedemption ==
  ASSUME TypeInv, HolderInv, Marked, NEW S \in SUBSET Processes, Stuck(S)
  PROVE  S \cap Redemptions # {}
<1> SUFFICES ASSUME S \cap Redemptions = {} PROVE FALSE
  OBVIOUS
<1>1. /\ S # {} /\ \A p \in S : Blockers(p) \cap S # {}
      /\ \A p \in S : p \in Requests \cup Recoveries
  BY DEF Stuck, Processes
<1>2. \A p \in S \cap Requests : pc[p] # "insert"
  <2> SUFFICES ASSUME NEW p \in S \cap Requests, pc[p] = "insert" PROVE FALSE
    OBVIOUS
  <2>1. PICK q \in Blockers(p) \cap S : TRUE
    BY <1>1
  <2>2. q \notin Recoveries
    BY <2>1, SetsAssumption DEF Blockers, ShareBlockers
  <2>3. Blockers(q) = {}
    BY <1>1, <2>1, <2>2, InsertWaitsForRedemption
  <2> QED
    BY <1>1, <2>1, <2>3
<1>3. \A p \in S \cap Requests : pc[p] = "lock"
  <2> SUFFICES ASSUME NEW p \in S \cap Requests PROVE pc[p] = "lock"
    OBVIOUS
  <2>1. p \notin Redemptions /\ p \notin Recoveries
    BY SetsAssumption
  <2>2. Blockers(p) # {}
    BY <1>1
  <2> QED
    BY <1>2, <2>1, <2>2 DEF Blockers
<1>4. \A p \in S \cap Requests, row \in Rows : lock[row] # p /\ p \notin share[row]
  BY <1>3 DEF HolderInv, RequestHolds, SharesHeld
<1>5. ASSUME NEW p \in S
      PROVE  \E y \in S \cap Recoveries : y # p /\ recovery[y].rows # <<>>
  <2>1. PICK q \in Blockers(p) \cap S : TRUE
    BY <1>1
  <2>2. PICK row \in Rows : q \in UpdateBlockers(p, row)
    <3>1. CASE p \in Requests
      <4>1. p \notin Redemptions /\ p \notin Recoveries /\ pc[p] = "lock"
        BY <1>3, <3>1, SetsAssumption
      <4>2. q \in UpdateBlockers(p, AccountRow(p)) /\ AccountRow(p) \in Rows
        BY <2>1, <3>1, <4>1, AccountFacts DEF Blockers, TypeInv
      <4> QED
        BY <4>2
    <3>2. CASE p \in Recoveries
      <4>1. p \notin Redemptions /\ p \notin Requests
        BY <3>2, SetsAssumption
      <4>2. recovery[p].rows # <<>> /\ q \in UpdateBlockers(p, Head(recovery[p].rows))
        BY <2>1, <3>2, <4>1 DEF Blockers
      <4>3. PICK rows \in Seq(Rows) : rows = recovery[p].rows
        BY <3>2 DEF TypeInv, RecoveryType
      <4>4. Head(rows) \in Rows
        BY <4>2, <4>3
      <4> QED
        BY <4>2, <4>3, <4>4
    <3> QED
      BY <1>1, <3>1, <3>2
  <2>3. q # p /\ (q = lock[row] \/ q \in share[row])
    BY <2>2 DEF UpdateBlockers
  <2>4. q \in Recoveries
    BY <1>1, <1>4, <2>1, <2>3
  <2>5. q \notin Requests /\ q \notin Redemptions /\ Blockers(q) # {}
    BY <1>1, <2>1, <2>4, SetsAssumption
  <2>6. recovery[q].rows # <<>>
    BY <2>4, <2>5 DEF Blockers
  <2> QED
    BY <2>1, <2>3, <2>4, <2>6
<1>6. PICK y \in S \cap Recoveries : recovery[y].rows # <<>>
  BY <1>1, <1>5
<1>7. PICK z \in S \cap Recoveries : z # y /\ recovery[z].rows # <<>>
  BY <1>5
<1>8. recovery[y].tasks # {} /\ recovery[z].tasks # {}
  BY <1>6, <1>7 DEF HolderInv, RowsOfTasks
<1> QED
  BY <1>7, <1>8 DEF Marked

\* However many processes wait and for whatever rows, each set of them that cannot
\* go on holds a redemption: requests and recoveries alone never close a cycle.
THEOREM RequestsNeverDeadlock == Spec => []DeadlockNeedsRedemption
<1> DEFINE Inv == BalanceInv /\ HolderInv
<1>1. Init => Inv
  BY BalanceInit, HolderInit
<1>2. Inv /\ [Next]_vars => Inv'
  BY AccountStep, HistoryStep, ExplainedStep, HolderStep DEF BalanceInv, AccountInv
<1>3. Inv => DeadlockNeedsRedemption
  BY StuckHasRedemption DEF BalanceInv, AccountInv, DeadlockNeedsRedemption
<1> HIDE DEF Inv
<1> QED
  BY <1>1, <1>2, <1>3, PTL DEF Spec
=============================================================================
