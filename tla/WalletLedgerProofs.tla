-------------------------- MODULE WalletLedgerProofs --------------------------
(***************************************************************************)
(* TaskAdmission implements WalletLedger: whatever the order in which the  *)
(* statements of requests, redemptions and recoveries take their locks,    *)
(* every step changes balances, debits and deposits as one serial          *)
(* transaction does, or leaves them alone.                                 *)
(***************************************************************************)
EXTENDS TaskAdmissionProofs

----------------------------------------------------------------------------
(***************************************************************************)
(* What the ledger sees                                                    *)
(***************************************************************************)

SeenBalance == OfAccounts(credits, remaining)
SeenDebit == [r \in Requests |-> DebitOf(r)]
SeenBill == [r \in Requests |-> BillOf(r)]
SeenDeposit == [c \in Codes |-> DepositOf(c)]

\* The ledger adds up as Totals does.
LEMMA SameTotal ==
  \A S, units : Ledger!Total(S, units) = Total(S, units)
BY DEF Ledger!Total, Ledger!UnitsOf, Ledger!Cardinality, Total, UnitsOf, Cardinality

LEMMA AccountCases ==
  ASSUME NEW a \in Accounts
  PROVE  \/ \E w \in Wallets : a = WalletRow(w)
         \/ \E w \in Wallets, s \in Services : a = EntitlementRow(w, s)
BY DEF Accounts

LEMMA HeldByAccounts ==
  ASSUME NEW f, NEW g
  PROVE  /\ \A w \in Wallets :
              WalletRow(w) \in Accounts /\ OfAccounts(f, g)[WalletRow(w)] = f[w]
         /\ \A w \in Wallets, s \in Services :
              /\ EntitlementRow(w, s) \in Accounts
              /\ OfAccounts(f, g)[EntitlementRow(w, s)] = g[<<w, s>>]
<1>1. ASSUME NEW w \in Wallets
      PROVE  WalletRow(w) \in Accounts /\ OfAccounts(f, g)[WalletRow(w)] = f[w]
  <2>1. WalletRow(w) \in Accounts
    BY DEF Accounts
  <2>2. WalletRow(w)[1] = "wallet" /\ WalletRow(w)[2] = w
    BY DEF WalletRow
  <2> QED
    BY <2>1, <2>2 DEF OfAccounts
<1>2. ASSUME NEW w \in Wallets, NEW s \in Services
      PROVE  /\ EntitlementRow(w, s) \in Accounts
             /\ OfAccounts(f, g)[EntitlementRow(w, s)] = g[<<w, s>>]
  <2>1. EntitlementRow(w, s) \in Accounts
    BY DEF Accounts
  <2>2. EntitlementRow(w, s)[1] # "wallet" /\ EntitlementRow(w, s)[2] = w
        /\ EntitlementRow(w, s)[3] = s
    BY DEF EntitlementRow
  <2> QED
    BY <2>1, <2>2 DEF OfAccounts
<1> QED
  BY <1>1, <1>2

\* Balances are a function of the accounts, known by what it is on each.
LEMMA SameOnAccounts ==
  ASSUME NEW f, NEW g, NEW h, h = [a \in Accounts |-> h[a]],
         \A w \in Wallets : f[w] = h[WalletRow(w)],
         \A w \in Wallets, s \in Services : g[<<w, s>>] = h[EntitlementRow(w, s)]
  PROVE  OfAccounts(f, g) = h
<1>1. ASSUME NEW a \in Accounts PROVE OfAccounts(f, g)[a] = h[a]
  <2>1. ASSUME NEW w \in Wallets, a = WalletRow(w) PROVE OfAccounts(f, g)[a] = h[a]
    BY <2>1, HeldByAccounts
  <2>2. ASSUME NEW w \in Wallets, NEW s \in Services, a = EntitlementRow(w, s)
        PROVE  OfAccounts(f, g)[a] = h[a]
    <3>1. OfAccounts(f, g)[EntitlementRow(w, s)] = g[<<w, s>>]
      BY HeldByAccounts
    <3>2. g[<<w, s>>] = h[EntitlementRow(w, s)]
      OBVIOUS
    <3> QED
      BY <2>2, <3>1, <3>2, Zenon
  <2> QED
    BY <2>1, <2>2, AccountCases
<1> QED
  BY <1>1 DEF OfAccounts

\* A step that changes what the row of one request holds changes one balance.
LEMMA OneAccount ==
  ASSUME TypeInv, NEW r \in Requests, NEW v,
         IF billing[r].usesCredits
           THEN credits' = [credits EXCEPT ![WalletOf[r]] = v] /\ UNCHANGED remaining
           ELSE remaining' = [remaining EXCEPT ![AccountOf(r)] = v] /\ UNCHANGED credits
  PROVE  /\ AccountRow(r) \in Accounts
         /\ SeenBalance[AccountRow(r)] = Balance(r)
         /\ SeenBalance' = [SeenBalance EXCEPT ![AccountRow(r)] = v]
<1>t. BillingType /\ BalanceType
  BY DEF TypeInv
<1> DEFINE h == [SeenBalance EXCEPT ![AccountRow(r)] = v]
<1>r. /\ \A w \in Wallets :
           AccountRow(r) = WalletRow(w)
             <=> billing[r].usesCredits = TRUE /\ WalletOf[r] = w
      /\ \A w \in Wallets, s \in Services :
           AccountRow(r) = EntitlementRow(w, s)
             <=> /\ billing[r].usesCredits = FALSE
                 /\ WalletOf[r] = w /\ billing[r].service = s
  BY <1>t, RowsDiffer
<1>1. AccountRow(r) \in Accounts /\ SeenBalance[AccountRow(r)] = Balance(r)
  BY <1>t, AccountFacts, HeldByAccounts DEF AccountRow, Balance, AccountOf, SeenBalance
<1>2. h = [a \in Accounts |-> IF a = AccountRow(r) THEN v ELSE SeenBalance[a]]
  BY DEF SeenBalance, OfAccounts
<1>3. ASSUME NEW w \in Wallets PROVE credits'[w] = h[WalletRow(w)]
  <2>1. WalletRow(w) \in Accounts /\ SeenBalance[WalletRow(w)] = credits[w]
    BY HeldByAccounts DEF SeenBalance
  <2>2. credits'[w] = IF AccountRow(r) = WalletRow(w) THEN v ELSE credits[w]
    BY <1>t, <1>r, AccountFacts DEF BalanceType
  <2> QED
    BY <1>2, <2>1, <2>2
<1>4. ASSUME NEW w \in Wallets, NEW s \in Services
      PROVE  remaining'[<<w, s>>] = h[EntitlementRow(w, s)]
  <2>1. EntitlementRow(w, s) \in Accounts
        /\ SeenBalance[EntitlementRow(w, s)] = remaining[<<w, s>>]
    BY HeldByAccounts DEF SeenBalance
  <2>2. AccountOf(r) = <<w, s>> <=> WalletOf[r] = w /\ billing[r].service = s
    BY DEF AccountOf
  <2>3. remaining'[<<w, s>>]
          = IF AccountRow(r) = EntitlementRow(w, s) THEN v ELSE remaining[<<w, s>>]
    BY <1>t, <1>r, <2>2, AccountFacts DEF BalanceType
  <2> QED
    BY <1>2, <2>1, <2>3
<1> HIDE DEF h
<1>5. h = [a \in Accounts |-> h[a]]
  BY <1>2
<1>6. OfAccounts(credits', remaining') = h
  BY <1>3, <1>4, <1>5, SameOnAccounts
<1> QED
  BY <1>1, <1>6 DEF SeenBalance, h, OfAccounts

\* A task that is billed has kept the row and the price it was billed with; so the
\* ledger sees nothing of a step that leaves balances, tasks and codes alone.
LEMMA SeenSame ==
  ASSUME UNCHANGED <<credits, remaining>>,
         \A r \in Requests : /\ DebitOf(r)' = DebitOf(r)
                             /\ DebitOf(r) # "none" => billing'[r] = billing[r],
         \A c \in Codes : DepositOf(c)' = DepositOf(c)
  PROVE  UNCHANGED Ledger!ledgerVars
<1>1. \A r \in Requests : BillOf(r)' = BillOf(r)
  <2> SUFFICES ASSUME NEW r \in Requests PROVE BillOf(r)' = BillOf(r)
    OBVIOUS
  <2>1. task[r] = "none" <=> task'[r] = "none"
    BY DEF DebitOf
  <2>2. task[r] # "none" => billing'[r] = billing[r]
    BY DEF DebitOf
  <2> QED
    BY <2>1, <2>2 DEF BillOf, AccountRow, Price
<1>2. OfAccounts(credits, remaining)' = OfAccounts(credits, remaining)
  BY DEF OfAccounts
<1> QED
  BY <1>1, <1>2 DEF Ledger!ledgerVars

----------------------------------------------------------------------------
(***************************************************************************)
(* Debits and their return                                                 *)
(***************************************************************************)

LEMMA OneTask ==
  ASSUME TaskType, NEW r \in Requests, NEW st,
         task' = [task EXCEPT ![r] = st], UNCHANGED billing
  PROVE  /\ SeenDebit' = [SeenDebit EXCEPT ![r] = DebitOf(r)']
         /\ SeenBill' = [SeenBill EXCEPT ![r] = BillOf(r)']
<1>1. \A q \in Requests \ {r} : task'[q] = task[q]
  BY DEF TaskType
<1>2. \A q \in Requests \ {r} : DebitOf(q)' = DebitOf(q)
  BY <1>1 DEF DebitOf
<1>3. \A q \in Requests \ {r} : BillOf(q)' = BillOf(q)
  BY <1>1 DEF BillOf, AccountRow, Price
<1> QED
  BY <1>2, <1>3 DEF SeenDebit, SeenBill

\* The lock of the row that pays makes the balance the request has read the one it
\* debits: the commit takes what is there.
LEMMA CommitTaskIsDebit ==
  ASSUME TypeInv, LockInv, Fresh, NEW r \in Requests, CommitTask(r)
  PROVE  Ledger!LedgerNext
<1>t. TaskType /\ BillingType
  BY DEF TypeInv
<1> DEFINE a == AccountRow(r)
           units == Price(r)
<1>1. task[r] = "none" /\ task' = [task EXCEPT ![r] = "active"] /\ task'[r] = "active"
      /\ UNCHANGED <<billing, code, redeemedBy>>
  BY <1>t DEF CommitTask, Fresh, TaskType, codeVars
<1>2. Balance(r) >= units
  BY DEF LockInv, RequestLock, CommitTask
<1>3. units \in Nat /\ units >= 1
  <2>1. billing[r].units \in Nat \ {0}
    BY <1>t DEF BillingType, Billings
  <2> QED
    BY <2>1 DEF Price
<1>4. Balance(r) \in Nat
  BY <1>t, AccountFacts DEF TypeInv, BalanceType, Balance
<1>5. IF billing[r].usesCredits
        THEN credits' = [credits EXCEPT ![WalletOf[r]] = Balance(r) - units] /\ UNCHANGED remaining
        ELSE remaining' = [remaining EXCEPT ![AccountOf(r)] = Balance(r) - units]
             /\ UNCHANGED credits
  <2>1. BalanceType
    BY DEF TypeInv
  <2> QED
    BY <1>t, <2>1, AccountFacts DEF CommitTask, Balance, BalanceType
<1>6. /\ a \in Accounts /\ SeenBalance[a] = Balance(r)
      /\ SeenBalance' = [SeenBalance EXCEPT ![a] = Balance(r) - units]
  BY <1>5, OneAccount
<1>7. /\ SeenDebit' = [SeenDebit EXCEPT ![r] = DebitOf(r)']
      /\ SeenBill' = [SeenBill EXCEPT ![r] = BillOf(r)']
  BY <1>t, <1>1, OneTask
<1>8. DebitOf(r) = "none" /\ DebitOf(r)' = "taken"
  BY <1>1 DEF DebitOf
<1>9. BillOf(r)' = [account |-> a, units |-> units]
  BY <1>1 DEF BillOf, AccountRow, Price
<1>10. SeenDeposit' = SeenDeposit
  BY <1>1 DEF SeenDeposit, DepositOf
<1>11. SeenBalance' = [SeenBalance EXCEPT ![a] = @ - units]
  BY <1>6
<1> HIDE DEF a, units
<1>12. Ledger!Debit(r, a, units)
  BY <1>7, <1>8, <1>9, <1>10, <1>11
     DEF Ledger!Debit, SeenBalance, SeenDebit, SeenBill, SeenDeposit
<1>13. units \in 1 .. SeenBalance[a]
  BY <1>2, <1>3, <1>4, <1>6
<1> QED
  BY <1>6, <1>12, <1>13 DEF Ledger!LedgerNext, SeenBalance

\* Tasks that are billed get back what the ledger took, each on the row that paid.
LEMMA RefundsAreReturn ==
  ASSUME TypeInv, NEW S \in SUBSET Requests,
         \A r \in S : DebitOf(r) = "taken",
         task' = [r \in Requests |-> IF r \in S THEN "refunded" ELSE task[r]],
         \A w \in Wallets :
           credits'[w] = credits[w] + Total({r \in S : AccountRow(r) = WalletRow(w)}, Prices),
         \A w \in Wallets, s \in Services :
           remaining'[<<w, s>>] = remaining[<<w, s>>]
             + Total({r \in S : AccountRow(r) = EntitlementRow(w, s)}, Prices),
         UNCHANGED <<billing, code, redeemedBy>>
  PROVE  Ledger!LedgerNext
<1> DEFINE units == [r \in Requests |-> SeenBill[r].units]
           back == [a \in Accounts |->
                      SeenBalance[a] + Total({r \in S : SeenBill[r].account = a}, units)]
<1>1. \A r \in S : task[r] # "none"
  BY DEF DebitOf
<1>2. \A r \in S : SeenBill[r].account = AccountRow(r) /\ units[r] = Prices[r]
  BY <1>1 DEF SeenBill, BillOf, Prices
<1> HIDE DEF units
<1>3. ASSUME NEW row
      PROVE  Total({r \in S : SeenBill[r].account = row}, units)
               = Total({r \in S : AccountRow(r) = row}, Prices)
  <2>1. PICK T : T = {r \in S : AccountRow(r) = row}
    OBVIOUS
  <2>2. {r \in S : SeenBill[r].account = row} = T
    BY <1>2, <2>1
  <2>3. \A r \in T : units[r] = Prices[r]
    BY <1>2, <2>1
  <2>4. Total(T, units) = Total(T, Prices)
    BY <2>3, TotalSame
  <2> QED
    BY <2>1, <2>2, <2>4
<1>4. ASSUME NEW w \in Wallets PROVE credits'[w] = back[WalletRow(w)]
  <2>1. WalletRow(w) \in Accounts /\ SeenBalance[WalletRow(w)] = credits[w]
    BY HeldByAccounts DEF SeenBalance
  <2>2. back[WalletRow(w)] = credits[w] + Total({r \in S : AccountRow(r) = WalletRow(w)}, Prices)
    BY <1>3, <2>1
  <2> QED
    BY <2>2
<1>5. \A w \in Wallets, s \in Services : remaining'[<<w, s>>] = back[EntitlementRow(w, s)]
  <2> SUFFICES ASSUME NEW w \in Wallets, NEW s \in Services
               PROVE  remaining'[<<w, s>>] = back[EntitlementRow(w, s)]
    OBVIOUS
  <2>1. EntitlementRow(w, s) \in Accounts
        /\ SeenBalance[EntitlementRow(w, s)] = remaining[<<w, s>>]
    BY HeldByAccounts DEF SeenBalance
  <2>2. back[EntitlementRow(w, s)]
          = remaining[<<w, s>>] + Total({r \in S : AccountRow(r) = EntitlementRow(w, s)}, Prices)
    BY <1>3, <2>1
  <2> QED
    BY <2>2
<1>6. SeenBalance' = back
  <2>1. back = [a \in Accounts |-> back[a]]
    OBVIOUS
  <2> HIDE DEF back
  <2>2. OfAccounts(credits', remaining') = back
    BY <1>4, <1>5, <2>1, SameOnAccounts
  <2> QED
    BY <2>2 DEF SeenBalance, OfAccounts
<1>7. SeenDebit' = [r \in Requests |-> IF r \in S THEN "returned" ELSE SeenDebit[r]]
  <2>1. \A r \in S : DebitOf(r)' = "returned"
    BY DEF DebitOf
  <2>2. \A r \in Requests \ S : DebitOf(r)' = DebitOf(r)
    BY DEF DebitOf
  <2> QED
    BY <2>1, <2>2 DEF SeenDebit
<1>8. SeenBill' = SeenBill
  <2>1. \A r \in Requests : BillOf(r)' = BillOf(r)
    BY <1>1 DEF BillOf, AccountRow, Price
  <2> QED
    BY <2>1 DEF SeenBill
<1>9. SeenDeposit' = SeenDeposit
  BY DEF SeenDeposit, DepositOf
<1>10. \A r \in S : SeenDebit[r] = "taken"
  BY DEF SeenDebit
<1>11. Ledger!Return(S)
  BY <1>6, <1>7, <1>8, <1>9, <1>10, SameTotal
     DEF Ledger!Return, SeenBalance, SeenDebit, SeenBill, SeenDeposit, units
<1> QED
  BY <1>11 DEF Ledger!LedgerNext

LEMMA RefundTaskIsReturn ==
  ASSUME TypeInv, NEW r \in Requests, RefundTask(r)
  PROVE  Ledger!LedgerNext
<1>t. TaskType /\ BillingType /\ BalanceType
  BY DEF TypeInv
<1>1. task[r] = "failed" /\ task' = [task EXCEPT ![r] = "refunded"]
      /\ UNCHANGED <<billing, code, redeemedBy>>
  BY DEF RefundTask, codeVars
<1>2. task' = [q \in Requests |-> IF q \in {r} THEN "refunded" ELSE task[q]]
  BY <1>t, <1>1 DEF TaskType
<1>3. \A q \in {r} : DebitOf(q) = "taken"
  BY <1>1 DEF DebitOf
<1>4. Price(r) \in Nat /\ Prices[r] = Price(r)
  BY <1>t, AccountFacts
<1>5. ASSUME NEW row
      PROVE  Total({q \in {r} : AccountRow(q) = row}, Prices)
               = IF AccountRow(r) = row THEN Price(r) ELSE 0
  <2>1. CASE AccountRow(r) = row
    <3>1. {q \in {r} : AccountRow(q) = row} = {r}
      BY <2>1
    <3> QED
      BY <1>4, <2>1, <3>1, TotalOfOne
  <2>2. CASE AccountRow(r) # row
    <3>1. {q \in {r} : AccountRow(q) = row} = {}
      BY <2>2
    <3> QED
      BY <2>2, <3>1, TotalOfNone
  <2> QED
    BY <2>1, <2>2
<1>g. IF billing[r].usesCredits
      THEN credits' = [credits EXCEPT ![WalletOf[r]] = @ + Price(r)] /\ UNCHANGED remaining
      ELSE remaining' = [remaining EXCEPT ![AccountOf(r)] = @ + Price(r)] /\ UNCHANGED credits
  BY DEF RefundTask, GiveBack
<1>r. /\ \A w \in Wallets :
           AccountRow(r) = WalletRow(w)
             <=> billing[r].usesCredits = TRUE /\ WalletOf[r] = w
      /\ \A w \in Wallets, s \in Services :
           AccountRow(r) = EntitlementRow(w, s)
             <=> /\ billing[r].usesCredits = FALSE
                 /\ WalletOf[r] = w /\ billing[r].service = s
  BY <1>t, RowsDiffer
<1>6. ASSUME NEW w \in Wallets
      PROVE  credits'[w] = credits[w] + Total({q \in {r} : AccountRow(q) = WalletRow(w)}, Prices)
  <2>2. credits'[w] = credits[w] + IF AccountRow(r) = WalletRow(w) THEN Price(r) ELSE 0
    BY <1>t, <1>g, <1>r, <1>4, AccountFacts DEF BalanceType
  <2> QED
    BY <1>5, <2>2
<1>7. ASSUME NEW w \in Wallets, NEW s \in Services
      PROVE  remaining'[<<w, s>>] = remaining[<<w, s>>]
               + Total({q \in {r} : AccountRow(q) = EntitlementRow(w, s)}, Prices)
  <2>2. AccountOf(r) = <<w, s>> <=> WalletOf[r] = w /\ billing[r].service = s
    BY DEF AccountOf
  <2>3. remaining'[<<w, s>>]
          = remaining[<<w, s>>] + IF AccountRow(r) = EntitlementRow(w, s) THEN Price(r) ELSE 0
    BY <1>t, <1>g, <1>r, <1>4, <2>2, AccountFacts DEF BalanceType
  <2> QED
    BY <1>5, <2>3
<1>8. PICK S \in SUBSET Requests : S = {r}
  OBVIOUS
<1> QED
  BY <1>1, <1>2, <1>3, <1>6, <1>7, <1>8, RefundsAreReturn

\* A recovery gives back the debits of all the tasks it marked, at once.
LEMMA CommitRecoveryIsReturn ==
  ASSUME TypeInv, Marked, NEW x \in Recoveries, CommitRecovery(x)
  PROVE  Ledger!LedgerNext
<1>1. PICK S \in SUBSET Requests : S = recovery[x].tasks
  BY DEF TypeInv, RecoveryType
<1>2. \A r \in S : DebitOf(r) = "taken"
  BY <1>1 DEF Marked, DebitOf
<1>3. task' = [r \in Requests |-> IF r \in S THEN "refunded" ELSE task[r]]
      /\ UNCHANGED <<billing, code, redeemedBy>>
  BY <1>1 DEF CommitRecovery, codeVars
<1>4. \A w \in Wallets :
        credits'[w] = credits[w] + Total({r \in S : AccountRow(r) = WalletRow(w)}, Prices)
  BY <1>1 DEF CommitRecovery, RefundOf
<1>5. ASSUME NEW w \in Wallets, NEW s \in Services
      PROVE  remaining'[<<w, s>>] = remaining[<<w, s>>]
               + Total({r \in S : AccountRow(r) = EntitlementRow(w, s)}, Prices)
  <2>1. PICK e \in Wallets \X Services : e = <<w, s>>
    OBVIOUS
  <2>2. e[1] = w /\ e[2] = s
    BY <2>1
  <2>3. remaining'[e] = remaining[e] + RefundOf(x, EntitlementRow(e[1], e[2]))
    BY DEF CommitRecovery
  <2> QED
    BY <1>1, <2>1, <2>2, <2>3 DEF RefundOf
<1> QED
  BY <1>2, <1>3, <1>4, <1>5, RefundsAreReturn

----------------------------------------------------------------------------
(***************************************************************************)
(* Deposits                                                                *)
(***************************************************************************)

\* A redemption that has locked its code keeps it from being deleted.
ActiveInv ==
  \A d \in Redemptions : pc[d] \in {"upsert", "commit"} => code[CodeOf[d]] = "active"

LEMMA ActiveStep ==
  ASSUME TypeInv, LockInv, ActiveInv, [Next]_vars
  PROVE  ActiveInv'
<1> SUFFICES ASSUME NEW d \in Redemptions, pc'[d] \in {"upsert", "commit"}
             PROVE  code'[CodeOf[d]] = "active"
  BY DEF ActiveInv
<1>t. /\ PcType /\ CodeType /\ LockType
      /\ d \in Processes /\ d \notin Requests /\ d \notin Recoveries
      /\ CodeOf[d] \in Codes
  BY SetsAssumption, RedemptionFacts DEF TypeInv, Processes
<1>1. CASE LockCode(d)
  BY <1>1 DEF LockCode, Redeemable, codeVars
<1>2. CASE ~LockCode(d)
  <2>1. pc[d] \in {"upsert", "commit"}
    BY <1>t, <1>2 DEF Next, RequestStep, SelectBilling, LockAccount, CountActive, InsertTask,
       CommitTask, EndTask, RefundTask, StopWorker, SetPrice, RecoveryStep, MarkStale,
       RefundRow, CommitRecovery, RedemptionStep, LockWallet, LockCode, UpsertEntitlement,
       CommitRedemption, CreateCode, DeleteCode, Refuse, Abort, Release, vars, PcType
  <2>2. code[CodeOf[d]] = "active" /\ lock[CodeRow(CodeOf[d])] = d
    BY <2>1 DEF ActiveInv, LockInv, RedemptionLock
  <2>3. ~DeleteCode(CodeOf[d]) /\ ~CreateCode(CodeOf[d])
    BY <1>t, <2>2, SetsAssumption DEF DeleteCode, CreateCode
  <2>4. code'[CodeOf[d]] = code[CodeOf[d]]
    BY <1>t, <2>3 DEF Next, RequestStep, SelectBilling, LockAccount, CountActive, InsertTask,
       CommitTask, EndTask, RefundTask, StopWorker, SetPrice, RecoveryStep, MarkStale,
       RefundRow, CommitRecovery, RedemptionStep, LockWallet, LockCode, UpsertEntitlement,
       CommitRedemption, CreateCode, DeleteCode, Refuse, Abort, vars, codeVars, CodeType
  <2> QED
    BY <2>2, <2>4
<1> QED
  BY <1>1, <1>2

LEMMA SeenTasksSame ==
  ASSUME UNCHANGED <<credits, remaining, billing, task>>
  PROVE  SeenBalance' = SeenBalance /\ SeenDebit' = SeenDebit /\ SeenBill' = SeenBill
BY DEF SeenBalance, SeenDebit, SeenBill, OfAccounts, DebitOf, BillOf, AccountRow, Price

\* A code that is redeemed was offered, and brings what it is worth to the
\* entitlement of one wallet.
LEMMA CommitRedemptionIsDeposit ==
  ASSUME TypeInv, LockInv, ActiveInv, NEW d \in Redemptions, CommitRedemption(d)
  PROVE  Ledger!LedgerNext
<1> DEFINE c == CodeOf[d]
           a == EntitlementRow(WalletOf[d], CodeService[CodeOf[d]])
<1>t. /\ CodeType /\ BalanceType /\ c \in Codes /\ WalletOf[d] \in Wallets
      /\ CodeService[c] \in Services /\ None \notin Wallets
  BY RedemptionFacts, RowAssumption, SetsAssumption DEF TypeInv
<1>1. redeemedBy[c] = None /\ code[c] = "active"
  BY DEF CommitRedemption, LockInv, RedemptionLock, ActiveInv
<1>2. /\ redeemedBy' = [redeemedBy EXCEPT ![c] = WalletOf[d]]
      /\ remaining' = [remaining EXCEPT ![EntitlementOf(d)] = @ + CodeCredits[c]]
      /\ UNCHANGED <<billing, credits, code, task>>
  BY DEF CommitRedemption
<1>3. a \in Accounts
  BY <1>t, HeldByAccounts
<1>4. SeenDeposit' = [SeenDeposit EXCEPT ![c] = "made"] /\ SeenDeposit[c] = "offered"
  <2>1. redeemedBy'[c] = WalletOf[d] /\ WalletOf[d] # None
    BY <1>t, <1>2 DEF CodeType
  <2>2. DepositOf(c)' = "made" /\ DepositOf(c) = "offered"
    BY <1>1, <2>1 DEF DepositOf
  <2>3. \A k \in Codes \ {c} : DepositOf(k)' = DepositOf(k)
    BY <1>t, <1>2 DEF DepositOf, CodeType
  <2> QED
    BY <1>t, <2>2, <2>3 DEF SeenDeposit
<1>5. SeenDebit' = SeenDebit /\ SeenBill' = SeenBill
  BY <1>2 DEF SeenDebit, SeenBill, DebitOf, BillOf, AccountRow, Price
<1>6. SeenBalance' = [SeenBalance EXCEPT ![a] = @ + CodeCredits[c]]
  <2> DEFINE h == [SeenBalance EXCEPT ![a] = @ + CodeCredits[c]]
  <2>1. h = [b \in Accounts |->
               IF b = a THEN SeenBalance[b] + CodeCredits[c] ELSE SeenBalance[b]]
    BY DEF SeenBalance, OfAccounts
  <2>2. ASSUME NEW w \in Wallets PROVE credits'[w] = h[WalletRow(w)]
    <3>1. WalletRow(w) \in Accounts /\ SeenBalance[WalletRow(w)] = credits[w]
      BY HeldByAccounts DEF SeenBalance
    <3>2. WalletRow(w) # a
      BY DEF WalletRow, EntitlementRow
    <3> QED
      BY <1>2, <2>1, <3>1, <3>2
  <2>3. ASSUME NEW w \in Wallets, NEW s \in Services
        PROVE  remaining'[<<w, s>>] = h[EntitlementRow(w, s)]
    <3>1. EntitlementRow(w, s) \in Accounts
          /\ SeenBalance[EntitlementRow(w, s)] = remaining[<<w, s>>]
      BY HeldByAccounts DEF SeenBalance
    <3>2. EntitlementRow(w, s) = a <=> EntitlementOf(d) = <<w, s>>
      BY DEF EntitlementRow, EntitlementOf
    <3>3. remaining'[<<w, s>>] = IF EntitlementOf(d) = <<w, s>>
            THEN remaining[<<w, s>>] + CodeCredits[c] ELSE remaining[<<w, s>>]
      <4>1. PICK e \in Wallets \X Services : e = EntitlementOf(d)
        BY RedemptionFacts
      <4>2. PICK f \in Wallets \X Services : f = <<w, s>>
        OBVIOUS
      <4>3. remaining' = [remaining EXCEPT ![e] = @ + CodeCredits[c]]
        BY <1>2, <4>1
      <4>4. remaining'[f] = IF e = f THEN remaining[f] + CodeCredits[c] ELSE remaining[f]
        BY <1>t, <4>3 DEF BalanceType
      <4> QED
        BY <4>1, <4>2, <4>4
    <3> QED
      BY <2>1, <3>1, <3>2, <3>3
  <2> HIDE DEF h
  <2>4. h = [b \in Accounts |-> h[b]]
    BY <2>1
  <2>5. OfAccounts(credits', remaining') = h
    BY <2>2, <2>3, <2>4, SameOnAccounts
  <2> QED
    BY <2>5 DEF SeenBalance, OfAccounts, h
<1>7. a \in {EntitlementRow(w, CodeService[c]) : w \in Wallets}
  BY <1>t
<1> HIDE DEF a, c
<1>8. Ledger!Deposit(c, a)
  BY <1>4, <1>5, <1>6 DEF Ledger!Deposit, SeenBalance, SeenDebit, SeenBill, SeenDeposit
<1> QED
  BY <1>t, <1>7, <1>8 DEF Ledger!LedgerNext

\* The administrator offers and withdraws codes; one that was redeemed stays so.
LEMMA CodeStepIsOffer ==
  ASSUME TypeInv, NEW c \in Codes, CreateCode(c) \/ DeleteCode(c)
  PROVE  Ledger!LedgerNext \/ UNCHANGED Ledger!ledgerVars
<1>t. CodeType
  BY DEF TypeInv
<1>1. UNCHANGED <<credits, remaining, billing, task, redeemedBy>>
  BY DEF CreateCode, DeleteCode, balanceVars
<1>2. SeenBalance' = SeenBalance /\ SeenDebit' = SeenDebit /\ SeenBill' = SeenBill
  BY <1>1, SeenTasksSame
<1>3. \A k \in Codes \ {c} : DepositOf(k)' = DepositOf(k)
  BY <1>t, <1>1 DEF DepositOf, CreateCode, DeleteCode, CodeType
<1>4. CASE redeemedBy[c] # None
  <2>1. DepositOf(c)' = DepositOf(c)
    BY <1>1, <1>4 DEF DepositOf
  <2>2. SeenDeposit' = SeenDeposit
    BY <1>3, <2>1 DEF SeenDeposit
  <2> QED
    BY <1>2, <2>2 DEF Ledger!ledgerVars, SeenBalance, SeenDebit, SeenBill, SeenDeposit
<1>5. CASE redeemedBy[c] = None /\ CreateCode(c)
  <2>1. DepositOf(c) = "none" /\ DepositOf(c)' = "offered"
    BY <1>t, <1>1, <1>5 DEF DepositOf, CreateCode, CodeType
  <2>2. SeenDeposit' = [k \in Codes |-> IF k \in {c} THEN "offered" ELSE SeenDeposit[k]]
    BY <1>3, <2>1 DEF SeenDeposit
  <2>3. \A k \in {c} : SeenDeposit[k] = "none"
    BY <2>1 DEF SeenDeposit
  <2>4. Ledger!Offer({c})
    BY <1>2, <2>2, <2>3 DEF Ledger!Offer, SeenBalance, SeenDebit, SeenBill, SeenDeposit
  <2>5. {c} \in SUBSET Codes
    OBVIOUS
  <2> QED
    BY <2>4, <2>5 DEF Ledger!LedgerNext
<1>6. CASE redeemedBy[c] = None /\ DeleteCode(c)
  <2>1. DepositOf(c) = "offered" /\ DepositOf(c)' = "withdrawn"
    BY <1>t, <1>1, <1>6 DEF DepositOf, DeleteCode, CodeType
  <2>2. SeenDeposit' = [SeenDeposit EXCEPT ![c] = "withdrawn"] /\ SeenDeposit[c] = "offered"
    BY <1>3, <2>1 DEF SeenDeposit
  <2>3. Ledger!Withdraw(c)
    BY <1>2, <2>2 DEF Ledger!Withdraw, SeenBalance, SeenDebit, SeenBill, SeenDeposit
  <2> QED
    BY <2>3 DEF Ledger!LedgerNext
<1> QED
  BY <1>4, <1>5, <1>6

----------------------------------------------------------------------------
(***************************************************************************)
(* The refinement                                                          *)
(***************************************************************************)

LEMMA InitLedger == Init => Ledger!LedgerInit
<1> SUFFICES ASSUME Init PROVE Ledger!LedgerInit
  OBVIOUS
<1>1. OfAccounts(credits, remaining)
        = OfAccounts(Credits, [e \in Wallets \X Services |-> 0])
  BY DEF Init
<1>2. \A r \in Requests : DebitOf(r) = "none" /\ BillOf(r) = [account |-> None, units |-> 0]
  BY DEF Init, DebitOf, BillOf
<1>3. \A c \in Codes : DepositOf(c) = "none"
  BY DEF Init, DepositOf
<1> QED
  BY <1>1, <1>2, <1>3 DEF Ledger!LedgerInit, Ledger!NoBill

\* What the requests and their tasks do that is no debit and no return of one.
LEMMA QuietRequests ==
  ASSUME TypeInv, Fresh, NEW r \in Requests,
         \/ SelectBilling(r) \/ LockAccount(r) \/ CountActive(r) \/ InsertTask(r)
         \/ EndTask(r) \/ StopWorker(r)
  PROVE  UNCHANGED Ledger!ledgerVars
<1>t. TaskType /\ BillingType
  BY DEF TypeInv
<1>1. UNCHANGED <<credits, remaining, code, redeemedBy>>
  BY DEF SelectBilling, LockAccount, CountActive, InsertTask, EndTask, StopWorker,
     balanceVars, codeVars
<1>2. \A q \in Requests : DebitOf(q)' = DebitOf(q)
  BY <1>t DEF SelectBilling, LockAccount, CountActive, InsertTask, EndTask, StopWorker,
     DebitOf, TaskType
<1>3. \A q \in Requests : DebitOf(q) # "none" => billing'[q] = billing[q]
  <2>1. CASE SelectBilling(r)
    <3>1. task[r] = "none"
      BY <2>1 DEF SelectBilling, Fresh
    <3>2. \A q \in Requests : q # r => billing'[q] = billing[q]
      BY <1>t, <2>1 DEF SelectBilling, BillingType
    <3> QED
      BY <3>1, <3>2 DEF DebitOf
  <2>2. CASE ~SelectBilling(r)
    BY <2>2 DEF LockAccount, CountActive, InsertTask, EndTask, StopWorker
  <2> QED
    BY <2>1, <2>2
<1>4. \A c \in Codes : DepositOf(c)' = DepositOf(c)
  BY <1>1 DEF DepositOf
<1> QED
  BY <1>1, <1>2, <1>3, <1>4, SeenSame

\* The locks, the edits of prices and the ends without a commit are no step of the
\* ledger.
LEMMA QuietSteps ==
  ASSUME UNCHANGED <<credits, remaining, billing, task, code, redeemedBy>>
  PROVE  UNCHANGED Ledger!ledgerVars
<1>1. \A r \in Requests : DebitOf(r)' = DebitOf(r)
  BY DEF DebitOf
<1>2. \A c \in Codes : DepositOf(c)' = DepositOf(c)
  BY DEF DepositOf
<1> QED
  BY <1>1, <1>2, SeenSame

LEMMA StepLedger ==
  ASSUME TypeInv, LockInv, Fresh, Marked, ActiveInv, [Next]_vars
  PROVE  [Ledger!LedgerNext]_Ledger!ledgerVars
<1>1. ASSUME NEW r \in Requests, RequestStep(r)
      PROVE  Ledger!LedgerNext \/ UNCHANGED Ledger!ledgerVars
  BY <1>1, CommitTaskIsDebit, QuietRequests DEF RequestStep
<1>2. ASSUME NEW r \in Requests, EndTask(r) \/ RefundTask(r) \/ StopWorker(r)
      PROVE  Ledger!LedgerNext \/ UNCHANGED Ledger!ledgerVars
  BY <1>2, RefundTaskIsReturn, QuietRequests
<1>3. ASSUME NEW x \in Recoveries, RecoveryStep(x)
      PROVE  Ledger!LedgerNext \/ UNCHANGED Ledger!ledgerVars
  <2>1. CASE CommitRecovery(x)
    BY <2>1, CommitRecoveryIsReturn
  <2>2. CASE MarkStale(x) \/ RefundRow(x)
    BY <2>2, QuietSteps DEF MarkStale, RefundRow, balanceVars, codeVars
  <2> QED
    BY <1>3, <2>1, <2>2 DEF RecoveryStep
<1>4. ASSUME NEW d \in Redemptions, RedemptionStep(d)
      PROVE  Ledger!LedgerNext \/ UNCHANGED Ledger!ledgerVars
  <2>1. CASE CommitRedemption(d)
    BY <2>1, CommitRedemptionIsDeposit
  <2>2. CASE LockWallet(d) \/ LockCode(d) \/ UpsertEntitlement(d)
    BY <2>2, QuietSteps DEF LockWallet, LockCode, UpsertEntitlement, balanceVars, codeVars
  <2> QED
    BY <1>4, <2>1, <2>2 DEF RedemptionStep
<1>5. ASSUME NEW c \in Codes, CreateCode(c) \/ DeleteCode(c)
      PROVE  Ledger!LedgerNext \/ UNCHANGED Ledger!ledgerVars
  BY <1>5, CodeStepIsOffer
<1>6. CASE \/ \E s \in Services : \E units \in NewPrices[s] : SetPrice(s, units)
           \/ \E p \in Processes : Refuse(p) \/ Abort(p)
           \/ UNCHANGED vars
  <2>1. UNCHANGED <<credits, remaining, billing, task, code, redeemedBy>>
    BY <1>6 DEF SetPrice, Refuse, Abort, vars, balanceVars, codeVars
  <2> QED
    BY <2>1, QuietSteps
<1> QED
  BY <1>1, <1>2, <1>3, <1>4, <1>5, <1>6 DEF Next

\* However requests, redemptions, recoveries and edits interleave, and whichever of
\* them are rolled back, each changes balances, debits and deposits as one serial
\* transaction does: a debit takes no more than there is and comes back at most
\* once, a code is redeemed at most once and never after it was deleted.
THEOREM AdmissionImplementsLedger == Spec => ImplementsWalletLedger
<1> DEFINE Inv == BalanceInv /\ ActiveInv
<1>1. Init => Inv /\ Ledger!LedgerInit
  <2>1. Init => ActiveInv
    BY DEF Init, ActiveInv, Processes
  <2> QED
    BY <2>1, BalanceInit, InitLedger
<1>2. Inv /\ [Next]_vars => Inv'
  <2>1. BalanceInv /\ [Next]_vars => BalanceInv'
    BY AccountStep, HistoryStep, ExplainedStep DEF BalanceInv
  <2>2. BalanceInv /\ ActiveInv /\ [Next]_vars => ActiveInv'
    BY ActiveStep DEF BalanceInv, AccountInv
  <2> QED
    BY <2>1, <2>2
<1>3. Inv /\ [Next]_vars => [Ledger!LedgerNext]_Ledger!ledgerVars
  BY StepLedger DEF BalanceInv, AccountInv
<1> HIDE DEF Inv
<1> QED
  BY <1>1, <1>2, <1>3, PTL DEF Spec, ImplementsWalletLedger, Ledger!LedgerSpec
=============================================================================
