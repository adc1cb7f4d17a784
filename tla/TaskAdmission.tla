---------------------------- MODULE TaskAdmission ----------------------------
(***************************************************************************)
(* The transactions that lock rows of a wallet: admitting a task           *)
(* (handleCreateTask, internal/httpapi/tasks.go) and redeeming an exchange *)
(* code (RedeemLicenseToWallet, internal/httpapi/wallet_api.go), and what  *)
(* changes the same rows: refunds, the recovery of abandoned tasks, edits  *)
(* of prices, the creation and deletion of codes.                          *)
(*                                                                         *)
(* A request first reads the wallet outside any transaction and decides    *)
(* there which row pays: an entitlement, or the wallet's credits. Its      *)
(* transaction locks that row only, counts the wallet's active tasks,      *)
(* debits, and inserts the task, whose foreign key locks the wallet's row  *)
(* FOR KEY SHARE. A redemption locks the wallet, the code and then the     *)
(* entitlement. What a transaction writes shows when it commits; the       *)
(* database aborts one transaction of every cycle of waits (external).     *)
(***************************************************************************)
EXTENDS BillingSelection, Totals, FiniteSets, SequencesExt

CONSTANTS
  Wallets,
  Requests,      \* POST /v1/tasks, and the task each of them may create
  Redemptions,   \* POST /v1/wallets/redeem
  Recoveries,    \* recoveries of stale tasks, one per process start
  WalletOf,      \* the wallet each request and redemption names
  Tier,          \* the size tier of each request
  Codes,         \* license_keys
  CodeOf,        \* the code each redemption names
  CodeService, CodeCredits, CodeMax,   \* service_code, credits, max_concurrent
  CreditCost,    \* service_credit_prices.credit_units of each service at first
  NewPrices,     \* and what an administrator may set it to
  Credits,       \* wallets.credits at first
  DefaultMax,    \* defaultMaxConcurrent
  None

Processes == Requests \cup Redemptions \cup Recoveries

ASSUME SetsAssumption ==
  /\ Requests \cap Redemptions = {}
  /\ Recoveries \cap (Requests \cup Redemptions) = {}
  /\ IsFiniteSet(Requests) /\ IsFiniteSet(Codes)
  /\ None \notin Wallets \cup Processes
ASSUME RequestAssumption ==
  /\ WalletOf \in [Requests \cup Redemptions -> Wallets]
  /\ Tier \in [Requests -> Tiers]
  /\ CodeOf \in [Redemptions -> Codes]
ASSUME RowAssumption ==
  /\ CodeService \in [Codes -> Services]
  /\ CodeCredits \in [Codes -> Nat \ {0}]
  /\ CodeMax \in [Codes -> Nat \ {0}]
  /\ CreditCost \in [Services -> Nat \ {0}]
  /\ NewPrices \in [Services -> SUBSET (Nat \ {0})]
  /\ Credits \in [Wallets -> Nat]
  /\ DefaultMax \in Nat \ {0}

VARIABLES
  pc,            \* where each request or redemption is
  billing,       \* walletBillingSelection of each request
  credits,       \* wallets.credits
  remaining,     \* wallet_entitlements.remaining, 0 where there is no row
  maxConcurrent, \* wallet_entitlements.max_concurrent, 0 where there is no row
  price,         \* service_credit_prices.credit_units
  code,          \* license_keys.status, "none" before the row exists
  redeemedBy,    \* license_keys.redeemed_wallet_id
  task,          \* the task of each request, as committed
  recovery,      \* the tasks a recovery has marked, and the rows it updates next
  lock,          \* who holds a row FOR UPDATE (or has updated it)
  share          \* who holds a row FOR KEY SHARE

codeVars == <<code, redeemedBy>>
balanceVars == <<credits, remaining, maxConcurrent>>
lockVars == <<lock, share>>
vars == <<pc, billing, price, balanceVars, codeVars, task, recovery, lockVars>>

WalletRow(w) == <<"wallet", w>>
EntitlementRow(w, s) == <<"entitlement", w, s>>
CodeRow(c) == <<"code", c>>
Rows == {WalletRow(w) : w \in Wallets} \cup {CodeRow(c) : c \in Codes}
        \cup {EntitlementRow(w, s) : w \in Wallets, s \in Services}

\* "abandoned": running, but no worker has it any more; "failed": in error, and
\* its debit not given back yet
TaskStates == {"none", "active", "abandoned", "done", "failed", "refunded"}

NoRecovery == [tasks |-> {}, rows |-> <<>>]

Init ==
  /\ pc = [p \in Processes |-> "new"]
  /\ billing = [r \in Requests |-> [service |-> SD, units |-> 1, usesCredits |-> FALSE]]
  /\ price = CreditCost
  /\ credits = Credits
  /\ remaining = [e \in Wallets \X Services |-> 0]
  /\ maxConcurrent = [e \in Wallets \X Services |-> 0]
  /\ code = [c \in Codes |-> "none"]
  /\ redeemedBy = [c \in Codes |-> None]
  /\ task = [r \in Requests |-> "none"]
  /\ recovery = [x \in Recoveries |-> NoRecovery]
  /\ lock = [row \in Rows |-> None]
  /\ share = [row \in Rows |-> {}]

----------------------------------------------------------------------------
(***************************************************************************)
(* Row locks                                                               *)
(***************************************************************************)

\* Who keeps p from having the row FOR UPDATE, or FOR KEY SHARE. The UPDATE of a
\* recovery changes no key: it goes together with FOR KEY SHARE.
UpdateBlockers(p, row) ==
  (({lock[row]} \ {None}) \cup (IF p \in Recoveries THEN {} ELSE share[row])) \ {p}
ShareBlockers(p, row) == {lock[row]} \ (Recoveries \cup {None, p})

LockForUpdate(p, row) ==
  /\ UpdateBlockers(p, row) = {}
  /\ lock' = [lock EXCEPT ![row] = p]
  /\ UNCHANGED share

LockForKeyShare(p, row) ==
  /\ ShareBlockers(p, row) = {}
  /\ share' = [share EXCEPT ![row] = @ \cup {p}]
  /\ UNCHANGED lock

\* COMMIT or ROLLBACK, and the handler's answer
Release(p) ==
  /\ pc' = [pc EXCEPT ![p] = "over"]
  /\ lock' = [row \in Rows |-> IF lock[row] = p THEN None ELSE lock[row]]
  /\ share' = [row \in Rows |-> share[row] \ {p}]

----------------------------------------------------------------------------
(***************************************************************************)
(* handleCreateTask                                                        *)
(***************************************************************************)

\* walletEntitlementWithBalance
WithBalance(w) == {s \in Services : remaining[<<w, s>>] > 0}

\* Mutant: the row of the task is inserted before the one that pays is locked.
SelectAndInsert(r) ==
  /\ pc[r] = "new"
  /\ LET covered == EntitlementBillings(Tier[r], WithBalance(WalletOf[r]))
         chosen == IF covered # {} THEN covered ELSE CreditBillings(Tier[r], price)
     IN \E b \in chosen : billing' = [billing EXCEPT ![r] = b]
  /\ LockForKeyShare(r, WalletRow(WalletOf[r]))
  /\ pc' = [pc EXCEPT ![r] = "lock"]
  /\ UNCHANGED <<price, balanceVars, codeVars, task, recovery>>

\* WalletByAddress, selectWalletBillingForGeneration and the selection of a
\* provider, outside a transaction: an entitlement is preferred. Whether the
\* credits read before the entitlements were enough, whether the price is enabled
\* and whether a provider is usable is left open.
SelectBilling(r) ==
  /\ pc[r] = "new"
  /\ LET covered == EntitlementBillings(Tier[r], WithBalance(WalletOf[r]))
         chosen == IF covered # {} THEN covered ELSE CreditBillings(Tier[r], price)
     IN \E b \in chosen : billing' = [billing EXCEPT ![r] = b]
  /\ \E next \in {"lock", "over"} : pc' = [pc EXCEPT ![r] = next]
  /\ UNCHANGED <<price, balanceVars, codeVars, task, recovery, lockVars>>

\* The row that pays, what it holds, and what the task costs
AccountRow(r) ==
  IF billing[r].usesCredits THEN WalletRow(WalletOf[r])
                            ELSE EntitlementRow(WalletOf[r], billing[r].service)
AccountOf(r) == <<WalletOf[r], billing[r].service>>
Balance(r) ==
  IF billing[r].usesCredits THEN credits[WalletOf[r]] ELSE remaining[AccountOf(r)]
Price(r) == billing[r].units

\* Mutant: the balance is read without FOR UPDATE.
ReadAccountUnlocked(r) ==
  /\ pc[r] = "lock"
  /\ Balance(r) >= Price(r)
  /\ pc' = [pc EXCEPT ![r] = "count"]
  /\ UNCHANGED <<billing, price, balanceVars, codeVars, task, recovery, lockVars>>

\* SELECT ... FOR UPDATE of the row that pays; a balance that no longer suffices
\* refuses the request
LockAccount(r) ==
  /\ pc[r] = "lock"
  /\ Balance(r) >= Price(r)
  /\ LockForUpdate(r, AccountRow(r))
  /\ pc' = [pc EXCEPT ![r] = "count"]
  /\ UNCHANGED <<billing, price, balanceVars, codeVars, task, recovery>>

\* The committed tasks that SELECT COUNT(*) sees
ActiveTasks(w, s) ==
  {r \in Requests : /\ task[r] \in {"active", "abandoned"}
                    /\ WalletOf[r] = w
                    /\ billing[r].service = s}

\* lockedMaxConcurrent: a task paid with credits has the default
Limit(r) ==
  IF billing[r].usesCredits THEN DefaultMax ELSE maxConcurrent[AccountOf(r)]

\* Mutant: the limit is compared with <=.
CountOffByOne(r) ==
  /\ pc[r] = "count"
  /\ Cardinality(ActiveTasks(WalletOf[r], billing[r].service)) <= Limit(r)
  /\ pc' = [pc EXCEPT ![r] = "insert"]
  /\ UNCHANGED <<billing, price, balanceVars, codeVars, task, recovery, lockVars>>

\* The wallet has fewer active tasks of the service than it may have
CountActive(r) ==
  /\ pc[r] = "count"
  /\ Cardinality(ActiveTasks(WalletOf[r], billing[r].service)) < Limit(r)
  /\ pc' = [pc EXCEPT ![r] = "insert"]
  /\ UNCHANGED <<billing, price, balanceVars, codeVars, task, recovery, lockVars>>

\* UPDATE of the row that pays, INSERT of the task: tasks.wallet_id refers to
\* the wallet, which is locked FOR KEY SHARE
InsertTask(r) ==
  /\ pc[r] = "insert"
  /\ LockForKeyShare(r, WalletRow(WalletOf[r]))
  /\ pc' = [pc EXCEPT ![r] = "commit"]
  /\ UNCHANGED <<billing, price, balanceVars, codeVars, task, recovery>>

\* COMMIT shows the debit and the task. The UPDATE of the balance also asks for
\* credits >= $1 and for one changed row: LockAccount has seen that balance, and the
\* row is locked since, so that neither can fail (TypeOK would show it).
CommitTask(r) ==
  /\ pc[r] = "commit"
  /\ IF billing[r].usesCredits
     THEN /\ credits' = [credits EXCEPT ![WalletOf[r]] = @ - Price(r)]
          /\ UNCHANGED remaining
     ELSE /\ remaining' = [remaining EXCEPT ![AccountOf(r)] = @ - Price(r)]
          /\ UNCHANGED credits
  /\ task' = [task EXCEPT ![r] = "active"]
  /\ Release(r)
  /\ UNCHANGED <<billing, price, maxConcurrent, codeVars, recovery>>

\* What a worker makes of the task (see TaskLifecycle)
EndTask(r) ==
  /\ task[r] = "active"
  /\ \E outcome \in {"done", "failed"} : task' = [task EXCEPT ![r] = outcome]
  /\ UNCHANGED <<pc, billing, price, balanceVars, codeVars, recovery, lockVars>>

\* The row that paid gets the units back; the UPDATE waits for a locked row
GiveBack(r, units) ==
  /\ lock[AccountRow(r)] = None
  /\ IF billing[r].usesCredits
     THEN /\ credits' = [credits EXCEPT ![WalletOf[r]] = @ + units]
          /\ UNCHANGED remaining
     ELSE /\ remaining' = [remaining EXCEPT ![AccountOf(r)] = @ + units]
          /\ UNCHANGED credits

\* Mutant: what the task would cost now is given back.
RefundCurrentPrice(r) ==
  /\ task[r] = "failed"
  /\ GiveBack(r, IF billing[r].usesCredits THEN price[billing[r].service] ELSE 1)
  /\ task' = [task EXCEPT ![r] = "refunded"]
  /\ UNCHANGED <<pc, billing, price, maxConcurrent, codeVars, recovery, lockVars>>

\* failTaskAndRefund gives back what the row of the task says it cost
RefundTask(r) ==
  /\ task[r] = "failed"
  /\ GiveBack(r, Price(r))
  /\ task' = [task EXCEPT ![r] = "refunded"]
  /\ UNCHANGED <<pc, billing, price, maxConcurrent, codeVars, recovery, lockVars>>

\* handleAdminUpsertCreditPrice: one INSERT ... ON CONFLICT DO UPDATE
SetPrice(s, units) ==
  /\ price' = [price EXCEPT ![s] = units]
  /\ UNCHANGED <<pc, billing, balanceVars, codeVars, task, recovery, lockVars>>

----------------------------------------------------------------------------
(***************************************************************************)
(* recoverStaleWalletRunningTasks                                          *)
(***************************************************************************)

\* The process that works on a task stops (seen only where it is started again)
StopWorker(r) ==
  /\ Recoveries # {}
  /\ task[r] = "active"
  /\ task' = [task EXCEPT ![r] = "abandoned"]
  /\ UNCHANGED <<pc, billing, price, balanceVars, codeVars, recovery, lockVars>>

AccountRows(tasks, usesCredits) ==
  {AccountRow(r) : r \in {t \in tasks : billing[t].usesCredits = usesCredits}}

\* UPDATE tasks ... RETURNING: those old enough. The rows to refund come in the
\* order of two Go maps: first the entitlements, in any order, then the wallets.
\* (Rows that another recovery has updated are waited for.) The tasks of live workers
\* are not among them: what follows from taking one of those is in TaskLifecycle.
MarkStale(x) ==
  /\ pc[x] = "new"
  /\ \A y \in Recoveries : recovery[y].tasks = {}
  /\ \E stale \in SUBSET {r \in Requests : task[r] = "abandoned"} :
       \E entitlements \in SetToSeqs(AccountRows(stale, FALSE)),
          wallets \in SetToSeqs(AccountRows(stale, TRUE)) :
         recovery' = [recovery EXCEPT ![x] =
                        [tasks |-> stale, rows |-> entitlements \o wallets]]
  /\ pc' = [pc EXCEPT ![x] = "refund"]
  /\ UNCHANGED <<billing, price, balanceVars, codeVars, task, lockVars>>

\* UPDATE of the next row: remaining or credits
RefundRow(x) ==
  /\ pc[x] = "refund"
  /\ recovery[x].rows # <<>>
  /\ LockForUpdate(x, Head(recovery[x].rows))
  /\ recovery' = [recovery EXCEPT ![x].rows = Tail(@)]
  /\ UNCHANGED <<pc, billing, price, balanceVars, codeVars, task>>

\* tasks.credit_units
Prices == [r \in Requests |-> Price(r)]

\* What a recovery gives back to a row: the units of its tasks there
RefundOf(x, row) ==
  Total({r \in recovery[x].tasks : AccountRow(r) = row}, Prices)

\* Mutant: a row gets one unit, however many tasks it paid for.
CommitOneUnit(x) ==
  /\ pc[x] = "refund"
  /\ recovery[x].rows = <<>>
  /\ LET rows == {AccountRow(r) : r \in recovery[x].tasks} IN
     /\ credits' = [w \in Wallets |->
          credits[w] + IF WalletRow(w) \in rows THEN 1 ELSE 0]
     /\ remaining' = [e \in Wallets \X Services |->
          remaining[e] + IF EntitlementRow(e[1], e[2]) \in rows THEN 1 ELSE 0]
  /\ task' = [r \in Requests |-> IF r \in recovery[x].tasks THEN "refunded" ELSE task[r]]
  /\ recovery' = [recovery EXCEPT ![x] = NoRecovery]
  /\ Release(x)
  /\ UNCHANGED <<billing, price, maxConcurrent, codeVars>>

CommitRecovery(x) ==
  /\ pc[x] = "refund"
  /\ recovery[x].rows = <<>>
  /\ credits' = [w \in Wallets |-> credits[w] + RefundOf(x, WalletRow(w))]
  /\ remaining' = [e \in Wallets \X Services |->
                     remaining[e] + RefundOf(x, EntitlementRow(e[1], e[2]))]
  /\ task' = [r \in Requests |-> IF r \in recovery[x].tasks THEN "refunded" ELSE task[r]]
  /\ recovery' = [recovery EXCEPT ![x] = NoRecovery]
  /\ Release(x)
  /\ UNCHANGED <<billing, price, maxConcurrent, codeVars>>

----------------------------------------------------------------------------
(***************************************************************************)
(* RedeemLicenseToWallet                                                   *)
(***************************************************************************)

\* walletByAddressForUpdate
LockWallet(d) ==
  /\ pc[d] = "new"
  /\ LockForUpdate(d, WalletRow(WalletOf[d]))
  /\ pc' = [pc EXCEPT ![d] = "code"]
  /\ UNCHANGED <<billing, price, balanceVars, codeVars, task, recovery>>

Redeemable(c) == code[c] = "active" /\ redeemedBy[c] = None

\* Mutant: the code is read without FOR UPDATE.
ReadCodeUnlocked(d) ==
  /\ pc[d] = "code"
  /\ Redeemable(CodeOf[d])
  /\ pc' = [pc EXCEPT ![d] = "upsert"]
  /\ UNCHANGED <<billing, price, balanceVars, codeVars, task, recovery, lockVars>>

\* licenseByHashForWalletRedeem: the code is active, not redeemed (and not
\* expired) once the lock is granted
LockCode(d) ==
  /\ pc[d] = "code"
  /\ Redeemable(CodeOf[d])
  /\ LockForUpdate(d, CodeRow(CodeOf[d]))
  /\ pc' = [pc EXCEPT ![d] = "upsert"]
  /\ UNCHANGED <<billing, price, balanceVars, codeVars, task, recovery>>

\* The row INSERT ... ON CONFLICT DO UPDATE writes
EntitlementOf(d) == <<WalletOf[d], CodeService[CodeOf[d]]>>

UpsertEntitlement(d) ==
  /\ pc[d] = "upsert"
  /\ LockForUpdate(d, EntitlementRow(WalletOf[d], CodeService[CodeOf[d]]))
  /\ pc' = [pc EXCEPT ![d] = "commit"]
  /\ UNCHANGED <<billing, price, balanceVars, codeVars, task, recovery>>

\* The code is marked redeemed and the redemption recorded; GREATEST keeps the
\* larger max_concurrent
CommitRedemption(d) ==
  LET c == CodeOf[d] IN
  /\ pc[d] = "commit"
  /\ remaining' = [remaining EXCEPT ![EntitlementOf(d)] = @ + CodeCredits[c]]
  /\ maxConcurrent' = [maxConcurrent EXCEPT ![EntitlementOf(d)] =
                         IF @ < CodeMax[c] THEN CodeMax[c] ELSE @]
  /\ redeemedBy' = [redeemedBy EXCEPT ![c] = WalletOf[d]]
  /\ Release(d)
  /\ UNCHANGED <<billing, price, credits, code, task, recovery>>

\* handleAdminCreateLicenses, one code of its list: each INSERT is on its own
CreateCode(c) ==
  /\ code[c] = "none"
  /\ code' = [code EXCEPT ![c] = "active"]
  /\ UNCHANGED <<pc, billing, price, balanceVars, redeemedBy, task, recovery, lockVars>>

\* Mutant: the row of the code is not waited for.
DeleteLockedCode(c) ==
  /\ code[c] = "active"
  /\ code' = [code EXCEPT ![c] = "deleted"]
  /\ UNCHANGED <<pc, billing, price, balanceVars, redeemedBy, task, recovery, lockVars>>

\* handleAdminDeleteLicenses, one code of its list
DeleteCode(c) ==
  /\ code[c] = "active"
  /\ lock[CodeRow(c)] = None
  /\ code' = [code EXCEPT ![c] = "deleted"]
  /\ UNCHANGED <<pc, billing, price, balanceVars, redeemedBy, task, recovery, lockVars>>

----------------------------------------------------------------------------
InTransaction(p) == pc[p] \notin {"new", "over"}

\* The row the next statement of p needs, and who keeps it from p
Blockers(p) ==
  CASE p \in Requests /\ pc[p] = "lock" -> UpdateBlockers(p, AccountRow(p))
    [] p \in Requests /\ pc[p] = "insert" -> ShareBlockers(p, WalletRow(WalletOf[p]))
    [] p \in Redemptions /\ pc[p] = "new" -> UpdateBlockers(p, WalletRow(WalletOf[p]))
    [] p \in Redemptions /\ pc[p] = "code" -> UpdateBlockers(p, CodeRow(CodeOf[p]))
    [] p \in Redemptions /\ pc[p] = "upsert" ->
         UpdateBlockers(p, EntitlementRow(WalletOf[p], CodeService[CodeOf[p]]))
    [] p \in Recoveries /\ recovery[p].rows # <<>> ->
         UpdateBlockers(p, Head(recovery[p].rows))
    [] OTHER -> {}

\* Processes each of which waits for one of them: none of them can go on
Stuck(S) == S # {} /\ \A p \in S : Blockers(p) \cap S # {}

\* The processes on a cycle of waits
Deadlocked ==
  LET blockers == [p \in Processes |-> Blockers(p)]
      Cyclic(S) == \A p \in S : /\ blockers[p] \cap S # {}
                                /\ \E q \in S : p \in blockers[q]
  IN UNION {S \in SUBSET Processes : Cyclic(S)}

\* Mutant: a request that is refused answers without rolling back.
RefuseWithoutRollback(p) ==
  /\ Blockers(p) = {}
  /\ \/ /\ p \in Requests
        /\ \/ pc[p] = "lock" /\ Balance(p) < Price(p)
           \/ /\ pc[p] = "count"
              /\ Cardinality(ActiveTasks(WalletOf[p], billing[p].service)) >= Limit(p)
     \/ p \in Redemptions /\ pc[p] = "code" /\ ~Redeemable(CodeOf[p])
  /\ pc' = [pc EXCEPT ![p] = "over"]
  /\ UNCHANGED <<billing, price, balanceVars, codeVars, task, recovery, lockVars>>

\* The checks that answer 403, 404, 409 or 429 after the row was read: the
\* transaction is rolled back
Refuse(p) ==
  /\ Blockers(p) = {}
  /\ \/ /\ p \in Requests
        /\ \/ pc[p] = "lock" /\ Balance(p) < Price(p)
           \/ /\ pc[p] = "count"
              /\ Cardinality(ActiveTasks(WalletOf[p], billing[p].service)) >= Limit(p)
     \/ p \in Redemptions /\ pc[p] = "code" /\ ~Redeemable(CodeOf[p])
  /\ Release(p)
  /\ UNCHANGED <<billing, price, balanceVars, codeVars, task, recovery>>

\* Mutant: a recovery that fails has marked its tasks outside the transaction.
AbortAfterMarking(p) ==
  /\ InTransaction(p)
  /\ Release(p)
  /\ task' = [r \in Requests |->
       IF p \in Recoveries /\ r \in recovery[p].tasks THEN "refunded" ELSE task[r]]
  /\ recovery' = [x \in Recoveries |-> IF x = p THEN NoRecovery ELSE recovery[x]]
  /\ UNCHANGED <<billing, price, balanceVars, codeVars>>

\* A database error, the request's timeout, an expired code, a crash, or the
\* database's answer to a deadlock: the transaction is rolled back. A recovery
\* is not repeated before the next start.
Abort(p) ==
  /\ InTransaction(p)
  /\ Release(p)
  /\ recovery' = [x \in Recoveries |-> IF x = p THEN NoRecovery ELSE recovery[x]]
  /\ UNCHANGED <<billing, price, balanceVars, codeVars, task>>

RequestStep(r) ==
  SelectBilling(r) \/ LockAccount(r) \/ CountActive(r) \/ InsertTask(r) \/ CommitTask(r)

RedemptionStep(d) ==
  LockWallet(d) \/ LockCode(d) \/ UpsertEntitlement(d) \/ CommitRedemption(d)

RecoveryStep(x) == MarkStale(x) \/ RefundRow(x) \/ CommitRecovery(x)

Next ==
  \/ \E r \in Requests :
       RequestStep(r) \/ EndTask(r) \/ RefundTask(r) \/ StopWorker(r)
  \/ \E d \in Redemptions : RedemptionStep(d)
  \/ \E x \in Recoveries : RecoveryStep(x)
  \/ \E s \in Services : \E units \in NewPrices[s] : SetPrice(s, units)
  \/ \E c \in Codes : CreateCode(c) \/ DeleteCode(c)
  \/ \E p \in Processes : Refuse(p) \/ Abort(p)

Spec == Init /\ [][Next]_vars

\* External: the database grants a lock that is free, and ends a deadlock by
\* aborting one of its transactions. The handlers go on; no request has to time
\* out. (A request that is under way is not left: hence no fairness at "new".)
Fairness ==
  /\ \A r \in Requests : WF_vars(RequestStep(r) /\ pc[r] # "new")
  /\ \A d \in Redemptions : WF_vars(RedemptionStep(d) /\ pc[d] # "new")
  /\ \A x \in Recoveries : WF_vars(RecoveryStep(x) /\ pc[x] # "new")
  /\ \A p \in Processes : WF_vars(Refuse(p))
  /\ WF_vars(\E p \in Deadlocked : Abort(p))

FairSpec == Spec /\ Fairness

----------------------------------------------------------------------------
(***************************************************************************)
(* Properties                                                              *)
(***************************************************************************)

\* Every variable keeps its type; in particular no balance becomes negative.
TypeOK ==
  /\ pc \in [Processes -> {"new", "lock", "count", "insert", "code", "upsert",
                           "refund", "commit", "over"}]
  /\ billing \in [Requests -> Billings]
  /\ credits \in [Wallets -> Nat]
  /\ remaining \in [Wallets \X Services -> Nat]
  /\ maxConcurrent \in [Wallets \X Services -> Nat]
  /\ price \in [Services -> Nat \ {0}]
  /\ code \in [Codes -> {"none", "active", "deleted"}]
  /\ redeemedBy \in [Codes -> Wallets \cup {None}]
  /\ task \in [Requests -> TaskStates]
  /\ \A x \in Recoveries : recovery[x].tasks \subseteq Requests
                            /\ Range(recovery[x].rows) \subseteq Rows
  /\ lock \in [Rows -> Processes \cup {None}]
  /\ share \in [Rows -> SUBSET Processes]

\* Tasks whose debit is not given back
Billed(w, usesCredits) ==
  {r \in Requests : /\ WalletOf[r] = w
                    /\ billing[r].usesCredits = usesCredits
                    /\ task[r] \in {"active", "abandoned", "done", "failed"}}

\* Whatever requests, refunds and redemptions interleave, an entitlement holds
\* what the codes marked as redeemed by its wallet brought, less one per task it
\* paid that was not refunded, by the worker or by a recovery: no code is
\* redeemed twice, no update of the row is lost, no refund is made in part.
EntitlementsExplained ==
  \A w \in Wallets, s \in Services :
    remaining[<<w, s>>]
      + Total({r \in Billed(w, FALSE) : billing[r].service = s}, Prices)
    = Total({c \in Codes : redeemedBy[c] = w /\ CodeService[c] = s}, CodeCredits)

\* And the wallet's credits are what they were, less what its tasks cost when
\* they were asked for, however the price was edited until the refund.
CreditsExplained ==
  \A w \in Wallets :
    credits[w] + Total(Billed(w, TRUE), Prices) = Credits[w]

\* The rows that hold a balance
Accounts == {WalletRow(w) : w \in Wallets}
            \cup {EntitlementRow(w, s) : w \in Wallets, s \in Services}
OfAccounts(ofWallet, ofEntitlement) ==
  [a \in Accounts |-> IF a[1] = "wallet" THEN ofWallet[a[2]] ELSE ofEntitlement[<<a[2], a[3]>>]]

\* What the ledger sees of a task, of its row, and of a code
DebitOf(r) ==
  CASE task[r] = "none" -> "none" [] task[r] = "refunded" -> "returned" [] OTHER -> "taken"
BillOf(r) ==
  IF task[r] = "none" THEN [account |-> None, units |-> 0]
                      ELSE [account |-> AccountRow(r), units |-> Price(r)]
DepositOf(c) ==
  IF redeemedBy[c] # None THEN "made"
  ELSE CASE code[c] = "active" -> "offered" [] code[c] = "deleted" -> "withdrawn"
         [] OTHER -> "none"

Ledger == INSTANCE WalletLedger WITH
  Grant <- OfAccounts(Credits, [e \in Wallets \X Services |-> 0]),
  Debits <- Requests,
  Deposits <- Codes,
  Worth <- CodeCredits,
  Targets <- [c \in Codes |-> {EntitlementRow(w, CodeService[c]) : w \in Wallets}],
  NoAccount <- None,
  balance <- OfAccounts(credits, remaining),
  debit <- [r \in Requests |-> DebitOf(r)],
  bill <- [r \in Requests |-> BillOf(r)],
  deposit <- [c \in Codes |-> DepositOf(c)]

\* The statements of requests, redemptions and recoveries interleave, on copies
\* read before the locks, and yet each transaction changes the balances as it
\* would alone: it takes effect in one step, on what the rows hold then. A code is
\* redeemed at most once, and not after it was deleted.
ImplementsWalletLedger == Ledger!LedgerSpec

\* The larger of the two limits that apply to a wallet's tasks of a service
LargestLimit(w, s) ==
  IF maxConcurrent[<<w, s>>] > DefaultMax THEN maxConcurrent[<<w, s>>] ELSE DefaultMax

\* docs/deployment.md: the active tasks of a wallet and service stay within the
\* limit, whichever row pays for them.
ServiceConcurrency ==
  \A w \in Wallets, s \in Services :
    Cardinality(ActiveTasks(w, s)) <= LargestLimit(w, s)

\* Requests that pay from different rows do not lock each other out, and yet no
\* more than one task is ever admitted beyond the limit.
OvershootByOne ==
  \A w \in Wallets, s \in Services :
    Cardinality(ActiveTasks(w, s)) <= LargestLimit(w, s) + 1

\* Whatever the rows and however many processes wait, no set of them gets stuck that
\* holds no redemption: requests lock each other and recoveries out without ever
\* closing a cycle, because only a redemption locks a wallet and then wants more.
DeadlockNeedsRedemption ==
  \A S \in SUBSET Processes : Stuck(S) => S \cap Redemptions # {}

\* Requests, redemptions and recoveries lock rows in different orders and may wait
\* for each other, but every transaction that was begun ends, without any timeout.
EveryTransactionEnds ==
  \A p \in Processes : InTransaction(p) ~> pc[p] = "over"
=============================================================================
