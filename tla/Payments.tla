------------------------------ MODULE Payments ------------------------------
(***************************************************************************)
(* Recharging a wallet (internal/httpapi/payments.go): a request opens a   *)
(* transaction at the payment provider (EPUSDT) and then inserts an order; *)
(* the provider reports the transaction by signed callbacks, which it may  *)
(* repeat, delay and reorder, and each callback is handled in a database   *)
(* transaction that holds the order's row.                                 *)
(*                                                                         *)
(* The provider is external. Whatever it may have reported once can be     *)
(* handled at any later time, any number of times. A callback whose        *)
(* signature does not verify, or whose order has no row, changes nothing.  *)
(***************************************************************************)
EXTENDS Integers, FiniteSets, Totals

CONSTANTS
  Orders,        \* recharge requests and the orders they create
  Wallets,
  WalletOf,      \* payment_orders.wallet_id
  Credits,       \* payment_orders.credits, copied from the plan
  Handlers,      \* callback requests handled at the same time
  TradeIds,      \* ids the provider gives to transactions
  NoTrade,       \* the empty trade id
  LateOrders,    \* orders whose other callbacks may come after the "paid" one
  ForeignOrders, \* orders whose callbacks may name another trade id
  MaxCredited,   \* bound on how often one order is credited
  NoOrder

ASSUME OrderAssumption ==
  /\ WalletOf \in [Orders -> Wallets]
  /\ Credits \in [Orders -> Nat \ {0}]
  /\ IsFiniteSet(Orders)
ASSUME NullAssumption == NoTrade \notin TradeIds /\ NoOrder \notin Orders
ASSUME SwitchAssumption == 
  /\ LateOrders \subseteq Orders
  /\ ForeignOrders \subseteq Orders
ASSUME BoundAssumption == MaxCredited \in Nat \ {0}

VARIABLES
  request,   \* where handleCreateWalletTopup of each order is
  opened,    \* the trade id the provider returned to it
  txn,       \* the provider's transaction
  status,    \* payment_orders.status, "none" before the row exists
  trade,     \* payment_orders.provider_trade_id
  paidAt,    \* is payment_orders.paid_at set?
  wallet,    \* what recharging has added to wallets.credits
  handler,   \* the callback each handler works on, and the order as it read it
  credited   \* history: how often the order's credits were added

requestVars == <<request, opened, txn>>
vars == <<requestVars, status, trade, paidAt, wallet, handler, credited>>

Trades == TradeIds \cup {NoTrade}

\* epusdtPaymentStatusName of 1, 2 and 3; other numbers are handled as 1 is
Codes == {"pending", "paid", "expired"}
Statuses == {"none", "created"} \cup Codes

\* fits: amount, pid, currency, token and network match order and configuration
Callbacks == [order : Orders, code : Codes, trade : Trades, fits : BOOLEAN]

\* A callback being handled, and status and provider_trade_id as SELECTed
Handlings == [order : Orders \cup {NoOrder}, code : Codes, trade : Trades,
              fits : BOOLEAN, seen : Statuses, seenTrade : Trades]

Idle == [order |-> NoOrder, code |-> "pending", trade |-> NoTrade,
         fits |-> FALSE, seen |-> "none", seenTrade |-> NoTrade]

Init ==
  /\ request = [o \in Orders |-> "new"]
  /\ opened = [o \in Orders |-> NoTrade]
  /\ txn = [o \in Orders |-> "none"]
  /\ status = [o \in Orders |-> "none"]
  /\ trade = [o \in Orders |-> NoTrade]
  /\ paidAt = [o \in Orders |-> FALSE]
  /\ wallet = [w \in Wallets |-> 0]
  /\ handler = [h \in Handlers |-> Idle]
  /\ credited = [o \in Orders |-> 0]

----------------------------------------------------------------------------
(***************************************************************************)
(* Requests and the provider                                               *)
(***************************************************************************)

\* createEPUSDTTransaction: the provider opens the transaction. The request
\* learns the trade id, if there is one, or ends because the answer is lost.
OpenTransaction(o) ==
  /\ request[o] = "new"
  /\ txn' = [txn EXCEPT ![o] = "open"]
  /\ \/ /\ request' = [request EXCEPT ![o] = "opened"]
        /\ \E t \in Trades : opened' = [opened EXCEPT ![o] = t]
     \/ /\ request' = [request EXCEPT ![o] = "over"]
        /\ UNCHANGED opened
  /\ UNCHANGED <<status, trade, paidAt, wallet, handler, credited>>

\* Mutant: the row is inserted with the request's state as its status.
InsertOrderWithRequestState(o) ==
  /\ request[o] = "opened"
  /\ request' = [request EXCEPT ![o] = "over"]
  /\ status' = [status EXCEPT ![o] = request[o]]
  /\ trade' = [trade EXCEPT ![o] = opened[o]]
  /\ UNCHANGED <<opened, txn, paidAt, wallet, handler, credited>>

\* handleCreateWalletTopup after the provider answered: the order is inserted
InsertOrder(o) ==
  /\ request[o] = "opened"
  /\ request' = [request EXCEPT ![o] = "over"]
  /\ status' = [status EXCEPT ![o] = "created"]
  /\ trade' = [trade EXCEPT ![o] = opened[o]]
  /\ UNCHANGED <<opened, txn, paidAt, wallet, handler, credited>>

\* The insert fails, the request times out or the process stops: no row, and
\* the transaction at the provider stays open
LoseOrder(o) ==
  /\ request[o] = "opened"
  /\ request' = [request EXCEPT ![o] = "over"]
  /\ UNCHANGED <<opened, txn, status, trade, paidAt, wallet, handler, credited>>

\* External: the user pays, or does not in time
ProviderCloses(o) ==
  /\ txn[o] = "open"
  /\ \E outcome \in {"settled", "expired"} : txn' = [txn EXCEPT ![o] = outcome]
  /\ UNCHANGED <<request, opened, status, trade, paidAt, wallet, handler, credited>>

\* External: what the provider may have reported by now
Reported(m) ==
  LET o == m.order IN
  /\ m.code = "pending" => txn[o] # "none"
  /\ m.code = "paid" => txn[o] = "settled"
  /\ m.code = "expired" => txn[o] = "expired"
  /\ m.trade \in {opened[o], NoTrade} \/ o \in ForeignOrders

----------------------------------------------------------------------------
(***************************************************************************)
(* handleEPUSDTCallback                                                    *)
(***************************************************************************)

Handling(h) == handler[h].order # NoOrder

\* Mutant: the order is read without FOR UPDATE.
BeginUnlocked(h, m) ==
  /\ ~Handling(h)
  /\ Reported(m)
  /\ status[m.order] # "none"
  /\ m.code # "paid" => m.order \in LateOrders \/ status[m.order] # "paid"
  /\ credited[m.order] < MaxCredited
  /\ handler' = [handler EXCEPT ![h] =
       [order |-> m.order, code |-> m.code, trade |-> m.trade, fits |-> m.fits,
        seen |-> status[m.order], seenTrade |-> trade[m.order]]]
  /\ UNCHANGED <<requestVars, status, trade, paidAt, wallet, credited>>

\* BEGIN and SELECT ... FOR UPDATE: the row exists and no other handler has it.
\* MaxCredited bounds the model.
Begin(h, m) ==
  /\ ~Handling(h)
  /\ Reported(m)
  /\ status[m.order] # "none"
  /\ \A g \in Handlers : handler[g].order # m.order
  /\ m.code # "paid" => m.order \in LateOrders \/ status[m.order] # "paid"
  /\ credited[m.order] < MaxCredited
  /\ handler' = [handler EXCEPT ![h] =
       [order |-> m.order, code |-> m.code, trade |-> m.trade, fits |-> m.fits,
        seen |-> status[m.order], seenTrade |-> trade[m.order]]]
  /\ UNCHANGED <<requestVars, status, trade, paidAt, wallet, credited>>

\* COMMIT or ROLLBACK releases the row
End(h) == handler' = [handler EXCEPT ![h] = Idle]

\* Mutant: provider_trade_id = $1.
TradeAsReported(h) == [trade EXCEPT ![handler[h].order] = handler[h].trade]

\* provider_trade_id = COALESCE(NULLIF($1, ''), provider_trade_id)
TradeAfter(h) ==
  LET c == handler[h] IN
  [trade EXCEPT ![c.order] = IF c.trade = NoTrade THEN @ ELSE c.trade]

\* A callback that is not "paid" overwrites the status, whatever it was
Report(h) ==
  LET o == handler[h].order IN
  /\ Handling(h)
  /\ handler[h].code # "paid"
  /\ status' = [status EXCEPT ![o] = handler[h].code]
  /\ trade' = TradeAfter(h)
  /\ End(h)
  /\ UNCHANGED <<requestVars, paidAt, wallet, credited>>

\* Mutant: the trade id of the callback is not optional.
ValidStrict(h) ==
  /\ handler[h].code = "paid"
  /\ handler[h].fits
  /\ handler[h].trade = handler[h].seenTrade
  /\ handler[h].trade # NoTrade

\* validateEPUSDTPaidCallback
Valid(h) ==
  /\ handler[h].code = "paid"
  /\ handler[h].fits
  /\ \/ handler[h].seenTrade = NoTrade
     \/ handler[h].trade = NoTrade
     \/ handler[h].trade = handler[h].seenTrade

\* Mutant: any valid callback for an order without paid_at counts as paid.
PayWhateverCode(h) ==
  LET o == handler[h].order
      w == WalletOf[o]
  IN
  /\ Handling(h)
  /\ handler[h].fits
  /\ wallet' = [wallet EXCEPT ![w] = @ + Credits[o]]
  /\ credited' = [credited EXCEPT ![o] = @ + 1]
  /\ status' = [status EXCEPT ![o] = "paid"]
  /\ paidAt' = [paidAt EXCEPT ![o] = TRUE]
  /\ trade' = TradeAfter(h)
  /\ End(h)
  /\ UNCHANGED requestVars

\* Mutant: only an order that is still "created" is credited.
PayIfCreated(h) ==
  LET o == handler[h].order
      w == WalletOf[o]
  IN
  /\ Handling(h)
  /\ Valid(h)
  /\ IF handler[h].seen = "created"
     THEN /\ wallet' = [wallet EXCEPT ![w] = @ + Credits[o]]
          /\ credited' = [credited EXCEPT ![o] = @ + 1]
     ELSE UNCHANGED <<wallet, credited>>
  /\ status' = [status EXCEPT ![o] = "paid"]
  /\ paidAt' = [paidAt EXCEPT ![o] = TRUE]
  /\ trade' = TradeAfter(h)
  /\ End(h)
  /\ UNCHANGED requestVars

\* A valid "paid" callback credits the wallet unless the order was already paid
\* when it was read, and marks the order paid
Pay(h) ==
  LET o == handler[h].order
      w == WalletOf[o]
  IN
  /\ Handling(h)
  /\ Valid(h)
  /\ IF handler[h].seen # "paid"
     THEN /\ wallet' = [wallet EXCEPT ![w] = @ + Credits[o]]
          /\ credited' = [credited EXCEPT ![o] = @ + 1]
     ELSE UNCHANGED <<wallet, credited>>
  /\ status' = [status EXCEPT ![o] = "paid"]
  /\ paidAt' = [paidAt EXCEPT ![o] = TRUE]
  /\ trade' = TradeAfter(h)
  /\ End(h)
  /\ UNCHANGED requestVars

\* An invalid "paid" callback is answered 400; any callback may also end with a
\* database error, a timeout or a crash. The transaction is rolled back.
Abandon(h) ==
  /\ Handling(h)
  /\ End(h)
  /\ UNCHANGED <<requestVars, status, trade, paidAt, wallet, credited>>

----------------------------------------------------------------------------
Next ==
  \/ \E o \in Orders :
       OpenTransaction(o) \/ InsertOrder(o) \/ LoseOrder(o) \/ ProviderCloses(o)
  \/ \E h \in Handlers, m \in Callbacks : Begin(h, m)
  \/ \E h \in Handlers : Report(h) \/ Pay(h) \/ Abandon(h)

Spec == Init /\ [][Next]_vars

\* The callback of a settled transaction
PaidCallback(o) == [order |-> o, code |-> "paid", trade |-> opened[o], fits |-> TRUE]

\* The provider repeats the callback of a settled transaction until it is
\* answered "ok" (the code answers 4xx or 5xx whenever it changed nothing); a
\* handler ends; and of infinitely many attempts not every one is rolled back.
Fairness ==
  /\ \A o \in Orders :
       /\ SF_vars(\E h \in Handlers : Begin(h, PaidCallback(o)))
       /\ SF_vars(\E h \in Handlers : handler[h].order = o /\ Pay(h))
  /\ \A h \in Handlers : WF_vars(Report(h) \/ Pay(h) \/ Abandon(h))

FairSpec == Spec /\ Fairness

----------------------------------------------------------------------------
(***************************************************************************)
(* Properties                                                              *)
(***************************************************************************)

\* Every variable keeps its type.
TypeOK ==
  /\ request \in [Orders -> {"new", "opened", "over"}]
  /\ opened \in [Orders -> Trades]
  /\ txn \in [Orders -> {"none", "open", "settled", "expired"}]
  /\ status \in [Orders -> Statuses]
  /\ trade \in [Orders -> Trades]
  /\ paidAt \in [Orders -> BOOLEAN]
  /\ wallet \in [Wallets -> Nat]
  /\ handler \in [Handlers -> Handlings]
  /\ credited \in [Orders -> Nat]

\* However often and in whatever interleaving the callbacks of one order are
\* handled, its credits are added to the wallet at most once.
CreditedOnce == \A o \in Orders : credited[o] <= 1

\* So they are where no other callback comes after the "paid" one.
PunctualCreditedOnce == \A o \in Orders \ LateOrders : credited[o] <= 1

\* What an order has brought its wallet
Earned ==
  [o \in Orders |->
     Credits[o] * (IF o \in LateOrders THEN credited[o]
                   ELSE IF status[o] = "paid" THEN 1 ELSE 0)]

\* A wallet has earned the credits of its orders that are marked paid, whatever
\* interleaved: no paid order was left uncredited, no order that is not paid was
\* credited, no update of the wallet was lost. (A late order, whose status may
\* be overwritten, has brought its credits each time it was credited.)
WalletMatchesOrders ==
  \A w \in Wallets : wallet[w] = Total({o \in Orders : WalletOf[o] = w}, Earned)

\* paid_at is set on exactly the orders that were credited, whatever callbacks
\* come late: the status may be lost, the time of payment may not.
PaidAtMeansCredited == \A o \in Orders : paidAt[o] <=> credited[o] > 0

\* Nothing is credited before the provider has settled the transaction.
CreditNeedsSettlement ==
  \A o \in Orders : credited[o] > 0 => txn[o] = "settled"

\* Unless callbacks name another one, an order keeps the trade id of the transaction
\* that was opened for it, also through callbacks that name none: the genuine
\* "paid" callback is never rejected for its trade id, however late it is handled.
TradeIsKept ==
  \A o \in Orders \ ForeignOrders : status[o] # "none" => trade[o] = opened[o]

\* What a settled transaction may bring: its credits once, or once more each time
\* a late callback has overwritten the status of a paid order
Creditings == {c \in Orders \X (1 .. MaxCredited) : c[2] = 1 \/ c[1] \in LateOrders}

\* What the ledger sees of a crediting
DepositOf(c) ==
  IF credited[c[1]] >= c[2] THEN "made"
  ELSE IF txn[c[1]] = "settled" THEN "offered" ELSE "none"

Ledger == INSTANCE WalletLedger WITH
  Accounts <- Wallets,
  Grant <- [w \in Wallets |-> 0],
  Debits <- {},
  Deposits <- Creditings,
  Worth <- [c \in Creditings |-> Credits[c[1]]],
  Targets <- [c \in Creditings |-> {WalletOf[c[1]]}],
  NoAccount <- NoOrder,
  balance <- wallet,
  debit <- [d \in {} |-> "none"],
  bill <- [d \in {} |-> NoOrder],
  deposit <- [c \in Creditings |-> DepositOf(c)]

\* Whatever repeated and concurrent callbacks the handlers interleave, recharging
\* is a serial ledger: a settlement offers the credits of one order, and they are
\* added in one step, to the order's own wallet, once (but late orders).
ImplementsWalletLedger == Ledger!LedgerSpec

\* The credits of an order whose row exists when its transaction settles are
\* eventually added, whatever other callbacks of the transaction come in between.
SettledIsCredited ==
  \A o \in Orders \ ForeignOrders :
    txn[o] = "settled" /\ status[o] # "none" ~> credited[o] > 0
=============================================================================
