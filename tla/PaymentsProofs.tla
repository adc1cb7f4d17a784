--------------------------- MODULE PaymentsProofs ---------------------------
(***************************************************************************)
(* Proofs about Payments, for every set of orders, wallets and concurrent  *)
(* callback handlers, every amount and every bound.                        *)
(***************************************************************************)
EXTENDS Payments, TotalsProofs

\* The callback a handler picked up, with the row as it read it
Copy(m) == [order |-> m.order, code |-> m.code, trade |-> m.trade, fits |-> m.fits,
            seen |-> status[m.order], seenTrade |-> trade[m.order]]

----------------------------------------------------------------------------
(***************************************************************************)
(* Type correctness                                                        *)
(***************************************************************************)

LEMMA EndType ==
  ASSUME TypeOK, NEW h \in Handlers, End(h)
  PROVE  handler' \in [Handlers -> Handlings]
BY DEF TypeOK, End, Idle, Handlings, Codes, Trades, Statuses

LEMMA TradeAfterType ==
  ASSUME TypeOK, NEW h \in Handlers, trade' = TradeAfter(h)
  PROVE  trade' \in [Orders -> Trades]
<1>1. handler[h].trade \in Trades /\ trade \in [Orders -> Trades]
  BY DEF TypeOK, Handlings
<1> QED
  BY <1>1 DEF TradeAfter

LEMMA StepType == TypeOK /\ [Next]_vars => TypeOK'
<1> SUFFICES ASSUME TypeOK, [Next]_vars PROVE TypeOK'
  OBVIOUS
<1>1. ASSUME NEW o \in Orders, OpenTransaction(o) PROVE TypeOK'
  BY <1>1 DEF TypeOK, OpenTransaction
<1>2. ASSUME NEW o \in Orders, InsertOrder(o) PROVE TypeOK'
  BY <1>2 DEF TypeOK, InsertOrder, Statuses
<1>3. ASSUME NEW o \in Orders, LoseOrder(o) PROVE TypeOK'
  BY <1>3 DEF TypeOK, LoseOrder
<1>4. ASSUME NEW o \in Orders, ProviderCloses(o) PROVE TypeOK'
  BY <1>4 DEF TypeOK, ProviderCloses
<1>5. ASSUME NEW h \in Handlers, NEW m \in Callbacks, Begin(h, m) PROVE TypeOK'
  <2>1. Copy(m) \in Handlings
    BY DEF TypeOK, Copy, Callbacks, Handlings
  <2>2. handler' = [handler EXCEPT ![h] = Copy(m)]
    BY <1>5 DEF Begin, Copy
  <2>3. handler' \in [Handlers -> Handlings]
    BY <2>1, <2>2 DEF TypeOK
  <2> QED
    BY <1>5, <2>3 DEF TypeOK, Begin, requestVars
<1>6. ASSUME NEW h \in Handlers, Report(h) PROVE TypeOK'
  <2>1. handler' \in [Handlers -> Handlings]
    BY <1>6, EndType DEF Report
  <2>2. trade' \in [Orders -> Trades]
    BY <1>6, TradeAfterType DEF Report
  <2>3. handler[h].code \in Codes
    BY DEF TypeOK, Handlings
  <2>4. status' \in [Orders -> Statuses]
    BY <1>6, <2>3 DEF TypeOK, Report, Statuses
  <2>5. UNCHANGED <<request, opened, txn, paidAt, wallet, credited>>
    BY <1>6 DEF Report, requestVars
  <2> QED
    BY <2>1, <2>2, <2>4, <2>5 DEF TypeOK
<1>7. ASSUME NEW h \in Handlers, Pay(h) PROVE TypeOK'
  <2>1. handler' \in [Handlers -> Handlings]
    BY <1>7, EndType DEF Pay
  <2>2. trade' \in [Orders -> Trades]
    BY <1>7, TradeAfterType DEF Pay
  <2>3. handler[h].order \in Orders
    BY <1>7 DEF TypeOK, Pay, Handling, Handlings
  <2>4. WalletOf[handler[h].order] \in Wallets /\ Credits[handler[h].order] \in Nat
    BY <2>3, OrderAssumption
  <2>5. wallet' \in [Wallets -> Nat] /\ credited' \in [Orders -> Nat]
    BY <1>7, <2>3, <2>4 DEF TypeOK, Pay
  <2>6. status' \in [Orders -> Statuses] /\ paidAt' \in [Orders -> BOOLEAN]
    BY <1>7, <2>3 DEF TypeOK, Pay, Statuses, Codes
  <2> QED
    BY <1>7, <2>1, <2>2, <2>5, <2>6 DEF TypeOK, Pay, requestVars
<1>8. ASSUME NEW h \in Handlers, Abandon(h) PROVE TypeOK'
  BY <1>8, EndType DEF TypeOK, Abandon, requestVars
<1>9. CASE UNCHANGED vars
  BY <1>9 DEF TypeOK, vars, requestVars
<1> QED
  BY <1>1, <1>2, <1>3, <1>4, <1>5, <1>6, <1>7, <1>8, <1>9 DEF Next

\* Every variable keeps its type, whatever callbacks arrive in whatever order.
THEOREM TypeCorrect == Spec => []TypeOK
<1>1. Init => TypeOK
  BY DEF Init, TypeOK, Trades, Statuses, Idle, Handlings, Codes
<1>2. TypeOK /\ [Next]_vars => TypeOK'
  BY StepType
<1> QED
  BY <1>1, <1>2, PTL DEF Spec

----------------------------------------------------------------------------
(***************************************************************************)
(* What the row lock gives                                                 *)
(***************************************************************************)

\* A handler that is inside its transaction holds the order's row: no other
\* handler is there, the row exists and still is as the handler read it. And a
\* "paid" callback is only ever about a settled transaction.
LockInv ==
  /\ \A g, h \in Handlers :
       Handling(g) /\ handler[g].order = handler[h].order => g = h
  /\ \A h \in Handlers :
       Handling(h) => /\ status[handler[h].order] # "none"
                      /\ handler[h].seen = status[handler[h].order]
  /\ \A h \in Handlers :
       Handling(h) /\ handler[h].code = "paid" => txn[handler[h].order] = "settled"
  /\ \A o \in Orders : request[o] # "over" => status[o] = "none"
  /\ \A o \in Orders : request[o] = "new" => txn[o] = "none"

\* What is known of an order from its row, whatever callbacks come late.
CreditInv ==
  /\ \A o \in Orders : status[o] = "paid" => credited[o] > 0
  /\ PaidAtMeansCredited
  /\ CreditNeedsSettlement

\* A handler that has ended holds nothing; the others hold what they held.
LEMMA AfterEnd ==
  ASSUME TypeOK, NEW h \in Handlers, End(h)
  PROVE  /\ handler'[h].order = NoOrder
         /\ \A g \in Handlers \ {h} : handler'[g] = handler[g]
BY DEF TypeOK, End, Idle

LEMMA StepLock == TypeOK /\ LockInv /\ [Next]_vars => LockInv'
<1> SUFFICES ASSUME TypeOK, LockInv, [Next]_vars PROVE LockInv'
  OBVIOUS
<1>1. ASSUME NEW o \in Orders, OpenTransaction(o) PROVE LockInv'
  <2>1. txn[o] # "settled" /\ request[o] = "new"
    BY <1>1 DEF OpenTransaction, LockInv
  <2> QED
    BY <1>1, <2>1 DEF TypeOK, OpenTransaction, LockInv, Handling
<1>2. ASSUME NEW o \in Orders, InsertOrder(o) PROVE LockInv'
  <2>1. status[o] = "none"
    BY <1>2 DEF InsertOrder, LockInv
  <2>2. \A h \in Handlers : Handling(h) => handler[h].order # o
    BY <2>1 DEF LockInv
  <2> QED
    BY <1>2, <2>2 DEF TypeOK, InsertOrder, LockInv, Handling
<1>3. ASSUME NEW o \in Orders, LoseOrder(o) PROVE LockInv'
  BY <1>3 DEF TypeOK, LoseOrder, LockInv, Handling
<1>4. ASSUME NEW o \in Orders, ProviderCloses(o) PROVE LockInv'
  BY <1>4 DEF TypeOK, ProviderCloses, LockInv, Handling
<1>5. ASSUME NEW h \in Handlers, NEW m \in Callbacks, Begin(h, m) PROVE LockInv'
  <2>1. handler' = [handler EXCEPT ![h] = Copy(m)]
    BY <1>5 DEF Begin, Copy
  <2>2. /\ handler'[h].order = m.order /\ handler'[h].code = m.code
        /\ handler'[h].seen = status[m.order]
        /\ \A g \in Handlers \ {h} : handler'[g] = handler[g]
    BY <2>1 DEF TypeOK, Copy
  <2>3. /\ status[m.order] # "none"
        /\ \A g \in Handlers : handler[g].order # m.order
        /\ m.code = "paid" => txn[m.order] = "settled"
        /\ UNCHANGED <<request, status, txn>>
    BY <1>5 DEF Begin, Reported, requestVars
  <2> QED
    BY <2>2, <2>3 DEF LockInv, Handling
<1>6. ASSUME NEW h \in Handlers, Report(h) PROVE LockInv'
  <2>1. /\ handler'[h].order = NoOrder
        /\ \A g \in Handlers \ {h} : handler'[g] = handler[g]
    BY <1>6, AfterEnd DEF Report
  <2>2. \A g \in Handlers \ {h} : Handling(g) => handler[g].order # handler[h].order
    BY DEF LockInv
  <2>3. /\ \A o \in Orders : o # handler[h].order => status'[o] = status[o]
        /\ status[handler[h].order] # "none"
        /\ UNCHANGED <<request, txn>>
    BY <1>6 DEF TypeOK, Report, LockInv, requestVars
  <2>4. \A g \in Handlers \ {h} : Handling(g) => handler[g].order \in Orders
    BY DEF TypeOK, Handling, Handlings
  <2>5. handler[h].code # "none" /\ handler[h].order \in Orders
    BY <1>6 DEF TypeOK, Handlings, Codes, Report, Handling
  <2>6. \A o \in Orders : request'[o] # "over" => status'[o] = "none"
    BY <2>3, <2>5 DEF LockInv
  <2> QED
    BY <2>1, <2>2, <2>3, <2>4, <2>6 DEF LockInv, Handling
<1>7. ASSUME NEW h \in Handlers, Pay(h) PROVE LockInv'
  <2>1. /\ handler'[h].order = NoOrder
        /\ \A g \in Handlers \ {h} : handler'[g] = handler[g]
    BY <1>7, AfterEnd DEF Pay
  <2>2. \A g \in Handlers \ {h} : Handling(g) => handler[g].order # handler[h].order
    BY DEF LockInv
  <2>3. /\ \A o \in Orders : o # handler[h].order => status'[o] = status[o]
        /\ status[handler[h].order] # "none"
        /\ UNCHANGED <<request, txn>>
    BY <1>7 DEF TypeOK, Pay, LockInv, requestVars
  <2>4. \A g \in Handlers \ {h} : Handling(g) => handler[g].order \in Orders
    BY DEF TypeOK, Handling, Handlings
  <2>5. handler[h].order \in Orders
    BY <1>7 DEF TypeOK, Handlings, Pay, Handling
  <2>6. \A o \in Orders : request'[o] # "over" => status'[o] = "none"
    BY <2>3, <2>5 DEF LockInv
  <2> QED
    BY <2>1, <2>2, <2>3, <2>4, <2>6 DEF LockInv, Handling
<1>8. ASSUME NEW h \in Handlers, Abandon(h) PROVE LockInv'
  <2>1. /\ handler'[h].order = NoOrder
        /\ \A g \in Handlers \ {h} : handler'[g] = handler[g]
    BY <1>8, AfterEnd DEF Abandon
  <2> QED
    BY <1>8, <2>1 DEF Abandon, LockInv, Handling, requestVars
<1>9. CASE UNCHANGED vars
  BY <1>9 DEF vars, requestVars, LockInv, Handling
<1> QED
  BY <1>1, <1>2, <1>3, <1>4, <1>5, <1>6, <1>7, <1>8, <1>9 DEF Next

----------------------------------------------------------------------------
(***************************************************************************)
(* What is credited and why                                                *)
(***************************************************************************)

\* A callback that does not pay changes neither paid_at nor what was credited,
\* and makes no order paid.
LEMMA KeepCredit ==
  ASSUME TypeOK, CreditInv, paidAt' = paidAt, credited' = credited,
         \A o \in Orders : txn[o] = "settled" => txn'[o] = "settled",
         \A o \in Orders : status'[o] = "paid" => status[o] = "paid"
  PROVE  CreditInv'
BY DEF CreditInv, PaidAtMeansCredited, CreditNeedsSettlement

LEMMA StepCredit ==
  TypeOK /\ LockInv /\ CreditInv /\ [Next]_vars => CreditInv'
<1> SUFFICES ASSUME TypeOK, LockInv, CreditInv, [Next]_vars PROVE CreditInv'
  OBVIOUS
<1>1. ASSUME NEW o \in Orders, OpenTransaction(o) PROVE CreditInv'
  <2>1. txn[o] = "none"
    BY <1>1 DEF OpenTransaction, LockInv
  <2>2. \A q \in Orders : txn[q] = "settled" => txn'[q] = "settled"
    BY <1>1, <2>1 DEF TypeOK, OpenTransaction
  <2> QED
    BY <1>1, <2>2, KeepCredit DEF OpenTransaction
<1>2. ASSUME NEW o \in Orders, InsertOrder(o) PROVE CreditInv'
  <2>1. \A q \in Orders : status'[q] = "paid" => status[q] = "paid"
    BY <1>2 DEF TypeOK, InsertOrder
  <2> QED
    BY <1>2, <2>1, KeepCredit DEF InsertOrder
<1>3. ASSUME NEW o \in Orders, LoseOrder(o) PROVE CreditInv'
  BY <1>3, KeepCredit DEF LoseOrder
<1>4. ASSUME NEW o \in Orders, ProviderCloses(o) PROVE CreditInv'
  <2>1. \A q \in Orders : txn[q] = "settled" => txn'[q] = "settled"
    BY <1>4 DEF TypeOK, ProviderCloses
  <2> QED
    BY <1>4, <2>1, KeepCredit DEF ProviderCloses
<1>5. ASSUME NEW h \in Handlers, NEW m \in Callbacks, Begin(h, m) PROVE CreditInv'
  BY <1>5, KeepCredit DEF Begin, requestVars
<1>6. ASSUME NEW h \in Handlers, Report(h) PROVE CreditInv'
  <2>1. \A q \in Orders : status'[q] = "paid" => status[q] = "paid"
    BY <1>6 DEF TypeOK, Report
  <2> QED
    BY <1>6, <2>1, KeepCredit DEF Report, requestVars
<1>7. ASSUME NEW h \in Handlers, Pay(h) PROVE CreditInv'
  <2>1. PICK o \in Orders : o = handler[h].order
    BY <1>7 DEF TypeOK, Pay, Handling, Handlings
  \* the row still is as the handler read it, and the transaction is settled
  <2>2. /\ handler[h].seen = status[o]
        /\ txn[o] = "settled"
    BY <1>7, <2>1 DEF LockInv, Pay, Valid
  <2>3. /\ status' = [status EXCEPT ![o] = "paid"]
        /\ paidAt' = [paidAt EXCEPT ![o] = TRUE]
        /\ credited' = IF status[o] # "paid"
                       THEN [credited EXCEPT ![o] = @ + 1] ELSE credited
        /\ txn' = txn
    BY <1>7, <2>1, <2>2 DEF Pay, requestVars
  \* it was credited before when it was paid, and is credited now when not
  <2>4. credited'[o] > 0
    BY <2>3 DEF TypeOK, CreditInv
  <2>5. \A q \in Orders \ {o} : /\ status'[q] = status[q]
                                /\ paidAt'[q] = paidAt[q]
                                /\ credited'[q] = credited[q]
    BY <2>3 DEF TypeOK
  <2>6. paidAt'[o]
    BY <2>3 DEF TypeOK
  <2>7. PaidAtMeansCredited'
    BY <2>4, <2>5, <2>6 DEF CreditInv, PaidAtMeansCredited
  <2>8. CreditNeedsSettlement'
    BY <2>2, <2>3, <2>5 DEF CreditInv, CreditNeedsSettlement
  <2> QED
    BY <2>4, <2>5, <2>7, <2>8 DEF CreditInv
<1>8. ASSUME NEW h \in Handlers, Abandon(h) PROVE CreditInv'
  BY <1>8, KeepCredit DEF Abandon, requestVars
<1>9. CASE UNCHANGED vars
  BY <1>9, KeepCredit DEF vars, requestVars
<1> QED
  BY <1>1, <1>2, <1>3, <1>4, <1>5, <1>6, <1>7, <1>8, <1>9 DEF Next

LEMMA RowsAsRead == Spec => [](TypeOK /\ LockInv)
<1>1. Init => TypeOK /\ LockInv
  BY DEF Init, TypeOK, Trades, Statuses, Idle, Handlings, Codes, LockInv, Handling
<1>2. TypeOK /\ LockInv /\ [Next]_vars => (TypeOK /\ LockInv)'
  BY StepType, StepLock
<1> QED
  BY <1>1, <1>2, PTL DEF Spec

LEMMA CreditsExplained == Spec => []CreditInv
<1>1. Init => CreditInv
  BY DEF Init, CreditInv, PaidAtMeansCredited, CreditNeedsSettlement
<1> QED
  BY <1>1, RowsAsRead, StepCredit, PTL DEF Spec

\* paid_at is set on exactly the orders whose credits were added, whatever
\* callbacks come late, repeated or interleaved.
THEOREM PaymentTimeIsKept == Spec => []PaidAtMeansCredited
BY CreditsExplained, PTL DEF CreditInv

\* Credits are added only after the provider settled the order's transaction.
THEOREM NothingCreditedUnpaid == Spec => []CreditNeedsSettlement
BY CreditsExplained, PTL DEF CreditInv

----------------------------------------------------------------------------
(***************************************************************************)
(* Credited once: the orders of which nothing is reported after "paid"     *)
(***************************************************************************)

Punctual == Orders \ LateOrders

\* Such an order is paid exactly when it was credited, and then only once; and a
\* handler that will report something else of it did not find it paid.
PaidOnceInv ==
  /\ \A o \in Punctual : credited[o] = IF status[o] = "paid" THEN 1 ELSE 0
  /\ \A h \in Handlers :
       Handling(h) /\ handler[h].order \in Punctual /\ handler[h].code # "paid"
         => status[handler[h].order] # "paid"

LEMMA StepPaidOnce ==
  TypeOK /\ LockInv /\ PaidOnceInv /\ [Next]_vars => PaidOnceInv'
<1> SUFFICES ASSUME TypeOK, LockInv, PaidOnceInv, [Next]_vars PROVE PaidOnceInv'
  OBVIOUS
<1>1. ASSUME NEW o \in Orders, OpenTransaction(o) PROVE PaidOnceInv'
  BY <1>1 DEF OpenTransaction, PaidOnceInv, Handling
<1>2. ASSUME NEW o \in Orders, InsertOrder(o) PROVE PaidOnceInv'
  <2>1. status[o] = "none" /\ status' = [status EXCEPT ![o] = "created"]
    BY <1>2 DEF InsertOrder, LockInv
  <2>2. \A q \in Orders : status'[q] = "paid" <=> status[q] = "paid"
    BY <2>1 DEF TypeOK
  <2>3. \A h \in Handlers : Handling(h) => handler[h].order \in Orders
    BY DEF TypeOK, Handling, Handlings
  <2> QED
    BY <1>2, <2>2, <2>3 DEF InsertOrder, PaidOnceInv, Punctual, Handling
<1>3. ASSUME NEW o \in Orders, LoseOrder(o) PROVE PaidOnceInv'
  BY <1>3 DEF LoseOrder, PaidOnceInv, Handling
<1>4. ASSUME NEW o \in Orders, ProviderCloses(o) PROVE PaidOnceInv'
  BY <1>4 DEF ProviderCloses, PaidOnceInv, Handling
<1>5. ASSUME NEW h \in Handlers, NEW m \in Callbacks, Begin(h, m) PROVE PaidOnceInv'
  <2>1. handler' = [handler EXCEPT ![h] = Copy(m)]
    BY <1>5 DEF Begin, Copy
  <2>2. /\ handler'[h].order = m.order /\ handler'[h].code = m.code
        /\ \A g \in Handlers \ {h} : handler'[g] = handler[g]
    BY <2>1 DEF TypeOK, Copy
  <2>3. /\ m.order \in Punctual /\ m.code # "paid" => status[m.order] # "paid"
        /\ UNCHANGED <<status, credited>>
    BY <1>5 DEF Begin, Punctual
  <2> QED
    BY <2>2, <2>3 DEF PaidOnceInv, Handling
<1>6. ASSUME NEW h \in Handlers, Report(h) PROVE PaidOnceInv'
  <2>1. PICK o \in Orders : o = handler[h].order
    BY <1>6 DEF TypeOK, Report, Handling, Handlings
  <2>2. /\ handler'[h].order = NoOrder
        /\ \A g \in Handlers \ {h} : handler'[g] = handler[g]
    BY <1>6, AfterEnd DEF Report
  <2>3. /\ status' = [status EXCEPT ![o] = handler[h].code]
        /\ handler[h].code # "paid" /\ (o \in Punctual => status[o] # "paid")
        /\ credited' = credited
    BY <1>6, <2>1 DEF Report, PaidOnceInv
  <2>4. \A q \in Punctual : status'[q] = "paid" <=> status[q] = "paid"
    BY <2>3 DEF TypeOK, Punctual
  <2>5. \A g \in Handlers : Handling(g) => handler[g].order \in Orders
    BY DEF TypeOK, Handling, Handlings
  <2> QED
    BY <2>2, <2>3, <2>4, <2>5 DEF PaidOnceInv, Punctual, Handling
<1>7. ASSUME NEW h \in Handlers, Pay(h) PROVE PaidOnceInv'
  <2>1. PICK o \in Orders : o = handler[h].order
    BY <1>7 DEF TypeOK, Pay, Handling, Handlings
  <2>2. /\ handler'[h].order = NoOrder
        /\ \A g \in Handlers \ {h} : handler'[g] = handler[g]
    BY <1>7, AfterEnd DEF Pay
  <2>3. /\ status' = [status EXCEPT ![o] = "paid"]
        /\ credited' = IF status[o] # "paid"
                       THEN [credited EXCEPT ![o] = @ + 1] ELSE credited
    BY <1>7, <2>1 DEF Pay, LockInv
  <2>4. \A q \in Punctual : credited'[q] = IF status'[q] = "paid" THEN 1 ELSE 0
    BY <2>3 DEF TypeOK, PaidOnceInv, Punctual
  \* no other handler is at work on the order that just became paid
  <2>5. \A g \in Handlers \ {h} :
          Handling(g) => handler[g].order \in Orders \ {o}
    BY <1>7, <2>1 DEF LockInv, TypeOK, Handling, Handlings
  <2>6. \A q \in Orders \ {o} : status'[q] = status[q]
    BY <2>3 DEF TypeOK
  <2> QED
    BY <2>2, <2>4, <2>5, <2>6 DEF PaidOnceInv, Punctual, Handling
<1>8. ASSUME NEW h \in Handlers, Abandon(h) PROVE PaidOnceInv'
  <2>1. /\ handler'[h].order = NoOrder
        /\ \A g \in Handlers \ {h} : handler'[g] = handler[g]
    BY <1>8, AfterEnd DEF Abandon
  <2> QED
    BY <1>8, <2>1 DEF Abandon, PaidOnceInv, Handling
<1>9. CASE UNCHANGED vars
  BY <1>9 DEF vars, PaidOnceInv, Handling
<1> QED
  BY <1>1, <1>2, <1>3, <1>4, <1>5, <1>6, <1>7, <1>8, <1>9 DEF Next

\* Repeated and concurrent callbacks of an order of which no other callback
\* follows a "paid" one add its credits at most once, whatever happens to others.
THEOREM PunctualOrdersCreditedOnce == Spec => []PunctualCreditedOnce
<1>1. Init => PaidOnceInv
  BY DEF Init, PaidOnceInv, Punctual, Handling, Idle
<1>2. TypeOK /\ LockInv /\ PaidOnceInv /\ [Next]_vars => PaidOnceInv'
  BY StepPaidOnce
<1>3. PaidOnceInv => PunctualCreditedOnce
  BY DEF PaidOnceInv, Punctual, PunctualCreditedOnce
<1> QED
  BY <1>1, <1>2, <1>3, RowsAsRead, PTL DEF Spec

----------------------------------------------------------------------------
(***************************************************************************)
(* The trade id of an order                                                *)
(***************************************************************************)

Domestic == Orders \ ForeignOrders

\* What a handler will write to such an order is its own trade id or none.
TradeInv ==
  /\ TradeIsKept
  /\ \A h \in Handlers :
       Handling(h) /\ handler[h].order \in Domestic
         => handler[h].trade \in {opened[handler[h].order], NoTrade}

LEMMA StepTrade == TypeOK /\ LockInv /\ TradeInv /\ [Next]_vars => TradeInv'
<1> SUFFICES ASSUME TypeOK, LockInv, TradeInv, [Next]_vars PROVE TradeInv'
  OBVIOUS
<1> USE DEF TradeInv, TradeIsKept, Domestic
\* the provider answers before there is a row, and so before there is a handler
<1>1. ASSUME NEW o \in Orders, OpenTransaction(o) PROVE TradeInv'
  <2>1. status[o] = "none" /\ \A h \in Handlers : Handling(h) => handler[h].order # o
    BY <1>1 DEF OpenTransaction, LockInv
  <2>2. \A q \in Orders : q # o => opened'[q] = opened[q]
    BY <1>1 DEF TypeOK, OpenTransaction
  <2> QED
    BY <1>1, <2>1, <2>2 DEF OpenTransaction, Handling
<1>2. ASSUME NEW o \in Orders, InsertOrder(o) PROVE TradeInv'
  BY <1>2 DEF TypeOK, InsertOrder, Handling
<1>3. ASSUME NEW h \in Handlers, NEW m \in Callbacks, Begin(h, m) PROVE TradeInv'
  <2>1. handler' = [handler EXCEPT ![h] = Copy(m)]
    BY <1>3 DEF Begin, Copy
  <2>2. /\ handler'[h].order = m.order /\ handler'[h].trade = m.trade
        /\ \A g \in Handlers \ {h} : handler'[g] = handler[g]
    BY <2>1 DEF TypeOK, Copy
  <2>3. /\ m.order \in Domestic => m.trade \in {opened[m.order], NoTrade}
        /\ UNCHANGED <<opened, status, trade>>
    BY <1>3 DEF Begin, Reported, requestVars
  <2> QED
    BY <2>2, <2>3 DEF Handling
<1>4. ASSUME NEW h \in Handlers, Report(h) \/ Pay(h) PROVE TradeInv'
  <2>1. PICK o \in Orders : o = handler[h].order
    BY <1>4 DEF TypeOK, Report, Pay, Handling, Handlings
  <2>2. /\ handler'[h].order = NoOrder
        /\ \A g \in Handlers \ {h} : handler'[g] = handler[g]
    BY <1>4, AfterEnd DEF Report, Pay
  <2>3. /\ trade' = [trade EXCEPT ![o] = IF handler[h].trade = NoTrade THEN @
                                         ELSE handler[h].trade]
        /\ UNCHANGED opened
        /\ status[o] # "none"
    BY <1>4, <2>1 DEF Report, Pay, TradeAfter, requestVars, LockInv
  <2>4. \A q \in Orders : status'[q] # "none" => status[q] # "none"
    BY <1>4, <2>1, <2>3 DEF TypeOK, Report, Pay
  <2>5. o \in Domestic => trade[o] = opened[o] /\ handler[h].trade \in {opened[o], NoTrade}
    BY <1>4, <2>1, <2>3 DEF Report, Pay
  <2>6. \A q \in Domestic : trade'[q] = trade[q]
    BY <2>3, <2>5 DEF TypeOK
  <2> QED
    BY <2>2, <2>3, <2>4, <2>6 DEF Handling
<1>5. ASSUME NEW h \in Handlers, Abandon(h) PROVE TradeInv'
  <2>1. /\ handler'[h].order = NoOrder
        /\ \A g \in Handlers \ {h} : handler'[g] = handler[g]
    BY <1>5, AfterEnd DEF Abandon
  <2> QED
    BY <1>5, <2>1 DEF Abandon, Handling, requestVars
<1>6. CASE UNCHANGED <<handler, opened, status, trade>>
  BY <1>6 DEF Handling
<1> QED
  BY <1>1, <1>2, <1>3, <1>4, <1>5, <1>6 DEF Next, vars, requestVars, LoseOrder,
     ProviderCloses

\* An order keeps the trade id its transaction was opened with, so that the genuine
\* "paid" callback is accepted, unless a callback named another one.
THEOREM TradeIdsAreKept == Spec => []TradeIsKept
<1>1. Init => TradeInv
  BY DEF Init, TradeInv, TradeIsKept, Handling, Idle
<1>2. TradeInv => TradeIsKept
  BY DEF TradeInv
<1> QED
  BY <1>1, <1>2, StepTrade, RowsAsRead, PTL DEF Spec

----------------------------------------------------------------------------
(***************************************************************************)
(* What a wallet has                                                       *)
(***************************************************************************)

OrdersOf(w) == {o \in Orders : WalletOf[o] = w}

Brought == [o \in Orders |-> Credits[o] * credited[o]]

\* A wallet has what its orders brought it, each time they were credited.
WalletInv == \A w \in Wallets : wallet[w] = Total(OrdersOf(w), Brought)

LEMMA BroughtType ==
  ASSUME TypeOK, NEW o \in Orders
  PROVE  Brought[o] \in Nat
<1>1. Credits[o] \in Nat /\ credited[o] \in Nat
  BY OrderAssumption DEF TypeOK
<1> QED
  BY <1>1 DEF Brought

LEMMA OnceMore ==
  ASSUME NEW c \in Nat, NEW n \in Nat
  PROVE  c * (n + 1) = c * n + c
OBVIOUS

LEMMA StepWallet ==
  TypeOK /\ WalletInv /\ [Next]_vars => WalletInv'
<1> SUFFICES ASSUME TypeOK, WalletInv, [Next]_vars PROVE WalletInv'
  OBVIOUS
<1>1. CASE UNCHANGED <<wallet, credited>>
  BY <1>1 DEF WalletInv, Brought
<1>2. ASSUME NEW h \in Handlers, Pay(h), ~UNCHANGED <<wallet, credited>>
      PROVE  WalletInv'
  <2>1. PICK o \in Orders : o = handler[h].order
    BY <1>2 DEF TypeOK, Pay, Handling, Handlings
  <2>2. /\ wallet' = [wallet EXCEPT ![WalletOf[o]] = @ + Credits[o]]
        /\ credited' = [credited EXCEPT ![o] = @ + 1]
    BY <1>2, <2>1 DEF Pay
  <2>3. /\ Brought'[o] = Brought[o] + Credits[o]
        /\ \A q \in Orders \ {o} : Brought'[q] = Brought[q]
    <3>1. /\ credited'[o] = credited[o] + 1
          /\ \A q \in Orders \ {o} : credited'[q] = credited[q]
      BY <2>2 DEF TypeOK
    <3>2. Credits[o] * (credited[o] + 1) = Credits[o] * credited[o] + Credits[o]
      BY OnceMore, OrderAssumption DEF TypeOK
    <3> QED
      BY <3>1, <3>2 DEF Brought
  <2>4. ASSUME NEW w \in Wallets PROVE wallet'[w] = Total(OrdersOf(w), Brought')
    <3>1. wallet[w] = Total(OrdersOf(w), Brought)
      BY DEF WalletInv
    <3>2. CASE w = WalletOf[o]
      <4>1. o \in OrdersOf(w) /\ IsFiniteSet(OrdersOf(w))
        BY <3>2, FS_Subset, OrderAssumption DEF OrdersOf
      <4>2. \A q \in OrdersOf(w) : Brought[q] \in Nat
        BY BroughtType DEF OrdersOf
      <4>3. Credits[o] \in Nat
        BY OrderAssumption
      <4>4. \A q \in OrdersOf(w) \ {o} : Brought'[q] = Brought[q]
        BY <2>3 DEF OrdersOf
      <4>5. Total(OrdersOf(w), Brought') = Total(OrdersOf(w), Brought) + Credits[o]
        BY <2>3, <4>1, <4>2, <4>3, <4>4, TotalGrows
      <4>6. wallet'[w] = wallet[w] + Credits[o]
        BY <2>2, <3>2 DEF TypeOK
      <4> QED
        BY <3>1, <4>5, <4>6
    <3>3. CASE w # WalletOf[o]
      <4>1. \A q \in OrdersOf(w) : Brought'[q] = Brought[q]
        BY <2>3, <3>3 DEF OrdersOf
      <4>2. Total(OrdersOf(w), Brought') = Total(OrdersOf(w), Brought)
        BY <4>1, TotalSame
      <4>3. wallet'[w] = wallet[w]
        BY <2>2, <3>3 DEF TypeOK
      <4> QED
        BY <3>1, <4>2, <4>3
    <3> QED
      BY <3>2, <3>3
  <2> QED
    BY <2>4 DEF WalletInv, OrdersOf
<1> QED
  BY <1>1, <1>2 DEF Next, vars, OpenTransaction, InsertOrder, LoseOrder,
     ProviderCloses, Begin, Report, Abandon

\* Nothing a wallet earned is lost or counted twice: it has the credits of its
\* orders that are marked paid, and of a late order each time it was credited.
THEOREM WalletsMatchOrders == Spec => []WalletMatchesOrders
<1>1. Init => WalletInv
  <2> SUFFICES ASSUME Init, NEW w \in Wallets
               PROVE  wallet[w] = Total(OrdersOf(w), Brought)
    BY DEF WalletInv
  <2>1. \A o \in Orders : Brought[o] = 0
    <3>1. \A o \in Orders : Credits[o] * 0 = 0
      BY OrderAssumption
    <3> QED
      BY <3>1 DEF Init, Brought
  <2>2. UnitsOf(OrdersOf(w), Brought) = {}
    BY <2>1 DEF UnitsOf, OrdersOf
  <2> QED
    BY <2>2, FS_EmptySet DEF Init, Total
<1>2. TypeOK /\ WalletInv /\ [Next]_vars => WalletInv'
  BY StepWallet
<1>3. PaidOnceInv /\ WalletInv => WalletMatchesOrders
  <2> SUFFICES ASSUME PaidOnceInv, WalletInv, NEW w \in Wallets
               PROVE  wallet[w] = Total(OrdersOf(w), Earned)
    BY DEF WalletMatchesOrders, OrdersOf
  <2>1. \A o \in OrdersOf(w) : Brought[o] = Earned[o]
    BY DEF PaidOnceInv, Punctual, OrdersOf, Brought, Earned
  <2>2. Total(OrdersOf(w), Brought) = Total(OrdersOf(w), Earned)
    BY <2>1, TotalSame
  <2> QED
    BY <2>2 DEF WalletInv
<1>4. Init => PaidOnceInv
  BY DEF Init, PaidOnceInv, Punctual, Handling, Idle
<1>5. TypeOK /\ LockInv /\ PaidOnceInv /\ [Next]_vars => PaidOnceInv'
  BY StepPaidOnce
<1> QED
  BY <1>1, <1>2, <1>3, <1>4, <1>5, RowsAsRead, PTL DEF Spec

----------------------------------------------------------------------------
(***************************************************************************)
(* Payments implements WalletLedger                                        *)
(***************************************************************************)

\* A handler in its transaction can still credit its order: no other one can.
BoundInv ==
  \A h \in Handlers : Handling(h) => credited[handler[h].order] < MaxCredited

LEMMA StepBound ==
  TypeOK /\ LockInv /\ BoundInv /\ [Next]_vars => BoundInv'
<1> SUFFICES ASSUME TypeOK, LockInv, BoundInv, [Next]_vars PROVE BoundInv'
  OBVIOUS
<1>1. CASE UNCHANGED <<handler, credited>>
  BY <1>1 DEF BoundInv, Handling
<1>2. ASSUME NEW h \in Handlers, NEW m \in Callbacks, Begin(h, m) PROVE BoundInv'
  <2>1. handler' = [handler EXCEPT ![h] = Copy(m)]
    BY <1>2 DEF Begin, Copy
  <2>2. /\ handler'[h].order = m.order
        /\ \A g \in Handlers \ {h} : handler'[g] = handler[g]
    BY <2>1 DEF TypeOK, Copy
  <2>3. credited[m.order] < MaxCredited /\ credited' = credited
    BY <1>2 DEF Begin
  <2> QED
    BY <2>2, <2>3 DEF BoundInv, Handling
<1>3. ASSUME NEW h \in Handlers, Report(h) \/ Abandon(h) PROVE BoundInv'
  <2>1. /\ handler'[h].order = NoOrder
        /\ \A g \in Handlers \ {h} : handler'[g] = handler[g]
    BY <1>3, AfterEnd DEF Report, Abandon
  <2>2. credited' = credited
    BY <1>3 DEF Report, Abandon
  <2> QED
    BY <2>1, <2>2 DEF BoundInv, Handling
<1>4. ASSUME NEW h \in Handlers, Pay(h) PROVE BoundInv'
  <2>1. /\ handler'[h].order = NoOrder
        /\ \A g \in Handlers \ {h} : handler'[g] = handler[g]
    BY <1>4, AfterEnd DEF Pay
  <2>2. \A g \in Handlers \ {h} : Handling(g) => handler[g].order # handler[h].order
    BY <1>4 DEF LockInv, Pay
  <2>3. \A o \in Orders : o # handler[h].order => credited'[o] = credited[o]
    BY <1>4 DEF TypeOK, Pay
  <2>4. \A g \in Handlers : Handling(g) => handler[g].order \in Orders
    BY DEF TypeOK, Handling, Handlings
  <2> QED
    BY <2>1, <2>2, <2>3, <2>4 DEF BoundInv, Handling
<1> QED
  BY <1>1, <1>2, <1>3, <1>4 DEF Next, vars, OpenTransaction, InsertOrder, LoseOrder,
     ProviderCloses

\* What the ledger sees of the creditings
SeenDeposit == [c \in Creditings |-> DepositOf(c)]

LEMMA CreditingFacts ==
  \A c \in Creditings : /\ c[1] \in Orders /\ c[2] \in Nat /\ c[2] > 0
                        /\ c[2] = 1 \/ c[1] \in LateOrders
BY DEF Creditings

\* A crediting is known by its order and its number.
LEMMA SameCrediting ==
  ASSUME NEW c \in Creditings, NEW d \in Creditings, c[1] = d[1], c[2] = d[2]
  PROVE  c = d
BY DEF Creditings

\* Steps that the ledger does not see
LEMMA QuietStep ==
  ASSUME wallet' = wallet,
         \A c \in Creditings : DepositOf(c)' = DepositOf(c)
  PROVE  UNCHANGED Ledger!ledgerVars
<1>1. SeenDeposit' = SeenDeposit
  BY DEF SeenDeposit
<1> QED
  BY <1>1 DEF Ledger!ledgerVars, SeenDeposit

LEMMA InitLedger == Init => Ledger!LedgerInit
<1> SUFFICES ASSUME Init PROVE Ledger!LedgerInit
  OBVIOUS
<1>1. wallet = [w \in Wallets |-> 0]
  BY DEF Init
<1>2. \A c \in Creditings : DepositOf(c) = "none"
  BY CreditingFacts DEF Init, DepositOf
<1>3. [c \in Creditings |-> DepositOf(c)] = [c \in Creditings |-> "none"]
  BY <1>2
<1>4. [d \in {} |-> NoOrder] = [d \in {} |-> Ledger!NoBill]
  OBVIOUS
<1> QED
  BY <1>1, <1>3, <1>4 DEF Ledger!LedgerInit

\* The provider settles: the order's creditings, none of which was offered, are.
LEMMA SettlementIsOffer ==
  ASSUME TypeOK, CreditInv, NEW o \in Orders, txn[o] = "open",
         txn' = [txn EXCEPT ![o] = "settled"], UNCHANGED <<wallet, credited>>
  PROVE  Ledger!LedgerNext
<1> DEFINE S == {c \in Creditings : c[1] = o}
<1>1. credited[o] = 0
  BY DEF TypeOK, CreditInv, CreditNeedsSettlement
<1>2. \A c \in S : DepositOf(c) = "none"
  BY <1>1, CreditingFacts DEF DepositOf
<1>3. \A c \in Creditings : DepositOf(c)' = IF c \in S THEN "offered" ELSE DepositOf(c)
  BY <1>1, CreditingFacts DEF TypeOK, DepositOf
<1>4. \A c \in S : SeenDeposit[c] = "none"
  BY <1>2 DEF SeenDeposit
<1>5. SeenDeposit' = [c \in Creditings |-> IF c \in S THEN "offered" ELSE SeenDeposit[c]]
  BY <1>3 DEF SeenDeposit
<1>6. Ledger!Offer(S)
  BY <1>4, <1>5 DEF Ledger!Offer, SeenDeposit
<1>7. S \in SUBSET Creditings
  OBVIOUS
<1> QED
  BY <1>6, <1>7 DEF Ledger!LedgerNext

\* A valid "paid" callback that finds its order unpaid makes the next crediting of
\* a settled order on the order's wallet.
LEMMA PayIsDeposit ==
  ASSUME TypeOK, LockInv, CreditInv, PaidOnceInv, BoundInv,
         NEW h \in Handlers, Pay(h), handler[h].seen # "paid"
  PROVE  Ledger!LedgerNext
<1>1. PICK o \in Orders : o = handler[h].order
  BY DEF TypeOK, Pay, Handling, Handlings
<1>2. /\ status[o] # "paid" /\ txn[o] = "settled" /\ credited[o] < MaxCredited
      /\ txn' = txn
      /\ wallet' = [wallet EXCEPT ![WalletOf[o]] = @ + Credits[o]]
      /\ credited' = [credited EXCEPT ![o] = @ + 1]
  BY <1>1 DEF LockInv, BoundInv, Pay, Valid, requestVars
<1>3. credited[o] \in Nat /\ (o \notin LateOrders => credited[o] = 0)
  BY <1>2 DEF TypeOK, PaidOnceInv, Punctual
<1>4. PICK c \in Creditings : c[1] = o /\ c[2] = credited[o] + 1
  <2>1. <<o, credited[o] + 1>> \in Creditings
    BY <1>2, <1>3, BoundAssumption DEF Creditings
  <2> QED
    BY <2>1
<1>5. SeenDeposit[c] = "offered"
  BY <1>2, <1>3, <1>4 DEF SeenDeposit, DepositOf
<1>6. SeenDeposit' = [SeenDeposit EXCEPT ![c] = "made"]
  <2>1. DepositOf(c)' = "made"
    BY <1>2, <1>3, <1>4 DEF TypeOK, DepositOf
  <2>2. ASSUME NEW d \in Creditings, d # c PROVE DepositOf(d)' = DepositOf(d)
    <3>1. CASE d[1] = o
      <4>1. d[2] # credited[o] + 1 /\ d[2] \in Nat
        BY <2>2, <3>1, <1>4, SameCrediting, CreditingFacts
      <4>2. credited[o] + 1 >= d[2] <=> credited[o] >= d[2]
        BY <4>1, <1>3
      <4>3. credited'[o] = credited[o] + 1
        BY <1>2 DEF TypeOK
      <4> QED
        BY <4>2, <4>3, <3>1, <1>2 DEF DepositOf
    <3>2. CASE d[1] # o
      BY <3>2, <1>2, CreditingFacts DEF TypeOK, DepositOf
    <3> QED
      BY <3>1, <3>2
  <2> QED
    BY <2>1, <2>2, <1>4 DEF SeenDeposit
<1>7. wallet' = [wallet EXCEPT ![WalletOf[o]]
                   = @ + [d \in Creditings |-> Credits[d[1]]][c]]
  BY <1>2, <1>4
<1>8. Ledger!Deposit(c, WalletOf[o])
  BY <1>5, <1>6, <1>7 DEF Ledger!Deposit, SeenDeposit
<1>9. WalletOf[o] \in [d \in Creditings |-> {WalletOf[d[1]]}][c]
  BY <1>4
<1> QED
  BY <1>4, <1>8, <1>9 DEF Ledger!LedgerNext

LEMMA StepLedger ==
  TypeOK /\ LockInv /\ CreditInv /\ PaidOnceInv /\ BoundInv /\ [Next]_vars
    => [Ledger!LedgerNext]_Ledger!ledgerVars
<1> SUFFICES ASSUME TypeOK, LockInv, CreditInv, PaidOnceInv, BoundInv, [Next]_vars
             PROVE  Ledger!LedgerNext \/ UNCHANGED Ledger!ledgerVars
  OBVIOUS
<1>1. CASE UNCHANGED <<wallet, credited, txn>>
  BY <1>1, QuietStep DEF DepositOf
<1>2. ASSUME NEW o \in Orders, OpenTransaction(o) PROVE UNCHANGED Ledger!ledgerVars
  <2>1. txn[o] = "none" /\ txn' = [txn EXCEPT ![o] = "open"]
        /\ UNCHANGED <<wallet, credited>>
    BY <1>2 DEF OpenTransaction, LockInv
  <2>2. \A q \in Orders : txn'[q] = "settled" <=> txn[q] = "settled"
    BY <2>1 DEF TypeOK
  <2> QED
    BY <2>1, <2>2, CreditingFacts, QuietStep DEF DepositOf
<1>3. ASSUME NEW o \in Orders, ProviderCloses(o)
      PROVE  Ledger!LedgerNext \/ UNCHANGED Ledger!ledgerVars
  <2>1. PICK outcome \in {"settled", "expired"} :
          /\ txn[o] = "open" /\ txn' = [txn EXCEPT ![o] = outcome]
          /\ UNCHANGED <<wallet, credited>>
    BY <1>3 DEF ProviderCloses
  <2>2. CASE outcome = "settled"
    BY <2>1, <2>2, SettlementIsOffer
  <2>3. CASE outcome = "expired"
    <3>1. \A q \in Orders : txn'[q] = "settled" <=> txn[q] = "settled"
      BY <2>1, <2>3 DEF TypeOK
    <3> QED
      BY <2>1, <3>1, CreditingFacts, QuietStep DEF DepositOf
  <2> QED
    BY <2>2, <2>3
<1>4. ASSUME NEW h \in Handlers, Pay(h)
      PROVE  Ledger!LedgerNext \/ UNCHANGED Ledger!ledgerVars
  <2>1. CASE handler[h].seen # "paid"
    BY <1>4, <2>1, PayIsDeposit
  <2>2. CASE handler[h].seen = "paid"
    BY <1>4, <2>2, <1>1 DEF Pay, requestVars
  <2> QED
    BY <2>1, <2>2
<1> QED
  BY <1>1, <1>2, <1>3, <1>4 DEF Next, vars, requestVars, InsertOrder, LoseOrder,
     Begin, Report, Abandon

\* Recharging implements the serial ledger, for every set of orders, wallets and
\* handlers: each settlement is credited in one step, to its order's wallet, and no
\* more than once unless callbacks come late.
THEOREM RechargeImplementsLedger == Spec => ImplementsWalletLedger
<1>1. Init => PaidOnceInv /\ BoundInv
  BY DEF Init, PaidOnceInv, BoundInv, Punctual, Handling, Idle
<1>2. TypeOK /\ LockInv /\ PaidOnceInv /\ BoundInv /\ [Next]_vars
        => (PaidOnceInv /\ BoundInv)'
  BY StepPaidOnce, StepBound
<1>3. Spec => [](PaidOnceInv /\ BoundInv)
  BY <1>1, <1>2, RowsAsRead, PTL DEF Spec
<1> QED
  BY <1>3, RowsAsRead, CreditsExplained, InitLedger, StepLedger, PTL
  DEF Spec, ImplementsWalletLedger, Ledger!LedgerSpec
=============================================================================
