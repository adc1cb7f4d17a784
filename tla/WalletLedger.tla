----------------------------- MODULE WalletLedger -----------------------------
(***************************************************************************)
(* What the balances of wallets promise to whoever pays into them and out  *)
(* of them, as if one transaction ran at a time: a debit takes what the    *)
(* account holds then, and comes back at most once, whole and to the       *)
(* account it was taken from; a deposit that was offered is made at most   *)
(* once, on one account, and never after it was withdrawn.                 *)
(*                                                                         *)
(* TaskAdmission implements this ledger with row locks: its debits are     *)
(* tasks and its deposits are exchange codes. Payments implements it with  *)
(* the credits of settled transactions as the deposits.                    *)
(***************************************************************************)
EXTENDS Totals

CONSTANTS
  Accounts,
  Grant,      \* what each account holds at first
  Debits,
  Deposits,
  Worth,      \* the units each deposit brings
  Targets,    \* the accounts each deposit may be made on
  NoAccount

VARIABLES
  balance,    \* what each account holds
  debit,      \* what has become of each debit
  bill,       \* the account each was taken from, and the units
  deposit     \* what has become of each deposit

ledgerVars == <<balance, debit, bill, deposit>>

NoBill == [account |-> NoAccount, units |-> 0]

LedgerInit ==
  /\ balance = Grant
  /\ debit = [t \in Debits |-> "none"]
  /\ bill = [t \in Debits |-> NoBill]
  /\ deposit = [d \in Deposits |-> "none"]

Debit(t, a, units) ==
  /\ debit[t] = "none"
  /\ debit' = [debit EXCEPT ![t] = "taken"]
  /\ bill' = [bill EXCEPT ![t] = [account |-> a, units |-> units]]
  /\ balance' = [balance EXCEPT ![a] = @ - units]
  /\ UNCHANGED deposit

\* Several debits may be returned at once
Return(S) ==
  /\ \A t \in S : debit[t] = "taken"
  /\ debit' = [t \in Debits |-> IF t \in S THEN "returned" ELSE debit[t]]
  /\ balance' = [a \in Accounts |->
       balance[a] + Total({t \in S : bill[t].account = a},
                          [t \in Debits |-> bill[t].units])]
  /\ UNCHANGED <<bill, deposit>>

Offer(S) ==
  /\ \A d \in S : deposit[d] = "none"
  /\ deposit' = [d \in Deposits |-> IF d \in S THEN "offered" ELSE deposit[d]]
  /\ UNCHANGED <<balance, debit, bill>>

Withdraw(d) ==
  /\ deposit[d] = "offered"
  /\ deposit' = [deposit EXCEPT ![d] = "withdrawn"]
  /\ UNCHANGED <<balance, debit, bill>>

Deposit(d, a) ==
  /\ deposit[d] = "offered"
  /\ deposit' = [deposit EXCEPT ![d] = "made"]
  /\ balance' = [balance EXCEPT ![a] = @ + Worth[d]]
  /\ UNCHANGED <<debit, bill>>

LedgerNext ==
  \/ \E t \in Debits, a \in Accounts : \E units \in 1 .. balance[a] : Debit(t, a, units)
  \/ \E S \in SUBSET Debits : Return(S)
  \/ \E S \in SUBSET Deposits : Offer(S)
  \/ \E d \in Deposits : Withdraw(d) \/ \E a \in Targets[d] : Deposit(d, a)

LedgerSpec == LedgerInit /\ [][LedgerNext]_ledgerVars
=============================================================================
