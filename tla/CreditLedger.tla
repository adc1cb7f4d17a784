---------------------------- MODULE CreditLedger ----------------------------
(***************************************************************************)
(* What generation promises about units of balance (plan.md, "Reserve,     *)
(* Then Charge"), without workers, processes or providers: a task takes    *)
(* its cost out of one account when it is admitted, and that cost is then  *)
(* either spent, by delivering the image, or returned, once and whole.     *)
(* TaskLifecycle implements this ledger as long as a process starts only   *)
(* when no other one runs.                                                 *)
(***************************************************************************)
EXTENDS Integers, FiniteSets

CONSTANTS Tasks, Accounts, Cost, Grant

VARIABLES
  phase,    \* phase[t]: what has become of the cost of t
  account,  \* the account t was admitted on
  balance   \* what each account holds

ledgerVars == <<phase, account, balance>>

Phases == {"open", "held", "spent", "returned"}

LedgerInit ==
  /\ phase = [t \in Tasks |-> "open"]
  /\ account \in [Tasks -> Accounts]
  /\ balance = Grant

Reserve(t, a) ==
  /\ phase[t] = "open"
  /\ balance[a] >= Cost[a]
  /\ phase' = [phase EXCEPT ![t] = "held"]
  /\ account' = [account EXCEPT ![t] = a]
  /\ balance' = [balance EXCEPT ![a] = @ - Cost[a]]

Spend(t) ==
  /\ phase[t] = "held"
  /\ phase' = [phase EXCEPT ![t] = "spent"]
  /\ UNCHANGED <<account, balance>>

\* Several costs may be returned at once: recovery is one transaction
Return(S) ==
  /\ \A t \in S : phase[t] = "held"
  /\ phase' = [t \in Tasks |-> IF t \in S THEN "returned" ELSE phase[t]]
  /\ balance' = [a \in Accounts |->
       balance[a] + Cost[a] * Cardinality({t \in S : account[t] = a})]
  /\ UNCHANGED account

LedgerNext ==
  \/ \E t \in Tasks, a \in Accounts : Reserve(t, a)
  \/ \E t \in Tasks : Spend(t)
  \/ \E S \in SUBSET Tasks : Return(S)

LedgerSpec == LedgerInit /\ [][LedgerNext]_ledgerVars
=============================================================================
