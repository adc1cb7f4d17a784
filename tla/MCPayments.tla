----------------------------- MODULE MCPayments -----------------------------
(***************************************************************************)
(* Small instances of Payments: every order of one wallet, worth 1, 2, ... *)
(* credits so that no two sums of orders are equal by accident.            *)
(***************************************************************************)
EXTENDS Payments

CONSTANTS w1, o1, o2

MCWalletOf == [o \in Orders |-> w1]
MCCredits == [o \in Orders |-> IF o = o1 THEN 1 ELSE 2]
=============================================================================
