--------------------------- MODULE MCTaskAdmission ---------------------------
(***************************************************************************)
(* Small instances of TaskAdmission. Requests are of wallet w1. Both       *)
(* wallets try to redeem code c1, an SD code; w1 also redeems code c2. One *)
(* task costs 2 credits of service SD and 3 of HD, and wallet w1 has 4.    *)
(***************************************************************************)
EXTENDS TaskAdmission, TLC

CONSTANTS w1, w2, r1, r2, r3, c1, c2, d1, d2, d3,
          x1,
          Large,           \* the requests that ask for 4K
          SDCredits,       \* what code c1 brings
          SecondService,   \* the service of code c2
          EditedPrices     \* what the price of SD may become

\* the requests are interchangeable where none is large
MCSymmetry == Permutations(Requests)
MCWalletOf == [p \in Requests \cup Redemptions |-> IF p = d2 THEN w2 ELSE w1]
MCTier == [r \in Requests |-> IF r \in Large THEN "4K" ELSE "1K"]
MCCodeOf == [d \in Redemptions |-> IF d = d3 THEN c2 ELSE c1]
MCCodeService == [c \in Codes |-> IF c = c2 THEN SecondService ELSE SD]
MCCodeCredits == [c \in Codes |-> IF c = c2 THEN 1 ELSE SDCredits]
MCCodeMax == [c \in Codes |-> 1]
MCCreditCost == [s \in Services |-> IF s = HD THEN 3 ELSE 2]
MCNewPrices == [s \in Services |-> IF s = SD THEN EditedPrices ELSE {}]
MCCredits == [w \in Wallets |-> IF w = w1 THEN 4 ELSE 0]
=============================================================================
