--------------------------- MODULE BillingSelection ---------------------------
(***************************************************************************)
(* Who pays for an image and who may make it: the functions of             *)
(* internal/httpapi/tasks.go that take a request's size tier to a billing  *)
(* selection and to the buckets of providers that may serve it. They read  *)
(* nothing; where the code returns an error they have no result.           *)
(***************************************************************************)
EXTENDS Integers, Sequences

SD == "image-2-sd"
HD == "image-2-hd"
Services == {SD, HD}

\* What normalizeTaskSize makes of a request: "" where it names no known tier and
\* a size that is not the default one
Tiers == {"1K", "2K", "4K", ""}

Buckets == {"1k", "hd"}

\* walletBillingSelection; billing_key follows from the tier
Billings == [service : Services, units : Nat \ {0}, usesCredits : BOOLEAN]

IsHigh(tier) == tier \in {"2K", "4K"}

\* selectWalletServiceForGeneration: the services it looks for, in this order
EntitlementServices(tier) == IF IsHigh(tier) THEN <<HD>> ELSE <<SD, HD>>

\* creditServiceCandidatesForImageGeneration
CreditService(tier) == IF IsHigh(tier) THEN HD ELSE SD

\* The entitlement selectWalletBillingForGeneration takes, the first of those with
\* a balance: none, or one
EntitlementBillings(tier, withBalance) ==
  LET order == EntitlementServices(tier)
      found == {n \in 1 .. Len(order) : order[n] \in withBalance}
  IN {[service |-> order[n], units |-> 1, usesCredits |-> FALSE] :
        n \in {m \in found : \A k \in found : m <= k}}

\* creditBillingForImageGeneration; a price below 1 counts as 1
CreditBillings(tier, price) ==
  LET s == CreditService(tier)
  IN {[service |-> s, units |-> IF price[s] < 1 THEN 1 ELSE price[s],
       usesCredits |-> TRUE]}

\* Mutant: the buckets follow from the service only.
BucketsOfService(service, tier) == IF service = HD THEN <<"1k", "hd">> ELSE <<"1k">>

\* candidateBucketsForService, in the order the providers are tried
CandidateBuckets(service, tier) ==
  IF ~IsHigh(tier) THEN <<"1k", "hd">>
  ELSE IF service = HD THEN <<"hd">> ELSE <<>>
=============================================================================
