-------------------------- MODULE MCProviderRouting --------------------------
(***************************************************************************)
(* A small instance of ProviderRouting: one provider of bucket 1k and two  *)
(* of bucket hd. The administrator deletes the better hd provider, and      *)
(* moves it to bucket 1k, which also puts it back into use. The large job  *)
(* has an entitlement that does not cover it, the small one another that   *)
(* does; a third request is refused in the end.                            *)
(***************************************************************************)
EXTENDS ProviderRouting

CONSTANTS normal, high1, high2,    \* the providers
          large, small, refused    \* the jobs: one asks for 4K

MCTier == [j \in Jobs |-> IF j = large THEN "4K" ELSE "1K"]
MCHeld == [j \in Jobs |-> CASE j = large -> {SD} [] j = small -> {HD} [] OTHER -> {}]
Row(bucket, priority) ==
  [bucket |-> bucket, status |-> "active", priority |-> priority]
MCAtFirst == [p \in Providers |->
  IF p = normal THEN Row("1k", 1) ELSE Row("hd", IF p = high1 THEN 1 ELSE 2)]
MCEdits == {[provider |-> high1, row |-> Row("1k", 1)]}
=============================================================================
