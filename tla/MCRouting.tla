------------------------------ MODULE MCRouting ------------------------------
(* Two drivers and a planner over two harnesses and the configurations     *)
(* that tell the planner's routes apart, among them one `load` refuses.    *)
EXTENDS Routing, TLC

CONSTANTS h1, h2, d1, d2, p1

MCHarnesses == {h1, h2}
MCDrivers == {d1, d2}
MCPlanners == {p1}
MCTierOf == d1 :> "Tier1" @@ d2 :> "Tier2"
MCRetryAfter == {2}

Harness(tier) == [model_tier |-> tier, version_args |-> TRUE,
                  prompt_via |-> TRUE, invoke_args_template |-> TRUE]
File(chosen, tier1, harness, tier) ==
  [selected_harnesses |-> chosen,
   harnesses |-> h1 :> Harness(tier1) @@ h2 :> Harness("TopTier"),
   planner |-> [harness |-> harness, tier |-> tier],
   probe_timeout_seconds |-> 15]

Plain == File(<<h1, h2>>, "MidTier", None, None)
MCConfigs ==
  {Plain, File(<<h1, h2>>, "TopTier", h2, None), File(<<h1>>, "MidTier", h2, None)}
MCCrews ==
  {[who |-> {d1, d2}, loads |-> {Plain}], [who |-> {d1, p1}, loads |-> MCConfigs]}
=============================================================================
