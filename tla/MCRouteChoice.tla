---------------------------- MODULE MCRouteChoice ----------------------------
(* A small instance of RouteChoice: two providers, one of which a template  *)
(* installs; policies by latency, by cost and of another model.             *)
EXTENDS RouteChoice, TLC

CONSTANTS p1, p2, u1, w1

MCKind == (p1 :> "keyed" @@ p2 :> "open")
MCPriority == (p1 :> 1 @@ p2 :> 2)
MCCost == (p1 :> 2 @@ p2 :> 0)
MCOwners == {u1, w1}
MCAccepted == {0, 1}

Input(scope, strategy, enabled) ==
  [scope |-> scope, strategy |-> strategy, enabled |-> enabled,
   latency |-> 0, cost |-> 0, errors |-> 0]
MCPolicyInputs ==
  {Input("model", "cost", TRUE), Input("global", "latency", TRUE),
   Input("model", "balanced", FALSE)}

MCMeasurements ==
  {(p1 :> NoTraffic @@ p2 :> NoTraffic),
   (p1 :> [latency |-> 1500, errors |-> 500] @@ p2 :> [latency |-> 1000, errors |-> 0])}

=============================================================================
