----------------------------- MODULE MCRouting ------------------------------
(* The policies routing is checked on. *)
EXTENDS Routing

MCProviderOf == [t \in RouteTargets |-> IF t = 3 THEN "remote" ELSE "house"]
MCHostOf == [t \in RouteTargets |-> CASE t = 1 -> "spark" [] t = 2 -> "forge" [] OTHER -> "none"]

Who == {<<"principal", "exact">>, <<"group", "any">>, <<"tenant", "exact">>, <<"tenant", "any">>,
        <<"global", "any">>}
Grant(who, allow) == [scope |-> who[1], model |-> who[2], covers |-> TRUE, allow |-> allow]
Blank == [scope |-> "tenant", model |-> "any", denies |-> <<>>, allows |-> <<>>, preferences |-> <<>>,
          pin |-> 0, fallback |-> {}, priority |-> 0]
By(who, b) == [b EXCEPT !.scope = who[1], !.model = who[2]]
Sel(kind, of) == [kind |-> kind, of |-> of]
Pref(sel, rank, weight) == [sel |-> sel, rank |-> rank, weight |-> weight]
Everywhere == [Blank EXCEPT !.preferences = <<Pref(Sel("any", 0), 1, 0)>>]
FleetGrant(scope, host, model, t, allow) ==
  [scope |-> scope, host |-> host, model |-> model, target |-> t, allow |-> allow]

Fit == [unfit |-> "none", penalty |-> 0, cost |-> 1, local |-> TRUE, residency |-> "resident",
        conversation |-> 0, hinted |-> FALSE, jitter |-> 0]
AllFit == {[t \in RouteTargets |-> Fit]}
\* The worst of what is preferred beside the best of what is not.
Extremes ==
  {[t \in RouteTargets |->
      IF t = 1 THEN [Fit EXCEPT !.penalty = -900000, !.cost = 9, !.local = FALSE, !.residency = "cold_requires_fetch"]
      ELSE [Fit EXCEPT !.conversation = 9000, !.hinted = TRUE, !.jitter = 999]],
   [t \in RouteTargets |-> IF t = 2 THEN [Fit EXCEPT !.unfit = "circuit"] ELSE Fit]}

RouteScene(gs, bs, fs, keys, lives) ==
  [first |-> [grants |-> <<Grant(<<"tenant", "any">>, TRUE)>>,
              bindings |-> <<[id |-> 1] @@ Everywhere>>, fleet_grants |-> <<>>],
   grants |-> gs, bindings |-> bs, fleet_grants |-> fs, keys |-> keys,
   default |-> "allow", inherits |-> TRUE, live |-> lives]

\* Who may use the alias.
Grants == {[RouteScene({Grant(w, a) : w \in Who, a \in BOOLEAN} \cup
                       {[Grant(<<"principal", "any">>, TRUE) EXCEPT !.covers = FALSE],
                        Grant(<<"principal", "other">>, TRUE), Grant(<<"other", "any">>, FALSE)},
                       {}, {}, {Open, [Open EXCEPT !.models = FALSE]}, AllFit)
             EXCEPT !.inherits = i, !.first.grants = <<>>] : i \in BOOLEAN}
\* What the bindings say against each other.
Bindings ==
  {RouteScene({}, {By(w, b) : w \in {<<"principal", "exact">>, <<"tenant", "exact">>, <<"tenant", "any">>},
     b \in {[Blank EXCEPT !.denies = <<Sel("exact", 1)>>], [Blank EXCEPT !.denies = <<Sel("provider", "house")>>],
            [Blank EXCEPT !.allows = <<Sel("exact", 1)>>], [Blank EXCEPT !.allows = <<Sel("any", 0)>>],
            [Blank EXCEPT !.preferences = <<Pref(Sel("exact", 1), 0, -900000)>>],
            [Blank EXCEPT !.preferences = <<Pref(Sel("provider", "house"), 2, 900000)>>, !.priority = 1],
            [Blank EXCEPT !.pin = 1], [Blank EXCEPT !.pin = 3, !.fallback = {1}]}},
     {}, {Open, [Open EXCEPT !.targets = {2, 3}]}, Extremes)}
\* Whose machine it is.
Machines ==
  {[RouteScene({}, {}, {FleetGrant(s, h, m, 1, a) : s \in {"principal", "tenant", "global"},
                                                    h \in {"any", "spark"}, m \in {"target", "exact", "any"},
                                                    a \in BOOLEAN},
               {Open, [Open EXCEPT !.hosts = {"none", "forge"}]}, AllFit) EXCEPT !.default = d] :
     d \in {"allow", "deny"}}

MCRouteScenes == Grants \cup Bindings \cup Machines
=============================================================================
