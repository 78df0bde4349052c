------------------------------ MODULE Routing -------------------------------
(***************************************************************************)
(* Where a request may go, and in which order (core/policy.rs, decision.rs,*)
(* fleet_access.rs, key_restriction.rs).  The policy is what administrators*)
(* have published, one record after another and written anywhere in the    *)
(* file: grants (may this caller use the alias), bindings (which targets,  *)
(* in which order) and fleet grants (may it be served by that machine).    *)
(* Routing is a function of the policy, of the key the caller has shown    *)
(* and of what is known of the targets at the moment.                      *)
(*                                                                         *)
(* One caller asks for one alias, so that a record's scope and model are   *)
(* told by how they match: "other" is any that does not.  The filters that *)
(* read one fact of the target or of the request (capabilities, limits,    *)
(* state, health) are named by the reason they exclude for; those about    *)
(* earlier attempts are left out, as no caller of route hands any in.      *)
(***************************************************************************)
EXTENDS Integers, Sequences, FiniteSets, SequencesExt, FiniteSetsExt, TLC

CONSTANTS
  RouteTargets,  \* the alias's targets: numbers, in the order of their names
  ProviderOf,    \* each one's provider
  HostOf,        \* and its machine, "none" if the fleet does not manage it
  RouteScenes,   \* see RouteAssumption
  MaxRecords     \* bound: records published after the first

\* A record about who may use the alias, and one about who may use a machine:
\* whom and what it is about, by how that matches, and what it says.
GrantRecord == [scope : STRING, model : STRING, covers : BOOLEAN, allow : BOOLEAN]
FleetRecord == [scope : STRING, host : STRING, model : STRING, target : RouteTargets, allow : BOOLEAN]
\* What is known of a target: the filter it fails, and its score terms.
LiveView == [unfit : STRING, penalty : Int, cost : Nat, local : BOOLEAN, residency : STRING,
             conversation : Nat, hinted : BOOLEAN, jitter : Nat]

\* A scene has the records the policy starts with (first) and those that may
\* follow, the narrowing a key may be given (keys), what may be known of each
\* target (live), the fleet's default and whether the tenant inherits.
ASSUME RouteAssumption ==
  \A c \in RouteScenes :
    /\ c.first.grants \in Seq(GrantRecord) /\ c.grants \subseteq GrantRecord
    /\ c.first.fleet_grants \in Seq(FleetRecord) /\ c.fleet_grants \subseteq FleetRecord
    /\ c.live \subseteq [RouteTargets -> LiveView]

VARIABLES
  rscene,
  grants, bindings, fleet_grants,  \* the snapshot: records in their order in the file
  key,      \* the key's narrowing, see Open
  live      \* per target: the filter it fails ("none"), and its score terms

routeVars == <<rscene, grants, bindings, fleet_grants, key, live>>

(***************************************************************************)
(* Matching                                                                *)
(***************************************************************************)
\* Binding::precedence, AliasGrant::precedence: 0 if it does not apply.
precedence(rec) ==
  LET exact == rec.model = "exact"
  IN  CASE rec.model = "other" -> 0
        [] rec.model # "other" /\ rec.scope = "principal" -> IF exact THEN 1 ELSE 2
        [] rec.model # "other" /\ rec.scope = "group" -> IF exact THEN 3 ELSE 4
        [] rec.model # "other" /\ rec.scope = "tenant" -> IF exact THEN 5 ELSE 6
        [] rec.model # "other" /\ rec.scope = "global" -> 7
        [] OTHER -> 0

\* A global record reaches a tenant that inherits.
Reaches(rec) == precedence(rec) # 0 /\ (rec.scope = "global" => rscene.inherits)

\* TargetSelector: of one target, of a provider's, of any.
SelectorMatches(sel, t) ==
  CASE sel.kind = "exact" -> sel.of = t
    [] sel.kind = "provider" -> sel.of = ProviderOf[t]
    [] sel.kind = "any" -> TRUE
specificity(sel) ==
  CASE sel.kind = "exact" -> 3 [] sel.kind = "provider" -> 2 [] sel.kind = "any" -> 1

\* KeyRestriction: a field that is there is an allowlist.
Open == [models |-> TRUE, targets |-> RouteTargets, hosts |-> Range(HostOf)]
permits_alias(k) == k.models
permits_target(k, t) == t \in k.targets
permits_host(k, host) == host \in k.hosts

(***************************************************************************)
(* The decisions: each is one pass over the records, in the file's order,  *)
(* that keeps the best seen.                                               *)
(***************************************************************************)
None == <<>>

\* One pass over s, the best so far in hand: step(best, s[i]) after step(best, s[i - 1]).
Pass(step(_, _), s) ==
  LET best[i \in 0..Len(s)] ==
        IF i = 0 THEN None ELSE CHOOSE next \in {step(b, s[i]) : b \in {best[i - 1]}} : TRUE
  IN  best[Len(s)]

\* One step of authorizes and of permits: best is None or <<level, allow>>.
Better(best, level, allow) ==
  CASE best = None -> <<level, allow>>
    [] best # None /\ level < best[1] -> <<level, allow>>
    [] best # None /\ level = best[1] -> <<level, best[2] /\ allow>>  \* deny wins a tie
    [] OTHER -> best

authorizes(k) ==
  /\ permits_alias(k)
  /\ \E best \in {Pass(LAMBDA b, g : IF g.covers /\ Reaches(g) THEN Better(b, precedence(g), g.allow) ELSE b,
                      grants)} :
       best # None /\ best[2]

\* FleetGrant::level, lower is stronger: the scope before the specificity.
level(f, t) ==
  LET matches == /\ f.host \in {"any", HostOf[t]}
                 /\ CASE f.model = "target" -> f.target = t [] OTHER -> f.model # "other"
      scope == CASE f.scope = "principal" -> 0 [] f.scope = "group" -> 1
                 [] f.scope = "tenant" -> 2 [] f.scope = "global" -> 3 [] OTHER -> -1
      host == IF f.host = "any" THEN 0 ELSE 4
      model == CASE f.model = "target" -> 3 [] f.model = "exact" -> 2
                 [] f.model = "prefix" -> 1 [] OTHER -> 0
  IN  IF matches /\ scope >= 0 THEN scope * 8 + (7 - (host + model)) ELSE -1

permits(t) ==
  \E best \in {Pass(LAMBDA b, f : IF level(f, t) >= 0 THEN Better(b, level(f, t), f.allow) ELSE b,
                   fleet_grants)} :
    IF best = None THEN rscene.default = "allow" ELSE best[2]

fleet_access_permits(k, t) ==
  HostOf[t] # "none" => permits_host(k, HostOf[t]) /\ permits(t)

\* Mutant: bindings are taken in the order of the file.
Applicable_Unsorted == SelectSeq(bindings, Reaches)

\* merge_bindings: by level, then priority, then name.
Applicable ==
  SortSeq(SelectSeq(bindings, Reaches),
          LAMBDA a, b : \/ precedence(a) < precedence(b)
                        \/ precedence(a) = precedence(b) /\ a.priority > b.priority
                        \/ precedence(a) = precedence(b) /\ a.priority = b.priority /\ a.id < b.id)

merge_bindings ==
  LET Rules(b) == [i \in DOMAIN b.denies |-> [level |-> precedence(b), sel |-> b.denies[i], deny |-> TRUE]]
               \o [i \in DOMAIN b.allows |-> [level |-> precedence(b), sel |-> b.allows[i], deny |-> FALSE]]
      Prefs(b) == [i \in DOMAIN b.preferences |->
                     [level |-> precedence(b), sel |-> b.preferences[i].sel, rank |-> b.preferences[i].rank,
                      weight |-> b.preferences[i].weight, priority |-> b.priority, id |-> b.id]]
      Pins(bs) == SelectSeq(bs, LAMBDA b : b.pin # 0) \o <<[pin |-> 0, fallback |-> {}]>>
      Merge(bs) == [rules |-> Pass(LAMBDA r, b : r \o Rules(b), bs),
                    preferences |-> Pass(LAMBDA p, b : p \o Prefs(b), bs),
                    pin |-> Head(Pins(bs)).pin, fallback |-> Head(Pins(bs)).fallback]
  IN  CHOOSE m \in {Merge(bs) : bs \in {Applicable}} : TRUE

\* The strongest level's most specific rule, deny first.
is_denied(merged, t) ==
  LET step(best, rule) ==
        LET s == specificity(rule.sel)
            wins == best = None \/ rule.level < best[1] \/ (rule.level = best[1] /\ s > best[2])
        IN  CASE ~SelectorMatches(rule.sel, t) -> best
              [] SelectorMatches(rule.sel, t) /\ wins -> <<rule.level, s, rule.deny>>
              [] SelectorMatches(rule.sel, t) /\ ~wins /\ rule.level = best[1] /\ s = best[2] ->
                   <<rule.level, s, best[3] \/ rule.deny>>
              [] OTHER -> best
  IN  \E last \in {Pass(step, merged.rules)} : last # None /\ last[3]

\* None or <<the winning preference>>.
preference_for(merged, t) ==
  LET better(p, q) ==
        \/ p.level < q.level
        \/ p.level = q.level /\ specificity(p.sel) > specificity(q.sel)
        \/ /\ p.level = q.level /\ specificity(p.sel) = specificity(q.sel)
           /\ p.priority > q.priority \/ (p.priority = q.priority /\ p.id < q.id)
      step(best, p) ==
        IF SelectorMatches(p.sel, t) /\ (best = None \/ better(p, best[1])) THEN <<p>> ELSE best
  IN  Pass(step, merged.preferences)

(***************************************************************************)
(* Scores (decision.rs), in the units of the code                          *)
(***************************************************************************)
RANK_UNIT == 1000000
MAX_RANK == 64
WARMTH_LADDER_STEP == 8000
HINT_SLICE == 6000
CONVERSATION_SLICE == 4000
Clamp(v, low, high) == Max({low, Min({v, high})})

rank_term(rank) == (MAX_RANK - Min({rank, MAX_RANK})) * RANK_UNIT

\* ResidencyClass::warmth_bonus: the coldest, and what cannot be started, last.
warmth_bonus(residency) ==
  WARMTH_LADDER_STEP *
    (CASE residency \in {"unmanaged", "resident"} -> 5 [] residency = "resident_busy" -> 4
       [] residency = "activating" -> 3 [] residency = "cold_fits" -> 2
       [] residency = "cold_requires_eviction" -> 1 [] OTHER -> 0)

\* ScoreTerms::clamped and total.  The three penalties of the live state are
\* one number here, three times the range of each.
score(t, rank, weight) ==
  LET l == live[t]
      affinity == Clamp(l.conversation, 0, CONVERSATION_SLICE) + warmth_bonus(l.residency)
                  + (IF l.hinted THEN HINT_SLICE ELSE 0)
  IN  rank_term(rank) + Clamp(weight, -100000, 100000) + Clamp(l.penalty, -150000, 0)
      + Clamp(-(l.cost * 5000), -50000, 0) + (IF l.local THEN 25000 ELSE 0)
      + Clamp(affinity, 0, 50000) + l.jitter

(***************************************************************************)
(* Routing                                                                 *)
(***************************************************************************)
\* evaluate: the filters in their order; the first that fails is the reason.
SecurityFilters == <<"allowlist", "provider", "credential", "residency", "local">>
LaterFilters ==
  <<"draining", "maintenance", "quarantined", "disabled", "operation", "capability", "modality",
    "effort", "streaming", "tools", "structured", "context", "output", "cost", "quality",
    "circuit", "probe", "unhealthy", "capacity", "infeasible", "activation_deadline">>

evaluate(k, merged, t) ==
  LET pinned == merged.pin = t \/ t \in merged.fallback
      Named(names) == [i \in DOMAIN names |-> <<names[i], live[t].unfit = names[i]>>]
      Filters(pref) ==
        << <<"denied", is_denied(merged, t)>>,
           <<"key_restricted", ~permits_target(k, t) \/ (HostOf[t] # "none" /\ ~permits_host(k, HostOf[t]))>>,
           <<"fleet_access", ~fleet_access_permits(k, t)>>,
           <<"not_pinned", merged.pin # 0 /\ ~pinned>> >>
        \o Named(SecurityFilters) \o Named(LaterFilters)
        \o << <<"not_selected", pref = None /\ ~(merged.pin # 0 /\ pinned)>> >>
      Candidate(pref, failed) ==
        LET rank == IF pref = None THEN 0 ELSE pref[1].rank
            weight == IF pref = None THEN 0 ELSE pref[1].weight
        IN  [target |-> t, reason |-> IF failed = <<>> THEN "none" ELSE failed[1][1],
             pin_rank |-> IF merged.pin \notin {0, t} THEN 1 ELSE 0,
             rank |-> rank, score |-> score(t, rank, weight)]
  IN  CHOOSE c \in {Candidate(pref, SelectSeq(Filters(pref), LAMBDA f : f[2])) :
                      pref \in {preference_for(merged, t)}} : TRUE

\* Candidate::ordering_key
Ahead(a, b) ==
  \/ a.pin_rank < b.pin_rank
  \/ a.pin_rank = b.pin_rank /\ a.score > b.score
  \/ a.pin_rank = b.pin_rank /\ a.score = b.score /\ a.target < b.target

route(k) ==
  LET eligible == {c \in {evaluate(k, merged, t) : merged \in {merge_bindings}, t \in RouteTargets} :
                     c.reason = "none"}
      Ordered(S) == [i \in 1..Cardinality(S) |-> CHOOSE c \in S : Cardinality({d \in S : Ahead(d, c)}) = i - 1]
  IN  IF authorizes(k) THEN CHOOSE r \in {Ordered(S) : S \in {eligible}} : TRUE ELSE <<>>

\* GET /v1/models: whether the alias is listed.
servable_aliases(k) ==
  authorizes(k) /\ \E t \in RouteTargets : permits_target(k, t) /\ fleet_access_permits(k, t)

-----------------------------------------------------------------------------

RouteInit ==
  /\ rscene \in RouteScenes
  /\ grants = rscene.first.grants /\ bindings = rscene.first.bindings
  /\ fleet_grants = rscene.first.fleet_grants
  /\ key \in rscene.keys
  /\ live \in rscene.live

Room == Len(grants) + Len(bindings) + Len(fleet_grants)
          < Len(rscene.first.grants) + Len(rscene.first.bindings) + Len(rscene.first.fleet_grants) + MaxRecords
Insert(s, e) == {InsertAt(s, i, e) : i \in 1..(Len(s) + 1)}

\* A publication with one more record, anywhere in the file.
PublishGrant ==
  /\ Room /\ \E g \in rscene.grants : grants' \in Insert(grants, g)
  /\ UNCHANGED <<rscene, bindings, fleet_grants, key, live>>

PublishBinding ==
  /\ Room
  /\ \E b \in rscene.bindings :
       bindings' \in Insert(bindings, [id |-> Len(bindings) + 1] @@ b)
  /\ UNCHANGED <<rscene, grants, fleet_grants, key, live>>

PublishFleetGrant ==
  /\ Room /\ \E f \in rscene.fleet_grants : fleet_grants' \in Insert(fleet_grants, f)
  /\ UNCHANGED <<rscene, grants, bindings, key, live>>

RouteNext == PublishGrant \/ PublishBinding \/ PublishFleetGrant
RouteSpec == RouteInit /\ [][RouteNext]_routeVars

(***************************************************************************)
(* Properties, against the rules stated over sets: nothing here knows an   *)
(* order of the file.                                                      *)
(***************************************************************************)
Strongest(S, Key(_)) == {x \in S : \A y \in S : Key(x) <= Key(y)}

Granted(k) ==
  LET S == {g \in Range(grants) : g.covers /\ Reaches(g)}
  IN  k.models /\ S # {} /\ \A g \in Strongest(S, precedence) : g.allow

FleetGranted(k, t) ==
  LET S == {f \in Range(fleet_grants) : level(f, t) >= 0}
  IN  HostOf[t] # "none" =>
        /\ HostOf[t] \in k.hosts
        /\ IF S = {} THEN rscene.default = "allow"
                     ELSE \A f \in Strongest(S, LAMBDA f : level(f, t)) : f.allow

\* Every rule about t, by the strength of its binding and of its selector.
Rulings(t) ==
  LET Of(b, sels, deny) == {[key |-> 4 * precedence(b) - specificity(sel), level |-> precedence(b), deny |-> deny] :
                              sel \in {s \in Range(sels) : SelectorMatches(s, t)}}
  IN  UNION {Of(b, b.denies, TRUE) \cup Of(b, b.allows, FALSE) : b \in {x \in Range(bindings) : Reaches(x)}}
Denied(t) == \E x \in Strongest(Rulings(t), LAMBDA x : x.key) : x.deny

Outranks(a, b) ==
  \/ precedence(a) < precedence(b)
  \/ precedence(a) = precedence(b) /\ (a.priority > b.priority \/ (a.priority = b.priority /\ a.id < b.id))
Pinning ==
  LET S == {b \in Range(bindings) : Reaches(b) /\ b.pin # 0}
  IN  {b \in S : \A c \in S \ {b} : Outranks(b, c)}
Pinned == {b.pin : b \in Pinning}
Allowed == IF Pinning = {} THEN RouteTargets ELSE Pinned \cup UNION {b.fallback : b \in Pinning}
Selected(t) ==
  \/ \E b \in Range(bindings) : Reaches(b) /\ \E p \in Range(b.preferences) : SelectorMatches(p.sel, t)
  \/ Pinning # {} /\ t \in Allowed

\* The rank of t: that of the strongest preference for it, 0 for a bare pin.
Ranks(t) ==
  LET S == UNION {{[key |-> 4 * precedence(b) - specificity(p.sel), by |-> b, rank |-> p.rank] :
                     p \in {q \in Range(b.preferences) : SelectorMatches(q.sel, t)}} :
                   b \in {x \in Range(bindings) : Reaches(x)}}
      best == Strongest(S, LAMBDA x : x.key)
  IN  IF S = {} THEN {0} ELSE {x.rank : x \in {y \in best : \A z \in best \ {y} : Outranks(y.by, z.by)}}

\* One pass over the records, in whatever order they were written, decides as
\* the rules do: who may ask, which targets are denied, fleet grants, pins that
\* fail closed; a denial is undone at its own level or above, never below; a
\* pinned target comes before its fallbacks, and among equals a better rank
\* comes first whatever the scores are.
RoutesByRule ==
  \A c \in {route(key)} :
      /\ {x.target : x \in Range(c)} = {t \in RouteTargets :
           /\ Granted(key) /\ ~Denied(t) /\ t \in key.targets /\ FleetGranted(key, t)
           /\ t \in Allowed /\ Selected(t) /\ live[t].unfit = "none"}
      /\ \A i \in DOMAIN c : c[i].rank \in Ranks(c[i].target)
      /\ \A i, j \in DOMAIN c : i < j =>
           /\ c[j].target \in Pinned => c[i].target \in Pinned
           /\ (c[i].target \in Pinned <=> c[j].target \in Pinned) =>
                Min({c[i].rank, MAX_RANK}) <= Min({c[j].rank, MAX_RANK})

\* A key only narrows: what it may be served by is part of what its principal
\* may be, in the same order; and the list of models tells the truth, with the
\* key and without: an alias that routes anywhere is listed.
KeyNarrows ==
  /\ \A mine \in {route(key)}, all \in {route(Open)} :
       mine = SelectSeq(all, LAMBDA c : c \in Range(mine))
  /\ \A k \in {key, Open} : route(k) # <<>> => servable_aliases(k)
  /\ servable_aliases(key) => servable_aliases(Open)

\* Whoever asks, at the front and for each machine: the strongest record that
\* applies decides, a denial before a permission of the same strength, wherever
\* in the file they are; with none there is no access to the alias, and to a
\* machine what the fleet's default is.
AccessAsRuled ==
  \A k \in {key, Open} :
    /\ authorizes(k) <=> Granted(k)
    /\ \A t \in RouteTargets : fleet_access_permits(k, t) <=> FleetGranted(k, t)

\* A request is routed as the records rule (RoutesByRule, AccessAsRuled), and a
\* key takes away from what its principal is given and never adds (KeyNarrows).
RouteAsRuled == RoutesByRule /\ AccessAsRuled /\ KeyNarrows

=============================================================================
