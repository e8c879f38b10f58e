---------------------------- MODULE CampaignDesign ----------------------------
(* The pure part of a campaign: how a manifest expands to episodes, in which   *)
(* order they are dispatched, and what the validators, the collision checks    *)
(* and the admission rules say of it (src/src/experiments/campaigns.py and     *)
(* recovery_campaigns.py).  Seeds are the real numbers, with the real layouts. *)
(* A validator is the set of the findings it reports, one short name each; the *)
(* checks of onset, duration and environment placement are the one flag        *)
(* "settings".  A route knows its map (the name prefix the code tests).        *)
EXTENDS Integers, FiniteSets, Sequences, SequencesExt, FiniteSetsExt

CONSTANTS
  Families,    \* the frozen fault conditions: sequence of [id, family, system]
  Deficit,     \* the families the targeted campaign must contain
  Alphabet,    \* every map and condition id, in alphabetical order
  Splits,      \* split name -> [maps: a sequence, routes: map -> number of routes]
  Amendments,  \* amendment id -> [approved, campaigns, workers, report, caps, phases]
  TargetedSize, MinimumPairs, PilotMaps, PilotRoutes

Held == "held_out_map_test"
Find(name, holds) == IF holds THEN {name} ELSE {}
FaultSet == {Families[k].family : k \in DOMAIN Families}
Names(s) == {s[k] : k \in DOMAIN s}

(***************************************************************************)
(* Expansion: one episode per map, route, condition and replicate.         *)
(***************************************************************************)
Replicates(m, c) == IF c.reps = <<>> THEN m.replicates ELSE c.reps

Seed(m, map, route, condition, replicate) ==
  m.base + replicate * 100 + condition
    + IF m.layout = "wide_v1" THEN map * 1000000 + route * 100000
                              ELSE map * 10000 + route * 1000

Episode(m, i, j, k, replicate) ==
  LET c == m.conditions[k]
      map == m.routes[i].map IN
  [key |-> <<map, m.routes[i].routes[j], c.id, replicate>>, map |-> map,
   route |-> m.routes[i].routes[j], condition |-> c.id, replicate |-> replicate,
   system |-> c.system, family |-> c.family, severity |-> c.severity,
   policy |-> "none", seed |-> Seed(m, i - 1, j - 1, k - 1, replicate)]

Expand(m) ==
  FlattenSeq([i \in DOMAIN m.routes |->
    FlattenSeq([j \in DOMAIN m.routes[i].routes |->
      FlattenSeq([k \in DOMAIN m.conditions |->
        LET reps == Replicates(m, m.conditions[k])
        IN [n \in DOMAIN reps |-> Episode(m, i, j, k, reps[n])]])])])

KeysOf(es) == {es[n].key : n \in DOMAIN es}
Seeds(es) == {es[n].seed : n \in DOMAIN es}
Sum(f) == MapThenSumSet(LAMBDA i : f[i], DOMAIN f)
RouteCount(m) == Sum([i \in DOMAIN m.routes |-> Len(m.routes[i].routes)])

(***************************************************************************)
(* Execution orders.                                                       *)
(***************************************************************************)
Rank == [name \in Names(Alphabet) |-> CHOOSE n \in DOMAIN Alphabet : Alphabet[n] = name]

(* The tuples sorted() compares: condition, replicate, map, route. *)
Before(a, b) ==
  LET ka == <<Rank[a.condition], a.replicate, Rank[a.map], a.route[2]>>
      kb == <<Rank[b.condition], b.replicate, Rank[b.map], b.route[2]>>
  IN \E n \in 1..4 : ka[n] < kb[n] /\ \A p \in 1..(n - 1) : ka[p] = kb[p]

TargetedOrder(es) == SortSeq(es, Before)
TargetedFails(es) == Cardinality(KeysOf(es)) # Len(es)

(* Waves of two routes (n and n + half) with every condition on each. *)
BalancedOrder(es) ==
  LET pairs == SetToSortSeq({<<es[n].map, es[n].route>> : n \in DOMAIN es},
                 LAMBDA a, b : \/ Rank[a[1]] < Rank[b[1]]
                               \/ a[1] = b[1] /\ a[2][2] < b[2][2])
      half == Len(pairs) \div 2
      reps == SetToSortSeq({es[n].replicate : n \in DOMAIN es}, <)
      conds == SetToSortSeq({es[n].condition : n \in DOMAIN es},
                            LAMBDA a, b : Rank[a] < Rank[b])
      Of(p, r, c) == SelectSeq(es, LAMBDA e :
                       /\ <<e.map, e.route>> = p
                       /\ e.replicate = r /\ e.condition = c)
  IN FlattenSeq([r \in DOMAIN reps |-> FlattenSeq([w \in 1..half |->
       FlattenSeq([c \in DOMAIN conds |->
         Of(pairs[w], reps[r], conds[c]) \o Of(pairs[w + half], reps[r], conds[c])])])])
BalancedFails(es) == Len(BalancedOrder(es)) # Len(es)

(* Every policy of one cell runs consecutively, on the cell's seed. *)
ExpandPolicies(m, es) ==
  IF m.policies = <<>> THEN es
  ELSE FlattenSeq([n \in DOMAIN es |-> [p \in DOMAIN m.policies |->
         [es[n] EXCEPT !.key = Append(es[n].key, m.policies[p]),
                       !.policy = m.policies[p]]]])

Sorted(m) == m.kind \in {"targeted_event_floor", "development_supplement",
                         "concurrency_check", "held_out_confirmatory"}
Recovery(m) == m.kind \in {"recovery_pilot", "paired_recovery_confirmatory"}
Ordered(m) ==
  IF Recovery(m) THEN ExpandPolicies(m, TargetedOrder(Expand(m)))
  ELSE IF Sorted(m) THEN TargetedOrder(Expand(m)) ELSE BalancedOrder(Expand(m))
OrderFails(m) ==
  IF Recovery(m) \/ Sorted(m) THEN TargetedFails(Expand(m)) ELSE BalancedFails(Expand(m))

(***************************************************************************)
(* Concurrency: caps per system, and the amendment that admits workers.    *)
(***************************************************************************)
CapFindings(caps) == Find("cap format", \E s \in DOMAIN caps : caps[s] < 1)

Tighter(a, b) ==
  [s \in DOMAIN a \cup DOMAIN b |->
     IF s \notin DOMAIN b THEN a[s]
     ELSE IF s \notin DOMAIN a THEN b[s] ELSE Min({a[s], b[s]})]

(* A sequential manifest inherits the caps of the amendment that admits it. *)
AmendmentCaps(m, override) ==
  IF m.workers < 2 /\ override /\ m.admittedBy \in DOMAIN Amendments
  THEN Amendments[m.admittedBy].caps ELSE <<>>
EffectiveCapsUnamended(m, cli, override) == Tighter(m.caps, cli)
EffectiveCaps(m, cli, override) == Tighter(Tighter(m.caps, AmendmentCaps(m, override)), cli)
Loosens(m, cli, override) ==
  LET declared == Tighter(m.caps, AmendmentCaps(m, override))
  IN \E s \in DOMAIN cli \cap DOMAIN declared : cli[s] > declared[s]

(* systems = {}: the run is not restricted to systems. *)
PhaseFindings(a, workers, systems) ==
  CapFindings(a.phases)
    \cup Find("phase cap", \E s \in DOMAIN a.phases : a.phases[s] > a.workers)
    \cup Find("no phase", ~(systems \subseteq DOMAIN a.phases))
    \cup Find("phase workers", \E s \in systems \cap DOMAIN a.phases : workers > a.phases[s])

AdmissionFindings(m, workers, systems) ==
  IF m.admittedBy \notin DOMAIN Amendments THEN {"amendment"}
  ELSE LET a == Amendments[m.admittedBy] IN
       Find("not approved", ~a.approved)
         \cup Find("campaign", m.id \notin a.campaigns)
         \cup Find("condition", a.report = "failed")
         \cup Find("admitted workers", workers > a.workers)
         \cup CapFindings(a.caps)
         \cup PhaseFindings(a, workers, systems)

ConcurrencyFindings(m, workers, override, systems) ==
  Find("workers", workers < 1)
    \cup IF m.workers < 2
         THEN IF override THEN AdmissionFindings(m, workers, systems) ELSE {"sequential"}
         ELSE Find("preregistered workers", workers > m.workers)

(***************************************************************************)
(* Validators.                                                             *)
(***************************************************************************)
FamilyCount(m, f) == Cardinality({k \in DOMAIN m.conditions : m.conditions[k].family = f})
FamilySet(m) == {m.conditions[k].family : k \in DOMAIN m.conditions}
ListsMissing(m) == \E k \in DOMAIN m.conditions : m.conditions[k].reps = <<>>
RepCounts(m) == {Len(m.conditions[k].reps) : k \in {n \in DOMAIN m.conditions : m.conditions[n].reps # <<>>}}
RepTotal(m) == Sum([k \in DOMAIN m.conditions |-> Len(m.conditions[k].reps)])

AllowedRoutes(split) ==
  UNION {{<<map, n>> : n \in 0..(Splits[split].routes[map] - 1)} : map \in Names(Splits[split].maps)}
OutsideSplit(m, split) ==
  \E i \in DOMAIN m.routes :
    \/ m.routes[i].map \notin Names(Splits[split].maps)
    \/ \E r \in Names(m.routes[i].routes) :
         r \notin AllowedRoutes(split) \/ r[1] # m.routes[i].map

DuplicateConditions(m) ==
  \E k, n \in DOMAIN m.conditions : k # n /\ m.conditions[k].id = m.conditions[n].id

ExpansionFindings(m) ==
  LET es == Expand(m) IN
  Find("count", Len(es) # m.expected)
    \cup Find("keys", Cardinality(KeysOf(es)) # Len(es))
    \cup Find("seeds", Cardinality(Seeds(es)) # Len(es))

(* Why an attempt may be replaced, with the number of bags it left. *)
Permitted == {<<"missing_mandatory_topic", 0>>, <<"missing_injection_event", 1>>,
              <<"middleware_initialization", 0>>, <<"payload_loss", 1>>,
              <<"teardown_isolation", 1>>}

ReplacementFindings(m) ==
  LET keys == KeysOf(Expand(m)) IN
  Find("replaced twice", \E r, s \in m.replacements : r # s /\ r.original = s.original)
    \cup Find("replacement", \E r \in m.replacements :
           \/ r.original \notin keys \/ r.campaign = m.id \/ r.key \in keys
           \/ ~r.retained \/ r.contributes # 1 \/ <<r.reason, r.bags>> \notin Permitted)

(* The findings every development campaign of another kind sets aside. *)
BalancedOnly == {"two clean controls", "seven families", "per condition"}

BalancedFindings(m) ==
  LET es == Expand(m)
      split == IF m.split \in {"development", "validation"} THEN m.split ELSE "development" IN
  Find("protected", m.protected)
    \cup Find("split", m.split \notin {"development", "validation"})
    \cup Find("outside split", OutsideSplit(m, split))
    \cup Find("settings", ~m.settings)
    \cup Find("condition ids", DuplicateConditions(m))
    \cup Find("two clean controls", FamilyCount(m, "none") # 2)
    \cup Find("seven families", FamilySet(m) \ {"none"} # FaultSet)
    \cup ExpansionFindings(m)
    \cup ReplacementFindings(m)
    \cup Find("per condition", \E c \in {es[n].condition : n \in DOMAIN es} :
           Cardinality({n \in DOMAIN es : es[n].condition = c}) # m.perCondition)

Additions(m) ==
  (BalancedFindings(m) \ BalancedOnly)
    \cup Find("development only", m.split # "development")
    \cup Find("wide seeds", m.layout # "wide_v1")
    \cup Find("replicate lists", ListsMissing(m))

TargetedFindingsAnyWave(m) ==
  Additions(m) \cup Find("deficit families", FamilySet(m) # Deficit)
               \cup Find("additions", m.expected # TargetedSize)
TargetedFindings(m) ==
  Additions(m)
    \cup Find("deficit families", FamilySet(m) # Deficit)
    \cup Find("additions", m.expected # TargetedSize)
    \cup Find("wave", m.wave # RouteCount(m))

SupplementFindings(m) ==
  Additions(m)
    \cup Find("families and controls", FamilySet(m) \ {"none"} # FaultSet
                                       \/ FamilyCount(m, "none") # 2)
    \cup Find("uneven", \E a, b \in RepCounts(m) : a - b > 1)
    \cup Find("design count", m.expected # RepTotal(m) * RouteCount(m))
    \cup Find("sizing", m.sizing.perBlock # RouteCount(m)
                        \/ m.sizing.blocks * RouteCount(m) # m.expected)
    \cup Find("minimum", m.expected < m.sizing.minimum)
    \cup Find("wave", m.wave # RouteCount(m))

CheckFindings(m) ==
  Additions(m)
    \cup Find("check conditions",
           \/ Len(m.conditions) # 3
           \/ {<<m.conditions[k].family, m.conditions[k].severity, m.conditions[k].system>> :
                k \in DOMAIN m.conditions}
              # {<<"none", "none", "s0">>, <<"none", "none", "s3">>,
                 <<"planner_oscillation", "medium", "s0">>})
    \cup Find("uneven", Cardinality(RepCounts(m)) > 1)
    \cup Find("design count", m.expected # RepTotal(m) * RouteCount(m))
    \cup Find("wave", m.wave # RouteCount(m))
    \cup Find("workers", m.workers < 2)
    \cup Find("exact once", ~m.once)
    \cup Find("stop", ~m.stops)
    \cup CapFindings(m.caps)
    \cup Find("cap", CapFindings(m.caps) = {} /\ \E s \in DOMAIN m.caps :
           s \notin {m.conditions[k].system : k \in DOMAIN m.conditions} \/ m.caps[s] > m.workers)
    \cup Find("inline replacements", m.replacements # {})

ConfirmatoryFindings(m, assigned) ==
  Find("kind", m.split # Held)
    \cup Find("protected", ~m.protected)
    \cup Find("unassigned", ~assigned)
    \cup Find("outside split", OutsideSplit(m, Held))
    \cup Find("every map", {m.routes[i].map : i \in DOMAIN m.routes} # Names(Splits[Held].maps))
    \cup Find("every route", UNION {Names(m.routes[i].routes) : i \in DOMAIN m.routes} # AllowedRoutes(Held))
    \cup Find("wide seeds", m.layout # "wide_v1")
    \cup Find("settings", ~m.settings)
    \cup Find("condition ids", DuplicateConditions(m))
    \cup Find("replicate lists", ListsMissing(m))
    \cup Find("seven families", FamilySet(m) \ {"none"} # FaultSet)
    \cup Find("severity", \E k \in DOMAIN m.conditions : LET c == m.conditions[k] IN
           (c.family = "none") # (c.severity = "none"))
    \cup ExpansionFindings(m)
    \cup Find("wave", m.wave # RouteCount(m) \/ RouteCount(m) = 0)
    \cup Find("exact once", ~m.once)
    \cup Find("inline replacements", m.replacements # {})

(* Each cell (map, route, seed, family, severity) is run under every policy. *)
Cell(e) == <<e.map, e.route, e.seed, e.family, e.severity>>
Unpaired(m, es) ==
  \E n \in DOMAIN es : {es[k].policy : k \in {i \in DOMAIN es : Cell(es[i]) = Cell(es[n])}}
                        # Names(m.policies)
PairFindings(m, es) ==
  Find("keys", Cardinality(KeysOf(es)) # Len(es))
    \cup Find("seed and policy",
           Cardinality({<<es[n].seed, es[n].policy>> : n \in DOMAIN es}) # Len(es))
    \cup Find("unpaired", Unpaired(m, es))

PilotPolicies == <<"R0", "slow", "stop">>   \* R0 and the forced actions (six in the code)
PairedPolicies == <<"R0", "R2", "R3">>

RecoveryPolicyFindings(m) ==
  Find("exact once", ~m.once \/ ~m.stops)
    \cup Find("amendment", m.admittedBy \notin DOMAIN Amendments)
    \cup Find("live", ~m.live)
    \cup Find("inline replacements", m.replacements # {})

RecoveryPilotFindings(m) ==
  LET es == ExpandPolicies(m, Expand(m)) IN
  RecoveryPolicyFindings(m)
    \cup Find("split", m.split # "validation" \/ m.protected)
    \cup Find("policies", m.policies # PilotPolicies)
    \cup Find("maps", Len(m.routes) # PilotMaps
           \/ \E i \in DOMAIN m.routes : Len(m.routes[i].routes) # PilotRoutes)
    \cup Find("outside split", OutsideSplit(m, "validation"))
    \cup Find("seven families", FamilySet(m) # FaultSet \/ Len(m.conditions) # Len(Families))
    \cup Find("one seed", \E k \in DOMAIN m.conditions :
           m.conditions[k].severity # "medium" \/ m.conditions[k].reps # <<0>>)
    \cup Find("wide seeds", m.layout # "wide_v1")
    \cup Find("workers", m.workers # 6)
    \cup Find("count", Len(Expand(m)) # m.baseExpected \/ Len(es) # m.expected)
    \cup PairFindings(m, es)

(* The builder's own validator of a paired campaign ... *)
PairedDesignFindings(m) ==
  LET es == ExpandPolicies(m, Expand(m))
      cells == {Cell(es[n]) : n \in DOMAIN es} IN
  Find("split", m.split # Held \/ ~m.protected)
    \cup Find("policies", m.policies = <<>> \/ Cardinality(Names(m.policies)) # Len(m.policies)
           \/ ~(Names(m.policies) \subseteq {"R0", "R1", "R2", "R3"})
           \/ ~({"R0", "R3"} \subseteq Names(m.policies)))
    \cup Find("outside split", OutsideSplit(m, Held))
    \cup Find("seven families", FamilySet(m) # FaultSet \/ Len(m.conditions) # Len(Families))
    \cup Find("count", Len(es) # m.expected \/ Cardinality(cells) # m.baseExpected)
    \cup Find("keys", Cardinality(KeysOf(es)) # Len(es))
    \cup Find("unpaired", Unpaired(m, es))
    \cup Find("minimum", 2 * Cardinality(cells) < MinimumPairs)
(* ... and the dispatcher's, which also asks for treatment to be delivered. *)
PairedFindings(m) == RecoveryPolicyFindings(m) \cup PairedDesignFindings(m)

ManifestFindings(m, assigned) ==
  CASE m.kind = "recovery_pilot" -> RecoveryPilotFindings(m)
    [] m.kind = "paired_recovery_confirmatory" -> PairedFindings(m)
    [] m.kind = "held_out_confirmatory" -> ConfirmatoryFindings(m, assigned)
    [] m.kind = "concurrency_check" -> CheckFindings(m)
    [] m.kind = "development_supplement" -> SupplementFindings(m)
    [] m.kind = "targeted_event_floor" -> TargetedFindings(m)
    [] OTHER -> BalancedFindings(m)
=============================================================================
