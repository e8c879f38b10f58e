---------------------------- MODULE Preregistration ----------------------------
(* The planners that publish campaign manifests, in whatever order they are    *)
(* called, and the dispatcher that accepts or refuses what it finds.           *)
(*                                                                             *)
(* The balanced and the targeted manifest are written by hand and may be       *)
(* wrong.  The other planners build theirs, validate it, compare its seeds and *)
(* keys with SOME of the manifests on the shelf (each planner with its own     *)
(* idea of which), and publish it once: a published manifest is never          *)
(* replaced.  plan_development_supplement.py, build_concurrency_shift_check.py,*)
(* build_confirmatory_manifests.py, build_recovery_pilot_manifest.py,          *)
(* build_recovery_campaign_manifest.py, run_campaign_parallel.py.              *)
EXTENDS CampaignDesign

CONSTANTS
  Drafts,                             \* what the author may have written
  Target, BalancedSize, MinimumSupplement, PerBlock, Audited,
  HeldMinimum, SeverityMinimum, SeedArguments, PairedSeeds, ReplicateOffset,
  Workers, CliCaps                    \* arguments the dispatcher is started with

(* Caps and numbers of workers are integers, whoever writes them. *)
Caps(caps) == \A s \in DOMAIN caps : caps[s] \in Int
Written(m) == m.workers \in Int /\ Caps(m.caps)

ASSUME DesignOK ==
  /\ Workers \subseteq Int /\ \A cli \in CliCaps : Caps(cli)
  /\ \A id \in DOMAIN Amendments :
       LET a == Amendments[id] IN a.workers \in Int /\ Caps(a.caps) /\ Caps(a.phases)
  /\ \A draft \in Drafts : \A id \in DOMAIN draft : Written(draft[id])

VARIABLES
  shelf,      \* campaign id -> manifest under data/manifests
  assigned,   \* the held-out split is assigned after the model freeze
  event       \* what happened last: nothing, a publication or an accepted run

designVars == <<shelf, assigned, event>>
Nothing == [type |-> "none"]
Published(m) == [type |-> "published", id |-> m.id]

Controls == <<[id |-> "clean_s0", family |-> "none", severity |-> "none", system |-> "s0", reps |-> <<>>],
              [id |-> "clean_s3", family |-> "none", severity |-> "none", system |-> "s3", reps |-> <<>>]>>
Fault(k, severity) ==
  [id |-> Families[k].id, family |-> Families[k].family, severity |-> severity,
   system |-> Families[k].system, reps |-> <<>>]
Faults == [k \in DOMAIN Families |-> Fault(k, "medium")]
Replicated(cs) == SelectSeq(cs, LAMBDA c : c.reps # <<>>)
OfFamily(cs, family) == SelectSeq(cs, LAMBDA c : c.family = family)
WithReps(cs, reps) == [k \in DOMAIN cs |-> [cs[k] EXCEPT !.reps = reps]]
Count(from, n) == [k \in 1..n |-> from + k - 1]
Ceiling(a, b) == (a + b - 1) \div b

(* The first "perMap" routes of every map of a split. *)
MapRoutes(split, perMap) ==
  [i \in DOMAIN Splits[split].maps |->
     LET map == Splits[split].maps[i]
     IN [map |-> map, routes |-> [n \in 1..perMap[map] |-> <<map, n - 1>>]]]

Manifest(id, kind, split, base, routes, conditions) ==
  LET reps == Sum([k \in DOMAIN conditions |-> Len(conditions[k].reps)])
      width == Sum([i \in DOMAIN routes |-> Len(routes[i].routes)]) IN
  [id |-> id, kind |-> kind, split |-> split, protected |-> split = Held,
   layout |-> "wide_v1", base |-> base, routes |-> routes, replicates |-> <<>>,
   conditions |-> conditions, expected |-> reps * width, perCondition |-> -1,
   baseExpected |-> reps * width, wave |-> width, workers |-> 1, caps |-> <<>>,
   once |-> TRUE, stops |-> TRUE, live |-> FALSE, policies |-> <<>>, replacements |-> {},
   settings |-> TRUE, admittedBy |-> "PA", planned |-> TRUE,
   sizing |-> [perBlock |-> -1, blocks |-> -1, minimum |-> 0]]

(* A manifest with other values of some fields. *)
With(m, fields) ==
  [x \in DOMAIN m \cup DOMAIN fields |-> IF x \in DOMAIN fields THEN fields[x] ELSE m[x]]

(***************************************************************************)
(* Development supplement.                                                 *)
(***************************************************************************)
MaxReplicate(m) ==
  Max(UNION {Names(Replicates(m, m.conditions[k])) : k \in DOMAIN m.conditions})
FirstReplicate(balanced, targeted) == Max({MaxReplicate(balanced), MaxReplicate(targeted)}) + 1

SupplementCount(admitted) ==
  Ceiling(Max({MinimumSupplement, Target - BalancedSize - TargetedSize - admitted}), PerBlock) * PerBlock
DistributeFront(blocks, n) ==
  [k \in 1..n |-> blocks \div n + IF k = 1 THEN blocks % n ELSE 0]
DistributeBlocks(blocks, n) ==
  [k \in 1..n |-> blocks \div n + IF k <= blocks % n THEN 1 ELSE 0]

Supplement(admitted, balanced, targeted) ==
  LET total == SupplementCount(admitted)
      blocks == total \div PerBlock
      all == Controls \o Faults
      share == DistributeBlocks(blocks, Len(all))
      first == FirstReplicate(balanced, targeted)
      conditions == Replicated([k \in DOMAIN all |-> [all[k] EXCEPT !.reps = Count(first, share[k])]]) IN
  With(Manifest("supplement", "development_supplement", "development", 2000000,
                targeted.routes, conditions),
       [expected |-> total, wave |-> targeted.wave,
        perCondition |-> IF Cardinality(Names(share)) = 1 THEN share[1] * PerBlock ELSE -1,
        sizing |-> [perBlock |-> PerBlock, blocks |-> blocks, minimum |-> MinimumSupplement]])

SupplementCollisions(m, balanced, targeted) ==
  LET es == Expand(m) IN
  ExpansionFindings(m)
    \cup Find("collision", \E other \in {balanced, targeted} :
           \/ KeysOf(es) \cap KeysOf(Expand(other)) # {}
           \/ Seeds(es) \cap Seeds(Expand(other)) # {}
           \/ KeysOf(es) \cap {r.key : r \in other.replacements} # {})

Publish(m) ==
  /\ m.id \notin DOMAIN shelf
  /\ shelf' = [id \in DOMAIN shelf \cup {m.id} |-> IF id = m.id THEN m ELSE shelf[id]]
  /\ event' = Published(m)
  /\ UNCHANGED assigned

PlanSupplement(admitted) ==
  LET m == Supplement(admitted, shelf["balanced"], shelf["targeted"]) IN
  /\ SupplementCollisions(m, shelf["balanced"], shelf["targeted"]) = {}
  /\ m.perCondition # -1 => BalancedFindings(m) = {}
  /\ Publish(m)

(***************************************************************************)
(* Concurrency shift checks: two variants, compared with every manifest.   *)
(***************************************************************************)
Check(variant, targeted) ==
  LET conditions == WithReps(Controls \o OfFamily(Faults, "planner_oscillation"), <<0>>) IN
  With(Manifest("check_" \o variant, "concurrency_check", "development",
                IF variant = "v1" THEN 4000000 ELSE 4500000, targeted.routes, conditions),
       [workers |-> 6, perCondition |-> RouteCount(targeted),
        caps |-> IF variant = "v1" THEN <<>> ELSE [s \in {"s3"} |-> 1]])

CheckCollisions(m) ==
  LET es == Expand(m) IN
  ExpansionFindings(m)
    \cup Find("collision", \E id \in DOMAIN shelf \ {m.id} :
           Seeds(es) \cap Seeds(Expand(shelf[id])) # {})
    \cup Find("reserved", \E s \in Seeds(es) : s >= 10000000)

PlanCheck(variant) ==
  LET m == Check(variant, shelf["targeted"]) IN
  /\ CheckFindings(m) \cup CheckCollisions(m) = {}
  /\ Publish(m)

(***************************************************************************)
(* Held-out and severity campaigns, built together after the freeze.       *)
(***************************************************************************)
SeedsForMinimum(routes, cells, minimum) == Max({1, Ceiling(minimum, routes * cells)})
HeldRoutes == MapRoutes(Held, Splits[Held].routes)
HeldWidth == Sum([i \in DOMAIN HeldRoutes |-> Len(HeldRoutes[i].routes)])

(* The clean slot is split between the two systems. *)
HeldOut(seeds) ==
  LET clean == (seeds + 1) \div 2
      conditions == <<[Controls[1] EXCEPT !.reps = Count(0, clean)],
                      [Controls[2] EXCEPT !.reps = Count(clean, seeds - clean)]>>
                      \o WithReps(Faults, Count(0, seeds)) IN
  With(Manifest("held_out", "held_out_confirmatory", Held, 10000000, HeldRoutes, conditions),
       [expected |-> HeldWidth * seeds * (Len(Families) + 1)])

Severities == <<"low", "medium", "high">>
Graded == FlattenSeq([k \in DOMAIN Families |-> [s \in DOMAIN Severities |->
            [Fault(k, Severities[s]) EXCEPT !.id = Families[k].id \o "_" \o Severities[s]]]])
SeverityStress(seeds) ==
  Manifest("severity", "held_out_confirmatory", Held, 20000000, HeldRoutes,
           WithReps(Graded, Count(0, seeds)))

(* A manifest with recovery policies is compared by its base episodes. *)
Collides(m, other) ==
  \/ KeysOf(Expand(m)) \cap KeysOf(Expand(other)) # {}
  \/ Seeds(Expand(m)) \cap Seeds(Expand(other)) # {}

(* Both are published, or the first alone when the script is killed. *)
BuildConfirmatory(held, severity, killed) ==
  LET a == HeldOut(IF held = 0 THEN SeedsForMinimum(HeldWidth, Len(Families) + 1, HeldMinimum) ELSE held)
      b == SeverityStress(IF severity = 0
             THEN SeedsForMinimum(HeldWidth, Len(Families) * 3, SeverityMinimum) ELSE severity) IN
  /\ assigned
  /\ {a.id, b.id} \cap DOMAIN shelf = {}
  /\ ConfirmatoryFindings(a, assigned) \cup ConfirmatoryFindings(b, assigned) = {}
  /\ ~Collides(a, b) /\ \A id \in DOMAIN shelf : ~Collides(a, shelf[id]) /\ ~Collides(b, shelf[id])
  /\ shelf' = [id \in DOMAIN shelf \cup IF killed THEN {a.id} ELSE {a.id, b.id} |->
                 IF id = a.id THEN a ELSE IF id = b.id THEN b ELSE shelf[id]]
  /\ event' = Published(IF killed THEN a ELSE b)
  /\ UNCHANGED assigned

(***************************************************************************)
(* Recovery campaigns: their builders compare with no other manifest.      *)
(***************************************************************************)
RecoveryManifest(m, policies) ==
  With(m, [policies |-> policies, live |-> TRUE, expected |-> m.expected * Len(policies)])

PilotManifest(base) ==
  LET perMap == [map \in Names(Splits["validation"].maps) |-> PilotRoutes] IN
  With(RecoveryManifest(Manifest("pilot", "recovery_pilot", "validation", base,
                                 MapRoutes("validation", perMap), WithReps(Faults, <<0>>)), PilotPolicies),
       [workers |-> 6, wave |-> Len(PilotPolicies) * 6])
RecoveryPilotLowBase == PilotManifest(3000000)
RecoveryPilot == PilotManifest(40000000)

PlanRecoveryPilot ==
  /\ RecoveryPilotFindings(RecoveryPilot) = {}
  /\ Publish(RecoveryPilot)

(* paired_v2 executes the design of paired_v1 again, with live recovery. *)
Paired(id) ==
  With(RecoveryManifest(Manifest(id, "paired_recovery_confirmatory", Held, 30000000, HeldRoutes,
                                 WithReps(Faults, Count(ReplicateOffset, PairedSeeds))), PairedPolicies),
       [wave |-> Len(PairedPolicies) * Len(Families)])

PlanPaired(id) ==
  /\ assigned
  /\ PairedDesignFindings(Paired(id)) = {}
  /\ Publish(Paired(id))

(* assign_protected_split.py: once, and never a map that was worked with.  Its gate on *)
(* the model freeze is in StudyScripts; killed before it replaces the split manifest,  *)
(* it has assigned nothing.                                                            *)
Assign ==
  /\ ~assigned
  /\ \A split \in DOMAIN Splits \ {Held} :
       Names(Splits[split].maps) \cap Names(Splits[Held].maps) = {}
  /\ assigned' = TRUE
  /\ event' = Nothing
  /\ UNCHANGED shelf

(***************************************************************************)
(* The dispatcher's start: validate, order, admit, resolve the caps.       *)
(***************************************************************************)
Systems(m) == {m.conditions[k].system : k \in DOMAIN m.conditions}

Runnable(m) ==
  ManifestFindings(m, assigned) = {} /\ ~OrderFails(m) /\ Len(Ordered(m)) = m.expected

Dispatch(id, workers, systems, cli, override) ==
  LET m == shelf[id] IN
  /\ ConcurrencyFindings(m, workers, override, systems) = {}
  /\ systems \subseteq Systems(m)
  /\ CapFindings(m.caps) = {} /\ ~Loosens(m, cli, override)
  /\ event' = [type |-> "run", id |-> id, workers |-> workers, systems |-> systems,
               override |-> override, caps |-> EffectiveCaps(m, cli, override)]
  /\ UNCHANGED <<shelf, assigned>>

DesignInit ==
  /\ shelf \in Drafts
  /\ assigned = FALSE
  /\ event = Nothing

(* A run changes no manifest: it is the last step that is looked at. *)
Open == event.type # "run"

DesignNext ==
  \/ Open /\ \E n \in Audited : PlanSupplement(n)
  \/ Open /\ \E v \in {"v1", "v2"} : PlanCheck(v)
  \/ Open /\ \E h, s \in SeedArguments, k \in BOOLEAN : BuildConfirmatory(h, s, k)
  \/ Open /\ PlanRecoveryPilot
  \/ Open /\ \E id \in {"paired_v1", "paired_v2"} : PlanPaired(id)
  \/ Open /\ Assign
  \/ Open /\ \E id \in {i \in DOMAIN shelf : Runnable(shelf[i])} :
       \E w \in Workers, cli \in CliCaps, o \in BOOLEAN, systems \in SUBSET Systems(shelf[id]) :
         Dispatch(id, w, systems, cli, o)

DesignSpec == DesignInit /\ [][DesignNext]_designVars

(***************************************************************************)
(* Properties.                                                             *)
(***************************************************************************)
(* A planner's campaign shares no seed with any other, whatever the order  *)
(* the planners were called in (supplement and check overlap in range, and *)
(* the supplement's planner never looks at the check).  paired_v2 shares   *)
(* the seeds of paired_v1 by design.                                       *)
SeedsApart ==
  event.type = "published" =>
    \A id \in DOMAIN shelf \ {event.id} :
      \/ {id, event.id} = {"paired_v1", "paired_v2"}
      \/ Seeds(Expand(shelf[id])) \cap Seeds(Expand(shelf[event.id])) = {}

(* What a planner publishes, the dispatcher's validator accepts: the two   *)
(* apply different rules, and a published manifest cannot be corrected.    *)
(* (The supplement and the checks copy routes and wave size from the       *)
(* targeted manifest, which has to be valid itself.)                       *)
PlannedIsRunnable ==
  event.type = "published" /\ ManifestFindings(shelf["targeted"], assigned) = {} =>
    /\ ManifestFindings(shelf[event.id], assigned) = {}
    /\ ~OrderFails(shelf[event.id])

(* The waves of a run: a targeted wave is one condition and replicate over *)
(* every route once; a balanced wave is every condition on two routes; a   *)
(* recovery wave holds whole cells, every policy on one seed.              *)
WaveWhole(m, wave) ==
  LET at == DOMAIN wave
      routes == {<<wave[n].map, wave[n].route>> : n \in at} IN
  IF Recovery(m)
  THEN \A n \in at : {wave[k].policy : k \in {i \in at : Cell(wave[i]) = Cell(wave[n])}}
                       = Names(m.policies)
  ELSE IF Sorted(m)
  THEN /\ Cardinality({<<wave[n].condition, wave[n].replicate>> : n \in at}) = 1
       /\ Cardinality(routes) = m.wave /\ m.wave = RouteCount(m)
  ELSE /\ Cardinality(routes) = 2
       /\ \A c \in {m.conditions[k].id : k \in DOMAIN m.conditions} :
            {wave[n].route : n \in {i \in at : wave[i].condition = c}} = {r[2] : r \in routes}
WavesWhole ==
  event.type = "run" =>
    LET m == shelf[event.id]
        order == Ordered(m) IN
    /\ m.expected % m.wave = 0
    /\ \A w \in 1..(m.expected \div m.wave) :
         WaveWhole(m, SubSeq(order, (w - 1) * m.wave + 1, w * m.wave))

(* No system runs more episodes at once than its manifest, the amendment   *)
(* that admits the run, and the phase it is restricted to allow.           *)
InFlight(s) == IF s \in DOMAIN event.caps THEN Min({event.workers, event.caps[s]}) ELSE event.workers
CapsHonoured ==
  event.type = "run" =>
    LET m == shelf[event.id]
        a == Amendments[m.admittedBy]
        amended == m.workers < 2 IN
    \A s \in Systems(m) :
      /\ s \in DOMAIN m.caps => InFlight(s) <= m.caps[s]
      /\ InFlight(s) <= IF amended THEN a.workers ELSE m.workers
      /\ amended /\ s \in DOMAIN a.caps => InFlight(s) <= a.caps[s]
      /\ amended /\ s \in event.systems => InFlight(s) <= a.phases[s]
=============================================================================
