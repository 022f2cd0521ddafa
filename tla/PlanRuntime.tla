---------------------------- MODULE PlanRuntime ----------------------------
(***************************************************************************)
(* An execution plan put to work: a frontend asks the planner, binds the   *)
(* plan to its runtime (bind_plan_implementations of                       *)
(* src/dos_re/execution.py) adapter by adapter, any of which may raise, in *)
(* which case it may be bound again, and runs.  Regions of the program     *)
(* run on a session of their own, owned by the RegionDispatcher of         *)
(* src/dos_re/regions.py.                                                  *)
(*                                                                         *)
(* The program is external: it calls any reachable target.  So are the     *)
(* adapters and the sessions: activating an adapter makes the              *)
(* implementation the handler of the targets it is given, activating a     *)
(* region's makes its entries enter it.                                    *)
(***************************************************************************)
EXTENDS ExecutionPlanner

CONSTANTS
    Questions,  \* what a frontend may ask
    Carriers,   \* carriers of the runtimes it launches
    MaxBinds    \* bound: bindings and rebindings of a runtime

(* What callers and ports see to: a runtime has a carrier, descriptors are *)
(* well formed, the interpreted program says that it needs the interpreter *)
(* (player.py:361, 409), and profiles are the standard ones as far as this *)
(* goes: without fallback the interpreter is forbidden, and a release is   *)
(* strict.  Catalogues are finite.                                         *)
WellAsked(q) ==
    /\ Known(q) \subseteq Nat \ {0} /\ q.reachable \subseteq Nat \ {0}
    /\ \A i \in Known(q) :
          /\ WellFormed(q.catalog[i])
          /\ q.catalog[i].origin = "interpreted" => "interpreter" \in q.catalog[i].caps
    /\ q.overrides \in Seq(Nat) /\ q.preference \in Seq(Nat)
    /\ ~q.policy.fallback => "interpreter" \in q.policy.forbidden
    /\ q.profile = "release" => q.policy.strict
    /\ IsFiniteSet(DOMAIN q.serviceCatalog) /\ IsFiniteSet(q.roots)

ASSUME PlanAssumption == NoCarrier \notin Carriers /\ \A q \in Questions : WellAsked(q)

VARIABLES
    question,
    answer,     \* of the planner
    plan,       \* what it granted
    bound,      \* whether the runtime has the plan, and on which carrier
    awaiting,   \* activations the binding under way has still to make
    handler,    \* of each target: the implementation that was installed
    entered,    \* of each target: the region that takes over there
    barred,     \* interp_forbidden
    region,     \* the active region, its session, and whether that is over
    ran,        \* what the last call ran: target, implementation, region
    binds

planVars == <<question, answer, plan>>
runtimeVars == <<bound, awaiting, handler, entered, barred>>
planRunVars == <<planVars, runtimeVars, region, ran, binds>>

None == 0
NoPlan == [bindings |-> <<>>, carrier |-> NoCarrier]
Unbound == [plan |-> FALSE, carrier |-> NoCarrier]
NoRegion == [id |-> None, over |-> FALSE]
NoRun == [target |-> None, by |-> None]
Interpreter == -1       \* ran by decoding the original bytes
Frontier == -2          \* RuntimeExecutionFrontier

PlanInit ==
    /\ question \in Questions
    /\ answer = "none" /\ plan = NoPlan
    /\ bound = Unbound /\ awaiting = {} /\ barred = FALSE
    /\ handler = [t \in question.reachable |-> None]
    /\ entered = [t \in question.reachable |-> None]
    /\ region = NoRegion /\ ran = NoRun /\ binds = 0

Ask ==
    /\ answer = "none"
    /\ answer' = PlanExecution(question)
    /\ plan' = IF answer' = "planned" THEN Plan(question) ELSE NoPlan
    /\ UNCHANGED <<question, runtimeVars, region, ran, binds>>

-----------------------------------------------------------------------------
(* Binding.                                                                *)

(* The implementations' targets; a region suppresses nothing out of        *)
(* itself, and attachments take all of theirs.                             *)
Item(i) == question.catalog[i]
TargetsOf(i) ==
    {t \in DOMAIN plan.bindings : plan.bindings[t] = i}
    \cup (IF Attaching(Item(i)) THEN Item(i).targets ELSE {})

(* An adapter for the carrier, or a reason why none is needed: the rest is *)
(* a configuration error.                                                  *)
Adapted(i, carrier) == carrier \in Item(i).adapters
Bridgeless(i) == Item(i).region \/ Item(i).origin = "interpreted"
RegionAdapted(i, carrier) == carrier \in Item(i).regionAdapters /\ carrier = plan.carrier

(* Regions first, then the implementations in order.                       *)
Activations(carrier) ==
    LET wanted == {i \in plan.selected : TargetsOf(i) # {}}
        needed == {i \in wanted : Adapted(i, carrier) \/ ~Bridgeless(i)}
    IN  [region : {TRUE}, of : DOMAIN plan.regions] \cup [region : {FALSE}, of : needed]
Sooner(a, b) == IF a.region = b.region THEN a.of < b.of ELSE a.region

(* The runtime is marked as the plan's before any adapter is activated;    *)
(* one that is already another plan's, or another carrier's, is left as it *)
(* is.                                                                     *)
Bind(carrier) ==
    /\ answer = "planned" /\ awaiting = {} /\ binds < MaxBinds
    /\ binds' = binds + 1
    /\ IF bound # Unbound /\ bound.carrier # carrier
       THEN UNCHANGED runtimeVars
       ELSE /\ bound' = [plan |-> TRUE, carrier |-> carrier]
            /\ barred' = (barred \/ ~question.policy.fallback)
            /\ awaiting' = Activations(carrier)
            /\ UNCHANGED <<handler, entered>>
    /\ UNCHANGED <<planVars, region, ran>>

Activatable(a) == IF a.region THEN RegionAdapted(a.of, bound.carrier)
                  ELSE Adapted(a.of, bound.carrier)

(* Faulty, to break properties: what an active region covers is not        *)
(* installed outside of it either.                                         *)
InstalledUnlessSuppressed(i) ==
    TargetsOf(i) \ UNION {plan.regions[r] : r \in DOMAIN plan.regions}
Installed(i) == TargetsOf(i)

Activate ==
    /\ \E a \in awaiting :
          /\ \A b \in awaiting \ {a} : Sooner(a, b)
          /\ Activatable(a)
          /\ entered' = [t \in DOMAIN entered |->
                           IF a.region /\ t \in Item(a.of).contract.entries THEN a.of ELSE entered[t]]
          /\ handler' = [t \in DOMAIN handler |->
                           IF ~a.region /\ t \in Installed(a.of) /\ ~Attaching(Item(a.of))
                           THEN a.of ELSE handler[t]]
          /\ awaiting' = awaiting \ {a}
    /\ UNCHANGED <<planVars, bound, barred, region, ran, binds>>

(* No adapter, or an adapter that raises.                                  *)
ActivationFails ==
    /\ awaiting # {}
    /\ awaiting' = {}
    /\ UNCHANGED <<planVars, bound, handler, entered, barred, region, ran, binds>>

-----------------------------------------------------------------------------
(* Running: the launcher reports a binding that raised, so that nothing    *)
(* runs on a runtime bound in part.                                        *)

Complete == /\ bound # Unbound /\ awaiting = {}
            /\ \A a \in Activations(bound.carrier) :
                  IF a.region
                  THEN \A t \in Item(a.of).contract.entries : entered[t] = a.of
                  ELSE \/ Attaching(Item(a.of))
                       \/ \A t \in Installed(a.of) : handler[t] = a.of

(* Whoever has the carrier at a target: what was installed there, or the   *)
(* program's own provider, by its generated code or the interpreter.  At   *)
(* a region's other targets, where it is not entered, that is the program  *)
(* which surrounds it and goes on there after its exits.                   *)
Surrounding == CHOOSE i \in RootProviders(question) : TRUE
Provider(t) ==
    IF Item(plan.bindings[t]).contract # NoContract THEN Surrounding ELSE plan.bindings[t]
Runs(i) == Item(i).carrier = bound.carrier /\ Item(i).origin # "interpreted"

Dispatched(t) ==
    IF handler[t] # None THEN handler[t]
    ELSE IF Runs(Provider(t)) THEN Provider(t)
    ELSE IF barred THEN Frontier
    ELSE Interpreter

CallShell(t) ==
    /\ Complete /\ region = NoRegion
    /\ entered[t] = None
    /\ ran' = [target |-> t, by |-> Dispatched(t)]
    /\ UNCHANGED <<planVars, runtimeVars, region, binds>>

Enter(t) ==
    /\ Complete /\ region.id = None
    /\ entered[t] # None
    /\ region' = [id |-> entered[t], over |-> FALSE]
    /\ ran' = [target |-> t, by |-> entered[t]]
    /\ UNCHANGED <<planVars, runtimeVars, binds>>

(* advance: a declared boundary goes on, an undeclared one or exit raises. *)
AdvanceToBoundary ==
    /\ region.id # None /\ ~region.over
    /\ ran' = [target |-> None, by |-> region.id]
    /\ UNCHANGED <<planVars, runtimeVars, region, binds>>

(* The exit's adapter takes the machine over; if it raises, the region     *)
(* stays the owner of execution, with a session that is over.              *)
AdvanceToExit(completes) ==
    /\ region.id # None /\ ~region.over
    /\ region' = IF completes THEN NoRegion ELSE [id |-> region.id, over |-> TRUE]
    /\ ran' = NoRun
    /\ UNCHANGED <<planVars, runtimeVars, binds>>

(* Before a state is restored.                                             *)
Reset ==
    /\ region.id # None
    /\ region' = NoRegion /\ ran' = NoRun
    /\ UNCHANGED <<planVars, runtimeVars, binds>>

-----------------------------------------------------------------------------
PlanNext ==
    \/ Ask \/ Activate \/ ActivationFails
    \/ \E carrier \in Carriers : Bind(carrier)
    \/ \E t \in question.reachable : CallShell(t) \/ Enter(t)
    \/ AdvanceToBoundary \/ Reset
    \/ \E completes \in BOOLEAN : AdvanceToExit(completes)

PlanSpec == PlanInit /\ [][PlanNext]_planRunVars

-----------------------------------------------------------------------------
(* A plan that is granted can be carried out: on the carrier it was made   *)
(* for, every adapter the binding looks for is there                       *)
(* (execution.py:795-837).                                                 *)
PlanActivates ==
    bound.carrier = plan.carrier => \A a \in awaiting : Activatable(a)

(* Nothing else runs than what was planned: a call in the shell reaches    *)
(* the implementation its target is bound to, whatever regions cover it    *)
(* (execution.py:787-797), and only if that one is interpreted the         *)
(* interpreter (docs/execution_planner.md:192).  Only where a region has   *)
(* left does the program that surrounds it go on.                          *)
NothingElseRuns ==
    LET t == ran.target
        i == plan.bindings[t]
        left == Item(i).contract # NoContract /\ t \notin Item(i).contract.entries
        planned == IF left THEN Surrounding ELSE i
    IN  t # None /\ bound.carrier = plan.carrier
        => /\ t \in DOMAIN plan.bindings
           /\ \/ ran.by = planned \/ ran.by = i
              \/ ran.by = Interpreter /\ Item(planned).origin = "interpreted"

(* No step of a plan granted under a policy that forbids a capability      *)
(* needs it: neither an implementation that runs nor a service that any    *)
(* of them needs, directly or not.                                         *)
PolicyKept ==
    answer = "planned" =>
        /\ ran.by > 0 => Item(ran.by).caps \cap question.policy.forbidden = {}
        /\ \A s \in plan.services :
              /\ question.serviceCatalog[s].caps \cap question.policy.forbidden = {}
              /\ question.serviceCatalog[s].dependencies \subseteq plan.services

(* A release that was planned for a platform can be packaged.              *)
ReleasesPackage ==
    answer = "planned" /\ question.profile = "release" /\ question.platform # "none"
        => /\ PackageReady(question)
           /\ \A edge \in question.edges : ~edge.dynamic

(* What runs is what the plan says: each target by its binding, nothing    *)
(* outside the plan, and nothing the profile's policy forbids              *)
(* (docs/execution_model.md; execution.py, bind_plan_implementations).     *)
PlanFollowed == PlanActivates /\ NothingElseRuns /\ PolicyKept
=============================================================================
