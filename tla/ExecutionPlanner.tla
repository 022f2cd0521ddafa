-------------------------- MODULE ExecutionPlanner --------------------------
(***************************************************************************)
(* The planner of src/dos_re/execution.py, as an operator: from a question *)
(* (a configuration, a conservative coverage of the program, catalogues of *)
(* implementations, services and features) to a plan, a refusal, or a      *)
(* failure of the policy with the report that says why.                    *)
(*                                                                         *)
(* Implementations are numbered in the order of their identifiers, and so  *)
(* are targets.  Contents, digests, assets, wording and the parts of the   *)
(* report that nothing depends on are left out.                            *)
(***************************************************************************)
EXTENDS Integers, Sequences, FiniteSetsExt, SequencesExt

Capability == {"exe", "code", "interpreter", "oracle", "replay", "snapshots",
               "diagnostics", "instrumentation", "profiling", "experimental", "tooling"}

NoCarrier == "no carrier"
NoContract == [entries |-> {}, exits |-> {}, covered |-> {}, boundaries |-> {}]

-----------------------------------------------------------------------------
(* The standard policies.                                                  *)

Detached == {"exe", "code", "interpreter", "oracle", "profiling", "experimental", "tooling"}

Policy(profile) ==
    [required |-> IF profile = "verification" THEN {"oracle"} ELSE {},
     forbidden |-> CASE profile = "detached" -> Detached
                     [] profile = "release" -> Capability
                     [] OTHER -> {},
     evidence |-> 0,
     strict |-> profile = "release",
     fallback |-> profile \notin {"detached", "release"},
     differential |-> profile = "verification"]

-----------------------------------------------------------------------------
(* What the descriptors' constructors accept.                              *)

WellFormedContract(c) == c.entries # {} /\ c.exits # {}

(* (A contract's region is a target of its own, which its entries name.)   *)
WellFormed(e) ==
    /\ e.origin = "authored" <=> e.category # "baseline"
    /\ e.carrier # NoCarrier => e.region
    /\ e.contract # NoContract =>
          /\ WellFormedContract(e.contract)
          /\ e.region /\ e.carrier # NoCarrier
          /\ e.contract.entries \cup e.contract.exits \subseteq e.targets
    /\ e.regionAdapters # {} => e.contract # NoContract
    /\ NoCarrier \notin e.adapters \cup e.regionAdapters
    /\ e.category = "instrumentation" => "instrumentation" \in e.caps

WellFormedFeature(f) ==
    /\ f.category = "presentation" => ~f.authoritative
    /\ f.category = "behavioral" => f.authoritative /\ f.channel /\ f.boundaries # {}
    /\ f.category = "instrumentation" => "instrumentation" \in f.caps

-----------------------------------------------------------------------------
(* Which implementations take part.                                        *)

Chosen(q) == ToSet(q.overrides)
Known(q) == DOMAIN q.catalog
Takes(q, i) == q.catalog[i].origin = "authored" => i \in Chosen(q)
Attaching(e) == e.category \in {"enhancement", "instrumentation"}

Items(q) == {i \in Known(q) : Takes(q, i)}
ChosenAuthored(q) == {i \in Items(q) \cap Chosen(q) : q.catalog[i].origin = "authored"}
Attachments(q) == {i \in ChosenAuthored(q) : Attaching(q.catalog[i])}
Authoritative(q) == {i \in Items(q) : ~Attaching(q.catalog[i])}

(* Why a candidate cannot be taken; nothing is asked of its carrier before *)
(* the program's own is known.                                             *)
Unsupported(q, e) == q.platform # "none" /\ e.platforms # {} /\ q.platform \notin e.platforms

NotCarried(e, carrier) ==
    /\ carrier # NoCarrier
    /\ IF e.contract # NoContract
       THEN carrier \notin e.regionAdapters
       ELSE e.carrier # carrier /\ carrier \notin e.adapters

Rejected(q, i, carrier) ==
    LET e == q.catalog[i]
    IN  \/ e.caps \cap q.policy.forbidden # {}
        \/ Unsupported(q, e)
        \/ e.origin = "authored" /\ e.evidence < q.policy.evidence
        \/ NotCarried(e, carrier)

(* Overrides come first, then the preferred providers, then the others.    *)
(* (An override that is preferred too has its place among the overrides.)  *)
SelectedFirst(q) == q.overrides \o q.preference

Rank(q, i) ==
    LET order == SelectedFirst(q)
        at == {n \in DOMAIN order : order[n] = i}
    IN  IF at = {} THEN Len(order) + 1 ELSE Min(at)

Before(q, i, j) == \/ Rank(q, i) < Rank(q, j)
                   \/ Rank(q, i) = Rank(q, j) /\ i < j

First(q, candidates) == CHOOSE i \in candidates : \A j \in candidates \ {i} : Before(q, i, j)

Candidates(q, t) == {i \in Authoritative(q) : t \in q.catalog[i].targets}

(* The carrier is that of the provider taken at each root.                 *)
Carrying(q, t) == {i \in Candidates(q, t) : /\ q.catalog[i].carrier # NoCarrier
                                            /\ ~Rejected(q, i, NoCarrier)}
RootProviders(q) == {First(q, c) : c \in {Carrying(q, r) : r \in q.roots} \ {{}}}
RootCarriers(q) == {q.catalog[i].carrier : i \in RootProviders(q)}

Carrier(q) == IF RootCarriers(q) = {} THEN NoCarrier
              ELSE CHOOSE c \in RootCarriers(q) : TRUE

-----------------------------------------------------------------------------
(* The bindings: of each reachable target to the first candidate that can  *)
(* be taken.                                                               *)

Admissible(q, t) == {i \in Candidates(q, t) : ~Rejected(q, i, Carrier(q))}
Unresolved(q) == {t \in q.reachable : Admissible(q, t) = {}}

Bindings(q) == [t \in q.reachable \ Unresolved(q) |-> First(q, Admissible(q, t))]

SelectedItems(q) == Attachments(q) \cup {Bindings(q)[t] : t \in DOMAIN Bindings(q)}

BlockedCapabilities(q) ==
    UNION {q.catalog[i].caps \cap q.policy.forbidden :
           i \in UNION {Candidates(q, t) : t \in Unresolved(q)}}

(* The regions among them; the bindings of other implementations that one  *)
(* covers are suppressed while it runs.                                    *)
Regions(q) == {i \in SelectedItems(q) : q.catalog[i].contract # NoContract}

Suppressed(q, i) ==
    {t \in DOMAIN Bindings(q) : /\ t \in q.catalog[i].contract.covered
                                /\ Bindings(q)[t] # i}

(* Services need one another.                                              *)
WantedServices(q) ==
    q.services \cup q.bootstrap.services
    \cup (UNION {q.catalog[i].services : i \in SelectedItems(q)})
    \cup (UNION {q.featureCatalog[f].services : f \in q.features})

Dependencies(q, wanted) ==
    UNION {q.serviceCatalog[s].dependencies : s \in wanted \cap DOMAIN q.serviceCatalog}

(* Faulty, to break properties: dependencies of dependencies forgotten.    *)
ServicesOnce(q) == WantedServices(q) \cup Dependencies(q, WantedServices(q))
RequiredServices(q) ==
    LET rounds == Cardinality(DOMAIN q.serviceCatalog)
        After[n \in 0..rounds] == IF n = 0 THEN WantedServices(q)
                                  ELSE LET s == After[n - 1] IN s \cup Dependencies(q, s)
    IN  After[rounds]

MissingServices(q) == RequiredServices(q) \ DOMAIN q.serviceCatalog
SelectedServices(q) == RequiredServices(q) \cap DOMAIN q.serviceCatalog

(* A target nobody can take because of the platform, a feature or a        *)
(* service that does not support it.                                       *)
Incompatible(q) ==
    \/ \E t \in Unresolved(q), i \in Known(q) :
          i \in Candidates(q, t) /\ Unsupported(q, q.catalog[i])
    \/ \E f \in q.features : Unsupported(q, q.featureCatalog[f])
    \/ \E s \in SelectedServices(q) : Unsupported(q, q.serviceCatalog[s])

(* What all of it requires, and the policy does not allow.                 *)
ServiceCapabilities(q) == UNION {q.serviceCatalog[s].caps : s \in SelectedServices(q)}
RequiredCapabilities(q) ==
    q.policy.required \cup q.requested \cup q.bootstrap.caps \cup BlockedCapabilities(q)
    \cup ServiceCapabilities(q)
    \cup (UNION {q.catalog[i].caps : i \in SelectedItems(q)})
    \cup (UNION {q.featureCatalog[f].caps : f \in q.features})

Forbidden(q) == RequiredCapabilities(q) \cap q.policy.forbidden

(* Edges of the program whose end recovery did not find: missing code, or  *)
(* something the selected implementations have inside.                     *)
Owner(q, t) == IF t \in DOMAIN Bindings(q) THEN Bindings(q)[t] ELSE 0

TargetOwner(q, edge) ==
    LET claiming == {i \in SelectedItems(q) : edge.target \in q.catalog[i].targets}
        source == Owner(q, edge.source)
    IN  IF Owner(q, edge.target) # 0 THEN Owner(q, edge.target)
        ELSE IF source \in claiming THEN source
        ELSE IF Cardinality(claiming) = 1 THEN CHOOSE i \in claiming : TRUE
        ELSE 0

Collapsed(q, edge) ==
    \E i \in Regions(q) : LET e == q.catalog[i]
                          IN  {edge.source, edge.target} \subseteq e.contract.covered \cup e.targets

(* Faulty, to break properties: an observed indirect target is taken as    *)
(* all there are.                                                          *)
BlockingStatic(q, edge) == ~edge.dynamic /\ ~Collapsed(q, edge) /\ TargetOwner(q, edge) = 0
Blocking(q, edge) ==
    edge.dynamic \/ (~Collapsed(q, edge) /\ TargetOwner(q, edge) = 0)

UnresolvedEdges(q) == {edge \in q.edges : Blocking(q, edge)}

-----------------------------------------------------------------------------
(* The initial state's provider.                                           *)

MissingArtifacts(q) ==
    {a \in q.bootstrap.artifacts :
        IF a.mode = "include" THEN ~a.present \/ ~a.matches ELSE ~a.materializer}

BootstrapValid(q) == q.profile \in q.bootstrap.profiles

-----------------------------------------------------------------------------
(* A question that is a mistake is refused.                                *)

Misselected(q) ==
    \/ ~(Chosen(q) \subseteq Known(q))
    \/ ~(q.features \subseteq DOMAIN q.featureCatalog)
    \/ \E i \in ChosenAuthored(q) : q.catalog[i].targets \cap q.reachable = {}
    \/ \E t \in q.reachable : Cardinality(Candidates(q, t) \cap Chosen(q)) > 1
    \/ Cardinality(RootCarriers(q)) > 1
    \/ \E i \in Attachments(q) : Rejected(q, i, Carrier(q))

Torn(q, i) ==
    LET c == q.catalog[i].contract
    IN  \/ \E t \in q.catalog[i].targets : Owner(q, t) # i
        \/ ~(c.covered \subseteq q.reachable)
        \/ \E j \in Regions(q) \ {i} : c.covered \cap q.catalog[j].contract.covered # {}
        \/ Carrier(q) \notin q.catalog[i].regionAdapters

Unfaithful(q) ==
    /\ q.policy.differential
    /\ \/ \E i \in SelectedItems(q) : q.catalog[i].category = "behavioral"
       \/ \E f \in q.features : q.featureCatalog[f].category = "behavioral"

Refused(q) == \/ Misselected(q)
              \/ \E i \in Regions(q) : Torn(q, i)
              \/ Unfaithful(q)

DevelopmentOnly(q) == {s \in SelectedServices(q) : ~q.serviceCatalog[s].safe}

PolicyFailure(q) ==
    \/ Forbidden(q) # {} \/ Unresolved(q) # {} \/ MissingServices(q) # {}
    \/ Incompatible(q) \/ ~BootstrapValid(q) \/ MissingArtifacts(q) # {}
    \/ q.policy.strict /\ UnresolvedEdges(q) # {}
    \/ q.profile = "release" /\ DevelopmentOnly(q) # {}

PackageReady(q) ==
    /\ Unresolved(q) = {} /\ UnresolvedEdges(q) = {} /\ MissingServices(q) = {}
    /\ ~Incompatible(q) /\ BootstrapValid(q) /\ MissingArtifacts(q) = {}
    /\ Forbidden(q) = {} /\ DevelopmentOnly(q) = {}
    /\ q.platform # "none"

(* (An edge between two bound targets is a boundary unless one             *)
(* implementation has both.)                                               *)
Plan(q) ==
    [bindings |-> Bindings(q), carrier |-> Carrier(q),
     regions |-> [i \in Regions(q) |-> Suppressed(q, i)],
     selected |-> SelectedItems(q), services |-> SelectedServices(q),
     requires |-> RequiredCapabilities(q), ready |-> PackageReady(q)]

PlanExecution(q) ==
    IF Refused(q) THEN "refused" ELSE IF PolicyFailure(q) THEN "failed" ELSE "planned"
=============================================================================
