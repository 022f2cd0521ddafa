---------------------------- MODULE ExecutionProofs ----------------------------
(***************************************************************************)
(* Proofs about what executes: the plans, for any catalogue, configuration *)
(* and coverage that PlanAssumption admits; features switched meanwhile;   *)
(* hooks that are verified on the calls they answer; and the arithmetic of *)
(* the interpreter.                                                        *)
(***************************************************************************)
EXTENDS PlanRuntime, FeatureControl, HookVerify, FiniteSetTheorems, WellFoundedInduction, TLAPS

-----------------------------------------------------------------------------
(* The planner.                                                            *)

(* Numbers have a least one.                                               *)
LEMMA LeastOf ==
    ASSUME NEW S \in SUBSET Nat, S # {}
    PROVE  \E m \in S : \A x \in S : m <= x
<1>1. PICK m \in S : \A x \in S : ~(<<x, m>> \in OpToRel(<, Nat))
  BY NatLessThanWellFounded, WFMin
<1>2. ASSUME NEW x \in S PROVE m <= x
  <2>1. x \in Nat /\ m \in Nat
    OBVIOUS
  <2>2. x < m => <<x, m>> \in OpToRel(<, Nat)
    BY <2>1 DEF OpToRel
  <2>3. m <= x \/ x < m
    BY <2>1
  <2> QED BY Zenon, <1>1, <2>2, <2>3
<1> QED BY <1>2

LEMMA RankIsNumber ==
    ASSUME NEW q, WellAsked(q), NEW i
    PROVE  Rank(q, i) \in Nat
<1> DEFINE order == SelectedFirst(q)
           at == {n \in DOMAIN order : order[n] = i}
<1>1. order \in Seq(Nat)
  BY DEF SelectedFirst, WellAsked
<1>2. Len(order) \in Nat /\ DOMAIN order = 1..Len(order)
  BY <1>1
<1>3. at \in SUBSET Nat
  BY <1>2
<1>4. at # {} => Min(at) \in Nat
  <2>1. ASSUME at # {} PROVE \E m \in at : \A x \in at : m <= x
    BY <1>3, <2>1, LeastOf
  <2> QED BY <1>3, <2>1 DEF Min
<1>5. Rank(q, i) = IF at = {} THEN Len(order) + 1 ELSE Min(at)
  BY DEF Rank
<1> QED BY <1>2, <1>4, <1>5

(* The first of some candidates is one of them.                            *)
LEMMA FirstOf ==
    ASSUME NEW q, WellAsked(q), NEW S \in SUBSET Known(q), S # {}
    PROVE  First(q, S) \in S
<1>1. S \in SUBSET Nat
  BY DEF WellAsked
<1> DEFINE ranks == {Rank(q, i) : i \in S}
<1>2. ranks \in SUBSET Nat /\ ranks # {}
  BY RankIsNumber
<1>3. PICK r \in ranks : \A x \in ranks : r <= x
  BY <1>2, LeastOf
<1> DEFINE T == {i \in S : Rank(q, i) = r}
<1>4. T \in SUBSET Nat /\ T # {}
  BY <1>1, <1>3
<1> HIDE DEF T
<1>5. PICK i \in T : \A j \in T : i <= j
  BY <1>4, LeastOf
<1>6. i \in S /\ Rank(q, i) = r /\ i \in Nat
  BY <1>1 DEF T
<1>7. ASSUME NEW j \in S \ {i} PROVE Before(q, i, j)
  <2>1. r <= Rank(q, j) /\ Rank(q, j) \in Nat /\ r \in Nat /\ j \in Nat /\ j # i
    BY <1>1, <1>2, <1>3
  <2>2. Rank(q, j) = r => i <= j
    BY <1>5 DEF T
  <2> QED BY <1>6, <2>1, <2>2 DEF Before
<1> QED BY <1>6, <1>7 DEF First

(* What is bound to a target can be taken there.                           *)
LEMMA BoundIsAdmissible ==
    ASSUME NEW q, WellAsked(q), NEW t \in DOMAIN Bindings(q)
    PROVE  Bindings(q)[t] \in Admissible(q, t)
<1>1. t \in q.reachable \ Unresolved(q) /\ Bindings(q)[t] = First(q, Admissible(q, t))
  BY DEF Bindings
<1>2. Admissible(q, t) \in SUBSET Known(q) /\ Admissible(q, t) # {}
  BY <1>1 DEF Unresolved, Admissible, Candidates, Authoritative, Items
<1> QED BY <1>1, <1>2, FirstOf

(* Whatever takes part can be taken.                                       *)
LEMMA SelectedCanBeTaken ==
    ASSUME NEW q, WellAsked(q), ~Refused(q), NEW i \in SelectedItems(q)
    PROVE  i \in Known(q) /\ i \in Nat \ {0} /\ ~Rejected(q, i, Carrier(q))
<1>1. CASE i \in Attachments(q)
  BY <1>1 DEF Attachments, ChosenAuthored, Items, Refused, Misselected, WellAsked
<1>2. CASE i \notin Attachments(q)
  <2>1. PICK t \in DOMAIN Bindings(q) : i = Bindings(q)[t]
    BY <1>2 DEF SelectedItems
  <2> QED BY <2>1, BoundIsAdmissible DEF Admissible, Candidates, Authoritative, Items, WellAsked
<1> QED BY <1>1, <1>2

(* A region has all of its targets, and an adapter on the carrier.         *)
LEMMA RegionIsWhole ==
    ASSUME NEW q, WellAsked(q), ~Refused(q), NEW i \in Regions(q)
    PROVE  /\ \A t \in q.catalog[i].targets : t \in DOMAIN Bindings(q) /\ Bindings(q)[t] = i
           /\ Carrier(q) \in q.catalog[i].regionAdapters /\ Carrier(q) # NoCarrier
           /\ q.catalog[i].contract.entries \subseteq q.catalog[i].targets
<1>1. i \in Known(q) /\ i # 0 /\ q.catalog[i].contract # NoContract
  BY SelectedCanBeTaken DEF Regions
<1>2. ~Torn(q, i)
  BY DEF Refused
<1>3. \A t \in q.catalog[i].targets : Owner(q, t) = i
  BY <1>2 DEF Torn
<1>4. \A t \in q.catalog[i].targets : t \in DOMAIN Bindings(q) /\ Bindings(q)[t] = i
  BY <1>1, <1>3 DEF Owner
<1>5. WellFormed(q.catalog[i])
  BY <1>1 DEF WellAsked
<1>6. q.catalog[i].contract.entries \subseteq q.catalog[i].targets
  BY <1>1, <1>5 DEF WellFormed
<1>7. Carrier(q) \in q.catalog[i].regionAdapters
  BY <1>2 DEF Torn
<1>8. Carrier(q) # NoCarrier
  BY <1>5, <1>7 DEF WellFormed
<1> QED BY <1>4, <1>6, <1>7, <1>8

(* Where the program has a carrier it has a provider, which can be taken.  *)
LEMMA RootsProvided ==
    ASSUME NEW q, WellAsked(q), NEW i \in RootProviders(q)
    PROVE  i \in Known(q) /\ i \in Nat \ {0} /\ ~Rejected(q, i, NoCarrier)
<1>1. PICK r \in q.roots : Carrying(q, r) # {} /\ i = First(q, Carrying(q, r))
  BY DEF RootProviders
<1>2. Carrying(q, r) \in SUBSET Known(q)
  BY DEF Carrying, Candidates, Authoritative, Items
<1>3. i \in Carrying(q, r)
  BY <1>1, <1>2, FirstOf
<1> QED BY <1>2, <1>3 DEF Carrying, WellAsked

LEMMA CarrierIsProvided ==
    ASSUME NEW q, Carrier(q) # NoCarrier
    PROVE  RootProviders(q) # {}
BY DEF Carrier, RootCarriers

(* What a function implementation needs, it has: an adapter for the        *)
(* carrier, or launching mechanics of its own.                             *)
LEMMA CarriedOrOwn ==
    ASSUME NEW q, WellAsked(q), ~Refused(q), NEW i \in SelectedItems(q), Carrier(q) # NoCarrier
    PROVE  \/ Carrier(q) \in q.catalog[i].adapters
           \/ q.catalog[i].contract # NoContract /\ q.catalog[i].region
           \/ q.catalog[i].carrier = Carrier(q) /\ q.catalog[i].region
<1>1. i \in Known(q) /\ ~Rejected(q, i, Carrier(q))
  BY SelectedCanBeTaken
<1>2. ~NotCarried(q.catalog[i], Carrier(q))
  BY <1>1 DEF Rejected
<1>3. WellFormed(q.catalog[i])
  BY <1>1 DEF WellAsked
<1> QED BY <1>2, <1>3 DEF NotCarried, WellFormed

(* Induction over numbers, for a property that is a set.                   *)
LEMMA Inductive ==
    ASSUME NEW S, 0 \in S, \A i \in Nat : i \in S => i + 1 \in S
    PROVE  Nat \subseteq S
<1>1. SUFFICES ASSUME Nat \ S # {} PROVE FALSE
  OBVIOUS
<1>2. PICK x \in Nat \ S : \A y \in Nat \ S : x <= y
  BY <1>1, LeastOf
<1>3. x # 0 /\ x - 1 \in Nat /\ x - 1 < x /\ x - 1 + 1 = x
  BY <1>2
<1>4. x - 1 \in S
  BY <1>2, <1>3
<1> QED BY <1>2, <1>3, <1>4

(* The rounds that find the services which services need: as many as there *)
(* are services are enough, since each but the last finds another one.     *)
Needing(q, s) == s \cup Dependencies(q, s)
Rounds(q, f) ==
    /\ f[0] = WantedServices(q)
    /\ \A n \in 0..Cardinality(DOMAIN q.serviceCatalog) - 1 : f[n + 1] = Needing(q, f[n])

LEMMA ServicesInRounds ==
    ASSUME NEW q, WellAsked(q)
    PROVE  \E f : Rounds(q, f) /\ RequiredServices(q) = f[Cardinality(DOMAIN q.serviceCatalog)]
<1> DEFINE N == Cardinality(DOMAIN q.serviceCatalog)
           m == WantedServices(q)
           After(r) == LET s == r IN s \cup Dependencies(q, s)
           IsRun(f, j) == f = [i \in 0..j |-> IF i = 0 THEN m ELSE After(f[i - 1])]
           S == {j \in Nat : \E f : IsRun(f, j)}
<1>0. N \in Nat
  BY FS_CardinalityType DEF WellAsked
<1>1. 0 \in S
  <2> DEFINE f == [i \in 0..0 |-> m]
  <2>1. IsRun(f, 0)
    OBVIOUS
  <2> QED BY <2>1
<1>2. ASSUME NEW j \in Nat, j \in S PROVE j + 1 \in S
  <2>1. PICK f : IsRun(f, j)
    BY <1>2
  <2> DEFINE last == After(f[j])
             g == [i \in 0..j + 1 |-> IF i = j + 1 THEN last ELSE f[i]]
  <2>2. \A i \in 0..j : g[i] = f[i]
    OBVIOUS
  <2> HIDE DEF m, After
  <2>3. ASSUME NEW i \in 0..j + 1
        PROVE  g[i] = IF i = 0 THEN m ELSE After(g[i - 1])
    <3>1. CASE i = j + 1
      <4>1. i - 1 = j /\ i # 0 /\ g[j] = f[j]
        BY <2>2, <3>1
      <4> QED BY <3>1, <4>1
    <3>2. CASE i \in 0..j
      <4>1. f[i] = IF i = 0 THEN m ELSE After(f[i - 1])
        BY <2>1, <3>2
      <4>2. i # 0 => i - 1 \in 0..j
        BY <3>2
      <4> HIDE DEF g
      <4> QED BY <2>2, <3>2, <4>1, <4>2
    <3> QED BY <3>1, <3>2
  <2>4. g = [i \in 0..j + 1 |-> g[i]]
    OBVIOUS
  <2> HIDE DEF g
  <2>5. IsRun(g, j + 1)
    BY <2>3, <2>4
  <2>6. \E f1 : IsRun(f1, j + 1)
    BY <2>5
  <2> QED BY <2>6
<1>3. N \in S
  <2> HIDE DEF S, N
  <2> QED BY <1>0, <1>1, <1>2, Inductive
<1> DEFINE f == CHOOSE f : IsRun(f, N)
<1>4. IsRun(f, N)
  BY <1>3
<1>5. RequiredServices(q) = f[N]
  BY DEF RequiredServices
<1> HIDE DEF f
<1> HIDE DEF m, After, N
<1>6. f = [i \in 0..N |-> IF i = 0 THEN m ELSE After(f[i - 1])]
  BY <1>4
<1>7. \A i \in 0..N : f[i] = IF i = 0 THEN m ELSE After(f[i - 1])
  BY <1>6
<1>8. f[0] = m /\ \A n \in 0..N - 1 : f[n + 1] = After(f[n])
  <2>1. ASSUME NEW n \in 0..N - 1 PROVE n + 1 \in 0..N /\ n + 1 # 0 /\ n + 1 - 1 = n
    BY <1>0
  <2>2. 0 \in 0..N
    BY <1>0
  <2> QED BY <1>7, <2>1, <2>2
<1>9. Rounds(q, f)
  BY <1>8 DEF Rounds, Needing, After, m, N
<1> QED BY <1>5, <1>9 DEF N

LEMMA ServicesClosed ==
    ASSUME NEW q, WellAsked(q)
    PROVE  /\ WantedServices(q) \subseteq RequiredServices(q)
           /\ Dependencies(q, RequiredServices(q)) \subseteq RequiredServices(q)
<1> DEFINE D == DOMAIN q.serviceCatalog
           N == Cardinality(D)
<1>0. IsFiniteSet(D) /\ N \in Nat
  BY FS_CardinalityType DEF WellAsked
<1>1. PICK f : Rounds(q, f) /\ RequiredServices(q) = f[N]
  BY ServicesInRounds
<1> DEFINE K(n) == f[n] \cap D
           Dep(s) == Dependencies(q, s)
<1>2. \A s, r : s \cap D = r \cap D => Dep(s) = Dep(r)
  BY DEF Dependencies
<1>3. \A s, r : s \subseteq r => Dep(s) \subseteq Dep(r)
  BY DEF Dependencies
<1>4. f[0] = WantedServices(q) /\ \A n \in 0..N - 1 : f[n + 1] = f[n] \cup Dep(f[n])
  BY <1>1 DEF Rounds, Needing
<1> HIDE DEF Dep, D, N
(* In each round something is found, or nothing is any more.               *)
<1> DEFINE Grown(n) == /\ WantedServices(q) \subseteq f[n]
                       /\ Dep(f[n]) \subseteq f[n] \/ Cardinality(K(n)) >= n + 1
           S == {n \in Nat : n < N => Grown(n)}
<1>5. \A n \in Nat : IsFiniteSet(K(n)) /\ Cardinality(K(n)) \in Nat /\ Cardinality(K(n)) <= N
  BY <1>0, FS_Subset, FS_CardinalityType DEF N
<1>6. 0 \in S
  <2>1. K(0) = {} => Dep(f[0]) = {}
    BY DEF Dep, Dependencies, D
  <2>2. K(0) # {} => Cardinality(K(0)) >= 1
    <3>1. Cardinality(K(0)) = 0 <=> K(0) = {}
      BY <1>5, FS_EmptySet
    <3> QED BY <1>5, <3>1
  <2> QED BY <1>4, <2>1, <2>2
<1>7. ASSUME NEW n \in Nat, n \in S PROVE n + 1 \in S
  <2>1. SUFFICES ASSUME n + 1 < N PROVE Grown(n + 1)
    OBVIOUS
  <2>2. f[n + 1] = f[n] \cup Dep(f[n]) /\ Grown(n)
    BY <1>0, <1>4, <1>7, <2>1
  <2>3. CASE K(n + 1) = K(n)
    <3>1. Dep(f[n + 1]) = Dep(f[n])
      BY <1>2, <2>3
    <3> QED BY <2>2, <3>1
  <2>4. CASE K(n + 1) # K(n)
    <3>1. K(n) \subseteq K(n + 1)
      BY <2>2
    <3>2. Cardinality(K(n)) < Cardinality(K(n + 1))
      BY <1>5, <2>4, <3>1, FS_Subset
    <3>3. Dep(f[n]) \subseteq f[n] => FALSE
      BY <2>2, <2>4
    <3>4. Cardinality(K(n)) >= n + 1
      BY <2>2, <3>3
    <3>5. Cardinality(K(n + 1)) >= n + 1 + 1
      <4>1. \A a, b \in Nat : a < b /\ a >= n + 1 => b >= n + 1 + 1
        OBVIOUS
      <4>2. n + 1 \in Nat
        OBVIOUS
      <4> QED BY ONLY <1>5, <3>2, <3>4, <4>1, <4>2
    <3> QED BY <2>2, <3>5
  <2> QED BY <2>3, <2>4
<1>8. \A n \in Nat : n < N => Grown(n)
  <2>1. Nat \subseteq S
    <3> HIDE DEF S
    <3> QED BY <1>6, <1>7, Inductive
  <2> QED BY <2>1
<1>9. CASE N = 0
  <2>1. D = {}
    BY <1>0, <1>9, FS_EmptySet DEF N
  <2>2. \A s : Dep(s) = {}
    BY <2>1 DEF Dep, Dependencies, D
  <2> QED BY <1>1, <1>4, <1>9, <2>2 DEF Dep
<1>10. CASE N # 0
  <2> DEFINE n == N - 1
  <2>1. n \in Nat /\ n < N /\ n + 1 = N /\ n \in 0..N - 1
    BY <1>0, <1>10
  <2>2. Grown(n) /\ f[N] = f[n] \cup Dep(f[n])
    BY <1>4, <1>8, <2>1
  <2> HIDE DEF n
  <2>3. CASE Dep(f[n]) \subseteq f[n]
    <3>1. f[N] = f[n]
      BY <2>2, <2>3
    <3> QED BY <1>1, <2>2, <2>3, <3>1 DEF Dep
  <2>4. CASE Cardinality(K(n)) >= n + 1
    <3>1. Cardinality(K(n)) = Cardinality(D) /\ K(n) \subseteq D
      <4>1. \A a \in Nat : a <= N /\ a >= n + 1 => a = N
        BY <1>0, <2>1
      <4>2. Cardinality(K(n)) = N
        BY ONLY <1>5, <2>1, <2>4, <4>1
      <4> QED BY <4>2 DEF N
    <3>2. K(n) = D
      BY <1>0, <3>1, FS_Subset
    <3>3. f[N] \cap D = f[n] \cap D
      BY <2>2, <3>2
    <3>4. Dep(f[N]) = Dep(f[n])
      BY <1>2, <3>3
    <3> QED BY <1>1, <2>2, <3>4 DEF Dep
  <2> QED BY <2>2, <2>3, <2>4
<1> QED BY <1>9, <1>10

(* What a function takes on a finite set is finite.                        *)
LEMMA FiniteRange ==
    ASSUME NEW S, IsFiniteSet(S), NEW f, f = [x \in S |-> f[x]]
    PROVE  IsFiniteSet({f[x] : x \in S})
<1> DEFINE T == {f[x] : x \in S}
<1>1. f \in Surjection(S, T)
  BY DEF Surjection
<1> QED BY <1>1, FS_Surjection

(* There is one carrier, and it is that of each provider at a root.        *)
LEMMA OneCarrier ==
    ASSUME NEW q, WellAsked(q), ~Refused(q), NEW i \in RootProviders(q)
    PROVE  q.catalog[i].carrier = Carrier(q)
<1>1. IsFiniteSet(RootProviders(q))
  <2> DEFINE f == [r \in q.roots |-> Carrying(q, r)]
             R == {f[r] : r \in q.roots} \ {{}}
             g == [c \in R |-> First(q, c)]
  <2>1. IsFiniteSet({f[r] : r \in q.roots})
    <3>1. f = [r \in q.roots |-> f[r]]
      OBVIOUS
    <3>2. IsFiniteSet(q.roots)
      BY DEF WellAsked
    <3> HIDE DEF f
    <3> QED BY <3>1, <3>2, FiniteRange
  <2>2. IsFiniteSet(R)
    BY <2>1, FS_Subset
  <2>3. IsFiniteSet({g[c] : c \in R})
    <3>1. g = [c \in R |-> g[c]]
      OBVIOUS
    <3> HIDE DEF g, R
    <3> QED BY <2>2, <3>1, FiniteRange
  <2>4. R = {Carrying(q, r) : r \in q.roots} \ {{}}
    OBVIOUS
  <2>5. {g[c] : c \in R} = {First(q, c) : c \in R}
    OBVIOUS
  <2> HIDE DEF R, g
  <2> QED BY <2>3, <2>4, <2>5 DEF RootProviders
<1>2. IsFiniteSet(RootCarriers(q))
  <2> DEFINE f == [j \in RootProviders(q) |-> q.catalog[j].carrier]
  <2>1. f = [j \in RootProviders(q) |-> f[j]]
    OBVIOUS
  <2>2. RootCarriers(q) = {f[j] : j \in RootProviders(q)}
    BY DEF RootCarriers
  <2> HIDE DEF f
  <2> QED BY <1>1, <2>1, <2>2, FiniteRange
<1>3. q.catalog[i].carrier \in RootCarriers(q)
  BY DEF RootCarriers
<1>4. Carrier(q) \in RootCarriers(q)
  BY <1>3 DEF Carrier
<1>5. ASSUME q.catalog[i].carrier # Carrier(q) PROVE FALSE
  <2> DEFINE P == {q.catalog[i].carrier, Carrier(q)}
  <2>1. Cardinality(P) = 2 /\ IsFiniteSet(P)
    <3>1. Cardinality({Carrier(q)}) = 1 /\ IsFiniteSet({Carrier(q)})
      BY FS_Singleton
    <3>2. P = {Carrier(q)} \cup {q.catalog[i].carrier}
      OBVIOUS
    <3>3. q.catalog[i].carrier \notin {Carrier(q)}
      BY <1>5
    <3>4. Cardinality(P) = Cardinality({Carrier(q)}) + 1 /\ IsFiniteSet(P)
      <4> HIDE DEF P
      <4> QED BY Zenon, <3>1, <3>2, <3>3, FS_AddElement
    <3> QED BY <3>1, <3>4
  <2>2. P \subseteq RootCarriers(q)
    BY <1>3, <1>4
  <2>3. Cardinality(P) <= Cardinality(RootCarriers(q))
    BY <1>2, <2>2, FS_Subset
  <2>4. Cardinality(RootCarriers(q)) \in Nat
    BY <1>2, FS_CardinalityType
  <2>5. Cardinality(RootCarriers(q)) > 1
    BY <2>1, <2>3, <2>4
  <2> QED BY <2>5 DEF Refused, Misselected
<1> QED BY <1>5

-----------------------------------------------------------------------------
(* The runtime.                                                            *)

Granted == answer = "planned"

(* The plan is the planner's answer; a runtime that has a plan has it on   *)
(* the carrier it was bound on, and is kept from interpreting if the       *)
(* policy says so.                                                         *)
BoundInv ==
    /\ question \in Questions
    /\ Granted => PlanExecution(question) = "planned" /\ plan = Plan(question)
    /\ bound # Unbound => Granted /\ bound.carrier \in Carriers
    /\ barred = (bound # Unbound /\ ~question.policy.fallback)

(* Whatever was activated, or is to be, is the plan's; a region is entered *)
(* at its entries.                                                         *)
InstalledInv ==
    /\ awaiting # {} => bound # Unbound
    /\ awaiting \subseteq Activations(bound.carrier)
    /\ DOMAIN handler = question.reachable /\ DOMAIN entered = question.reachable
    /\ \A t \in question.reachable :
          /\ handler[t] # None => Granted /\ t \in DOMAIN plan.bindings /\ handler[t] = plan.bindings[t]
          /\ entered[t] # None => /\ bound # Unbound /\ entered[t] \in DOMAIN plan.regions
                                  /\ t \in Item(entered[t]).contract.entries
    /\ region.id # None => bound # Unbound /\ region.id \in DOMAIN plan.regions

(* What ran is of the plan, or is what surrounds a region of it.           *)
RanInv ==
    /\ ran # NoRun => bound # Unbound
    /\ ran.by \in {None, Interpreter, Frontier} \cup plan.selected \cup RootProviders(question)
    /\ NothingElseRuns

PlanInv == BoundInv /\ InstalledInv /\ RanInv

LEMMA PlanInvInit == PlanInit => PlanInv
<1> SUFFICES ASSUME PlanInit PROVE PlanInv
  OBVIOUS
<1>1. BoundInv
  BY DEF PlanInit, BoundInv, Granted
<1>2. InstalledInv
  BY DEF PlanInit, InstalledInv, NoRegion, None
<1>3. RanInv
  BY DEF PlanInit, RanInv, NothingElseRuns, NoRun, None
<1> QED BY <1>1, <1>2, <1>3 DEF PlanInv

(* A granted plan, taken apart.                                            *)
LEMMA WhatIsGranted ==
    ASSUME BoundInv, Granted
    PROVE  /\ WellAsked(question) /\ ~Refused(question) /\ ~PolicyFailure(question)
           /\ plan.bindings = Bindings(question) /\ plan.carrier = Carrier(question)
           /\ plan.selected = SelectedItems(question) /\ DOMAIN plan.regions = Regions(question)
           /\ plan.services = SelectedServices(question)
           /\ DOMAIN plan.bindings = question.reachable
           /\ \A t \in DOMAIN plan.bindings : plan.bindings[t] \in plan.selected
<1>1. WellAsked(question)
  BY PlanAssumption DEF BoundInv
<1>2. ~Refused(question) /\ ~PolicyFailure(question)
  BY DEF BoundInv, PlanExecution
<1>3. /\ plan.bindings = Bindings(question) /\ plan.carrier = Carrier(question)
      /\ plan.selected = SelectedItems(question) /\ DOMAIN plan.regions = Regions(question)
      /\ plan.services = SelectedServices(question)
  BY DEF BoundInv, Plan
<1>4. Unresolved(question) = {}
  BY <1>2 DEF PolicyFailure
<1>5. DOMAIN plan.bindings = question.reachable
  BY <1>3, <1>4 DEF Bindings
<1>6. \A t \in DOMAIN plan.bindings : plan.bindings[t] \in plan.selected
  BY <1>3 DEF SelectedItems
<1> QED BY <1>1, <1>2, <1>3, <1>5, <1>6

(* None of a granted plan's implementations needs what is forbidden.       *)
LEMMA NothingForbidden ==
    ASSUME BoundInv, Granted, NEW i \in plan.selected \cup RootProviders(question)
    PROVE  /\ i \in Nat \ {0} /\ i \in Known(question)
           /\ Item(i).caps \cap question.policy.forbidden = {}
<1>1. CASE i \in plan.selected
  <2>1. i \in SelectedItems(question)
    BY <1>1, WhatIsGranted
  <2>2. i \in Known(question) /\ i \in Nat \ {0} /\ ~Rejected(question, i, Carrier(question))
    BY <2>1, WhatIsGranted, SelectedCanBeTaken
  <2> QED BY <2>2 DEF Rejected, Item
<1>2. CASE i \in RootProviders(question)
  BY <1>2, WhatIsGranted, RootsProvided DEF Rejected, Item
<1> QED BY <1>1, <1>2

(* So that an interpreted one is only there if the interpreter may run.    *)
LEMMA InterpretedMayRun ==
    ASSUME BoundInv, bound # Unbound, NEW i \in plan.selected \cup RootProviders(question),
           Item(i).origin = "interpreted"
    PROVE  ~barred
<1>1. Granted
  BY DEF BoundInv
<1>2. /\ i \in Known(question)
      /\ Item(i).caps \cap question.policy.forbidden = {} /\ WellAsked(question)
  BY <1>1, NothingForbidden, WhatIsGranted
<1>3. "interpreter" \in Item(i).caps
  BY <1>2 DEF WellAsked, Item
<1> QED BY <1>2, <1>3 DEF WellAsked, BoundInv

(* Who runs at a target to which the runtime's dispatch comes.             *)
LEMMA DispatchedAsPlanned ==
    ASSUME PlanInv, Complete, bound.carrier = plan.carrier,
           NEW t \in question.reachable, entered[t] = None
    PROVE  LET i == plan.bindings[t]
               left == Item(i).contract # NoContract /\ t \notin Item(i).contract.entries
               planned == IF left THEN Surrounding ELSE i
           IN  /\ t \in DOMAIN plan.bindings
               /\ \/ Dispatched(t) = planned \/ Dispatched(t) = i
                  \/ Dispatched(t) = Interpreter /\ Item(planned).origin = "interpreted"
<1> DEFINE i == plan.bindings[t]
           q == question
<1>1. bound # Unbound /\ Granted /\ BoundInv /\ bound.carrier \in Carriers
  BY DEF Complete, PlanInv, BoundInv
<1>2. /\ WellAsked(q) /\ ~Refused(q) /\ t \in DOMAIN plan.bindings /\ i = Bindings(q)[t]
      /\ i \in SelectedItems(q) /\ i \in plan.selected /\ Carrier(q) = bound.carrier
      /\ Carrier(q) # NoCarrier /\ t \in DOMAIN Bindings(q) /\ DOMAIN plan.regions = Regions(q)
  BY <1>1, WhatIsGranted, PlanAssumption
<1>3. i \in Nat \ {0} /\ i \in Known(q)
  BY <1>1, <1>2, NothingForbidden
<1>4. i \in Authoritative(q)
  BY <1>2, BoundIsAdmissible DEF Admissible, Candidates
<1>5. CASE handler[t] # None
  BY <1>2, <1>5 DEF Dispatched, PlanInv, InstalledInv
<1>6. CASE handler[t] = None
  <2>1. CASE Item(i).contract # NoContract
    <3>1. i \in Regions(q)
      BY <1>2, <2>1 DEF Regions, Item
    <3>2. [region |-> TRUE, of |-> i] \in Activations(bound.carrier)
      BY <1>2, <3>1 DEF Activations
    <3>3. t \notin Item(i).contract.entries
      <4> SUFFICES ASSUME t \in Item(i).contract.entries PROVE FALSE
        OBVIOUS
      <4> DEFINE a == [region |-> TRUE, of |-> i]
      <4>1. a.region /\ a.of = i
        OBVIOUS
      <4>2. entered[t] = i
        BY <3>2, <4>1 DEF Complete
      <4> QED BY <1>3, <4>2 DEF None
    <3>4. Provider(t) = Surrounding
      BY <2>1 DEF Provider
    <3>5. Surrounding \in RootProviders(q)
      BY <1>2, CarrierIsProvided DEF Surrounding
    <3>6. Item(Surrounding).carrier = bound.carrier
      BY <1>2, <3>5, OneCarrier DEF Item
    <3>7. CASE Item(Surrounding).origin = "interpreted"
      <4>1. ~barred
        BY <1>1, <3>5, <3>7, InterpretedMayRun
      <4>2. Dispatched(t) = Interpreter
        BY <1>6, <3>4, <3>7, <4>1 DEF Dispatched, Runs
      <4> QED BY <1>2, <2>1, <3>3, <3>7, <4>2
    <3>8. CASE Item(Surrounding).origin # "interpreted"
      <4>1. Dispatched(t) = Surrounding
        BY <1>6, <3>4, <3>6, <3>8 DEF Dispatched, Runs
      <4> QED BY <1>2, <2>1, <3>3, <4>1
    <3> QED BY <3>7, <3>8
  <2>2. CASE Item(i).contract = NoContract
    <3>1. ~Adapted(i, bound.carrier)
      <4> SUFFICES ASSUME Adapted(i, bound.carrier) PROVE FALSE
        OBVIOUS
      <4> DEFINE a == [region |-> FALSE, of |-> i]
      <4>1. t \in TargetsOf(i)
        BY <1>2 DEF TargetsOf
      <4>2. a \in Activations(bound.carrier)
        BY <1>2, <4>1 DEF Activations
      <4>3. ~a.region /\ a.of = i
        OBVIOUS
      <4>4. ~Attaching(Item(i))
        BY <1>4 DEF Authoritative, Item
      <4>5. handler[t] = i
        BY <4>1, <4>2, <4>3, <4>4 DEF Complete, Installed
      <4> QED BY <1>3, <1>6, <4>5 DEF None
    <3>2. Item(i).carrier = bound.carrier
      BY <1>2, <2>2, <3>1, CarriedOrOwn DEF Adapted, Item
    <3>3. Provider(t) = i
      BY <2>2 DEF Provider
    <3>4. CASE Item(i).origin = "interpreted"
      <4>1. ~barred
        BY <1>1, <1>2, <3>4, InterpretedMayRun
      <4>2. Dispatched(t) = Interpreter
        BY <1>6, <3>3, <3>4, <4>1 DEF Dispatched, Runs
      <4> QED BY <1>2, <2>2, <3>4, <4>2
    <3>5. CASE Item(i).origin # "interpreted"
      <4>1. Dispatched(t) = i
        BY <1>6, <3>2, <3>3, <3>5 DEF Dispatched, Runs
      <4> QED BY <1>2, <4>1
    <3> QED BY <3>4, <3>5
  <2> QED BY <2>1, <2>2
<1> QED BY <1>5, <1>6

LEMMA BoundInvStep ==
    ASSUME PlanInv, [PlanNext]_planRunVars
    PROVE  BoundInv'
<1> USE DEF PlanInv, BoundInv, Granted
<1>1. CASE Ask
  BY <1>1 DEF Ask, runtimeVars
<1>2. ASSUME NEW carrier \in Carriers, Bind(carrier) PROVE BoundInv'
  <2>1. CASE bound # Unbound /\ bound.carrier # carrier
    BY <1>2, <2>1 DEF Bind, planVars, runtimeVars
  <2>2. CASE ~(bound # Unbound /\ bound.carrier # carrier)
    <3>1. bound' = [plan |-> TRUE, carrier |-> carrier] /\ bound' # Unbound /\ bound'.carrier = carrier
      BY <1>2, <2>2 DEF Bind, Unbound
    <3>2. barred' = (barred \/ ~question.policy.fallback)
      BY <1>2, <2>2 DEF Bind
    <3>3. answer = "planned" /\ UNCHANGED <<question, answer, plan>>
      BY <1>2 DEF Bind, planVars
    <3>4. barred' = (bound' # Unbound /\ ~question'.policy.fallback)
      BY Zenon, <3>1, <3>2, <3>3
    <3> QED BY <3>1, <3>3, <3>4
  <2> QED BY <2>1, <2>2
<1>3. CASE UNCHANGED <<question, answer, plan, bound, barred>>
  BY <1>3
<1>4. ASSUME Activate \/ ActivationFails \/ (\E t \in question.reachable : CallShell(t) \/ Enter(t))
             \/ AdvanceToBoundary \/ Reset \/ (\E completes \in BOOLEAN : AdvanceToExit(completes))
             \/ UNCHANGED planRunVars
      PROVE  UNCHANGED <<question, answer, plan, bound, barred>>
  BY <1>4 DEF Activate, ActivationFails, CallShell, Enter, AdvanceToBoundary, Reset, AdvanceToExit,
              planVars, runtimeVars, planRunVars
<1> QED BY <1>1, <1>2, <1>3, <1>4 DEF PlanNext

LEMMA InstalledInvStep ==
    ASSUME PlanInv, [PlanNext]_planRunVars
    PROVE  InstalledInv'
<1>0. BoundInv /\ InstalledInv
  BY DEF PlanInv
<1>1. CASE Ask
  <2>1. bound = Unbound /\ ~Granted
    BY <1>0, <1>1 DEF Ask, BoundInv, Granted
  <2>2. awaiting = {} /\ region.id = None /\ \A t \in question.reachable : handler[t] = None /\ entered[t] = None
    BY <1>0, <2>1 DEF InstalledInv
  <2> QED BY <1>0, <1>1, <2>2 DEF Ask, InstalledInv, runtimeVars
<1>2. ASSUME NEW carrier \in Carriers, Bind(carrier) PROVE InstalledInv'
  <2>1. CASE bound # Unbound /\ bound.carrier # carrier
    BY <1>0, <1>2, <2>1
       DEF Bind, planVars, runtimeVars, InstalledInv, Granted, Activations, Item, TargetsOf, Adapted, Bridgeless
  <2>2. CASE ~(bound # Unbound /\ bound.carrier # carrier)
    <3>1. /\ bound' = [plan |-> TRUE, carrier |-> carrier] /\ bound' # Unbound /\ bound'.carrier = carrier
          /\ awaiting' = Activations(carrier)
          /\ UNCHANGED <<question, answer, plan, handler, entered, region>>
      BY <1>2, <2>2 DEF Bind, Unbound, planVars
    <3>2. awaiting' \subseteq Activations(bound.carrier)'
      BY <3>1 DEF Activations, Item, TargetsOf, Adapted, Bridgeless
    <3>3. answer' = "planned"
      BY <1>2 DEF Bind, planVars
    <3> QED BY <1>0, <3>1, <3>2, <3>3 DEF InstalledInv, Granted, Item
  <2> QED BY <2>1, <2>2
<1>3. CASE Activate
  <2>1. PICK a \in awaiting :
          /\ entered' = [t \in DOMAIN entered |->
                           IF a.region /\ t \in Item(a.of).contract.entries THEN a.of ELSE entered[t]]
          /\ handler' = [t \in DOMAIN handler |->
                           IF ~a.region /\ t \in Installed(a.of) /\ ~Attaching(Item(a.of))
                           THEN a.of ELSE handler[t]]
          /\ awaiting' = awaiting \ {a}
    BY <1>3 DEF Activate
  <2>2. UNCHANGED <<question, answer, plan, bound, region>>
    BY <1>3 DEF Activate, planVars
  <2>3. a \in Activations(bound.carrier) /\ bound # Unbound /\ Granted
    BY <1>0 DEF InstalledInv, BoundInv
  <2>4. a.region => a.of \in DOMAIN plan.regions
    BY <2>3 DEF Activations
  <2>5. \A t : t \in Installed(a.of) /\ ~Attaching(Item(a.of))
               => t \in DOMAIN plan.bindings /\ a.of = plan.bindings[t]
    BY DEF Installed, TargetsOf
  <2>6. Activations(bound.carrier)' = Activations(bound.carrier)
    BY <2>2 DEF Activations, Item, TargetsOf, Adapted, Bridgeless
  <2>7. \A t \in question.reachable :
           handler'[t] # None => t \in DOMAIN plan.bindings /\ handler'[t] = plan.bindings[t]
    BY <1>0, <2>1, <2>5 DEF InstalledInv
  <2>8. \A t \in question.reachable :
           entered'[t] # None => entered'[t] \in DOMAIN plan.regions /\ t \in Item(entered'[t]).contract.entries
    BY <1>0, <2>1, <2>4 DEF InstalledInv
  <2>9. DOMAIN handler' = question.reachable /\ DOMAIN entered' = question.reachable /\ awaiting' \subseteq awaiting
    BY <1>0, <2>1 DEF InstalledInv
  <2> QED BY <1>0, <2>2, <2>3, <2>6, <2>7, <2>8, <2>9 DEF InstalledInv, Granted, Item
<1>4. ASSUME UNCHANGED <<question, answer, plan, bound, handler, entered>>,
             awaiting' \subseteq awaiting,
             region'.id # None => bound # Unbound /\ region'.id \in DOMAIN plan.regions
      PROVE  InstalledInv'
  <2>1. Activations(bound.carrier)' = Activations(bound.carrier)
    BY <1>4 DEF Activations, Item, TargetsOf, Adapted, Bridgeless
  <2>2. awaiting' \subseteq Activations(bound.carrier)' /\ (awaiting' # {} => bound' # Unbound)
    BY <1>0, <1>4, <2>1 DEF InstalledInv
  <2>3. \A t \in question.reachable :
          /\ handler[t] # None => Granted /\ t \in DOMAIN plan.bindings /\ handler[t] = plan.bindings[t]
          /\ entered[t] # None => /\ bound # Unbound /\ entered[t] \in DOMAIN plan.regions
                                  /\ t \in Item(entered[t]).contract.entries
    BY <1>0 DEF InstalledInv
  <2>4. DOMAIN handler = question.reachable /\ DOMAIN entered = question.reachable
    BY <1>0 DEF InstalledInv
  <2> QED BY <1>4, <2>2, <2>3, <2>4 DEF InstalledInv, Granted, Item
<1>5. ASSUME NEW t \in question.reachable, Enter(t) PROVE InstalledInv'
  <2>1. UNCHANGED <<question, answer, plan, bound, handler, entered, awaiting>> /\ region'.id = entered[t]
    BY <1>5 DEF Enter, planVars, runtimeVars
  <2> QED BY <1>0, <1>4, <2>1 DEF InstalledInv
<1>6. CASE ActivationFails
  BY <1>0, <1>4, <1>6 DEF ActivationFails, planVars, InstalledInv
<1>7. CASE (\E t \in question.reachable : CallShell(t)) \/ AdvanceToBoundary \/ Reset \/ UNCHANGED planRunVars
  <2>1. UNCHANGED <<question, answer, plan, bound, handler, entered>> /\ awaiting' = awaiting
    BY <1>7 DEF CallShell, AdvanceToBoundary, Reset, planVars, runtimeVars, planRunVars
  <2>2. region' = region \/ region' = NoRegion
    BY <1>7 DEF CallShell, AdvanceToBoundary, Reset, planRunVars
  <2> QED BY <1>0, <1>4, <2>1, <2>2 DEF InstalledInv, NoRegion
<1>8. ASSUME NEW completes \in BOOLEAN, AdvanceToExit(completes) PROVE InstalledInv'
  <2>1. region' = NoRegion \/ region' = [id |-> region.id, over |-> TRUE]
    BY <1>8 DEF AdvanceToExit
  <2>2. region'.id # None => region'.id = region.id
    BY <2>1 DEF NoRegion
  <2> QED BY <1>0, <1>4, <1>8, <2>2 DEF AdvanceToExit, planVars, runtimeVars, InstalledInv
<1> QED BY <1>1, <1>2, <1>3, <1>5, <1>6, <1>7, <1>8 DEF PlanNext

LEMMA RanInvStep ==
    ASSUME PlanInv, [PlanNext]_planRunVars
    PROVE  RanInv'
<1>0. BoundInv /\ InstalledInv /\ RanInv
  BY DEF PlanInv
<1>1. ASSUME ran' = NoRun PROVE RanInv'
  BY <1>1 DEF RanInv, NothingElseRuns, NoRun, None
<1>2. ASSUME UNCHANGED <<question, plan, bound, ran>> PROVE RanInv'
  <2>1. /\ RootProviders(question)' = RootProviders(question) /\ Surrounding' = Surrounding
        /\ \A i : Item(i)' = Item(i)
    BY <1>2 DEF Surrounding, Item
  <2> QED BY <1>0, <1>2, <2>1 DEF RanInv, NothingElseRuns
<1>3. CASE Ask
  <2>1. ran' = NoRun
    BY <1>0, <1>3 DEF Ask, RanInv, BoundInv, Granted
  <2> QED BY <1>1, <2>1
<1>4. ASSUME NEW carrier \in Carriers, Bind(carrier) PROVE RanInv'
  <2>1. CASE bound # Unbound /\ bound.carrier # carrier
    BY <1>2, <1>4, <2>1 DEF Bind, planVars, runtimeVars
  <2>2. CASE bound = Unbound
    <3>1. ran' = NoRun
      BY <1>0, <1>4, <2>2 DEF Bind, RanInv
    <3> QED BY <1>1, <3>1
  <2>3. CASE bound # Unbound /\ bound.carrier = carrier
    <3>1. bound'.carrier = bound.carrier /\ bound' # Unbound /\ UNCHANGED <<question, plan, ran>>
      BY <1>4, <2>3 DEF Bind, planVars, Unbound
    <3>2. /\ RootProviders(question)' = RootProviders(question) /\ Surrounding' = Surrounding
          /\ \A i : Item(i)' = Item(i)
      BY <3>1 DEF Surrounding, Item
    <3> QED BY <1>0, <3>1, <3>2 DEF RanInv, NothingElseRuns
  <2> QED BY <2>1, <2>2, <2>3
<1>5. ASSUME NEW t \in question.reachable, CallShell(t) PROVE RanInv'
  <2>1. /\ Complete /\ entered[t] = None /\ ran' = [target |-> t, by |-> Dispatched(t)]
        /\ UNCHANGED <<question, plan, bound>>
    BY <1>5 DEF CallShell, planVars, runtimeVars
  <2>2. bound # Unbound /\ Granted
    BY <1>0, <2>1 DEF Complete, BoundInv
  <2>3. Dispatched(t) \in {Interpreter, Frontier} \cup plan.selected \cup RootProviders(question)
    <3>1. handler[t] # None => handler[t] \in plan.selected
      BY <1>0, <2>2, WhatIsGranted DEF InstalledInv
    <3>2. /\ t \in DOMAIN plan.bindings /\ plan.bindings[t] \in plan.selected
          /\ WellAsked(question) /\ ~Refused(question)
          /\ plan.selected = SelectedItems(question) /\ plan.carrier = Carrier(question)
      BY <1>0, <2>2, WhatIsGranted
    <3>3. Provider(t) \in plan.selected \cup RootProviders(question)
      <4>1. CASE Item(plan.bindings[t]).contract # NoContract
        <5>1. plan.bindings[t] \in Regions(question)
          BY <3>2, <4>1 DEF Regions, Item
        <5>2. RootProviders(question) # {}
          BY <3>2, <5>1, RegionIsWhole, CarrierIsProvided
        <5> QED BY <4>1, <5>2 DEF Provider, Surrounding
      <4>2. CASE Item(plan.bindings[t]).contract = NoContract
        BY <3>2, <4>2 DEF Provider
      <4> QED BY <4>1, <4>2
    <3> QED BY <3>1, <3>3 DEF Dispatched
  <2>4. bound.carrier = plan.carrier => NothingElseRuns'
    <3> SUFFICES ASSUME bound.carrier = plan.carrier PROVE NothingElseRuns'
      OBVIOUS
    <3>1. /\ Surrounding' = Surrounding /\ \A i : Item(i)' = Item(i)
          /\ ran'.target = t /\ ran'.by = Dispatched(t) /\ plan' = plan
      BY <2>1 DEF Surrounding, Item
    <3>2. LET i == plan.bindings[t]
              left == Item(i).contract # NoContract /\ t \notin Item(i).contract.entries
              planned == IF left THEN Surrounding ELSE i
          IN  /\ t \in DOMAIN plan.bindings
              /\ \/ Dispatched(t) = planned \/ Dispatched(t) = i
                 \/ Dispatched(t) = Interpreter /\ Item(planned).origin = "interpreted"
      BY <2>1, DispatchedAsPlanned
    <3> HIDE DEF PlanInv
    <3> QED BY ONLY <3>1, <3>2 DEF NothingElseRuns
  <2>5. bound.carrier # plan.carrier => NothingElseRuns'
    BY <2>1 DEF NothingElseRuns
  <2>6. RootProviders(question)' = RootProviders(question) /\ ran'.by = Dispatched(t)
        /\ plan' = plan /\ bound' = bound
    BY <2>1
  <2> QED BY <2>2, <2>3, <2>4, <2>5, <2>6 DEF RanInv
<1>6. ASSUME NEW r \in DOMAIN plan.regions, bound # Unbound, ran'.by = r,
             UNCHANGED <<question, plan, bound>>,
             ran'.target = None \/ ran'.target \in Item(r).contract.entries
      PROVE  RanInv'
  <2>1. Granted /\ WellAsked(question) /\ ~Refused(question) /\ r \in Regions(question)
        /\ plan.bindings = Bindings(question) /\ plan.selected = SelectedItems(question)
    BY <1>0, <1>6, WhatIsGranted DEF BoundInv
  <2>2. r \in plan.selected
    BY <2>1 DEF Regions
  <2>3. ran'.by \in plan'.selected
    BY <1>6, <2>2
  <2>4. \A i : Item(i)' = Item(i)
    BY <1>6 DEF Item
  <2>5. ran'.target # None => ran'.target \in DOMAIN plan.bindings /\ plan.bindings[ran'.target] = r
    BY <1>6, <2>1, RegionIsWhole DEF Item
  <2>6. NothingElseRuns'
    BY <1>6, <2>4, <2>5 DEF NothingElseRuns
  <2> QED BY <1>6, <2>3, <2>6 DEF RanInv
<1>7. ASSUME NEW t \in question.reachable, Enter(t) PROVE RanInv'
  <2>1. /\ bound # Unbound /\ entered[t] # None /\ ran' = [target |-> t, by |-> entered[t]]
        /\ UNCHANGED <<question, plan, bound>>
    BY <1>7 DEF Enter, Complete, planVars, runtimeVars
  <2>2. entered[t] \in DOMAIN plan.regions /\ t \in Item(entered[t]).contract.entries
    BY <1>0, <2>1 DEF InstalledInv
  <2> QED BY <1>6, <2>1, <2>2
<1>8. CASE AdvanceToBoundary
  <2>1. /\ region.id # None /\ ran' = [target |-> None, by |-> region.id]
        /\ UNCHANGED <<question, plan, bound>>
    BY <1>8 DEF AdvanceToBoundary, planVars, runtimeVars
  <2>2. bound # Unbound /\ region.id \in DOMAIN plan.regions
    BY <1>0, <2>1 DEF InstalledInv
  <2> QED BY <1>6, <2>1, <2>2
<1>9. CASE Reset \/ (\E completes \in BOOLEAN : AdvanceToExit(completes))
  BY <1>1, <1>9 DEF Reset, AdvanceToExit
<1>10. CASE Activate \/ ActivationFails \/ UNCHANGED planRunVars
  BY <1>2, <1>10 DEF Activate, ActivationFails, planRunVars, planVars, runtimeVars
<1> QED BY <1>3, <1>4, <1>5, <1>7, <1>8, <1>9, <1>10 DEF PlanNext

THEOREM PlanInvariant == PlanSpec => []PlanInv
<1>1. PlanInv /\ [PlanNext]_planRunVars => PlanInv'
  BY BoundInvStep, InstalledInvStep, RanInvStep DEF PlanInv
<1> QED BY <1>1, PlanInvInit, PTL DEF PlanSpec

-----------------------------------------------------------------------------
(* What the invariant says of the properties.                              *)

LEMMA ActivationsCarryOut ==
    ASSUME PlanInv
    PROVE  PlanActivates
<1> SUFFICES ASSUME bound.carrier = plan.carrier, NEW a \in awaiting
             PROVE  Activatable(a)
  BY DEF PlanActivates
<1>1. BoundInv /\ Granted /\ a \in Activations(bound.carrier) /\ bound.carrier \in Carriers
  BY DEF PlanInv, BoundInv, InstalledInv
<1>2. /\ WellAsked(question) /\ ~Refused(question) /\ Carrier(question) = bound.carrier
      /\ plan.selected = SelectedItems(question) /\ DOMAIN plan.regions = Regions(question)
      /\ Carrier(question) # NoCarrier
  BY <1>1, WhatIsGranted, PlanAssumption
<1>3. CASE a \in [region : {TRUE}, of : DOMAIN plan.regions]
  <2>1. a.region /\ a.of \in Regions(question)
    BY <1>2, <1>3
  <2>2. Carrier(question) \in question.catalog[a.of].regionAdapters
    BY <1>2, <2>1, RegionIsWhole
  <2> QED BY <1>2, <2>1, <2>2 DEF Activatable, RegionAdapted, Item
<1>4. CASE a \in [region : {FALSE}, of : {i \in plan.selected :
                    Adapted(i, bound.carrier) \/ ~Bridgeless(i)}]
  <2>1. ~a.region /\ a.of \in SelectedItems(question)
        /\ (Adapted(a.of, bound.carrier) \/ ~Bridgeless(a.of))
    BY <1>2, <1>4
  <2>2. Carrier(question) \in question.catalog[a.of].adapters \/ question.catalog[a.of].region
    BY <1>2, <2>1, CarriedOrOwn
  <2> QED BY <1>2, <2>1, <2>2 DEF Activatable, Adapted, Bridgeless, Item
<1> QED BY <1>1, <1>3, <1>4 DEF Activations

LEMMA NothingForbiddenRuns ==
    ASSUME PlanInv
    PROVE  PolicyKept
<1> SUFFICES ASSUME answer = "planned" PROVE PolicyKept
  BY DEF PolicyKept
<1>1. BoundInv /\ Granted /\ RanInv
  BY DEF PlanInv, Granted
<1>2. /\ WellAsked(question) /\ ~PolicyFailure(question)
      /\ plan.services = SelectedServices(question)
  BY <1>1, WhatIsGranted
<1>3. ASSUME ran.by > 0 PROVE Item(ran.by).caps \cap question.policy.forbidden = {}
  <2>1. ran.by \in plan.selected \cup RootProviders(question)
    BY <1>1, <1>3 DEF RanInv, None, Interpreter, Frontier
  <2> QED BY <1>1, <2>1, NothingForbidden
<1>4. ASSUME NEW s \in plan.services
      PROVE  /\ question.serviceCatalog[s].caps \cap question.policy.forbidden = {}
             /\ question.serviceCatalog[s].dependencies \subseteq plan.services
  <2>1. s \in RequiredServices(question) /\ s \in DOMAIN question.serviceCatalog
    BY <1>2, <1>4 DEF SelectedServices
  <2>2. question.serviceCatalog[s].caps \cap question.policy.forbidden = {}
    <3>1. question.serviceCatalog[s].caps \subseteq RequiredCapabilities(question)
      <4>1. s \in SelectedServices(question)
        BY <1>2, <1>4
      <4>2. question.serviceCatalog[s].caps \subseteq ServiceCapabilities(question)
        BY <4>1 DEF ServiceCapabilities
      <4>3. ServiceCapabilities(question) \subseteq RequiredCapabilities(question)
        BY DEF RequiredCapabilities
      <4> QED BY <4>2, <4>3
    <3>2. Forbidden(question) = {}
      BY <1>2 DEF PolicyFailure
    <3> QED BY <3>1, <3>2 DEF Forbidden
  <2>3. question.serviceCatalog[s].dependencies \subseteq RequiredServices(question)
    <3>1. question.serviceCatalog[s].dependencies
            \subseteq Dependencies(question, RequiredServices(question))
      BY <2>1 DEF Dependencies
    <3> QED BY <1>2, <3>1, ServicesClosed
  <2>4. RequiredServices(question) \subseteq DOMAIN question.serviceCatalog
    BY <1>2 DEF PolicyFailure, MissingServices
  <2> QED BY <1>2, <2>2, <2>3, <2>4 DEF SelectedServices
<1> QED BY <1>3, <1>4 DEF PolicyKept

LEMMA ReleasesReady ==
    ASSUME PlanInv
    PROVE  ReleasesPackage
<1> SUFFICES ASSUME answer = "planned", question.profile = "release", question.platform # "none"
             PROVE  PackageReady(question) /\ \A edge \in question.edges : ~edge.dynamic
  BY DEF ReleasesPackage
<1>1. WellAsked(question) /\ ~PolicyFailure(question)
  BY WhatIsGranted DEF PlanInv, Granted
<1>2. UnresolvedEdges(question) = {} /\ DevelopmentOnly(question) = {}
  BY <1>1 DEF WellAsked, PolicyFailure
<1>3. PackageReady(question)
  BY <1>1, <1>2 DEF PolicyFailure, PackageReady
<1>4. \A edge \in question.edges : ~edge.dynamic
  BY <1>2 DEF UnresolvedEdges, Blocking
<1> QED BY <1>3, <1>4

-----------------------------------------------------------------------------
(* What runs is what the planner granted: each target the program calls is *)
(* run by the implementation that it is bound to (or, outside of a region  *)
(* it belongs to, by the program around it), a plan made for the runtime's *)
(* carrier can be activated to its end, and neither an implementation that *)
(* runs nor a service needs what the policy forbids                        *)
(* (bind_plan_implementations, ExecutionPlanner.plan).                     *)
THEOREM PlansAreFollowed == PlanSpec => []PlanFollowed
<1>1. PlanInv => PlanFollowed
  BY ActivationsCarryOut, NothingForbiddenRuns DEF PlanInv, RanInv, PlanFollowed
<1> QED BY <1>1, PlanInvariant, PTL

(* A release that was planned for a platform can be packaged, with no edge *)
(* left whose end is only an observation (execution.py:2418-2429).         *)
THEOREM ReleasesArePackaged == PlanSpec => []ReleasesPackage
<1>1. PlanInv => ReleasesPackage
  BY ReleasesReady
<1> QED BY <1>1, PlanInvariant, PTL

-----------------------------------------------------------------------------
(* Features that are switched while the program runs.                      *)

(* What the recorded requests of a set ask for, in their order.            *)
Wanted(events) == LastValue(Defaults, {Change(e) : e \in events})
AskedAt(r, n) == {e \in r : e.at < n}
FedOf(r, last) == {e \in r : e.id <= last}

(* Events are numbered as they were requested, in the order of the         *)
(* boundaries too; the replay was fed those that come before where it is.  *)
IsList(s) == \E S : s \in Seq(S)
RecordingInv ==
    /\ requests \in Nat /\ IsList(met)
    /\ \A e \in recording : e.id \in 1..requests /\ e.at \in 0..Len(met)
    /\ \A d, e \in recording : /\ d.id < e.id => d.at <= e.at
                               /\ d.id = e.id => d = e
    /\ twin.fed \in 0..requests /\ twin.at \in 0..Len(met)
    /\ \A e \in recording : /\ e.at < twin.at => e.id <= twin.fed
                            /\ e.id <= twin.fed => e.at <= twin.at

(* What waits, added to what a machine has, is what was asked for; whatever*)
(* raised before.                                                          *)
Heading(machine, waiting, events) ==
    \A f \in Behavioral : LastValue(machine, waiting)[f] = Wanted(events)[f]

(* Is j the last of n boundaries at which f may change (0: there is none)? *)
LastSafe(m, f, j, n) ==
    /\ j = 0 \/ MayChange(f, m[j].boundary)
    /\ \A i \in j + 1..n : ~MayChange(f, m[i].boundary)

(* If that one did not raise, the machine has what was asked for before it.*)
Obeys(machine, m, r, n, raised) ==
    \A f \in Behavioral, j \in 0..n :
        LastSafe(m, f, j, n) /\ j \notin raised => machine[f] = Wanted(AskedAt(r, j))[f]

FailedAt == {i \in 1..Len(met) : met[i].failed}

LiveInv ==
    /\ \A c \in pending : c.id \in 1..requests
    /\ Heading(game, pending, recording)
    /\ \A n \in 1..Len(met) : Obeys(met[n].game, met, recording, n, FailedAt)
    /\ Obeys(game, met, recording, Len(met), FailedAt)

TwinInv ==
    /\ \A c \in twin.pending : c.id \in 1..twin.fed
    /\ twin.raised \subseteq 1..twin.at
    /\ Heading(twin.game, twin.pending, FedOf(recording, twin.fed))
    /\ Obeys(twin.game, met, recording, twin.at, twin.raised)

FeaturesInv == RecordingInv /\ LiveInv /\ TwinInv /\ StateIsMachine

(* A value depends on the changes of its feature alone.                    *)
LEMMA LastAlike ==
    ASSUME NEW old, NEW other, NEW c1, NEW c2, NEW f \in Planned,
           {c \in c1 : c.feature = f} = {c \in c2 : c.feature = f},
           {c \in c1 : c.feature = f} = {} => old[f] = other[f]
    PROVE  LastValue(old, c1)[f] = LastValue(other, c2)[f]
<1> DEFINE of1 == {c \in c1 : c.feature = f}
           of2 == {c \in c2 : c.feature = f}
<1>1. of1 = of2 /\ (of1 = {} => old[f] = other[f])
  OBVIOUS
<1>2. LastValue(old, c1)[f]
        = IF of1 = {} THEN old[f] ELSE (CHOOSE c \in of1 : \A d \in of1 : d.id <= c.id).value
  BY DEF LastValue
<1>3. LastValue(other, c2)[f]
        = IF of2 = {} THEN other[f] ELSE (CHOOSE c \in of2 : \A d \in of2 : d.id <= c.id).value
  BY DEF LastValue
<1> HIDE DEF of1, of2
<1> QED BY <1>1, <1>2, <1>3

LEMMA LastOfNone ==
    ASSUME NEW old, NEW changes, NEW f \in Planned, \A c \in changes : c.feature # f
    PROVE  LastValue(old, changes)[f] = old[f]
BY DEF LastValue

(* The newest change of a feature is the one that stays.                   *)
Newest(c, changes) == c.id \in Nat /\ \A d \in changes : d.id \in Nat /\ d.id < c.id
LEMMA LastOfNewest ==
    ASSUME NEW old, NEW changes, NEW f \in Planned, NEW c, c.feature = f, Newest(c, changes)
    PROVE  LastValue(old, changes \cup {c})[f] = c.value
<1> DEFINE of == {d \in changes \cup {c} : d.feature = f}
<1>1. c \in of /\ \A d \in of : d.id \in Nat /\ d.id <= c.id
  BY DEF Newest
<1>2. \A d \in of : (\A e \in of : e.id <= d.id) => d = c
  <2> SUFFICES ASSUME NEW d \in of, \A e \in of : e.id <= d.id, d # c PROVE FALSE
    OBVIOUS
  <2>1. d \in changes
    OBVIOUS
  <2>2. d.id \in Nat /\ c.id \in Nat /\ d.id < c.id /\ c.id <= d.id
    BY <1>1, <2>1 DEF Newest
  <2> QED BY <2>2
<1> HIDE DEF of
<1>3. (CHOOSE d \in of : \A e \in of : e.id <= d.id) = c
  BY <1>1, <1>2
<1>4. LastValue(old, changes \cup {c})[f]
        = IF of = {} THEN old[f] ELSE (CHOOSE d \in of : \A e \in of : e.id <= d.id).value
  BY DEF LastValue, of
<1> QED BY <1>1, <1>3, <1>4

LEMMA OthersStay ==
    ASSUME NEW old, NEW changes, NEW f \in Planned, NEW c, c.feature # f
    PROVE  LastValue(old, changes \cup {c})[f] = LastValue(old, changes)[f]
<1> DEFINE more == changes \cup {c}
<1>1. {d \in more : d.feature = f} = {d \in changes : d.feature = f}
  OBVIOUS
<1>2. {d \in changes : d.feature = f} = {} => old[f] = old[f]
  OBVIOUS
<1> HIDE DEF more
<1>3. LastValue(old, more)[f] = LastValue(old, changes)[f]
  BY <1>1, <1>2, LastAlike
<1> QED BY <1>3 DEF more

(* One more request leaves a controller heading where it is asked to.      *)
LEMMA HeadingOn ==
    ASSUME NEW machine, NEW waiting, NEW events, Heading(machine, waiting, events),
           NEW e, e.id \in Nat,
           \A c \in waiting : c.id \in Nat /\ c.id < e.id,
           \A d \in events : d.id \in Nat /\ d.id < e.id
    PROVE  Heading(machine, waiting \cup {Change(e)}, events \cup {e})
<1> SUFFICES ASSUME NEW f \in Behavioral
             PROVE  LastValue(machine, waiting \cup {Change(e)})[f] = Wanted(events \cup {e})[f]
  BY DEF Heading
<1> DEFINE old == {Change(d) : d \in events}
<1>1. f \in Planned
  BY FeatureAssumption
<1>2. {Change(d) : d \in events \cup {e}} = old \cup {Change(e)}
  OBVIOUS
<1>3. /\ Change(e).id = e.id /\ Change(e).feature = e.feature
      /\ \A c \in old : c.id \in Nat /\ c.id < e.id
  BY DEF Change
<1>4. LastValue(machine, waiting)[f] = LastValue(Defaults, old)[f]
  BY DEF Heading, Wanted
<1> HIDE DEF old
<1>5. CASE e.feature = f
  <2> DEFINE c == Change(e)
  <2>0. c.feature = f /\ Newest(c, waiting) /\ Newest(c, old)
    BY <1>3, <1>5 DEF Newest
  <2> HIDE DEF c
  <2>1. LastValue(machine, waiting \cup {c})[f] = c.value
    BY <1>1, <2>0, LastOfNewest
  <2>2. LastValue(Defaults, old \cup {c})[f] = c.value
    BY <1>1, <2>0, LastOfNewest
  <2> QED BY <1>2, <2>1, <2>2 DEF Wanted, old, c
<1>6. CASE e.feature # f
  <2> DEFINE c == Change(e)
  <2>0. c.feature # f
    BY <1>3, <1>6
  <2> HIDE DEF c
  <2>1. LastValue(machine, waiting \cup {c})[f] = LastValue(machine, waiting)[f]
    BY <1>1, <2>0, OthersStay
  <2>2. LastValue(Defaults, old \cup {c})[f] = LastValue(Defaults, old)[f]
    BY <1>1, <2>0, OthersStay
  <2> QED BY <1>2, <1>4, <2>1, <2>2 DEF Wanted, old, c
<1> QED BY <1>5, <1>6

(* Whether apply raises or not, and where: what was applied and what is    *)
(* kept still lead to the same; a boundary that does not raise has them    *)
(* all, and one that is not safe for a feature leaves it alone.            *)
LEMMA BoundaryLeads ==
    ASSUME NEW machine, NEW waiting, NEW b, NEW fails, NEW f \in Planned
    PROVE  /\ LastValue(Applied(machine, waiting, b, fails), Kept(waiting, b, fails))[f]
                = LastValue(machine, waiting)[f]
           /\ fails = 0 /\ MayChange(f, b) =>
                Applied(machine, waiting, b, fails)[f] = LastValue(machine, waiting)[f]
           /\ ~MayChange(f, b) => Applied(machine, waiting, b, fails)[f] = machine[f]
<1> DEFINE of == {c \in waiting : c.feature = f}
           some == {c \in DueOf(waiting, b) : fails = 0 \/ c.id < fails}
           new == Applied(machine, waiting, b, fails)
           kept == Kept(waiting, b, fails)
<1>0. new = LastValue(machine, some)
  BY DEF Applied
<1>1. \A c \in some : c \in waiting /\ MayChange(c.feature, b)
  BY DEF DueOf
<1>2. ASSUME fails = 0 /\ MayChange(f, b)
      PROVE  new[f] = LastValue(machine, waiting)[f]
  <2>1. {c \in some : c.feature = f} = of
    BY <1>2 DEF DueOf
  <2> HIDE DEF some, new
  <2> QED BY <1>0, <2>1, LastAlike
<1>3. ASSUME ~MayChange(f, b)
      PROVE  new[f] = machine[f]
  <2> HIDE DEF some, new
  <2> QED BY <1>0, <1>1, <1>3, LastOfNone
<1>4. LastValue(new, kept)[f] = LastValue(machine, waiting)[f]
  <2>1. CASE fails = 0 /\ MayChange(f, b)
    <3>1. \A c \in kept : c.feature # f
      BY <2>1 DEF Kept, Retained
    <3>2. LastValue(new, kept)[f] = new[f]
      <4> HIDE DEF new, kept
      <4> QED BY <3>1, LastOfNone
    <3> QED BY <1>2, <2>1, <3>2
  <2>2. CASE ~MayChange(f, b)
    <3>1. {c \in kept : c.feature = f} = of
      BY <2>2 DEF Kept, Retained
    <3> HIDE DEF new, kept
    <3> QED BY <1>3, <2>2, <3>1, LastAlike
  <2>3. CASE fails # 0
    <3>1. kept = waiting
      BY <2>3 DEF Kept
    <3>2. of = {} => new[f] = machine[f]
      <4> SUFFICES ASSUME of = {} PROVE new[f] = machine[f]
        OBVIOUS
      <4>1. \A c \in some : c.feature # f
        BY <1>1
      <4> HIDE DEF some, new
      <4> QED BY <1>0, <4>1, LastOfNone
    <3> HIDE DEF new, kept
    <3> QED BY <3>1, <3>2, LastAlike
  <2> QED BY <2>1, <2>2, <2>3
<1> QED BY <1>2, <1>3, <1>4

(* Boundaries met stay as they were.                                       *)
LEMMA MetGrows ==
    ASSUME NEW m, IsList(m), NEW x
    PROVE  LET n == Append(m, x)
           IN  /\ IsList(n) /\ Len(m) \in Nat /\ Len(n) = Len(m) + 1
               /\ \A i \in 1..Len(m) : n[i] = m[i]
               /\ n[Len(m) + 1] = x
<1>1. PICK S : m \in Seq(S)
  BY DEF IsList
<1>2. m \in Seq(S \cup {x})
  BY <1>1
<1>3. Append(m, x) \in Seq(S \cup {x})
  BY <1>2
<1>4. Len(m) \in Nat /\ Len(Append(m, x)) = Len(m) + 1
  BY <1>1
<1>5. \A i \in 1..Len(m) : Append(m, x)[i] = m[i]
  BY <1>1
<1>6. Append(m, x)[Len(m) + 1] = x
  BY <1>1
<1> QED BY <1>3, <1>4, <1>5, <1>6 DEF IsList

LEMMA LengthIsNat == RecordingInv => Len(met) \in Nat
<1> SUFFICES ASSUME RecordingInv PROVE Len(met) \in Nat
  OBVIOUS
<1>1. PICK S : met \in Seq(S)
  BY DEF RecordingInv, IsList
<1> QED BY <1>1

(* What a machine obeys depends on the boundaries so far, on which of them *)
(* raised, and on what was recorded before them.                           *)
LEMMA ObeysStays ==
    ASSUME NEW machine, NEW m, NEW r, NEW raised, NEW m2, NEW r2, NEW raised2, NEW n \in Nat,
           Obeys(machine, m, r, n, raised),
           \A i \in 1..n : m2[i] = m[i] /\ (i \in raised => i \in raised2),
           0 \notin raised,
           \A j \in 0..n : AskedAt(r2, j) = AskedAt(r, j)
    PROVE  Obeys(machine, m2, r2, n, raised2)
<1> SUFFICES ASSUME NEW f \in Behavioral, NEW j \in 0..n, LastSafe(m2, f, j, n), j \notin raised2
             PROVE  machine[f] = Wanted(AskedAt(r2, j))[f]
  BY DEF Obeys
<1>1. j \in Nat /\ (j = 0 \/ j \in 1..n) /\ \A i \in j + 1..n : i \in 1..n
  OBVIOUS
<1>2. LastSafe(m, f, j, n)
  BY <1>1 DEF LastSafe
<1>3. j \notin raised
  BY <1>1
<1> QED BY <1>2, <1>3 DEF Obeys

(* One boundary more, whether it raises or not.                            *)
LEMMA ObeysNext ==
    ASSUME NEW machine, NEW waiting, NEW m, NEW r, NEW raised, NEW n \in Nat, NEW b, NEW fails,
           Obeys(machine, m, r, n, raised), m[n + 1].boundary = b,
           Heading(machine, waiting, AskedAt(r, n + 1)),
           fails # 0 => n + 1 \in raised
    PROVE  Obeys(Applied(machine, waiting, b, fails), m, r, n + 1, raised)
<1> DEFINE new == Applied(machine, waiting, b, fails)
<1> SUFFICES ASSUME NEW f \in Behavioral, NEW j \in 0..n + 1, LastSafe(m, f, j, n + 1), j \notin raised
             PROVE  new[f] = Wanted(AskedAt(r, j))[f]
  BY DEF Obeys
<1>1. f \in Planned
  BY FeatureAssumption
<1>2. CASE MayChange(f, b)
  <2>1. j = n + 1
    <3>1. j \in Nat /\ j <= n + 1 /\ (j <= n => n + 1 \in j + 1..n + 1)
      OBVIOUS
    <3>2. ~(j <= n)
      BY <1>2, <3>1 DEF LastSafe
    <3> QED BY <3>1, <3>2
  <2>2. fails = 0
    BY <2>1
  <2>3. new[f] = LastValue(machine, waiting)[f]
    BY <1>1, <1>2, <2>2, BoundaryLeads
  <2> QED BY <2>1, <2>3 DEF Heading
<1>3. CASE ~MayChange(f, b)
  <2>1. j \in 0..n
    <3>1. j # n + 1
      <4>1. j = n + 1 => j # 0
        OBVIOUS
      <4> QED BY <1>3, <4>1 DEF LastSafe
    <3> QED BY <3>1
  <2>2. LastSafe(m, f, j, n)
    <3>1. \A i \in j + 1..n : i \in j + 1..n + 1
      BY <2>1
    <3> QED BY <3>1 DEF LastSafe
  <2>3. new[f] = machine[f]
    BY <1>1, <1>3, BoundaryLeads
  <2> QED BY <2>1, <2>2, <2>3 DEF Obeys
<1> QED BY <1>2, <1>3

LEMMA FeaturesInvInit == FeaturesInit => FeaturesInv
<1> SUFFICES ASSUME FeaturesInit PROVE FeaturesInv
  OBVIOUS
<1>1. IsList(met) /\ Len(met) = 0
  BY DEF FeaturesInit, IsList
<1>2. RecordingInv
  BY <1>1 DEF FeaturesInit, RecordingInv
<1>3. /\ game = Defaults /\ pending = {} /\ recording = {}
      /\ twin.game = Defaults /\ twin.pending = {} /\ twin.at = 0 /\ twin.raised = {}
      /\ FedOf(recording, twin.fed) = {} /\ \A j : AskedAt(recording, j) = {}
  BY DEF FeaturesInit, FedOf, AskedAt
<1>4. {Change(e) : e \in {}} = {}
  OBVIOUS
<1>5. Heading(Defaults, {}, {})
  BY <1>4 DEF Heading, Wanted
<1>6. \A raised : Obeys(Defaults, met, recording, 0, raised)
  <2>1. \A f \in Behavioral : Wanted({})[f] = Defaults[f]
    BY <1>4, LastOfNone, FeatureAssumption DEF Wanted
  <2> QED BY <1>3, <2>1 DEF Obeys
<1>7. LiveInv
  BY <1>1, <1>3, <1>5, <1>6 DEF LiveInv
<1>8. TwinInv
  BY <1>3, <1>5, <1>6 DEF TwinInv
<1> QED BY <1>2, <1>7, <1>8 DEF FeaturesInv, FeaturesInit, StateIsMachine

LEMMA RequestFollows ==
    ASSUME FeaturesInv, NEW f \in Planned, NEW v \in Settings, NEW recorded \in BOOLEAN,
           Request(f, v, recorded)
    PROVE  FeaturesInv'
<1> DEFINE n == requests + 1
           e == [id |-> n, feature |-> f, value |-> v, at |-> Len(met)]
<1>0. RecordingInv /\ LiveInv /\ TwinInv /\ StateIsMachine /\ requests \in Nat /\ n \in Nat
      /\ Len(met) \in Nat
  BY LengthIsNat DEF FeaturesInv, RecordingInv
<1>1. /\ requests' = n /\ UNCHANGED <<state, game, met, twin>>
      /\ pending' = pending \cup {[id |-> n, feature |-> f, value |-> v]}
      /\ recording' = IF recorded /\ Channel[f] THEN recording \cup {e} ELSE recording
      /\ f \in Behavioral => recorded
  BY DEF Request, RecordedAt
<1>2. f \in Behavioral => recording' = recording \cup {e}
  BY <1>1, FeatureAssumption
<1>3. recording' \in {recording, recording \cup {e}}
  BY <1>1
<1>4. /\ e.id = n /\ e.feature = f /\ e.at = Len(met)
      /\ Change(e) = [id |-> n, feature |-> f, value |-> v]
  BY DEF Change
<1> HIDE DEF e
<1>5. RecordingInv'
  <2>1. \A d \in recording : d.id \in 1..n /\ d.at \in 0..Len(met) /\ d.id < n
    BY <1>0 DEF RecordingInv
  <2>2. \A d \in recording' : d.id \in 1..n /\ d.at \in 0..Len(met)
    BY <1>0, <1>3, <1>4, <2>1
  <2>3. \A c, d \in recording' : (c.id < d.id => c.at <= d.at) /\ (c.id = d.id => c = d)
    <3>1. \A c, d \in recording : (c.id < d.id => c.at <= d.at) /\ (c.id = d.id => c = d)
      BY <1>0 DEF RecordingInv
    <3>2. \A d \in recording : d.at <= e.at /\ ~(e.id < d.id) /\ ~(e.id = d.id)
      BY <1>0, <1>4, <2>1
    <3>3. e.at <= e.at /\ ~(e.id < e.id)
      BY <1>0, <1>4
    <3> QED BY <1>3, <3>1, <3>2, <3>3
  <2>4. \A d \in recording' : (d.at < twin.at => d.id <= twin.fed) /\ (d.id <= twin.fed => d.at <= twin.at)
    <3>1. twin.fed \in 0..requests /\ twin.at \in 0..Len(met)
      BY <1>0 DEF RecordingInv
    <3>2. ~(e.at < twin.at) /\ ~(e.id <= twin.fed)
      BY <1>0, <1>4, <3>1
    <3> QED BY <1>0, <1>3, <3>2 DEF RecordingInv
  <2> QED BY <1>0, <1>1, <2>2, <2>3, <2>4 DEF RecordingInv
<1>6. \A j \in 0..Len(met) : AskedAt(recording', j) = AskedAt(recording, j)
  BY <1>0, <1>3, <1>4 DEF AskedAt
<1>7. FedOf(recording', twin.fed) = FedOf(recording, twin.fed)
  <2>1. ~(e.id <= twin.fed)
    BY <1>0, <1>4 DEF RecordingInv
  <2> QED BY <1>3, <2>1 DEF FedOf
<1>8. LiveInv'
  <2>1. \A c \in pending : c.id \in Nat /\ c.id < e.id /\ c.id \in 1..n
    BY <1>0, <1>4 DEF LiveInv
  <2>2. \A c \in pending' : c.id \in 1..n
    BY <1>0, <1>1, <2>1
  <2>3. \A d \in recording : d.id \in Nat /\ d.id < e.id
    BY <1>0, <1>4 DEF RecordingInv
  <2>4. Heading(game, pending', recording')
    <3>1. CASE recording' = recording \cup {e}
      <4>1. Heading(game, pending \cup {Change(e)}, recording \cup {e})
        BY <1>0, <1>4, <2>1, <2>3, HeadingOn DEF LiveInv
      <4> QED BY <1>1, <1>4, <3>1, <4>1
    <3>2. CASE f \notin Behavioral /\ recording' = recording
      <4>1. SUFFICES ASSUME NEW g \in Behavioral
                     PROVE  LastValue(game, pending')[g] = LastValue(game, pending)[g]
        BY <1>0, <3>2 DEF Heading, LiveInv
      <4> DEFINE c == Change(e)
      <4>2. pending' = pending \cup {c} /\ g \in Planned /\ c.feature # g
        BY <1>1, <1>4, <3>2, <4>1, FeatureAssumption
      <4> HIDE DEF c
      <4>3. LastValue(game, pending \cup {c})[g] = LastValue(game, pending)[g]
        BY <4>2, OthersStay
      <4> QED BY <4>2, <4>3
    <3> QED BY <1>2, <1>3, <3>1, <3>2
  <2>5. 0 \notin FailedAt
    BY DEF FailedAt
  <2>6. ASSUME NEW k \in 1..Len(met) PROVE Obeys(met[k].game, met, recording', k, FailedAt)
    <3>1. Obeys(met[k].game, met, recording, k, FailedAt)
      BY <1>0 DEF LiveInv
    <3>2. \A j \in 0..k : AskedAt(recording', j) = AskedAt(recording, j)
      BY <1>0, <1>6
    <3> QED BY <2>5, <3>1, <3>2, ObeysStays
  <2>7. Obeys(game, met, recording', Len(met), FailedAt)
    BY <1>0, <1>6, <2>5, ObeysStays DEF LiveInv
  <2>8. FailedAt' = FailedAt
    BY <1>1 DEF FailedAt
  <2> QED BY <1>1, <2>2, <2>4, <2>6, <2>7, <2>8 DEF LiveInv
<1>9. TwinInv'
  <2>1. twin.at \in Nat /\ 0 \notin twin.raised /\ \A j \in 0..twin.at : j \in 0..Len(met)
    BY <1>0 DEF RecordingInv, TwinInv
  <2>2. Obeys(twin.game, met, recording', twin.at, twin.raised)
    BY <1>0, <1>6, <2>1, ObeysStays DEF TwinInv
  <2> QED BY <1>0, <1>1, <1>7, <2>2 DEF TwinInv
<1> QED BY <1>0, <1>1, <1>5, <1>8, <1>9 DEF FeaturesInv, StateIsMachine

LEMMA ApplyFollows ==
    ASSUME FeaturesInv, NEW b \in Boundaries, NEW fails \in 0..MaxRequests, ApplyPending(b, fails)
    PROVE  FeaturesInv'
<1> DEFINE n == Len(met)
           x == [boundary |-> b, failed |-> fails # 0, game |-> game']
<1>0. RecordingInv /\ LiveInv /\ TwinInv /\ StateIsMachine
  BY DEF FeaturesInv
<1>1. /\ met' = Append(met, x) /\ UNCHANGED <<recording, twin, requests>>
      /\ pending' = Kept(pending, b, fails)
      /\ state' = Applied(state, pending, b, fails) /\ game' = Applied(game, pending, b, fails)
  BY DEF ApplyPending
<1>2. /\ IsList(met') /\ n \in Nat /\ Len(met') = n + 1
      /\ \A i \in 1..n : met'[i] = met[i]
      /\ met'[n + 1] = x
  BY <1>0, <1>1, MetGrows DEF RecordingInv
<1>3. x.boundary = b /\ x.game = game' /\ (x.failed <=> fails # 0)
  OBVIOUS
<1>4. requests \in Nat /\ twin.at \in 0..n /\ twin.fed \in 0..requests
  BY <1>0 DEF RecordingInv
<1> HIDE DEF x, n
<1>5. RecordingInv'
  <2>1. \A e \in recording : e.at \in 0..n + 1
    BY <1>0, <1>2 DEF RecordingInv, n
  <2>2. twin.at \in 0..n + 1
    BY <1>2, <1>4
  <2> QED BY <1>0, <1>1, <1>2, <2>1, <2>2 DEF RecordingInv
<1>6. /\ 0 \notin FailedAt
      /\ \A i \in 1..n : i \in FailedAt <=> i \in FailedAt'
      /\ n + 1 \in FailedAt' <=> fails # 0
  <2>1. FailedAt' = {i \in 1..n + 1 : met'[i].failed} /\ FailedAt = {i \in 1..n : met[i].failed}
    BY <1>2 DEF FailedAt, n
  <2>2. \A i \in 1..n : i \in 1..n + 1
    BY <1>2
  <2>3. n + 1 \in 1..n + 1
    BY <1>2
  <2> QED BY <1>2, <1>3, <2>1, <2>2, <2>3
<1>7. LiveInv'
  <2>1. \A c \in pending' : c.id \in 1..requests
    BY <1>0, <1>1 DEF LiveInv, Kept, Retained
  <2>2. Heading(game', pending', recording)
    BY <1>0, <1>1, BoundaryLeads, FeatureAssumption DEF Heading, LiveInv
  <2>3. ASSUME NEW machine, NEW k \in 0..n, Obeys(machine, met, recording, k, FailedAt)
        PROVE  Obeys(machine, met', recording, k, FailedAt')
    <3>1. k \in Nat /\ \A i \in 1..k : met'[i] = met[i] /\ (i \in FailedAt => i \in FailedAt')
      BY <1>2, <1>6
    <3> QED BY <1>6, <2>3, <3>1, ObeysStays
  <2>4. Obeys(game', met', recording, n + 1, FailedAt')
    <3>1. Obeys(game, met', recording, n, FailedAt')
      BY <1>0, <1>2, <2>3 DEF LiveInv, n
    <3>2. AskedAt(recording, n + 1) = recording
      BY <1>0, <1>2 DEF AskedAt, RecordingInv, n
    <3>3. Heading(game, pending, AskedAt(recording, n + 1))
      BY <1>0, <3>2 DEF LiveInv
    <3>4. met'[n + 1].boundary = b /\ (fails # 0 => n + 1 \in FailedAt')
      BY <1>2, <1>3, <1>6
    <3> QED BY <1>1, <1>2, <3>1, <3>3, <3>4, ObeysNext
  <2>5. ASSUME NEW k \in 1..n + 1 PROVE Obeys(met'[k].game, met', recording, k, FailedAt')
    <3>1. CASE k = n + 1
      BY <1>2, <1>3, <2>4, <3>1
    <3>2. CASE k \in 1..n
      <4>1. Obeys(met[k].game, met, recording, k, FailedAt) /\ met'[k] = met[k] /\ k \in 0..n
        BY <1>0, <1>2, <3>2 DEF LiveInv, n
      <4> QED BY <2>3, <4>1
    <3> QED BY <1>2, <3>1, <3>2
  <2> QED BY <1>1, <1>2, <2>1, <2>2, <2>4, <2>5 DEF LiveInv
<1>8. TwinInv'
  <2>1. twin.at \in Nat /\ 0 \notin twin.raised /\ \A i \in 1..twin.at : met'[i] = met[i]
    BY <1>0, <1>2, <1>4 DEF TwinInv
  <2>2. Obeys(twin.game, met', recording, twin.at, twin.raised)
    BY <1>0, <2>1, ObeysStays DEF TwinInv
  <2> QED BY <1>0, <1>1, <2>2 DEF TwinInv
<1>9. StateIsMachine'
  BY <1>0, <1>1 DEF StateIsMachine
<1> QED BY <1>5, <1>7, <1>8, <1>9 DEF FeaturesInv

(* The event that is fed next is the first that was not.                   *)
LEMMA NextIsFirst ==
    ASSUME RecordingInv, NEW e \in recording, e.id > twin.fed
    PROVE  /\ NextEvent \in recording /\ NextEvent.id > twin.fed
           /\ \A d \in recording : d.id > twin.fed => NextEvent.id <= d.id
<1> DEFINE left == {d.id : d \in {c \in recording : c.id > twin.fed}}
<1>1. left \in SUBSET Nat /\ left # {}
  BY DEF RecordingInv
<1>2. PICK m \in left : \A x \in left : m <= x
  BY <1>1, LeastOf
<1>3. \E d \in recording : d.id > twin.fed /\ \A c \in recording : c.id > twin.fed => d.id <= c.id
  BY <1>2
<1> QED BY <1>3 DEF NextEvent

(* Where nothing is left to feed, all that was recorded there was fed.     *)
LEMMA AllFed ==
    ASSUME RecordingInv, ~Ready, NEW e \in recording, e.at = twin.at
    PROVE  e.id <= twin.fed
<1> SUFFICES ASSUME e.id > twin.fed PROVE FALSE
  BY DEF RecordingInv
<1>1. /\ NextEvent \in recording /\ NextEvent.id > twin.fed /\ NextEvent.id <= e.id
  BY NextIsFirst
<1>2. NextEvent.at <= e.at
  <2>1. NextEvent.id \in Nat /\ e.id \in Nat /\ e.at \in Nat
    BY <1>1 DEF RecordingInv
  <2>2. NextEvent.id < e.id \/ NextEvent.id = e.id
    BY <1>1, <2>1
  <2> QED BY <1>1, <2>1, <2>2 DEF RecordingInv
<1>3. ~(NextEvent.at < twin.at)
  BY <1>1 DEF RecordingInv
<1>4. NextEvent.at = twin.at
  BY <1>1, <1>2, <1>3 DEF RecordingInv
<1> QED BY <1>4 DEF Ready

LEMMA FeedFollows ==
    ASSUME FeaturesInv, AcceptReplayEvent
    PROVE  FeaturesInv'
<1> DEFINE e == NextEvent
<1>0. RecordingInv /\ LiveInv /\ TwinInv /\ StateIsMachine
  BY DEF FeaturesInv
<1>1. /\ e \in recording /\ e.id > twin.fed /\ e.at = twin.at
      /\ \A d \in recording : d.id > twin.fed => e.id <= d.id
  BY <1>0, NextIsFirst DEF AcceptReplayEvent, Ready
<1>2. /\ twin'.state = twin.state /\ twin'.game = twin.game /\ twin'.at = twin.at
      /\ twin'.fed = e.id /\ twin'.pending = twin.pending \cup {Change(e)}
      /\ twin'.raised = twin.raised
      /\ UNCHANGED <<state, pending, game, recording, met, requests>>
  BY DEF AcceptReplayEvent
<1> HIDE DEF e
<1>3. RecordingInv'
  <2>1. e.id \in 0..requests
    BY <1>0, <1>1 DEF RecordingInv
  <2>2. ASSUME NEW d \in recording
        PROVE  (d.at < twin.at => d.id <= e.id) /\ (d.id <= e.id => d.at <= twin.at)
    <3>1. /\ d.id \in Nat /\ e.id \in Nat /\ d.at \in Nat /\ twin.fed \in Nat /\ twin.at \in Nat
          /\ d.at < twin.at => d.id <= twin.fed
          /\ d.id <= twin.fed => d.at <= twin.at
      BY <1>0, <2>1 DEF RecordingInv
    <3>2. d.id > twin.fed /\ d.id <= e.id => d = e
      <4>1. d.id > twin.fed /\ d.id <= e.id => d.id = e.id
        BY <1>1, <3>1
      <4> QED BY <1>0, <1>1, <4>1 DEF RecordingInv
    <3> QED BY <1>1, <3>1, <3>2
  <2> QED BY <1>0, <1>2, <2>1, <2>2 DEF RecordingInv
<1>4. LiveInv'
  BY <1>0, <1>2 DEF LiveInv, FailedAt
<1>5. TwinInv'
  <2>1. e.id \in Nat /\ twin.fed \in Nat /\ twin.fed < e.id
    BY <1>0, <1>1 DEF RecordingInv
  <2>2. FedOf(recording, e.id) = FedOf(recording, twin.fed) \cup {e}
    <3>1. \A d \in recording : d.id <= e.id <=> d.id <= twin.fed \/ d = e
      <4> SUFFICES ASSUME NEW d \in recording PROVE d.id <= e.id <=> d.id <= twin.fed \/ d = e
        OBVIOUS
      <4>1. d.id \in Nat /\ (d.id = e.id => d = e)
        BY <1>0, <1>1 DEF RecordingInv
      <4>2. d.id > twin.fed => e.id <= d.id
        BY <1>1
      <4> QED BY <2>1, <4>1, <4>2
    <3> QED BY <1>1, <3>1 DEF FedOf
  <2>3. Change(e).id = e.id
    BY DEF Change
  <2>4. \A c \in twin.pending : c.id \in Nat /\ c.id < e.id /\ c.id \in 1..e.id
    BY <1>0, <2>1 DEF TwinInv
  <2>5. \A c \in twin.pending \cup {Change(e)} : c.id \in 1..e.id
    BY <2>1, <2>3, <2>4
  <2>6. \A d \in FedOf(recording, twin.fed) : d.id \in Nat /\ d.id < e.id
    BY <1>0, <2>1 DEF FedOf, RecordingInv
  <2>7. Heading(twin.game, twin.pending \cup {Change(e)}, FedOf(recording, twin.fed) \cup {e})
    BY <1>0, <2>1, <2>4, <2>6, HeadingOn DEF TwinInv
  <2> QED BY <1>0, <1>2, <2>2, <2>5, <2>7 DEF TwinInv
<1>6. StateIsMachine'
  BY <1>0, <1>2 DEF StateIsMachine
<1> QED BY <1>3, <1>4, <1>5, <1>6 DEF FeaturesInv

LEMMA BoundaryFollows ==
    ASSUME FeaturesInv, NEW fails \in 0..MaxRequests, ReplayBoundary(fails)
    PROVE  FeaturesInv'
<1> DEFINE n == twin.at
           b == met[n + 1].boundary
           raised == IF fails = 0 THEN twin.raised ELSE twin.raised \cup {n + 1}
<1>0. RecordingInv /\ LiveInv /\ TwinInv /\ StateIsMachine
  BY DEF FeaturesInv
<1>1. /\ twin'.state = Applied(twin.state, twin.pending, b, fails)
      /\ twin'.game = Applied(twin.game, twin.pending, b, fails)
      /\ twin'.pending = Kept(twin.pending, b, fails) /\ twin'.at = n + 1 /\ twin'.fed = twin.fed
      /\ twin'.raised = raised
      /\ UNCHANGED <<state, pending, game, recording, met, requests>>
      /\ n < Len(met) /\ ~Ready
  BY DEF ReplayBoundary
<1>2. n \in Nat /\ n + 1 \in 0..Len(met) /\ n \in 0..Len(met) - 1 /\ Len(met) \in Nat
      /\ requests \in Nat /\ twin.fed \in 0..requests
  BY <1>0, <1>1, LengthIsNat DEF RecordingInv
<1>3. \A e \in recording : e.at = n => e.id <= twin.fed
  BY <1>0, <1>1, AllFed
<1>4. RecordingInv'
  <2>1. ASSUME NEW e \in recording
        PROVE  (e.at < n + 1 => e.id <= twin.fed) /\ (e.id <= twin.fed => e.at <= n + 1)
    <3>1. e.at \in Nat /\ (e.at < n => e.id <= twin.fed) /\ (e.id <= twin.fed => e.at <= n)
      BY <1>0 DEF RecordingInv
    <3>2. e.at < n + 1 => e.at < n \/ e.at = n
      BY <1>2, <3>1
    <3>3. e.at <= n => e.at <= n + 1
      BY <1>2, <3>1
    <3> QED BY <1>3, <3>1, <3>2, <3>3
  <2> QED BY <1>0, <1>1, <1>2, <2>1 DEF RecordingInv
<1>5. AskedAt(recording, n + 1) = FedOf(recording, twin.fed)
  <2>1. ASSUME NEW e \in recording
        PROVE  e.at < n + 1 <=> e.id <= twin.fed
    <3>1. e.at \in Nat /\ (e.at < n => e.id <= twin.fed) /\ (e.id <= twin.fed => e.at <= n)
      BY <1>0 DEF RecordingInv
    <3>2. (e.at < n + 1 => e.at < n \/ e.at = n) /\ (e.at <= n => e.at < n + 1)
      BY <1>2, <3>1
    <3> QED BY <1>3, <3>1, <3>2
  <2> QED BY <2>1 DEF AskedAt, FedOf
<1>6. LiveInv'
  BY <1>0, <1>1 DEF LiveInv, FailedAt
<1>7. TwinInv'
  <2>1. \A c \in twin'.pending : c.id \in 1..twin.fed
    BY <1>0, <1>1 DEF TwinInv, Kept, Retained
  <2>2. raised \subseteq 1..n + 1
    <3>1. twin.raised \subseteq 1..n + 1 /\ n + 1 \in 1..n + 1
      BY <1>0, <1>2 DEF TwinInv
    <3> QED BY <3>1
  <2>3. Heading(twin'.game, twin'.pending, FedOf(recording, twin.fed))
    BY <1>0, <1>1, BoundaryLeads, FeatureAssumption DEF Heading, TwinInv
  <2>4. Obeys(twin'.game, met, recording, n + 1, raised)
    <3>1. Obeys(twin.game, met, recording, n, raised)
      <4>1. 0 \notin twin.raised /\ \A i \in 1..n : i \in twin.raised => i \in raised
        BY <1>0, <1>2 DEF TwinInv
      <4> HIDE DEF raised
      <4> QED BY <1>0, <1>2, <4>1, ObeysStays DEF TwinInv
    <3>2. fails # 0 => n + 1 \in raised
      OBVIOUS
    <3>3. Heading(twin.game, twin.pending, AskedAt(recording, n + 1))
      BY <1>0, <1>5 DEF TwinInv
    <3> HIDE DEF raised
    <3> QED BY <1>1, <1>2, <3>1, <3>2, <3>3, ObeysNext
  <2> HIDE DEF raised
  <2> QED BY <1>1, <2>1, <2>2, <2>3, <2>4 DEF TwinInv
<1>8. StateIsMachine'
  BY <1>0, <1>1 DEF StateIsMachine
<1> QED BY <1>4, <1>6, <1>7, <1>8 DEF FeaturesInv

(* Any nonempty set of naturals up to n has a last one; with 0, a settled  *)
(* feature has a last boundary, and none of the two runs raised there.     *)
LEMMA SettledLast ==
    ASSUME NEW f \in Behavioral, NEW n \in Nat, Settled(f, n)
    PROVE  \E j \in 0..n : LastSafe(met, f, j, n) /\ (j # 0 => ~met[j].failed /\ j \notin twin.raised)
<1> DEFINE safe == {n - j : j \in {i \in 0..n : i = 0 \/ MayChange(f, met[i].boundary)}}
<1>1. safe \subseteq Nat /\ n - 0 \in safe
  OBVIOUS
<1>2. PICK m \in safe : \A x \in safe : m <= x
  BY <1>1, LeastOf
<1>3. PICK j \in 0..n : m = n - j /\ (j = 0 \/ MayChange(f, met[j].boundary))
  BY <1>2
<1>4. \A i \in j + 1..n : ~MayChange(f, met[i].boundary)
  <2> SUFFICES ASSUME NEW i \in j + 1..n, MayChange(f, met[i].boundary) PROVE FALSE
    OBVIOUS
  <2>1. i \in 0..n /\ i > j
    OBVIOUS
  <2>2. n - i \in safe
    BY <2>1
  <2> QED BY <1>2, <1>3, <2>1, <2>2
<1>5. LastSafe(met, f, j, n)
  BY <1>3, <1>4 DEF LastSafe
<1>6. ASSUME j # 0 PROVE ~met[j].failed /\ j \notin twin.raised
  <2>1. j \in 1..n /\ MayChange(f, met[j].boundary)
    BY <1>3, <1>6
  <2> QED BY <1>4, <2>1 DEF Settled
<1> QED BY <1>5, <1>6

LEMMA InvReplays == FeaturesInv => FeaturesReplayed
<1> SUFFICES ASSUME FeaturesInv PROVE FeaturesReplayed
  OBVIOUS
<1>0. RecordingInv /\ LiveInv /\ TwinInv /\ StateIsMachine /\ twin.at \in 0..Len(met) /\ Len(met) \in Nat
  BY LengthIsNat DEF FeaturesInv, RecordingInv
<1> SUFFICES ASSUME NEW f \in Behavioral
             PROVE  /\ twin.at > 0 /\ Settled(f, twin.at) => twin.game[f] = met[twin.at].game[f]
                    /\ (\A e \in recording : e.id <= twin.fed) =>
                          LastValue(twin.game, twin.pending)[f] = LastValue(game, pending)[f]
  BY <1>0 DEF FeaturesReplayed, ReplayedAlike
<1>1. ASSUME twin.at > 0, Settled(f, twin.at)
      PROVE  twin.game[f] = met[twin.at].game[f]
  <2>1. twin.at \in 1..Len(met) /\ twin.at \in Nat
    BY <1>0, <1>1
  <2>2. PICK j \in 0..twin.at : /\ LastSafe(met, f, j, twin.at)
                                /\ j # 0 => ~met[j].failed /\ j \notin twin.raised
    BY <1>1, <2>1, SettledLast
  <2>3. j \notin FailedAt /\ j \notin twin.raised
    BY <1>0, <2>2 DEF FailedAt, TwinInv
  <2>4. twin.game[f] = Wanted(AskedAt(recording, j))[f]
    BY <1>0, <2>2, <2>3 DEF TwinInv, Obeys
  <2>5. Obeys(met[twin.at].game, met, recording, twin.at, FailedAt)
    BY <1>0, <2>1 DEF LiveInv
  <2>6. met[twin.at].game[f] = Wanted(AskedAt(recording, j))[f]
    BY <2>2, <2>3, <2>5 DEF Obeys
  <2> QED BY <2>4, <2>6
<1>2. ASSUME \A e \in recording : e.id <= twin.fed
      PROVE  LastValue(twin.game, twin.pending)[f] = LastValue(game, pending)[f]
  <2>1. FedOf(recording, twin.fed) = recording
    BY <1>2 DEF FedOf
  <2> QED BY <1>0, <2>1 DEF LiveInv, TwinInv, Heading
<1> QED BY <1>1, <1>2

(* Features switched while the program runs: wherever the last boundary at *)
(* which an authoritative feature may change raised in neither run, replay *)
(* and recorded run have the same of it, whatever raised before; no request*)
(* is lost; and controllers say what is so (FeatureController).            *)
THEOREM FeaturesAreReplayed == FeaturesSpec => []FeaturesReplayed
<1>1. FeaturesInv /\ [FeaturesNext]_featureVars => FeaturesInv'
  <2> SUFFICES ASSUME FeaturesInv, [FeaturesNext]_featureVars PROVE FeaturesInv'
    OBVIOUS
  <2>1. CASE UNCHANGED featureVars
    BY <2>1 DEF featureVars, FeaturesInv, RecordingInv, LiveInv, TwinInv, StateIsMachine, FailedAt
  <2> QED BY <2>1, RequestFollows, ApplyFollows, FeedFollows, BoundaryFollows DEF FeaturesNext
<1>2. FeaturesInv => FeaturesReplayed
  BY InvReplays
<1> QED BY <1>1, <1>2, FeaturesInvInit, PTL DEF FeaturesSpec

-----------------------------------------------------------------------------
(* Hooks verified while a program runs.                                    *)

IsMachine(m) == /\ m = [at |-> m.at, v |-> m.v, sp |-> m.sp, cells |-> m.cells]
                /\ DOMAIN m.cells = 0..StackSize - 1

LEMMA PushMachine ==
    ASSUME NEW m, IsMachine(m), NEW w
    PROVE  IsMachine(Push(m, w))
<1> DEFINE c == [m.cells EXCEPT ![m.sp - 1] = w]
<1>1. Push(m, w) = [m EXCEPT !.sp = m.sp - 1, !.cells = c]
  BY DEF Push
<1>2. DOMAIN c = 0..StackSize - 1
  BY DEF IsMachine
<1> HIDE DEF c
<1> QED BY <1>1, <1>2 DEF IsMachine

LEMMA ExecuteMachine ==
    ASSUME NEW m, IsMachine(m)
    PROVE  IsMachine(Execute(m))
<1> DEFINE i == Listing[m.at]
           kinds == {"add", "call", "jmp"}
<1>1. CASE i.op = "add"
  <2>1. Execute(m) = [CountUp(m, i.n) EXCEPT !.at = @ + 1]
    BY <1>1 DEF Execute
  <2> QED BY <2>1 DEF CountUp, IsMachine
<1>2. CASE i.op = "call"
  <2>1. Execute(m) = [Push(m, m.at + 1) EXCEPT !.at = i.to]
    BY <1>2 DEF Execute
  <2>2. IsMachine(Push(m, m.at + 1))
    BY PushMachine
  <2> QED BY <2>1, <2>2 DEF IsMachine
<1>3. CASE i.op = "jmp"
  <2>1. Execute(m) = [m EXCEPT !.at = i.to]
    BY <1>3 DEF Execute
  <2> QED BY <2>1 DEF IsMachine
<1>4. CASE i.op \notin kinds
  <2>1. Execute(m) = PopReturn(m)
    BY <1>4 DEF Execute
  <2> QED BY <2>1 DEF PopReturn, IsMachine
<1> QED BY <1>1, <1>2, <1>3, <1>4

LEMMA DoesMachine ==
    ASSUME NEW m, IsMachine(m), NEW s
    PROVE  IsMachine(Does(m, s))
<1> DEFINE kinds == {"add", "goto", "ret", "interp", "call", "jump"}
<1>1. CASE s.do = "add"
  <2>1. Does(m, s) = CountUp(m, s.n)
    BY <1>1 DEF Does
  <2> QED BY <2>1 DEF CountUp, IsMachine
<1>2. CASE s.do = "goto"
  <2>1. Does(m, s) = [m EXCEPT !.at = s.at]
    BY <1>2 DEF Does
  <2> QED BY <2>1 DEF IsMachine
<1>3. CASE s.do = "ret"
  <2>1. Does(m, s) = PopReturn(m)
    BY <1>3 DEF Does
  <2> QED BY <2>1 DEF PopReturn, IsMachine
<1>4. CASE s.do = "interp"
  <2>1. Does(m, s) = Execute(m)
    BY <1>4 DEF Does
  <2> QED BY <2>1, ExecuteMachine
<1>5. CASE s.do = "call"
  <2>1. Does(m, s) = [Push(m, s.ret) EXCEPT !.at = s.key]
    BY <1>5 DEF Does
  <2>2. IsMachine(Push(m, s.ret))
    BY PushMachine
  <2> QED BY <2>1, <2>2 DEF IsMachine
<1>6. CASE s.do = "jump"
  <2>1. Does(m, s) = [m EXCEPT !.at = s.key]
    BY <1>6 DEF Does
  <2> QED BY <2>1 DEF IsMachine
<1>7. CASE s.do \notin kinds
  <2>1. Does(m, s) = [m EXCEPT !.at = s.at]
    BY <1>7 DEF Does
  <2> QED BY <2>1 DEF IsMachine
<1> QED BY <1>1, <1>2, <1>3, <1>4, <1>5, <1>6, <1>7

(* The original program's run is what its definition says: such a function *)
(* exists.                                                                 *)
LEMMA OriginalRuns ==
    ASSUME NEW m, NEW n \in Nat
    PROVE  /\ Original(m, n)[0] = m
           /\ \A i \in 0..n - 1 : Original(m, n)[i + 1] = Execute(Original(m, n)[i])
<1> DEFINE IsRun(f, j) == f = [i \in 0..j |-> IF i = 0 THEN m ELSE Execute(f[i - 1])]
           S == {j \in Nat : \E h : IsRun(h, j)}
<1>1. 0 \in S
  <2> DEFINE f == [i \in 0..0 |-> m]
  <2>1. IsRun(f, 0)
    OBVIOUS
  <2> QED BY <2>1
<1>2. ASSUME NEW j \in Nat, j \in S PROVE j + 1 \in S
  <2>1. PICK f : IsRun(f, j)
    BY <1>2
  <2> DEFINE last == Execute(f[j])
             g == [i \in 0..j + 1 |-> IF i = j + 1 THEN last ELSE f[i]]
  <2>2. \A i \in 0..j : g[i] = f[i]
    OBVIOUS
  <2>3. ASSUME NEW i \in 0..j + 1
        PROVE  g[i] = IF i = 0 THEN m ELSE Execute(g[i - 1])
    <3>1. CASE i = j + 1
      <4>1. i - 1 = j /\ i # 0 /\ g[j] = f[j]
        BY <2>2, <3>1
      <4> QED BY <3>1, <4>1
    <3>2. CASE i \in 0..j
      <4>1. f[i] = IF i = 0 THEN m ELSE Execute(f[i - 1])
        BY <2>1, <3>2
      <4>2. i # 0 => g[i - 1] = f[i - 1]
        BY <2>2, <3>2
      <4>3. g[i] = f[i]
        BY <2>2, <3>2
      <4> HIDE DEF g
      <4> QED BY <4>1, <4>2, <4>3
    <3> QED BY <3>1, <3>2
  <2>4. IsRun(g, j + 1)
    BY <2>3
  <2> HIDE DEF g, IsRun
  <2>5. \E h : IsRun(h, j + 1)
    BY <2>4
  <2> QED BY <2>5
<1>3. \E h : IsRun(h, n)
  <2>1. Nat \subseteq S
    BY <1>1, <1>2, Inductive
  <2> QED BY <2>1
<1>4. Original(m, n) = CHOOSE h : IsRun(h, n)
  BY DEF Original
<1>5. IsRun(Original(m, n), n)
  BY <1>3, <1>4
<1> HIDE DEF S
<1> QED BY <1>5

(* The frames: outside a verified call none but plain ones; within it, or  *)
(* within one that was not asked for, the one that set the guard and       *)
(* those that were entered from it.                                        *)
Quiet(fs) == \A i \in DOMAIN fs : fs[i].how \in {"plain", "bare"}
Guards(fs, hows) ==
    \E j \in DOMAIN fs : /\ fs[j].how \in hows
                         /\ \A i \in DOMAIN fs : /\ i < j => fs[i].how \in {"plain", "bare"}
                                                 /\ i > j => fs[i].how \in {"bare", "nested"}
GuardedBy(fs) ==
    IF tx = Absent THEN IF active THEN Guards(fs, {"unasked", "skipped"}) ELSE Quiet(fs)
    ELSE active /\ IF tx.stage = "handler" THEN Guards(fs, {"judged"}) ELSE Quiet(fs)

GuardInv == /\ \E S : frames \in Seq(S)
            /\ active \in BOOLEAN
            /\ GuardedBy(frames)
            /\ ended # Absent => frames = <<>> /\ tx = Absent

(* The transaction began with the machine the call found.                  *)
TxInv == tx # Absent =>
    /\ tx = [key |-> tx.key, name |-> tx.name, stage |-> tx.stage, before |-> tx.before,
             asm |-> tx.asm, hooks |-> tx.hooks, least |-> tx.least, targets |-> tx.targets,
             steps |-> tx.steps, saved |-> tx.saved]
    /\ tx.stage \in {"handler", "oracle", "diff"}
    /\ tx.before = entry

(* While the handler runs the passthrough hooks are others; what they were *)
(* is saved.                                                               *)
HookTableInv ==
    /\ cfg \in Configs
    /\ tx = Absent \/ tx.stage # "handler" => hookTable = cfg.table
    /\ tx # Absent /\ tx.stage = "handler" =>
           \A k \in Location : cfg.kind = "pm" \/ k \notin passing => hookTable[k] = cfg.table[k]
    /\ tx # Absent => tx.saved = IF cfg.kind = "pm" THEN <<>> ELSE [k \in passing |-> cfg.table[k]]

ToldInv == told \in [Verdicts -> Nat] /\ told["verified"] = total

(* The oracle is on the original program's way, and has not been where the *)
(* handler ended.                                                          *)
OnTheWay(t, to) ==
    /\ t.hooks = NoHooks /\ t.least = 1
    /\ t.steps \in 0..MaxSteps + 1
    /\ IsMachine(t.asm) /\ t.asm = Original(t.before, MaxSteps + 1)[t.steps]
    /\ t.stage = "handler" => t.steps = 0
    /\ t.stage # "handler" =>
           /\ t.targets = {to}
           /\ \A i \in 1..t.steps - 1 : Original(t.before, MaxSteps + 1)[i].at # to
    /\ t.stage = "diff" => t.steps \in 1..MaxSteps
OracleInv == /\ IsMachine(live)
             /\ tx # Absent /\ PlainOracle => OnTheWay(tx, live.at)

HonestInv == /\ GuardInv /\ TxInv /\ HookTableInv /\ ToldInv /\ OracleInv
             /\ VerifiedReached /\ ReproBefore

-----------------------------------------------------------------------------
(* Frames that are pushed, popped and stepped.                             *)
LEMMA Pushed ==
    ASSUME NEW fs, NEW S, fs \in Seq(S), NEW x
    PROVE  /\ \E T : Append(fs, x) \in Seq(T)
           /\ Len(fs) \in Nat /\ DOMAIN fs = 1..Len(fs)
           /\ DOMAIN Append(fs, x) = 1..Len(fs) + 1
           /\ \A i \in DOMAIN fs : Append(fs, x)[i] = fs[i]
           /\ Append(fs, x)[Len(fs) + 1] = x
<1>1. fs \in Seq(S \cup {x})
  OBVIOUS
<1>2. Append(fs, x) \in Seq(S \cup {x})
  BY <1>1
<1> QED BY <1>1, <1>2

LEMMA Popped ==
    ASSUME NEW fs, NEW S, fs \in Seq(S), fs # <<>>
    PROVE  /\ \E T : SubSeq(fs, 1, Len(fs) - 1) \in Seq(T)
           /\ Len(fs) \in Nat \ {0} /\ DOMAIN fs = 1..Len(fs)
           /\ DOMAIN SubSeq(fs, 1, Len(fs) - 1) = 1..Len(fs) - 1
           /\ \A i \in 1..Len(fs) - 1 : SubSeq(fs, 1, Len(fs) - 1)[i] = fs[i]
OBVIOUS

LEMMA Stepped1 ==
    ASSUME frames # <<>>, NEW S, frames \in Seq(S)
    PROVE  /\ \E T : Advanced \in Seq(T)
           /\ DOMAIN Advanced = DOMAIN frames
           /\ \A i \in DOMAIN frames : Advanced[i].how = frames[i].how
<1> DEFINE f == [key |-> Inner.key, steps |-> Inner.steps, pc |-> Inner.pc + 1, how |-> Inner.how]
<1>1. f.how = frames[Len(frames)].how
  BY DEF Inner
<1>2. Advanced = [frames EXCEPT ![Len(frames)] = f]
  BY DEF Advanced
<1> HIDE DEF f
<1>3. frames \in Seq(S \cup {f})
  OBVIOUS
<1>4. Advanced \in Seq(S \cup {f})
  BY <1>2, <1>3
<1>5. DOMAIN Advanced = DOMAIN frames
  BY <1>2
<1>6. ASSUME NEW i \in DOMAIN frames PROVE Advanced[i].how = frames[i].how
  <2>1. CASE i = Len(frames)
    BY <1>1, <1>2, <2>1
  <2>2. CASE i # Len(frames)
    BY <1>2, <2>2
  <2> QED BY <2>1, <2>2
<1> QED BY <1>4, <1>5, <1>6

LEMMA SameHows ==
    ASSUME NEW fs, NEW gs, DOMAIN gs = DOMAIN fs, \A i \in DOMAIN fs : gs[i].how = fs[i].how
    PROVE  /\ Quiet(fs) => Quiet(gs)
           /\ \A hows : Guards(fs, hows) => Guards(gs, hows)
BY DEF Quiet, Guards

(* The guard's frame goes, or one above it.                                *)
LEMMA QuietPopped ==
    ASSUME NEW fs, NEW S, fs \in Seq(S), fs # <<>>, Quiet(fs)
    PROVE  Quiet(SubSeq(fs, 1, Len(fs) - 1))
BY Popped DEF Quiet

LEMMA GuardsPopped ==
    ASSUME NEW fs, NEW S, fs \in Seq(S), fs # <<>>, NEW hows, Guards(fs, hows),
           hows \cap {"plain", "bare", "nested"} = {}
    PROVE  IF fs[Len(fs)].how \in hows THEN Quiet(SubSeq(fs, 1, Len(fs) - 1))
           ELSE /\ fs[Len(fs)].how \in {"bare", "nested"}
                /\ Guards(SubSeq(fs, 1, Len(fs) - 1), hows)
<1> DEFINE gs == SubSeq(fs, 1, Len(fs) - 1)
           n == Len(fs)
<1>1. /\ n \in Nat \ {0} /\ DOMAIN fs = 1..n /\ DOMAIN gs = 1..n - 1
      /\ \A i \in 1..n - 1 : gs[i] = fs[i]
  BY Popped
<1> HIDE DEF gs, n
<1>2. PICK j \in DOMAIN fs :
          /\ fs[j].how \in hows
          /\ \A i \in DOMAIN fs : /\ i < j => fs[i].how \in {"plain", "bare"}
                                  /\ i > j => fs[i].how \in {"bare", "nested"}
  BY DEF Guards
<1>3. CASE j = n
  <2>1. Quiet(gs)
    BY <1>1, <1>2, <1>3 DEF Quiet
  <2> QED BY <2>1, <1>2, <1>3 DEF gs, n
<1>4. CASE j < n
  <2>1. fs[n].how \in {"bare", "nested"} /\ fs[n].how \notin hows
    BY <1>1, <1>2, <1>4
  <2>2. Guards(gs, hows)
    BY <1>1, <1>2, <1>4 DEF Guards
  <2> QED BY <2>1, <2>2 DEF gs, n
<1> QED BY <1>1, <1>2, <1>3, <1>4

LEMMA QuietPushed ==
    ASSUME NEW fs, NEW S, fs \in Seq(S), NEW x, Quiet(fs)
    PROVE  /\ x.how \in {"plain", "bare"} => Quiet(Append(fs, x))
           /\ \A hows : x.how \in hows => Guards(Append(fs, x), hows)
<1> DEFINE gs == Append(fs, x)
           n == Len(fs)
<1>1. /\ n \in Nat /\ DOMAIN fs = 1..n /\ DOMAIN gs = 1..n + 1
      /\ \A i \in 1..n : gs[i] = fs[i]
      /\ gs[n + 1] = x
  BY Pushed
<1> HIDE DEF gs, n
<1>2. \A i \in DOMAIN gs : i = n + 1 \/ i \in 1..n
  BY <1>1
<1>3. x.how \in {"plain", "bare"} => Quiet(gs)
  BY <1>1, <1>2 DEF Quiet
<1>4. ASSUME NEW hows, x.how \in hows PROVE Guards(gs, hows)
  <2>1. n + 1 \in DOMAIN gs /\ gs[n + 1].how \in hows
    BY <1>1, <1>4
  <2>2. \A i \in DOMAIN gs : i < n + 1 => gs[i].how \in {"plain", "bare"}
    BY <1>1, <1>2 DEF Quiet
  <2>3. \A i \in DOMAIN gs : ~(i > n + 1)
    BY <1>1
  <2> QED BY <2>1, <2>2, <2>3 DEF Guards
<1> QED BY <1>3, <1>4 DEF gs

LEMMA GuardsPushed ==
    ASSUME NEW fs, NEW S, fs \in Seq(S), NEW x, NEW hows, Guards(fs, hows),
           x.how \in {"bare", "nested"}
    PROVE  Guards(Append(fs, x), hows)
<1> DEFINE gs == Append(fs, x)
           n == Len(fs)
<1>1. /\ n \in Nat /\ DOMAIN fs = 1..n /\ DOMAIN gs = 1..n + 1
      /\ \A i \in 1..n : gs[i] = fs[i]
      /\ gs[n + 1] = x
  BY Pushed
<1> HIDE DEF gs, n
<1>2. PICK j \in DOMAIN fs :
          /\ fs[j].how \in hows
          /\ \A i \in DOMAIN fs : /\ i < j => fs[i].how \in {"plain", "bare"}
                                  /\ i > j => fs[i].how \in {"bare", "nested"}
  BY DEF Guards
<1>3. \A i \in DOMAIN gs : i = n + 1 \/ i \in DOMAIN fs
  BY <1>1
<1>4. j \in DOMAIN gs /\ gs[j].how \in hows
  BY <1>1, <1>2
<1>5. ASSUME NEW i \in DOMAIN gs
      PROVE  /\ i < j => gs[i].how \in {"plain", "bare"}
             /\ i > j => gs[i].how \in {"bare", "nested"}
  <2>1. CASE i = n + 1
    BY <1>1, <2>1
  <2>2. CASE i \in DOMAIN fs
    BY <1>1, <1>2, <2>2
  <2> QED BY <1>3, <2>1, <2>2
<1>6. Guards(gs, hows)
  BY <1>4, <1>5 DEF Guards
<1> QED BY <1>6 DEF gs

-----------------------------------------------------------------------------
(* A hook is entered.                                                      *)
LEMMA EnterIs ==
    ASSUME NEW key, NEW name, NEW m, NEW rest, NEW how, NEW checks \in BOOLEAN,
           active \in BOOLEAN, cfg \in Configs, EnterHook(key, name, m, rest, how, checks)
    PROVE  /\ live' = m /\ UNCHANGED <<cfg, passing, total, passed, told, ended>>
           /\ \/ /\ UNCHANGED <<tx, hookTable, entry>>
                 /\ \/ frames' = Append(rest, HostFrame(key, name, how)) /\ active' = active
                    \/ frames' = Append(rest, HostFrame(key, name, "nested")) /\ active /\ active' = TRUE
                    \/ frames' = Append(rest, HostFrame(key, name, "unasked")) /\ ~active /\ active' = TRUE
                    \/ frames' = Append(rest, HostFrame(key, name, "skipped")) /\ ~active /\ active' = TRUE
              \/ /\ ~active /\ active' = TRUE
                 /\ Begin(key, name, m, rest) /\ entry' = m
<1>1. UNCHANGED <<cfg, passing, total, passed>>
  BY DEF EnterHook
<1>2. CASE ~(checks /\ key \notin passing)
  <2>1. /\ live' = m /\ frames' = Append(rest, HostFrame(key, name, how))
        /\ UNCHANGED <<active, tx, hookTable, told, counts, entry, ended>>
    BY <1>2 DEF EnterHook
  <2> QED BY <1>1, <2>1
<1>3. CASE checks /\ key \notin passing
  <2>1. Verify(key, name, m, rest)
    BY <1>3 DEF EnterHook
  <2>2. live' = m /\ active' = TRUE /\ UNCHANGED <<told, ended>>
    BY <2>1 DEF Verify
  <2>3. CASE active
    <3>1. frames' = Append(rest, HostFrame(key, name, "nested")) /\ UNCHANGED <<tx, hookTable, counts, entry>>
      BY <2>1, <2>3 DEF Verify
    <3> QED BY <1>1, <2>2, <2>3, <3>1
  <2>4. CASE ~active /\ ~Asked(key)
    <3>1. frames' = Append(rest, HostFrame(key, name, "unasked")) /\ UNCHANGED <<tx, hookTable, counts, entry>>
      BY <2>1, <2>4 DEF Verify
    <3> QED BY <1>1, <2>2, <2>4, <3>1
  <2> DEFINE known == cfg.kind # "stops" \/ key \in DOMAIN cfg.stops
  <2>5. CASE ~active /\ Asked(key) /\ known
    <3>1. Begin(key, name, m, rest) /\ entry' = m
      BY <2>1, <2>5 DEF Verify
    <3> QED BY <1>1, <2>2, <2>5, <3>1
  <2>6. CASE ~active /\ Asked(key) /\ ~known
    <3>1. frames' = Append(rest, HostFrame(key, name, "skipped")) /\ UNCHANGED <<tx, hookTable, entry>>
      BY <2>1, <2>6 DEF Verify
    <3> QED BY <1>1, <2>2, <2>6, <3>1
  <2> QED BY <2>3, <2>4, <2>5, <2>6
<1> QED BY <1>2, <1>3

LEMMA SameVerdict ==
    ASSUME UNCHANGED <<cfg, passed>>
    PROVE  VerifiedReached => VerifiedReached'
BY DEF VerifiedReached, PlainOracle

LEMMA EnterFrames ==
    ASSUME HonestInv, tx = Absent \/ tx.stage = "handler", ended = Absent,
           NEW m, IsMachine(m), NEW rest, NEW S, rest \in Seq(S), GuardedBy(rest),
           live' = m, UNCHANGED <<cfg, passing, total, passed, told, ended, tx, hookTable, entry>>,
           NEW x, frames' = Append(rest, x),
           \/ x.how \in {"plain", "bare"} /\ active' = active /\ (active => x.how = "bare")
           \/ x.how = "nested" /\ active /\ active' = TRUE
           \/ x.how \in {"unasked", "skipped"} /\ ~active /\ active' = TRUE
    PROVE  HonestInv'
<1>1. GuardInv'
  <2>1. \E T : frames' \in Seq(T)
    BY Pushed
  <2>2. active' \in BOOLEAN
    BY DEF HonestInv, GuardInv
  <2>3. GuardedBy(frames)'
    <3>1. CASE active
      <4>1. x.how \in {"bare", "nested"} /\ active' = TRUE
        BY <3>1
      <4>2. CASE tx = Absent
        <5>1. Guards(rest, {"unasked", "skipped"})
          BY <3>1, <4>2 DEF GuardedBy
        <5>2. Guards(Append(rest, x), {"unasked", "skipped"})
          BY <4>1, <5>1, GuardsPushed
        <5> QED BY <4>1, <4>2, <5>2 DEF GuardedBy, Guards
      <4>3. CASE tx # Absent
        <5>1. tx.stage = "handler" /\ Guards(rest, {"judged"})
          BY <4>3 DEF GuardedBy
        <5>2. Guards(Append(rest, x), {"judged"})
          BY <4>1, <5>1, GuardsPushed
        <5> QED BY <4>1, <4>3, <5>1, <5>2 DEF GuardedBy, Guards
      <4> QED BY <4>2, <4>3
    <3>2. CASE ~active
      <4>1. tx = Absent /\ Quiet(rest)
        BY <3>2 DEF GuardedBy
      <4>2. /\ x.how \in {"plain", "bare"} => Quiet(Append(rest, x))
            /\ x.how \in {"unasked", "skipped"} => Guards(Append(rest, x), {"unasked", "skipped"})
        BY <4>1, QuietPushed
      <4> QED BY <3>2, <4>1, <4>2 DEF GuardedBy, Guards, Quiet
    <3> QED BY <3>1, <3>2 DEF HonestInv, GuardInv
  <2> QED BY <2>1, <2>2, <2>3 DEF GuardInv
<1>2. TxInv'
  BY DEF HonestInv, TxInv
<1>3. HookTableInv'
  BY DEF HonestInv, HookTableInv
<1>4. ToldInv'
  BY DEF HonestInv, ToldInv
<1>5. OracleInv'
  <2>1. IsMachine(live)' /\ tx' = tx
    BY DEF IsMachine
  <2>2. ASSUME tx # Absent, PlainOracle' PROVE OnTheWay(tx, m.at)
    <3>1. PlainOracle /\ tx.stage = "handler"
      BY <2>2 DEF PlainOracle
    <3>2. OnTheWay(tx, live.at)
      BY <2>2, <3>1 DEF HonestInv, OracleInv
    <3> QED BY <3>1, <3>2 DEF OnTheWay
  <2>3. tx' # Absent /\ PlainOracle' => OnTheWay(tx', live'.at)
    BY <2>1, <2>2
  <2> QED BY <2>1, <2>3 DEF OracleInv
<1>6. VerifiedReached'
  BY SameVerdict DEF HonestInv
<1>7. ReproBefore'
  BY DEF HonestInv, ReproBefore
<1> QED BY <1>1, <1>2, <1>3, <1>4, <1>5, <1>6, <1>7 DEF HonestInv

(* A verified call begins.                                                 *)
LEMMA BeginStep ==
    ASSUME HonestInv, tx = Absent, ended = Absent, ~active,
           NEW key, NEW name, NEW m, IsMachine(m), NEW rest, NEW S, rest \in Seq(S), Quiet(rest),
           live' = m, UNCHANGED <<cfg, passing, total, passed, told, ended>>,
           active' = TRUE, Begin(key, name, m, rest), entry' = m
    PROVE  HonestInv'
<1> DEFINE stage == IF cfg.kind = "stops" THEN "oracle" ELSE "handler"
<1>0. cfg \in Configs /\ hookTable = cfg.table
  BY DEF HonestInv, HookTableInv
<1>a. cfg.kind \in {"auto", "stops", "pm"} /\ cfg.table = [k \in Location |-> cfg.table[k]]
  BY <1>0, HooksAssumption
<1>1. tx' = Transaction(key, name, m, stage)
  BY DEF Begin
<1>2. tx' = [key |-> key, name |-> name, stage |-> stage, before |-> m, asm |-> m,
             hooks |-> OracleTable(key), least |-> LeastSteps(key),
             targets |-> IF stage = "oracle" THEN Targets(cfg.stops[key], m) ELSE {},
             steps |-> 0, saved |-> Saved]
  BY <1>1, Zenon DEF Transaction
<1>3. /\ tx'.key = key /\ tx'.name = name /\ tx'.stage = stage /\ tx'.before = m /\ tx'.asm = m
      /\ tx'.hooks = OracleTable(key) /\ tx'.least = LeastSteps(key) /\ tx'.steps = 0
      /\ tx'.saved = Saved
      /\ tx'.targets = IF stage = "oracle" THEN Targets(cfg.stops[key], m) ELSE {}
  BY <1>2
<1>4. tx' # Absent
  <2>1. "stage" \in DOMAIN tx'
    BY <1>2
  <2>2. "stage" \notin DOMAIN Absent
    BY DEF Absent
  <2> QED BY <2>1, <2>2
<1>5. tx' = [key |-> tx'.key, name |-> tx'.name, stage |-> tx'.stage, before |-> tx'.before,
             asm |-> tx'.asm, hooks |-> tx'.hooks, least |-> tx'.least, targets |-> tx'.targets,
             steps |-> tx'.steps, saved |-> tx'.saved]
  BY <1>2
<1>6. stage \in {"handler", "oracle"}
  OBVIOUS
<1>7. GuardInv'
  <2>1. CASE cfg.kind # "stops"
    <3>1. frames' = Append(rest, HostFrame(key, name, "judged"))
      BY <2>1 DEF Begin
    <3>2. HostFrame(key, name, "judged").how \in {"judged"}
      BY DEF HostFrame
    <3>3. Guards(Append(rest, HostFrame(key, name, "judged")), {"judged"})
      BY <3>2, QuietPushed
    <3>4. \E T : frames' \in Seq(T)
      BY <3>1, Pushed
    <3>5. GuardedBy(frames)'
      BY <1>3, <1>4, <2>1, <3>1, <3>3 DEF GuardedBy, Guards
    <3> QED BY <3>4, <3>5 DEF GuardInv
  <2>2. CASE cfg.kind = "stops"
    <3>1. frames' = rest
      BY <2>2 DEF Begin
    <3>2. GuardedBy(frames)'
      BY <1>3, <1>4, <2>2, <3>1 DEF GuardedBy, Quiet
    <3> QED BY <3>1, <3>2 DEF GuardInv
  <2> QED BY <2>1, <2>2
<1>8. TxInv'
  BY <1>3, <1>5, <1>6 DEF TxInv
<1>9. HookTableInv'
  <2>1. tx'.saved = IF cfg.kind = "pm" THEN <<>> ELSE [k \in passing |-> cfg.table[k]]
    BY <1>0, <1>3 DEF Saved
  <2>2. CASE cfg.kind = "stops"
    <3>1. hookTable' = hookTable
      BY <2>2 DEF Begin
    <3> QED BY <1>0, <1>3, <1>4, <2>1, <2>2, <3>1 DEF HookTableInv
  <2>3. CASE cfg.kind # "stops"
    <3>1. hookTable' = LiveTable
      BY <2>3 DEF Begin
    <3>2. ASSUME NEW k \in Location, cfg.kind = "pm" \/ k \notin passing
          PROVE  LiveTable[k] = cfg.table[k]
      <4>1. CASE cfg.kind = "pm"
        BY <1>0, <4>1 DEF LiveTable
      <4>2. CASE cfg.kind # "pm" /\ k \notin passing
        BY <1>0, <4>2 DEF LiveTable, Based, With
      <4> QED BY <3>2, <4>1, <4>2
    <3>3. tx'.stage = "handler"
      BY <1>3, <2>3
    <3> QED BY <1>0, <1>4, <2>1, <3>1, <3>2, <3>3 DEF HookTableInv
  <2> QED BY <2>2, <2>3
<1>10. ToldInv'
  BY DEF HonestInv, ToldInv
<1>11. OracleInv'
  <2>1. IsMachine(live)'
    BY DEF IsMachine
  <2>2. ASSUME PlainOracle' PROVE OnTheWay(tx', m.at)
    <3>1. cfg.kind = "pm" \/ (cfg.kind = "auto" /\ ~cfg.keeps)
      BY <2>2 DEF PlainOracle
    <3>2. tx'.hooks = NoHooks
      BY <1>3, <3>1 DEF OracleTable
    <3>3. tx'.least = 1 /\ tx'.stage = "handler"
      BY <1>3, <3>1 DEF LeastSteps
    <3>4. m = Original(m, MaxSteps + 1)[0] /\ MaxSteps + 1 \in Nat
      BY OriginalRuns, HooksAssumption
    <3> QED BY <1>3, <3>2, <3>3, <3>4 DEF OnTheWay
  <2>3. tx' # Absent /\ PlainOracle' => OnTheWay(tx', live'.at)
    BY <2>2
  <2> QED BY <2>1, <2>3 DEF OracleInv
<1>12. VerifiedReached'
  BY SameVerdict DEF HonestInv
<1>13. ReproBefore'
  BY DEF HonestInv, ReproBefore
<1> QED BY <1>7, <1>8, <1>9, <1>10, <1>11, <1>12, <1>13 DEF HonestInv

LEMMA EnterStep ==
    ASSUME HonestInv, tx = Absent \/ tx.stage = "handler", ended = Absent,
           NEW key, NEW name, NEW m, IsMachine(m), NEW rest, NEW S, rest \in Seq(S), GuardedBy(rest),
           NEW how \in {"plain", "bare"}, active => how = "bare", NEW checks \in BOOLEAN,
           EnterHook(key, name, m, rest, how, checks)
    PROVE  HonestInv'
<1>0. active \in BOOLEAN /\ cfg \in Configs
  BY DEF HonestInv, GuardInv, HookTableInv
<1>1. /\ live' = m /\ UNCHANGED <<cfg, passing, total, passed, told, ended>>
      /\ \/ /\ UNCHANGED <<tx, hookTable, entry>>
            /\ \/ frames' = Append(rest, HostFrame(key, name, how)) /\ active' = active
               \/ frames' = Append(rest, HostFrame(key, name, "nested")) /\ active /\ active' = TRUE
               \/ frames' = Append(rest, HostFrame(key, name, "unasked")) /\ ~active /\ active' = TRUE
               \/ frames' = Append(rest, HostFrame(key, name, "skipped")) /\ ~active /\ active' = TRUE
         \/ /\ ~active /\ active' = TRUE
            /\ Begin(key, name, m, rest) /\ entry' = m
  BY <1>0, EnterIs
<1>2. \A h : HostFrame(key, name, h).how = h
  BY DEF HostFrame
<1>3. CASE /\ UNCHANGED <<tx, hookTable, entry>>
           /\ \/ frames' = Append(rest, HostFrame(key, name, how)) /\ active' = active
              \/ frames' = Append(rest, HostFrame(key, name, "nested")) /\ active /\ active' = TRUE
              \/ frames' = Append(rest, HostFrame(key, name, "unasked")) /\ ~active /\ active' = TRUE
              \/ frames' = Append(rest, HostFrame(key, name, "skipped")) /\ ~active /\ active' = TRUE
  <2>1. \E x : /\ frames' = Append(rest, x)
               /\ \/ x.how \in {"plain", "bare"} /\ active' = active /\ (active => x.how = "bare")
                  \/ x.how = "nested" /\ active /\ active' = TRUE
                  \/ x.how \in {"unasked", "skipped"} /\ ~active /\ active' = TRUE
    BY <1>2, <1>3
  <2> QED BY <1>1, <1>3, <2>1, EnterFrames
<1>4. CASE ~active /\ active' = TRUE /\ Begin(key, name, m, rest) /\ entry' = m
  <2>1. tx = Absent /\ Quiet(rest)
    BY <1>4 DEF GuardedBy
  <2> QED BY <1>1, <1>4, <2>1, BeginStep
<1> QED BY <1>1, <1>3, <1>4

-----------------------------------------------------------------------------
(* The handler's steps.                                                    *)
LEMMA Hows ==
    \A f : Reported(f) # "verified"
<1> SUFFICES ASSUME NEW f PROVE Reported(f) # "verified"
  OBVIOUS
<1>1. CASE f.how \in {"plain", "unasked"}
  BY <1>1 DEF Reported
<1>2. CASE f.how = "nested" /\ cfg.kind # "pm"
  BY <1>2 DEF Reported
<1>3. CASE f.how = "skipped"
  BY <1>3 DEF Reported
<1>4. CASE ~(f.how \in {"plain", "unasked"} \/ (f.how = "nested" /\ cfg.kind # "pm") \/ f.how = "skipped")
  BY <1>4 DEF Reported
<1> QED BY <1>1, <1>2, <1>3, <1>4

LEMMA UnwoundTold ==
    ASSUME NEW S, frames \in Seq(S), NEW t \in [Verdicts -> Nat]
    PROVE  Unwound(t) \in [Verdicts -> Nat] /\ Unwound(t)["verified"] = t["verified"]
<1> DEFINE R(v) == {i \in DOMAIN frames : Reported(frames[i]) = v}
<1>1. Unwound(t) = [v \in Verdicts |-> t[v] + Cardinality(R(v))]
  BY DEF Unwound
<1>2. ASSUME NEW v PROVE Cardinality(R(v)) \in Nat
  <2>1. DOMAIN frames = 1..Len(frames) /\ Len(frames) \in Nat
    OBVIOUS
  <2>2. IsFiniteSet(1..Len(frames))
    BY <2>1, FS_Interval
  <2>3. IsFiniteSet(R(v))
    BY <2>1, <2>2, FS_Subset
  <2> QED BY <2>3, FS_CardinalityType
<1>3. R("verified") = {}
  BY Hows
<1>4. Cardinality(R("verified")) = 0
  BY <1>3, FS_EmptySet
<1> HIDE DEF R
<1>5. "verified" \in Verdicts
  BY DEF Verdicts
<1> QED BY <1>1, <1>2, <1>4, <1>5

LEMMA TellTold ==
    ASSUME NEW t \in [Verdicts -> Nat], NEW v
    PROVE  /\ Tell(t, v) \in [Verdicts -> Nat]
           /\ Tell(t, v)["verified"] = IF v = "verified" THEN t["verified"] + 1 ELSE t["verified"]
BY DEF Tell, Verdicts

(* The hooks are put back.                                                 *)
LEMMA Restored ==
    ASSUME HonestInv
    PROVE  TableRestored = cfg.table
<1>0. cfg \in Configs
  BY DEF HonestInv, HookTableInv
<1>a. DOMAIN cfg.table = Location /\ cfg.table = [k \in Location |-> cfg.table[k]]
  BY <1>0, HooksAssumption
<1>1. CASE tx = Absent \/ tx.stage # "handler"
  BY <1>1 DEF HonestInv, HookTableInv, TableRestored
<1>2. CASE tx # Absent /\ tx.stage = "handler"
  <2>1. TableRestored = With(hookTable, DOMAIN tx.saved, tx.saved)
    BY <1>2 DEF TableRestored
  <2>2. /\ tx.saved = IF cfg.kind = "pm" THEN <<>> ELSE [k \in passing |-> cfg.table[k]]
        /\ \A k \in Location : cfg.kind = "pm" \/ k \notin passing => hookTable[k] = cfg.table[k]
    BY <1>2 DEF HonestInv, HookTableInv
  <2>3. CASE cfg.kind = "pm"
    <3>1. DOMAIN tx.saved = {}
      BY <2>2, <2>3
    <3> QED BY <1>a, <2>1, <2>2, <2>3, <3>1 DEF With
  <2>4. CASE cfg.kind # "pm"
    <3>1. tx.saved = [k \in passing |-> cfg.table[k]]
      BY <2>2, <2>4
    <3> QED BY <1>a, <2>1, <2>2, <2>4, <3>1 DEF With
  <2> QED BY <2>3, <2>4
<1> QED BY <1>1, <1>2

LEMMA EscapeStep ==
    ASSUME HonestInv, NEW why, why # "diverged", NEW repro, Escape(why, repro),
           UNCHANGED <<cfg, passing, total, passed, entry>>, IsMachine(live')
    PROVE  HonestInv'
<1>1. /\ ended' = [why |-> why, repro |-> repro, from |-> entry]
      /\ told' = Unwound(told) /\ hookTable' = TableRestored
      /\ frames' = <<>> /\ tx' = Absent /\ active' = FALSE
  BY DEF Escape
<1>2. GuardInv'
  <2>1. frames' \in Seq({})
    BY <1>1
  <2>2. Quiet(frames)'
    BY <1>1 DEF Quiet
  <2> QED BY <1>1, <2>1, <2>2 DEF GuardInv, GuardedBy, Quiet
<1>3. TxInv'
  BY <1>1 DEF TxInv
<1>4. HookTableInv'
  BY <1>1, Restored DEF HonestInv, HookTableInv
<1>5. ToldInv'
  <2>1. PICK S : frames \in Seq(S)
    BY DEF HonestInv, GuardInv
  <2>2. told \in [Verdicts -> Nat] /\ told["verified"] = total
    BY DEF HonestInv, ToldInv
  <2>3. Unwound(told) \in [Verdicts -> Nat] /\ Unwound(told)["verified"] = told["verified"]
    BY <2>1, <2>2, UnwoundTold
  <2> QED BY <1>1, <2>2, <2>3 DEF ToldInv
<1>6. OracleInv'
  BY <1>1 DEF OracleInv, IsMachine
<1>7. VerifiedReached'
  BY SameVerdict DEF HonestInv
<1>8. ReproBefore'
  BY <1>1 DEF ReproBefore
<1> QED BY <1>2, <1>3, <1>4, <1>5, <1>6, <1>7, <1>8 DEF HonestInv

LEMMA HandlerStepKeeps ==
    ASSUME HonestInv, HandlerStep
    PROVE  HonestInv'
<1>1. /\ frames # <<>> /\ (tx = Absent \/ tx.stage = "handler")
      /\ live' = Does(live, Next1) /\ frames' = Advanced
      /\ UNCHANGED <<cfg, hookTable, passing, active, tx, told, total, ended, passed, entry>>
  BY DEF HandlerStep, Running
<1>2. PICK S : frames \in Seq(S)
  BY DEF HonestInv, GuardInv
<1>3. /\ \E T : Advanced \in Seq(T)
      /\ Quiet(frames) => Quiet(Advanced)
      /\ \A hows : Guards(frames, hows) => Guards(Advanced, hows)
  BY <1>1, <1>2, Stepped1, SameHows
<1>4. GuardInv'
  <2>1. GuardedBy(frames) /\ active \in BOOLEAN /\ ended = Absent
    BY <1>1 DEF HonestInv, GuardInv
  <2>2. GuardedBy(Advanced)
    BY <1>3, <2>1 DEF GuardedBy
  <2>3. GuardedBy(frames)'
    BY <1>1, <2>2 DEF GuardedBy, Guards, Quiet
  <2> QED BY <1>1, <1>3, <2>1, <2>3 DEF GuardInv
<1>5. TxInv'
  BY <1>1 DEF HonestInv, TxInv
<1>6. HookTableInv'
  BY <1>1 DEF HonestInv, HookTableInv
<1>7. ToldInv'
  BY <1>1 DEF HonestInv, ToldInv
<1>8. OracleInv'
  <2>1. IsMachine(live')
    BY <1>1, DoesMachine DEF HonestInv, OracleInv
  <2>2. ASSUME tx # Absent, PlainOracle PROVE OnTheWay(tx, live'.at)
    <3>1. OnTheWay(tx, live.at) /\ tx.stage = "handler"
      BY <1>1, <2>2 DEF HonestInv, OracleInv
    <3> QED BY <3>1 DEF OnTheWay
  <2>3. PlainOracle' <=> PlainOracle
    BY <1>1 DEF PlainOracle
  <2>4. IsMachine(live)'
    BY <2>1 DEF IsMachine
  <2>5. tx' # Absent /\ PlainOracle' => OnTheWay(tx', live'.at)
    BY <1>1, <2>2, <2>3
  <2> QED BY <2>4, <2>5 DEF OracleInv
<1>9. VerifiedReached'
  BY <1>1, SameVerdict DEF HonestInv
<1>10. ReproBefore'
  BY <1>1 DEF HonestInv, ReproBefore
<1> QED BY <1>4, <1>5, <1>6, <1>7, <1>8, <1>9, <1>10 DEF HonestInv

LEMMA HandlerEntersKeeps ==
    ASSUME HonestInv, HandlerEnters
    PROVE  HonestInv'
<1> DEFINE name == IF Hooked(hookTable, Next1.key) THEN hookTable[Next1.key] ELSE Next1.default
<1>1. /\ frames # <<>> /\ (tx = Absent \/ tx.stage = "handler")
      /\ EnterHook(Next1.key, name, Does(live, Next1), Advanced, "bare", cfg.nested)
  BY DEF HandlerEnters, Running
<1>2. PICK S : frames \in Seq(S)
  BY DEF HonestInv, GuardInv
<1>3. PICK T : Advanced \in Seq(T)
  BY <1>1, <1>2, Stepped1
<1>4. /\ Quiet(frames) => Quiet(Advanced)
      /\ \A hows : Guards(frames, hows) => Guards(Advanced, hows)
  BY <1>1, <1>2, Stepped1, SameHows
<1>5. GuardedBy(Advanced) /\ ended = Absent
  BY <1>1, <1>4 DEF HonestInv, GuardInv, GuardedBy
<1>6. IsMachine(Does(live, Next1))
  BY DoesMachine DEF HonestInv, OracleInv
<1>7. cfg.nested \in BOOLEAN
  BY HooksAssumption DEF HonestInv, HookTableInv
<1> HIDE DEF name
<1> QED BY <1>1, <1>3, <1>5, <1>6, <1>7, EnterStep

LEMMA HandlerEndsKeeps ==
    ASSUME HonestInv, HandlerEnds
    PROVE  HonestInv'
<1> DEFINE popped == SubSeq(frames, 1, Len(frames) - 1)
           how == Inner.how
<1>1. /\ frames # <<>> /\ (tx = Absent \/ tx.stage = "handler")
      /\ frames' = popped
      /\ active' = (active /\ how \notin {"unasked", "skipped"})
      /\ UNCHANGED <<cfg, live, passing, total, ended, passed, entry>>
  BY DEF HandlerEnds, Running
<1>2. PICK S : frames \in Seq(S)
  BY DEF HonestInv, GuardInv
<1>3. how = frames[Len(frames)].how
  BY DEF Inner
<1>4. \E T : popped \in Seq(T)
  BY <1>1, <1>2, Popped
<1>5. GuardedBy(frames) /\ active \in BOOLEAN /\ ended = Absent
  BY <1>1 DEF HonestInv, GuardInv
<1>6. /\ Quiet(frames) => Quiet(popped) /\ how \in {"plain", "bare"}
      /\ \A hows : Guards(frames, hows) /\ hows \cap {"plain", "bare", "nested"} = {} =>
             IF how \in hows THEN Quiet(popped) ELSE how \in {"bare", "nested"} /\ Guards(popped, hows)
  <2>1. Quiet(frames) => Quiet(popped)
    BY <1>1, <1>2, QuietPopped
  <2>2. Len(frames) \in DOMAIN frames
    BY <1>1, <1>2
  <2>3. Quiet(frames) => how \in {"plain", "bare"}
    BY <1>3, <2>2 DEF Quiet
  <2>4. ASSUME NEW hows, Guards(frames, hows), hows \cap {"plain", "bare", "nested"} = {}
        PROVE  IF how \in hows THEN Quiet(popped) ELSE how \in {"bare", "nested"} /\ Guards(popped, hows)
    BY <1>1, <1>2, <1>3, <2>4, GuardsPopped
  <2> QED BY <2>1, <2>3, <2>4
<1>7. VerifiedReached'
  BY <1>1, SameVerdict DEF HonestInv
<1>8. ReproBefore'
  BY <1>1 DEF HonestInv, ReproBefore
<1>9. cfg \in Configs /\ told \in [Verdicts -> Nat] /\ told["verified"] = total
  BY DEF HonestInv, HookTableInv, ToldInv
<1> HIDE DEF popped, how
<1>10. CASE how = "judged"
  <2> DEFINE stage == IF cfg.kind = "stops" THEN "diff" ELSE "oracle"
             targets == IF cfg.kind = "stops" THEN tx.targets ELSE {live.at}
  <2>1. /\ tx' = [tx EXCEPT !.stage = stage, !.targets = targets]
        /\ hookTable' = TableRestored
        /\ told' = IF cfg.kind = "pm" THEN Tell(told, "unverified") ELSE told
    BY <1>10 DEF HandlerEnds, how
  <2>2. tx # Absent /\ tx.stage = "handler" /\ active
    <3>1. CASE tx = Absent /\ active
      <4>1. Guards(frames, {"unasked", "skipped"})
        BY <1>5, <3>1 DEF GuardedBy
      <4>2. how \in {"unasked", "skipped", "bare", "nested"}
        BY <1>6, <4>1
      <4> QED BY <1>10, <4>2
    <3>2. CASE tx = Absent /\ ~active
      BY <1>5, <1>6, <1>10, <3>2 DEF GuardedBy
    <3>3. CASE tx # Absent
      BY <1>1, <1>5, <3>3 DEF GuardedBy
    <3> QED BY <1>5, <3>1, <3>2, <3>3
  <2>3. Quiet(popped)
    <3>1. Guards(frames, {"judged"})
      BY <1>5, <2>2 DEF GuardedBy
    <3> QED BY <1>6, <1>10, <3>1
  <2>4. tx = [key |-> tx.key, name |-> tx.name, stage |-> tx.stage, before |-> tx.before,
              asm |-> tx.asm, hooks |-> tx.hooks, least |-> tx.least, targets |-> tx.targets,
              steps |-> tx.steps, saved |-> tx.saved] /\ tx.before = entry
    BY <2>2 DEF HonestInv, TxInv
  <2> HIDE DEF stage, targets
  <2>5. tx' = [key |-> tx.key, name |-> tx.name, stage |-> stage, before |-> tx.before,
               asm |-> tx.asm, hooks |-> tx.hooks, least |-> tx.least, targets |-> targets,
               steps |-> tx.steps, saved |-> tx.saved]
    BY <2>1, <2>4
  <2>6. tx' # Absent
    BY <2>5 DEF Absent
  <2>7. stage \in {"oracle", "diff"}
    BY DEF stage
  <2>8. GuardInv'
    <3>1. active' = TRUE
      BY <1>1, <1>10, <2>2
    <3>2. tx'.stage # "handler"
      BY <2>5, <2>7
    <3>3. GuardedBy(frames)'
      BY <1>1, <2>3, <2>6, <3>1, <3>2 DEF GuardedBy, Quiet
    <3> QED BY <1>1, <1>4, <1>5, <3>1, <3>3 DEF GuardInv
  <2>9. TxInv'
    BY <1>1, <2>4, <2>5, <2>7 DEF TxInv
  <2>10. HookTableInv'
    <3>1. hookTable' = cfg.table
      BY <2>1, Restored
    <3>2. tx'.stage # "handler" /\ tx'.saved = tx.saved
      BY <2>5, <2>7
    <3>3. tx.saved = IF cfg.kind = "pm" THEN <<>> ELSE [k \in passing |-> cfg.table[k]]
      BY <2>2 DEF HonestInv, HookTableInv
    <3> QED BY <1>1, <1>9, <3>1, <3>2, <3>3 DEF HookTableInv
  <2>11. ToldInv'
    BY <1>1, <1>9, <2>1, TellTold DEF ToldInv
  <2>12. OracleInv'
    <3>1. IsMachine(live)'
      BY <1>1 DEF HonestInv, OracleInv, IsMachine
    <3>2. ASSUME PlainOracle PROVE OnTheWay(tx', live.at)
      <4>1. OnTheWay(tx, live.at)
        BY <2>2, <3>2 DEF HonestInv, OracleInv
      <4>2. stage = "oracle" /\ targets = {live.at}
        BY <3>2 DEF PlainOracle, stage, targets
      <4>3. /\ tx'.hooks = tx.hooks /\ tx'.least = tx.least /\ tx'.steps = tx.steps /\ tx'.asm = tx.asm
            /\ tx'.before = tx.before /\ tx'.stage = "oracle" /\ tx'.targets = {live.at}
        BY <2>5, <4>2
      <4> QED BY <2>2, <4>1, <4>3 DEF OnTheWay
    <3>3. PlainOracle' <=> PlainOracle
      BY <1>1 DEF PlainOracle
    <3>4. tx' # Absent /\ PlainOracle' => OnTheWay(tx', live'.at)
      BY <1>1, <3>2, <3>3
    <3> QED BY <3>1, <3>4 DEF OracleInv
  <2> QED BY <1>7, <1>8, <2>8, <2>9, <2>10, <2>11, <2>12 DEF HonestInv
<1>11. CASE how # "judged"
  <2>1. /\ UNCHANGED <<tx, hookTable>>
        /\ told' = Tell(told, IF how = "nested" THEN "unverified" ELSE Reported(Inner))
    BY <1>11 DEF HandlerEnds, how
  <2>2. GuardInv'
    <3>1. GuardedBy(frames)'
      <4>1. CASE tx = Absent /\ active
        <5>1. Guards(frames, {"unasked", "skipped"})
          BY <1>5, <4>1 DEF GuardedBy
        <5>2. CASE how \in {"unasked", "skipped"}
          <6>1. active' = FALSE /\ Quiet(popped)
            BY <1>1, <1>6, <5>1, <5>2
          <6> QED BY <1>1, <2>1, <4>1, <6>1 DEF GuardedBy, Quiet
        <5>3. CASE how \notin {"unasked", "skipped"}
          <6>1. active' = TRUE
            BY <1>1, <4>1, <5>3
          <6>2. Guards(popped, {"unasked", "skipped"})
            BY <1>6, <5>1, <5>3
          <6> QED BY <1>1, <2>1, <4>1, <6>1, <6>2 DEF GuardedBy, Guards
        <5> QED BY <5>2, <5>3
      <4>2. CASE tx = Absent /\ ~active
        <5>1. active' = FALSE
          BY <1>1, <4>2
        <5>2. Quiet(popped)
          BY <1>5, <1>6, <4>2 DEF GuardedBy
        <5> QED BY <1>1, <2>1, <4>2, <5>1, <5>2 DEF GuardedBy, Quiet
      <4>3. CASE tx # Absent
        <5>1. active /\ tx.stage = "handler" /\ Guards(frames, {"judged"})
          BY <1>1, <1>5, <4>3 DEF GuardedBy
        <5>2. how \in {"bare", "nested"} /\ Guards(popped, {"judged"})
          BY <1>6, <1>11, <5>1
        <5>3. active' = TRUE
          BY <1>1, <5>1, <5>2
        <5> QED BY <1>1, <2>1, <4>3, <5>1, <5>2, <5>3 DEF GuardedBy, Guards
      <4> QED BY <1>5, <4>1, <4>2, <4>3
    <3>2. active' \in BOOLEAN
      BY <1>1, <1>5
    <3> QED BY <1>1, <1>4, <1>5, <3>1, <3>2 DEF GuardInv
  <2>3. TxInv'
    BY <1>1, <2>1 DEF HonestInv, TxInv
  <2>4. HookTableInv'
    BY <1>1, <2>1 DEF HonestInv, HookTableInv
  <2>5. ToldInv'
    <3>1. (IF how = "nested" THEN "unverified" ELSE Reported(Inner)) # "verified"
      BY Hows
    <3> QED BY <1>1, <1>9, <2>1, <3>1, TellTold DEF ToldInv
  <2>6. OracleInv'
    BY <1>1, <2>1 DEF HonestInv, OracleInv, IsMachine, PlainOracle
  <2> QED BY <1>7, <1>8, <2>2, <2>3, <2>4, <2>5, <2>6 DEF HonestInv
<1> QED BY <1>10, <1>11

-----------------------------------------------------------------------------
(* The interpreter and the host.                                           *)
LEMMA IdleKeeps ==
    ASSUME HonestInv, Interpret \/ Dispatch \/ Resume
    PROVE  HonestInv'
<1>1. CASE Interpret
  <2>1. /\ tx = Absent /\ live' = Execute(live)
        /\ UNCHANGED <<cfg, hookTable, passing, frames, active, tx, told, total, ended, passed, entry>>
    BY <1>1 DEF Interpret, Idle
  <2>2. IsMachine(live')
    BY <2>1, ExecuteMachine DEF HonestInv, OracleInv
  <2>3. OracleInv'
    BY <2>1, <2>2 DEF OracleInv, IsMachine
  <2>4. GuardInv' /\ TxInv' /\ HookTableInv' /\ ToldInv' /\ ReproBefore'
    BY <2>1 DEF HonestInv, GuardInv, GuardedBy, Guards, Quiet, TxInv, HookTableInv, ToldInv, ReproBefore
  <2> QED BY <2>1, <2>3, <2>4, SameVerdict DEF HonestInv
<1>2. CASE Dispatch
  <2>1. /\ frames = <<>> /\ tx = Absent /\ ended = Absent
        /\ EnterHook(live.at, hookTable[live.at], live, <<>>, "plain", TRUE)
    BY <1>2 DEF Dispatch, Idle
  <2>2. <<>> \in Seq({}) /\ GuardedBy(<<>>)
    BY <2>1 DEF HonestInv, GuardInv
  <2>3. ~active
    BY <2>1, <2>2 DEF GuardedBy, Guards
  <2>4. IsMachine(live)
    BY DEF HonestInv, OracleInv
  <2> QED BY <2>1, <2>2, <2>3, <2>4, EnterStep
<1>3. CASE Resume
  <2>1. /\ ended' = Absent
        /\ UNCHANGED <<cfg, live, hookTable, passing, frames, active, tx, told, total, passed, entry>>
    BY <1>3 DEF Resume
  <2>2. GuardInv'
    BY <2>1 DEF HonestInv, GuardInv, GuardedBy, Guards, Quiet
  <2>3. TxInv' /\ HookTableInv' /\ ToldInv'
    BY <2>1 DEF HonestInv, TxInv, HookTableInv, ToldInv
  <2>4. OracleInv'
    BY <2>1 DEF HonestInv, OracleInv, IsMachine, PlainOracle
  <2>5. ReproBefore'
    BY <2>1 DEF ReproBefore
  <2> QED BY <2>1, <2>2, <2>3, <2>4, <2>5, SameVerdict DEF HonestInv
<1> QED BY <1>1, <1>2, <1>3

-----------------------------------------------------------------------------
(* The oracle.                                                             *)
LEMMA PlainExecutes ==
    ASSUME NEW m
    PROVE  OracleExecutes(m, NoHooks) = Execute(m)
<1>1. ~Hooked(NoHooks, m.at)
  BY DEF Hooked, NoHooks
<1> QED BY <1>1 DEF OracleExecutes

LEMMA OracleStepKeeps ==
    ASSUME HonestInv, OracleStep
    PROVE  HonestInv'
<1> DEFINE asm == OracleExecutes(tx.asm, tx.hooks)
           run == Original(tx.before, MaxSteps + 1)
<1>1. /\ tx # Absent /\ tx.stage = "oracle" /\ ~Arrived /\ tx.steps <= MaxSteps
      /\ tx' = [tx EXCEPT !.asm = asm, !.steps = tx.steps + 1]
      /\ UNCHANGED <<cfg, live, hookTable, passing, frames, active, told, total, ended, passed, entry>>
  BY DEF OracleStep
<1>2. tx = [key |-> tx.key, name |-> tx.name, stage |-> tx.stage, before |-> tx.before,
            asm |-> tx.asm, hooks |-> tx.hooks, least |-> tx.least, targets |-> tx.targets,
            steps |-> tx.steps, saved |-> tx.saved] /\ tx.before = entry
  BY <1>1 DEF HonestInv, TxInv
<1> HIDE DEF asm
<1>3. tx' = [key |-> tx.key, name |-> tx.name, stage |-> tx.stage, before |-> tx.before,
             asm |-> asm, hooks |-> tx.hooks, least |-> tx.least, targets |-> tx.targets,
             steps |-> tx.steps + 1, saved |-> tx.saved]
  BY <1>1, <1>2
<1>4. tx' # Absent
  BY <1>3 DEF Absent
<1>5. /\ tx'.stage = "oracle" /\ tx'.saved = tx.saved /\ tx'.before = tx.before /\ tx'.hooks = tx.hooks
      /\ tx'.least = tx.least /\ tx'.targets = tx.targets /\ tx'.asm = asm /\ tx'.steps = tx.steps + 1
  BY <1>1, <1>3
<1>6. GuardInv'
  BY <1>1, <1>4, <1>5 DEF HonestInv, GuardInv, GuardedBy, Guards, Quiet
<1>7. TxInv'
  BY <1>1, <1>2, <1>3, <1>5 DEF TxInv
<1>8. HookTableInv'
  BY <1>1, <1>4, <1>5 DEF HonestInv, HookTableInv
<1>9. ToldInv'
  BY <1>1 DEF HonestInv, ToldInv
<1>10. OracleInv'
  <2>1. ASSUME PlainOracle PROVE OnTheWay(tx', live.at)
    <3>1. OnTheWay(tx, live.at)
      BY <1>1, <2>1 DEF HonestInv, OracleInv
    <3>2. /\ tx.hooks = NoHooks /\ tx.least = 1 /\ tx.steps \in 0..MaxSteps + 1
          /\ IsMachine(tx.asm) /\ tx.asm = run[tx.steps] /\ tx.targets = {live.at}
          /\ \A i \in 1..tx.steps - 1 : run[i].at # live.at
      BY <1>1, <3>1 DEF OnTheWay
    <3>3. MaxSteps \in Nat /\ tx.steps \in 0..MaxSteps
      BY <1>1, <3>2, HooksAssumption
    <3>4. asm = Execute(tx.asm) /\ IsMachine(asm)
      BY <3>2, PlainExecutes, ExecuteMachine DEF asm
    <3>5. run[tx.steps + 1] = Execute(run[tx.steps])
      BY <3>3, OriginalRuns
    <3>6. tx.steps >= 1 => run[tx.steps].at # live.at
      BY <1>1, <3>2 DEF Arrived
    <3> HIDE DEF run
    <3>7. \A i \in 1..tx.steps : run[i].at # live.at
      BY <3>2, <3>3, <3>6
    <3>8. asm = run[tx.steps + 1]
      BY <3>2, <3>4, <3>5
    <3>9. (tx.steps + 1) - 1 = tx.steps /\ tx.steps + 1 \in 0..MaxSteps + 1
      BY <3>3
    <3>10. /\ asm = Original(tx.before, MaxSteps + 1)[tx.steps + 1]
           /\ \A i \in 1..(tx.steps + 1) - 1 : Original(tx.before, MaxSteps + 1)[i].at # live.at
      BY <3>7, <3>8, <3>9 DEF run
    <3> QED BY <1>5, <3>2, <3>4, <3>9, <3>10 DEF OnTheWay
  <2>2. PlainOracle' <=> PlainOracle
    BY <1>1 DEF PlainOracle
  <2>3. IsMachine(live)'
    BY <1>1 DEF HonestInv, OracleInv, IsMachine
  <2>4. tx' # Absent /\ PlainOracle' => OnTheWay(tx', live'.at)
    BY <1>1, <2>1, <2>2
  <2> QED BY <2>3, <2>4 DEF OracleInv
<1>11. VerifiedReached'
  BY <1>1, SameVerdict DEF HonestInv
<1>12. ReproBefore'
  BY <1>1 DEF HonestInv, ReproBefore
<1> QED BY <1>6, <1>7, <1>8, <1>9, <1>10, <1>11, <1>12 DEF HonestInv

LEMMA OracleArrivesKeeps ==
    ASSUME HonestInv, OracleArrives
    PROVE  HonestInv'
<1> DEFINE stage == IF cfg.kind = "stops" THEN "handler" ELSE "diff"
<1>1. /\ tx # Absent /\ tx.stage = "oracle" /\ Arrived /\ tx.steps <= MaxSteps
      /\ tx' = [tx EXCEPT !.stage = stage]
      /\ UNCHANGED <<cfg, live, passing, active, told, total, ended, passed, entry>>
  BY DEF OracleArrives
<1>2. tx = [key |-> tx.key, name |-> tx.name, stage |-> tx.stage, before |-> tx.before,
            asm |-> tx.asm, hooks |-> tx.hooks, least |-> tx.least, targets |-> tx.targets,
            steps |-> tx.steps, saved |-> tx.saved] /\ tx.before = entry
  BY <1>1 DEF HonestInv, TxInv
<1>3. tx' = [key |-> tx.key, name |-> tx.name, stage |-> stage, before |-> tx.before,
             asm |-> tx.asm, hooks |-> tx.hooks, least |-> tx.least, targets |-> tx.targets,
             steps |-> tx.steps, saved |-> tx.saved]
  BY <1>1, <1>2
<1>4. tx' # Absent
  BY <1>3 DEF Absent
<1>5. /\ tx'.stage = stage /\ tx'.saved = tx.saved /\ tx'.before = tx.before /\ tx'.hooks = tx.hooks
      /\ tx'.least = tx.least /\ tx'.targets = tx.targets /\ tx'.asm = tx.asm /\ tx'.steps = tx.steps
  BY <1>3
<1>6. active /\ Quiet(frames) /\ ended = Absent /\ \E S : frames \in Seq(S)
  BY <1>1 DEF HonestInv, GuardInv, GuardedBy
<1>7. cfg \in Configs /\ hookTable = cfg.table
  BY <1>1 DEF HonestInv, HookTableInv
<1>8. cfg.table = [k \in Location |-> cfg.table[k]]
  BY <1>7, HooksAssumption
<1>9. GuardInv'
  <2>1. CASE cfg.kind = "stops"
    <3>1. frames' = Append(frames, HostFrame(tx.key, tx.name, "judged"))
      BY <2>1 DEF OracleArrives
    <3>2. HostFrame(tx.key, tx.name, "judged").how \in {"judged"}
      BY DEF HostFrame
    <3>3. Guards(frames', {"judged"}) /\ \E T : frames' \in Seq(T)
      BY <1>6, <3>1, <3>2, QuietPushed, Pushed
    <3>4. tx'.stage = "handler"
      BY <1>5, <2>1
    <3> QED BY <1>1, <1>4, <1>6, <3>3, <3>4 DEF GuardInv, GuardedBy, Guards
  <2>2. CASE cfg.kind # "stops"
    <3>1. frames' = frames
      BY <2>2 DEF OracleArrives
    <3>2. tx'.stage = "diff"
      BY <1>5, <2>2
    <3> QED BY <1>1, <1>4, <1>6, <3>1, <3>2 DEF GuardInv, GuardedBy, Quiet
  <2> QED BY <2>1, <2>2
<1>10. TxInv'
  <2>1. stage \in {"handler", "diff"}
    OBVIOUS
  <2> HIDE DEF stage
  <2> QED BY <1>1, <1>2, <1>3, <1>5, <2>1 DEF TxInv
<1>11. HookTableInv'
  <2>1. tx.saved = IF cfg.kind = "pm" THEN <<>> ELSE [k \in passing |-> cfg.table[k]]
    BY <1>1 DEF HonestInv, HookTableInv
  <2>2. CASE cfg.kind = "stops"
    <3>1. hookTable' = LiveTable
      BY <2>2 DEF OracleArrives
    <3>2. ASSUME NEW k \in Location, k \notin passing PROVE LiveTable[k] = cfg.table[k]
      BY <1>7, <2>2, <3>2 DEF LiveTable, Based, With
    <3>3. tx'.stage = "handler"
      BY <1>5, <2>2
    <3> QED BY <1>1, <1>4, <1>5, <1>7, <2>1, <2>2, <3>1, <3>2, <3>3 DEF HookTableInv
  <2>3. CASE cfg.kind # "stops"
    <3>1. hookTable' = hookTable
      BY <2>3 DEF OracleArrives
    <3>2. tx'.stage = "diff"
      BY <1>5, <2>3
    <3> QED BY <1>1, <1>5, <1>7, <2>1, <3>1, <3>2 DEF HookTableInv
  <2> QED BY <2>2, <2>3
<1>12. ToldInv'
  BY <1>1 DEF HonestInv, ToldInv
<1>13. OracleInv'
  <2>1. ASSUME PlainOracle PROVE OnTheWay(tx', live.at)
    <3>1. OnTheWay(tx, live.at)
      BY <1>1, <2>1 DEF HonestInv, OracleInv
    <3>2. tx'.stage = "diff"
      BY <1>5, <2>1 DEF PlainOracle
    <3>3. tx.steps \in 1..MaxSteps
      BY <1>1, <3>1, HooksAssumption DEF OnTheWay, Arrived
    <3> QED BY <1>1, <1>5, <3>1, <3>2, <3>3 DEF OnTheWay
  <2>2. PlainOracle' <=> PlainOracle
    BY <1>1 DEF PlainOracle
  <2>3. IsMachine(live)'
    BY <1>1 DEF HonestInv, OracleInv, IsMachine
  <2>4. tx' # Absent /\ PlainOracle' => OnTheWay(tx', live'.at)
    BY <1>1, <2>1, <2>2
  <2> QED BY <2>3, <2>4 DEF OracleInv
<1>14. VerifiedReached'
  BY <1>1, SameVerdict DEF HonestInv
<1>15. ReproBefore'
  BY <1>1 DEF HonestInv, ReproBefore
<1> QED BY <1>9, <1>10, <1>11, <1>12, <1>13, <1>14, <1>15 DEF HonestInv

-----------------------------------------------------------------------------
(* The verdict.                                                            *)
LEMMA SameMachine ==
    ASSUME NEW asm, NEW hook, IsMachine(asm), IsMachine(hook), ~Differ(asm, hook)
    PROVE  Alike(asm, hook, cfg.kind = "pm")
<1> DEFINE ignored == IF cfg.kind = "pm" THEN {} ELSE DeadCells(asm)
           differ == {a \in DOMAIN asm.cells \cap DOMAIN hook.cells :
                         asm.cells[a] # hook.cells[a] /\ a \notin ignored}
           first == CHOOSE a \in differ : \A b \in differ : a <= b
<1>1. /\ asm.at = hook.at /\ asm.v = hook.v /\ asm.sp = hook.sp
      /\ RangeDiff(asm.cells, hook.cells, ignored) = Absent
  BY DEF Differ
<1>2. RangeDiff(asm.cells, hook.cells, ignored) = IF differ = {} THEN Absent ELSE [first |-> first, of |-> differ]
  BY DEF RangeDiff
<1>3. [first |-> first, of |-> differ] # Absent
  <2> HIDE DEF first, differ
  <2> QED BY DEF Absent
<1>4. differ = {}
  BY <1>1, <1>2, <1>3
<1>5. DOMAIN asm.cells = DOMAIN hook.cells
  BY DEF IsMachine
<1>6. ASSUME NEW c \in DOMAIN asm.cells
      PROVE  asm.cells[c] = hook.cells[c] \/ (cfg.kind # "pm" /\ c \in DeadCells(asm))
  BY <1>4, <1>5
<1> QED BY <1>1, <1>6 DEF Alike

LEMMA FinishReached ==
    ASSUME HonestInv, Finish
    PROVE  VerifiedReached'
<1>1. /\ tx # Absent /\ tx.stage = "diff" /\ UNCHANGED <<cfg, live>>
      /\ passed' = IF Diverged THEN passed ELSE Judged
  BY DEF Finish
<1>2. CASE Diverged
  <2>1. passed' = passed
    BY <1>1, <1>2
  <2> QED BY <1>1, <2>1, SameVerdict DEF HonestInv
<1>3. CASE ~Diverged
  <2> DEFINE run == Original(tx.before, MaxSteps + 1)
             exact == cfg.kind = "pm"
  <2>1. passed' = Judged /\ passed'.before = tx.before /\ passed'.after = live
    BY <1>1, <1>3 DEF Judged
  <2>2. ASSUME PlainOracle
        PROVE  \E n \in 1..MaxSteps + 1 : /\ Alike(run[n], live, exact)
                                          /\ \A i \in 1..n - 1 : run[i].at # live.at
    <3>1. OnTheWay(tx, live.at) /\ IsMachine(live)
      BY <1>1, <2>2 DEF HonestInv, OracleInv
    <3>2. /\ tx.steps \in 1..MaxSteps /\ IsMachine(tx.asm) /\ tx.asm = run[tx.steps]
          /\ \A i \in 1..tx.steps - 1 : run[i].at # live.at
      BY <1>1, <3>1 DEF OnTheWay
    <3>3. ~Differ(tx.asm, live)
      BY <1>3 DEF Diverged
    <3>4. Alike(tx.asm, live, exact)
      BY <3>1, <3>2, <3>3, SameMachine
    <3>5. Alike(run[tx.steps], live, exact)
      BY <3>2, <3>4
    <3>6. tx.steps \in 1..MaxSteps + 1
      BY <3>2, HooksAssumption
    <3> HIDE DEF run, exact
    <3> QED BY <3>2, <3>5, <3>6
  <2>3. PlainOracle' <=> PlainOracle
    BY <1>1 DEF PlainOracle
  <2> QED BY <1>1, <2>1, <2>2, <2>3 DEF VerifiedReached, Alike, DeadCells
<1> QED BY <1>2, <1>3

LEMMA FinishKeeps ==
    ASSUME HonestInv, Finish
    PROVE  HonestInv'
<1> DEFINE untold == cfg.kind = "pm" /\ Diverged /\ cfg.halts
           stops == Diverged /\ cfg.halts
           verdict == IF untold THEN told ELSE Tell(told, "verified")
           limit == cfg.max # 0 /\ total + 1 >= cfg.max
           end == [why |-> IF stops THEN "diverged" ELSE "limit", from |-> entry,
                   repro |-> IF stops THEN tx.before ELSE Absent]
<1>1. /\ tx # Absent /\ tx.stage = "diff" /\ tx' = Absent /\ active' = FALSE
      /\ UNCHANGED <<cfg, live, hookTable, entry>>
      /\ total' = IF untold THEN total ELSE total + 1
  BY DEF Finish
<1>2. \/ ended' = end /\ told' = Unwound(verdict) /\ frames' = <<>>
      \/ ended' = ended /\ told' = verdict /\ frames' = frames
  BY DEF Finish
<1>3. Quiet(frames) /\ ended = Absent /\ \E S : frames \in Seq(S)
  BY <1>1 DEF HonestInv, GuardInv, GuardedBy
<1>4. GuardInv'
  <2>1. Quiet(frames)' /\ \E S : frames' \in Seq(S)
    <3>1. CASE frames' = <<>>
      <4>1. frames' \in Seq({})
        BY <3>1
      <4> QED BY <3>1, <4>1 DEF Quiet
    <3>2. CASE frames' = frames
      BY <1>3, <3>2 DEF Quiet
    <3> QED BY <1>2, <3>1, <3>2
  <2>2. GuardedBy(frames)'
    BY <1>1, <2>1 DEF GuardedBy, Quiet
  <2>3. ended' # Absent => frames' = <<>>
    BY <1>2, <1>3
  <2> QED BY <1>1, <2>1, <2>2, <2>3 DEF GuardInv
<1>5. TxInv'
  BY <1>1 DEF TxInv
<1>6. HookTableInv'
  BY <1>1 DEF HonestInv, HookTableInv
<1>7. ToldInv'
  <2>1. told \in [Verdicts -> Nat] /\ told["verified"] = total
    BY DEF HonestInv, ToldInv
  <2>2. verdict \in [Verdicts -> Nat] /\ verdict["verified"] = total'
    BY <1>1, <2>1, TellTold
  <2> HIDE DEF verdict
  <2>3. Unwound(verdict) \in [Verdicts -> Nat] /\ Unwound(verdict)["verified"] = total'
    BY <1>3, <2>2, UnwoundTold
  <2> HIDE DEF end
  <2> QED BY <1>2, <2>2, <2>3 DEF ToldInv
<1>8. OracleInv'
  BY <1>1 DEF HonestInv, OracleInv, IsMachine
<1>9. VerifiedReached'
  BY FinishReached
<1>10. ReproBefore'
  <2>1. tx.before = entry
    BY <1>1 DEF HonestInv, TxInv
  <2>2. ended' = end => (ended'.why = "diverged" => ended'.repro = entry')
    <3>1. "limit" # "diverged"
      OBVIOUS
    <3> QED BY <1>1, <2>1, <3>1
  <2> HIDE DEF end
  <2> QED BY <1>2, <1>3, <2>2 DEF ReproBefore
<1> QED BY <1>4, <1>5, <1>6, <1>7, <1>8, <1>9, <1>10 DEF HonestInv

LEMMA HonestHolds == HooksSpec => []HonestInv
<1>1. HooksInit => HonestInv
  <2> SUFFICES ASSUME HooksInit PROVE HonestInv
    OBVIOUS
  <2>1. /\ cfg \in Configs
        /\ live = [at |-> 1, v |-> 0, sp |-> StackSize, cells |-> [c \in 0..StackSize - 1 |-> 0]]
        /\ hookTable = cfg.table /\ frames = <<>> /\ active = FALSE /\ tx = Absent
        /\ told = [v \in Verdicts |-> 0] /\ total = 0 /\ ended = Absent /\ passed = Absent
    BY DEF HooksInit
  <2>2. GuardInv
    <3>1. \E S : frames \in Seq(S)
      <4>1. frames \in Seq({})
        BY <2>1
      <4> QED BY Zenon, <4>1
    <3>2. Quiet(frames)
      <4>1. DOMAIN frames = {}
        BY <2>1
      <4> QED BY <4>1 DEF Quiet
    <3>3. GuardedBy(frames)
      BY <2>1, <3>2 DEF GuardedBy
    <3>4. active \in BOOLEAN
      BY <2>1
    <3>5. ended # Absent => frames = <<>> /\ tx = Absent
      BY <2>1
    <3> QED BY <3>1, <3>3, <3>4, <3>5 DEF GuardInv
  <2>3. TxInv /\ HookTableInv /\ VerifiedReached /\ ReproBefore
    BY <2>1 DEF TxInv, HookTableInv, VerifiedReached, ReproBefore
  <2>4. ToldInv
    BY <2>1 DEF ToldInv, Verdicts
  <2>5. OracleInv
    BY <2>1 DEF OracleInv, IsMachine
  <2> QED BY <2>2, <2>3, <2>4, <2>5 DEF HonestInv
<1>2. HonestInv /\ [HooksNext]_verifyVars => HonestInv'
  <2> SUFFICES ASSUME HonestInv, [HooksNext]_verifyVars PROVE HonestInv'
    OBVIOUS
  <2>1. CASE Interpret \/ Dispatch \/ Resume
    BY <2>1, IdleKeeps
  <2>2. CASE HandlerStep
    BY <2>2, HandlerStepKeeps
  <2>3. CASE HandlerEnters
    BY <2>3, HandlerEntersKeeps
  <2>4. CASE HandlerRaises
    <3>1. /\ Escape("parked", Absent) /\ live' = Does(live, Next1)
          /\ UNCHANGED <<cfg, passing, total, passed, entry>>
      BY <2>4 DEF HandlerRaises
    <3>2. IsMachine(live')
      BY <3>1, DoesMachine DEF HonestInv, OracleInv
    <3>3. "parked" # "diverged"
      OBVIOUS
    <3> QED BY <3>1, <3>2, <3>3, EscapeStep
  <2>5. CASE HandlerEnds
    BY <2>5, HandlerEndsKeeps
  <2>6. CASE OracleStep
    BY <2>6, OracleStepKeeps
  <2>7. CASE OracleArrives
    BY <2>7, OracleArrivesKeeps
  <2>8. CASE OracleGivesUp
    <3>1. /\ Escape("inconclusive", IF cfg.kind = "pm" THEN tx.before ELSE Absent)
          /\ UNCHANGED <<cfg, live, passing, total, passed, entry>>
      BY <2>8 DEF OracleGivesUp
    <3>2. IsMachine(live')
      BY <3>1 DEF HonestInv, OracleInv
    <3>3. "inconclusive" # "diverged"
      OBVIOUS
    <3> QED BY <3>1, <3>2, <3>3, EscapeStep
  <2>9. CASE Finish
    BY <2>9, FinishKeeps
  <2>10. CASE UNCHANGED verifyVars
    <3>1. UNCHANGED <<cfg, live, hookTable, passing, frames, active, tx, told, total, ended, passed, entry>>
      BY <2>10 DEF verifyVars
    <3>2. GuardInv'
      BY <3>1 DEF HonestInv, GuardInv, GuardedBy, Guards, Quiet
    <3>3. TxInv' /\ HookTableInv' /\ ToldInv' /\ ReproBefore'
      BY <3>1 DEF HonestInv, TxInv, HookTableInv, ToldInv, ReproBefore
    <3>4. OracleInv'
      <4>1. IsMachine(live)' /\ (PlainOracle' <=> PlainOracle)
        BY <3>1 DEF HonestInv, OracleInv, IsMachine, PlainOracle
      <4> QED BY <3>1, <4>1 DEF HonestInv, OracleInv
    <3> QED BY <3>1, <3>2, <3>3, <3>4, SameVerdict DEF HonestInv
  <2> QED BY <2>1, <2>2, <2>3, <2>4, <2>5, <2>6, <2>7, <2>8, <2>9, <2>10 DEF HooksNext
<1> QED BY <1>1, <1>2, PTL DEF HooksSpec

(* A hook that was found equal left the machine where the original program *)
(* comes from the same start, the first time it comes by; one found        *)
(* different is reported with the machine as it was before it ran; however *)
(* a call ends, by a return, a difference, a limit, an oracle that gives up*)
(* or a front end that unwinds, the hooks and the guard are as they were;  *)
(* and telemetry counts what was compared (HookVerifier and PMHookVerifier,*)
(* hooks within hooks included).                                           *)
THEOREM VerdictsHold == HooksSpec => []VerifierHonest
<1>1. HonestInv => VerifierHonest
  <2> SUFFICES ASSUME HonestInv PROVE VerifierHonest
    OBVIOUS
  <2>1. TableKept
    BY DEF HonestInv, GuardInv, GuardedBy, Guards, HookTableInv, TableKept
  <2>2. ToldTruly
    BY DEF HonestInv, ToldInv, ToldTruly
  <2> QED BY <2>1, <2>2 DEF HonestInv, VerifierHonest
<1> QED BY <1>1, HonestHolds, PTL

-----------------------------------------------------------------------------
(* The interpreter's arithmetic, at the widths of its words.               *)

X86 == INSTANCE X86Arithmetic

(* The sizes of its words; those of which it has the product in two        *)
(* halves, as numbers the provers compute: not 2^64.                       *)
Width == {8, 16, 32}
Narrow == {8, 16}

LEMMA Powers ==
    ASSUME NEW bits \in Width
    PROVE  /\ 2^(bits - 1) \in Nat /\ 2^(bits - 1) >= 128
           /\ 2^bits = 2 * 2^(bits - 1)
<1>1. CASE bits = 8
  <2>1. 2^(8 - 1) = 128 /\ 2^8 = 256
    OBVIOUS
  <2> QED BY <1>1, <2>1
<1>2. CASE bits = 16
  <2>1. 2^(16 - 1) = 32768 /\ 2^16 = 65536
    OBVIOUS
  <2> QED BY <1>2, <2>1
<1>3. CASE bits = 32
  <2>1. 2^(32 - 1) = 2147483648 /\ 2^32 = 4294967296
    OBVIOUS
  <2> QED BY <1>3, <2>1
<1> QED BY <1>1, <1>2, <1>3 DEF Width

LEMMA Remainder ==
    ASSUME NEW m \in Nat \ {0}, NEW v \in Int, -m <= v, v < 2 * m
    PROVE  v % m = IF v < 0 THEN v + m ELSE IF v < m THEN v ELSE v - m
OBVIOUS

LEMMA MaskedIs ==
    ASSUME NEW bits \in Width, NEW v \in Int, -(2^bits) <= v, v < 2 * 2^bits
    PROVE  X86!Masked(v, bits) = IF v < 0 THEN v + 2^bits ELSE IF v < 2^bits THEN v ELSE v - 2^bits
<1> DEFINE m == 2^bits
<1>1. m \in Nat \ {0}
  BY Powers
<1>2. X86!Masked(v, bits) = v % m
  BY DEF X86!Masked
<1> HIDE DEF m
<1>3. -m <= v /\ v < 2 * m
  BY DEF m
<1>4. v % m = IF v < 0 THEN v + m ELSE IF v < m THEN v ELSE v - m
  BY <1>1, <1>3, Remainder
<1> QED BY <1>2, <1>4 DEF m

LEMMA NegativeIs ==
    ASSUME NEW bits \in Width, NEW v \in X86!Values(bits)
    PROVE  X86!Negative(v, bits) <=> v >= 2^(bits - 1)
<1> DEFINE s == 2^(bits - 1)
<1>1. s \in Nat /\ s >= 128 /\ 2^bits = 2 * s
  BY Powers
<1>2. v \in 0..2 * s - 1
  BY <1>1 DEF X86!Values
<1>3. X86!Negative(v, bits) <=> v \div s % 2 = 1
  BY DEF X86!Negative
<1> HIDE DEF s
<1>4. v \div s = IF v >= s THEN 1 ELSE 0
  BY <1>1, <1>2
<1> QED BY <1>3, <1>4 DEF s

(* Words, of a size, as numbers.                                           *)
LEMMA Words ==
    ASSUME NEW bits \in Width, NEW s, s = 2^(bits - 1), NEW a \in X86!Values(bits)
    PROVE  /\ s \in Nat /\ s >= 128 /\ 2^bits = 2 * s
           /\ a \in Int /\ 0 <= a /\ a < 2 * s
           /\ X86!Negative(a, bits) \in BOOLEAN
           /\ X86!Negative(a, bits) <=> a >= s
           /\ X86!Signed(a, bits) = IF a >= s THEN a - 2 * s ELSE a
<1>1. s \in Nat /\ s >= 128 /\ 2^bits = 2 * s
  BY Powers
<1>2. a \in Int /\ 0 <= a /\ a < 2 * s
  BY <1>1 DEF X86!Values
<1>3. X86!Negative(a, bits) <=> a >= s
  BY NegativeIs
<1>4. X86!Negative(a, bits) \in BOOLEAN
  BY DEF X86!Negative
<1> QED BY <1>1, <1>2, <1>3, <1>4 DEF X86!Signed

LEMMA Reduced ==
    ASSUME NEW bits \in Width, NEW s, s = 2^(bits - 1), NEW v \in Int, -2 * s <= v, v < 4 * s
    PROVE  /\ X86!Masked(v, bits) = IF v < 0 THEN v + 2 * s ELSE IF v < 2 * s THEN v ELSE v - 2 * s
           /\ X86!Masked(v, bits) \in X86!Values(bits)
<1>1. s \in Nat /\ s >= 128 /\ 2^bits = 2 * s
  BY Powers
<1>2. X86!Masked(v, bits) = IF v < 0 THEN v + 2^bits ELSE IF v < 2^bits THEN v ELSE v - 2^bits
  BY <1>1, MaskedIs
<1> QED BY <1>1, <1>2 DEF X86!Values

(* Flags of which only the carry may be set.                               *)
Cleared(cf) == [cf |-> cf, pf |-> FALSE, af |-> FALSE, zf |-> FALSE, sf |-> FALSE, of |-> FALSE]

(* A sum, with what is carried in; a difference, with what is borrowed: a  *)
(* result and flags that say what the numbers did.                         *)
Fits(v, s) == v \in -s..s - 1
SumRight(r, flags, a, b, c, bits, s) ==
    /\ r \in X86!Values(bits) /\ r = IF a + b + c < 2 * s THEN a + b + c ELSE a + b + c - 2 * s
    /\ flags.cf \in BOOLEAN /\ flags.of \in BOOLEAN
    /\ flags.cf <=> a + b + c >= 2 * s
    /\ flags.of <=> ~Fits(X86!Signed(a, bits) + X86!Signed(b, bits) + c, s)
DifferenceRight(r, flags, a, b, c, bits, s) ==
    /\ r \in X86!Values(bits) /\ r = IF a - b - c < 0 THEN a - b - c + 2 * s ELSE a - b - c
    /\ flags.cf \in BOOLEAN /\ flags.of \in BOOLEAN /\ flags.zf \in BOOLEAN /\ flags.sf \in BOOLEAN
    /\ flags.cf <=> a - b - c < 0
    /\ flags.zf <=> r = 0
    /\ flags.sf <=> r >= s
    /\ flags.of <=> ~Fits(X86!Signed(a, bits) - X86!Signed(b, bits) - c, s)

LEMMA Adds ==
    ASSUME NEW bits \in Width, NEW s, s = 2^(bits - 1), NEW a \in X86!Values(bits), NEW b \in X86!Values(bits),
           NEW c \in {0, 1}, NEW f \in X86!Flags, NEW r, r = X86!Masked(a + b + c, bits),
           NEW flags, flags = X86!AddFlags(f, a, b, a + b + c, bits, c)
    PROVE  SumRight(r, flags, a, b, c, bits, s)
<1>1. /\ s \in Nat /\ s >= 128 /\ 2^bits = 2 * s
      /\ a \in Int /\ 0 <= a /\ a < 2 * s
      /\ b \in Int /\ 0 <= b /\ b < 2 * s
      /\ X86!Signed(a, bits) = IF a >= s THEN a - 2 * s ELSE a
      /\ X86!Signed(b, bits) = IF b >= s THEN b - 2 * s ELSE b
  BY Words
<1>2. r \in X86!Values(bits) /\ r = IF a + b + c < 2 * s THEN a + b + c ELSE a + b + c - 2 * s
  <2> DEFINE v == a + b + c
  <2>1. v \in Int /\ 0 <= v /\ v < 4 * s
    BY <1>1
  <2>2. r = X86!Masked(v, bits)
    OBVIOUS
  <2> HIDE DEF v
  <2>3. r \in X86!Values(bits) /\ r = IF v < 2 * s THEN v ELSE v - 2 * s
    BY <1>1, <2>1, <2>2, Reduced
  <2> QED BY <1>1, <2>3 DEF v
<1>3. /\ flags.cf = (a + b + c > 2^bits - 1)
      /\ flags.of = (X86!Negative(a, bits) = X86!Negative(b, bits) /\ X86!Negative(a, bits) # X86!Negative(r, bits))
  BY DEF X86!AddFlags, X86!Shown, X86!Flags
<1>4. /\ X86!Negative(a, bits) \in BOOLEAN /\ X86!Negative(b, bits) \in BOOLEAN /\ X86!Negative(r, bits) \in BOOLEAN
      /\ X86!Negative(a, bits) <=> a >= s
      /\ X86!Negative(b, bits) <=> b >= s
      /\ X86!Negative(r, bits) <=> r >= s
  BY <1>2, Words
<1>5. flags.of <=> (a >= s <=> b >= s) /\ ~(a >= s <=> r >= s)
  BY <1>3, <1>4
<1>6. flags.cf \in BOOLEAN /\ flags.of \in BOOLEAN
  <2>1. /\ (a + b + c > 2^bits - 1) \in BOOLEAN
        /\ (X86!Negative(a, bits) = X86!Negative(b, bits) /\ X86!Negative(a, bits) # X86!Negative(r, bits)) \in BOOLEAN
    OBVIOUS
  <2> QED BY Zenon, <1>3, <2>1
<1>7. flags.cf <=> a + b + c >= 2 * s
  <2>1. a + b + c > 2^bits - 1 <=> a + b + c >= 2 * s
    BY <1>1
  <2> QED BY Zenon, <1>3, <2>1
<1>8. flags.of <=> ~Fits(X86!Signed(a, bits) + X86!Signed(b, bits) + c, s)
  BY <1>1, <1>2, <1>5 DEF Fits
<1> QED BY <1>2, <1>6, <1>7, <1>8 DEF SumRight

LEMMA Subtracts ==
    ASSUME NEW bits \in Width, NEW s, s = 2^(bits - 1), NEW a \in X86!Values(bits), NEW b \in X86!Values(bits),
           NEW c \in {0, 1}, NEW f \in X86!Flags, NEW r, r = X86!Masked(a - b - c, bits),
           NEW flags, flags = X86!SubFlags(f, a, b, a - b - c, bits, c)
    PROVE  DifferenceRight(r, flags, a, b, c, bits, s)
<1>1. /\ s \in Nat /\ s >= 128 /\ 2^bits = 2 * s
      /\ a \in Int /\ 0 <= a /\ a < 2 * s
      /\ b \in Int /\ 0 <= b /\ b < 2 * s
      /\ X86!Signed(a, bits) = IF a >= s THEN a - 2 * s ELSE a
      /\ X86!Signed(b, bits) = IF b >= s THEN b - 2 * s ELSE b
  BY Words
<1>2. r \in X86!Values(bits) /\ r = IF a - b - c < 0 THEN a - b - c + 2 * s ELSE a - b - c
  <2> DEFINE v == a - b - c
  <2>1. v \in Int /\ -2 * s <= v /\ v < 2 * s
    BY <1>1
  <2>2. r = X86!Masked(v, bits)
    OBVIOUS
  <2> HIDE DEF v
  <2>3. r \in X86!Values(bits) /\ r = IF v < 0 THEN v + 2 * s ELSE v
    BY <1>1, <2>1, <2>2, Reduced
  <2> QED BY <1>1, <2>3 DEF v
<1>3. /\ flags.cf = (a - b - c < 0)
      /\ flags.zf = (r = 0) /\ flags.sf = X86!Negative(r, bits)
      /\ flags.of = (X86!Negative(a, bits) # X86!Negative(b, bits) /\ X86!Negative(a, bits) # X86!Negative(r, bits))
  BY DEF X86!SubFlags, X86!Shown, X86!Flags
<1>4. /\ X86!Negative(a, bits) \in BOOLEAN /\ X86!Negative(b, bits) \in BOOLEAN /\ X86!Negative(r, bits) \in BOOLEAN
      /\ X86!Negative(a, bits) <=> a >= s
      /\ X86!Negative(b, bits) <=> b >= s
      /\ X86!Negative(r, bits) <=> r >= s
  BY <1>2, Words
<1>5. flags.of <=> ~(a >= s <=> b >= s) /\ ~(a >= s <=> r >= s)
  BY <1>3, <1>4
<1>6. flags.cf \in BOOLEAN /\ flags.of \in BOOLEAN /\ flags.zf \in BOOLEAN /\ flags.sf \in BOOLEAN
  <2>1. /\ (a - b - c < 0) \in BOOLEAN /\ (r = 0) \in BOOLEAN
        /\ (X86!Negative(a, bits) # X86!Negative(b, bits) /\ X86!Negative(a, bits) # X86!Negative(r, bits)) \in BOOLEAN
    OBVIOUS
  <2> QED BY Zenon, <1>3, <1>4, <2>1
<1>7. /\ flags.cf <=> a - b - c < 0
      /\ flags.zf <=> r = 0
      /\ flags.sf <=> r >= s
  BY Zenon, <1>3, <1>4
<1>8. flags.of <=> ~Fits(X86!Signed(a, bits) - X86!Signed(b, bits) - c, s)
  BY <1>1, <1>2, <1>5 DEF Fits
<1> QED BY <1>2, <1>6, <1>7, <1>8 DEF DifferenceRight

(* A comparison decides the jumps as their names say.                      *)
Compared(f, a, b, x, y) ==
    /\ f.cf \in BOOLEAN /\ f.zf \in BOOLEAN
    /\ f.cf <=> a < b
    /\ f.zf <=> a = b
    /\ (f.sf # f.of) <=> x < y
    /\ a = b <=> x = y

LEMMA Compares ==
    ASSUME NEW bits \in Width, NEW s, s = 2^(bits - 1), NEW a \in X86!Values(bits), NEW b \in X86!Values(bits),
           NEW c, c = 0, NEW f, f = X86!SubFlags(Cleared(FALSE), a, b, a - b - c, bits, c)
    PROVE  Compared(f, a, b, X86!Signed(a, bits), X86!Signed(b, bits))
<1>1. PICK r : r = X86!Masked(a - b - c, bits)
  OBVIOUS
<1>2. Cleared(FALSE) \in X86!Flags
  BY DEF Cleared, X86!Flags
<1>3. DifferenceRight(r, f, a, b, c, bits, s)
  <2>1. c \in {0, 1}
    OBVIOUS
  <2> QED BY <1>1, <1>2, <2>1, Subtracts
<1>4. PICK x : x = X86!Signed(a, bits)
  OBVIOUS
<1>5. PICK y : y = X86!Signed(b, bits)
  OBVIOUS
<1>6. /\ s \in Nat /\ s >= 128
      /\ a \in Int /\ 0 <= a /\ a < 2 * s
      /\ b \in Int /\ 0 <= b /\ b < 2 * s
      /\ x = IF a >= s THEN a - 2 * s ELSE a
      /\ y = IF b >= s THEN b - 2 * s ELSE b
  BY <1>4, <1>5, Words
<1>7. f.of <=> ~Fits(x - y, s)
  <2>1. x \in Int /\ y \in Int
    BY <1>6
  <2>2. x - y - c = x - y
    BY <2>1
  <2>3. f.of <=> ~Fits(x - y - c, s)
    BY <1>3, <1>4, <1>5 DEF DifferenceRight
  <2> QED BY Zenon, <2>2, <2>3
<1>8. /\ f.cf <=> a < b
      /\ f.zf <=> a = b
      /\ a = b <=> x = y
  <2>1. a - b - c < 0 <=> a < b
    BY <1>6
  <2>2. r = 0 <=> a = b
    BY <1>3, <1>6 DEF DifferenceRight
  <2>3. a = b <=> x = y
    BY <1>6
  <2> QED BY Zenon, <1>3, <2>1, <2>2, <2>3 DEF DifferenceRight
<1>9. ~(r >= s <=> ~Fits(x - y, s)) <=> x < y
  BY <1>3, <1>6 DEF DifferenceRight, Fits
<1>10. (f.sf # f.of) <=> x < y
  BY <1>3, <1>7, <1>9 DEF DifferenceRight
<1> QED BY <1>3, <1>4, <1>5, <1>8, <1>10 DEF DifferenceRight, Compared

(* After a comparison the conditional jumps compare: JB, JA, JBE the words *)
(* as they are, JL, JG, JLE with their signs (cpu.py:287-308, 1490-1511).  *)
THEOREM JumpsHold ==
    \A bits \in Width : \A a, b \in X86!Values(bits) : X86!JumpsExact(a, b, bits)
<1> SUFFICES ASSUME NEW bits \in Width, NEW a \in X86!Values(bits), NEW b \in X86!Values(bits)
             PROVE  X86!JumpsExact(a, b, bits)
  OBVIOUS
<1>1. PICK f : f = X86!SubFlags(Cleared(FALSE), a, b, a - b - 0, bits, 0)
  OBVIOUS
<1>2. PICK x : x = X86!Signed(a, bits)
  OBVIOUS
<1>3. PICK y : y = X86!Signed(b, bits)
  OBVIOUS
<1>4. X86!Alu(Cleared(FALSE), "cmp", a, b, bits).flags = f
  BY <1>1 DEF X86!Alu
<1>5. (/\ X86!Condition(f, 2) = (a < b) /\ X86!Condition(f, 7) = (a > b)
       /\ X86!Condition(f, 12) = (x < y) /\ X86!Condition(f, 15) = (x > y)
       /\ X86!Condition(f, 6) = (a <= b) /\ X86!Condition(f, 14) = (x <= y))
          => X86!JumpsExact(a, b, bits)
  BY <1>2, <1>3, <1>4 DEF X86!JumpsExact, Cleared
<1>6. Compared(f, a, b, x, y)
  <2>1. 2^(bits - 1) = 2^(bits - 1) /\ 0 = 0
    OBVIOUS
  <2> QED BY <1>1, <1>2, <1>3, <2>1, Compares
<1>7. a \in Int /\ b \in Int /\ x \in Int /\ y \in Int
  <2>1. PICK s : s = 2^(bits - 1)
    OBVIOUS
  <2> QED BY <2>1, <1>2, <1>3, Words
<1>8. /\ a <= b <=> a < b \/ a = b
      /\ a > b <=> ~(a < b \/ a = b)
      /\ x <= y <=> x < y \/ x = y
      /\ x > y <=> ~(x < y \/ x = y)
  BY <1>7
<1>9. X86!Condition(f, 2) = (a < b)
  BY <1>6 DEF X86!Condition, Compared
<1>10. X86!Condition(f, 12) = (x < y)
  BY <1>6 DEF X86!Condition, Compared
<1>11. X86!Condition(f, 6) = (a <= b)
  BY <1>6, <1>8 DEF X86!Condition, Compared
<1>12. X86!Condition(f, 7) = (a > b)
  BY <1>6, <1>8 DEF X86!Condition, Compared
<1>13. X86!Condition(f, 14) = (x <= y)
  BY <1>6, <1>8 DEF X86!Condition, Compared
<1>14. X86!Condition(f, 15) = (x > y)
  BY <1>6, <1>8 DEF X86!Condition, Compared
<1> QED BY <1>5, <1>9, <1>10, <1>11, <1>12, <1>13, <1>14

LEMMA Preserved ==
    ASSUME NEW g \in X86!Flags, NEW x, NEW y, NEW z
    PROVE  [g EXCEPT !.af = x, !.of = y] = [[g EXCEPT !.cf = z, !.af = x, !.of = y] EXCEPT !.cf = g.cf]
BY DEF X86!Flags

LEMMA Shows ==
    ASSUME NEW f \in X86!Flags, NEW r, NEW bits
    PROVE  X86!Shown(f, r, bits) \in X86!Flags /\ X86!Shown(f, r, bits).cf = f.cf
BY DEF X86!Shown, X86!Flags, X86!Negative, X86!Parity

LEMMA CarryBack ==
    ASSUME NEW r, NEW h, NEW c, NEW full, full = [result |-> r, flags |-> h]
    PROVE  [full EXCEPT !.flags.cf = c] = [result |-> r, flags |-> [h EXCEPT !.cf = c]]
OBVIOUS

LEMMA Increments ==
    ASSUME NEW bits \in Width, NEW a \in X86!Values(bits), NEW f \in X86!Flags
    PROVE  X86!Increment(f, a, bits) = X86!PreservingCarry(f, "add", a, bits)
<1>1. PICK r : r = X86!Masked(a + 1, bits)
  OBVIOUS
<1>2. PICK s : s = 2^(bits - 1)
  OBVIOUS
<1>3. PICK v : v = a + 1
  OBVIOUS
<1>4. /\ s \in Nat /\ s >= 128 /\ a \in Int /\ 0 <= a /\ a < 2 * s
      /\ 1 \in X86!Values(bits)
  <2>1. s \in Nat /\ s >= 128 /\ 2^bits = 2 * s /\ a \in Int /\ 0 <= a /\ a < 2 * s
    BY <1>2, Words
  <2> QED BY <2>1 DEF X86!Values
<1>5. r \in X86!Values(bits) /\ r = IF v < 2 * s THEN v ELSE v - 2 * s
  <2>1. v \in Int /\ -2 * s <= v /\ 0 <= v /\ v < 4 * s /\ r = X86!Masked(v, bits)
    BY <1>1, <1>3, <1>4
  <2> QED BY <1>2, <1>4, <2>1, Reduced
<1>6. PICK x : x = (a % 16 = 15)
  OBVIOUS
<1>7. PICK y : y = (r = s)
  OBVIOUS
<1>8. PICK z : z = (v > 2^bits - 1)
  OBVIOUS
<1>9. PICK g : g = X86!Shown(f, r, bits)
  OBVIOUS
<1>10. g \in X86!Flags /\ g.cf = f.cf
  BY <1>9, Shows
<1>11. X86!IncDecFlags(f, a, r, bits, FALSE) = [g EXCEPT !.af = x, !.of = y]
  BY <1>2, <1>6, <1>7, <1>9 DEF X86!IncDecFlags
<1>12. x = ((a % 16) + (1 % 16) + 0 > 15)
  <2>1. PICK n : n = a % 16
    OBVIOUS
  <2>2. n \in 0..15
    BY <1>4, <2>1
  <2>3. (n = 15) = (n + (1 % 16) + 0 > 15)
    BY <2>2
  <2> QED BY <1>6, <2>1, <2>3
<1>13. y = (X86!Negative(a, bits) = X86!Negative(1, bits) /\ X86!Negative(a, bits) # X86!Negative(r, bits))
  <2>1. /\ X86!Negative(a, bits) \in BOOLEAN /\ X86!Negative(1, bits) \in BOOLEAN /\ X86!Negative(r, bits) \in BOOLEAN
        /\ X86!Negative(a, bits) <=> a >= s
        /\ X86!Negative(1, bits) <=> 1 >= s
        /\ X86!Negative(r, bits) <=> r >= s
    BY <1>2, <1>4, <1>5, Words
  <2>2. ~(1 >= s)
    BY <1>4
  <2>3. r = s <=> ~(a >= s) /\ r >= s
    BY <1>3, <1>4, <1>5
  <2> QED BY <1>7, <2>1, <2>2, <2>3
<1>14. X86!AddFlags(f, a, 1, v, bits, 0) = [g EXCEPT !.cf = z, !.af = x, !.of = y]
  BY <1>1, <1>3, <1>8, <1>9, <1>12, <1>13 DEF X86!AddFlags
<1>15. X86!Alu(f, "add", a, 1, bits) = [result |-> r, flags |-> [g EXCEPT !.cf = z, !.af = x, !.of = y]]
  <2>1. a + 1 + 0 = v
    BY <1>3, <1>4
  <2>2. X86!Alu(f, "add", a, 1, bits)
           = [result |-> X86!Masked(a + 1 + 0, bits), flags |-> X86!AddFlags(f, a, 1, a + 1 + 0, bits, 0)]
    BY DEF X86!Alu
  <2> QED BY <1>1, <1>3, <1>14, <2>1, <2>2
<1>16. [g EXCEPT !.af = x, !.of = y] = [[g EXCEPT !.cf = z, !.af = x, !.of = y] EXCEPT !.cf = f.cf]
  BY <1>10, Preserved
<1>17. X86!Increment(f, a, bits) = [result |-> r, flags |-> [g EXCEPT !.af = x, !.of = y]]
  BY <1>1, <1>11 DEF X86!Increment
<1>18. PICK h : h = [g EXCEPT !.cf = z, !.af = x, !.of = y]
  OBVIOUS
<1>19. PICK full : full = X86!Alu(f, "add", a, 1, bits)
  OBVIOUS
<1>20. X86!PreservingCarry(f, "add", a, bits) = [full EXCEPT !.flags.cf = f.cf]
  BY <1>19 DEF X86!PreservingCarry
<1>21. full = [result |-> r, flags |-> h]
  BY <1>15, <1>18, <1>19
<1>22. [full EXCEPT !.flags.cf = f.cf] = [result |-> r, flags |-> [h EXCEPT !.cf = f.cf]]
  BY <1>21, CarryBack
<1> QED BY <1>16, <1>17, <1>18, <1>20, <1>22

LEMMA Decrements ==
    ASSUME NEW bits \in Width, NEW a \in X86!Values(bits), NEW f \in X86!Flags
    PROVE  X86!Decrement(f, a, bits) = X86!PreservingCarry(f, "sub", a, bits)
<1>1. PICK r : r = X86!Masked(a - 1, bits)
  OBVIOUS
<1>2. PICK s : s = 2^(bits - 1)
  OBVIOUS
<1>3. PICK v : v = a - 1
  OBVIOUS
<1>4. /\ s \in Nat /\ s >= 128 /\ a \in Int /\ 0 <= a /\ a < 2 * s
      /\ 1 \in X86!Values(bits)
  <2>1. s \in Nat /\ s >= 128 /\ 2^bits = 2 * s /\ a \in Int /\ 0 <= a /\ a < 2 * s
    BY <1>2, Words
  <2> QED BY <2>1 DEF X86!Values
<1>5. r \in X86!Values(bits) /\ r = IF v < 0 THEN v + 2 * s ELSE v
  <2>1. v \in Int /\ -2 * s <= v /\ v < 2 * s /\ r = X86!Masked(v, bits)
    BY <1>1, <1>3, <1>4
  <2> QED BY <1>2, <1>4, <2>1, Reduced
<1>6. PICK x : x = (a % 16 = 0)
  OBVIOUS
<1>7. PICK y : y = (a = s)
  OBVIOUS
<1>8. PICK z : z = (v < 0)
  OBVIOUS
<1>9. PICK g : g = X86!Shown(f, r, bits)
  OBVIOUS
<1>10. g \in X86!Flags /\ g.cf = f.cf
  BY <1>9, Shows
<1>11. X86!IncDecFlags(f, a, r, bits, TRUE) = [g EXCEPT !.af = x, !.of = y]
  BY <1>2, <1>6, <1>7, <1>9 DEF X86!IncDecFlags
<1>12. x = ((a % 16) - (1 % 16) - 0 < 0)
  <2>1. PICK n : n = a % 16
    OBVIOUS
  <2>2. n \in 0..15
    BY <1>4, <2>1
  <2>3. (n = 0) = (n - (1 % 16) - 0 < 0)
    BY <2>2
  <2> QED BY <1>6, <2>1, <2>3
<1>13. y = (X86!Negative(a, bits) # X86!Negative(1, bits) /\ X86!Negative(a, bits) # X86!Negative(r, bits))
  <2>1. /\ X86!Negative(a, bits) \in BOOLEAN /\ X86!Negative(1, bits) \in BOOLEAN /\ X86!Negative(r, bits) \in BOOLEAN
        /\ X86!Negative(a, bits) <=> a >= s
        /\ X86!Negative(1, bits) <=> 1 >= s
        /\ X86!Negative(r, bits) <=> r >= s
    BY <1>2, <1>4, <1>5, Words
  <2>2. ~(1 >= s)
    BY <1>4
  <2>3. a = s <=> a >= s /\ ~(r >= s)
    BY <1>3, <1>4, <1>5
  <2> QED BY <1>7, <2>1, <2>2, <2>3
<1>14. X86!SubFlags(f, a, 1, v, bits, 0) = [g EXCEPT !.cf = z, !.af = x, !.of = y]
  BY <1>1, <1>3, <1>8, <1>9, <1>12, <1>13 DEF X86!SubFlags
<1>15. X86!Alu(f, "sub", a, 1, bits) = [result |-> r, flags |-> [g EXCEPT !.cf = z, !.af = x, !.of = y]]
  <2>1. a - 1 - 0 = v
    BY <1>3, <1>4
  <2>2. X86!Alu(f, "sub", a, 1, bits)
           = [result |-> X86!Masked(a - 1 - 0, bits), flags |-> X86!SubFlags(f, a, 1, a - 1 - 0, bits, 0)]
    BY DEF X86!Alu
  <2> QED BY <1>1, <1>3, <1>14, <2>1, <2>2
<1>16. [g EXCEPT !.af = x, !.of = y] = [[g EXCEPT !.cf = z, !.af = x, !.of = y] EXCEPT !.cf = f.cf]
  BY <1>10, Preserved
<1>17. X86!Decrement(f, a, bits) = [result |-> r, flags |-> [g EXCEPT !.af = x, !.of = y]]
  BY <1>1, <1>11 DEF X86!Decrement
<1>18. PICK h : h = [g EXCEPT !.cf = z, !.af = x, !.of = y]
  OBVIOUS
<1>19. PICK full : full = X86!Alu(f, "sub", a, 1, bits)
  OBVIOUS
<1>20. X86!PreservingCarry(f, "sub", a, bits) = [full EXCEPT !.flags.cf = f.cf]
  BY <1>19 DEF X86!PreservingCarry
<1>21. full = [result |-> r, flags |-> h]
  BY <1>15, <1>18, <1>19
<1>22. [full EXCEPT !.flags.cf = f.cf] = [result |-> r, flags |-> [h EXCEPT !.cf = f.cf]]
  BY <1>21, CarryBack
<1> QED BY <1>16, <1>17, <1>18, <1>20, <1>22

LEMMA Negates ==
    ASSUME NEW bits \in Width, NEW a \in X86!Values(bits), NEW f
    PROVE  X86!Negate(f, a, bits) = X86!Alu(f, "sub", 0, a, bits)
<1>1. a \in Int
  BY DEF X86!Values
<1>2. 0 - a - 0 = -a
  BY <1>1
<1>3. X86!Alu(f, "sub", 0, a, bits)
         = [result |-> X86!Masked(0 - a - 0, bits), flags |-> X86!SubFlags(f, 0, a, 0 - a - 0, bits, 0)]
  BY DEF X86!Alu
<1> QED BY <1>2, <1>3 DEF X86!Negate

(* ADC and SBB lose nothing but what the carry tells, the overflow tells   *)
(* whether the signed sum fits, INC and DEC are an addition that puts the  *)
(* carry back, and NEG is a subtraction from zero (cpu.py:264-336, 1065).  *)
THEOREM SumsHold ==
    \A bits \in Width : \A a, b \in X86!Values(bits), cf \in BOOLEAN : X86!SumsExact(a, b, cf, bits)
<1> SUFFICES ASSUME NEW bits \in Width, NEW a \in X86!Values(bits), NEW b \in X86!Values(bits), NEW cf \in BOOLEAN
             PROVE  X86!SumsExact(a, b, cf, bits)
  OBVIOUS
<1>1. PICK f : f = Cleared(cf)
  OBVIOUS
<1>2. f \in X86!Flags /\ f.cf = cf
  BY <1>1 DEF Cleared, X86!Flags
<1>3. PICK c : c = X86!One(cf)
  OBVIOUS
<1>4. c \in {0, 1}
  BY <1>3 DEF X86!One
<1>5. PICK s : s = 2^(bits - 1)
  OBVIOUS
<1>6. PICK sum : sum = X86!Masked(a + b + c, bits)
  OBVIOUS
<1>7. PICK plus : plus = X86!AddFlags(f, a, b, a + b + c, bits, c)
  OBVIOUS
<1>8. PICK diff : diff = X86!Masked(a - b - c, bits)
  OBVIOUS
<1>9. PICK minus : minus = X86!SubFlags(f, a, b, a - b - c, bits, c)
  OBVIOUS
<1>10. SumRight(sum, plus, a, b, c, bits, s)
  BY <1>2, <1>4, <1>5, <1>6, <1>7, Adds
<1>11. DifferenceRight(diff, minus, a, b, c, bits, s)
  BY <1>2, <1>4, <1>5, <1>8, <1>9, Subtracts
<1>12. X86!Alu(f, "adc", a, b, bits) = [result |-> sum, flags |-> plus]
  BY <1>2, <1>3, <1>6, <1>7 DEF X86!Alu
<1>13. X86!Alu(f, "sbb", a, b, bits) = [result |-> diff, flags |-> minus]
  BY <1>2, <1>3, <1>8, <1>9 DEF X86!Alu
<1>14. PICK x : x = X86!Signed(a, bits)
  OBVIOUS
<1>15. PICK y : y = X86!Signed(b, bits)
  OBVIOUS
<1>16. PICK adc : adc = X86!Alu(f, "adc", a, b, bits)
  OBVIOUS
<1>17. PICK sbb : sbb = X86!Alu(f, "sbb", a, b, bits)
  OBVIOUS
<1>18. (/\ adc.result + X86!One(adc.flags.cf) * 2^bits = a + b + c
        /\ sbb.result - X86!One(sbb.flags.cf) * 2^bits = a - b - c
        /\ adc.flags.of = ~(x + y + c \in -(2^(bits - 1))..2^(bits - 1) - 1)
        /\ sbb.flags.of = ~(x - y - c \in -(2^(bits - 1))..2^(bits - 1) - 1)
        /\ X86!Increment(f, a, bits) = X86!PreservingCarry(f, "add", a, bits)
        /\ X86!Decrement(f, a, bits) = X86!PreservingCarry(f, "sub", a, bits)
        /\ X86!Negate(f, a, bits) = X86!Alu(f, "sub", 0, a, bits))
            => X86!SumsExact(a, b, cf, bits)
  BY <1>1, <1>3, <1>14, <1>15, <1>16, <1>17 DEF X86!SumsExact, Cleared
<1>19. /\ 2^bits = 2 * s /\ s \in Nat /\ a \in Int /\ b \in Int
  BY <1>5, Words
<1>20. adc.result + X86!One(adc.flags.cf) * 2^bits = a + b + c
  BY <1>4, <1>10, <1>12, <1>16, <1>19 DEF SumRight, X86!One
<1>21. sbb.result - X86!One(sbb.flags.cf) * 2^bits = a - b - c
  BY <1>4, <1>11, <1>13, <1>17, <1>19 DEF DifferenceRight, X86!One
<1>22. adc.flags.of = ~(x + y + c \in -s..s - 1)
  BY <1>10, <1>12, <1>14, <1>15, <1>16 DEF SumRight, Fits
<1>23. sbb.flags.of = ~(x - y - c \in -s..s - 1)
  BY <1>11, <1>13, <1>14, <1>15, <1>17 DEF DifferenceRight, Fits
<1> QED BY <1>2, <1>5, <1>18, <1>20, <1>21, <1>22, <1>23, Increments, Decrements, Negates
LEMMA Magnitudes ==
    ASSUME NEW s \in Nat, NEW x \in -s..s, NEW y \in -s..s
    PROVE  x * y \in Int /\ -(s * s) <= x * y /\ x * y <= s * s
<1>1. x * y \in Int /\ s * s \in Int
  OBVIOUS
<1>2. (s - x) * (s + y) >= 0 /\ (s + x) * (s - y) >= 0
  <2>1. s - x \in Nat /\ s + x \in Nat /\ s - y \in Nat /\ s + y \in Nat
    OBVIOUS
  <2>2. \A i, j \in Nat : i * j >= 0
    OBVIOUS
  <2> QED BY <2>1, <2>2
<1>3. (s - x) * (s - y) >= 0 /\ (s + x) * (s + y) >= 0
  <2>1. s - x \in Nat /\ s + x \in Nat /\ s - y \in Nat /\ s + y \in Nat
    OBVIOUS
  <2>2. \A i, j \in Nat : i * j >= 0
    OBVIOUS
  <2> QED BY <2>1, <2>2
<1>4. /\ (s - x) * (s + y) = s * s + s * y - s * x - x * y
      /\ (s + x) * (s - y) = s * s - s * y + s * x - x * y
      /\ (s - x) * (s - y) = s * s - s * y - s * x + x * y
      /\ (s + x) * (s + y) = s * s + s * y + s * x + x * y
  OBVIOUS
<1>5. s * y \in Int /\ s * x \in Int
  OBVIOUS
<1> QED BY <1>1, <1>2, <1>3, <1>4, <1>5

Divided(w, m, d, r) == d \in Int /\ r \in 0..m - 1 /\ w = d * m + r

LEMMA Quotient ==
    ASSUME NEW m \in Nat \ {0}, NEW w \in Int
    PROVE  Divided(w, m, w \div m, w % m)
<1>1. PICK d : d = w \div m
  OBVIOUS
<1>2. PICK r : r = w % m
  OBVIOUS
<1>3. d \in Int /\ r \in 0..m - 1 /\ w = d * m + r
  BY SMT, <1>1, <1>2
<1> QED BY <1>1, <1>2, <1>3 DEF Divided

Product(w, low, high, m, s) ==
    /\ low \in 0..m - 1 /\ high \in 0..m - 1
    /\ high * m + low = IF w < 0 THEN w + m * m ELSE w
    /\ w \in -s..s - 1 <=> w = IF low >= s THEN low - m ELSE low

LEMMA Halves ==
    ASSUME NEW s \in Nat \ {0}, NEW w \in Int, -(s * s) <= w, w <= s * s,
           NEW m, m = 2 * s, NEW low, low = w % m, NEW high, high = w \div m % m
    PROVE  Product(w, low, high, m, s)
<1>1. PICK d : d = w \div m
  OBVIOUS
<1>2. m \in Nat \ {0} /\ d \in Int /\ low \in 0..m - 1 /\ w = d * m + low
  <2>1. m \in Nat \ {0}
    OBVIOUS
  <2>2. Divided(w, m, d, low)
    BY <1>1, <2>1, Quotient
  <2> QED BY <2>1, <2>2 DEF Divided
<1>3. d < m
  <2> SUFFICES ASSUME d >= m PROVE FALSE
    BY <1>2
  <2>1. d * m >= m * m
    <3>1. d - m \in Nat
      BY <1>2
    <3>2. (d - m) * m >= 0
      BY <1>2, <3>1
    <3>3. (d - m) * m = d * m - m * m
      BY <1>2
    <3> QED BY <1>2, <3>2, <3>3
  <2>2. m * m > s * s
    BY <1>2
  <2> QED BY <1>2, <2>1, <2>2
<1>4. -m <= d
  <2> SUFFICES ASSUME d < -m PROVE FALSE
    BY <1>2
  <2>1. (d + m) * m <= -m
    <3>1. -1 - d - m \in Nat
      BY <1>2
    <3>2. (-1 - d - m) * m >= 0
      BY <1>2, <3>1
    <3>3. (-1 - d - m) * m = -m - (d + m) * m
      BY <1>2
    <3>4. (d + m) * m \in Int
      BY <1>2
    <3> QED BY <1>2, <3>2, <3>3, <3>4
  <2>2. (d + m) * m = d * m + m * m
    BY <1>2
  <2>3. m * m > s * s
    BY <1>2
  <2>4. d * m \in Int /\ m * m \in Int /\ s * s \in Int
    BY <1>2
  <2> QED BY <1>2, <2>1, <2>2, <2>3, <2>4
<1>5. high = IF d < 0 THEN d + m ELSE d
  BY <1>1, <1>2, <1>3, <1>4, Remainder
<1>6. w < 0 <=> d < 0
  <2>1. d >= 0 => d * m >= 0
    BY <1>2
  <2>2. d <= -1 => d * m <= -m
    <3>1. d <= -1 => (-1 - d) * m >= 0
      BY <1>2
    <3>2. (-1 - d) * m = -m - d * m /\ d * m \in Int
      BY <1>2
    <3> QED BY <1>2, <3>1, <3>2
  <2> QED BY <1>2, <2>1, <2>2
<1>7. high * m + low = IF w < 0 THEN w + m * m ELSE w
  <2>1. (d + m) * m = d * m + m * m /\ d * m \in Int /\ m * m \in Int
    BY <1>2
  <2> QED BY <1>2, <1>5, <1>6, <2>1
<1>8. w \in -s..s - 1 <=> w = IF low >= s THEN low - m ELSE low
  <2>1. CASE d = 0
    BY <1>2, <2>1
  <2>2. CASE d = -1
    <3>1. d * m = -m
      BY <1>2, <2>2
    <3> QED BY <1>2, <3>1
  <2>3. CASE d > 0
    <3>1. (d - 1) * m >= 0 /\ (d - 1) * m = d * m - m /\ d * m \in Int
      BY <1>2, <2>3
    <3> QED BY <1>2, <3>1
  <2>4. CASE d < -1
    <3>1. (-2 - d) * m >= 0 /\ (-2 - d) * m = -(2 * m) - d * m /\ d * m \in Int
      BY <1>2, <2>4
    <3> QED BY <1>2, <3>1
  <2> QED BY <1>2, <2>1, <2>2, <2>3, <2>4
<1> QED BY <1>2, <1>3, <1>4, <1>5, <1>7, <1>8 DEF Product

LEMMA Doubles ==
    ASSUME NEW bits \in Narrow, NEW s, s = 2^(bits - 1), NEW m, m = 2 * s, NEW v \in Int, 0 <= v, v < m * m
    PROVE  X86!Signed(v, 2 * bits) = IF v >= s * m THEN v - m * m ELSE v
<1>1. CASE bits = 8
  <2>1. 2^(8 - 1) = 128 /\ 2^8 = 256 /\ 2^(2 * 8 - 1) = 32768 /\ 2^(2 * 8) = 65536
    BY SMT
  <2>2. s = 128 /\ 2^(2 * bits) = 65536 /\ 2^(2 * bits - 1) = 32768 /\ v < 65536
    BY SMT, <1>1, <2>1
  <2>3. X86!Signed(v, 2 * bits) = IF v \div 32768 % 2 = 1 THEN v - 65536 ELSE v
    BY SMT, <2>2 DEF X86!Signed, X86!Negative
  <2>4. v \div 32768 % 2 = 1 <=> v >= 32768
    BY SMT, <2>2
  <2> QED BY SMT, <2>2, <2>3, <2>4
<1>2. CASE bits = 16
  <2>1. 2^(16 - 1) = 32768 /\ 2^16 = 65536 /\ 2^(2 * 16 - 1) = 2147483648 /\ 2^(2 * 16) = 4294967296
    BY SMT
  <2>2. s = 32768 /\ 2^(2 * bits) = 4294967296 /\ 2^(2 * bits - 1) = 2147483648 /\ v < 4294967296
    BY SMT, <1>2, <2>1
  <2>3. X86!Signed(v, 2 * bits) = IF v \div 2147483648 % 2 = 1 THEN v - 4294967296 ELSE v
    BY SMT, <2>2 DEF X86!Signed, X86!Negative
  <2>4. v \div 2147483648 % 2 = 1 <=> v >= 2147483648
    BY SMT, <2>2
  <2> QED BY SMT, <2>2, <2>3, <2>4
<1> QED BY <1>1, <1>2 DEF Narrow

(* The halves of a product make it up, signed or not, and the carry tells  *)
(* whether the high one says anything (cpu.py:1408-1431).                  *)
THEOREM ProductsHold ==
    \A bits \in Narrow : \A a, b \in X86!Values(bits) : X86!ProductsExact(a, b, bits)
<1> SUFFICES ASSUME NEW bits \in Narrow, NEW a \in X86!Values(bits), NEW b \in X86!Values(bits)
             PROVE  X86!ProductsExact(a, b, bits)
  OBVIOUS
<1> bits \in Width
  BY DEF Narrow, Width
<1>1. PICK s : s = 2^(bits - 1)
  OBVIOUS
<1>2. PICK m : m = 2^bits
  OBVIOUS
<1>3. PICK x : x = X86!Signed(a, bits)
  OBVIOUS
<1>4. PICK y : y = X86!Signed(b, bits)
  OBVIOUS
<1>5. /\ s # 0 /\ s \in Nat /\ m = 2 * s
      /\ a \in 0..m - 1 /\ b \in 0..m - 1 /\ x \in -s..s - 1 /\ y \in -s..s - 1
  <2>1. s \in Nat /\ m = 2 * s /\ a \in Int /\ 0 <= a /\ a < 2 * s /\ b \in Int /\ 0 <= b /\ b < 2 * s
    BY <1>1, <1>2, Words
  <2>2. (x = IF a >= s THEN a - 2 * s ELSE a) /\ (y = IF b >= s THEN b - 2 * s ELSE b)
    BY <1>1, <1>3, <1>4, Words
  <2> QED BY <1>1, <2>1, <2>2, Words
<1>6. PICK w : w = x * y
  OBVIOUS
<1>7. PICK low : low = w % m
  OBVIOUS
<1>8. PICK high : high = w \div m % m
  OBVIOUS
<1>9. PICK f : f = Cleared(FALSE)
  OBVIOUS
<1>10. PICK u : u = X86!Multiply(f, a, b, bits)
  OBVIOUS
<1>11. PICK p : p = X86!SignedMultiply(f, a, b, bits)
  OBVIOUS
<1>12. PICK wide : wide = high * m + low
  OBVIOUS
<1>13. PICK carry : carry = (w \notin -s..s - 1)
  OBVIOUS
<1>14. p = [low |-> low, high |-> high, flags |-> [f EXCEPT !.cf = carry, !.of = carry]]
  BY <1>1, <1>2, <1>3, <1>4, <1>6, <1>7, <1>8, <1>11, <1>13 DEF X86!SignedMultiply
<1>15. p.low = low /\ p.high = high /\ p.flags.cf = carry
  BY <1>9, <1>14 DEF Cleared
<1>16. (/\ u.high * m + u.low = a * b /\ u.flags.cf = (u.high > 0)
        /\ X86!Signed(wide, 2 * bits) = w
        /\ carry = (X86!Signed(wide, 2 * bits) # X86!Signed(low, bits)))
            => X86!ProductsExact(a, b, bits)
  BY <1>2, <1>3, <1>4, <1>6, <1>9, <1>10, <1>11, <1>12, <1>15 DEF X86!ProductsExact, Cleared
<1>17. u.high * m + u.low = a * b /\ u.flags.cf = (u.high > 0)
  <2>1. PICK v : v = a * b
    OBVIOUS
  <2>2. PICK h : h = v \div m
    OBVIOUS
  <2>3. PICK l : l = v % m
    OBVIOUS
  <2>4. v \in Nat
    BY <1>5, <2>1
  <2>5. h * m + l = v /\ h \in Nat
    <3>1. h \in Int /\ l \in 0..m - 1 /\ v = h * m + l
      <4>1. m \in Nat \ {0} /\ v \in Int
        BY <1>5, <2>4
      <4>2. Divided(v, m, h, l)
        BY <2>2, <2>3, <4>1, Quotient
      <4> QED BY <4>2 DEF Divided
    <3>2. h < 0 => h * m <= -m
      <4>1. h < 0 => (-1 - h) * m >= 0
        BY <1>5, <3>1
      <4>2. (-1 - h) * m = -m - h * m /\ h * m \in Int
        BY <1>5, <3>1
      <4> QED BY <1>5, <4>1, <4>2
    <3> QED BY <1>5, <2>4, <3>1, <3>2
  <2>6. PICK z : z = (h # 0)
    OBVIOUS
  <2>7. u = [low |-> l, high |-> h, flags |-> [f EXCEPT !.cf = z, !.of = z]]
    BY <1>2, <1>10, <2>1, <2>2, <2>3, <2>6 DEF X86!Multiply
  <2>8. u.low = l /\ u.high = h /\ u.flags.cf = z
    BY <1>9, <2>7 DEF Cleared
  <2>9. (h # 0) = (h > 0)
    BY <2>5
  <2> QED BY <2>1, <2>5, <2>6, <2>8, <2>9
<1>18. Product(w, low, high, m, s)
  <2>1. w \in Int /\ -(s * s) <= w /\ w <= s * s
    BY <1>5, <1>6, Magnitudes
  <2> QED BY <1>5, <1>7, <1>8, <2>1, Halves
<1>19. /\ wide = (IF w < 0 THEN w + m * m ELSE w) /\ w \in Int /\ -(s * s) <= w /\ w < s * m
       /\ m * m = 2 * (s * m) /\ s * s < s * m
  <2>1. w \in Int /\ -(s * s) <= w /\ w <= s * s
    BY <1>5, <1>6, Magnitudes
  <2>2. s * s < s * m /\ m * m = 2 * (s * m) /\ s * m \in Int /\ s * s \in Int
    BY <1>5
  <2>3. wide = (IF w < 0 THEN w + m * m ELSE w)
    BY <1>12, <1>18 DEF Product
  <2> QED BY <2>1, <2>2, <2>3
<1>20. X86!Signed(wide, 2 * bits) = w
  <2>1. s * m \in Nat /\ s * s \in Nat /\ m * m \in Nat
    BY <1>5
  <2>2. wide \in Int /\ 0 <= wide /\ wide < m * m /\ (wide >= s * m <=> w < 0)
    BY <1>19, <2>1
  <2>3. X86!Signed(wide, 2 * bits) = IF wide >= s * m THEN wide - m * m ELSE wide
    BY <1>1, <1>5, <2>2, Doubles
  <2> QED BY <1>19, <2>1, <2>2, <2>3
<1>21. carry = (w # X86!Signed(low, bits))
  <2>1. low \in X86!Values(bits)
    BY <1>2, <1>5, <1>18 DEF Product, X86!Values
  <2>2. X86!Signed(low, bits) = IF low >= s THEN low - m ELSE low
    BY <1>1, <1>5, <2>1, Words
  <2>3. w \in -s..s - 1 <=> w = X86!Signed(low, bits)
    BY <1>18, <2>2 DEF Product
  <2> QED BY <1>13, <2>3
<1> QED BY <1>16, <1>17, <1>20, <1>21
LEMMA SignedBack ==
    ASSUME NEW bits \in Width, NEW s, s = 2^(bits - 1), NEW v \in -s..s - 1
    PROVE  X86!Signed(X86!Masked(v, bits), bits) = v
<1>1. PICK r : r = X86!Masked(v, bits)
  OBVIOUS
<1>2. s \in Nat /\ s >= 128
  BY Powers
<1>3. v \in Int /\ -2 * s <= v /\ v < 4 * s
  BY <1>2
<1>4. r \in X86!Values(bits) /\ r = IF v < 0 THEN v + 2 * s ELSE v
  BY <1>1, <1>2, <1>3, Reduced
<1>5. X86!Signed(r, bits) = IF r >= s THEN r - 2 * s ELSE r
  BY <1>4, Words
<1> QED BY <1>1, <1>2, <1>3, <1>4, <1>5

Divides(n, d, q, r) ==
    /\ q * d + r = n
    /\ X86!Magnitude(r) < X86!Magnitude(d)
    /\ r = 0 \/ (r < 0 <=> n < 0)

LEMMA CutOff ==
    ASSUME NEW n \in Int, NEW d \in Int, d # 0, NEW m, m = X86!Magnitude(n) \div X86!Magnitude(d),
           NEW q, q = IF (n < 0) # (d < 0) THEN -m ELSE m
    PROVE  q \in Int /\ q * d \in Int /\ n - q * d \in Int /\ Divides(n, d, q, n - q * d)
<1>1. PICK k : k = X86!Magnitude(n)
  OBVIOUS
<1>2. PICK e : e = X86!Magnitude(d)
  OBVIOUS
<1>3. k \in Nat /\ e \in Nat \ {0} /\ (k = IF n < 0 THEN -n ELSE n) /\ (e = IF d < 0 THEN -d ELSE d)
  BY <1>1, <1>2 DEF X86!Magnitude
<1>4. PICK rest : rest = k % e
  OBVIOUS
<1>5. m \in Int /\ rest \in 0..e - 1 /\ k = m * e + rest
  <2>1. Divided(k, e, m, rest)
    BY <1>1, <1>2, <1>3, <1>4, Quotient
  <2> QED BY <2>1 DEF Divided
<1>6. PICK p : p = m * e
  OBVIOUS
<1>7. p \in Int /\ k = p + rest
  BY <1>3, <1>5, <1>6
<1>8. q * d = IF n < 0 THEN -p ELSE p
  <2>1. CASE n < 0 /\ d < 0
    <3>1. q = m /\ d = -e
      BY <1>3, <2>1
    <3>2. m * (-e) = -(m * e)
      BY <1>3, <1>5
    <3> QED BY <1>6, <2>1, <3>1, <3>2
  <2>2. CASE n < 0 /\ ~(d < 0)
    <3>1. q = -m /\ d = e
      BY <1>3, <2>2
    <3>2. (-m) * e = -(m * e)
      BY <1>3, <1>5
    <3> QED BY <1>6, <2>2, <3>1, <3>2
  <2>3. CASE ~(n < 0) /\ d < 0
    <3>1. q = -m /\ d = -e
      BY <1>3, <2>3
    <3>2. (-m) * (-e) = m * e
      BY <1>3, <1>5
    <3> QED BY <1>6, <2>3, <3>1, <3>2
  <2>4. CASE ~(n < 0) /\ ~(d < 0)
    <3>1. q = m /\ d = e
      BY <1>3, <2>4
    <3> QED BY <1>6, <2>4, <3>1
  <2> QED BY <2>1, <2>2, <2>3, <2>4
<1>9. PICK r : r = n - q * d
  OBVIOUS
<1>10. r = IF n < 0 THEN -rest ELSE rest
  BY <1>3, <1>5, <1>7, <1>8, <1>9
<1>11. X86!Magnitude(r) = rest
  BY <1>5, <1>10 DEF X86!Magnitude
<1>12. q \in Int /\ q * d \in Int /\ r \in Int /\ q * d + r = n
  BY <1>5, <1>7, <1>8, <1>9, <1>10
<1>13. rest < e
  BY <1>3, <1>5
<1>14. r = 0 \/ (r < 0 <=> n < 0)
  BY <1>5, <1>10
<1> QED BY <1>2, <1>9, <1>11, <1>12, <1>13, <1>14 DEF Divides

(* A quotient and its remainder make up what was divided, the remainder is *)
(* smaller than the divisor, and the signed one has the dividend's sign    *)
(* (cpu.py:1432-1463).                                                     *)
THEOREM DivisionsHold ==
    \A bits \in Width : \A wide \in X86!Values(2 * bits), b \in X86!Values(bits) : X86!DivisionsExact(wide, b, bits)
<1> SUFFICES ASSUME NEW bits \in Width, NEW wide \in X86!Values(2 * bits), NEW b \in X86!Values(bits)
             PROVE  X86!DivisionsExact(wide, b, bits)
  OBVIOUS
<1>1. PICK s : s = 2^(bits - 1)
  OBVIOUS
<1>2. PICK n : n = X86!Signed(wide, 2 * bits)
  OBVIOUS
<1>3. PICK d : d = X86!Signed(b, bits)
  OBVIOUS
<1>4. PICK m : m = X86!Magnitude(n) \div X86!Magnitude(d)
  OBVIOUS
<1>5. PICK q : q = IF (n < 0) # (d < 0) THEN -m ELSE m
  OBVIOUS
<1>6. PICK u : u = X86!Divide(wide, b, bits)
  OBVIOUS
<1>7. PICK v : v = X86!SignedDivide(wide, b, bits)
  OBVIOUS
<1>8. /\ s \in Nat /\ s >= 128 /\ 2^bits = 2 * s
      /\ b \in Int /\ 0 <= b /\ b < 2 * s
      /\ d = IF b >= s THEN b - 2 * s ELSE b
  BY <1>1, <1>3, Words
<1>9. d \in -s..s - 1 /\ (d = 0 <=> b = 0)
  BY <1>8
<1>10. wide \in Nat /\ n \in Int
  <2>1. 2 * bits \in Nat
    BY DEF Width
  <2>2. 2^(2 * bits) \in Int
    <3>1. \A i \in Nat : 2^i \in Int
      BY SMT
    <3> QED BY <2>1, <3>1
  <2>3. wide \in Nat
    BY <2>2 DEF X86!Values
  <2> QED BY <1>2, <2>2, <2>3 DEF X86!Signed
<1>11. ~u.raised => u.quotient * b + u.remainder = wide /\ u.remainder < b
  <2> SUFFICES ASSUME ~u.raised PROVE u.quotient * b + u.remainder = wide /\ u.remainder < b
    OBVIOUS
  <2>1. b # 0 /\ u = [raised |-> FALSE, quotient |-> wide \div b, remainder |-> wide % b]
    BY <1>6 DEF X86!Divide, X86!Raises
  <2>2. b \in Nat \ {0}
    BY <1>8, <2>1
  <2>3. Divided(wide, b, u.quotient, u.remainder)
    <3>1. PICK h : h = wide \div b
      OBVIOUS
    <3>2. PICK l : l = wide % b
      OBVIOUS
    <3>3. Divided(wide, b, h, l)
      <4>1. wide \in Int
        BY <1>10
      <4> QED BY <2>2, <3>1, <3>2, <4>1, Quotient
    <3>4. u.quotient = h /\ u.remainder = l
      BY <2>1, <3>1, <3>2
    <3> QED BY <3>3, <3>4
  <2> QED BY <1>8, <2>3 DEF Divided
<1>12. ~v.raised => Divides(n, d, X86!Signed(v.quotient, bits), X86!Signed(v.remainder, bits))
  <2> SUFFICES ASSUME ~v.raised PROVE Divides(n, d, X86!Signed(v.quotient, bits), X86!Signed(v.remainder, bits))
    OBVIOUS
  <2>1. /\ b # 0 /\ q \in -s..s - 1
        /\ v = [raised |-> FALSE, quotient |-> X86!Masked(q, bits), remainder |-> X86!Masked(n - q * d, bits)]
    BY <1>1, <1>2, <1>3, <1>4, <1>5, <1>7 DEF X86!SignedDivide, X86!Raises
  <2>2. PICK r : r = n - q * d
    OBVIOUS
  <2>3. d \in Int /\ d # 0
    BY <1>8, <1>9, <2>1
  <2>4. r \in Int /\ Divides(n, d, q, r)
    BY <1>4, <1>5, <1>10, <2>2, <2>3, CutOff
  <2>5. r \in -s..s - 1
    <3>1. X86!Magnitude(d) <= s
      BY <1>8, <1>9 DEF X86!Magnitude
    <3>2. X86!Magnitude(r) < X86!Magnitude(d)
      BY <2>4 DEF Divides
    <3>3. X86!Magnitude(r) < s
      BY <1>8, <1>9, <2>4, <3>1, <3>2 DEF X86!Magnitude
    <3> QED BY <1>8, <2>4, <3>3 DEF X86!Magnitude
  <2>6. X86!Signed(v.quotient, bits) = q
    BY <1>1, <2>1, SignedBack
  <2>7. X86!Signed(v.remainder, bits) = r
    BY <1>1, <2>1, <2>2, <2>5, SignedBack
  <2> QED BY <2>4, <2>6, <2>7
<1>13. PICK x : x = X86!Signed(v.quotient, bits)
  OBVIOUS
<1>14. PICK y : y = X86!Signed(v.remainder, bits)
  OBVIOUS
<1>15. ~v.raised => (x * d + y = n /\ X86!Magnitude(y) < X86!Magnitude(d) /\ (y = 0 \/ (y < 0) = (n < 0)))
  BY <1>12, <1>13, <1>14 DEF Divides
<1> QED BY <1>2, <1>3, <1>6, <1>7, <1>11, <1>13, <1>14, <1>15 DEF X86!DivisionsExact

LEMMA Digits ==
    ASSUME NEW t \in 0..9, NEW i \in 0..9
    PROVE  /\ 16 * t + i \in 0..153 /\ (16 * t + i) % 16 = i /\ (10 * t + i) % 10 = i /\ (10 * t + i) \div 10 = t
           /\ X86!Packed(10 * t + i) = 16 * t + i
<1>1. (10 * t + i) % 10 = i /\ (10 * t + i) \div 10 = t
  OBVIOUS
<1>2. 16 * t + i \in 0..153 /\ (16 * t + i) % 16 = i
  OBVIOUS
<1>3. X86!Packed(10 * t + i) = ((10 * t + i) \div 10) * 16 + ((10 * t + i) % 10)
  BY DEF X86!Packed
<1>4. X86!Packed(10 * t + i) = t * 16 + i
  BY <1>1, <1>3
<1> QED BY <1>1, <1>2, <1>4

DecimalRight(t, i, k, j, c, al, low, high) ==
    (al + 6 * X86!One(low) + 96 * X86!One(high)) % 256 = X86!Packed((10 * t + i + 10 * k + j) % 100)

Digital(t, i, k, j, c, al, low, high) ==
    /\ t \in 0..9 /\ i \in 0..9 /\ k \in 0..9 /\ j \in 0..9 /\ c \in {0, 1}
    /\ c = IF 16 * t + i + 16 * k + j > 255 THEN 1 ELSE 0
    /\ al = 16 * t + i + 16 * k + j - 256 * c
    /\ low \in BOOLEAN /\ (low <=> i + j > 9)
    /\ high \in BOOLEAN /\ (high <=> 10 * t + i + 10 * k + j > 99)

AdjustedWith(f, al, low, high) ==
    LET r == (al + 6 * X86!One(low) + 96 * X86!One(high)) % 256
    IN  [result |-> r, flags |-> [X86!Shown(f, r, 8) EXCEPT !.af = low, !.cf = high]]

LEMMA Adjusts ==
    ASSUME NEW t, NEW i, NEW k, NEW j, NEW c, NEW al, NEW low, NEW high,
           Digital(t, i, k, j, c, al, low, high)
    PROVE  DecimalRight(t, i, k, j, c, al, low, high)
<1> USE DEF Digital
<1>1. PICK p : p = X86!One(low)
  OBVIOUS
<1>2. PICK q : q = X86!One(high)
  OBVIOUS
<1>3. p \in {0, 1} /\ p = (IF i + j > 9 THEN 1 ELSE 0)
  BY <1>1 DEF X86!One
<1>4. q \in {0, 1} /\ q = (IF 10 * t + i + 10 * k + j > 99 THEN 1 ELSE 0)
  BY <1>2 DEF X86!One
<1>5. PICK e : e = i + j - 10 * p
  OBVIOUS
<1>6. PICK g : g = t + k + p - 10 * q
  OBVIOUS
<1>7. e \in 0..9
  BY <1>3, <1>5
<1>8. g \in 0..9
  BY <1>3, <1>4, <1>6
<1>9. (10 * t + i + 10 * k + j) % 100 = 10 * g + e
  <2>1. 10 * t + i + 10 * k + j = 10 * g + e + 100 * q
    BY <1>3, <1>4, <1>5, <1>6
  <2>2. 10 * g + e \in 0..99
    BY <1>7, <1>8
  <2>3. \A v \in 0..99 : v % 100 = v /\ (v + 100) % 100 = v
    OBVIOUS
  <2> QED BY <1>4, <2>1, <2>2, <2>3
<1>10. (al + 6 * p + 96 * q) % 256 = 16 * g + e
  <2>1. al + 6 * p + 96 * q = 16 * g + e + 256 * (q - c) /\ q - c \in {0, 1}
    BY <1>3, <1>4, <1>5, <1>6
  <2>2. 16 * g + e \in 0..255
    BY <1>7, <1>8
  <2>3. \A v \in 0..255 : v % 256 = v /\ (v + 256) % 256 = v
    OBVIOUS
  <2> QED BY <1>4, <2>1, <2>2, <2>3
<1>11. X86!Packed(10 * g + e) = 16 * g + e
  BY <1>7, <1>8, Digits
<1> QED BY <1>1, <1>2, <1>9, <1>10, <1>11 DEF DecimalRight

(* The sum of two packed decimals, adjusted, is their decimal sum, and the *)
(* carry its hundred (cpu.py:223-245).                                     *)
THEOREM DecimalsHold ==
    \A m, n \in 0..99 : X86!DecimalsExact(m, n)
<1> SUFFICES ASSUME NEW m \in 0..99, NEW n \in 0..99
             PROVE  X86!DecimalsExact(m, n)
  OBVIOUS
<1>1. PICK a : a = X86!Packed(m)
  OBVIOUS
<1>2. PICK b : b = X86!Packed(n)
  OBVIOUS
<1>3. PICK t : t = m \div 10
  OBVIOUS
<1>4. PICK k : k = n \div 10
  OBVIOUS
<1>5. PICK i : i = m % 10
  OBVIOUS
<1>6. PICK j : j = n % 10
  OBVIOUS
<1>7. /\ t \in 0..9 /\ i \in 0..9 /\ m = 10 * t + i
      /\ k \in 0..9 /\ j \in 0..9 /\ n = 10 * k + j
      /\ a = 16 * t + i /\ b = 16 * k + j /\ a \in 0..153 /\ b \in 0..153 /\ a % 16 = i /\ b % 16 = j
  <2>1. t \in 0..9 /\ i \in 0..9 /\ m = 10 * t + i
    BY <1>3, <1>5
  <2>2. k \in 0..9 /\ j \in 0..9 /\ n = 10 * k + j
    BY <1>4, <1>6
  <2>3. a = 16 * t + i /\ a \in 0..153 /\ a % 16 = i
    BY <1>1, <2>1, Digits
  <2>4. b = 16 * k + j /\ b \in 0..153 /\ b % 16 = j
    BY <1>2, <2>2, Digits
  <2> QED BY <2>1, <2>2, <2>3, <2>4
<1>8. 2^8 = 256
  OBVIOUS
<1>9. PICK f : f = X86!AddFlags(Cleared(FALSE), a, b, a + b + 0, 8, 0)
  OBVIOUS
<1>10. PICK al : al = X86!Masked(a + b + 0, 8)
  OBVIOUS
<1>11. X86!Alu(Cleared(FALSE), "add", a, b, 8) = [result |-> al, flags |-> f]
  BY <1>9, <1>10 DEF X86!Alu
<1>12. PICK c : c = IF a + b > 255 THEN 1 ELSE 0
  OBVIOUS
<1>13. al \in 0..255 /\ al = a + b - 256 * c /\ c \in {0, 1}
  <2>1. al = (a + b + 0) % 256
    BY <1>8, <1>10 DEF X86!Masked
  <2>2. PICK v : v = a + b
    OBVIOUS
  <2>3. v \in 0..306 /\ al = v % 256
    BY <1>7, <2>1, <2>2
  <2>4. al = IF v > 255 THEN v - 256 ELSE v
    BY <2>3
  <2>5. c \in {0, 1} /\ (c = IF v > 255 THEN 1 ELSE 0)
    BY <1>12, <2>2
  <2>6. al \in 0..255 /\ al = v - 256 * c
    BY <2>3, <2>4, <2>5
  <2> QED BY <1>7, <2>2, <2>3, <2>5, <2>6
<1>14. PICK low : low = (al % 16 > 9 \/ f.af)
  OBVIOUS
<1>15. PICK high : high = (al > 153 \/ f.cf)
  OBVIOUS
<1>16. PICK out : out = (al + 6 * X86!One(low) + 96 * X86!One(high)) % 256
  OBVIOUS
<1>17. PICK adjusted : adjusted = X86!DecimalAdjust(f, al)
  OBVIOUS
<1>18. f \in X86!Flags /\ (f.cf <=> a + b > 255) /\ (f.af <=> i + j > 15)
  <2>1. PICK g : g = X86!Shown(Cleared(FALSE), al, 8)
    OBVIOUS
  <2>2. g \in X86!Flags
    <3>1. Cleared(FALSE) \in X86!Flags
      BY DEF Cleared, X86!Flags
    <3> QED BY <2>1, <3>1, Shows
  <2>3. PICK x : x = (a + b + 0 > 255)
    OBVIOUS
  <2>4. PICK y : y = ((a % 16) + (b % 16) + 0 > 15)
    OBVIOUS
  <2>5. PICK z : z = (X86!Negative(a, 8) = X86!Negative(b, 8) /\ X86!Negative(a, 8) # X86!Negative(al, 8))
    OBVIOUS
  <2>6. f = [g EXCEPT !.cf = x, !.af = y, !.of = z]
    BY <1>8, <1>9, <1>10, <2>1, <2>3, <2>4, <2>5 DEF X86!AddFlags
  <2>7. x \in BOOLEAN /\ y \in BOOLEAN /\ z \in BOOLEAN
    BY <2>3, <2>4, <2>5
  <2>8. f \in X86!Flags /\ f.cf = x /\ f.af = y
    BY <2>2, <2>6, <2>7 DEF X86!Flags
  <2>9. x <=> a + b > 255
    <3>1. a + b + 0 = a + b
      BY <1>7
    <3> QED BY Zenon, <2>3, <3>1
  <2>10. y <=> i + j > 15
    <3>1. (a % 16) + (b % 16) + 0 = i + j
      BY <1>7
    <3> QED BY Zenon, <2>4, <3>1
  <2> QED BY <2>8, <2>9, <2>10
<1>19. adjusted.result = out /\ adjusted.flags.cf = high
  <2>1. adjusted = [result |-> out, flags |-> [X86!Shown(f, out, 8) EXCEPT !.af = low, !.cf = high]]
    <3>1. X86!DecimalAdjust(f, al) = AdjustedWith(f, al, al % 16 > 9 \/ f.af, al > 153 \/ f.cf)
      BY DEF X86!DecimalAdjust, AdjustedWith
    <3>2. adjusted = AdjustedWith(f, al, low, high)
      BY Zenon, <1>14, <1>15, <1>17, <3>1
    <3> QED BY <1>16, <3>2 DEF AdjustedWith
  <2>2. PICK g : g = X86!Shown(f, out, 8)
    OBVIOUS
  <2>3. DOMAIN g = {"cf", "pf", "af", "zf", "sf", "of"}
    <3>1. g \in X86!Flags
      BY <1>18, <2>2, Shows
    <3> QED BY <3>1 DEF X86!Flags
  <2>4. PICK h : h = [g EXCEPT !.af = low, !.cf = high]
    OBVIOUS
  <2>5. h.cf = high
    BY <2>3, <2>4
  <2>6. adjusted = [result |-> out, flags |-> h]
    BY <2>1, <2>2, <2>4
  <2> QED BY <2>5, <2>6
<1>20. low <=> i + j > 9
  <2>1. PICK w : w = i + j
    OBVIOUS
  <2>2. PICK h : h = t + k - 16 * c
    OBVIOUS
  <2>3. w \in 0..18 /\ h \in Int /\ al = 16 * h + w
    BY <1>7, <1>13, <2>1, <2>2
  <2>4. al % 16 = IF w > 15 THEN w - 16 ELSE w
    BY <2>3
  <2>5. al % 16 > 9 \/ w > 15 <=> w > 9
    BY <2>3, <2>4
  <2> QED BY <1>14, <1>18, <2>1, <2>5
<1>21. high <=> m + n > 99
  <2>1. al > 153 \/ a + b > 255 <=> m + n > 99
    BY <1>7, <1>12, <1>13
  <2> QED BY <1>15, <1>18, <2>1
<1>22. high \in BOOLEAN /\ low \in BOOLEAN
  BY <1>14, <1>15
<1>23. out = X86!Packed((m + n) % 100)
  <2>1. m + n = 10 * t + i + 10 * k + j /\ a + b = 16 * t + i + 16 * k + j
    BY <1>7
  <2>2. high <=> 10 * t + i + 10 * k + j > 99
    BY <1>21, <2>1
  <2>3. c = (IF 16 * t + i + 16 * k + j > 255 THEN 1 ELSE 0) /\ al = 16 * t + i + 16 * k + j - 256 * c
    BY <1>7, <1>12, <1>13, <2>1
  <2>4. DecimalRight(t, i, k, j, c, al, low, high)
    <3>1. Digital(t, i, k, j, c, al, low, high)
      BY <1>7, <1>13, <1>20, <1>22, <2>2, <2>3 DEF Digital
    <3> QED BY <3>1, Adjusts
  <2> QED BY <1>16, <2>1, <2>4 DEF DecimalRight
<1>24. high = (m + n > 99)
  BY <1>21, <1>22
<1> QED BY <1>1, <1>2, <1>11, <1>17, <1>19, <1>23, <1>24 DEF X86!DecimalsExact, Cleared
=============================================================================
