-------------------------- MODULE RegimeCapability --------------------------
(***************************************************************************)
(* contracts/regime_capability.py: capital bound to a market regime.       *)
(*                                                                         *)
(* A detector publishes regime observations about candidates.  The Macro   *)
(* service creates capital bases, binds one to an observation and sends    *)
(* the bound allocation.  A consumer, deployed with an independently       *)
(* frozen expectation, loads a policy artifact and takes the allocations   *)
(* the policy permits; it is redeployed from time to time.                 *)
(*                                                                         *)
(* Messages are rebuilt, and validated, from JSON by who receives them.    *)
(* Inside Macro a basis is an object: frozen, but the allocation nested in *)
(* it is a legacy message and is not, and binding does not validate a      *)
(* nested object again.  The services are external; what they publish has  *)
(* passed the validators.  A hash stands for the value hashed.             *)
(***************************************************************************)
EXTENDS Naturals, FiniteSets

CONSTANTS
  Intents,      \* StrategyIntentV1 documents
  Revisions,    \* (strategy_id, strategy_revision)
  Codes,        \* (strategy_code_sha256, config_sha256)
  SourceSets,   \* values of source_set_sha256
  Detectors,    \* (source, detector_code_sha256, detector_config_sha256)
  Producers,    \* producers of legacy allocations
  Weights,      \* values of strategy_weights
  Artifacts,    \* policy artifacts a deployment may find
  Deployments,  \* what the consumer may be deployed to expect
  None,         \* no policy loaded
  Explored,     \* bound: regimes observed
  MaxTime,      \* bound: stamps
  MaxDocs,      \* bound: observations, and allocations on the bus
  MaxCapital,   \* bound: bases Macro creates
  MaxMutations  \* bound: changes to an allocation inside Macro

Regimes == {"BULL", "RANGE", "BEAR", "CRASH", "UNCERTAIN"}
Sides == {"LONG", "SHORT", "FLAT"}

Intent == [revision : Revisions, code : Codes, side : {"LONG", "SHORT"}, decision : Nat, expires : Nat]
Capability == [revision : Revisions, code : Codes, regime : Regimes, sides : SUBSET Sides]
Policy == [sources : SourceSets, detector : Detectors, capabilities : SUBSET Capability]
Deployment == [expected : Policy, sources : SourceSets, revisions : SUBSET Revisions]

ASSUME RegimeAssumption ==
  /\ Intents \subseteq Intent
  /\ Artifacts \subseteq Policy
  /\ Deployments \subseteq Deployment
  /\ None \notin Policy
  /\ Explored \subseteq Regimes
  /\ {MaxTime, MaxDocs, MaxCapital, MaxMutations} \subseteq Nat

VARIABLES
  observations,  \* RegimeObservationV1 on the bus
  bases,         \* RegimeCapitalBasisV1 objects inside Macro
  bound,         \* RegimeBoundAllocationV1 on the bus
  mutations,     \* changes so far
  deployment,    \* what the consumer expects now
  policy,        \* the policy it has loaded
  accepted,      \* the allocations it has taken, with the deployment of then
  created        \* history: the capital Macro allocated

vars == <<observations, bases, bound, mutations, deployment, policy, accepted, created>>

Stamps == 0 .. MaxTime

Allocation == [source : Producers, produced : Nat, weights : Weights]
Capital == [allocation : Allocation, policy : Policy, sources : SourceSets, captured : Nat]
Basis == [capital : Capital, id : Capital]
Observation == [detector : Detectors, sources : SourceSets, intent : Intents, regime : Regimes,
                event : Nat, observed : Nat, produced : Nat, expires : Nat]
Bound == [source : Producers, basis : Basis, observation : Observation, at : Nat]

-----------------------------------------------------------------------------
\* StrategyRegimeCapabilityV1.explicit_directional_capability.
ValidCapability(c) == c.regime # "UNCERTAIN" /\ c.sides # {} /\ "FLAT" \notin c.sides

\* Mutant: a revision may be listed with one code per regime.
ValidPolicyManyCodes(p) ==
  /\ p.capabilities # {}
  /\ \A c \in p.capabilities : ValidCapability(c)
  /\ \A c, d \in p.capabilities : c.revision = d.revision /\ c.regime = d.regime => c = d

\* RegimeCapabilityPolicyV1.exact_capability_catalog: one capability per
\* revision and regime, and one code per revision.
ValidPolicy(p) ==
  /\ p.capabilities # {}
  /\ \A c \in p.capabilities : ValidCapability(c)
  /\ \A c, d \in p.capabilities :
       c.revision = d.revision => c.code = d.code /\ (c.regime = d.regime => c = d)

Permits(p, intent, regime) ==
  \E c \in p.capabilities : /\ c.revision = intent.revision /\ c.code = intent.code
                            /\ c.regime = regime /\ intent.side \in c.sides

\* RegimeCapabilityPolicyV1.validate_observation.
PolicyTakes(p, o) ==
  o.sources = p.sources /\ o.detector = p.detector /\ Permits(p, o.intent, o.regime)

\* Mutant: the artifact vouches for itself.
BindingSelfAsserted(p, d) ==
  p.sources = d.sources /\ \A c \in p.capabilities : c.revision \in d.revisions

\* validate_policy_binding.
Binding(p, d) ==
  /\ p = d.expected
  /\ p.sources = d.sources
  /\ \A c \in p.capabilities : c.revision \in d.revisions

\* RegimeObservationV1.causal_observation.
ValidObservation(o) ==
  /\ o.event <= o.intent.decision /\ o.event <= o.observed
  /\ o.observed <= o.expires /\ o.intent.decision <= o.expires
  /\ o.expires <= o.intent.expires
  /\ o.observed <= o.produced /\ o.produced <= o.expires

\* Mutant: the identity of a basis is not compared with its content.
ValidBasisAnyIdentity(b) == b.capital.captured <= b.capital.allocation.produced

\* RegimeCapitalBasisV1.causal_capital_basis.
ValidBasis(b) == b.capital.captured <= b.capital.allocation.produced /\ b.id = b.capital

\* Mutant: the account capture is compared with the candidate, not the capital.
ValidBoundByCapture(a) ==
  LET o == a.observation
      capital == a.basis.capital
  IN  /\ capital.sources = o.sources
      /\ a.source = capital.allocation.source
      /\ capital.captured <= o.intent.decision
      /\ o.intent.decision <= a.at /\ o.produced <= a.at /\ a.at <= o.expires

\* RegimeBoundAllocationV1.exact_causal_binding.
ValidBound(a) ==
  LET o == a.observation
      capital == a.basis.capital
  IN  /\ capital.sources = o.sources
      /\ a.source = capital.allocation.source
      /\ capital.allocation.produced <= o.intent.decision
      /\ o.intent.decision <= a.at /\ o.produced <= a.at /\ a.at <= o.expires

-----------------------------------------------------------------------------
Init ==
  /\ observations = {} /\ bases = {} /\ bound = {}
  /\ mutations = 0
  /\ deployment \in Deployments
  /\ policy = None
  /\ accepted = {} /\ created = {}

\* The detector's own policy is not known here: any observation may come.
Observe(o) ==
  /\ ValidObservation(o)
  /\ observations' = observations \cup {o}
  /\ UNCHANGED <<bases, bound, mutations, deployment, policy, accepted, created>>

Allocate(capital) ==
  LET b == [capital |-> capital, id |-> capital] IN
    /\ ValidBasis(b)
    /\ bases' = bases \cup {b}
    /\ created' = created \cup {capital}
    /\ UNCHANGED <<observations, bound, mutations, deployment, policy, accepted>>

\* Something inside Macro changes a field of an allocation.
Mutate(b, allocation) ==
  /\ mutations < MaxMutations
  /\ mutations' = mutations + 1
  /\ bases' = (bases \ {b}) \cup {[b EXCEPT !.capital.allocation = allocation]}
  /\ UNCHANGED <<observations, bound, deployment, policy, accepted, created>>

\* Macro binds an object it holds to an observation it was sent.
Bind(a) ==
  /\ ValidBound(a)
  /\ bound' = bound \cup {a}
  /\ UNCHANGED <<observations, bases, mutations, deployment, policy, accepted, created>>

\* Mutant: an artifact is loaded without being held against the expectation.
LoadUnbound(p) ==
  /\ policy = None
  /\ ValidPolicy(p)
  /\ policy' = p
  /\ UNCHANGED <<observations, bases, bound, mutations, deployment, accepted, created>>

\* The consumer loads an artifact it finds.
Load(p) ==
  /\ policy = None
  /\ ValidPolicy(p) /\ Binding(p, deployment)
  /\ policy' = p
  /\ UNCHANGED <<observations, bases, bound, mutations, deployment, accepted, created>>

Redeploy(d) ==
  /\ deployment' = d
  /\ policy' = None
  /\ UNCHANGED <<observations, bases, bound, mutations, accepted, created>>

\* Rebuilding a bound allocation validates the documents nested in it.
Rebuilds(a) == ValidBasis(a.basis) /\ ValidObservation(a.observation) /\ ValidBound(a)

Accept(a) ==
  /\ policy # None
  /\ Rebuilds(a) /\ PolicyTakes(policy, a.observation)
  /\ accepted' = accepted \cup {[allocation |-> a, deployment |-> deployment]}
  /\ UNCHANGED <<observations, bases, bound, mutations, deployment, policy, created>>

Next ==
  \/ /\ Cardinality(observations) < MaxDocs
     /\ \E detector \in Detectors, sources \in SourceSets, intent \in Intents, regime \in Explored,
           event, observed, produced, expires \in Stamps :
          Observe([detector |-> detector, sources |-> sources, intent |-> intent,
                   regime |-> regime, event |-> event, observed |-> observed,
                   produced |-> produced, expires |-> expires])
  \/ /\ Cardinality(created) < MaxCapital
     /\ \E source \in Producers, weights \in Weights, d \in Deployments, sources \in SourceSets,
           produced, captured \in Stamps :
          Allocate([allocation |-> [source |-> source, produced |-> produced,
                                    weights |-> weights],
                    policy |-> d.expected, sources |-> sources, captured |-> captured])
  \/ \E b \in bases, source \in Producers, produced \in Stamps, weights \in Weights :
       Mutate(b, [source |-> source, produced |-> produced, weights |-> weights])
  \/ /\ Cardinality(bound) < MaxDocs
     /\ \E b \in bases, o \in observations, source \in Producers, at \in Stamps :
          Bind([source |-> source, basis |-> b, observation |-> o, at |-> at])
  \/ \E p \in Artifacts : Load(p)
  \/ \E d \in Deployments : Redeploy(d)
  \/ \E a \in bound : Accept(a)

Spec == Init /\ [][Next]_vars

-----------------------------------------------------------------------------
\* Documents have their contracts' fields; what is nested in a message on the
\* bus has been on the bus; the consumer takes what is there.
TypeOK ==
  /\ observations \subseteq Observation
  /\ bases \subseteq Basis
  /\ bound \subseteq {a \in Bound : a.observation \in observations}
  /\ mutations \in 0 .. MaxMutations
  /\ deployment \in Deployments
  /\ policy \in Policy \cup {None}
  /\ accepted \subseteq [allocation : bound, deployment : Deployments]
  /\ created \subseteq Capital

\* What the consumer took rebuilt, and was permitted by the policy frozen for
\* the deployment it ran under.
Taken(x) ==
  /\ Rebuilds(x.allocation)
  /\ ValidPolicy(x.deployment.expected)
  /\ Binding(x.deployment.expected, x.deployment)
  /\ PolicyTakes(x.deployment.expected, x.allocation.observation)

\* The identity of a basis is capital that Macro did allocate, and a loaded
\* policy is the expected one.
IndInv ==
  /\ TypeOK
  /\ \A b \in bases : b.id \in created
  /\ \A a \in bound : a.basis.id \in created
  /\ policy # None => ValidPolicy(policy) /\ Binding(policy, deployment)
  /\ \A x \in accepted : Taken(x)

\* regime_capability.py:187-189: capital reaches a consumer exactly as Macro
\* allocated it, although the object it was bound from may have been changed
\* and binding does not notice.
CapitalIsOriginal == \A x \in accepted : x.allocation.basis.capital \in created

\* Funds go only to a candidate whose exact revision, code and side the policy
\* frozen for the consumer's deployment lists for the observed regime, never
\* UNCERTAIN, on one source set throughout; no artifact vouches for itself
\* (regime_capability.py:233-247).
FundedIsPermitted ==
  \A x \in accepted :
    LET o == x.allocation.observation
        d == x.deployment
    IN  /\ \E c \in d.expected.capabilities :
             /\ c.revision = o.intent.revision /\ c.code = o.intent.code
             /\ c.regime = o.regime /\ o.intent.side \in c.sides
        /\ o.intent.revision \in d.revisions
        /\ o.regime # "UNCERTAIN"
        /\ {o.sources, d.sources, d.expected.sources} = {x.allocation.basis.capital.sources}

\* Under one deployment no two candidates of one strategy revision are funded
\* that ran different code or configuration, in whichever regimes.
OneCodePerRevision ==
  \A x, y \in accepted :
    LET i == x.allocation.observation.intent
        j == y.allocation.observation.intent
    IN  x.deployment = y.deployment /\ i.revision = j.revision => i.code = j.code

\* No hindsight in the budget: the account, the capital and the market events
\* behind a funded candidate are from before its decision, the binding from
\* after it and within its entry window, although each validator compares with
\* the document next to it.
BudgetPrecedesCandidate ==
  \A x \in accepted :
    LET a == x.allocation
        i == a.observation.intent
    IN  /\ a.basis.capital.captured <= i.decision
        /\ a.basis.capital.allocation.produced <= i.decision
        /\ a.observation.event <= i.decision
        /\ i.decision <= a.at /\ a.at <= i.expires
        /\ a.observation.observed <= a.at
=============================================================================
