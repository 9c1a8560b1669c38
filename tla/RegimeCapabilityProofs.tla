----------------------- MODULE RegimeCapabilityProofs -----------------------
(***************************************************************************)
(* What holds of RegimeCapability for any sets of candidates, policies and *)
(* deployments, any number of documents and any changes inside Macro.      *)
(***************************************************************************)
EXTENDS RegimeCapability, TLAPS

\* The empty bus and an unloaded policy satisfy the invariant.
LEMMA InitInv == Init => IndInv
  BY RegimeAssumption DEF Init, IndInv, TypeOK

\* A binding's documents have their contracts' fields (stamps are natural).
LEMMA BindTyped ==
  ASSUME TypeOK, NEW b \in bases, NEW o \in observations, NEW source \in Producers, NEW at \in Stamps
  PROVE  [source |-> source, basis |-> b, observation |-> o, at |-> at] \in
           {a \in Bound : a.observation \in observations}
<1>1. at \in Nat
  BY RegimeAssumption DEF Stamps
<1>2. b \in Basis /\ o \in Observation
  BY DEF TypeOK
<1> QED
  BY <1>1, <1>2 DEF Bound

\* Whatever a service does, documents keep their fields, a basis keeps the
\* identity of capital Macro allocated, and what is loaded and taken was checked.
LEMMA NextInv == IndInv /\ [Next]_vars => IndInv'
<1> SUFFICES ASSUME IndInv, [Next]_vars PROVE IndInv'
  OBVIOUS
<1> USE RegimeAssumption
<1>0. TypeOK
  BY DEF IndInv
<1>1. ASSUME NEW detector \in Detectors, NEW sources \in SourceSets, NEW intent \in Intents,
             NEW regime \in Explored, NEW event \in Stamps, NEW observed \in Stamps,
             NEW produced \in Stamps, NEW expires \in Stamps,
             Observe([detector |-> detector, sources |-> sources, intent |-> intent,
                      regime |-> regime, event |-> event, observed |-> observed,
                      produced |-> produced, expires |-> expires])
      PROVE IndInv'
  <2> DEFINE o == [detector |-> detector, sources |-> sources, intent |-> intent,
                   regime |-> regime, event |-> event, observed |-> observed,
                   produced |-> produced, expires |-> expires]
  <2>1. event \in Nat /\ observed \in Nat /\ produced \in Nat /\ expires \in Nat
    BY DEF Stamps
  <2>2. o \in Observation
    BY <2>1 DEF Observation
  <2>3. observations' = observations \cup {o}
        /\ UNCHANGED <<bases, bound, mutations, deployment, policy, accepted, created>>
    BY <1>1 DEF Observe
  <2> HIDE DEF o
  <2>4. TypeOK'
    BY <1>0, <2>2, <2>3 DEF TypeOK
  <2> QED
    BY <2>3, <2>4 DEF IndInv, Taken
<1>2. ASSUME NEW source \in Producers, NEW weights \in Weights, NEW d \in Deployments,
             NEW sources \in SourceSets, NEW produced \in Stamps, NEW captured \in Stamps,
             Allocate([allocation |-> [source |-> source, produced |-> produced,
                                       weights |-> weights],
                       policy |-> d.expected, sources |-> sources, captured |-> captured])
      PROVE IndInv'
  <2> DEFINE allocation == [source |-> source, produced |-> produced, weights |-> weights]
             capital == [allocation |-> allocation, policy |-> d.expected, sources |-> sources,
                         captured |-> captured]
             b == [capital |-> capital, id |-> capital]
  <2>1. produced \in Nat /\ captured \in Nat
    BY DEF Stamps
  <2>2. d.expected \in Policy
    BY DEF Deployment
  <2>3. allocation \in Allocation
    BY <2>1 DEF Allocation
  <2> HIDE DEF allocation
  <2>4. capital \in Capital
    BY <2>1, <2>2, <2>3 DEF Capital
  <2>5. bases' = bases \cup {b} /\ created' = created \cup {capital}
        /\ UNCHANGED <<observations, bound, mutations, deployment, policy, accepted>>
    BY <1>2 DEF Allocate, allocation
  <2> HIDE DEF capital
  <2>6. b \in Basis /\ b.id = capital
    BY <2>4 DEF Basis
  <2> HIDE DEF b
  <2>7. TypeOK'
    BY <1>0, <2>4, <2>5, <2>6 DEF TypeOK
  <2> QED
    BY <2>5, <2>6, <2>7 DEF IndInv, Taken
<1>3. ASSUME NEW b \in bases, NEW source \in Producers, NEW produced \in Stamps,
             NEW weights \in Weights,
             Mutate(b, [source |-> source, produced |-> produced, weights |-> weights])
      PROVE IndInv'
  <2> DEFINE allocation == [source |-> source, produced |-> produced, weights |-> weights]
             changed == [b EXCEPT !.capital.allocation = allocation]
  <2>1. b \in Basis /\ b.capital \in Capital /\ b.capital.allocation \in Allocation
    BY <1>0 DEF TypeOK, Basis, Capital
  <2>2. allocation \in Allocation
    BY DEF Allocation, Stamps
  <2>3. mutations < MaxMutations /\ mutations' = mutations + 1
        /\ bases' = (bases \ {b}) \cup {changed}
        /\ UNCHANGED <<observations, bound, deployment, policy, accepted, created>>
    BY <1>3 DEF Mutate
  <2> HIDE DEF allocation
  <2>4. changed \in Basis /\ changed.id = b.id
    BY <2>1, <2>2 DEF Basis, Capital
  <2> HIDE DEF changed
  <2>5. TypeOK'
    <3>1. mutations' \in 0 .. MaxMutations
      BY <1>0, <2>3 DEF TypeOK
    <3> QED
      BY <1>0, <2>3, <2>4, <3>1 DEF TypeOK
  <2> QED
    BY <2>3, <2>4, <2>5 DEF IndInv, Taken
<1>4. ASSUME NEW b \in bases, NEW o \in observations, NEW source \in Producers, NEW at \in Stamps,
             Bind([source |-> source, basis |-> b, observation |-> o, at |-> at])
      PROVE IndInv'
  <2> DEFINE a == [source |-> source, basis |-> b, observation |-> o, at |-> at]
  <2>1. a \in {x \in Bound : x.observation \in observations}
    BY <1>0, BindTyped
  <2>2. bound' = bound \cup {a}
        /\ UNCHANGED <<observations, bases, mutations, deployment, policy, accepted, created>>
    BY <1>4 DEF Bind
  <2>3. a.basis.id \in created
    BY DEF IndInv
  <2> HIDE DEF a
  <2>4. TypeOK'
    BY <1>0, <2>1, <2>2 DEF TypeOK
  <2> QED
    BY <2>2, <2>3, <2>4 DEF IndInv, Taken
<1>5. ASSUME NEW p \in Artifacts, Load(p) PROVE IndInv'
  <2>1. TypeOK'
    BY <1>0, <1>5 DEF TypeOK, Load
  <2> QED
    BY <1>5, <2>1 DEF IndInv, Load, Taken
<1>6. ASSUME NEW d \in Deployments, Redeploy(d) PROVE IndInv'
  <2>1. TypeOK'
    BY <1>0, <1>6 DEF TypeOK, Redeploy
  <2> QED
    BY <1>6, <2>1 DEF IndInv, Redeploy, Taken
<1>7. ASSUME NEW a \in bound, Accept(a) PROVE IndInv'
  <2> DEFINE x == [allocation |-> a, deployment |-> deployment]
  <2>1. accepted' = accepted \cup {x}
        /\ UNCHANGED <<observations, bases, bound, mutations, deployment, policy, created>>
    BY <1>7 DEF Accept
  <2>2. policy = deployment.expected /\ ValidPolicy(policy) /\ Binding(policy, deployment)
    BY <1>7 DEF Accept, IndInv, Binding
  <2>3. Taken(x)
    BY <1>7, <2>2 DEF Accept, Taken
  <2>4. x \in [allocation : bound, deployment : Deployments]
    BY <1>0 DEF TypeOK
  <2> HIDE DEF x
  <2>5. TypeOK'
    BY <1>0, <2>1, <2>4 DEF TypeOK
  <2> QED
    BY <2>1, <2>3, <2>5 DEF IndInv
<1>8. CASE UNCHANGED vars
  <2>1. TypeOK'
    BY <1>0, <1>8 DEF TypeOK, vars
  <2> QED
    BY <1>8, <2>1 DEF IndInv, vars
<1> QED
  BY <1>1, <1>2, <1>3, <1>4, <1>5, <1>6, <1>7, <1>8 DEF Next

\* Documents have their contracts' fields, identities are of real capital, and
\* whatever is loaded or taken passed its checks.
THEOREM Invariance == Spec => []IndInv
  BY InitInv, NextInv, PTL DEF Spec

\* What a consumer took rebuilt and its policy permitted it.
LEMMA TakenFacts ==
  ASSUME IndInv, NEW x \in accepted
  PROVE  /\ Taken(x)
         /\ x.allocation \in bound /\ x.allocation \in Bound
         /\ x.allocation.observation \in Observation
         /\ x.allocation.basis \in Basis
  BY DEF IndInv, TypeOK, Bound

\* Mutation inside Macro never reaches a consumer.
THEOREM OriginalCapital == Spec => []CapitalIsOriginal
<1>1. ASSUME IndInv, NEW x \in accepted
      PROVE  x.allocation.basis.capital \in created
  <2>1. x.allocation.basis.id \in created
    BY <1>1, TakenFacts DEF IndInv
  <2>2. x.allocation.basis.id = x.allocation.basis.capital
    BY <1>1, TakenFacts DEF Taken, Rebuilds, ValidBasis
  <2> QED
    BY <2>1, <2>2
<1>2. IndInv => CapitalIsOriginal
  BY <1>1 DEF CapitalIsOriginal
<1> QED
  BY Invariance, <1>2, PTL

\* Only what the independently frozen policy lists is funded.
THEOREM PermittedOnly == Spec => []FundedIsPermitted
<1>1. ASSUME IndInv, NEW x \in accepted
      PROVE  LET o == x.allocation.observation
                 d == x.deployment
             IN  /\ \E c \in d.expected.capabilities :
                      /\ c.revision = o.intent.revision /\ c.code = o.intent.code
                      /\ c.regime = o.regime /\ o.intent.side \in c.sides
                 /\ o.intent.revision \in d.revisions
                 /\ o.regime # "UNCERTAIN"
                 /\ {o.sources, d.sources, d.expected.sources}
                      = {x.allocation.basis.capital.sources}
  <2> DEFINE o == x.allocation.observation
             d == x.deployment
  <2>1. /\ PolicyTakes(d.expected, o) /\ ValidPolicy(d.expected)
        /\ Binding(d.expected, d) /\ ValidBound(x.allocation)
    BY <1>1, TakenFacts DEF Taken, Rebuilds
  <2>2. PICK c \in d.expected.capabilities :
          /\ c.revision = o.intent.revision /\ c.code = o.intent.code
          /\ c.regime = o.regime /\ o.intent.side \in c.sides
    BY <2>1 DEF PolicyTakes, Permits
  <2>3. c.revision \in d.revisions /\ c.regime # "UNCERTAIN"
    BY <2>1 DEF Binding, ValidPolicy, ValidCapability
  <2>4. {o.sources, d.sources, d.expected.sources} = {x.allocation.basis.capital.sources}
    BY <2>1 DEF PolicyTakes, Binding, ValidBound
  <2> QED
    BY <2>2, <2>3, <2>4
<1>2. IndInv => FundedIsPermitted
  BY <1>1 DEF FundedIsPermitted
<1> QED
  BY Invariance, <1>2, PTL

\* The consistency of a catalog carries over to what is funded under it.
THEOREM OneCode == Spec => []OneCodePerRevision
<1>1. ASSUME IndInv, NEW x \in accepted, NEW y \in accepted, x.deployment = y.deployment,
             x.allocation.observation.intent.revision = y.allocation.observation.intent.revision
      PROVE  x.allocation.observation.intent.code = y.allocation.observation.intent.code
  <2> DEFINE p == x.deployment.expected
  <2>1. /\ ValidPolicy(p)
        /\ PolicyTakes(p, x.allocation.observation) /\ PolicyTakes(p, y.allocation.observation)
    BY <1>1, TakenFacts DEF Taken
  <2>2. PICK c \in p.capabilities : /\ c.revision = x.allocation.observation.intent.revision
                                    /\ c.code = x.allocation.observation.intent.code
    BY <2>1 DEF PolicyTakes, Permits
  <2>3. PICK e \in p.capabilities : /\ e.revision = y.allocation.observation.intent.revision
                                    /\ e.code = y.allocation.observation.intent.code
    BY <2>1 DEF PolicyTakes, Permits
  <2>4. c.code = e.code
    BY <1>1, <2>1, <2>2, <2>3 DEF ValidPolicy
  <2> QED
    BY <2>2, <2>3, <2>4
<1>2. IndInv => OneCodePerRevision
  BY <1>1 DEF OneCodePerRevision
<1> QED
  BY Invariance, <1>2, PTL

\* Account, capital and market events come before the candidate's decision.
THEOREM BudgetInTime == Spec => []BudgetPrecedesCandidate
<1>1. ASSUME IndInv, NEW x \in accepted
      PROVE  LET a == x.allocation
                 i == a.observation.intent
             IN  /\ a.basis.capital.captured <= i.decision
                 /\ a.basis.capital.allocation.produced <= i.decision
                 /\ a.observation.event <= i.decision
                 /\ i.decision <= a.at /\ a.at <= i.expires
                 /\ a.observation.observed <= a.at
  <2> DEFINE a == x.allocation
             o == a.observation
             i == o.intent
             capital == a.basis.capital
  <2>1. a \in Bound /\ o \in Observation /\ a.basis \in Basis
    BY <1>1, TakenFacts
  <2>2. ValidBasis(a.basis) /\ ValidObservation(o) /\ ValidBound(a)
    BY <1>1, TakenFacts DEF Taken, Rebuilds
  <2>3. i \in Intent
    BY <2>1, RegimeAssumption DEF Observation
  <2>4. capital \in Capital /\ capital.allocation \in Allocation
    BY <2>1 DEF Basis, Capital
  <2>5. /\ i.decision \in Nat /\ i.expires \in Nat
        /\ capital.captured \in Nat /\ capital.allocation.produced \in Nat
        /\ o.event \in Nat /\ o.observed \in Nat /\ o.produced \in Nat /\ o.expires \in Nat
        /\ a.at \in Nat
    BY <2>1, <2>3, <2>4 DEF Intent, Capital, Allocation, Observation, Bound
  <2>6. /\ capital.captured <= capital.allocation.produced
        /\ capital.allocation.produced <= i.decision
    BY <2>2 DEF ValidBasis, ValidBound
  <2>7. /\ o.event <= i.decision /\ o.observed <= o.produced /\ o.expires <= i.expires
        /\ i.decision <= a.at /\ o.produced <= a.at /\ a.at <= o.expires
    BY <2>2 DEF ValidObservation, ValidBound
  <2> HIDE DEF a, o, i, capital
  <2>8. /\ capital.captured <= i.decision /\ o.observed <= a.at /\ a.at <= i.expires
    BY <2>5, <2>6, <2>7
  <2> QED
    BY <2>6, <2>7, <2>8 DEF a, o, i, capital
<1>2. IndInv => BudgetPrecedesCandidate
  BY <1>1 DEF BudgetPrecedesCandidate
<1> QED
  BY Invariance, <1>2, PTL
=============================================================================
