------------------------- MODULE ResearchPairingProofs -------------------------
(***************************************************************************)
(* The pairing never looks ahead and its two validators agree, for every   *)
(* number of attempts and scopes, every window and every clock.            *)
(***************************************************************************)
EXTENDS ResearchPairing, TLAPS

-----------------------------------------------------------------------------
(* Type correctness. *)

(* The initial state is well-typed. *)
LEMMA TypeInit == Init => TypeOK
  BY PairingAssumption DEF Init, TypeOK, PairingAssumption

(* Every step keeps the types. *)
LEMMA TypeNext == TypeOK /\ [Next]_vars => TypeOK'
<1>. SUFFICES ASSUME TypeOK, [Next]_vars
              PROVE  TypeOK'
  OBVIOUS
<1>. USE PairingAssumption DEF TypeOK, PairingAssumption, Optional
<1>1. CASE Tick
  <2>1. now' \in Nat
    BY <1>1 DEF Tick
  <2>. QED
    BY <1>1, <2>1 DEF Tick, llm, strategy
<1>2. ASSUME NEW a \in Attempts, Start(a)
      PROVE  TypeOK'
  <2>1. started' \in [Attempts -> Nat \cup {None}]
    BY <1>2 DEF Start
  <2>. QED
    BY <1>2, <2>1 DEF Start, strategy
<1>3. ASSUME NEW a \in Attempts, Fail(a)
      PROVE  TypeOK'
  <2>1. started[a] \in Nat
    BY <1>3 DEF Fail
  <2>2. failures' \subseteq Failure /\ failures \subseteq failures'
    BY <1>3, <2>1 DEF Fail, Failure
  <2>. QED
    BY <1>3, <2>2 DEF Fail, strategy
<1>4. ASSUME NEW a \in Attempts, NEW action \in Actions, NEW expires \in Expiries,
             Answer(a, action, expires)
      PROVE  TypeOK'
  <2>. DEFINE p == [attempt |-> a, scope |-> ScopeOf[a], action |-> action, expires |-> expires]
              c == [scope |-> ScopeOf[a], attempt |-> a, proposal |-> p,
                    startedAt |-> started[a], observedAt |-> now]
  <2>1. started[a] \in Nat
    BY <1>4 DEF Answer
  <2>2. p \in Proposal
    BY DEF Proposal
  <2>3. c \in Completion
    BY <2>1, <2>2 DEF Completion
  <2>4. proposals' = proposals \cup {p} /\ completions' = completions \cup {c}
    BY <1>4 DEF Answer
  <2>5. proposals' \subseteq Proposal /\ completions' \subseteq Completion
    BY <2>2, <2>3, <2>4
  <2>. HIDE DEF p, c
  <2>. QED
    BY <1>4, <2>4, <2>5 DEF Answer, strategy
<1>5. ASSUME NEW scope \in Scopes, NEW evidenceAt \in {AsOf, PairedAt},
             NEW intent \in Optional(Intents), Evaluate(scope, evidenceAt, intent)
      PROVE  TypeOK'
  <2>1. intent \in Intent \cup {None}
    BY <1>5, PairingAssumption DEF PairingAssumption, Optional, Intent
  <2>2. evaluations' \subseteq Evaluation
    BY <1>5, <2>1 DEF Evaluate, Evaluation
  <2>3. intents' = {e.intent : e \in evaluations'} \ {None}
    BY <1>5 DEF Evaluate
  <2>4. evaluations = {} /\ intents = {}
    BY <1>5 DEF Evaluate
  <2>. QED
    BY <1>5, <2>2, <2>3, <2>4 DEF Evaluate, llm
<1>6. ASSUME NEW e \in Optional(evaluations), NEW i \in Optional(intents),
             NEW p \in Optional(proposals), NEW c \in Optional(completions),
             NEW f \in Optional(failures), Build(e, i, p, c, f)
      PROVE  TypeOK'
  <2>1. /\ RecordOf(e, i, p, c, f).strategy.evaluation = e
        /\ RecordOf(e, i, p, c, f).strategy.intent = i
        /\ RecordOf(e, i, p, c, f).llm.proposal = p
        /\ RecordOf(e, i, p, c, f).llm.completion = c
        /\ RecordOf(e, i, p, c, f).llm.failure = f
    BY DEF RecordOf, StrategyFields, LLMFields
  <2>. QED
    BY <1>6, <2>1 DEF Build, llm, strategy
<1>7. CASE UNCHANGED vars
  BY <1>7 DEF vars, llm, strategy
<1>. QED
  BY <1>1, <1>2, <1>3, <1>4, <1>5, <1>6, <1>7 DEF Next

(* Documents, the clock and the records keep their shape. *)
THEOREM TypeCorrect == Spec => []TypeOK
  BY TypeInit, TypeNext, PTL DEF Spec

-----------------------------------------------------------------------------
(* The inductive invariant. *)

(* The invariant holds initially. *)
LEMMA InvInit == Init => IndInv
  BY DEF Init, IndInv, Stamped, Remembered, LinkedInTime

(* A step that leaves the receipts alone can only let time pass. *)
LEMMA InvNext == TypeOK /\ IndInv /\ [Next]_vars => IndInv'
<1>. SUFFICES ASSUME TypeOK, IndInv, [Next]_vars
              PROVE  IndInv'
  OBVIOUS
<1>. USE PairingAssumption DEF PairingAssumption, IndInv
<1>0. now \in Nat
  BY DEF TypeOK
<1>1. CASE Tick
  <2>1. /\ now' = now + 1
        /\ UNCHANGED <<started, proposals, completions, failures, records>>
        /\ witnessed' = IF now = PairedAt THEN completions \cup failures ELSE witnessed
    BY <1>1 DEF Tick, llm
  <2>2. Stamped'
    <3>1. \A d \in completions \cup failures : d.observedAt \in Nat
      BY DEF TypeOK, Completion, Failure
    <3>2. \A d \in completions \cup failures : d.observedAt <= now'
      BY <1>0, <2>1, <3>1 DEF Stamped
    <3>. QED
      BY <2>1, <3>2 DEF Stamped, ValidProposal, ValidReceipt
  <2>3. Remembered'
    <3>1. CASE now = PairedAt
      BY <2>1, <3>1 DEF Remembered
    <3>2. CASE now # PairedAt
      BY <1>0, <2>1, <3>2 DEF Remembered, InTime
    <3>. QED
      BY <3>1, <3>2
  <2>4. LinkedInTime'
    BY <2>1 DEF LinkedInTime, ReceiptsOf, InTime
  <2>. QED
    BY <2>2, <2>3, <2>4
<1>2. ASSUME NEW a \in Attempts, Start(a)
      PROVE  IndInv'
  BY <1>2 DEF Start, Stamped, Remembered, LinkedInTime, ReceiptsOf, InTime, ValidProposal, ValidReceipt
<1>3. ASSUME NEW a \in Attempts, Fail(a)
      PROVE  IndInv'
  <2>. DEFINE d == [scope |-> ScopeOf[a], attempt |-> a, startedAt |-> started[a], observedAt |-> now]
  <2>1. /\ failures' = failures \cup {d} /\ ValidReceipt(d) /\ d.observedAt = now
        /\ UNCHANGED <<now, proposals, completions, records, witnessed>>
    BY <1>3 DEF Fail
  <2>. HIDE DEF d
  <2>2. Stamped'
    BY <1>0, <2>1 DEF Stamped, ValidProposal, ValidReceipt
  <2>3. Remembered'
    BY <1>0, <2>1 DEF Remembered, InTime
  <2>4. LinkedInTime'
    BY <2>1 DEF LinkedInTime, ReceiptsOf, InTime
  <2>. QED
    BY <2>2, <2>3, <2>4
<1>4. ASSUME NEW a \in Attempts, NEW action \in Actions, NEW expires \in Expiries,
             Answer(a, action, expires)
      PROVE  IndInv'
  <2>. DEFINE p == [attempt |-> a, scope |-> ScopeOf[a], action |-> action, expires |-> expires]
              d == [scope |-> ScopeOf[a], attempt |-> a, proposal |-> p,
                    startedAt |-> started[a], observedAt |-> now]
  <2>1. /\ proposals' = proposals \cup {p} /\ ValidProposal(p)
        /\ completions' = completions \cup {d} /\ ValidReceipt(d) /\ d.observedAt = now
        /\ UNCHANGED <<now, failures, records, witnessed>>
    BY <1>4 DEF Answer
  <2>. HIDE DEF p, d
  <2>2. Stamped'
    BY <1>0, <2>1 DEF Stamped, ValidProposal, ValidReceipt
  <2>3. Remembered'
    BY <1>0, <2>1 DEF Remembered, InTime
  <2>4. LinkedInTime'
    BY <2>1 DEF LinkedInTime, ReceiptsOf, InTime
  <2>. QED
    BY <2>2, <2>3, <2>4
<1>5. ASSUME NEW scope \in Scopes, NEW evidenceAt \in {AsOf, PairedAt},
             NEW intent \in Optional(Intents), Evaluate(scope, evidenceAt, intent)
      PROVE  IndInv'
  BY <1>5 DEF Evaluate, llm, Stamped, Remembered, LinkedInTime, ReceiptsOf, InTime,
     ValidProposal, ValidReceipt
<1>6. ASSUME NEW e \in Optional(evaluations), NEW i \in Optional(intents),
             NEW p \in Optional(proposals), NEW c \in Optional(completions),
             NEW f \in Optional(failures), Build(e, i, p, c, f)
      PROVE  IndInv'
  <2>1. /\ UNCHANGED <<now, proposals, completions, failures, witnessed>>
        /\ records' = records \cup {RecordOf(e, i, p, c, f)}
        /\ CheckLLM(p, c, f, Called)
    BY <1>6 DEF Build, llm, Pairing
  <2>2. Stamped' /\ Remembered'
    BY <2>1 DEF Stamped, Remembered, InTime, ValidProposal, ValidReceipt
  <2>3. ReceiptsOf(RecordOf(e, i, p, c, f)) = {c, f} \ {None}
    BY DEF ReceiptsOf, RecordOf, LLMFields
  <2>4. \A d \in {c, f} \ {None} : d \in completions \cup failures /\ InTime(d)
    BY <2>1 DEF CheckLLM, CheckFailure, CheckCompletion, Optional
  <2>5. LinkedInTime'
    <3>1. \A r \in records' : r \in records \/ r = RecordOf(e, i, p, c, f)
      BY <2>1
    <3>2. \A r \in records' : \A d \in ReceiptsOf(r) : d \in completions \cup failures /\ InTime(d)
      BY <2>3, <2>4, <3>1 DEF LinkedInTime
    <3>. QED
      BY <2>1, <3>2 DEF LinkedInTime, ReceiptsOf, InTime
  <2>. QED
    BY <2>2, <2>5
<1>7. CASE UNCHANGED vars
  BY <1>7 DEF vars, llm, strategy, Stamped, Remembered, LinkedInTime, ReceiptsOf, InTime,
     ValidProposal, ValidReceipt
<1>. QED
  BY <1>1, <1>2, <1>3, <1>4, <1>5, <1>6, <1>7 DEF Next

(* Receipts are stamped with the clock they were written at. *)
THEOREM Invariance == Spec => []IndInv
  BY InvInit, InvNext, TypeCorrect, PTL DEF Spec

-----------------------------------------------------------------------------
(* What the builder lets pass. *)

(* What the builder lets pass after the pairing clock was there at that clock. *)
LEMMA PassedWasWitnessed ==
    ASSUME IndInv, now > PairedAt,
           NEW p \in Optional(proposals), NEW c \in Optional(completions),
           NEW f \in Optional(failures), CheckLLM(p, c, f, Called)
    PROVE  {c, f} \ {None} \subseteq witnessed
  BY DEF IndInv, Remembered, CheckLLM, CheckFailure, CheckCompletion, Optional

(* No pair looks ahead of its pairing clock. *)
THEOREM NeverLooksAhead == Spec => []NoLookAhead
<1>1. IndInv => NoLookAhead
  <2>1. IndInv /\ now > PairedAt => \A r \in records : ReceiptsOf(r) \subseteq witnessed
    BY DEF IndInv, Remembered, LinkedInTime
  <2>. QED
    BY <2>1, PassedWasWitnessed DEF NoLookAhead
<1>. QED
  BY <1>1, Invariance, PTL

(* A late attempt leaves its sample without a pair. *)
THEOREM LateAttemptsBlock == Spec => []LateAttemptBlocks
<1>1. IndInv => LateAttemptBlocks
  <2>. SUFFICES ASSUME IndInv, now > PairedAt, Called, ~\E w \in witnessed : w.scope = Scope,
                       NEW e \in Optional(evaluations), NEW i \in Optional(intents),
                       NEW p \in Optional(proposals), NEW c \in Optional(completions),
                       NEW f \in Optional(failures), Pairing(e, i, p, c, f)
                PROVE  FALSE
    BY DEF LateAttemptBlocks
  <2>1. CheckLLM(p, c, f, Called)
    BY DEF Pairing
  <2>2. {c, f} \ {None} \subseteq witnessed
    BY <2>1, PassedWasWitnessed
  <2>. QED
    BY <2>1, <2>2 DEF CheckLLM, CheckFailure, CheckCompletion
<1>. QED
  BY <1>1, Invariance, PTL

(* What the builder lets pass, the record accepts. *)
THEOREM BuilderSatisfiesRecord == Spec => []ValidatorsAgree
<1>1. TypeOK /\ IndInv => ValidatorsAgree
  <2>. SUFFICES ASSUME TypeOK, IndInv,
                       NEW e \in Optional(evaluations), NEW i \in Optional(intents),
                       NEW p \in Optional(proposals), NEW c \in Optional(completions),
                       NEW f \in Optional(failures), Pairing(e, i, p, c, f)
                PROVE  ValidRecord(RecordOf(e, i, p, c, f))
    BY DEF ValidatorsAgree
  <2>. USE PairingAssumption DEF PairingAssumption
  <2>1. ValidStrategyFields(StrategyFields(e, i))
    <3>1. CheckStrategy(e, i)
      BY DEF Pairing
    <3>2. i # None => i.expires \in Nat
      <4>1. evaluations \subseteq Evaluation /\ intents = {x.intent : x \in evaluations} \ {None}
        BY DEF TypeOK
      <4>2. i # None => i \in Intent
        BY <4>1 DEF Optional, Evaluation
      <4>. QED
        BY <4>2 DEF Intent
    <3>3. CASE e = None
      BY <3>1, <3>3 DEF CheckStrategy, StrategyFields, ValidStrategyFields
    <3>4. CASE e # None /\ i = None
      BY <3>1, <3>4 DEF CheckStrategy, StrategyFields, ValidStrategyFields
    <3>5. CASE e # None /\ i # None
      BY <3>1, <3>2, <3>5 DEF CheckStrategy, StrategyFields, ValidStrategyFields
    <3>. QED
      BY <3>3, <3>4, <3>5
  <2>2. ValidLLMFields(LLMFields(p, c, f))
    <3>1. CheckLLM(p, c, f, Called)
      BY DEF Pairing
    <3>2. CASE f # None
      <4>1. f \in Failure /\ ValidReceipt(f)
        BY <3>2 DEF TypeOK, IndInv, Stamped, Optional
      <4>2. f.startedAt \in Nat /\ f.observedAt \in Nat
        BY <4>1 DEF Failure
      <4>3. p = None /\ c = None /\ f.observedAt <= PairedAt
        BY <3>1, <3>2 DEF CheckLLM, CheckFailure, InTime
      <4>. QED
        BY <3>2, <4>1, <4>2, <4>3 DEF LLMFields, ValidLLMFields, NoAnswerFields, Causal, ValidReceipt
    <3>3. CASE f = None /\ p = None
      BY <3>1, <3>3 DEF CheckLLM, LLMFields, ValidLLMFields, NoAnswerFields, NoFailureFields
    <3>4. CASE f = None /\ p # None
      <4>1. p \in Proposal /\ ValidProposal(p)
        BY <3>4 DEF TypeOK, IndInv, Stamped, Optional
      <4>2. c # None /\ CheckCompletion(p, c)
        BY <3>1, <3>4 DEF CheckLLM
      <4>3. c \in Completion /\ ValidReceipt(c)
        BY <4>2 DEF TypeOK, IndInv, Stamped, Optional
      <4>4. p.action \in Actions /\ p.expires \in Nat
        BY <4>1 DEF Proposal
      <4>5. c.startedAt \in Nat /\ c.observedAt \in Nat /\ c.observedAt <= PairedAt
        BY <4>2, <4>3 DEF Completion, CheckCompletion, InTime
      <4>6. Causal(c.startedAt, c.observedAt)
        BY <4>3, <4>5 DEF Causal, ValidReceipt
      <4>. DEFINE g == LLMFields(p, c, f)
      <4>7. /\ g.outcome = p.action /\ g.evidenceAt = AsOf
            /\ g.proposal = p /\ g.completion = c
            /\ g.expires = IF p.action \in Hypotheses THEN p.expires ELSE None
            /\ g.answerStartedAt = c.startedAt /\ g.answeredAt = c.observedAt
            /\ g.failure = None /\ g.failureStartedAt = None /\ g.failedAt = None
        BY <3>4, <4>2 DEF LLMFields
      <4>8. p.action \in Hypotheses => PairedAt < p.expires
        BY <4>2 DEF CheckCompletion
      <4>. HIDE DEF g
      <4>9. g.outcome \in Actions /\ NoFailureFields(g)
        BY <4>4, <4>7 DEF NoFailureFields
      <4>10. /\ g.evidenceAt # None /\ g.proposal # None /\ g.completion # None
             /\ Causal(g.answerStartedAt, g.answeredAt)
             /\ g.evidenceAt <= AsOf
        BY <3>4, <4>2, <4>6, <4>7
      <4>11. ASSUME g.outcome \in Hypotheses
             PROVE  /\ g.expires # None /\ PairedAt < g.expires
                    /\ g.outcome = "VOLATILITY_ALERT" => g.expires - AsOf <= AlertValidity
        BY <4>1, <4>4, <4>7, <4>8, <4>11 DEF ValidProposal
      <4>12. g.outcome \notin Hypotheses => g.expires = None
        BY <4>7
      <4>13. ValidLLMFields(g)
        BY <4>9, <4>10, <4>11, <4>12 DEF ValidLLMFields
      <4>. QED
        BY <4>13 DEF g
    <3>. QED
      BY <3>2, <3>3, <3>4
  <2>. QED
    BY <2>1, <2>2 DEF ValidRecord, RecordOf
<1>. QED
  BY <1>1, TypeCorrect, Invariance, PTL

=============================================================================
