---------------------------- MODULE ResearchPairing ----------------------------
(***************************************************************************)
(* One scheduled research sample: LLM attempts are started, answered, timed *)
(* out and answered late, a strategy is evaluated, and                      *)
(* build_research_decision_sample of kairos_core/research_pairing.py pairs  *)
(* what the caller hands it at the preassigned pairing clock.               *)
(*                                                                          *)
(* The gateway, the evaluator and the caller are outside the repository;    *)
(* they stamp what they saw with the clock they saw it at, keep everything, *)
(* and may hand the builder any of it, of this sample or of another one, at *)
(* any later time.  The builder checks the documents against the sample     *)
(* (_check_strategy, _check_llm), and the record checks its own fields      *)
(* again (ResearchDecisionSampleV1.validate_sample).                        *)
(*                                                                          *)
(* A scope stands for campaign, arm, sample, symbol, timeframe and snapshot *)
(* of one window, so that all scopes have the same clocks (another arm, for *)
(* one); a document's hash is the document.                                 *)
(***************************************************************************)
EXTENDS Naturals, FiniteSets

CONSTANTS
    Scope,          \* the scope of the sample
    Scopes,         \* scopes documents may be about
    AsOf,           \* market_as_of_ts_ms
    PairedAt,       \* paired_at_ts_ms
    Deadline,       \* sample_deadline_ts_ms
    Attempts,       \* LLM attempts, retries included
    ScopeOf,        \* the scope an attempt is made for
    AlertValidity,  \* MAX_VOLATILITY_ALERT_VALIDITY_MS
    None,           \* an absent document or field
    Expiries,       \* bound: expiry times proposals may carry
    Intents,        \* bound: intents the evaluator may emit
    MaxTime,        \* bound: the clock stops there
    MaxRecords      \* bound: records built

(* ScheduledResearchSampleV1.__post_init__ *)
ASSUME PairingAssumption ==
    /\ Scope \in Scopes
    /\ ScopeOf \in [Attempts -> Scopes]
    /\ AsOf \in Nat /\ PairedAt \in Nat /\ Deadline \in Nat
    /\ AlertValidity \in Nat /\ MaxTime \in Nat /\ MaxRecords \in Nat
    /\ Expiries \subseteq Nat
    /\ Intents \subseteq [decidedAt : Nat, expires : Nat, scope : Scopes]
    /\ AsOf <= PairedAt /\ PairedAt < Deadline
    /\ None \notin Nat

VARIABLES
    now,            \* the clock of the caller
    started,        \* per attempt: when it was started, or None
    proposals,      \* LLMTradeProposalV1 documents
    completions,    \* LLMProposalCompletionReceiptV1 documents
    failures,       \* LLMCallFailureV1 documents
    evaluations,    \* StrategyEvaluationEvidenceV1 documents
    intents,        \* StrategyIntentV1 documents
    records,        \* the ResearchDecisionSampleV1 built so far
    witnessed       \* history: the receipts that existed at the pairing clock

llm == <<started, proposals, completions, failures>>

strategy == <<evaluations, intents>>

vars == <<now, llm, strategy, records, witnessed>>

Hypotheses == {"LONG_BIAS", "VOLATILITY_ALERT"}

Actions == Hypotheses \cup {"NO_PROPOSAL"}

Proposal == [attempt : Attempts, scope : Scopes, action : Actions, expires : Nat]

Completion == [scope : Scopes, attempt : Attempts, proposal : Proposal,
               startedAt : Nat, observedAt : Nat]

Failure == [scope : Scopes, attempt : Attempts, startedAt : Nat, observedAt : Nat]

Intent == [decidedAt : Nat, expires : Nat, scope : Scopes]

Evaluation == [scope : Scopes, evidenceAt : Nat, intent : Intent \cup {None}]

Optional(S) == S \cup {None}

-----------------------------------------------------------------------------
(* What the constructors of the documents let through. *)

ValidProposal(p) ==
    /\ p.expires >= AsOf
    /\ p.action \in Hypotheses => p.expires > AsOf
    /\ p.action = "VOLATILITY_ALERT" => p.expires - AsOf <= AlertValidity

ValidReceipt(r) ==
    /\ AsOf <= r.startedAt /\ r.startedAt < Deadline
    /\ r.observedAt >= r.startedAt

ValidIntent(i) == i.expires >= i.decidedAt

-----------------------------------------------------------------------------
(* The builder. *)

CheckStrategy(evaluation, intent) ==
    \/ evaluation = None /\ intent = None
    \/ /\ evaluation # None
       /\ evaluation.scope = Scope
       /\ evaluation.evidenceAt = AsOf
       /\ intent = evaluation.intent
       /\ intent # None =>
             /\ intent.scope = Scope
             /\ intent.decidedAt = AsOf
             /\ PairedAt < intent.expires

StrategyFields(evaluation, intent) ==
    [outcome |-> IF evaluation = None THEN "NOT_EVALUATED"
                 ELSE IF intent = None THEN "NO_INTENT" ELSE "DIRECTION",
     evaluation |-> evaluation,
     evidenceAt |-> IF evaluation = None THEN None ELSE evaluation.evidenceAt,
     intent |-> intent,
     intentExpires |-> IF intent = None THEN None ELSE intent.expires]

(* A slip of InTime: the deadline instead of the pairing clock. *)
InTimeForDeadline(r) == r.observedAt < Deadline

(* An observation counts for the pair only up to the pairing clock. *)
InTime(r) == r.observedAt <= PairedAt

CheckFailure(failure) == failure.scope = Scope /\ InTime(failure)

(* A slip of CheckCompletion: an expired hypothesis passes. *)
CheckCompletionStale(proposal, completion) ==
    /\ proposal.scope = Scope
    /\ completion.scope = Scope
    /\ completion.proposal = proposal
    /\ completion.attempt = proposal.attempt
    /\ InTime(completion)

CheckCompletion(proposal, completion) ==
    /\ proposal.scope = Scope
    /\ completion.scope = Scope
    /\ completion.proposal = proposal
    /\ completion.attempt = proposal.attempt
    /\ InTime(completion)
    /\ proposal.action \in Hypotheses => PairedAt < proposal.expires

(* A slip of CheckLLM: an unanswered attempt passes for no attempt. *)
CheckLLMForgetful(proposal, completion, failure, called) ==
    \/ failure # None /\ proposal = None /\ completion = None /\ called /\ CheckFailure(failure)
    \/ failure = None /\ proposal = None /\ completion = None
    \/ failure = None /\ proposal # None /\ completion # None /\ called
       /\ CheckCompletion(proposal, completion)

CheckLLM(proposal, completion, failure, called) ==
    \/ failure # None /\ proposal = None /\ completion = None /\ called /\ CheckFailure(failure)
    \/ failure = None /\ proposal = None /\ completion = None /\ ~called
    \/ failure = None /\ proposal # None /\ completion # None /\ called
       /\ CheckCompletion(proposal, completion)

(* A slip of LLMFields: two places of the positional result swapped. *)
LLMFieldsSwapped(proposal, completion, failure) ==
    [outcome |-> IF failure # None THEN "CALL_FAILED"
                 ELSE IF proposal = None THEN "NOT_CALLED" ELSE proposal.action,
     evidenceAt |-> IF failure = None /\ proposal = None THEN None ELSE AsOf,
     proposal |-> completion,
     expires |-> IF proposal = None THEN None
                 ELSE IF proposal.action \in Hypotheses THEN proposal.expires ELSE None,
     completion |-> proposal,
     answerStartedAt |-> IF completion = None THEN None ELSE completion.startedAt,
     answeredAt |-> IF completion = None THEN None ELSE completion.observedAt,
     failure |-> failure,
     failureStartedAt |-> IF failure = None THEN None ELSE failure.startedAt,
     failedAt |-> IF failure = None THEN None ELSE failure.observedAt]

LLMFields(proposal, completion, failure) ==
    [outcome |-> IF failure # None THEN "CALL_FAILED"
                 ELSE IF proposal = None THEN "NOT_CALLED" ELSE proposal.action,
     evidenceAt |-> IF failure = None /\ proposal = None THEN None ELSE AsOf,
     proposal |-> proposal,
     expires |-> IF proposal = None THEN None
                 ELSE IF proposal.action \in Hypotheses THEN proposal.expires ELSE None,
     completion |-> completion,
     answerStartedAt |-> IF completion = None THEN None ELSE completion.startedAt,
     answeredAt |-> IF completion = None THEN None ELSE completion.observedAt,
     failure |-> failure,
     failureStartedAt |-> IF failure = None THEN None ELSE failure.startedAt,
     failedAt |-> IF failure = None THEN None ELSE failure.observedAt]

-----------------------------------------------------------------------------
(* The record's own validator, which sees fields and never the documents. *)

ValidStrategyFields(s) ==
    \/ /\ s.outcome = "NOT_EVALUATED"
       /\ s.evaluation = None /\ s.evidenceAt = None
       /\ s.intent = None /\ s.intentExpires = None
    \/ /\ s.outcome # "NOT_EVALUATED"
       /\ s.evaluation # None /\ s.evidenceAt # None
       /\ s.evidenceAt <= AsOf
       /\ s.outcome = "NO_INTENT" => s.intent = None /\ s.intentExpires = None
       /\ s.outcome = "DIRECTION" =>
             s.intent # None /\ s.intentExpires # None /\ PairedAt < s.intentExpires

Causal(from, until) ==
    from # None /\ until # None /\ AsOf <= from /\ from <= until /\ until <= PairedAt

NoFailureFields(f) == f.failure = None /\ f.failureStartedAt = None /\ f.failedAt = None

NoAnswerFields(f) ==
    /\ f.proposal = None /\ f.expires = None
    /\ f.completion = None /\ f.answerStartedAt = None /\ f.answeredAt = None

ValidLLMFields(f) ==
    \/ /\ f.outcome = "NOT_CALLED"
       /\ f.evidenceAt = None
       /\ NoAnswerFields(f) /\ NoFailureFields(f)
    \/ /\ f.outcome = "CALL_FAILED"
       /\ f.evidenceAt = AsOf
       /\ f.failure # None
       /\ NoAnswerFields(f)
       /\ Causal(f.failureStartedAt, f.failedAt)
    \/ /\ f.outcome \in Actions
       /\ NoFailureFields(f)
       /\ f.evidenceAt # None /\ f.proposal # None /\ f.completion # None
       /\ Causal(f.answerStartedAt, f.answeredAt)
       /\ f.evidenceAt <= AsOf
       /\ f.outcome \in Hypotheses =>
             /\ f.expires # None /\ PairedAt < f.expires
             /\ f.outcome = "VOLATILITY_ALERT" => f.expires - AsOf <= AlertValidity
       /\ f.outcome \notin Hypotheses => f.expires = None

ValidRecord(r) == ValidStrategyFields(r.strategy) /\ ValidLLMFields(r.llm)

-----------------------------------------------------------------------------

Init ==
    /\ now = AsOf
    /\ started = [a \in Attempts |-> None]
    /\ proposals = {} /\ completions = {} /\ failures = {}
    /\ evaluations = {} /\ intents = {}
    /\ records = {}
    /\ witnessed = {}

(* Time passes.  What is known when the clock leaves PairedAt is remembered. *)
Tick ==
    /\ now < MaxTime
    /\ now' = now + 1
    /\ witnessed' = IF now = PairedAt THEN completions \cup failures ELSE witnessed
    /\ UNCHANGED <<llm, strategy, records>>

Start(a) ==
    /\ started[a] = None
    /\ started' = [started EXCEPT ![a] = now]
    /\ UNCHANGED <<now, proposals, completions, failures, strategy, records, witnessed>>

(* The answer of an attempt arrives, after a timeout of the caller or not.   *)
(* The adapter makes a proposal of it, the recorder a completion receipt.    *)
Answer(a, action, expires) ==
    LET p == [attempt |-> a, scope |-> ScopeOf[a], action |-> action, expires |-> expires]
        c == [scope |-> ScopeOf[a], attempt |-> a, proposal |-> p,
              startedAt |-> started[a], observedAt |-> now]
    IN  /\ started[a] # None
        /\ ~\E q \in proposals : q.attempt = a
        /\ ValidProposal(p) /\ ValidReceipt(c)
        /\ proposals' = proposals \cup {p}
        /\ completions' = completions \cup {c}
        /\ UNCHANGED <<now, started, failures, strategy, records, witnessed>>

(* The caller gives an attempt up: timeout, provider error, cancellation. *)
Fail(a) ==
    LET f == [scope |-> ScopeOf[a], attempt |-> a,
              startedAt |-> started[a], observedAt |-> now]
    IN  /\ started[a] # None
        /\ ~\E g \in failures : g.attempt = a
        /\ ValidReceipt(f)
        /\ failures' = failures \cup {f}
        /\ UNCHANGED <<now, started, proposals, completions, strategy, records, witnessed>>

(* The strategy is evaluated on the bar of the sample or on a later one, and *)
(* emits an intent or none.                                                  *)
Evaluate(scope, evidenceAt, intent) ==
    /\ evaluations = {}
    /\ evaluations' = {[scope |-> scope, evidenceAt |-> evidenceAt, intent |-> intent]}
    /\ intents' = {intent} \ {None}
    /\ intent # None => ValidIntent(intent)
    /\ UNCHANGED <<now, llm, records, witnessed>>

(* llm_was_called is taken from the caller's durable log of attempts. *)
Called == \E a \in Attempts : ScopeOf[a] = Scope /\ started[a] # None

Pairing(e, i, p, c, f) == CheckStrategy(e, i) /\ CheckLLM(p, c, f, Called)

RecordOf(e, i, p, c, f) == [strategy |-> StrategyFields(e, i), llm |-> LLMFields(p, c, f)]

(* The caller pairs what it picks; a ValueError leaves nothing behind. *)
Build(e, i, p, c, f) ==
    /\ now >= PairedAt
    /\ Pairing(e, i, p, c, f)
    /\ ValidRecord(RecordOf(e, i, p, c, f))
    /\ Cardinality(records) < MaxRecords
    /\ records' = records \cup {RecordOf(e, i, p, c, f)}
    /\ UNCHANGED <<now, llm, strategy, witnessed>>

Next ==
    \/ Tick
    \/ \E a \in Attempts :
          \/ Start(a)
          \/ Fail(a)
          \/ \E action \in Actions, expires \in Expiries : Answer(a, action, expires)
    \/ \E scope \in Scopes, evidenceAt \in {AsOf, PairedAt}, intent \in Optional(Intents) :
          Evaluate(scope, evidenceAt, intent)
    \/ \E e \in Optional(evaluations), i \in Optional(intents), p \in Optional(proposals),
          c \in Optional(completions), f \in Optional(failures) : Build(e, i, p, c, f)

Spec == Init /\ [][Next]_vars

-----------------------------------------------------------------------------
(* Properties *)

(* The shape of documents and records; a record links documents in the fields of their kind
   (research_pairing.py:278-291, 346-376). *)
TypeOK ==
    /\ now \in Nat
    /\ started \in [Attempts -> Nat \cup {None}]
    /\ proposals \subseteq Proposal
    /\ completions \subseteq Completion
    /\ failures \subseteq Failure
    /\ evaluations \subseteq Evaluation
    /\ intents = {e.intent : e \in evaluations} \ {None}
    /\ witnessed \subseteq completions \cup failures
    /\ \A r \in records :
          /\ r.strategy.evaluation \in Optional(evaluations)
          /\ r.strategy.intent \in Optional(intents)
          /\ r.llm.proposal \in Optional(proposals)
          /\ r.llm.completion \in Optional(completions)
          /\ r.llm.failure \in Optional(failures)

(* Documents of a record that are receipts of an LLM call. *)
ReceiptsOf(r) == {r.llm.completion, r.llm.failure} \ {None}

(* No look-ahead: whenever the pair is built, and whichever receipts of     *)
(* retries, timeouts and late answers the caller has collected by then, the *)
(* builder lets only those pass that somebody standing at the pairing clock *)
(* already had, and no record links another (research_pairing.py:222-223,   *)
(* 273-274).                                                                *)
NoLookAhead ==
    now > PairedAt =>
        /\ \A r \in records : ReceiptsOf(r) \subseteq witnessed
        /\ \A p \in Optional(proposals), c \in Optional(completions), f \in Optional(failures) :
              CheckLLM(p, c, f, Called) => {c, f} \ {None} \subseteq witnessed

(* An attempt of the sample that is still unanswered at the pairing clock   *)
(* cannot be hidden as NOT_CALLED nor reported by its late receipt: from    *)
(* then on no choice of documents yields a pair, unless another attempt of  *)
(* the sample was settled in time (research_pairing.py:240-242).            *)
LateAttemptBlocks ==
    (now > PairedAt /\ Called /\ ~\E w \in witnessed : w.scope = Scope) =>
        \A e \in Optional(evaluations), i \in Optional(intents), p \in Optional(proposals),
           c \in Optional(completions), f \in Optional(failures) : ~Pairing(e, i, p, c, f)

(* The two validators agree: documents that pass the builder's checks make  *)
(* a record its own validator accepts, although that one re-checks the      *)
(* clocks from copied fields only (research_decision.py:100-234).           *)
ValidatorsAgree ==
    \A e \in Optional(evaluations), i \in Optional(intents), p \in Optional(proposals),
       c \in Optional(completions), f \in Optional(failures) :
        Pairing(e, i, p, c, f) => ValidRecord(RecordOf(e, i, p, c, f))

(* What the two rest on: receipts carry the clock they were written at, so  *)
(* those stamped up to the pairing clock are the ones that existed then.    *)
Stamped ==
    /\ \A p \in proposals : ValidProposal(p)
    /\ \A d \in completions \cup failures : ValidReceipt(d) /\ d.observedAt <= now

Remembered ==
    now > PairedAt =>
        \A d \in completions \cup failures : InTime(d) => d \in witnessed

LinkedInTime ==
    \A r \in records : \A d \in ReceiptsOf(r) : d \in completions \cup failures /\ InTime(d)

(* The inductive invariant. *)
IndInv == Stamped /\ Remembered /\ LinkedInTime

(* README.md:114-115, "Its caller-attested observation time must precede    *)
(* the causal pairing clock": a linked failure was observed strictly before *)
(* the pairing clock.                                                       *)
FailurePrecedesPairing ==
    \A r \in records : r.llm.failure # None => r.llm.failedAt < PairedAt

=============================================================================
