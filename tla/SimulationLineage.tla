------------------------- MODULE SimulationLineage -------------------------
(***************************************************************************)
(* The lineage of a simulated trade, from the candidate a strategy emits   *)
(* to the terminal receipt of a simulator command:                         *)
(*   CandidateRouteV1 -> CandidateReviewV1          (contracts/strategy.py)*)
(*   -> SimulationRiskDecisionV1 -> SimulationAdmissionV2                  *)
(*      (or the intent alone -> SimulationAdmissionV1)                     *)
(*   -> SimulationTradeV1 -> SimulationCommandV1                           *)
(*   -> SimulationCommandReceiptV1                (contracts/simulation.py)*)
(*                                                                         *)
(* Each document embeds an immutable copy of the one before it and its     *)
(* validator compares its own stamps with that copy's, seldom further      *)
(* back.  The producers are other services with clocks of their own: one   *)
(* may stamp anything, and derive a document from any published one.  All  *)
(* identities are content hashes, so publishing a document twice changes   *)
(* nothing and the published documents are sets.                           *)
(***************************************************************************)
EXTENDS Naturals, FiniteSets

CONSTANTS
  Intents,      \* the immutable candidates
  Decided,      \* Decided[i], Eligible[i], Expires[i]: the stamps of i's
  Eligible,     \*   decision, of the start of its entry window
  Expires,      \*   and of its end
  Allowlisted,  \* the intents whose strategy is on the session's allowlist
  MarketOf,     \* MarketOf[i]: i's symbol on the session's own tape
  Frames,       \* the recorded book frames a decision may select
  NoFrame,      \* a decision without a frame
  NoDecision,   \* an admission without a decision (V1)
  Started,      \* the session's clock bounds
  Ends,
  MaxAge,       \* assumptions.maximum_book_age_ms
  MaxLatency,   \* assumptions.maximum_frame_latency_ms
  MaxTime,      \* bound: the stamps explored
  MaxDocs       \* bound: the documents of each kind explored

Continuities == {"ADMITTED", "GAP", "RECONNECT", "UNKNOWN", "UNAVAILABLE", "CLOCK_SKEW"}

\* StrategyIntentV1.validate_intent.
ValidIntent(i) == Decided[i] <= Eligible[i] /\ Eligible[i] <= Expires[i]

\* RecordedTopNBookFrameV1.validate_frame; V2 adds CLOCK_SKEW.
ValidFrame(f) == /\ f.exchange \in Nat /\ f.persisted \in Nat
                 /\ f.exchange <= f.persisted
                 /\ f.continuity \in Continuities

\* SimulationSessionV1.validate_session and the bounds of its assumptions.
ValidSession == /\ Started \in Nat /\ Ends \in Nat /\ Started < Ends
                /\ MaxAge \in Nat \ {0} /\ MaxLatency \in Nat \ {0}

\* Intents, frames and the session have passed their own validators.
ASSUME LineageAssumption ==
  /\ {Decided, Eligible, Expires} \subseteq [Intents -> Nat]
  /\ \A i \in Intents : ValidIntent(i)
  /\ Allowlisted \subseteq Intents
  /\ \A f \in Frames : ValidFrame(f)
  /\ NoFrame \notin Frames
  /\ ValidSession
  /\ MaxTime \in Nat /\ MaxDocs \in Nat

VARIABLES routes, reviews, decisions, admissions, trades, commands, receipts

vars == <<routes, reviews, decisions, admissions, trades, commands, receipts>>

Stamps == 0 .. MaxTime

Route == [intent : Intents, routed : Nat, deadline : Nat]
Review == [route : Route, intent : Intents, verdict : {"ALLOW", "VETO", "DEFER"}, reviewed : Nat]
RiskDecision == [intent : Intents, review : Review, frame : Frames \cup {NoFrame},
                 approved : BOOLEAN, decided : Nat]
Admission == [intent : Intents, decision : RiskDecision \cup {NoDecision}, admitted : Nat]
Trade == [admission : Admission, created : Nat]
Command == [trade : Trade, eligible : Nat, submitted : Nat, persisted : Nat, expires : Nat]
Receipt == [command : Command, status : {"FILLED", "PARTIAL", "NO_FILL", "BLOCKED"}, arrival : Nat]

-----------------------------------------------------------------------------
\* CandidateRouteV1.validate_route.
ValidRoute(r) == /\ Decided[r.intent] <= r.routed
                 /\ r.routed <= r.deadline
                 /\ r.deadline <= Expires[r.intent]

\* CandidateReviewV1.validate_review.
ValidReview(v) == /\ v.route.intent = v.intent
                  /\ Decided[v.intent] <= v.reviewed
                  /\ v.route.routed <= v.reviewed
                  /\ v.reviewed <= v.route.deadline

\* Mutant: a frame's age is measured at the recorder only.
UsableFrameUnaged(f, i, now) == /\ f # NoFrame
                                /\ f.continuity = "ADMITTED"
                                /\ f.market = MarketOf[i]
                                /\ f.persisted <= now
                                /\ f.persisted <= f.exchange + MaxLatency

\* The frame an approval rests on: admitted by the recorder, of the intent's
\* market, already persisted, neither stale nor slow.
UsableFrame(f, i, now) == /\ f # NoFrame
                          /\ f.continuity = "ADMITTED"
                          /\ f.market = MarketOf[i]
                          /\ f.persisted <= now
                          /\ now <= f.persisted + MaxAge
                          /\ f.persisted <= f.exchange + MaxLatency

\* Mutant: the review a decision carries is not tied to its intent.
ValidDecisionAnyReview(d) ==
  /\ d.review.reviewed <= d.decided
  /\ Started <= d.decided /\ d.decided <= Ends
  /\ Eligible[d.intent] <= d.decided
  /\ d.approved => /\ d.intent \in Allowlisted
                   /\ d.review.verdict = "ALLOW"
                   /\ d.decided <= Expires[d.intent]
                   /\ UsableFrame(d.frame, d.intent, d.decided)

\* SimulationRiskDecisionV1.validate_decision.  A rejection is audited under
\* the same clocks but needs neither an allowlisted strategy nor a book.
ValidDecision(d) ==
  /\ d.review.intent = d.intent
  /\ d.review.reviewed <= d.decided
  /\ Started <= d.decided /\ d.decided <= Ends
  /\ Eligible[d.intent] <= d.decided
  /\ d.approved => /\ d.intent \in Allowlisted
                   /\ d.review.verdict = "ALLOW"
                   /\ d.decided <= Expires[d.intent]
                   /\ UsableFrame(d.frame, d.intent, d.decided)

\* SimulationAdmissionV1.validate_admission: the intent is admitted without a
\* review and without a book.
ValidAdmissionV1(a) == /\ a.intent \in Allowlisted
                       /\ Started <= a.admitted
                       /\ Decided[a.intent] <= a.admitted

\* SimulationAdmissionV2.validate_admission: everything but the stamp is
\* taken over from the approved decision.
ValidAdmissionV2(a) == /\ a.decision.approved
                       /\ a.intent = a.decision.intent
                       /\ a.decision.decided <= a.admitted

\* A trade takes an admission of either version.
ValidAdmission(a) == /\ a.admitted <= Ends
                     /\ Eligible[a.intent] <= a.admitted
                     /\ a.admitted <= Expires[a.intent]
                     /\ a.decision = NoDecision => ValidAdmissionV1(a)
                     /\ a.decision # NoDecision => ValidAdmissionV2(a)

\* SimulationTradeV1.validate_trade.
ValidTrade(t) == t.admission.admitted <= t.created

\* Mutant: a command may be submitted ahead of its eligibility.
ValidCommandEarly(c) == /\ c.submitted <= c.persisted
                        /\ c.trade.created <= c.eligible
                        /\ c.eligible <= c.expires

\* SimulationCommandV1.validate_command.
ValidCommand(c) == /\ c.submitted <= c.persisted
                   /\ c.trade.created <= c.eligible
                   /\ c.eligible <= c.submitted
                   /\ c.eligible <= c.expires

\* SimulationCommandReceiptV1.validate_receipt: a positive quantity is filled
\* exactly when the status is FILLED or PARTIAL.
Filled(x) == x.status \in {"FILLED", "PARTIAL"}

ValidReceipt(x) == /\ x.command.submitted <= x.arrival
                   /\ Filled(x) => x.arrival <= x.command.expires

-----------------------------------------------------------------------------
Init == /\ routes = {} /\ reviews = {} /\ decisions = {} /\ admissions = {}
        /\ trades = {} /\ commands = {} /\ receipts = {}

Room(documents) == Cardinality(documents) < MaxDocs

PublishRoute(r) == /\ Room(routes) /\ ValidRoute(r)
                   /\ routes' = routes \cup {r}
                   /\ UNCHANGED <<reviews, decisions, admissions, trades, commands, receipts>>

PublishReview(v) == /\ Room(reviews) /\ ValidReview(v)
                    /\ reviews' = reviews \cup {v}
                    /\ UNCHANGED <<routes, decisions, admissions, trades, commands, receipts>>

PublishDecision(d) == /\ Room(decisions) /\ ValidDecision(d)
                      /\ decisions' = decisions \cup {d}
                      /\ UNCHANGED <<routes, reviews, admissions, trades, commands, receipts>>

PublishAdmission(a) == /\ Room(admissions) /\ ValidAdmission(a)
                       /\ admissions' = admissions \cup {a}
                       /\ UNCHANGED <<routes, reviews, decisions, trades, commands, receipts>>

PublishTrade(t) == /\ Room(trades) /\ ValidTrade(t)
                   /\ trades' = trades \cup {t}
                   /\ UNCHANGED <<routes, reviews, decisions, admissions, commands, receipts>>

\* Mutant: a command is rebuilt without running its validator.
PublishCommandUnvalidated(c) ==
  /\ Room(commands)
  /\ commands' = commands \cup {c}
  /\ UNCHANGED <<routes, reviews, decisions, admissions, trades, receipts>>

PublishCommand(c) == /\ Room(commands) /\ ValidCommand(c)
                     /\ commands' = commands \cup {c}
                     /\ UNCHANGED <<routes, reviews, decisions, admissions, trades, receipts>>

PublishReceipt(x) == /\ Room(receipts) /\ ValidReceipt(x)
                     /\ receipts' = receipts \cup {x}
                     /\ UNCHANGED <<routes, reviews, decisions, admissions, trades, commands>>

Next ==
  \/ \E i \in Intents, routed, deadline \in Stamps :
       PublishRoute([intent |-> i, routed |-> routed, deadline |-> deadline])
  \/ \E r \in routes, i \in Intents, verdict \in {"ALLOW", "VETO", "DEFER"}, reviewed \in Stamps :
       PublishReview([route |-> r, intent |-> i, verdict |-> verdict, reviewed |-> reviewed])
  \/ \E v \in reviews, i \in Intents, f \in Frames \cup {NoFrame}, approved \in BOOLEAN,
        decided \in Stamps :
       PublishDecision([intent |-> i, review |-> v, frame |-> f, approved |-> approved,
                        decided |-> decided])
  \/ \E i \in Intents, d \in decisions \cup {NoDecision}, admitted \in Stamps :
       PublishAdmission([intent |-> i, decision |-> d, admitted |-> admitted])
  \/ \E a \in admissions, created \in Stamps :
       PublishTrade([admission |-> a, created |-> created])
  \/ \E t \in trades, eligible, submitted, persisted, expires \in Stamps :
       PublishCommand([trade |-> t, eligible |-> eligible, submitted |-> submitted,
                       persisted |-> persisted, expires |-> expires])
  \/ \E c \in commands, status \in {"FILLED", "PARTIAL", "NO_FILL", "BLOCKED"}, arrival \in Stamps :
       PublishReceipt([command |-> c, status |-> status, arrival |-> arrival])

Spec == Init /\ [][Next]_vars

-----------------------------------------------------------------------------
\* Documents have their contracts' fields, and each was derived from a
\* document that had been published.
TypeOK ==
  /\ routes \subseteq Route
  /\ reviews \subseteq {v \in Review : v.route \in routes}
  /\ decisions \subseteq {d \in RiskDecision : d.review \in reviews}
  /\ admissions \subseteq {a \in Admission : a.decision \in decisions \cup {NoDecision}}
  /\ trades \subseteq {t \in Trade : t.admission \in admissions}
  /\ commands \subseteq {c \in Command : c.trade \in trades}
  /\ receipts \subseteq {x \in Receipt : x.command \in commands}

\* Every published document passed its validator, and still would.
IndInv ==
  /\ TypeOK
  /\ \A r \in routes : ValidRoute(r)
  /\ \A v \in reviews : ValidReview(v)
  /\ \A d \in decisions : ValidDecision(d)
  /\ \A a \in admissions : ValidAdmission(a)
  /\ \A t \in trades : ValidTrade(t)
  /\ \A c \in commands : ValidCommand(c)
  /\ \A x \in receipts : ValidReceipt(x)

DecisionOf(t) == t.admission.decision

Reviewed(t) == DecisionOf(t) # NoDecision

\* A model fill never arrives before anything it rests on, up to seven documents
\* back -- the candidate's entry window opened, it was routed and reviewed, the
\* book was recorded, the trade existed -- although the receipt's validator
\* looks only at its command.
FillFollowsItsEvidence ==
  \A x \in receipts :
    Filled(x) =>
      LET t == x.command.trade
          d == DecisionOf(t)
      IN  /\ Eligible[t.admission.intent] <= x.arrival
          /\ t.created <= x.arrival
          /\ Reviewed(t) => /\ d.review.route.routed <= x.arrival
                            /\ d.review.reviewed <= x.arrival
                            /\ d.frame.persisted <= x.arrival

\* The book a reviewed trade was admitted on is bounded in age at the admission
\* by the candidate's entry window and the session's two frozen bounds: a slow
\* chain of services cannot stretch it further.
AdmittedOnFreshBook ==
  \A t \in trades :
    Reviewed(t) =>
      LET d == DecisionOf(t) IN
        t.admission.admitted + Eligible[d.intent]
          <= d.frame.exchange + MaxLatency + MaxAge + Expires[d.intent]

\* On either path only an allowlisted candidate becomes a trade, admitted in
\* its entry window and in the session; on the reviewed path it was itself
\* routed, reviewed in time with ALLOW, and selected its own market's admitted
\* book: no other candidate's review or book can stand in for it.
ReviewedCandidateOnly ==
  \A t \in trades :
    LET i == t.admission.intent
        d == DecisionOf(t)
    IN  /\ i \in Allowlisted
        /\ Started <= t.admission.admitted /\ t.admission.admitted <= Ends
        /\ Eligible[i] <= t.admission.admitted /\ t.admission.admitted <= Expires[i]
        /\ Reviewed(t) => /\ d.approved /\ d.review.verdict = "ALLOW"
                          /\ {d.intent, d.review.intent, d.review.route.intent} = {i}
                          /\ d.review.reviewed <= Expires[i]
                          /\ d.frame # NoFrame /\ d.frame.market = MarketOf[i]
                          /\ d.frame.continuity = "ADMITTED"
=============================================================================
