---------------------- MODULE SimulationLineageProofs ----------------------
(***************************************************************************)
(* For every set of candidates, frames and stamps: the end-to-end          *)
(* properties of a simulated trade follow from validators that each see    *)
(* one link.  IndInv says that every published document passed its         *)
(* validator and embeds a published document; the theorems walk the links. *)
(***************************************************************************)
EXTENDS SimulationLineage, TLAPS

\* Nothing is published at the start.
LEMMA InitInv == Init => IndInv
  BY DEF Init, IndInv, TypeOK

\* Publishing a document that its validator accepts and that embeds a
\* published one preserves the inductive invariant.
LEMMA StepInv ==
  ASSUME IndInv, [Next]_vars
  PROVE  IndInv'
<1> USE DEF IndInv, TypeOK
<1>1. ASSUME NEW i \in Intents, NEW routed \in Stamps, NEW deadline \in Stamps,
             PublishRoute([intent |-> i, routed |-> routed, deadline |-> deadline])
      PROVE  IndInv'
  <2> DEFINE r == [intent |-> i, routed |-> routed, deadline |-> deadline]
  <2>1. r \in Route
    BY LineageAssumption DEF Route, Stamps
  <2> HIDE DEF r
  <2>2. ValidRoute(r) /\ routes' = routes \cup {r}
    BY <1>1 DEF PublishRoute, r
  <2> QED
    BY <1>1, <2>1, <2>2 DEF PublishRoute
<1>2. ASSUME NEW r \in routes, NEW i \in Intents, NEW verdict \in {"ALLOW", "VETO", "DEFER"},
             NEW reviewed \in Stamps,
             PublishReview([route |-> r, intent |-> i, verdict |-> verdict, reviewed |-> reviewed])
      PROVE  IndInv'
  <2> DEFINE v == [route |-> r, intent |-> i, verdict |-> verdict, reviewed |-> reviewed]
  <2>1. v \in Review /\ v.route \in routes
    BY LineageAssumption DEF Review, Stamps
  <2> HIDE DEF v
  <2>2. ValidReview(v) /\ reviews' = reviews \cup {v}
    BY <1>2 DEF PublishReview, v
  <2> QED
    BY <1>2, <2>1, <2>2 DEF PublishReview
<1>3. ASSUME NEW v \in reviews, NEW i \in Intents, NEW f \in Frames \cup {NoFrame},
             NEW approved \in BOOLEAN, NEW decided \in Stamps,
             PublishDecision([intent |-> i, review |-> v, frame |-> f, approved |-> approved,
                              decided |-> decided])
      PROVE  IndInv'
  <2> DEFINE d == [intent |-> i, review |-> v, frame |-> f, approved |-> approved,
                   decided |-> decided]
  <2>1. d \in RiskDecision /\ d.review \in reviews
    BY LineageAssumption DEF RiskDecision, Stamps
  <2> HIDE DEF d
  <2>2. ValidDecision(d) /\ decisions' = decisions \cup {d}
    BY <1>3 DEF PublishDecision, d
  <2> QED
    BY <1>3, <2>1, <2>2 DEF PublishDecision
<1>4. ASSUME NEW i \in Intents, NEW d \in decisions \cup {NoDecision}, NEW admitted \in Stamps,
             PublishAdmission([intent |-> i, decision |-> d, admitted |-> admitted])
      PROVE  IndInv'
  <2> DEFINE a == [intent |-> i, decision |-> d, admitted |-> admitted]
  <2>1. a \in Admission /\ a.decision \in decisions \cup {NoDecision}
    BY LineageAssumption DEF Admission, Stamps
  <2> HIDE DEF a
  <2>2. ValidAdmission(a) /\ admissions' = admissions \cup {a}
    BY <1>4 DEF PublishAdmission, a
  <2> QED
    BY <1>4, <2>1, <2>2 DEF PublishAdmission
<1>5. ASSUME NEW a \in admissions, NEW created \in Stamps,
             PublishTrade([admission |-> a, created |-> created])
      PROVE  IndInv'
  <2> DEFINE t == [admission |-> a, created |-> created]
  <2>1. t \in Trade /\ t.admission \in admissions
    BY LineageAssumption DEF Trade, Stamps
  <2> HIDE DEF t
  <2>2. ValidTrade(t) /\ trades' = trades \cup {t}
    BY <1>5 DEF PublishTrade, t
  <2> QED
    BY <1>5, <2>1, <2>2 DEF PublishTrade
<1>6. ASSUME NEW t \in trades, NEW eligible \in Stamps, NEW submitted \in Stamps,
             NEW persisted \in Stamps, NEW expires \in Stamps,
             PublishCommand([trade |-> t, eligible |-> eligible, submitted |-> submitted,
                             persisted |-> persisted, expires |-> expires])
      PROVE  IndInv'
  <2> DEFINE c == [trade |-> t, eligible |-> eligible, submitted |-> submitted,
                   persisted |-> persisted, expires |-> expires]
  <2>1. c \in Command /\ c.trade \in trades
    BY LineageAssumption DEF Command, Stamps
  <2> HIDE DEF c
  <2>2. ValidCommand(c) /\ commands' = commands \cup {c}
    BY <1>6 DEF PublishCommand, c
  <2> QED
    BY <1>6, <2>1, <2>2 DEF PublishCommand
<1>7. ASSUME NEW c \in commands, NEW status \in {"FILLED", "PARTIAL", "NO_FILL", "BLOCKED"},
             NEW arrival \in Stamps,
             PublishReceipt([command |-> c, status |-> status, arrival |-> arrival])
      PROVE  IndInv'
  <2> DEFINE x == [command |-> c, status |-> status, arrival |-> arrival]
  <2>1. x \in Receipt /\ x.command \in commands
    BY LineageAssumption DEF Receipt, Stamps
  <2> HIDE DEF x
  <2>2. ValidReceipt(x) /\ receipts' = receipts \cup {x}
    BY <1>7 DEF PublishReceipt, x
  <2> QED
    BY <1>7, <2>1, <2>2 DEF PublishReceipt
<1>8. CASE UNCHANGED vars
  BY <1>8 DEF vars
<1> QED
  BY <1>1, <1>2, <1>3, <1>4, <1>5, <1>6, <1>7, <1>8 DEF Next

\* Every published document passed its validator and embeds published ones.
THEOREM Invariance == Spec => []IndInv
  BY InitInv, StepInv, PTL DEF Spec

\* Documents have their contracts' fields and published ancestors.
THEOREM TypeCorrect == Spec => []TypeOK
<1>1. IndInv => TypeOK
  BY DEF IndInv
<1> QED
  BY Invariance, <1>1, PTL

-----------------------------------------------------------------------------
\* What every trade carries, whichever admission it took.
LEMMA BehindTrade ==
  ASSUME IndInv, NEW t \in trades
  PROVE  /\ t.admission \in admissions
         /\ ValidTrade(t) /\ ValidAdmission(t.admission)
         /\ t.created \in Nat /\ t.admission.admitted \in Nat /\ t.admission.intent \in Intents
         /\ Eligible[t.admission.intent] \in Nat /\ Expires[t.admission.intent] \in Nat
<1>1. t \in Trade /\ t.admission \in admissions /\ ValidTrade(t)
  BY DEF IndInv, TypeOK
<1>2. t.admission \in Admission /\ ValidAdmission(t.admission)
  BY <1>1 DEF IndInv, TypeOK
<1>3. t.created \in Nat
  BY <1>1 DEF Trade
<1>4. t.admission.admitted \in Nat /\ t.admission.intent \in Intents
  BY <1>2 DEF Admission
<1>5. Eligible[t.admission.intent] \in Nat /\ Expires[t.admission.intent] \in Nat
  BY <1>4, LineageAssumption
<1> QED
  BY <1>1, <1>2, <1>3, <1>4, <1>5

\* The links behind a reviewed trade, with what their validators established.
LEMMA BehindReviewedTrade ==
  ASSUME IndInv, NEW t \in trades, Reviewed(t)
  PROVE  LET d == DecisionOf(t) IN
           /\ d \in RiskDecision /\ d.review \in Review /\ d.review.route \in Route
           /\ ValidAdmissionV2(t.admission) /\ ValidDecision(d)
           /\ ValidReview(d.review) /\ ValidRoute(d.review.route)
<1> DEFINE d == DecisionOf(t)
<1>1. /\ t.admission \in admissions /\ ValidAdmission(t.admission)
      /\ t.admission.decision # NoDecision
  BY BehindTrade DEF Reviewed, DecisionOf
<1>2. d \in decisions /\ ValidAdmissionV2(t.admission)
  BY <1>1 DEF IndInv, TypeOK, ValidAdmission, DecisionOf
<1> HIDE DEF d
<1>3. d \in RiskDecision /\ ValidDecision(d) /\ d.review \in reviews
  BY <1>2 DEF IndInv, TypeOK
<1>4. d.review \in Review /\ ValidReview(d.review) /\ d.review.route \in routes
  BY <1>3 DEF IndInv, TypeOK
<1>5. d.review.route \in Route /\ ValidRoute(d.review.route)
  BY <1>4 DEF IndInv, TypeOK
<1> QED
  BY <1>2, <1>3, <1>4, <1>5 DEF d

\* The decision behind a reviewed trade is the approval of its own intent, and
\* its stamps are numbers.
LEMMA DecisionBehindTrade ==
  ASSUME IndInv, NEW t \in trades, Reviewed(t)
  PROVE  LET d == DecisionOf(t) IN
           /\ d.approved /\ d.intent = t.admission.intent
           /\ d.decided <= t.admission.admitted
           /\ UsableFrame(d.frame, d.intent, d.decided)
           /\ d.decided \in Nat /\ d.review.reviewed \in Nat
           /\ d.review.route.routed \in Nat /\ d.review.route.deadline \in Nat
           /\ d.frame.exchange \in Nat /\ d.frame.persisted \in Nat
<1> DEFINE d == DecisionOf(t)
<1>1. /\ d \in RiskDecision /\ d.review \in Review /\ d.review.route \in Route
      /\ ValidAdmissionV2(t.admission) /\ ValidDecision(d)
  BY BehindReviewedTrade
<1>2. d.approved /\ d.intent = t.admission.intent /\ d.decided <= t.admission.admitted
  BY <1>1 DEF ValidAdmissionV2, DecisionOf
<1> HIDE DEF d
<1>3. UsableFrame(d.frame, d.intent, d.decided)
  BY <1>1, <1>2 DEF ValidDecision
<1>4. d.decided \in Nat /\ d.frame \in Frames
  BY <1>1, <1>3 DEF RiskDecision, UsableFrame
<1>5. d.review.reviewed \in Nat /\ d.review.route.routed \in Nat /\ d.review.route.deadline \in Nat
  BY <1>1 DEF Review, Route
<1>6. d.frame.exchange \in Nat /\ d.frame.persisted \in Nat
  BY <1>4, LineageAssumption DEF ValidFrame
<1> QED
  BY <1>2, <1>3, <1>4, <1>5, <1>6 DEF d

\* Only an allowlisted candidate is traded, in its window, and on the reviewed
\* path only on its own review and its own market's admitted book.
THEOREM OnlyReviewedCandidates == Spec => []ReviewedCandidateOnly
<1>1. ASSUME IndInv, NEW t \in trades, Reviewed(t)
      PROVE  LET i == t.admission.intent
                 d == DecisionOf(t)
             IN  /\ i \in Allowlisted /\ Started <= t.admission.admitted
                 /\ d.approved /\ d.review.verdict = "ALLOW"
                 /\ d.intent = i /\ d.review.intent = i /\ d.review.route.intent = i
                 /\ d.review.reviewed <= Expires[i]
                 /\ d.frame # NoFrame /\ d.frame.market = MarketOf[i]
                 /\ d.frame.continuity = "ADMITTED"
  <2> DEFINE i == t.admission.intent
             d == DecisionOf(t)
  <2>1. t.admission.admitted \in Nat /\ Expires[i] \in Nat
    BY <1>1, BehindTrade
  <2>2. ValidDecision(d) /\ ValidReview(d.review) /\ ValidRoute(d.review.route)
    BY <1>1, BehindReviewedTrade
  <2>3. /\ d.approved /\ d.intent = i /\ d.decided <= t.admission.admitted
        /\ UsableFrame(d.frame, i, d.decided)
        /\ d.decided \in Nat /\ d.review.reviewed \in Nat /\ d.review.route.deadline \in Nat
    BY <1>1, DecisionBehindTrade
  <2> HIDE DEF i, d
  <2>4. i \in Allowlisted /\ d.review.verdict = "ALLOW" /\ d.review.intent = i /\ Started <= d.decided
    BY <2>2, <2>3 DEF ValidDecision
  <2>5. d.review.route.intent = i
    BY <2>2, <2>4 DEF ValidReview
  <2>6. d.review.reviewed <= d.review.route.deadline /\ d.review.route.deadline <= Expires[i]
    BY <2>2, <2>5 DEF ValidReview, ValidRoute
  <2>7. d.review.reviewed <= Expires[i]
    BY <2>1, <2>3, <2>6
  <2>8. Started <= t.admission.admitted
    BY <2>1, <2>3, <2>4, LineageAssumption DEF ValidSession
  <2>9. d.frame # NoFrame /\ d.frame.market = MarketOf[i] /\ d.frame.continuity = "ADMITTED"
    BY <2>3 DEF UsableFrame
  <2> QED
    BY <2>3, <2>4, <2>5, <2>7, <2>8, <2>9 DEF i, d
<1>2. ASSUME IndInv, NEW t \in trades, ~Reviewed(t)
      PROVE  t.admission.intent \in Allowlisted /\ Started <= t.admission.admitted
  BY <1>2, BehindTrade DEF ValidAdmission, ValidAdmissionV1, Reviewed, DecisionOf
<1>3. ASSUME IndInv, NEW t \in trades
      PROVE  /\ t.admission.admitted <= Ends
             /\ Eligible[t.admission.intent] <= t.admission.admitted
             /\ t.admission.admitted <= Expires[t.admission.intent]
  BY <1>3, BehindTrade DEF ValidAdmission
<1>4. IndInv => ReviewedCandidateOnly
  BY <1>1, <1>2, <1>3 DEF ReviewedCandidateOnly
<1> QED
  BY Invariance, <1>4, PTL

\* The age of the book behind an admission is bounded by frozen quantities.
THEOREM BooksAreFresh == Spec => []AdmittedOnFreshBook
<1>1. ASSUME IndInv PROVE AdmittedOnFreshBook
  <2> SUFFICES ASSUME NEW t \in trades, Reviewed(t)
               PROVE  LET d == DecisionOf(t) IN
                        t.admission.admitted + Eligible[d.intent]
                          <= d.frame.exchange + MaxLatency + MaxAge + Expires[d.intent]
    BY DEF AdmittedOnFreshBook
  <2> DEFINE a == t.admission.admitted
             d == DecisionOf(t)
             i == t.admission.intent
  <2>1. a \in Nat /\ Eligible[i] \in Nat /\ Expires[i] \in Nat
    BY <1>1, BehindTrade
  <2>2. a <= Expires[i]
    BY <1>1, BehindTrade DEF ValidAdmission
  <2>3. /\ d.intent = i /\ UsableFrame(d.frame, d.intent, d.decided)
        /\ d.decided \in Nat /\ d.frame.exchange \in Nat /\ d.frame.persisted \in Nat
    BY <1>1, DecisionBehindTrade
  <2>4. ValidDecision(d)
    BY <1>1, BehindReviewedTrade
  <2> HIDE DEF a, d, i
  <2>5. Eligible[i] <= d.decided
    BY <2>3, <2>4 DEF ValidDecision
  <2>6. d.decided <= d.frame.persisted + MaxAge /\ d.frame.persisted <= d.frame.exchange + MaxLatency
    BY <2>3 DEF UsableFrame
  <2>7. MaxAge \in Nat /\ MaxLatency \in Nat
    BY LineageAssumption DEF ValidSession
  <2>8. a + Eligible[i] <= d.frame.exchange + MaxLatency + MaxAge + Expires[i]
    BY <2>1, <2>2, <2>3, <2>5, <2>6, <2>7
  <2> QED
    BY <2>3, <2>8 DEF a, d
<1> QED
  BY Invariance, <1>1, PTL

\* A fill arrives after everything it rests on, seven documents back.
THEOREM FillsFollowTheirEvidence == Spec => []FillFollowsItsEvidence
<1>1. ASSUME IndInv, NEW x \in receipts, Filled(x)
      PROVE  /\ x.command.trade \in trades
             /\ x.arrival \in Nat
             /\ x.command.trade.created <= x.arrival
             /\ x.command.trade.admission.admitted <= x.arrival
  <2> DEFINE c == x.command
             t == x.command.trade
  <2>1. x \in Receipt /\ c \in commands /\ ValidReceipt(x)
    BY <1>1 DEF IndInv, TypeOK
  <2>2. c \in Command /\ t \in trades /\ ValidCommand(c)
    BY <1>1, <2>1 DEF IndInv, TypeOK
  <2>3. x.arrival \in Nat /\ c.submitted \in Nat /\ c.eligible \in Nat /\ c.expires \in Nat
    BY <2>1, <2>2 DEF Receipt, Command
  <2>4. t.created \in Nat /\ t.admission.admitted \in Nat /\ t.admission.admitted <= t.created
    BY <1>1, <2>2, BehindTrade DEF ValidTrade
  <2>5. c.submitted <= x.arrival
    BY <2>1 DEF ValidReceipt
  <2>6. t.created <= c.eligible /\ c.eligible <= c.submitted
    BY <2>2 DEF ValidCommand
  <2>7. t \in trades
    BY <2>2
  <2> HIDE DEF c, t
  <2>8. t.created <= x.arrival /\ t.admission.admitted <= x.arrival
    BY <2>3, <2>4, <2>5, <2>6
  <2> QED
    BY <2>3, <2>7, <2>8 DEF c, t
<1>2. ASSUME IndInv, NEW x \in receipts, Filled(x)
      PROVE  Eligible[x.command.trade.admission.intent] <= x.arrival
  <2> DEFINE a == x.command.trade.admission
  <2>1. /\ a.admitted \in Nat /\ Eligible[a.intent] \in Nat /\ Eligible[a.intent] <= a.admitted
    BY <1>1, <1>2, BehindTrade DEF ValidAdmission
  <2>2. x.arrival \in Nat /\ a.admitted <= x.arrival
    BY <1>1, <1>2
  <2> HIDE DEF a
  <2>3. Eligible[a.intent] <= x.arrival
    BY <2>1, <2>2
  <2> QED
    BY <2>3 DEF a
<1>3. ASSUME IndInv, NEW x \in receipts, Filled(x), Reviewed(x.command.trade)
      PROVE  LET d == DecisionOf(x.command.trade) IN
               /\ d.review.route.routed <= x.arrival /\ d.review.reviewed <= x.arrival
               /\ d.frame.persisted <= x.arrival
  <2> DEFINE a == x.command.trade.admission
             d == DecisionOf(x.command.trade)
  <2>1. x.command.trade \in trades /\ x.arrival \in Nat /\ a.admitted <= x.arrival
    BY <1>1, <1>3
  <2>2. a.admitted \in Nat
    BY <1>3, <2>1, BehindTrade
  <2>3. /\ d.decided <= a.admitted /\ UsableFrame(d.frame, d.intent, d.decided)
        /\ d.decided \in Nat /\ d.review.reviewed \in Nat
        /\ d.review.route.routed \in Nat /\ d.frame.persisted \in Nat
    BY <1>3, <2>1, DecisionBehindTrade
  <2>4. ValidDecision(d) /\ ValidReview(d.review)
    BY <1>3, <2>1, BehindReviewedTrade
  <2> HIDE DEF a, d
  <2>5. d.review.reviewed <= d.decided
    BY <2>4 DEF ValidDecision
  <2>6. d.review.route.routed <= d.review.reviewed
    BY <2>4 DEF ValidReview
  <2>7. d.frame.persisted <= d.decided
    BY <2>3 DEF UsableFrame
  <2>8. /\ d.review.route.routed <= x.arrival /\ d.review.reviewed <= x.arrival
        /\ d.frame.persisted <= x.arrival
    BY <2>1, <2>2, <2>3, <2>5, <2>6, <2>7
  <2> QED
    BY <2>8 DEF d
<1>4. IndInv => FillFollowsItsEvidence
  BY <1>1, <1>2, <1>3 DEF FillFollowsItsEvidence
<1> QED
  BY Invariance, <1>4, PTL
=============================================================================
