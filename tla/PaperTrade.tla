----------------------------- MODULE PaperTrade -----------------------------
(***************************************************************************)
(* The PAPER route from the risk decision to the account:                  *)
(*   VenueQualityV1 -> RiskTradeDecisionV1           (contracts/strategy.py)*)
(*   -> orders -> PositionSnapshotV2, OpenOrderSnapshotV2 in               *)
(*      AccountSnapshotV2                               (contracts/paper.py)*)
(*                                                                         *)
(* Risk decides on reviewed candidates, again if it lost its answer, each  *)
(* time on a new measurement.  Execution journals the entry of a trade     *)
(* before it sends it, and sends it again after a timeout or a crash; it   *)
(* then places exits, of any quantity and at any moment the contracts let  *)
(* it report.  The venue fills open orders lot by lot in any order, knows  *)
(* a client order id again, and honours reduce-only.  Execution and venue  *)
(* are external; what they may hold is what the contracts can express.     *)
(* A document's economics are compared by its validator with what they are *)
(* computed from, so a decision here carries only the latter; the float    *)
(* tolerances are zero.  A hash stands for the value hashed.               *)
(***************************************************************************)
EXTENDS Integers, FiniteSets

CONSTANTS
  Intents,       \* StrategyIntentV1: version, side, expires, stop, target
  Reviews,       \* CandidateReviewV1 (SimulationLineage models how they come about)
  Measurements,  \* VenueQualityV1 candidates
  Environments,  \* trading_mode, evedex_profile, venue_symbol
  DevSymbols,    \* the venue symbols that end in ":DEV"
  None,          \* no trade on a symbol
  Quantities,    \* bound: lots a decision may ask for
  Budgets,       \* bound: loss budgets, in USD
  MaxTime,       \* bound: decision clocks
  MaxDecisions   \* bound: decisions published

Modes == {"DRY_RUN", "PAPER", "LIVE"}
Profiles == {"DEV", "DEMO", "PROD"}
Exits == {"STOP_LOSS", "TAKE_PROFIT", "TIMEOUT_EXIT", "EMERGENCY_EXIT"}
Roles == {"ENTRY"} \cup Exits

Exiting == {"EXITING_STOP", "EXITING_TARGET", "EXITING_TIMEOUT", "EXITING_EMERGENCY"}
PositionStates == {"PROTECTING", "ACTIVE", "FAILED_BLOCKED"} \cup Exiting

VARIABLES
  decisions,  \* the RiskTradeDecisionV1 documents
  holder,     \* per symbol: the decision whose trade execution last journalled
  state,      \* per symbol: the lifecycle state of that trade
  known,      \* client order ids the venue has seen
  orders,     \* open orders
  position,   \* per symbol: the signed quantity held
  spent,      \* per symbol: what the trade has cost so far, in 1/Scale USD
  entered     \* history: per candidate and environment, lots entered

vars == <<decisions, holder, state, known, orders, position, spent, entered>>

Symbols == {e.symbol : e \in Environments}
Stamps == 0 .. MaxTime
Scale == 20000  \* 2 * 10_000: basis points of a mid price stay whole

Versions == {"strategy-intent.v1", "strategy-intent.observed-sim.v2"}

Decision == [intent : Intents, review : Reviews, quality : Measurements, environment : Environments,
             approved : BOOLEAN, decided : Stamps, quantity : Quantities, budget : Budgets]

ClientIds == [trade : [intent : Intents, environment : Environments], role : Roles]
Order == [client : ClientIds, symbol : Symbols, role : Roles, side : {"LONG", "SHORT"},
          left : Nat \ {0}, reduceOnly : BOOLEAN]

\* Prices are in ticks, fees and slippage in basis points.  No contract bounds
\* the fee; above 100% a trade would lose by closing at its target.
ASSUME PaperAssumption ==
  /\ \A i \in Intents : /\ i.version \in Versions /\ i.side \in {"LONG", "SHORT"}
                         /\ i.stop \in Nat /\ i.target \in Nat
  /\ \A q \in Measurements : /\ q.bid \in Nat /\ q.ask \in Nat
                              /\ q.assessed \in Nat /\ q.depth \in Nat
                              /\ q.buySlippage \in Nat /\ q.sellSlippage \in Nat
                              /\ q.fee \in Nat /\ 2 * q.fee <= Scale
  /\ Quantities \subseteq Nat /\ Budgets \subseteq Nat
  /\ MaxTime \in Nat /\ MaxDecisions \in Nat
  /\ None \notin Decision

-----------------------------------------------------------------------------
\* VenueQualityV1.validate_measurement.
ValidQuality(q) ==
  /\ q.observed <= q.expires
  /\ q.bid < q.ask
  /\ q.allowed => q.assessed <= q.depth

Long(d) == d.intent.side = "LONG"

\* Mutant: the wrong side of the book.
WorstEntrySwapped(d) == IF Long(d) THEN d.quality.bid ELSE d.quality.ask

\* RiskTradeDecisionV1: the executable top of book.
WorstEntry(d) == IF Long(d) THEN d.quality.ask ELSE d.quality.bid

Distance(x, y) == IF x < y THEN y - x ELSE x - y

Fee(d, price) == 2 * price * d.quality.fee

\* The slippage measured on the side of the entry, for all lots.
Slippage(d) ==
  d.quantity * (d.quality.bid + d.quality.ask)
    * (IF Long(d) THEN d.quality.buySlippage ELSE d.quality.sellSlippage)

\* One lot from the worst entry to the stop, fees of both legs included.
LotLoss(d) ==
  Distance(WorstEntry(d), d.intent.stop) * Scale + Fee(d, WorstEntry(d)) + Fee(d, d.intent.stop)

WorstLoss(d) == d.quantity * LotLoss(d) + Slippage(d)

\* LONG: stop < worst entry < target; SHORT: the other way round.
Between(d) ==
  IF Long(d) THEN d.intent.stop < WorstEntry(d) /\ WorstEntry(d) < d.intent.target
  ELSE d.intent.target < WorstEntry(d) /\ WorstEntry(d) < d.intent.stop

\* _validate_environment, and the same rules in RiskTradeDecisionV1.
ValidEnvironment(e) ==
  /\ e.mode = "PAPER" => e.profile = "DEV" /\ e.symbol \in DevSymbols
  /\ e.mode = "LIVE" => e.profile = "PROD"

\* What only an approval needs.
Approvable(d) ==
  /\ d.intent.version # "strategy-intent.observed-sim.v2"
  /\ d.decided <= d.quality.expires /\ d.decided <= d.intent.expires
  /\ d.review.verdict = "ALLOW" /\ d.quality.allowed
  /\ d.quantity > 0 /\ d.budget > 0
  /\ d.quantity * WorstEntry(d) <= d.quality.assessed
  /\ Between(d)

\* RiskTradeDecisionV1.validate_decision.
ValidDecision(d) ==
  /\ d.review.intent = d.intent
  /\ d.quality.profile = d.environment.profile
  /\ d.quality.symbol = d.environment.symbol
  /\ d.review.reviewed <= d.decided
  /\ ValidEnvironment(d.environment)
  /\ d.approved => Approvable(d)
  /\ WorstLoss(d) <= d.budget * Scale

TradeIdOfDecision(d) == d  \* mutant: every decision is a trade of its own

\* The trade a decision is about: the candidate in its environment, whatever
\* the decision's clock, size and measurement (one account here).
TradeId(d) == [intent |-> d.intent, environment |-> d.environment]

ClientId(d, role) == [trade |-> TradeId(d), role |-> role]

\* Mutant: any order may open exposure.
ValidOrderAnyReduce(o) == o.left > 0

\* OpenOrderSnapshotV2.validate_order: open, and reduce-only unless an entry.
ValidOrder(o) == o.left > 0 /\ (o.role # "ENTRY" => o.reduceOnly)

\* PositionSnapshotV2.validate_position.
ValidPosition(p) ==
  /\ p.quantity # 0
  /\ p.side = "LONG" => p.quantity > 0
  /\ p.side = "SHORT" => p.quantity < 0
  /\ p.state \in PositionStates
  /\ p.state \in {"ACTIVE"} \cup Exiting => p.hasStop

\* AccountSnapshotV2.validate_snapshot, on listings.
ValidSnapshot(positions, open) ==
  /\ \A p \in positions : ValidPosition(p)
  /\ \A p, q \in positions : p # q => p.symbol # q.symbol /\ p.trade # q.trade
  /\ \A o \in open : ValidOrder(o)
  /\ \A o, u \in open : o # u => o.client # u.client

-----------------------------------------------------------------------------
Init ==
  /\ decisions = {}
  /\ holder = [s \in Symbols |-> None]
  /\ state = [s \in Symbols |-> "RECEIVED"]
  /\ known = {} /\ orders = {}
  /\ position = [s \in Symbols |-> 0]
  /\ spent = [s \in Symbols |-> 0]
  /\ entered = [t \in Intents \X Environments |-> 0]

\* Mutant: a decision is rebuilt without running its validator.
DecideUnvalidated(d) ==
  /\ ValidQuality(d.quality)
  /\ decisions' = decisions \cup {d}
  /\ UNCHANGED <<holder, state, known, orders, position, spent, entered>>

\* Risk publishes a decision; it keeps nothing of earlier ones.
Decide(d) ==
  /\ ValidQuality(d.quality) /\ ValidDecision(d)
  /\ decisions' = decisions \cup {d}
  /\ UNCHANGED <<holder, state, known, orders, position, spent, entered>>

On(s) == {o \in orders : o.symbol = s}

\* Nothing is held, pending or about to be sent on the symbol.
Free(s) ==
  /\ position[s] = 0 /\ On(s) = {}
  /\ holder[s] # None => ClientId(holder[s], "ENTRY") \in known

\* Execution takes an approved decision, unless it is of a trade it has
\* entered before, and journals the effect (EFFECT_PREPARED).
Prepare(d) ==
  LET s == d.environment.symbol IN
    /\ d.approved /\ Free(s)
    /\ ClientId(d, "ENTRY") \notin known
    /\ holder' = [holder EXCEPT ![s] = d]
    /\ state' = [state EXCEPT ![s] = "ENTRY_PENDING"]
    /\ spent' = [spent EXCEPT ![s] = 0]
    /\ UNCHANGED <<decisions, known, orders, position, entered>>

\* An order reaches the venue, which takes a client order id once.
Open(o) ==
  /\ o.client \notin known
  /\ ValidOrder(o)
  /\ known' = known \cup {o.client}
  /\ orders' = orders \cup {o}

Opposite(side) == IF side = "LONG" THEN "SHORT" ELSE "LONG"

EntryOrder(s) ==
  [client |-> ClientId(holder[s], "ENTRY"), symbol |-> s, role |-> "ENTRY",
   side |-> holder[s].intent.side, left |-> holder[s].quantity, reduceOnly |-> FALSE]

ExitOrder(s, role, quantity, reduceOnly) ==
  [client |-> ClientId(holder[s], role), symbol |-> s, role |-> role,
   side |-> Opposite(holder[s].intent.side), left |-> quantity, reduceOnly |-> reduceOnly]

\* The journalled entry is sent, perhaps again.
SendEntry(s) ==
  /\ holder[s] # None
  /\ Open(EntryOrder(s))
  /\ UNCHANGED <<decisions, holder, state, position, spent, entered>>

\* A stop makes the position ACTIVE; an emergency without a stop can only be
\* reported as FAILED_BLOCKED.
StateOnceOpen(s, role) ==
  CASE role = "STOP_LOSS" /\ state[s] = "PROTECTING" -> "ACTIVE"
    [] role = "TIMEOUT_EXIT" /\ state[s] = "ACTIVE" -> "EXITING_TIMEOUT"
    [] role = "EMERGENCY_EXIT" /\ ClientId(holder[s], "STOP_LOSS") \in known -> "EXITING_EMERGENCY"
    [] role = "EMERGENCY_EXIT" /\ ClientId(holder[s], "STOP_LOSS") \notin known -> "FAILED_BLOCKED"
    [] OTHER -> state[s]

\* Execution places an exit of whatever quantity.
SendExit(s, role, quantity, reduceOnly) ==
  /\ position[s] # 0
  /\ role = "TIMEOUT_EXIT" => state[s] = "ACTIVE"
  /\ Open(ExitOrder(s, role, quantity, reduceOnly))
  /\ state' = [state EXCEPT ![s] = StateOnceOpen(s, role)]
  /\ UNCHANGED <<decisions, holder, position, spent, entered>>

\* An order that is left over, or an entry, is cancelled.
Cancel(o) ==
  /\ o.role = "ENTRY" \/ position[o.symbol] = 0
  /\ orders' = orders \ {o}
  /\ UNCHANGED <<decisions, holder, state, known, position, spent, entered>>

\* Prices an order fills at: an entry at the measured book or better, a stop
\* and a target at the plan, other exits between the two.
PricesOf(o, d) ==
  CASE o.role = "ENTRY" /\ Long(d) -> d.intent.stop + 1 .. d.quality.ask
    [] o.role = "ENTRY" /\ ~Long(d) -> d.quality.bid .. d.intent.stop - 1
    [] o.role = "STOP_LOSS" -> {d.intent.stop}
    [] o.role = "TAKE_PROFIT" -> {d.intent.target}
    [] OTHER -> {d.intent.stop, d.intent.target}

StateOnceFilled(o) ==
  CASE o.role = "ENTRY" /\ state[o.symbol] = "ENTRY_PENDING" -> "PROTECTING"
    [] o.role = "STOP_LOSS" -> "EXITING_STOP"
    [] o.role = "TAKE_PROFIT" /\ ClientId(holder[o.symbol], "STOP_LOSS") \in known -> "EXITING_TARGET"
    [] OTHER -> state[o.symbol]

Signed(side) == IF side = "LONG" THEN 1 ELSE -1

\* The venue fills one lot; reduce-only ones against an opposite position only.
Fill(o, price) ==
  LET s == o.symbol
      d == holder[s]
      lot == Signed(o.side)
  IN  /\ o.reduceOnly => position[s] * lot < 0
      /\ orders' = (orders \ {o}) \cup (IF o.left > 1 THEN {[o EXCEPT !.left = @ - 1]} ELSE {})
      /\ position' = [position EXCEPT ![s] = @ + lot]
      /\ spent' = [spent EXCEPT ![s] = @ + lot * price * Scale + Fee(d, price)]
      /\ state' = [state EXCEPT ![s] = StateOnceFilled(o)]
      /\ entered' = IF o.role # "ENTRY" THEN entered
                    ELSE [entered EXCEPT ![<<d.intent, d.environment>>] = @ + 1]
      /\ UNCHANGED <<decisions, holder, known>>

Next ==
  \/ /\ Cardinality(decisions) < MaxDecisions
     /\ \E i \in Intents, v \in Reviews, q \in Measurements, e \in Environments,
           approved \in BOOLEAN, decided \in Stamps, quantity \in Quantities, budget \in Budgets :
          Decide([intent |-> i, review |-> v, quality |-> q, environment |-> e,
                  approved |-> approved, decided |-> decided, quantity |-> quantity,
                  budget |-> budget])
  \/ \E d \in decisions : Prepare(d)
  \/ \E s \in Symbols : SendEntry(s)
  \/ \E s \in Symbols, role \in Exits, quantity \in Quantities \ {0}, reduceOnly \in BOOLEAN :
       SendExit(s, role, quantity, reduceOnly)
  \/ \E o \in orders : Cancel(o)
  \/ \E o \in orders : \E price \in PricesOf(o, holder[o.symbol]) : Fill(o, price)

Spec == Init /\ [][Next]_vars

-----------------------------------------------------------------------------
\* What AccountSnapshotV2 would list: a position with its trade and its stop.
Positions ==
  {[symbol |-> s, trade |-> TradeId(holder[s]), side |-> holder[s].intent.side,
    quantity |-> position[s], state |-> state[s],
    hasStop |-> ClientId(holder[s], "STOP_LOSS") \in known] :
     s \in {x \in Symbols : position[x] # 0}}

\* Decisions have passed their validator, an order is of the trade its symbol
\* is held for, and there is no exposure without one.
TypeOK ==
  /\ decisions \subseteq {d \in Decision : ValidQuality(d.quality) /\ ValidDecision(d)}
  /\ holder \in [Symbols -> {d \in decisions : d.approved} \cup {None}]
  /\ state \in [Symbols -> {"RECEIVED", "ENTRY_PENDING"} \cup PositionStates]
  /\ orders \subseteq Order
  /\ \A o \in orders : /\ holder[o.symbol] # None
                       /\ o.client = ClientId(holder[o.symbol], o.role) /\ o.client \in known
  /\ position \in [Symbols -> Int] /\ spent \in [Symbols -> Int]
  /\ \A s \in Symbols : holder[s] = None => position[s] = 0
  /\ entered \in [Intents \X Environments -> Nat]

\* What has been entered for the trade of a decision.
EnteredFor(d) == entered[<<d.intent, d.environment>>]

\* An entry is open once, and what is left of it is what may still be entered;
\* nothing is entered for a trade whose entry the venue has not seen.
EntryOnce ==
  /\ \A s \in Symbols : holder[s] # None =>
       /\ holder[s].environment.symbol = s
       /\ EnteredFor(holder[s]) <= holder[s].quantity
  /\ \A o, u \in orders : o.client = u.client => o = u
  /\ \A o \in orders : o.role = "ENTRY" =>
       EnteredFor(holder[o.symbol]) + o.left <= holder[o.symbol].quantity
  /\ \A d \in decisions : EnteredFor(d) > 0 => ClientId(d, "ENTRY") \in known

\* An exit is opposite to its position and reduces it, so a position never
\* leaves the side of its candidate.
OneSided ==
  /\ \A o \in orders :
       LET side == holder[o.symbol].intent.side IN
         /\ o.side = IF o.role = "ENTRY" THEN side ELSE Opposite(side)
         /\ ValidOrder(o)
  /\ \A s \in Symbols : holder[s] # None =>
       position[s] * Signed(holder[s].intent.side) >= 0

\* The lifecycle state is one that the position and the stop allow.
StateIsTrue ==
  \A s \in Symbols : holder[s] # None =>
    /\ state[s] # "RECEIVED"
    /\ position[s] # 0 => state[s] \in PositionStates
    /\ state[s] \in {"ACTIVE"} \cup Exiting => ClientId(holder[s], "STOP_LOSS") \in known

\* Every trade that was entered has an approval of at least that size.
Approved ==
  \A i \in Intents, e \in Environments :
    entered[<<i, e>>] > 0 =>
      \E d \in decisions : /\ d.intent = i /\ d.environment = e /\ d.approved
                           /\ entered[<<i, e>>] <= d.quantity

\* What the trade loses if what it still holds is closed at the stop.
LossIfStopped(s) ==
  LET d == holder[s]
      held == position[s]
  IN  spent[s] - held * d.intent.stop * Scale + Distance(held, 0) * Fee(d, d.intent.stop)

\* Each lot entered has lost at most what was estimated for one.
LossPerLot ==
  \A s \in Symbols :
    holder[s] # None => LossIfStopped(s) <= EnteredFor(holder[s]) * LotLoss(holder[s])

IndInv == TypeOK /\ EntryOnce /\ OneSided /\ StateIsTrue /\ Approved /\ LossPerLot

\* paper.py:191-223, 309-320: whatever quantities exits were placed with and in
\* whatever order the venue fills them -- a stop and a target racing, a late
\* entry after the stop -- the account stays one that a snapshot can state: no
\* position turns against its candidate's side, none is ACTIVE or EXITING
\* without ever having had a stop.
AlwaysReportable == ValidSnapshot(Positions, orders)

\* strategy.py:701-711: however often risk decides on a candidate and execution
\* sends its entry, what is entered for it is backed by one approval: on an
\* ALLOW review, of a candidate that is not for simulation, in time, within the
\* depth measured, and PAPER on a DEV instrument.
BackedByOneApproval ==
  \A i \in Intents, e \in Environments :
    entered[<<i, e>>] > 0 =>
      \E d \in decisions :
        /\ d.intent = i /\ d.environment = e /\ d.approved
        /\ entered[<<i, e>>] <= d.quantity
        /\ entered[<<i, e>>] * WorstEntry(d) <= d.quality.depth
        /\ d.review.intent = i /\ d.review.verdict = "ALLOW"
        /\ i.version = "strategy-intent.v1" /\ d.decided <= i.expires
        /\ e.mode = "PAPER" => e.symbol \in DevSymbols

\* README.md:62: "RiskTradeDecisionV1 proves loss-at-stop sizing".  A trade that
\* filled at the measured book or better loses, closed at its stop in whatever
\* steps, at most its budget, fees included, and leaves what slippage was
\* estimated.
LossAtStop ==
  \A s \in Symbols :
    holder[s] # None => LossIfStopped(s) + Slippage(holder[s]) <= holder[s].budget * Scale
=============================================================================
