-------------------------- MODULE PaperTradeProofs --------------------------
(***************************************************************************)
(* Theorems about PaperTrade, for every number of candidates, measurements *)
(* and environments, every size and budget of a decision, and however many *)
(* decisions there are.                                                    *)
(***************************************************************************)
EXTENDS PaperTrade, TLAPS

-----------------------------------------------------------------------------
(* Arithmetic that the prover is given once. *)

\* Fewer lots cost no more: quantities, notional and losses grow together.
LEMMA FewerLots ==
  ASSUME NEW m \in Nat, NEW n \in Nat, NEW k \in Nat, m <= n
  PROVE  m * k <= n * k
<1>1. PICK j \in Nat : n = m + j
  <2>1. n - m \in Nat /\ n = m + (n - m)
    OBVIOUS
  <2>. QED
    BY <2>1
<1>2. n * k = m * k + j * k
  BY <1>1
<1>3. j * k \in Nat /\ m * k \in Nat
  OBVIOUS
<1>. QED
  BY <1>2, <1>3

\* One more lot costs one lot more (an entry fill of Fill).
LEMMA OneMoreLot ==
  ASSUME NEW m \in Nat, NEW k \in Nat
  PROVE  (m + 1) * k = m * k + k
  OBVIOUS

-----------------------------------------------------------------------------
(* What a validated decision says. *)

\* The fields of a decision, its intent and its measurement.
LEMMA DecisionFields ==
  ASSUME NEW d \in Decision
  PROVE  /\ d.intent \in Intents /\ d.environment \in Environments
         /\ d.environment.symbol \in Symbols
         /\ d.quantity \in Nat /\ d.budget \in Nat /\ d.approved \in BOOLEAN
         /\ d.intent.side \in {"LONG", "SHORT"}
         /\ d.intent.stop \in Nat /\ d.intent.target \in Nat
         /\ d.intent.version \in Versions
         /\ d.quality.bid \in Nat /\ d.quality.ask \in Nat
         /\ d.quality.assessed \in Nat /\ d.quality.depth \in Nat
         /\ d.quality.buySlippage \in Nat /\ d.quality.sellSlippage \in Nat
         /\ d.quality.fee \in Nat /\ 2 * d.quality.fee <= Scale
<1>1. /\ d.intent \in Intents /\ d.quality \in Measurements /\ d.environment \in Environments
      /\ d.approved \in BOOLEAN /\ d.quantity \in Quantities /\ d.budget \in Budgets
  BY DEF Decision
<1>2. d.environment.symbol \in Symbols
  BY <1>1 DEF Symbols
<1>3. Quantities \subseteq Nat /\ Budgets \subseteq Nat
  BY PaperAssumption DEF PaperAssumption
<1>3a. d.quantity \in Nat
  BY <1>1, <1>3, Zenon
<1>3b. d.budget \in Nat
  BY <1>1, <1>3, Zenon
<1>4. /\ d.intent.side \in {"LONG", "SHORT"} /\ d.intent.version \in Versions
      /\ d.intent.stop \in Nat /\ d.intent.target \in Nat
  BY <1>1, PaperAssumption DEF PaperAssumption
<1>5. /\ d.quality.bid \in Nat /\ d.quality.ask \in Nat
      /\ d.quality.assessed \in Nat /\ d.quality.depth \in Nat
      /\ d.quality.buySlippage \in Nat /\ d.quality.sellSlippage \in Nat
      /\ d.quality.fee \in Nat /\ 2 * d.quality.fee <= Scale
  BY <1>1, PaperAssumption, Zenon DEF PaperAssumption
<1>. QED
  BY <1>1, <1>2, <1>3a, <1>3b, <1>4, <1>5, Zenon

\* The trade of a decision, and so a client order id, is in its type.
LEMMA ClientTyped ==
  ASSUME NEW d \in Decision, NEW role \in Roles
  PROVE  ClientId(d, role) \in ClientIds
<1>1. d.intent \in Intents /\ d.environment \in Environments
  BY DecisionFields
<1>. QED
  BY <1>1 DEF ClientId, TradeId, ClientIds

\* Client order ids of one trade differ by their role, and tell trades apart.
LEMMA ClientTells ==
  ASSUME NEW d, NEW e, NEW role, NEW other
  PROVE  ClientId(d, role) = ClientId(e, other)
           <=> d.intent = e.intent /\ d.environment = e.environment /\ role = other
  BY DEF ClientId, TradeId

\* Who holds a symbol is an approved, validated decision.
LEMMA HolderFacts ==
  ASSUME TypeOK, NEW s \in Symbols, holder[s] # None
  PROVE  /\ holder[s] \in decisions /\ holder[s] \in Decision /\ holder[s].approved
         /\ ValidQuality(holder[s].quality) /\ ValidDecision(holder[s])
  BY DEF TypeOK

\* The same of the holder an order belongs to.
LEMMA OrderFacts ==
  ASSUME TypeOK, NEW o \in orders
  PROVE  /\ o \in Order /\ o.symbol \in Symbols /\ o.role \in Roles
         /\ o.left \in Nat /\ o.left # 0
         /\ holder[o.symbol] # None /\ holder[o.symbol] \in decisions
         /\ holder[o.symbol] \in Decision /\ holder[o.symbol].approved
         /\ o.client = ClientId(holder[o.symbol], o.role) /\ o.client \in known
  BY HolderFacts DEF TypeOK, Order

-----------------------------------------------------------------------------
(* Types. *)

\* Decide publishes only what VenueQualityV1 and RiskTradeDecisionV1 accept.
LEMMA DecideTyped ==
  ASSUME TypeOK, NEW d \in Decision, Decide(d)
  PROVE  TypeOK'
<1>1. decisions' \subseteq {x \in Decision : ValidQuality(x.quality) /\ ValidDecision(x)}
  BY DEF TypeOK, Decide
<1>2. holder' \in [Symbols -> {x \in decisions' : x.approved} \cup {None}]
  <2>1. holder \in [Symbols -> {x \in decisions : x.approved} \cup {None}]
    BY DEF TypeOK
  <2>. QED
    BY <2>1 DEF Decide
<1>. QED
  BY <1>1, <1>2 DEF TypeOK, Decide

\* Prepare hands a symbol over only when no order and no position is left.
LEMMA PrepareTyped ==
  ASSUME TypeOK, NEW d \in decisions, Prepare(d)
  PROVE  TypeOK'
<1>. DEFINE s == d.environment.symbol
<1>1. d \in Decision /\ s \in Symbols
  BY DecisionFields DEF TypeOK
<1>. HIDE DEF s
<1>2. /\ holder' = [holder EXCEPT ![s] = d] /\ state' = [state EXCEPT ![s] = "ENTRY_PENDING"]
      /\ spent' = [spent EXCEPT ![s] = 0] /\ d.approved
      /\ position[s] = 0 /\ On(s) = {}
      /\ UNCHANGED <<decisions, known, orders, position, entered>>
  BY DEF Prepare, Free, s
<1>3. holder' \in [Symbols -> {x \in decisions' : x.approved} \cup {None}]
  BY <1>1, <1>2 DEF TypeOK
<1>4. state' \in [Symbols -> {"RECEIVED", "ENTRY_PENDING"} \cup PositionStates]
  BY <1>1, <1>2 DEF TypeOK
<1>5. spent' \in [Symbols -> Int]
  BY <1>1, <1>2 DEF TypeOK
<1>6. \A o \in orders : o.symbol # s
  BY <1>2 DEF On
<1>7. \A o \in orders' : /\ holder'[o.symbol] # None
                         /\ o.client = ClientId(holder'[o.symbol], o.role) /\ o.client \in known'
  BY <1>1, <1>2, <1>6, OrderFacts DEF TypeOK
<1>8. \A t \in Symbols : holder'[t] = None => position'[t] = 0
  BY <1>1, <1>2 DEF TypeOK
<1>. QED
  BY <1>1, <1>2, <1>3, <1>4, <1>5, <1>7, <1>8 DEF TypeOK

\* A new order is of the trade its symbol is held for (Open in SendEntry and
\* SendExit).
LEMMA OpenTyped ==
  ASSUME TypeOK, NEW o \in Order, Open(o), holder[o.symbol] # None,
         o.client = ClientId(holder[o.symbol], o.role),
         state' \in [Symbols -> {"RECEIVED", "ENTRY_PENDING"} \cup PositionStates],
         UNCHANGED <<decisions, holder, position, spent, entered>>
  PROVE  TypeOK'
<1>1. orders' = orders \cup {o} /\ known' = known \cup {o.client}
  BY DEF Open
<1>2. \A u \in orders' : /\ holder'[u.symbol] # None
                         /\ u.client = ClientId(holder'[u.symbol], u.role) /\ u.client \in known'
  BY <1>1 DEF TypeOK
<1>. QED
  BY <1>1, <1>2 DEF TypeOK

\* SendEntry opens the entry order, of as many lots as were approved.
LEMMA SendEntryOpens ==
  ASSUME TypeOK, NEW s \in Symbols, SendEntry(s)
  PROVE  /\ EntryOrder(s) \in Order /\ Open(EntryOrder(s)) /\ holder[s] # None
         /\ UNCHANGED <<decisions, holder, state, position, spent, entered>>
<1>1. /\ Open(EntryOrder(s)) /\ holder[s] # None
      /\ UNCHANGED <<decisions, holder, state, position, spent, entered>>
  BY DEF SendEntry
<1>2. holder[s] \in Decision /\ holder[s].approved /\ ValidDecision(holder[s])
  BY <1>1, HolderFacts
<1>3. holder[s].quantity > 0
  BY <1>2 DEF ValidDecision, Approvable
<1>4. holder[s].quantity \in Nat \ {0} /\ holder[s].intent.side \in {"LONG", "SHORT"}
  BY <1>2, <1>3, DecisionFields
<1>5. ClientId(holder[s], "ENTRY") \in ClientIds
  BY <1>2, ClientTyped DEF Roles
<1>6. EntryOrder(s) \in Order
  BY <1>4, <1>5 DEF EntryOrder, Order, Roles
<1>. QED
  BY <1>1, <1>6

\* SendExit opens an exit order.
LEMMA SendExitOpens ==
  ASSUME TypeOK, NEW s \in Symbols, NEW role \in Exits, NEW quantity \in Quantities \ {0},
         NEW reduceOnly \in BOOLEAN, SendExit(s, role, quantity, reduceOnly)
  PROVE  LET o == ExitOrder(s, role, quantity, reduceOnly) IN
           /\ o \in Order /\ Open(o) /\ holder[s] # None /\ position[s] # 0
           /\ state' = [state EXCEPT ![s] = StateOnceOpen(s, role)]
           /\ UNCHANGED <<decisions, holder, position, spent, entered>>
<1>1. /\ Open(ExitOrder(s, role, quantity, reduceOnly)) /\ position[s] # 0
      /\ state' = [state EXCEPT ![s] = StateOnceOpen(s, role)]
      /\ UNCHANGED <<decisions, holder, position, spent, entered>>
  BY DEF SendExit
<1>2. holder[s] # None
  BY <1>1 DEF TypeOK
<1>3. holder[s] \in Decision
  BY <1>2, HolderFacts
<1>4. Opposite(holder[s].intent.side) \in {"LONG", "SHORT"}
  BY DEF Opposite
<1>5. role \in Roles /\ ClientId(holder[s], role) \in ClientIds
  BY <1>3, ClientTyped DEF Roles
<1>6. Quantities \subseteq Nat
  BY PaperAssumption DEF PaperAssumption
<1>6a. quantity \in Nat \ {0}
  BY <1>6, Zenon
<1>7. ExitOrder(s, role, quantity, reduceOnly) \in Order
  BY <1>4, <1>5, <1>6a DEF ExitOrder, Order
<1>. QED
  BY <1>1, <1>2, <1>7

\* The state a new order brings is a lifecycle state.
LEMMA OpenStateTyped ==
  ASSUME TypeOK, NEW s \in Symbols, NEW role \in Exits
  PROVE  StateOnceOpen(s, role) \in {"RECEIVED", "ENTRY_PENDING"} \cup PositionStates
<1>1. state[s] \in {"RECEIVED", "ENTRY_PENDING"} \cup PositionStates
  BY DEF TypeOK
<1>. QED
  BY <1>1 DEF StateOnceOpen, PositionStates, Exiting

\* A fill: the lot, and what it does to the four variables of its symbol.
LEMMA FillFacts ==
  ASSUME TypeOK, NEW o \in orders, NEW price \in Int, Fill(o, price)
  PROVE  /\ \A u \in orders' : \/ u \in orders /\ u # o
                               \/ o.left > 1 /\ u = [o EXCEPT !.left = @ - 1]
         /\ o.reduceOnly => position[o.symbol] * Signed(o.side) < 0
         /\ position' = [position EXCEPT ![o.symbol] = position[o.symbol] + Signed(o.side)]
         /\ spent' = [spent EXCEPT ![o.symbol] = spent[o.symbol] + Signed(o.side) * price * Scale
                                                    + Fee(holder[o.symbol], price)]
         /\ state' = [state EXCEPT ![o.symbol] = StateOnceFilled(o)]
         /\ UNCHANGED <<decisions, holder, known>>
<1>1. orders' = (orders \ {o}) \cup (IF o.left > 1 THEN {[o EXCEPT !.left = @ - 1]} ELSE {})
  BY DEF Fill
<1>2. \A u \in orders' : (u \in orders /\ u # o) \/ (o.left > 1 /\ u = [o EXCEPT !.left = @ - 1])
  <2>1. CASE o.left > 1
    BY <1>1, <2>1
  <2>2. CASE ~(o.left > 1)
    BY <1>1, <2>2
  <2>. QED
    BY <2>1, <2>2
<1>3. /\ o.reduceOnly => position[o.symbol] * Signed(o.side) < 0
      /\ position' = [position EXCEPT ![o.symbol] = position[o.symbol] + Signed(o.side)]
      /\ spent' = [spent EXCEPT ![o.symbol] = spent[o.symbol] + Signed(o.side) * price * Scale
                                                 + Fee(holder[o.symbol], price)]
  BY DEF Fill
<1>4. /\ state' = [state EXCEPT ![o.symbol] = StateOnceFilled(o)]
      /\ UNCHANGED <<decisions, holder, known>>
  BY DEF Fill
<1>. QED
  BY <1>2, <1>3, <1>4

\* Same, of the history variable.
LEMMA FillEntered ==
  ASSUME NEW o \in orders, NEW price \in Int, Fill(o, price)
  PROVE  LET d == holder[o.symbol] IN
         /\ o.role # "ENTRY" => entered' = entered
         /\ o.role = "ENTRY" =>
              entered' = [entered EXCEPT ![<<d.intent, d.environment>>]
                            = entered[<<d.intent, d.environment>>] + 1]
  BY DEF Fill

\* The order that is left has the same fields, less a lot.
LEMMA LessALot ==
  ASSUME NEW o \in Order, o.left > 1
  PROVE  LET u == [o EXCEPT !.left = @ - 1] IN
           /\ u \in Order /\ u.left = o.left - 1
           /\ u.client = o.client /\ u.symbol = o.symbol /\ u.role = o.role
           /\ u.side = o.side /\ u.reduceOnly = o.reduceOnly
<1>1. o.left \in Nat /\ o.left - 1 \in Nat \ {0}
  BY DEF Order
<1>. QED
  BY <1>1 DEF Order

\* Prices of fills are numbers.
LEMMA PricesAreInts ==
  ASSUME TypeOK, NEW o \in orders, NEW price \in PricesOf(o, holder[o.symbol])
  PROVE  price \in Int
<1>1. holder[o.symbol] \in Decision
  BY OrderFacts
<1>2. /\ holder[o.symbol].intent.stop \in Nat /\ holder[o.symbol].intent.target \in Nat
      /\ holder[o.symbol].quality.bid \in Nat /\ holder[o.symbol].quality.ask \in Nat
  BY <1>1, DecisionFields
<1>. QED
  BY <1>2 DEF PricesOf

\* The state a fill brings is a lifecycle state.
LEMMA FillStateTyped ==
  ASSUME TypeOK, NEW o \in orders
  PROVE  StateOnceFilled(o) \in {"RECEIVED", "ENTRY_PENDING"} \cup PositionStates
<1>1. state[o.symbol] \in {"RECEIVED", "ENTRY_PENDING"} \cup PositionStates
  BY OrderFacts DEF TypeOK
<1>. QED
  BY <1>1 DEF StateOnceFilled, PositionStates, Exiting

\* A lot moves the position by one.
LEMMA LotIsOne ==
  ASSUME NEW side
  PROVE  Signed(side) \in {1, -1} /\ Signed(side) \in Int
  BY DEF Signed

\* A fill leaves positions, totals and orders in their types.
LEMMA FillTyped ==
  ASSUME TypeOK, NEW o \in orders, NEW price \in Int, Fill(o, price)
  PROVE  TypeOK'
<1>. DEFINE s == o.symbol
            d == holder[o.symbol]
<1>1. /\ o \in Order /\ s \in Symbols /\ d \in Decision /\ d # None
      /\ d.intent \in Intents /\ d.environment \in Environments
      /\ o.client = ClientId(d, o.role) /\ o.client \in known
  BY OrderFacts, DecisionFields
<1>2. position' \in [Symbols -> Int]
  <2>1. position[s] + Signed(o.side) \in Int
    BY <1>1, LotIsOne DEF TypeOK
  <2>. QED
    BY <1>1, <2>1, FillFacts DEF TypeOK
<1>3. spent' \in [Symbols -> Int]
  <2>1. d.quality.fee \in Nat
    BY <1>1, DecisionFields
  <2>2. Fee(d, price) \in Int
    BY <2>1 DEF Fee
  <2>3. spent[s] + Signed(o.side) * price * Scale + Fee(d, price) \in Int
    BY <1>1, <2>2, LotIsOne DEF TypeOK, Scale
  <2>. QED
    BY <1>1, <2>3, FillFacts DEF TypeOK
<1>4. state' \in [Symbols -> {"RECEIVED", "ENTRY_PENDING"} \cup PositionStates]
  BY <1>1, FillFacts, FillStateTyped DEF TypeOK
<1>5. entered' \in [Intents \X Environments -> Nat]
  <2>1. <<d.intent, d.environment>> \in Intents \X Environments
    BY <1>1
  <2>2. entered[<<d.intent, d.environment>>] + 1 \in Nat
    BY <2>1 DEF TypeOK
  <2>. QED
    BY <2>1, <2>2, FillEntered DEF TypeOK
<1>6. UNCHANGED <<decisions, holder, known>>
  BY FillFacts
<1>7. ASSUME NEW u \in orders'
      PROVE  /\ u \in Order /\ holder'[u.symbol] # None
             /\ u.client = ClientId(holder'[u.symbol], u.role) /\ u.client \in known'
  <2>1. CASE u \in orders
    BY <1>6, <2>1, OrderFacts
  <2>2. CASE o.left > 1 /\ u = [o EXCEPT !.left = @ - 1]
    BY <1>1, <1>6, <2>2, LessALot
  <2>. QED
    BY <2>1, <2>2, FillFacts
<1>8. \A t \in Symbols : holder'[t] = None => position'[t] = 0
  BY <1>1, <1>6, FillFacts DEF TypeOK
<1>. HIDE DEF s, d
<1>9. orders' \subseteq Order
  BY <1>7
<1>. QED
  BY <1>2, <1>3, <1>4, <1>5, <1>6, <1>7, <1>8, <1>9 DEF TypeOK

\* The steps there are, each with documents of its contract.
LEMMA NextCases ==
  ASSUME TypeOK, [Next]_vars
  PROVE  \/ \E d \in Decision : Decide(d)
         \/ \E d \in decisions : Prepare(d)
         \/ \E s \in Symbols : SendEntry(s)
         \/ \E s \in Symbols, role \in Exits, quantity \in Quantities \ {0}, reduceOnly \in BOOLEAN :
              SendExit(s, role, quantity, reduceOnly)
         \/ \E o \in orders : Cancel(o)
         \/ \E o \in orders : \E price \in Int :
              price \in PricesOf(o, holder[o.symbol]) /\ Fill(o, price)
         \/ UNCHANGED vars
<1>1. ASSUME NEW i \in Intents, NEW v \in Reviews, NEW q \in Measurements, NEW e \in Environments,
             NEW approved \in BOOLEAN, NEW decided \in Stamps, NEW quantity \in Quantities,
             NEW budget \in Budgets,
             Decide([intent |-> i, review |-> v, quality |-> q, environment |-> e,
                     approved |-> approved, decided |-> decided, quantity |-> quantity,
                     budget |-> budget])
      PROVE  \E d \in Decision : Decide(d)
  <2>1. [intent |-> i, review |-> v, quality |-> q, environment |-> e, approved |-> approved,
         decided |-> decided, quantity |-> quantity, budget |-> budget] \in Decision
    BY DEF Decision
  <2>. QED
    BY <1>1, <2>1, Zenon
<1>2. ASSUME NEW o \in orders, NEW price \in PricesOf(o, holder[o.symbol]), Fill(o, price)
      PROVE  \E p \in Int : p \in PricesOf(o, holder[o.symbol]) /\ Fill(o, p)
  BY <1>2, PricesAreInts, Zenon
<1>. QED
  BY <1>1, <1>2, Zenon DEF Next

\* Every step keeps the types.
LEMMA TypeStep == TypeOK /\ [Next]_vars => TypeOK'
<1>. SUFFICES ASSUME TypeOK, [Next]_vars PROVE TypeOK'
  OBVIOUS
<1>1. ASSUME NEW d \in Decision, Decide(d) PROVE TypeOK'
  BY <1>1, DecideTyped
<1>2. ASSUME NEW d \in decisions, Prepare(d) PROVE TypeOK'
  BY <1>2, PrepareTyped
<1>3. ASSUME NEW s \in Symbols, SendEntry(s) PROVE TypeOK'
  <2>1. /\ EntryOrder(s) \in Order /\ Open(EntryOrder(s)) /\ holder[s] # None
        /\ UNCHANGED <<decisions, holder, state, position, spent, entered>>
    BY <1>3, SendEntryOpens
  <2>2. EntryOrder(s).symbol = s /\ EntryOrder(s).role = "ENTRY"
        /\ EntryOrder(s).client = ClientId(holder[s], "ENTRY")
    BY DEF EntryOrder
  <2>3. state' \in [Symbols -> {"RECEIVED", "ENTRY_PENDING"} \cup PositionStates]
    BY <2>1 DEF TypeOK
  <2>. QED
    BY <2>1, <2>2, <2>3, OpenTyped
<1>4. ASSUME NEW s \in Symbols, NEW role \in Exits, NEW quantity \in Quantities \ {0},
             NEW reduceOnly \in BOOLEAN, SendExit(s, role, quantity, reduceOnly)
      PROVE  TypeOK'
  <2>. DEFINE o == ExitOrder(s, role, quantity, reduceOnly)
  <2>1. /\ o \in Order /\ Open(o) /\ holder[s] # None
        /\ state' = [state EXCEPT ![s] = StateOnceOpen(s, role)]
        /\ UNCHANGED <<decisions, holder, position, spent, entered>>
    BY <1>4, SendExitOpens
  <2>2. o.symbol = s /\ o.role = role /\ o.client = ClientId(holder[s], role)
    BY DEF ExitOrder
  <2>. HIDE DEF o
  <2>3. state' \in [Symbols -> {"RECEIVED", "ENTRY_PENDING"} \cup PositionStates]
    BY <2>1, OpenStateTyped DEF TypeOK
  <2>. QED
    BY <2>1, <2>2, <2>3, OpenTyped
<1>5. ASSUME NEW o \in orders, Cancel(o) PROVE TypeOK'
  BY <1>5 DEF Cancel, TypeOK
<1>6. ASSUME NEW o \in orders, NEW price \in Int, Fill(o, price) PROVE TypeOK'
  BY <1>6, FillTyped
<1>7. CASE UNCHANGED vars
  BY <1>7 DEF vars, TypeOK
<1>. QED
  BY <1>1, <1>2, <1>3, <1>4, <1>5, <1>6, <1>7, NextCases

-----------------------------------------------------------------------------
(* Entries. *)

\* The history after a fill, for any decision.
LEMMA EnteredAfterFill ==
  ASSUME TypeOK, NEW o \in orders, NEW price \in Int, Fill(o, price), NEW d \in Decision
  PROVE  LET h == holder[o.symbol] IN
         /\ o.role = "ENTRY" /\ d.intent = h.intent /\ d.environment = h.environment
              => EnteredFor(d)' = EnteredFor(d) + 1
         /\ ~(o.role = "ENTRY" /\ d.intent = h.intent /\ d.environment = h.environment)
              => EnteredFor(d)' = EnteredFor(d)
<1>. DEFINE h == holder[o.symbol]
<1>1. h \in Decision /\ h.intent \in Intents /\ h.environment \in Environments
      /\ d.intent \in Intents /\ d.environment \in Environments
  BY OrderFacts, DecisionFields
<1>. HIDE DEF h
<1>2. <<d.intent, d.environment>> \in Intents \X Environments
  BY <1>1
<1>3. CASE o.role # "ENTRY"
  BY <1>3, FillEntered DEF EnteredFor, h
<1>4. CASE o.role = "ENTRY" /\ d.intent = h.intent /\ d.environment = h.environment
  BY <1>2, <1>4, FillEntered DEF EnteredFor, TypeOK, h
<1>5. CASE o.role = "ENTRY" /\ ~(d.intent = h.intent /\ d.environment = h.environment)
  <2>1. <<d.intent, d.environment>> # <<h.intent, h.environment>>
    BY <1>5
  <2>. QED
    BY <1>2, <1>5, <2>1, FillEntered DEF EnteredFor, TypeOK, h
<1>. QED
  BY <1>3, <1>4, <1>5 DEF h

\* What is entered is counted.
LEMMA EnteredIsNat ==
  ASSUME TypeOK, NEW d \in Decision
  PROVE  EnteredFor(d) \in Nat
<1>1. <<d.intent, d.environment>> \in Intents \X Environments
  BY DecisionFields
<1>. QED
  BY <1>1 DEF TypeOK, EnteredFor

\* Two symbols are held for two trades.
LEMMA HoldersDiffer ==
  ASSUME TypeOK, EntryOnce, NEW s \in Symbols, NEW t \in Symbols, s # t,
         holder[s] # None, holder[t] # None
  PROVE  holder[s].environment # holder[t].environment
  BY DEF EntryOnce

\* A new decision about a trade that was entered is about a known entry.
LEMMA DecideEntries ==
  ASSUME TypeOK, EntryOnce, Approved, NEW d \in Decision, Decide(d)
  PROVE  EntryOnce'
<1>1. decisions' = decisions \cup {d} /\ UNCHANGED <<holder, known, orders, entered>>
  BY DEF Decide
<1>2. ASSUME NEW x \in decisions', EnteredFor(x) > 0
      PROVE  ClientId(x, "ENTRY") \in known
  <2>1. CASE x \in decisions
    BY <1>2, <2>1 DEF EntryOnce
  <2>2. CASE x = d
    <3>1. x.intent \in Intents /\ x.environment \in Environments
      BY <2>2, DecisionFields
    <3>2. PICK y \in decisions : y.intent = x.intent /\ y.environment = x.environment
      BY <1>2, <3>1 DEF Approved, EnteredFor
    <3>3. EnteredFor(y) > 0
      BY <1>2, <3>2 DEF EnteredFor
    <3>4. ClientId(y, "ENTRY") = ClientId(x, "ENTRY")
      BY <3>2, ClientTells
    <3>. QED
      BY <3>3, <3>4 DEF EntryOnce
  <2>. QED
    BY <1>1, <2>1, <2>2
<1>3. \A s \in Symbols : holder'[s] # None =>
        /\ holder'[s].environment.symbol = s
        /\ EnteredFor(holder[s])' <= holder'[s].quantity
  BY <1>1 DEF EntryOnce, EnteredFor
<1>4. \A o \in orders' : o.role = "ENTRY" =>
        EnteredFor(holder[o.symbol])' + o.left <= holder'[o.symbol].quantity
  BY <1>1 DEF EntryOnce, EnteredFor
<1>5. \A o, u \in orders' : o.client = u.client => o = u
  BY <1>1 DEF EntryOnce
<1>6. \A x \in decisions' : EnteredFor(x)' > 0 => ClientId(x, "ENTRY") \in known'
  BY <1>1, <1>2 DEF EnteredFor
<1>. QED
  BY <1>3, <1>4, <1>5, <1>6 DEF EntryOnce

\* A trade is prepared before anything is entered for it.
LEMMA PrepareEntries ==
  ASSUME TypeOK, EntryOnce, NEW d \in decisions, Prepare(d)
  PROVE  EntryOnce' /\ EnteredFor(d) = 0
<1>. DEFINE s == d.environment.symbol
<1>1. d \in Decision /\ s \in Symbols /\ d.quantity \in Nat
  BY DecisionFields DEF TypeOK
<1>. HIDE DEF s
<1>2. /\ holder' = [holder EXCEPT ![s] = d] /\ ClientId(d, "ENTRY") \notin known /\ On(s) = {}
      /\ UNCHANGED <<decisions, known, orders, position, entered>>
  BY DEF Prepare, Free, s
<1>3. EnteredFor(d) = 0
  <2>1. ~(EnteredFor(d) > 0)
    BY <1>2 DEF EntryOnce
  <2>2. EnteredFor(d) \in Nat
    BY <1>1, EnteredIsNat
  <2>. QED
    BY <2>1, <2>2
<1>4. \A o \in orders : o.symbol # s
  BY <1>2 DEF On
<1>5. ASSUME NEW t \in Symbols, holder'[t] # None
      PROVE  holder'[t].environment.symbol = t /\ EnteredFor(holder[t])' <= holder'[t].quantity
  <2>1. CASE t = s
    <3>1. holder'[t] = d
      BY <1>1, <1>2, <2>1 DEF TypeOK
    <3>2. EnteredFor(holder[t])' = 0
      BY <1>2, <1>3, <3>1 DEF EnteredFor
    <3>. QED
      BY <1>1, <2>1, <3>1, <3>2 DEF s
  <2>2. CASE t # s
    <3>1. holder'[t] = holder[t]
      BY <1>1, <1>2, <2>2 DEF TypeOK
    <3>. QED
      BY <1>2, <1>5, <3>1 DEF EntryOnce, EnteredFor
  <2>. QED
    BY <2>1, <2>2
<1>6. ASSUME NEW o \in orders', o.role = "ENTRY"
      PROVE  EnteredFor(holder[o.symbol])' + o.left <= holder'[o.symbol].quantity
  <2>1. o \in orders /\ o.symbol \in Symbols /\ o.symbol # s
    BY <1>2, <1>4, OrderFacts
  <2>2. holder'[o.symbol] = holder[o.symbol]
    BY <1>1, <1>2, <2>1 DEF TypeOK
  <2>. QED
    BY <1>2, <1>6, <2>1, <2>2 DEF EntryOnce, EnteredFor
<1>7. \A o, u \in orders' : o.client = u.client => o = u
  BY <1>2 DEF EntryOnce
<1>8. \A x \in decisions' : EnteredFor(x)' > 0 => ClientId(x, "ENTRY") \in known'
  BY <1>2 DEF EntryOnce, EnteredFor
<1>9. EntryOnce'
  BY <1>5, <1>6, <1>7, <1>8 DEF EntryOnce
<1>. QED
  BY <1>3, <1>9

\* An order the venue takes has a client order id it had not seen.
LEMMA OpenEntries ==
  ASSUME TypeOK, EntryOnce, NEW o \in Order, Open(o),
         o.role = "ENTRY" => EnteredFor(holder[o.symbol]) + o.left <= holder[o.symbol].quantity,
         UNCHANGED <<decisions, holder, position, spent, entered>>
  PROVE  EntryOnce'
<1>1. /\ orders' = orders \cup {o} /\ known' = known \cup {o.client} /\ o.client \notin known
      /\ UNCHANGED <<decisions, holder, entered>>
  BY DEF Open
<1>2. \A u \in orders : u.client # o.client
  BY <1>1, OrderFacts
<1>3. \A u, w \in orders' : u.client = w.client => u = w
  BY <1>1, <1>2 DEF EntryOnce
<1>4. \A s \in Symbols : holder'[s] # None =>
        /\ holder'[s].environment.symbol = s
        /\ EnteredFor(holder[s])' <= holder'[s].quantity
  BY <1>1 DEF EntryOnce, EnteredFor
<1>5. \A u \in orders' : u.role = "ENTRY" =>
        EnteredFor(holder[u.symbol])' + u.left <= holder'[u.symbol].quantity
  BY <1>1 DEF EntryOnce, EnteredFor
<1>6. \A x \in decisions' : EnteredFor(x)' > 0 => ClientId(x, "ENTRY") \in known'
  BY <1>1 DEF EntryOnce, EnteredFor
<1>. QED
  BY <1>3, <1>4, <1>5, <1>6 DEF EntryOnce

\* The entry a holder sends has not been filled before: it is not known yet.
LEMMA SendEntryEntries ==
  ASSUME TypeOK, EntryOnce, NEW s \in Symbols, SendEntry(s)
  PROVE  EntryOnce'
<1>1. /\ EntryOrder(s) \in Order /\ Open(EntryOrder(s)) /\ holder[s] # None
      /\ UNCHANGED <<decisions, holder, state, position, spent, entered>>
  BY SendEntryOpens
<1>2. /\ EntryOrder(s).symbol = s /\ EntryOrder(s).left = holder[s].quantity
      /\ EntryOrder(s).client = ClientId(holder[s], "ENTRY")
  BY DEF EntryOrder
<1>3. holder[s] \in decisions /\ holder[s] \in Decision
  BY <1>1, HolderFacts
<1>4. ClientId(holder[s], "ENTRY") \notin known
  BY <1>1, <1>2 DEF Open
<1>5. ~(EnteredFor(holder[s]) > 0)
  BY <1>3, <1>4 DEF EntryOnce
<1>6. EnteredFor(holder[s]) \in Nat /\ holder[s].quantity \in Nat
  BY <1>3, EnteredIsNat, DecisionFields
<1>7. EnteredFor(holder[s]) + holder[s].quantity <= holder[s].quantity
  BY <1>5, <1>6
<1>. QED
  BY <1>1, <1>2, <1>7, OpenEntries

\* An exit is no entry.
LEMMA SendExitEntries ==
  ASSUME TypeOK, EntryOnce, NEW s \in Symbols, NEW role \in Exits,
         NEW quantity \in Quantities \ {0}, NEW reduceOnly \in BOOLEAN,
         SendExit(s, role, quantity, reduceOnly)
  PROVE  EntryOnce'
<1>. DEFINE o == ExitOrder(s, role, quantity, reduceOnly)
<1>1. o \in Order /\ Open(o) /\ UNCHANGED <<decisions, holder, position, spent, entered>>
  BY SendExitOpens
<1>2. o.role # "ENTRY"
  BY DEF ExitOrder, Exits
<1>. HIDE DEF o
<1>. QED
  BY <1>1, <1>2, OpenEntries

\* An order that is gone is not filled any more.
LEMMA CancelEntries ==
  ASSUME TypeOK, EntryOnce, NEW o \in orders, Cancel(o)
  PROVE  EntryOnce'
<1>1. orders' \subseteq orders /\ UNCHANGED <<decisions, holder, known, entered>>
  BY DEF Cancel
<1>2. \A s \in Symbols : holder'[s] # None =>
        /\ holder'[s].environment.symbol = s
        /\ EnteredFor(holder[s])' <= holder'[s].quantity
  BY <1>1 DEF EntryOnce, EnteredFor
<1>3. \A u \in orders' : u.role = "ENTRY" =>
        EnteredFor(holder[u.symbol])' + u.left <= holder'[u.symbol].quantity
  BY <1>1 DEF EntryOnce, EnteredFor
<1>4. \A u, w \in orders' : u.client = w.client => u = w
  BY <1>1 DEF EntryOnce
<1>5. \A x \in decisions' : EnteredFor(x)' > 0 => ClientId(x, "ENTRY") \in known'
  BY <1>1 DEF EntryOnce, EnteredFor
<1>. QED
  BY <1>2, <1>3, <1>4, <1>5 DEF EntryOnce

\* What an order of a fill is: another one, or the filled one less a lot.
LEMMA OrdersAfterFill ==
  ASSUME TypeOK, NEW o \in orders, NEW price \in Int, Fill(o, price), NEW u \in orders'
  PROVE  \/ u \in orders /\ u # o
         \/ /\ u.left = o.left - 1 /\ u = [o EXCEPT !.left = @ - 1]
            /\ u.client = o.client /\ u.symbol = o.symbol /\ u.role = o.role
            /\ u.side = o.side /\ u.reduceOnly = o.reduceOnly /\ u \in Order
<1>1. CASE o.left > 1 /\ u = [o EXCEPT !.left = @ - 1]
  BY <1>1, LessALot, OrderFacts
<1>. QED
  BY <1>1, FillFacts

\* A fill moves a lot from what is left of the entry to what is entered.
LEMMA FillEntries ==
  ASSUME TypeOK, EntryOnce, NEW o \in orders, NEW price \in Int, Fill(o, price)
  PROVE  EntryOnce'
<1>. DEFINE s == o.symbol
            h == holder[o.symbol]
<1>1. /\ s \in Symbols /\ h # None /\ h \in Decision /\ h \in decisions
      /\ o.client = ClientId(h, o.role) /\ o.client \in known
      /\ o.left \in Nat /\ o.left # 0
      /\ h.quantity \in Nat /\ EnteredFor(h) \in Nat
  BY OrderFacts, DecisionFields, EnteredIsNat
<1>2. UNCHANGED <<decisions, holder, known>>
  BY FillFacts
<1>3. o.role = "ENTRY" => EnteredFor(h)' = EnteredFor(h) + 1 /\ EnteredFor(h) + o.left <= h.quantity
  BY <1>1, <1>2, EnteredAfterFill DEF EntryOnce
<1>4. o.role # "ENTRY" => \A d \in Decision : EnteredFor(d)' = EnteredFor(d)
  BY EnteredAfterFill
<1>5. ASSUME NEW t \in Symbols, t # s, holder[t] # None
      PROVE  EnteredFor(holder[t])' = EnteredFor(holder[t])
  <2>1. holder[t].environment # h.environment /\ holder[t] \in Decision
    BY <1>1, <1>5, HoldersDiffer, HolderFacts
  <2>. QED
    BY <1>2, <2>1, EnteredAfterFill
<1>6. ASSUME NEW t \in Symbols, holder'[t] # None
      PROVE  holder'[t].environment.symbol = t /\ EnteredFor(holder[t])' <= holder'[t].quantity
  <2>1. /\ holder[t].environment.symbol = t /\ EnteredFor(holder[t]) <= holder[t].quantity
        /\ holder[t] \in Decision
    BY <1>2, <1>6, HolderFacts DEF EntryOnce
  <2>2. CASE t # s
    BY <1>2, <1>5, <1>6, <2>1, <2>2
  <2>3. CASE t = s /\ o.role # "ENTRY"
    BY <1>2, <1>4, <2>1, <2>3
  <2>4. CASE t = s /\ o.role = "ENTRY"
    BY <1>1, <1>2, <1>3, <2>1, <2>4
  <2>. QED
    BY <2>2, <2>3, <2>4
<1>7. ASSUME NEW u \in orders', u.role = "ENTRY"
      PROVE  EnteredFor(holder[u.symbol])' + u.left <= holder'[u.symbol].quantity
  <2>1. CASE u \in orders /\ u # o
    <3>1. /\ u.symbol \in Symbols /\ holder[u.symbol] # None /\ holder[u.symbol] \in Decision
          /\ u.client = ClientId(holder[u.symbol], "ENTRY")
          /\ EnteredFor(holder[u.symbol]) + u.left <= holder[u.symbol].quantity
      BY <1>7, <2>1, OrderFacts DEF EntryOnce
    <3>2. CASE u.symbol # s
      BY <1>2, <1>5, <3>1, <3>2
    <3>3. CASE o.role # "ENTRY"
      BY <1>2, <1>4, <3>1, <3>3
    <3>4. ~(u.symbol = s /\ o.role = "ENTRY")
      BY <1>1, <2>1, <3>1 DEF EntryOnce
    <3>. QED
      BY <3>2, <3>3, <3>4
  <2>2. CASE u.left = o.left - 1 /\ u.symbol = o.symbol /\ u.role = o.role
    <3>1. EnteredFor(h)' = EnteredFor(h) + 1 /\ EnteredFor(h) + o.left <= h.quantity
      BY <1>3, <1>7, <2>2
    <3>2. EnteredFor(h)' + u.left <= h.quantity
      BY <1>1, <2>2, <3>1
    <3>. QED
      BY <1>2, <2>2, <3>2
  <2>. QED
    BY <2>1, <2>2, OrdersAfterFill
<1>8. ASSUME NEW u \in orders', NEW w \in orders', u.client = w.client
      PROVE  u = w
  <2>1. CASE u \in orders /\ u # o /\ w \in orders /\ w # o
    BY <1>8, <2>1 DEF EntryOnce
  <2>2. CASE u \in orders /\ u # o /\ w.client = o.client
    BY <1>8, <2>2 DEF EntryOnce
  <2>3. CASE w \in orders /\ w # o /\ u.client = o.client
    BY <1>8, <2>3 DEF EntryOnce
  <2>4. CASE u = [o EXCEPT !.left = @ - 1] /\ w = [o EXCEPT !.left = @ - 1]
    BY <2>4
  <2>. QED
    BY <2>1, <2>2, <2>3, <2>4, OrdersAfterFill
<1>9. ASSUME NEW d \in decisions', EnteredFor(d)' > 0
      PROVE  ClientId(d, "ENTRY") \in known'
  <2>1. d \in decisions /\ d \in Decision
    BY <1>2 DEF TypeOK
  <2>2. CASE o.role = "ENTRY" /\ d.intent = h.intent /\ d.environment = h.environment
    <3>1. ClientId(d, "ENTRY") = o.client
      BY <1>1, <2>2, ClientTells
    <3>. QED
      BY <1>1, <1>2, <3>1
  <2>3. CASE ~(o.role = "ENTRY" /\ d.intent = h.intent /\ d.environment = h.environment)
    <3>1. EnteredFor(d)' = EnteredFor(d)
      BY <1>2, <2>1, <2>3, EnteredAfterFill
    <3>. QED
      BY <1>2, <1>9, <2>1, <3>1 DEF EntryOnce
  <2>. QED
    BY <2>2, <2>3
<1>. HIDE DEF s, h
<1>. QED
  BY <1>6, <1>7, <1>8, <1>9 DEF EntryOnce

\* Every step keeps entries once.
LEMMA EntryStep == TypeOK /\ EntryOnce /\ Approved /\ [Next]_vars => EntryOnce'
<1>. SUFFICES ASSUME TypeOK, EntryOnce, Approved, [Next]_vars PROVE EntryOnce'
  OBVIOUS
<1>1. CASE UNCHANGED vars
  BY <1>1 DEF vars, EntryOnce, EnteredFor
<1>. QED
  BY <1>1, NextCases, DecideEntries, PrepareEntries, SendEntryEntries, SendExitEntries,
     CancelEntries, FillEntries

-----------------------------------------------------------------------------
(* Sides. *)

\* The side an order of a symbol has (EntryOrder, ExitOrder).
SideOk(o, d) == o.side = IF o.role = "ENTRY" THEN d.intent.side ELSE Opposite(d.intent.side)

\* An exit trades against its candidate's side.
LEMMA OppositeSigned ==
  ASSUME NEW side \in {"LONG", "SHORT"}
  PROVE  Signed(Opposite(side)) = -Signed(side)
  BY DEF Signed, Opposite

\* OneSided, said with SideOk.
LEMMA OneSidedIs ==
  OneSided <=> /\ \A o \in orders : SideOk(o, holder[o.symbol]) /\ ValidOrder(o)
               /\ \A s \in Symbols : holder[s] # None =>
                    position[s] * Signed(holder[s].intent.side) >= 0
  BY DEF OneSided, SideOk

\* Prepare finds no order and no position on the symbol it hands over.
LEMMA PrepareSided ==
  ASSUME TypeOK, OneSided, NEW d \in decisions, Prepare(d)
  PROVE  OneSided'
<1>. DEFINE s == d.environment.symbol
<1>1. d \in Decision /\ s \in Symbols
  BY DecisionFields DEF TypeOK
<1>. HIDE DEF s
<1>2. /\ holder' = [holder EXCEPT ![s] = d] /\ position[s] = 0 /\ On(s) = {}
      /\ UNCHANGED <<orders, position>>
  BY DEF Prepare, Free, s
<1>3. \A o \in orders : o.symbol # s
  BY <1>2 DEF On
<1>4. ASSUME NEW o \in orders'
      PROVE  SideOk(o, holder'[o.symbol]) /\ ValidOrder(o)
  <2>1. o \in orders /\ o.symbol \in Symbols /\ holder'[o.symbol] = holder[o.symbol]
    BY <1>1, <1>2, <1>3, OrderFacts DEF TypeOK
  <2>. QED
    BY <2>1, OneSidedIs
<1>5. ASSUME NEW t \in Symbols, holder'[t] # None
      PROVE  position'[t] * Signed(holder'[t].intent.side) >= 0
  <2>1. CASE t = s
    <3>1. position'[t] = 0
      BY <1>2, <2>1
    <3>. QED
      BY <3>1, LotIsOne
  <2>2. CASE t # s
    <3>1. holder'[t] = holder[t]
      BY <1>1, <1>2, <2>2 DEF TypeOK
    <3>. QED
      BY <1>2, <1>5, <3>1, OneSidedIs
  <2>. QED
    BY <2>1, <2>2
<1>. QED
  BY <1>4, <1>5 DEF OneSided, SideOk, ValidOrder

\* A new order has the side of its role and passes validate_order (Open).
LEMMA OpenSided ==
  ASSUME TypeOK, OneSided, NEW o \in Order, Open(o), SideOk(o, holder[o.symbol]),
         UNCHANGED <<holder, position>>
  PROVE  OneSided'
<1>1. orders' = orders \cup {o} /\ ValidOrder(o)
  BY DEF Open
<1>2. \A u \in orders' : SideOk(u, holder'[u.symbol]) /\ ValidOrder(u)
  BY <1>1, OneSidedIs
<1>. QED
  BY <1>2 DEF OneSided, SideOk, ValidOrder

\* A lot on the side of the candidate adds to the position; an exit lot, being
\* reduce-only, takes from one that is there.
LEMMA LotKeepsSide ==
  ASSUME NEW p \in Int, NEW side \in {1, -1}, NEW lot \in {1, -1}, p * side >= 0,
         lot = side \/ (lot = -side /\ p * lot < 0)
  PROVE  (p + lot) * side >= 0
<1>1. CASE side = 1
  BY <1>1
<1>2. CASE side = -1
  <2>1. CASE lot = 1
    BY <1>2, <2>1
  <2>2. CASE lot = -1
    BY <1>2, <2>2
  <2>. QED
    BY <2>1, <2>2
<1>. QED
  BY <1>1, <1>2

\* A fill does not turn a position.
LEMMA FillSided ==
  ASSUME TypeOK, OneSided, NEW o \in orders, NEW price \in Int, Fill(o, price)
  PROVE  OneSided'
<1>. DEFINE s == o.symbol
            h == holder[o.symbol]
<1>1. /\ s \in Symbols /\ h # None /\ h.intent.side \in {"LONG", "SHORT"}
      /\ SideOk(o, h) /\ ValidOrder(o) /\ position \in [Symbols -> Int] /\ position[s] \in Int
      /\ position[s] * Signed(h.intent.side) >= 0
  BY OrderFacts, DecisionFields, OneSidedIs DEF TypeOK
<1>2. /\ UNCHANGED holder
      /\ position' = [position EXCEPT ![s] = position[s] + Signed(o.side)]
      /\ o.reduceOnly => position[s] * Signed(o.side) < 0
  BY FillFacts
<1>3. /\ o.role = "ENTRY" => Signed(o.side) = Signed(h.intent.side)
      /\ o.role # "ENTRY" => Signed(o.side) = -Signed(h.intent.side) /\ position[s] * Signed(o.side) < 0
  BY <1>1, <1>2, OppositeSigned DEF SideOk, ValidOrder
<1>4. ASSUME NEW u \in orders'
      PROVE  SideOk(u, holder'[u.symbol]) /\ ValidOrder(u)
  <2>1. CASE u \in orders
    BY <1>2, <2>1, OneSidedIs
  <2>2. CASE /\ u.symbol = o.symbol /\ u.role = o.role /\ u.side = o.side
             /\ u.reduceOnly = o.reduceOnly /\ u \in Order
    <3>1. u.left > 0
      BY <2>2 DEF Order
    <3>. QED
      BY <1>1, <1>2, <2>2, <3>1 DEF SideOk, ValidOrder
  <2>. QED
    BY <2>1, <2>2, OrdersAfterFill
<1>5. ASSUME NEW t \in Symbols, holder'[t] # None
      PROVE  position'[t] * Signed(holder'[t].intent.side) >= 0
  <2>1. CASE t = s
    <3>1. position'[t] = position[s] + Signed(o.side)
      BY <1>1, <1>2, <2>1
    <3>2. Signed(o.side) \in {1, -1} /\ Signed(h.intent.side) \in {1, -1}
      BY LotIsOne
    <3>3. (position[s] + Signed(o.side)) * Signed(h.intent.side) >= 0
      BY <1>1, <1>3, <3>2, LotKeepsSide
    <3>. QED
      BY <1>2, <2>1, <3>1, <3>3
  <2>2. CASE t # s
    <3>1. position'[t] = position[t]
      BY <1>1, <1>2, <2>2
    <3>. QED
      BY <1>2, <1>5, <3>1, OneSidedIs
  <2>. QED
    BY <2>1, <2>2
<1>. HIDE DEF s, h
<1>. QED
  BY <1>4, <1>5 DEF OneSided, SideOk, ValidOrder

\* Every step keeps orders and positions on their side.
LEMMA SideStep == TypeOK /\ OneSided /\ [Next]_vars => OneSided'
<1>. SUFFICES ASSUME TypeOK, OneSided, [Next]_vars PROVE OneSided'
  OBVIOUS
<1>1. ASSUME NEW d \in Decision, Decide(d) PROVE OneSided'
  BY <1>1 DEF Decide, OneSided, ValidOrder
<1>2. ASSUME NEW d \in decisions, Prepare(d) PROVE OneSided'
  BY <1>2, PrepareSided
<1>3. ASSUME NEW s \in Symbols, SendEntry(s) PROVE OneSided'
  <2>1. SideOk(EntryOrder(s), holder[EntryOrder(s).symbol])
    BY DEF SideOk, EntryOrder
  <2>. QED
    BY <1>3, <2>1, SendEntryOpens, OpenSided
<1>4. ASSUME NEW s \in Symbols, NEW role \in Exits, NEW quantity \in Quantities \ {0},
             NEW reduceOnly \in BOOLEAN, SendExit(s, role, quantity, reduceOnly)
      PROVE  OneSided'
  <2>. DEFINE o == ExitOrder(s, role, quantity, reduceOnly)
  <2>1. SideOk(o, holder[o.symbol])
    BY DEF SideOk, ExitOrder, Exits
  <2>2. o \in Order /\ Open(o) /\ UNCHANGED <<holder, position>>
    BY <1>4, SendExitOpens
  <2>. HIDE DEF o
  <2>. QED
    BY <2>1, <2>2, OpenSided
<1>5. ASSUME NEW o \in orders, Cancel(o) PROVE OneSided'
  BY <1>5 DEF Cancel, OneSided, ValidOrder
<1>6. ASSUME NEW o \in orders, NEW price \in Int, Fill(o, price) PROVE OneSided'
  BY <1>6, FillSided
<1>7. CASE UNCHANGED vars
  BY <1>7 DEF vars, OneSided, ValidOrder
<1>. QED
  BY <1>1, <1>2, <1>3, <1>4, <1>5, <1>6, <1>7, NextCases

-----------------------------------------------------------------------------
(* Lifecycle states. *)

\* A new exit makes a state that its stop allows (SendExit).
LEMMA StateAfterOpen ==
  ASSUME TypeOK, StateIsTrue, NEW s \in Symbols, holder[s] # None, position[s] # 0, NEW role \in Exits
  PROVE  /\ StateOnceOpen(s, role) \in PositionStates
         /\ StateOnceOpen(s, role) \in {"ACTIVE"} \cup Exiting =>
              ClientId(holder[s], "STOP_LOSS") \in known \cup {ClientId(holder[s], role)}
<1>1. /\ state[s] \in PositionStates
      /\ state[s] \in {"ACTIVE"} \cup Exiting => ClientId(holder[s], "STOP_LOSS") \in known
  BY DEF StateIsTrue
<1>2. CASE role = "STOP_LOSS" /\ state[s] = "PROTECTING"
  BY <1>2 DEF StateOnceOpen, PositionStates
<1>3. CASE role = "TIMEOUT_EXIT" /\ state[s] = "ACTIVE"
  BY <1>1, <1>3 DEF StateOnceOpen, PositionStates, Exiting
<1>4. CASE role = "EMERGENCY_EXIT"
  BY <1>1, <1>4 DEF StateOnceOpen, PositionStates, Exiting
<1>5. CASE /\ ~(role = "STOP_LOSS" /\ state[s] = "PROTECTING")
           /\ ~(role = "TIMEOUT_EXIT" /\ state[s] = "ACTIVE")
           /\ role # "EMERGENCY_EXIT"
  BY <1>1, <1>5 DEF StateOnceOpen
<1>. QED
  BY <1>2, <1>3, <1>4, <1>5

\* So does a fill: an exit that fills finds a position, a stop that fills was
\* sent (Fill).
LEMMA StateAfterFill ==
  ASSUME TypeOK, OneSided, StateIsTrue, NEW o \in orders, NEW price \in Int, Fill(o, price)
  PROVE  /\ StateOnceFilled(o) \in PositionStates
         /\ StateOnceFilled(o) \in {"ACTIVE"} \cup Exiting =>
              ClientId(holder[o.symbol], "STOP_LOSS") \in known
<1>. DEFINE s == o.symbol
            stop == ClientId(holder[o.symbol], "STOP_LOSS")
<1>1. /\ s \in Symbols /\ holder[s] # None /\ o.role \in Roles
      /\ o.role = "STOP_LOSS" => stop \in known
      /\ position[s] \in Int
  BY OrderFacts DEF TypeOK
<1>2. /\ state[s] # "RECEIVED" /\ state[s] \in {"RECEIVED", "ENTRY_PENDING"} \cup PositionStates
      /\ position[s] # 0 => state[s] \in PositionStates
      /\ state[s] \in {"ACTIVE"} \cup Exiting => stop \in known
  BY <1>1 DEF StateIsTrue, TypeOK
<1>3. o.role # "ENTRY" => position[s] # 0
  <2>1. SUFFICES ASSUME o.role # "ENTRY" PROVE position[s] # 0
    OBVIOUS
  <2>2. position[s] * Signed(o.side) < 0
    BY <2>1, FillFacts, OneSidedIs DEF ValidOrder
  <2>. QED
    BY <1>1, <2>2, LotIsOne
<1>4. CASE o.role = "ENTRY" /\ state[s] = "ENTRY_PENDING"
  BY <1>4 DEF StateOnceFilled, PositionStates, Exiting
<1>5. CASE o.role = "ENTRY" /\ state[s] # "ENTRY_PENDING"
  BY <1>2, <1>5 DEF StateOnceFilled
<1>6. CASE o.role = "STOP_LOSS"
  BY <1>1, <1>6 DEF StateOnceFilled, PositionStates, Exiting
<1>7. CASE o.role = "TAKE_PROFIT"
  BY <1>2, <1>3, <1>7 DEF StateOnceFilled, PositionStates, Exiting
<1>8. CASE o.role \in {"TIMEOUT_EXIT", "EMERGENCY_EXIT"}
  BY <1>2, <1>3, <1>8 DEF StateOnceFilled
<1>. QED
  BY <1>1, <1>4, <1>5, <1>6, <1>7, <1>8 DEF Roles, Exits

\* Every step keeps states true.
LEMMA StateStep == TypeOK /\ OneSided /\ StateIsTrue /\ [Next]_vars => StateIsTrue'
<1>. SUFFICES ASSUME TypeOK, OneSided, StateIsTrue, [Next]_vars PROVE StateIsTrue'
  OBVIOUS
<1>1. ASSUME NEW d \in Decision, Decide(d) PROVE StateIsTrue'
  BY <1>1 DEF Decide, StateIsTrue
<1>2. ASSUME NEW d \in decisions, Prepare(d) PROVE StateIsTrue'
  <2>. DEFINE s == d.environment.symbol
  <2>1. d \in Decision /\ s \in Symbols
    BY DecisionFields DEF TypeOK
  <2>2. /\ holder' = [holder EXCEPT ![s] = d] /\ state' = [state EXCEPT ![s] = "ENTRY_PENDING"]
        /\ position[s] = 0 /\ UNCHANGED <<position, known>>
    BY <1>2 DEF Prepare, Free
  <2>. HIDE DEF s
  <2>3. ASSUME NEW t \in Symbols, holder'[t] # None
        PROVE  /\ state'[t] # "RECEIVED"
               /\ position'[t] # 0 => state'[t] \in PositionStates
               /\ state'[t] \in {"ACTIVE"} \cup Exiting => ClientId(holder'[t], "STOP_LOSS") \in known'
    <3>1. CASE t = s
      <4>1. state'[t] = "ENTRY_PENDING" /\ position'[t] = 0
        BY <2>1, <2>2, <3>1 DEF TypeOK
      <4>. QED
        BY <4>1 DEF Exiting
    <3>2. CASE t # s
      <4>1. holder'[t] = holder[t] /\ state'[t] = state[t] /\ position'[t] = position[t]
        BY <2>1, <2>2, <3>2 DEF TypeOK
      <4>. QED
        BY <2>2, <2>3, <4>1 DEF StateIsTrue
    <3>. QED
      BY <3>1, <3>2
  <2>. QED
    BY <2>3 DEF StateIsTrue, ClientId, TradeId
<1>3. ASSUME NEW s \in Symbols, SendEntry(s) PROVE StateIsTrue'
  <2>1. known \subseteq known' /\ UNCHANGED <<holder, state, position>>
    BY <1>3 DEF SendEntry, Open
  <2>. QED
    BY <2>1 DEF StateIsTrue, ClientId, TradeId
<1>4. ASSUME NEW s \in Symbols, NEW role \in Exits, NEW quantity \in Quantities \ {0},
             NEW reduceOnly \in BOOLEAN, SendExit(s, role, quantity, reduceOnly)
      PROVE  StateIsTrue'
  <2>1. /\ holder[s] # None /\ position[s] # 0
        /\ state' = [state EXCEPT ![s] = StateOnceOpen(s, role)]
        /\ UNCHANGED <<holder, position>>
    BY <1>4, SendExitOpens
  <2>2. known' = known \cup {ClientId(holder[s], role)}
    BY <1>4 DEF SendExit, Open, ExitOrder
  <2>3. ASSUME NEW t \in Symbols, holder'[t] # None
        PROVE  /\ state'[t] # "RECEIVED"
               /\ position'[t] # 0 => state'[t] \in PositionStates
               /\ state'[t] \in {"ACTIVE"} \cup Exiting => ClientId(holder'[t], "STOP_LOSS") \in known'
    <3>1. CASE t = s
      <4>1. state'[t] = StateOnceOpen(s, role)
        BY <2>1, <3>1 DEF TypeOK
      <4>2. "RECEIVED" \notin PositionStates
        BY DEF PositionStates, Exiting
      <4>. QED
        BY <2>1, <2>2, <3>1, <4>1, <4>2, StateAfterOpen
    <3>2. CASE t # s
      <4>1. state'[t] = state[t]
        BY <2>1, <3>2 DEF TypeOK
      <4>. QED
        BY <2>1, <2>2, <2>3, <4>1 DEF StateIsTrue
    <3>. QED
      BY <3>1, <3>2
  <2>. QED
    BY <2>3 DEF StateIsTrue, ClientId, TradeId
<1>5. ASSUME NEW o \in orders, Cancel(o) PROVE StateIsTrue'
  BY <1>5 DEF Cancel, StateIsTrue
<1>6. ASSUME NEW o \in orders, NEW price \in Int, Fill(o, price) PROVE StateIsTrue'
  <2>. DEFINE s == o.symbol
  <2>1. /\ s \in Symbols /\ state' = [state EXCEPT ![s] = StateOnceFilled(o)]
        /\ position' = [position EXCEPT ![s] = position[s] + Signed(o.side)]
        /\ UNCHANGED <<holder, known>>
    BY <1>6, OrderFacts, FillFacts
  <2>2. ASSUME NEW t \in Symbols, holder'[t] # None
        PROVE  /\ state'[t] # "RECEIVED"
               /\ position'[t] # 0 => state'[t] \in PositionStates
               /\ state'[t] \in {"ACTIVE"} \cup Exiting => ClientId(holder'[t], "STOP_LOSS") \in known'
    <3>1. CASE t = s
      <4>1. state'[t] = StateOnceFilled(o)
        BY <2>1, <3>1 DEF TypeOK
      <4>2. "RECEIVED" \notin PositionStates
        BY DEF PositionStates, Exiting
      <4>. QED
        BY <1>6, <2>1, <3>1, <4>1, <4>2, StateAfterFill
    <3>2. CASE t # s
      <4>1. state'[t] = state[t] /\ position'[t] = position[t]
        BY <2>1, <3>2 DEF TypeOK
      <4>. QED
        BY <2>1, <2>2, <4>1 DEF StateIsTrue
    <3>. QED
      BY <3>1, <3>2
  <2>. HIDE DEF s
  <2>. QED
    BY <2>2 DEF StateIsTrue, ClientId, TradeId
<1>7. CASE UNCHANGED vars
  BY <1>7 DEF vars, StateIsTrue, ClientId, TradeId
<1>. QED
  BY <1>1, <1>2, <1>3, <1>4, <1>5, <1>6, <1>7, NextCases

-----------------------------------------------------------------------------
(* Approvals. *)

\* A lot is entered for a trade whose decision approved that many.
LEMMA ApprovedStep == TypeOK /\ EntryOnce /\ Approved /\ [Next]_vars => Approved'
<1>. SUFFICES ASSUME TypeOK, EntryOnce, Approved, [Next]_vars PROVE Approved'
  OBVIOUS
<1>1. ASSUME NEW d \in Decision, Decide(d) PROVE Approved'
  BY <1>1 DEF Decide, Approved
<1>2. ASSUME UNCHANGED <<decisions, entered>> PROVE Approved'
  BY <1>2 DEF Approved
<1>3. ASSUME NEW o \in orders, NEW price \in Int, Fill(o, price) PROVE Approved'
  <2>. DEFINE h == holder[o.symbol]
  <2>1. /\ h \in decisions /\ h.approved /\ UNCHANGED <<decisions, holder>>
        /\ o.left \in Nat /\ o.left # 0 /\ h \in Decision
        /\ h.quantity \in Nat /\ EnteredFor(h) \in Nat
        /\ h.intent \in Intents /\ h.environment \in Environments
    BY <1>3, OrderFacts, FillFacts, EnteredIsNat, DecisionFields
  <2>2. ASSUME NEW i \in Intents, NEW e \in Environments, entered'[<<i, e>>] > 0
        PROVE  \E d \in decisions' : /\ d.intent = i /\ d.environment = e /\ d.approved
                                     /\ entered'[<<i, e>>] <= d.quantity
    <3>1. CASE o.role = "ENTRY" /\ i = h.intent /\ e = h.environment
      <4>1. EnteredFor(h) + o.left <= h.quantity
        BY <3>1 DEF EntryOnce
      <4>2. entered'[<<i, e>>] = EnteredFor(h) + 1
        BY <1>3, <2>1, <3>1, FillEntered DEF EnteredFor, TypeOK
      <4>3. entered'[<<i, e>>] <= h.quantity
        BY <2>1, <4>1, <4>2
      <4>. QED
        BY <2>1, <3>1, <4>3
    <3>2. CASE ~(o.role = "ENTRY" /\ i = h.intent /\ e = h.environment)
      <4>1. entered'[<<i, e>>] = entered[<<i, e>>]
        <5>1. CASE o.role # "ENTRY"
          BY <1>3, <5>1, FillEntered
        <5>2. CASE o.role = "ENTRY"
          <6>1. <<i, e>> # <<h.intent, h.environment>>
            BY <3>2, <5>2
          <6>. QED
            BY <1>3, <5>2, <6>1, FillEntered DEF TypeOK
        <5>. QED
          BY <5>1, <5>2
      <4>. QED
        BY <2>1, <2>2, <4>1 DEF Approved
    <3>. QED
      BY <3>1, <3>2
  <2>. HIDE DEF h
  <2>. QED
    BY <2>2 DEF Approved
<1>4. ASSUME NEW d \in decisions, Prepare(d) PROVE Approved'
  BY <1>2, <1>4 DEF Prepare
<1>5. ASSUME NEW s \in Symbols, SendEntry(s) PROVE Approved'
  BY <1>2, <1>5 DEF SendEntry
<1>6. ASSUME NEW s \in Symbols, NEW role \in Exits, NEW quantity \in Quantities \ {0},
             NEW reduceOnly \in BOOLEAN, SendExit(s, role, quantity, reduceOnly)
      PROVE  Approved'
  BY <1>2, <1>6 DEF SendExit
<1>7. ASSUME NEW o \in orders, Cancel(o) PROVE Approved'
  BY <1>2, <1>7 DEF Cancel
<1>8. CASE UNCHANGED vars
  BY <1>2, <1>8 DEF vars
<1>. QED
  BY <1>1, <1>3, <1>4, <1>5, <1>6, <1>7, <1>8, NextCases

-----------------------------------------------------------------------------
(* Losses. *)

\* What a trade that has cost sp and holds held loses, closed at its stop.
Loss(sp, held, d) ==
  sp - held * d.intent.stop * Scale + Distance(held, 0) * Fee(d, d.intent.stop)

\* Between two prices, the fees differ by no more than the prices do.
LEMMA FeeBelowPrice ==
  ASSUME NEW low \in Nat, NEW high \in Nat, NEW f \in Nat, NEW k \in Nat, low <= high, 2 * f <= k
  PROVE  /\ 2 * low * f <= 2 * high * f /\ low * k <= high * k
         /\ 2 * high * f - 2 * low * f <= high * k - low * k
<1>1. PICK j \in Nat : high = low + j
  <2>1. high - low \in Nat /\ high = low + (high - low)
    OBVIOUS
  <2>. QED
    BY <2>1
<1>2. (2 * f) * j <= k * j
  BY <1>1, FewerLots
<1>3. 2 * high * f = 2 * low * f + (2 * f) * j /\ high * k = low * k + k * j
  BY <1>1
<1>4. (2 * f) * j \in Nat /\ k * j \in Nat /\ 2 * low * f \in Nat /\ low * k \in Nat
  BY <1>1
<1>. QED
  BY <1>2, <1>3, <1>4

\* An entry lot filled at the measured book or better loses at most what was
\* estimated for one (PricesOf, LotLoss).
LEMMA EntryLoss ==
  ASSUME NEW d \in Decision, Between(d), NEW sp \in Int, NEW held \in Int,
         held * Signed(d.intent.side) >= 0, NEW p \in Int,
         Long(d) => d.intent.stop < p /\ p <= d.quality.ask,
         ~Long(d) => d.quality.bid <= p /\ p < d.intent.stop
  PROVE  Loss(sp + Signed(d.intent.side) * p * Scale + Fee(d, p), held + Signed(d.intent.side), d)
           <= Loss(sp, held, d) + LotLoss(d)
<1>. DEFINE x == d.intent.stop
            f == d.quality.fee
            w == WorstEntry(d)
<1>1. x \in Nat /\ f \in Nat /\ d.quality.ask \in Nat /\ d.quality.bid \in Nat /\ 2 * f <= Scale
  BY DecisionFields
<1>2. w \in Nat
  BY <1>1 DEF WorstEntry
<1>3. Scale \in Nat
  BY DEF Scale
<1>4. p \in Nat
  BY <1>1 DEF Long
<1>5. CASE Long(d)
  <2>1. Signed(d.intent.side) = 1 /\ held \in Nat
    BY <1>5 DEF Signed, Long
  <2>2. p <= w /\ x < w
    BY <1>5 DEF WorstEntry, Between
  <2>3. LotLoss(d) = (w - x) * Scale + 2 * w * f + 2 * x * f
    BY <1>1, <1>2, <2>2 DEF LotLoss, Distance, Fee
  <2>4. Loss(sp, held, d) = sp - held * x * Scale + held * (2 * x * f)
    BY <1>1, <1>3, <2>1 DEF Loss, Distance, Fee
  <2>5. Loss(sp + 1 * p * Scale + Fee(d, p), held + 1, d)
          = (sp + 1 * p * Scale + 2 * p * f) - (held + 1) * x * Scale + (held + 1) * (2 * x * f)
    <3>1. Distance(held + 1, 0) = held + 1
      BY <2>1 DEF Distance
    <3>. QED
      BY <3>1 DEF Loss, Fee
  <2>. HIDE DEF w, x, f
  <2>5a. (sp + 1 * p * Scale + 2 * p * f) - (held + 1) * x * Scale + (held + 1) * (2 * x * f)
           = (sp - held * x * Scale + held * (2 * x * f)) + p * Scale - x * Scale + 2 * p * f + 2 * x * f
    BY <1>1, <1>3, <1>4, <2>1
  <2>6. Loss(sp + 1 * p * Scale + Fee(d, p), held + 1, d)
          = Loss(sp, held, d) + p * Scale - x * Scale + 2 * p * f + 2 * x * f
    BY <2>4, <2>5, <2>5a, Zenon
  <2>7. p * Scale <= w * Scale /\ 2 * p * f <= 2 * w * f
    BY <1>1, <1>2, <1>3, <1>4, <2>2, FeeBelowPrice
  <2>8. (w - x) * Scale = w * Scale - x * Scale
    BY <1>1, <1>2, <1>3
  <2>9. /\ Loss(sp, held, d) \in Int /\ p * Scale \in Int /\ x * Scale \in Int /\ w * Scale \in Int
        /\ 2 * p * f \in Int /\ 2 * x * f \in Int /\ 2 * w * f \in Int
    BY <1>1, <1>2, <1>3, <1>4, <2>1, <2>4
  <2>. QED
    BY <2>1, <2>3, <2>6, <2>7, <2>8, <2>9
<1>6. CASE ~Long(d)
  <2>. DEFINE short == -held
  <2>1. Signed(d.intent.side) = -1 /\ short \in Nat /\ held = -short
    BY <1>6 DEF Signed, Long
  <2>2. w <= p /\ w < x
    BY <1>6 DEF WorstEntry, Between
  <2>3. LotLoss(d) = (x - w) * Scale + 2 * w * f + 2 * x * f
    BY <1>1, <1>2, <2>2 DEF LotLoss, Distance, Fee
  <2>. HIDE DEF short
  <2>4. Loss(sp, held, d) = sp - (-short) * x * Scale + short * (2 * x * f)
    <3>1. Distance(held, 0) = short
      BY <2>1 DEF Distance
    <3>. QED
      BY <2>1, <3>1 DEF Loss, Fee
  <2>5. Loss(sp + (-1) * p * Scale + Fee(d, p), held + (-1), d)
          = (sp + (-1) * p * Scale + 2 * p * f) - (-short - 1) * x * Scale + (short + 1) * (2 * x * f)
    <3>1. held + (-1) = -short - 1 /\ Distance(held + (-1), 0) = short + 1
      BY <2>1 DEF Distance
    <3>. QED
      BY <3>1 DEF Loss, Fee
  <2>. HIDE DEF w, x, f
  <2>5a. (sp + (-1) * p * Scale + 2 * p * f) - (-short - 1) * x * Scale + (short + 1) * (2 * x * f)
           = (sp - (-short) * x * Scale + short * (2 * x * f)) - p * Scale + x * Scale + 2 * p * f + 2 * x * f
    BY <1>1, <1>3, <1>4, <2>1
  <2>6. Loss(sp + (-1) * p * Scale + Fee(d, p), held + (-1), d)
          = Loss(sp, held, d) - p * Scale + x * Scale + 2 * p * f + 2 * x * f
    BY <2>4, <2>5, <2>5a, Zenon
  <2>7. 2 * p * f - 2 * w * f <= p * Scale - w * Scale
    BY <1>1, <1>2, <1>3, <1>4, <2>2, FeeBelowPrice
  <2>8. (x - w) * Scale = x * Scale - w * Scale
    BY <1>1, <1>2, <1>3
  <2>9. /\ Loss(sp, held, d) \in Int /\ p * Scale \in Int /\ x * Scale \in Int /\ w * Scale \in Int
        /\ 2 * p * f \in Int /\ 2 * x * f \in Int /\ 2 * w * f \in Int
    BY <1>1, <1>2, <1>3, <1>4, <2>1, <2>4
  <2>. QED
    BY <2>1, <2>3, <2>6, <2>7, <2>8, <2>9
<1>. QED
  BY <1>5, <1>6

\* A lot that is closed at the stop changes nothing, one closed at the target
\* gains (PricesOf).
LEMMA ExitLoss ==
  ASSUME NEW d \in Decision, Between(d), NEW sp \in Int, NEW held \in Int,
         held * Signed(d.intent.side) > 0, NEW p \in {d.intent.stop, d.intent.target},
         NEW lot \in {1, -1}, held * lot < 0
  PROVE  Loss(sp + lot * p * Scale + Fee(d, p), held + lot, d) <= Loss(sp, held, d)
<1>. DEFINE x == d.intent.stop
            f == d.quality.fee
            w == WorstEntry(d)
<1>1. /\ x \in Nat /\ d.intent.target \in Nat /\ p \in Nat /\ f \in Nat
      /\ d.quality.ask \in Nat /\ d.quality.bid \in Nat /\ 2 * f <= Scale
  BY DecisionFields
<1>2. w \in Nat
  BY <1>1 DEF WorstEntry
<1>3. Scale \in Nat
  BY DEF Scale
<1>5. CASE Long(d)
  <2>1. lot = -1 /\ held \in Nat /\ held # 0
    BY <1>5 DEF Signed, Long
  <2>2. x <= p
    BY <1>1, <1>2, <1>5 DEF Between
  <2>4. Loss(sp, held, d) = sp - held * x * Scale + held * (2 * x * f)
    BY <1>1, <1>3, <2>1 DEF Loss, Distance, Fee
  <2>5. Loss(sp + (-1) * p * Scale + Fee(d, p), held + (-1), d)
          = (sp + (-1) * p * Scale + 2 * p * f) - (held - 1) * x * Scale + (held - 1) * (2 * x * f)
    <3>1. held + (-1) = held - 1 /\ Distance(held + (-1), 0) = held - 1
      BY <2>1 DEF Distance
    <3>. QED
      BY <3>1 DEF Loss, Fee
  <2>. HIDE DEF x, f
  <2>5a. (sp + (-1) * p * Scale + 2 * p * f) - (held - 1) * x * Scale + (held - 1) * (2 * x * f)
           = (sp - held * x * Scale + held * (2 * x * f)) - p * Scale + x * Scale + 2 * p * f - 2 * x * f
    BY <1>1, <1>3, <2>1
  <2>6. Loss(sp + (-1) * p * Scale + Fee(d, p), held + (-1), d)
          = Loss(sp, held, d) - p * Scale + x * Scale + 2 * p * f - 2 * x * f
    BY <2>4, <2>5, <2>5a, Zenon
  <2>7. 2 * p * f - 2 * x * f <= p * Scale - x * Scale
    BY <1>1, <1>3, <2>2, FeeBelowPrice
  <2>9. /\ Loss(sp, held, d) \in Int /\ p * Scale \in Int /\ x * Scale \in Int
        /\ 2 * p * f \in Int /\ 2 * x * f \in Int
    BY <1>1, <1>3, <2>1, <2>4
  <2>. QED
    BY <2>1, <2>6, <2>7, <2>9
<1>6. CASE ~Long(d)
  <2>. DEFINE short == -held
  <2>0. held * (-1) > 0
    <3>1. Signed(d.intent.side) = -1
      BY <1>6 DEF Signed, Long
    <3>. QED
      BY <3>1
  <2>1. lot = 1 /\ short \in Nat /\ short # 0 /\ held = -short
    BY <2>0
  <2>2. p <= x
    BY <1>1, <1>2, <1>6 DEF Between
  <2>. HIDE DEF short
  <2>4. Loss(sp, held, d) = sp - (-short) * x * Scale + short * (2 * x * f)
    <3>1. Distance(held, 0) = short
      BY <2>1 DEF Distance
    <3>. QED
      BY <2>1, <3>1 DEF Loss, Fee
  <2>5. Loss(sp + 1 * p * Scale + Fee(d, p), held + 1, d)
          = (sp + 1 * p * Scale + 2 * p * f) - (-short + 1) * x * Scale + (short - 1) * (2 * x * f)
    <3>1. held + 1 = -short + 1 /\ Distance(held + 1, 0) = short - 1
      BY <2>1 DEF Distance
    <3>. QED
      BY <3>1 DEF Loss, Fee
  <2>. HIDE DEF x, f
  <2>5a. (sp + 1 * p * Scale + 2 * p * f) - (-short + 1) * x * Scale + (short - 1) * (2 * x * f)
           = (sp - (-short) * x * Scale + short * (2 * x * f)) + p * Scale - x * Scale + 2 * p * f - 2 * x * f
    BY <1>1, <1>3, <2>1
  <2>6. Loss(sp + 1 * p * Scale + Fee(d, p), held + 1, d)
          = Loss(sp, held, d) + p * Scale - x * Scale + 2 * p * f - 2 * x * f
    BY <2>4, <2>5, <2>5a, Zenon
  <2>7. p * Scale <= x * Scale /\ 2 * p * f <= 2 * x * f
    BY <1>1, <1>3, <2>2, FeeBelowPrice
  <2>9. /\ Loss(sp, held, d) \in Int /\ p * Scale \in Int /\ x * Scale \in Int
        /\ 2 * p * f \in Int /\ 2 * x * f \in Int
    BY <1>1, <1>3, <2>1, <2>4
  <2>. QED
    BY <2>1, <2>6, <2>7, <2>9
<1>. QED
  BY <1>5, <1>6

\* LossPerLot, said with Loss.
LEMMA LossIs ==
  LossPerLot <=> \A s \in Symbols : holder[s] # None =>
                   Loss(spent[s], position[s], holder[s]) <= EnteredFor(holder[s]) * LotLoss(holder[s])
  BY DEF LossPerLot, LossIfStopped, Loss

\* An approval and what its lots and losses are (RiskTradeDecisionV1.validate_decision).
LEMMA ApprovedFacts ==
  ASSUME NEW d \in Decision, ValidDecision(d), d.approved
  PROVE  Between(d) /\ LotLoss(d) \in Nat
<1>1. Between(d)
  BY DEF ValidDecision, Approvable
<1>2. /\ d.intent.stop \in Nat /\ d.quality.fee \in Nat
      /\ d.quality.ask \in Nat /\ d.quality.bid \in Nat
  BY DecisionFields
<1>3. WorstEntry(d) \in Nat
  BY <1>2 DEF WorstEntry
<1>4. Distance(WorstEntry(d), d.intent.stop) \in Nat
  BY <1>2, <1>3 DEF Distance
<1>5. Distance(WorstEntry(d), d.intent.stop) * Scale \in Nat
  BY <1>4 DEF Scale
<1>6. Fee(d, WorstEntry(d)) \in Nat /\ Fee(d, d.intent.stop) \in Nat
  BY <1>2, <1>3 DEF Fee
<1>. QED
  BY <1>1, <1>5, <1>6 DEF LotLoss

\* Losses are numbers.
LEMMA LossIsInt ==
  ASSUME NEW d \in Decision, NEW sp \in Int, NEW held \in Int
  PROVE  Loss(sp, held, d) \in Int
<1>1. d.intent.stop \in Nat /\ d.quality.fee \in Nat
  BY DecisionFields
<1>2. held * d.intent.stop * Scale \in Int
  BY <1>1 DEF Scale
<1>3. Distance(held, 0) * Fee(d, d.intent.stop) \in Int
  <2>1. Distance(held, 0) \in Int /\ Fee(d, d.intent.stop) \in Int
    BY <1>1 DEF Distance, Fee
  <2>. QED
    BY <2>1
<1>. QED
  BY <1>2, <1>3 DEF Loss

\* A fill of the holder's own order: an entry adds at most the estimate of a
\* lot to what the trade loses, an exit adds nothing.
LEMMA FillLoss ==
  ASSUME TypeOK, OneSided, NEW o \in orders, NEW price \in Int,
         price \in PricesOf(o, holder[o.symbol]), Fill(o, price)
  PROVE  LET s == o.symbol
             h == holder[o.symbol]
         IN  Loss(spent'[s], position'[s], h)
               <= Loss(spent[s], position[s], h) + (IF o.role = "ENTRY" THEN LotLoss(h) ELSE 0)
<1>. DEFINE s == o.symbol
            h == holder[o.symbol]
            side == Signed(h.intent.side)
            lot == Signed(o.side)
<1>1. /\ s \in Symbols /\ h # None /\ h \in Decision /\ ValidDecision(h) /\ h.approved
      /\ h.intent.side \in {"LONG", "SHORT"} /\ o.role \in Roles
      /\ spent \in [Symbols -> Int] /\ position \in [Symbols -> Int]
      /\ spent[s] \in Int /\ position[s] \in Int
  BY OrderFacts, HolderFacts, DecisionFields DEF TypeOK
<1>2. Between(h) /\ LotLoss(h) \in Nat
  BY <1>1, ApprovedFacts
<1>3. SideOk(o, h) /\ ValidOrder(o) /\ position[s] * side >= 0
  BY <1>1, OneSidedIs
<1>4. /\ spent'[s] = spent[s] + lot * price * Scale + Fee(h, price)
      /\ position'[s] = position[s] + lot
      /\ o.reduceOnly => position[s] * lot < 0
  BY <1>1, FillFacts
<1>5. lot \in {1, -1} /\ side \in {1, -1}
  BY LotIsOne
<1>6. CASE o.role = "ENTRY"
  <2>1. lot = side
    BY <1>3, <1>6 DEF SideOk
  <2>2. /\ Long(h) => h.intent.stop < price /\ price <= h.quality.ask
        /\ ~Long(h) => h.quality.bid <= price /\ price < h.intent.stop
    <3>1. /\ h.intent.stop \in Nat /\ h.quality.bid \in Nat /\ h.quality.ask \in Nat
      BY <1>1, DecisionFields
    <3>2. CASE Long(h)
      <4>1. price \in h.intent.stop + 1 .. h.quality.ask
        BY <1>6, <3>2 DEF PricesOf
      <4>. QED
        BY <3>1, <3>2, <4>1
    <3>3. CASE ~Long(h)
      <4>1. price \in h.quality.bid .. h.intent.stop - 1
        BY <1>6, <3>3 DEF PricesOf
      <4>. QED
        BY <3>1, <3>3, <4>1
    <3>. QED
      BY <3>2, <3>3
  <2>3. Loss(spent[s] + side * price * Scale + Fee(h, price), position[s] + side, h)
          <= Loss(spent[s], position[s], h) + LotLoss(h)
    BY <1>1, <1>2, <1>3, <2>2, EntryLoss
  <2>. QED
    BY <1>4, <1>6, <2>1, <2>3
<1>7. CASE o.role # "ENTRY"
  <2>1. position[s] * lot < 0
    BY <1>3, <1>4, <1>7 DEF ValidOrder
  <2>2. position[s] * side > 0
    <3>. HIDE DEF s, h, side, lot
    <3>. QED
      BY <1>1, <1>3, <1>5, <2>1
  <2>3. price \in {h.intent.stop, h.intent.target}
    BY <1>7 DEF PricesOf
  <2>4. Loss(spent[s] + lot * price * Scale + Fee(h, price), position[s] + lot, h)
          <= Loss(spent[s], position[s], h)
    <3>. HIDE DEF s, h, lot
    <3>. QED
      BY <1>1, <1>2, <1>5, <2>1, <2>2, <2>3, ExitLoss
  <2>5. Loss(spent[s], position[s], h) \in Int
    BY <1>1, LossIsInt
  <2>. QED
    BY <1>4, <1>7, <2>4, <2>5
<1>. QED
  BY <1>6, <1>7

\* Every step keeps a trade within the estimate of the lots entered.
LEMMA LossStep ==
  TypeOK /\ EntryOnce /\ OneSided /\ LossPerLot /\ [Next]_vars => LossPerLot'
<1>. SUFFICES ASSUME TypeOK, EntryOnce, OneSided, LossPerLot, [Next]_vars PROVE LossPerLot'
  OBVIOUS
<1>1. ASSUME UNCHANGED <<holder, position, spent, entered>> PROVE LossPerLot'
  BY <1>1 DEF LossPerLot, LossIfStopped, EnteredFor
<1>2. ASSUME NEW d \in decisions, Prepare(d) PROVE LossPerLot'
  <2>. DEFINE s == d.environment.symbol
  <2>1. d \in Decision /\ s \in Symbols
    BY DecisionFields DEF TypeOK
  <2>2. /\ holder' = [holder EXCEPT ![s] = d] /\ spent' = [spent EXCEPT ![s] = 0] /\ d.approved
        /\ position[s] = 0 /\ UNCHANGED <<position, entered>>
    BY <1>2 DEF Prepare, Free
  <2>3. EnteredFor(d) = 0 /\ LotLoss(d) \in Nat
    BY <1>2, <2>1, <2>2, PrepareEntries, ApprovedFacts DEF TypeOK
  <2>. HIDE DEF s
  <2>4. ASSUME NEW t \in Symbols, holder'[t] # None
        PROVE  Loss(spent'[t], position'[t], holder'[t]) <= EnteredFor(holder[t])' * LotLoss(holder'[t])
    <3>1. CASE t = s
      <4>1. holder'[t] = d /\ spent'[t] = 0 /\ position'[t] = 0 /\ EnteredFor(holder[t])' = 0
        BY <2>1, <2>2, <2>3, <3>1 DEF TypeOK, EnteredFor
      <4>2. Loss(0, 0, d) = 0
        <5>1. d.intent.stop \in Nat /\ d.quality.fee \in Nat /\ Scale \in Nat
          BY <2>1, DecisionFields DEF Scale
        <5>2. Distance(0, 0) = 0 /\ Fee(d, d.intent.stop) \in Int
          BY <5>1 DEF Distance, Fee
        <5>. QED
          BY <5>1, <5>2 DEF Loss
      <4>. QED
        BY <2>3, <4>1, <4>2
    <3>2. CASE t # s
      <4>1. holder'[t] = holder[t] /\ spent'[t] = spent[t] /\ position'[t] = position[t]
        BY <2>1, <2>2, <3>2 DEF TypeOK
      <4>2. EnteredFor(holder[t])' = EnteredFor(holder[t])
        BY <2>2, <4>1 DEF EnteredFor
      <4>. QED
        BY <2>4, <4>1, <4>2, LossIs
    <3>. QED
      BY <3>1, <3>2
  <2>. QED
    BY <2>4 DEF LossPerLot, LossIfStopped, Loss, LotLoss, WorstEntry, Long, Fee
<1>3. ASSUME NEW o \in orders, NEW price \in Int, price \in PricesOf(o, holder[o.symbol]),
             Fill(o, price)
      PROVE  LossPerLot'
  <2>. DEFINE s == o.symbol
              h == holder[o.symbol]
  <2>1. /\ s \in Symbols /\ h # None /\ h \in Decision /\ h.approved /\ ValidDecision(h)
        /\ EnteredFor(h) \in Nat /\ UNCHANGED <<holder, decisions>>
        /\ spent[s] \in Int /\ position[s] \in Int
        /\ spent'[s] \in Int /\ position'[s] \in Int
    <3>1. TypeOK'
      BY <1>3, FillTyped
    <3>. QED
      BY <1>3, <3>1, OrderFacts, HolderFacts, EnteredIsNat, FillFacts DEF TypeOK
  <2>2. LotLoss(h) \in Nat
    BY <2>1, ApprovedFacts
  <2>3. Loss(spent[s], position[s], h) <= EnteredFor(h) * LotLoss(h)
    BY <2>1, LossIs
  <2>4. Loss(spent[s], position[s], h) \in Int /\ Loss(spent'[s], position'[s], h) \in Int
    BY <2>1, LossIsInt
  <2>5. Loss(spent'[s], position'[s], h) <= EnteredFor(h)' * LotLoss(h)
    <3>1. CASE o.role = "ENTRY"
      <4>1. EnteredFor(h)' = EnteredFor(h) + 1
        BY <1>3, <2>1, <3>1, EnteredAfterFill
      <4>2. Loss(spent'[s], position'[s], h) <= Loss(spent[s], position[s], h) + LotLoss(h)
        BY <1>3, <3>1, FillLoss
      <4>3. EnteredFor(h)' * LotLoss(h) = EnteredFor(h) * LotLoss(h) + LotLoss(h)
        BY <2>1, <2>2, <4>1, OneMoreLot
      <4>4. EnteredFor(h) * LotLoss(h) \in Int
        BY <2>1, <2>2
      <4>. HIDE DEF s, h
      <4>. QED
        BY <2>2, <2>3, <2>4, <4>2, <4>3, <4>4
    <3>2. CASE o.role # "ENTRY"
      <4>1. EnteredFor(h)' = EnteredFor(h)
        BY <1>3, <2>1, <3>2, EnteredAfterFill
      <4>2. Loss(spent'[s], position'[s], h) <= Loss(spent[s], position[s], h)
        BY <1>3, <2>4, <3>2, FillLoss
      <4>3. EnteredFor(h) * LotLoss(h) \in Int
        BY <2>1, <2>2
      <4>. HIDE DEF s, h
      <4>. QED
        BY <2>3, <2>4, <4>1, <4>2, <4>3
    <3>. QED
      BY <3>1, <3>2
  <2>6. ASSUME NEW t \in Symbols, holder'[t] # None
        PROVE  Loss(spent'[t], position'[t], holder'[t]) <= EnteredFor(holder[t])' * LotLoss(holder'[t])
    <3>1. CASE t = s
      BY <2>1, <2>5, <3>1
    <3>2. CASE t # s
      <4>1. holder[t] \in Decision /\ holder[t].environment # h.environment
        BY <2>1, <2>6, <3>2, HolderFacts, HoldersDiffer
      <4>2. EnteredFor(holder[t])' = EnteredFor(holder[t])
        BY <1>3, <2>1, <4>1, EnteredAfterFill
      <4>3. spent'[t] = spent[t] /\ position'[t] = position[t]
        BY <1>3, <2>1, <3>2, FillFacts DEF TypeOK
      <4>. QED
        BY <2>1, <2>6, <4>2, <4>3, LossIs
    <3>. QED
      BY <3>1, <3>2
  <2>. QED
    BY <2>6 DEF LossPerLot, LossIfStopped, Loss, LotLoss, WorstEntry, Long, Fee
<1>4. ASSUME NEW d \in Decision, Decide(d) PROVE LossPerLot'
  BY <1>1, <1>4 DEF Decide
<1>5. ASSUME NEW s \in Symbols, SendEntry(s) PROVE LossPerLot'
  BY <1>1, <1>5 DEF SendEntry
<1>6. ASSUME NEW s \in Symbols, NEW role \in Exits, NEW quantity \in Quantities \ {0},
             NEW reduceOnly \in BOOLEAN, SendExit(s, role, quantity, reduceOnly)
      PROVE  LossPerLot'
  BY <1>1, <1>6 DEF SendExit
<1>7. ASSUME NEW o \in orders, Cancel(o) PROVE LossPerLot'
  BY <1>1, <1>7 DEF Cancel
<1>8. CASE UNCHANGED vars
  BY <1>1, <1>8 DEF vars
<1>. QED
  BY <1>2, <1>3, <1>4, <1>5, <1>6, <1>7, <1>8, NextCases

-----------------------------------------------------------------------------
(* Theorems. *)

\* The invariant holds of an empty account and an idle risk desk.
LEMMA InitInv == Init => IndInv
<1>. SUFFICES ASSUME Init PROVE IndInv
  OBVIOUS
<1>1. /\ decisions = {} /\ holder = [s \in Symbols |-> None]
      /\ state = [s \in Symbols |-> "RECEIVED"]
      /\ known = {} /\ orders = {}
      /\ position = [s \in Symbols |-> 0]
      /\ spent = [s \in Symbols |-> 0]
      /\ entered = [t \in Intents \X Environments |-> 0]
  BY DEF Init
<1>2. TypeOK
  BY <1>1 DEF TypeOK
<1>3. EntryOnce /\ OneSided /\ StateIsTrue /\ LossPerLot
  BY <1>1 DEF EntryOnce, OneSided, StateIsTrue, LossPerLot
<1>4. Approved
  BY <1>1 DEF Approved
<1>. QED
  BY <1>2, <1>3, <1>4 DEF IndInv

\* The invariant of the PAPER route: whatever is decided, sent again, cancelled
\* and filled, and in whatever order (Next).
THEOREM Invariance == Spec => []IndInv
<1>1. Init => IndInv
  BY InitInv
<1>2. IndInv /\ [Next]_vars => IndInv'
  BY TypeStep, EntryStep, SideStep, StateStep, ApprovedStep, LossStep DEF IndInv
<1>. QED
  BY <1>1, <1>2, PTL DEF Spec

\* The account always stays one that AccountSnapshotV2 can state
\* (paper.py:191-223, 309-320).
THEOREM Reportable == Spec => []AlwaysReportable
<1>1. IndInv => AlwaysReportable
  <2>. SUFFICES ASSUME IndInv PROVE AlwaysReportable
    OBVIOUS
  <2>0. TypeOK /\ EntryOnce /\ OneSided /\ StateIsTrue
    BY DEF IndInv
  <2>1. ASSUME NEW p \in Positions
        PROVE  \E s \in Symbols : /\ p.symbol = s /\ p.trade = TradeId(holder[s])
                                  /\ holder[s] # None /\ ValidPosition(p)
    <3>1. PICK s \in Symbols : /\ position[s] # 0
                               /\ p = [symbol |-> s, trade |-> TradeId(holder[s]),
                                       side |-> holder[s].intent.side, quantity |-> position[s],
                                       state |-> state[s],
                                       hasStop |-> ClientId(holder[s], "STOP_LOSS") \in known]
      BY DEF Positions
    <3>2. holder[s] # None /\ position[s] \in Int
      BY <2>0, <3>1 DEF TypeOK
    <3>3. /\ state[s] \in PositionStates
          /\ state[s] \in {"ACTIVE"} \cup Exiting => ClientId(holder[s], "STOP_LOSS") \in known
      BY <2>0, <3>1, <3>2 DEF StateIsTrue
    <3>4. position[s] * Signed(holder[s].intent.side) >= 0
      BY <2>0, <3>2, OneSidedIs
    <3>5. holder[s].intent.side = "LONG" => position[s] > 0
      <4>1. SUFFICES ASSUME holder[s].intent.side = "LONG" PROVE position[s] > 0
        OBVIOUS
      <4>2. Signed(holder[s].intent.side) = 1
        BY <4>1 DEF Signed
      <4>. QED
        BY <3>1, <3>2, <3>4, <4>2
    <3>6. holder[s].intent.side = "SHORT" => position[s] < 0
      <4>1. SUFFICES ASSUME holder[s].intent.side = "SHORT" PROVE position[s] < 0
        OBVIOUS
      <4>2. Signed(holder[s].intent.side) = -1
        BY <4>1 DEF Signed
      <4>. QED
        BY <3>1, <3>2, <3>4, <4>2
    <3>7. ValidPosition(p)
      BY <3>1, <3>3, <3>5, <3>6 DEF ValidPosition
    <3>. QED
      BY <3>1, <3>2, <3>7
  <2>2. ASSUME NEW s \in Symbols, NEW t \in Symbols, s # t, holder[s] # None, holder[t] # None
        PROVE  TradeId(holder[s]) # TradeId(holder[t])
    BY <2>0, <2>2, HoldersDiffer DEF TradeId
  <2>3. ASSUME NEW p \in Positions, NEW q \in Positions, p.symbol = q.symbol
        PROVE  p = q
    BY <2>3 DEF Positions
  <2>4. \A p, q \in Positions : p # q => p.symbol # q.symbol /\ p.trade # q.trade
    BY <2>1, <2>2, <2>3
  <2>5. \A o \in orders : ValidOrder(o)
    BY <2>0, OneSidedIs
  <2>6. \A o, u \in orders : o # u => o.client # u.client
    BY <2>0 DEF EntryOnce
  <2>7. \A p \in Positions : ValidPosition(p)
    BY <2>1
  <2>. QED
    BY <2>4, <2>5, <2>6, <2>7 DEF AlwaysReportable, ValidSnapshot
<1>. QED
  BY <1>1, Invariance, PTL

\* What is entered for a candidate is backed by one approval, on an ALLOW
\* review, in time, within the measured depth (strategy.py:701-711).
THEOREM OneApproval == Spec => []BackedByOneApproval
<1>1. IndInv => BackedByOneApproval
  <2>. SUFFICES ASSUME IndInv PROVE BackedByOneApproval
    OBVIOUS
  <2>1. TypeOK /\ Approved
    BY DEF IndInv
  <2>2. ASSUME NEW i \in Intents, NEW e \in Environments, entered[<<i, e>>] > 0
        PROVE  \E d \in decisions :
                 /\ d.intent = i /\ d.environment = e /\ d.approved
                 /\ entered[<<i, e>>] <= d.quantity
                 /\ entered[<<i, e>>] * WorstEntry(d) <= d.quality.depth
                 /\ d.review.intent = i /\ d.review.verdict = "ALLOW"
                 /\ i.version = "strategy-intent.v1" /\ d.decided <= i.expires
                 /\ e.mode = "PAPER" => e.symbol \in DevSymbols
    <3>1. PICK d \in decisions : /\ d.intent = i /\ d.environment = e /\ d.approved
                                 /\ entered[<<i, e>>] <= d.quantity
      BY <2>1, <2>2 DEF Approved
    <3>2. d \in Decision /\ ValidQuality(d.quality) /\ ValidDecision(d)
      BY <2>1 DEF TypeOK
    <3>3. /\ entered[<<i, e>>] \in Nat /\ d.quantity \in Nat
          /\ d.quality.assessed \in Nat /\ d.quality.depth \in Nat
          /\ d.quality.bid \in Nat /\ d.quality.ask \in Nat
          /\ i.version \in Versions
      BY <2>1, <3>1, <3>2, DecisionFields DEF TypeOK
    <3>4. Approvable(d)
      BY <3>1, <3>2 DEF ValidDecision
    <3>5. WorstEntry(d) \in Nat
      BY <3>3 DEF WorstEntry
    <3>6. entered[<<i, e>>] * WorstEntry(d) <= d.quantity * WorstEntry(d)
      BY <3>1, <3>3, <3>5, FewerLots
    <3>7. /\ d.quantity * WorstEntry(d) <= d.quality.assessed
          /\ d.quality.assessed <= d.quality.depth
      BY <3>2, <3>4 DEF Approvable, ValidQuality
    <3>8. entered[<<i, e>>] * WorstEntry(d) \in Int /\ d.quantity * WorstEntry(d) \in Int
      BY <3>3, <3>5
    <3>9. entered[<<i, e>>] * WorstEntry(d) <= d.quality.depth
      BY <3>3, <3>6, <3>7, <3>8
    <3>10. /\ d.review.intent = i /\ d.review.verdict = "ALLOW" /\ d.decided <= i.expires
           /\ i.version = "strategy-intent.v1"
      BY <3>1, <3>2, <3>3, <3>4 DEF ValidDecision, Approvable, Versions
    <3>11. e.mode = "PAPER" => e.symbol \in DevSymbols
      BY <3>1, <3>2 DEF ValidDecision, ValidEnvironment
    <3>. QED
      BY <3>1, <3>9, <3>10, <3>11
  <2>. QED
    BY <2>2 DEF BackedByOneApproval
<1>. QED
  BY <1>1, Invariance, PTL

\* A trade loses at its stop at most its budget, and leaves what slippage was
\* estimated (RiskTradeDecisionV1.validate_decision).
THEOREM LossBounded == Spec => []LossAtStop
<1>1. IndInv => LossAtStop
  <2>. SUFFICES ASSUME IndInv PROVE LossAtStop
    OBVIOUS
  <2>1. TypeOK /\ EntryOnce /\ LossPerLot
    BY DEF IndInv
  <2>2. ASSUME NEW s \in Symbols, holder[s] # None
        PROVE  LossIfStopped(s) + Slippage(holder[s]) <= holder[s].budget * Scale
    <3>. DEFINE h == holder[s]
    <3>1. /\ h \in Decision /\ h.approved /\ ValidDecision(h)
          /\ spent[s] \in Int /\ position[s] \in Int
      BY <2>1, <2>2, HolderFacts DEF TypeOK
    <3>2. /\ LotLoss(h) \in Nat /\ EnteredFor(h) \in Nat /\ h.quantity \in Nat
          /\ h.budget \in Nat /\ h.quality.bid \in Nat /\ h.quality.ask \in Nat
          /\ h.quality.buySlippage \in Nat /\ h.quality.sellSlippage \in Nat
      BY <2>1, <3>1, ApprovedFacts, EnteredIsNat, DecisionFields
    <3>3. Loss(spent[s], position[s], h) <= EnteredFor(h) * LotLoss(h)
      BY <2>1, <2>2, LossIs
    <3>4. EnteredFor(h) * LotLoss(h) <= h.quantity * LotLoss(h)
      BY <2>1, <2>2, <3>2, FewerLots DEF EntryOnce
    <3>5. h.quantity * LotLoss(h) + Slippage(h) <= h.budget * Scale
      BY <3>1 DEF ValidDecision, WorstLoss
    <3>6. Slippage(h) \in Int
      BY <3>2 DEF Slippage
    <3>7. /\ Loss(spent[s], position[s], h) \in Int /\ EnteredFor(h) * LotLoss(h) \in Int
          /\ h.quantity * LotLoss(h) \in Int /\ h.budget * Scale \in Int
      BY <3>1, <3>2, LossIsInt DEF Scale
    <3>8. LossIfStopped(s) = Loss(spent[s], position[s], h)
      BY DEF LossIfStopped, Loss
    <3>. HIDE DEF h
    <3>9. LossIfStopped(s) + Slippage(h) <= h.budget * Scale
      BY <3>3, <3>4, <3>5, <3>6, <3>7, <3>8
    <3>. QED
      BY <3>9 DEF h
  <2>. QED
    BY <2>2 DEF LossAtStop
<1>. QED
  BY <1>1, Invariance, PTL

=============================================================================
