------------------------ MODULE DecisionContextProofs ------------------------
(***************************************************************************)
(* DecisionContext for every set of messages, routes and bounds: what a    *)
(* context shows was in hand at its cutoff, its bars are the minutes up to *)
(* the decision, and who decides has seen all that the route requires.     *)
(***************************************************************************)
EXTENDS DecisionContext, WellFoundedInduction, TLAPS

\* A set of naturals that is not empty has a least element.
LEMMA LeastElement ==
  ASSUME NEW T \in SUBSET Nat, T # {}
  PROVE  \E least \in T : \A n \in T : least <= n
<1> DEFINE Below == {pair \in Nat \X Nat : pair[1] < pair[2]}
<1>1. IsWellFoundedOn(Below, Nat)
  BY NatLessThanWellFounded DEF OpToRel
<1>2. PICK least \in T : \A n \in T : <<n, least>> \notin Below
  <2> HIDE DEF Below
  <2> QED
    BY <1>1, WFMin
<1>3. \A n \in T : ~ (n < least)
  BY <1>2
<1> QED
  BY <1>3

\* The bounds of the clock are numbers.
LEMMA ClockNat == Clock \subseteq Nat
  BY ContextAssumption DEF Clock

\* The receipts of a context have the fields of a receipt.
LEMMA ReceiptsTyped ==
  ASSUME NEW c \in Context, NEW r \in Receipts(c)
  PROVE  r \in Receipt
<1>1. PICK k \in Kinds : r \in Listed(c.sources[k])
  BY DEF Receipts
<1>2. c.sources[k] \in Seq(Receipt)
  BY DEF Context
<1>3. PICK n \in DOMAIN c.sources[k] : r = c.sources[k][n]
  BY <1>1 DEF Listed
<1> QED
  BY <1>2, <1>3

\* A source that is available lists a receipt.
LEMMA SomeReceipt ==
  ASSUME NEW s \in Seq(Receipt), s # <<>>
  PROVE  \E r : r \in Listed(s)
<1>1. 1 \in DOMAIN s
  OBVIOUS
<1> QED
  BY <1>1 DEF Listed

\* Nothing is received or published at the start.
LEMMA InitInv == Init => IndInv
<1> SUFFICES ASSUME Init PROVE IndInv
  OBVIOUS
<1>1. TypeOK
  BY ContextAssumption DEF Init, TypeOK, Clock
<1>2. NotesAreTrue
  BY DEF Init, NotesAreTrue
<1>3. DocsAreValid
  BY DEF Init, DocsAreValid
<1> QED
  BY <1>1, <1>2, <1>3 DEF IndInv

\* A source built from the notes is a sequence of receipts, each with the
\* clock the service has noted for its message.
LEMMA SourcesNoted ==
  ASSUME TypeOK, NEW k \in Kinds, NEW ttl \in Ttls, NEW s \in SourcesOf(k, ttl)
  PROVE  /\ s \in Seq(Receipt)
         /\ \A r \in Listed(s) : received[r.message] # None /\ r.received = received[r.message]
         /\ ValidSource(k, s)
<1> DEFINE noted == {m \in Messages : KindOf[m] = k /\ received[m] # None}
           receipts == {[message |-> m, received |-> received[m], ttl |-> ttl] : m \in noted}
<1>1. PICK n \in 0 .. Cardinality(noted) : s \in [1 .. n -> receipts]
  BY DEF SourcesOf
<1>2. \A r \in receipts : /\ r \in Receipt
                          /\ received[r.message] # None /\ r.received = received[r.message]
  <2> TAKE r \in receipts
  <2>1. PICK m \in noted : r = [message |-> m, received |-> received[m], ttl |-> ttl]
    OBVIOUS
  <2>2. m \in Messages /\ received[m] # None
    OBVIOUS
  <2>3. received[m] \in Nat
    BY <2>2, ClockNat DEF TypeOK
  <2>4. ttl \in Nat
    BY ContextAssumption
  <2> QED
    BY <2>1, <2>2, <2>3, <2>4 DEF Receipt
<1> HIDE DEF receipts
<1>3. n \in Nat
  OBVIOUS
<1>4. s \in Seq(receipts)
  BY <1>1, <1>3
<1>5. s \in Seq(Receipt)
  BY <1>1, <1>2, <1>3
<1>6. \A r \in Listed(s) : r \in receipts
  BY <1>1 DEF Listed
<1>7. ValidSource(k, s)
  BY DEF SourcesOf
<1> QED
  BY <1>2, <1>5, <1>6, <1>7

\* The document a capture publishes: its fields, and its receipts are those
\* of its sources.
LEMMA CapturedDocument ==
  ASSUME IndInv, NEW ttl \in Ttls,
         NEW src, src = [k \in Kinds |-> src[k]], \A k \in Kinds : src[k] \in SourcesOf(k, ttl),
         NEW route \in Routes, NEW tail \in Tails, NEW required \in Profiles,
         NEW cutoff \in route.routed .. now,
         NEW c, c = [route |-> route, cutoff |-> cutoff, captured |-> now, tail |-> tail,
                     required |-> required, sources |-> src]
  PROVE  /\ c \in Context
         /\ \A r \in Receipts(c) : InHand(r.message, r.received)
         /\ \A k \in Kinds : ValidSource(k, c.sources[k])
<1>1. TypeOK
  BY DEF IndInv
<1>2. src \in [Kinds -> Seq(Receipt)]
  BY <1>1, SourcesNoted
<1>3. now \in Nat
  BY <1>1, ClockNat DEF TypeOK
<1>4. route.routed \in Nat
  BY ContextAssumption DEF Route
<1>5. cutoff \in Nat
  BY <1>3, <1>4
<1>6. tail \in Nat /\ required \in SUBSET Kinds
  BY ContextAssumption
<1>7. c \in Context
  BY <1>2, <1>3, <1>5, <1>6 DEF Context
<1>8. ASSUME NEW r \in Receipts(c) PROVE InHand(r.message, r.received)
  <2>1. PICK k \in Kinds : r \in Listed(src[k])
    BY <1>8 DEF Receipts
  <2>2. received[r.message] # None /\ r.received = received[r.message]
    BY <1>1, <2>1, SourcesNoted
  <2>3. r \in Receipt
    BY <1>7, <1>8, ReceiptsTyped
  <2>4. r.message \in Messages
    BY <2>3 DEF Receipt
  <2> QED
    BY <2>2, <2>4 DEF IndInv, NotesAreTrue
<1>9. \A k \in Kinds : ValidSource(k, c.sources[k])
  BY <1>1, SourcesNoted
<1> QED
  BY <1>7, <1>8, <1>9

\* Every step keeps the notes true and the published documents valid.
LEMMA StepInv == IndInv /\ [Next]_vars => IndInv'
<1> SUFFICES ASSUME IndInv, [Next]_vars PROVE IndInv'
  OBVIOUS
<1>1. TypeOK /\ NotesAreTrue /\ DocsAreValid
  BY DEF IndInv
<1>2. now \in Nat /\ now <= MaxTime /\ MaxTime \in Nat /\ MaxRestarts \in Nat /\ None \notin Nat
  BY <1>1, ContextAssumption DEF TypeOK, Clock
<1>3. CASE Tick
  <2>1. now' = now + 1 /\ now' \in Clock
    BY <1>2, <1>3 DEF Tick, Clock
  <2>2. UNCHANGED <<received, contexts, reviews, restarts, arrived>>
    BY <1>3 DEF Tick, docs
  <2>3. TypeOK'
    BY <1>1, <2>1, <2>2 DEF TypeOK
  <2>4. \A m \in Messages : arrived[m] # None => arrived[m] \in Nat /\ arrived[m] <= now + 1
    <3> TAKE m \in Messages
    <3>1. arrived[m] # None => arrived[m] \in Nat
      BY <1>1, ClockNat DEF TypeOK
    <3>2. arrived[m] # None => arrived[m] <= now
      BY <1>1 DEF NotesAreTrue
    <3> QED
      BY <1>2, <3>1, <3>2
  <2>5. \A m \in Messages : received[m] # None => received[m] \in Nat /\ received[m] <= now + 1
    <3> TAKE m \in Messages
    <3>1. received[m] # None => received[m] \in Nat
      BY <1>1, ClockNat DEF TypeOK
    <3>2. received[m] # None => received[m] <= now
      BY <1>1 DEF NotesAreTrue
    <3> QED
      BY <1>2, <3>1, <3>2
  <2>6. NotesAreTrue'
    BY <1>1, <2>1, <2>2, <2>4, <2>5 DEF NotesAreTrue, InHand
  <2>7. DocsAreValid'
    BY <1>1, <2>2 DEF DocsAreValid, InHand
  <2> QED
    BY <2>3, <2>6, <2>7 DEF IndInv
<1>4. CASE Restart
  <2>1. UNCHANGED <<now, contexts, reviews, arrived>> /\ restarts' \in 0 .. MaxRestarts
    BY <1>1, <1>2, <1>4 DEF Restart, TypeOK, docs
  <2>2. received' = [m \in Messages |-> None]
    BY <1>4 DEF Restart
  <2>3. TypeOK'
    BY <1>1, <2>1, <2>2 DEF TypeOK
  <2>4. NotesAreTrue'
    BY <1>1, <2>1, <2>2 DEF NotesAreTrue
  <2>5. DocsAreValid'
    BY <1>1, <2>1 DEF DocsAreValid, InHand
  <2> QED
    BY <2>3, <2>4, <2>5 DEF IndInv
<1>5. ASSUME NEW m \in Messages, Receive(m) PROVE IndInv'
  <2>1. UNCHANGED <<now, contexts, reviews, restarts>>
    BY <1>5 DEF Receive, docs
  <2>2. /\ received' = [received EXCEPT ![m] = IF @ = None THEN now ELSE @]
        /\ arrived' = [arrived EXCEPT ![m] = IF @ = None THEN now ELSE @]
    BY <1>5 DEF Receive
  <2>3. now \in Clock /\ received \in [Messages -> Clock \cup {None}]
        /\ arrived \in [Messages -> Clock \cup {None}]
    BY <1>1 DEF TypeOK
  <2>4. TypeOK'
    BY <1>1, <2>1, <2>2, <2>3 DEF TypeOK
  <2>5. \A x \in Messages : arrived[x] # None => arrived'[x] = arrived[x]
    BY <2>2, <2>3
  <2>6. \A x \in Messages, t \in Nat : InHand(x, t) => InHand(x, t)'
    BY <2>5 DEF InHand
  <2>7. \A x \in Messages : arrived'[x] # None => arrived'[x] <= now
    <3> TAKE x \in Messages
    <3>1. arrived'[x] = arrived[x] \/ arrived'[x] = now
      BY <2>2, <2>3
    <3> QED
      BY <1>1, <1>2, <3>1 DEF NotesAreTrue
  <2>8. ASSUME NEW x \in Messages, received'[x] # None
        PROVE  received'[x] <= now /\ InHand(x, received[x])'
    <3>1. CASE received[x] # None
      <4>1. received'[x] = received[x] /\ received[x] \in Nat
        BY <2>2, <2>3, <3>1, ClockNat
      <4>2. received[x] <= now /\ InHand(x, received[x])
        BY <1>1, <3>1 DEF NotesAreTrue
      <4>3. arrived'[x] = arrived[x]
        BY <2>5, <4>2 DEF InHand
      <4> QED
        BY <4>1, <4>2, <4>3 DEF InHand
    <3>2. CASE received[x] = None
      <4>1. x = m /\ received'[x] = now
        BY <2>2, <2>3, <2>8, <3>2
      <4>2. arrived'[x] # None
        BY <1>2, <2>2, <2>3, <4>1
      <4>3. arrived'[x] <= now
        BY <2>7, <4>2
      <4> QED
        BY <1>2, <4>1, <4>2, <4>3 DEF InHand
    <3> QED
      BY <3>1, <3>2
  <2>9. NotesAreTrue'
    BY <2>1, <2>7, <2>8 DEF NotesAreTrue
  <2>10. \A c \in contexts : \A r \in Receipts(c) : InHand(r.message, r.received)'
    <3> SUFFICES ASSUME NEW c \in contexts, NEW r \in Receipts(c)
                 PROVE  InHand(r.message, r.received)'
      OBVIOUS
    <3>1. r.message \in Messages /\ r.received \in Nat
      BY <1>1, ReceiptsTyped DEF TypeOK, Receipt
    <3>2. InHand(r.message, r.received)
      BY <1>1 DEF DocsAreValid
    <3> QED
      BY <2>6, <3>1, <3>2
  <2>11. DocsAreValid'
    BY <1>1, <2>1, <2>10 DEF DocsAreValid, InHand
  <2> QED
    BY <2>4, <2>9, <2>11 DEF IndInv
<1>6. ASSUME NEW ttl \in Ttls,
             NEW market \in SourcesOf("market", ttl), NEW bars \in SourcesOf("closed_bars", ttl),
             NEW text \in SourcesOf("text", ttl), NEW macro \in SourcesOf("macro", ttl),
             NEW route \in Routes, NEW tail \in Tails, NEW required \in Profiles,
             NEW cutoff \in route.routed .. now,
             NEW c, c = [route |-> route, cutoff |-> cutoff, captured |-> now, tail |-> tail,
                         required |-> required,
                         sources |-> [market |-> market, closed_bars |-> bars,
                                      text |-> text, macro |-> macro]],
             Capture(c)
      PROVE  IndInv'
  <2> DEFINE src == [market |-> market, closed_bars |-> bars, text |-> text, macro |-> macro]
  <2>a. \A k \in Kinds : src[k] \in SourcesOf(k, ttl)
    BY DEF Kinds
  <2>b. src = [k \in Kinds |-> src[k]]
    BY DEF Kinds
  <2>c. c = [route |-> route, cutoff |-> cutoff, captured |-> now, tail |-> tail,
             required |-> required, sources |-> src]
    BY <1>6
  <2> HIDE DEF src
  <2>1. /\ c \in Context /\ \A r \in Receipts(c) : InHand(r.message, r.received)
        /\ \A k \in Kinds : ValidSource(k, c.sources[k])
    BY <2>a, <2>b, <2>c, CapturedDocument
  <2>2. ValidContext(c) /\ contexts' = contexts \cup {c}
        /\ UNCHANGED <<now, received, reviews, restarts, arrived>>
    BY <1>6 DEF Capture
  <2>3. TypeOK'
    BY <1>1, <2>1, <2>2 DEF TypeOK
  <2>4. NotesAreTrue'
    BY <1>1, <2>2 DEF NotesAreTrue, InHand
  <2>5. DocsAreValid'
    BY <1>1, <2>1, <2>2 DEF DocsAreValid, InHand
  <2> QED
    BY <2>3, <2>4, <2>5 DEF IndInv
<1>7. ASSUME NEW c \in contexts, NEW route \in Routes, NEW verdict \in {"ALLOW", "VETO", "DEFER"},
             Conclude([context |-> c, route |-> route, reviewed |-> now, verdict |-> verdict])
      PROVE  IndInv'
  <2> DEFINE v == [context |-> c, route |-> route, reviewed |-> now, verdict |-> verdict]
  <2>1. v \in Review /\ v.context \in contexts
    BY <1>1, <1>2 DEF Review, TypeOK
  <2> HIDE DEF v
  <2>2. /\ ForRoute(v.context, v.route) /\ ValidReview(v)
        /\ Missing(v.context) # {} => v.verdict = "DEFER"
        /\ reviews' = reviews \cup {v}
    BY <1>7 DEF Conclude, v
  <2>3. UNCHANGED <<now, received, contexts, restarts, arrived>>
    BY <1>7 DEF Conclude
  <2>4. TypeOK'
    BY <1>1, <2>1, <2>2, <2>3 DEF TypeOK
  <2>5. NotesAreTrue'
    BY <1>1, <2>3 DEF NotesAreTrue, InHand
  <2>6. DocsAreValid'
    BY <1>1, <2>2, <2>3 DEF DocsAreValid, InHand
  <2> QED
    BY <2>4, <2>5, <2>6 DEF IndInv
<1>8. CASE UNCHANGED vars
  BY <1>1, <1>8 DEF vars, docs, IndInv, TypeOK, NotesAreTrue, DocsAreValid, InHand
<1> QED
  BY <1>3, <1>4, <1>5, <1>6, <1>7, <1>8 DEF Next

\* Every published document passed its validator, on true receipts.
THEOREM Invariance == Spec => []IndInv
  BY InitInv, StepInv, PTL DEF Spec

-----------------------------------------------------------------------------
\* A context shows only what had reached the service by its knowledge cutoff.
THEOREM WithoutHindsight == Spec => []NoHindsight
<1>1. ASSUME IndInv, NEW c \in contexts, NEW r \in Receipts(c)
      PROVE  InHand(r.message, c.cutoff)
  <2>1. r \in Receipt /\ c \in Context
    BY <1>1, ReceiptsTyped DEF IndInv, TypeOK
  <2>2. r.message \in Messages /\ r.received \in Nat /\ c.cutoff \in Nat
    BY <2>1 DEF Receipt, Context
  <2>3. arrived[r.message] # None /\ arrived[r.message] <= r.received
    BY <1>1 DEF IndInv, DocsAreValid, InHand
  <2>4. r.received <= c.cutoff
    BY <1>1 DEF IndInv, DocsAreValid, ValidContext, Causal
  <2>5. arrived[r.message] \in Nat
    BY <1>1, <2>2, <2>3, ClockNat DEF IndInv, TypeOK
  <2>6. arrived[r.message] <= c.cutoff
    BY <2>2, <2>3, <2>4, <2>5
  <2> QED
    BY <2>3, <2>6 DEF InHand
<1>2. IndInv => NoHindsight
  BY <1>1 DEF NoHindsight
<1> QED
  BY Invariance, <1>2, PTL

\* Whoever decides has seen everything the route requires, on its own context.
THEOREM SeesFullPicture == Spec => []DecidedOnFullPicture
<1>1. ASSUME IndInv, NEW v \in reviews, v.verdict # "DEFER"
      PROVE  LET c == v.context IN
               /\ \E m \in MessagesOf(c.sources["market"]) : SymbolOf[m] = v.route.symbol
               /\ MessagesOf(c.sources["text"]) = v.route.evidence
               /\ Bars(c) = Latest(v.route.inputs, c.tail)
               /\ EventAt[Bars(c)[Len(Bars(c))]] = v.route.lastClose
  <2> DEFINE c == v.context
  <2>1. c \in contexts
    BY <1>1 DEF IndInv, TypeOK
  <2>2. c \in Context /\ ValidContext(c) /\ c.route = v.route /\ Missing(c) = {}
    BY <1>1, <2>1 DEF IndInv, TypeOK, DocsAreValid, ForRoute
  <2> HIDE DEF c
  <2>3. c.sources \in [Kinds -> Seq(Receipt)] /\ {"market", "closed_bars"} \subseteq c.required
    BY <2>2 DEF Context, ValidContext
  <2>4. c.sources["market"] # <<>> /\ c.sources["closed_bars"] # <<>>
    BY <2>2, <2>3 DEF Missing
  <2>5. \A k \in Kinds : c.sources[k] \in Seq(Receipt)
    BY <2>3
  <2>6. \E m \in MessagesOf(c.sources["market"]) : SymbolOf[m] = c.route.symbol
    <3>1. c.sources["market"] \in Seq(Receipt)
      BY <2>5 DEF Kinds
    <3>2. PICK r : r \in Listed(c.sources["market"])
      BY <2>4, <3>1, SomeReceipt
    <3>3. r \in Receipts(c)
      BY <3>2 DEF Receipts, Kinds
    <3>4. SymbolOf[r.message] \in {c.route.symbol, NoSymbol}
      BY <2>2, <3>3 DEF ValidContext
    <3>5. KindOf[r.message] = "market"
      BY <1>1, <2>1, <3>2 DEF IndInv, DocsAreValid, ValidSource, Kinds
    <3>6. r.message \in MessagesOf(c.sources["market"])
      BY <3>2 DEF MessagesOf
    <3>7. r.message \in Messages
      BY <3>3, <2>2, ReceiptsTyped DEF Receipt
    <3>8. SymbolOf[r.message] # NoSymbol
      BY <3>5, <3>7, ContextAssumption
    <3> QED
      BY <3>4, <3>6, <3>8
  <2>7. MessagesOf(c.sources["text"]) = c.route.evidence
    <3>1. CASE c.route.evidence = {}
      BY <2>2, <3>1 DEF ValidContext, ValidText
    <3>2. CASE c.route.evidence # {}
      <4>1. "text" \in c.required
        BY <2>2, <3>2 DEF ValidContext, ValidText
      <4>2. c.sources["text"] # <<>> /\ c.sources["text"] \in Seq(Receipt)
        BY <2>2, <2>5, <4>1 DEF Missing, Kinds
      <4>3. PICK r : r \in Listed(c.sources["text"])
        BY <4>2, SomeReceipt
      <4>4. MessagesOf(c.sources["text"]) # {}
        BY <4>3 DEF MessagesOf
      <4> QED
        BY <2>2, <4>4 DEF ValidContext, ValidText
    <3> QED
      BY <3>1, <3>2
  <2>8. Bars(c) # <<>>
    <3>1. c.sources["closed_bars"] \in Seq(Receipt) /\ c.sources["closed_bars"] # <<>>
      BY <2>4, <2>5 DEF Kinds
    <3>2. 1 \in DOMAIN c.sources["closed_bars"]
      BY <3>1
    <3>3. 1 \in DOMAIN Bars(c)
      BY <3>2 DEF Bars
    <3> QED
      BY <3>3
  <2>9. /\ Bars(c) = Latest(c.route.inputs, c.tail)
        /\ EventAt[Bars(c)[Len(Bars(c))]] = c.route.lastClose
    BY <2>2, <2>8 DEF ValidContext, ValidBars
  <2>10. c.route = v.route
    BY <2>2
  <2> QED
    BY <2>6, <2>7, <2>9, <2>10 DEF c
<1>2. IndInv => DecidedOnFullPicture
  BY <1>1 DEF DecidedOnFullPicture
<1> QED
  BY Invariance, <1>2, PTL

\* The age of the evidence at the review, and the clock it is from.
THEOREM AgeBounded == Spec => []AgeIsBounded
<1>1. ASSUME IndInv, NEW v \in reviews, NEW r \in Receipts(v.context)
      PROVE  /\ EventAt[r.message] <= v.route.routed
             /\ v.reviewed + v.context.captured <= EventAt[r.message] + r.ttl + v.route.deadline
  <2>1. v \in Review /\ v.context \in contexts /\ v.context \in Context
    BY <1>1 DEF IndInv, TypeOK
  <2>2. r \in Receipt
    BY <1>1, <2>1, ReceiptsTyped
  <2>3. EventAt[r.message] \in Nat
    BY <2>2, ContextAssumption DEF Receipt
  <2>4. r.ttl \in Nat
    BY <2>2 DEF Receipt
  <2>5. v.reviewed \in Nat /\ v.route \in Routes
    BY <2>1 DEF Review
  <2>6. v.route.deadline \in Nat
    BY <2>5, ContextAssumption DEF Route
  <2>7. v.context.captured \in Nat
    BY <2>1 DEF Context
  <2>8. v.context.route = v.route /\ v.reviewed <= v.route.deadline
    BY <1>1 DEF IndInv, DocsAreValid, ForRoute, ValidReview
  <2>9. EventAt[r.message] <= v.context.route.routed /\ v.context.captured <= EventAt[r.message] + r.ttl
    BY <1>1, <2>1 DEF IndInv, DocsAreValid, ValidContext, Causal
  <2>10. v.reviewed + v.context.captured <= EventAt[r.message] + r.ttl + v.route.deadline
    BY <2>3, <2>4, <2>5, <2>6, <2>7, <2>8, <2>9
  <2> QED
    BY <2>8, <2>9, <2>10
<1>2. IndInv => AgeIsBounded
  BY <1>1 DEF AgeIsBounded
<1> QED
  BY Invariance, <1>2, PTL

\* Closed bars that start a minute apart from their neighbours and end at the
\* decision bar are its last minutes, each of them: the position next to the
\* end where this fails would be wrong already at its right neighbour.
LEMMA ChainHasNoGap ==
  ASSUME NEW bars \in Seq(Messages), NEW last \in Nat,
         EventAt[bars[Len(bars)]] = last,
         \A n \in 1 .. Len(bars) - 1 : EventAt[bars[n + 1]] = EventAt[bars[n]] + Minute
  PROVE  \A n \in DOMAIN bars : EventAt[bars[n]] + (Len(bars) - n) * Minute = last
<1>1. Len(bars) \in Nat /\ DOMAIN bars = 1 .. Len(bars)
  OBVIOUS
<1>2. Minute \in Nat /\ \A n \in 1 .. Len(bars) : EventAt[bars[n]] \in Nat
  BY ContextAssumption
<1> DEFINE At(k) == EventAt[bars[Len(bars) - k]] + k * Minute
           Wrong == {k \in 0 .. Len(bars) - 1 : At(k) # last}
<1>3. Wrong = {}
  <2> SUFFICES ASSUME Wrong # {} PROVE FALSE
    OBVIOUS
  <2>1. PICK k \in Wrong : \A i \in Wrong : k <= i
    <3>1. Wrong \in SUBSET Nat
      BY <1>1
    <3> HIDE DEF Wrong
    <3> QED
      BY <3>1, LeastElement
  <2>2. k \in 0 .. Len(bars) - 1 /\ At(k) # last
    OBVIOUS
  <2>3. k # 0
    <3>1. 0 * Minute = 0
      BY <1>2
    <3>2. k = 0 => At(k) = EventAt[bars[Len(bars)]] + 0
      BY <1>1, <2>2, <3>1
    <3>3. Len(bars) \in 1 .. Len(bars)
      BY <1>1, <2>2
    <3> QED
      BY <1>2, <2>2, <3>2, <3>3
  <2>4. k - 1 \in 0 .. Len(bars) - 1 /\ k - 1 \notin Wrong
    BY <1>1, <2>1, <2>2, <2>3
  <2>5. At(k - 1) = last
    BY <2>4
  <2> DEFINE n == Len(bars) - k
  <2>6. /\ n \in 1 .. Len(bars) - 1 /\ n \in 1 .. Len(bars)
        /\ Len(bars) - (k - 1) = n + 1
    BY <1>1, <2>2, <2>3
  <2>7. EventAt[bars[n + 1]] = EventAt[bars[n]] + Minute /\ EventAt[bars[n]] \in Nat
    BY <1>2, <2>6
  <2>8. (k - 1) * Minute + Minute = k * Minute /\ k * Minute \in Int /\ (k - 1) * Minute \in Int
    BY <1>2, <2>2
  <2>9. last = EventAt[bars[n]] + Minute + (k - 1) * Minute
    BY <2>5, <2>6, <2>7
  <2>10. last = EventAt[bars[n]] + k * Minute
    BY <1>2, <2>7, <2>8, <2>9
  <2> QED
    BY <2>2, <2>10
<1>4. ASSUME NEW n \in DOMAIN bars
      PROVE  EventAt[bars[n]] + (Len(bars) - n) * Minute = last
  <2>1. Len(bars) - n \in 0 .. Len(bars) - 1 /\ Len(bars) - (Len(bars) - n) = n
    BY <1>1, <1>4
  <2>2. At(Len(bars) - n) = last
    BY <1>3, <2>1
  <2> QED
    BY <2>1, <2>2
<1> QED
  BY <1>4

\* The bars of a published context are the last minutes before its decision.
THEOREM TailIsUnbroken == Spec => []TailHasNoGap
<1>1. ASSUME IndInv, NEW c \in contexts, NEW n \in DOMAIN Bars(c)
      PROVE  EventAt[Bars(c)[n]] + (Len(Bars(c)) - n) * Minute = c.route.lastClose
  <2>1. c \in Context /\ ValidBars(c)
    BY <1>1 DEF IndInv, TypeOK, DocsAreValid, ValidContext
  <2>2. c.route.lastClose \in Nat
    BY <2>1, ContextAssumption DEF Context, Route
  <2>3. c.sources["closed_bars"] \in Seq(Receipt)
    BY <2>1 DEF Context, Kinds
  <2>4. Bars(c) \in Seq(Messages)
    <3> DEFINE s == c.sources["closed_bars"]
    <3>1. Len(s) \in Nat /\ DOMAIN s = 1 .. Len(s)
      BY <2>3
    <3>2. \A i \in 1 .. Len(s) : s[i].message \in Messages
      <4>1. \A i \in 1 .. Len(s) : s[i] \in Receipt
        BY <2>3
      <4> QED
        BY <4>1 DEF Receipt
    <3>3. Bars(c) = [i \in 1 .. Len(s) |-> s[i].message]
      BY <3>1 DEF Bars
    <3> HIDE DEF s
    <3>4. [i \in 1 .. Len(s) |-> s[i].message] \in Seq(Messages)
      BY <3>1, <3>2
    <3> QED
      BY <3>3, <3>4
  <2>5. Bars(c) # <<>>
    BY <1>1
  <2> QED
    BY <1>1, <2>1, <2>2, <2>4, <2>5, ChainHasNoGap DEF ValidBars
<1>2. IndInv => TailHasNoGap
  BY <1>1 DEF TailHasNoGap
<1> QED
  BY Invariance, <1>2, PTL
=============================================================================
