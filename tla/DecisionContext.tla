--------------------------- MODULE DecisionContext ---------------------------
(***************************************************************************)
(* contracts/decision_context.py: the evidence a candidate is reviewed on. *)
(*                                                                         *)
(* Market snapshots, closed bars, text signals and macro allocations reach *)
(* the context service over the at-least-once bus: late, repeated, out of  *)
(* order, stamped by clocks that may be ahead.  The service notes the      *)
(* clock of the first receipt, loses its notes when it restarts, and at    *)
(* some moment captures for one route the cut of what it had received by   *)
(* a knowledge cutoff.  A reviewer then decides on that context.           *)
(* The two services are external; the contracts' validators decide what    *)
(* they can publish.  A hash stands for the value hashed, so a context     *)
(* holds its route and its receipts hold their messages.                   *)
(***************************************************************************)
EXTENDS Naturals, Sequences, FiniteSets

CONSTANTS
  Messages,    \* the source messages
  KindOf,      \* the contract of a message: one of Kinds
  EventAt,     \* when what it reports happened (close_time_ms of a bar)
  ProducedAt,  \* produced_at, as stamped by its producer
  Symbols,     \* symbols (a bar's with its venue)
  SymbolOf,    \* the symbol a message is about, or NoSymbol: a macro allocation,
  NoSymbol,    \*   and a text whose topic is not a pair, is about none
  Routes,      \* the CandidateRouteV1 documents
  Minute,      \* 60_000 ms
  None,        \* not received
  Tails,       \* bound: values of maximum_closed_bars
  Profiles,    \* bound: values of required_sources
  Ttls,        \* bound: values of ttl_ms
  MaxTime,     \* bound: the clock stops there
  MaxDocs,     \* bound: contexts and reviews published
  MaxRestarts  \* bound: restarts of the context service

Kinds == {"market", "closed_bars", "text", "macro"}

(* A route carries its candidate: the bars it declared as its inputs, and   *)
(* the close of its last one, which is decision_ts_ms, or for an observed   *)
(* SIM candidate the confirmation bar.                                      *)
Route == [symbol : Symbols, routed : Nat, deadline : Nat, inputs : Seq(Messages), lastClose : Nat,
          evidence : SUBSET Messages]

ASSUME ContextAssumption ==
  /\ KindOf \in [Messages -> Kinds]
  /\ EventAt \in [Messages -> Nat]
  /\ ProducedAt \in [Messages -> Nat]
  /\ SymbolOf \in [Messages -> Symbols \cup {NoSymbol}]
  /\ \A m \in Messages : KindOf[m] \in {"market", "closed_bars"} => SymbolOf[m] \in Symbols
  /\ NoSymbol \notin Symbols
  /\ Routes \subseteq Route
  /\ Minute \in Nat \ {0}
  /\ None \notin Nat
  /\ Tails \subseteq Nat \ {0}
  /\ Profiles \subseteq SUBSET Kinds
  /\ Ttls \subseteq Nat \ {0}
  /\ MaxTime \in Nat /\ MaxDocs \in Nat /\ MaxRestarts \in Nat

VARIABLES
  now,         \* the local clock of the two services
  received,    \* per message: the first receipt clock the service remembers
  contexts,    \* the DecisionContextV1 documents
  reviews,     \* the CandidateReviewV1 documents
  restarts,    \* restarts so far
  arrived      \* history: per message, when it was first received

docs == <<contexts, reviews>>
vars == <<now, received, docs, restarts, arrived>>

Clock == 0 .. MaxTime

Receipt == [message : Messages, received : Nat, ttl : Nat]

(* A source is the sequence of its receipts; the empty one is UNAVAILABLE. *)
Context == [route : Routes, cutoff : Nat, captured : Nat, tail : Nat,
            required : SUBSET Kinds, sources : [Kinds -> Seq(Receipt)]]

Review == [context : Context, route : Routes, reviewed : Nat,
           verdict : {"ALLOW", "VETO", "DEFER"}]

-----------------------------------------------------------------------------
Listed(source) == {source[n] : n \in DOMAIN source}

MessagesOf(source) == {r.message : r \in Listed(source)}

Receipts(c) == UNION {Listed(c.sources[k]) : k \in Kinds}

(* DecisionContextSourceV1.validate_source: typed payloads with their exact  *)
(* receipts, nothing twice, one snapshot in the market and macro slots.     *)
ValidSource(k, source) ==
  /\ \A r \in Listed(source) :
       KindOf[r.message] = k /\ EventAt[r.message] <= ProducedAt[r.message]
  /\ \A m, n \in DOMAIN source : m # n => source[m].message # source[n].message
  /\ k \in {"market", "macro"} => Len(source) <= 1

(* Mutant: a receipt is compared with the capture, not with the cutoff. *)
CausalUntilCapture(r, c) ==
  /\ EventAt[r.message] <= c.route.routed
  /\ ProducedAt[r.message] <= c.captured
  /\ r.received <= c.captured
  /\ ProducedAt[r.message] <= r.received
  /\ EventAt[r.message] <= r.received
  /\ c.captured <= EventAt[r.message] + r.ttl

(* Mutant: the age is not looked at. *)
CausalAtAnyAge(r, c) ==
  /\ EventAt[r.message] <= c.route.routed
  /\ ProducedAt[r.message] <= c.cutoff
  /\ r.received <= c.cutoff
  /\ ProducedAt[r.message] <= r.received
  /\ EventAt[r.message] <= r.received

(* What every receipt of a context must satisfy. *)
Causal(r, c) ==
  /\ EventAt[r.message] <= c.route.routed
  /\ ProducedAt[r.message] <= c.cutoff
  /\ r.received <= c.cutoff
  /\ ProducedAt[r.message] <= r.received
  /\ EventAt[r.message] <= r.received
  /\ c.captured <= EventAt[r.message] + r.ttl

(* input_bar_sha256s[-maximum:] *)
Latest(inputs, maximum) ==
  IF Len(inputs) <= maximum THEN inputs
  ELSE SubSeq(inputs, Len(inputs) - maximum + 1, Len(inputs))

Bars(c) == [n \in DOMAIN c.sources["closed_bars"] |-> c.sources["closed_bars"][n].message]

(* Mutant: the bars are not compared with their neighbours. *)
ValidBarsGapped(c) ==
  LET bars == Bars(c) IN
    bars # <<>> =>
      /\ bars = Latest(c.route.inputs, c.tail)
      /\ EventAt[bars[Len(bars)]] = c.route.lastClose

(* The tail of the declared inputs, up to the decision bar, without a gap. *)
ValidBars(c) ==
  LET bars == Bars(c) IN
    bars # <<>> =>
      /\ bars = Latest(c.route.inputs, c.tail)
      /\ EventAt[bars[Len(bars)]] = c.route.lastClose
      /\ \A n \in 1 .. Len(bars) - 1 : EventAt[bars[n + 1]] = EventAt[bars[n]] + Minute

(* The text of a context is exactly what its route refers to. *)
ValidText(c) ==
  LET text == MessagesOf(c.sources["text"]) IN
    /\ c.route.evidence # {} => "text" \in c.required
    /\ text # {} => text = c.route.evidence

(* DecisionContextV1.validate_context *)
ValidContext(c) ==
  /\ c.route.routed <= c.cutoff /\ c.cutoff <= c.captured
  /\ c.captured <= c.route.deadline
  /\ {"market", "closed_bars"} \subseteq c.required
  /\ ValidText(c)
  /\ \A r \in Receipts(c) :
       /\ Causal(r, c)
       /\ SymbolOf[r.message] \in {c.route.symbol, NoSymbol}
  /\ ValidBars(c)

(* missing_required_sources *)
MissingMarket(c) == {k \in {"market"} : c.sources[k] = <<>>}  \* mutant
Missing(c) == {k \in c.required : c.sources[k] = <<>>}

(* validate_for_route *)
ForRoute(c, route) == c.route = route

(* CandidateReviewV1.validate_review *)
ValidReview(v) == v.route.routed <= v.reviewed /\ v.reviewed <= v.route.deadline

-----------------------------------------------------------------------------
Init ==
  /\ now = 0
  /\ received = [m \in Messages |-> None]
  /\ contexts = {} /\ reviews = {}
  /\ restarts = 0
  /\ arrived = [m \in Messages |-> None]

Tick ==
  /\ now < MaxTime
  /\ now' = now + 1
  /\ UNCHANGED <<received, docs, restarts, arrived>>

(* A message is delivered, perhaps again; the first receipt clock stays.    *)
(* Its producer may have stamped any produced_at.                           *)
Receive(m) ==
  /\ received' = [received EXCEPT ![m] = IF @ = None THEN now ELSE @]
  /\ arrived' = [arrived EXCEPT ![m] = IF @ = None THEN now ELSE @]
  /\ UNCHANGED <<now, docs, restarts>>

(* The service starts again without its notes; the bus may redeliver. *)
Restart ==
  /\ restarts < MaxRestarts
  /\ restarts' = restarts + 1
  /\ received' = [m \in Messages |-> None]
  /\ UNCHANGED <<now, docs, arrived>>

(* The sources of one kind that the service can build from its notes. *)
SourcesOf(k, ttl) ==
  LET noted == {m \in Messages : KindOf[m] = k /\ received[m] # None}
      receipts == {[message |-> m, received |-> received[m], ttl |-> ttl] : m \in noted}
  IN  {s \in UNION {[1 .. n -> receipts] : n \in 0 .. Cardinality(noted)} : ValidSource(k, s)}

(* Mutant: a context is rebuilt without running its validator. *)
CaptureUnvalidated(c) ==
  /\ contexts' = contexts \cup {c}
  /\ UNCHANGED <<now, received, reviews, restarts, arrived>>

(* A context is captured from sources the service has noted, and stamped     *)
(* with its clock; everything else is its choice.                           *)
Capture(c) ==
  /\ ValidContext(c)
  /\ contexts' = contexts \cup {c}
  /\ UNCHANGED <<now, received, reviews, restarts, arrived>>

(* The reviewer takes a context for a route.  README.md:86-87: "Missing     *)
(* required [...] input means DEFER before model dispatch".                 *)
Conclude(v) ==
  /\ Cardinality(reviews) < MaxDocs
  /\ v.reviewed = now
  /\ ForRoute(v.context, v.route)
  /\ Missing(v.context) # {} => v.verdict = "DEFER"
  /\ ValidReview(v)
  /\ reviews' = reviews \cup {v}
  /\ UNCHANGED <<now, received, contexts, restarts, arrived>>

Next ==
  \/ Tick
  \/ Restart
  \/ \E m \in Messages : Receive(m)
  \/ /\ Cardinality(contexts) < MaxDocs
     /\ \E ttl \in Ttls :
          \E market \in SourcesOf("market", ttl), bars \in SourcesOf("closed_bars", ttl),
             text \in SourcesOf("text", ttl), macro \in SourcesOf("macro", ttl),
             route \in Routes, tail \in Tails, required \in Profiles :
            \E cutoff \in route.routed .. now :
              Capture([route |-> route, cutoff |-> cutoff, captured |-> now, tail |-> tail,
                       required |-> required,
                       sources |-> [market |-> market, closed_bars |-> bars,
                                    text |-> text, macro |-> macro]])
  \/ \E c \in contexts, route \in Routes, verdict \in {"ALLOW", "VETO", "DEFER"} :
       Conclude([context |-> c, route |-> route, reviewed |-> now, verdict |-> verdict])

Spec == Init /\ [][Next]_vars

-----------------------------------------------------------------------------
(* Clocks and documents have their contracts' fields, and a review rests on *)
(* a published context.                                                     *)
TypeOK ==
  /\ now \in Clock
  /\ received \in [Messages -> Clock \cup {None}]
  /\ contexts \subseteq Context
  /\ reviews \subseteq {v \in Review : v.context \in contexts}
  /\ restarts \in 0 .. MaxRestarts
  /\ arrived \in [Messages -> Clock \cup {None}]

(* The receiver had message m at clock t. *)
InHand(m, t) == arrived[m] # None /\ arrived[m] <= t

(* The service's notes are never earlier than the truth, whatever restarts  *)
(* and redeliveries there were.                                             *)
NotesAreTrue ==
  /\ \A m \in Messages : arrived[m] # None => arrived[m] <= now
  /\ \A m \in Messages : received[m] # None => received[m] <= now /\ InHand(m, received[m])

(* Published documents passed their validators, on true receipts. *)
DocsAreValid ==
  /\ \A c \in contexts :
       /\ ValidContext(c)
       /\ \A k \in Kinds : ValidSource(k, c.sources[k])
       /\ \A r \in Receipts(c) : InHand(r.message, r.received)
  /\ \A v \in reviews :
       /\ ValidReview(v) /\ ForRoute(v.context, v.route)
       /\ Missing(v.context) # {} => v.verdict = "DEFER"

IndInv == TypeOK /\ NotesAreTrue /\ DocsAreValid

(* No hindsight (decision_context.py:215-229): whatever a context shows had *)
(* reached the service by its knowledge cutoff.  A late message with a      *)
(* backdated stamp does not enter, and a receipt noted anew after a restart *)
(* brings in nothing the service did not have by then.                      *)
NoHindsight ==
  \A c \in contexts : \A r \in Receipts(c) : InHand(r.message, c.cutoff)

(* An absent source is never read as a neutral one: whoever decides on a    *)
(* candidate has seen, on a context of that very route, its market, its     *)
(* exact bar tail up to the decision bar and all the text it refers to.     *)
DecidedOnFullPicture ==
  \A v \in reviews : v.verdict # "DEFER" =>
    LET c == v.context IN
      /\ \E m \in MessagesOf(c.sources["market"]) : SymbolOf[m] = v.route.symbol
      /\ MessagesOf(c.sources["text"]) = v.route.evidence
      /\ Bars(c) = Latest(v.route.inputs, c.tail)
      /\ EventAt[Bars(c)[Len(Bars(c))]] = v.route.lastClose

(* The bars of a context are the last minutes before its decision bar, each *)
(* of them, in order: no bar can be dropped from or swapped in the tail.    *)
TailHasNoGap ==
  \A c \in contexts :
    LET bars == Bars(c) IN
      \A n \in DOMAIN bars : EventAt[bars[n]] + (Len(bars) - n) * Minute = c.route.lastClose

(* Evidence is not fresh at the review, which nobody checks: only the        *)
(* capture is compared with the ttl.  But the route bounds the excess by    *)
(* what was left until its deadline, and no evidence is from after routing. *)
AgeIsBounded ==
  \A v \in reviews : \A r \in Receipts(v.context) :
    /\ EventAt[r.message] <= v.route.routed
    /\ v.reviewed + v.context.captured <= EventAt[r.message] + r.ttl + v.route.deadline

=============================================================================
