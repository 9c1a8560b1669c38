------------------------- MODULE SimulationJournal -------------------------
(***************************************************************************)
(* The lifecycle journals of one simulator session                         *)
(* (kairos_core/contracts/simulation.py).  Every trade has an append-only, *)
(* hash-chained journal of SimulationTradeEventV2 facts; a closer collects *)
(* the journals' heads, one trade after another and while the simulator is *)
(* still appending, into a SimulationSessionReceiptV1; the outcome of a    *)
(* trade is published as a SimulationResultV1.                             *)
(*                                                                         *)
(* The package holds the validators of these documents, and each validator *)
(* sees one document.  The simulator that emits events and the store that  *)
(* chains them are other programs: here they may append whatever an event  *)
(* validator accepts and the hash chain can hold, in any order.            *)
(***************************************************************************)
EXTENDS Naturals, Sequences, FiniteSets, FiniteSetsExt

CONSTANTS Trades,      \* the trades of the session
          Types,       \* the event types the simulator emits
          Quantities,  \* the quantities a model fill may have, besides 0
          MaxEvents    \* bound: events explored, all journals together

EntryFillTypes == {"ENTRY_FILLED", "ENTRY_PARTIAL"}
ExitTypes == {"STOP_TRIGGERED", "TARGET_TRIGGERED", "TIMEOUT_TRIGGERED", "FLAT"}
BarrierTypes == {"NO_ADMITTED_BOOK", "SOURCE_BARRIER", "UNRESOLVED"}
EventTypes == EntryFillTypes \cup ExitTypes \cup BarrierTypes
                \cup {"ADMITTED", "ENTRY_NO_FILL", "RECOVERED"}

Terminal == {"FLAT", "UNRESOLVED", "NO_FILL", "BLOCKED"}
States == {"PENDING", "ACTIVE"} \cup Terminal
NoState == "none"

ASSUME JournalAssumption ==
  /\ Types \subseteq EventTypes
  /\ Quantities \subseteq Nat \ {0}
  /\ MaxEvents \in Nat

VARIABLES journal,  \* journal[t]: the events of trade t, oldest first
          heads,    \* heads[t]: what the closer last read of t's journal
          receipt,  \* the session receipt, or NoReceipt
          results   \* results[t]: the published result of t, or NoResult

vars == <<journal, heads, receipt, results>>

Event == [seq : Nat \ {0}, type : EventTypes, from : States \cup {NoState},
          to : States, quantity : Nat]

-----------------------------------------------------------------------------
(* SimulationTradeEventV2.validate_event, rule by rule.  The evidence that *)
(* a fill must name (command, receipt, frame, price) is abstracted to its  *)
(* quantity: positive, zero, or either.                                    *)

RootRule(e) ==
  /\ (e.seq = 1) <=> (e.from = NoState)
  /\ e.seq = 1 => e.type = "ADMITTED" /\ e.to = "PENDING"
  /\ e.seq > 1 => e.type # "ADMITTED"

\* Mutant: a partially filled entry may be filled further.
EntryRuleTopUp(e) ==
  /\ e.type \in EntryFillTypes => e.from \in {"PENDING", "ACTIVE"} /\ e.to = "ACTIVE"
  /\ e.type = "ENTRY_NO_FILL" => e.from = "PENDING" /\ e.to = "NO_FILL"

EntryRule(e) ==
  /\ e.type \in EntryFillTypes => e.from = "PENDING" /\ e.to = "ACTIVE"
  /\ e.type = "ENTRY_NO_FILL" => e.from = "PENDING" /\ e.to = "NO_FILL"

\* Mutant: an exit may also continue from unresolved exposure.
ExitRuleResumed(e) ==
  e.type \in ExitTypes =>
    e.from \in {"ACTIVE", "UNRESOLVED"} /\ e.to \in {"FLAT", "UNRESOLVED"}

ExitRule(e) ==
  e.type \in ExitTypes => e.from = "ACTIVE" /\ e.to \in {"FLAT", "UNRESOLVED"}

\* Mutant: recovery restores a live state.
RecoveryRuleRevives(e) == e.type = "RECOVERED" => e.to \in {e.from, "PENDING"}

RecoveryRule(e) == e.type = "RECOVERED" => e.from = e.to

BarrierRule(e) ==
  /\ e.type \in BarrierTypes => e.to \in {"BLOCKED", "UNRESOLVED"}
  /\ e.type = "UNRESOLVED" => e.from \in {"PENDING", "ACTIVE"}

FillRule(e) ==
  /\ e.type \in EntryFillTypes \cup (ExitTypes \ {"FLAT"}) => e.quantity > 0
  /\ e.type \notin EntryFillTypes \cup ExitTypes => e.quantity = 0

ValidEvent(e) == /\ RootRule(e)
                 /\ EntryRule(e)
                 /\ ExitRule(e)
                 /\ RecoveryRule(e)
                 /\ BarrierRule(e)
                 /\ FillRule(e)

-----------------------------------------------------------------------------
StateOf(j) == IF j = <<>> THEN NoState ELSE j[Len(j)].to

\* The hash chain: an event extends the journal whose head it names, and
\* starts from the state that head ended in.
Chained(e, j) == e.seq = Len(j) + 1 /\ e.from = StateOf(j)

EntryFills(j) == {n \in DOMAIN j : j[n].type \in EntryFillTypes}
ExitFills(j) == {n \in DOMAIN j : j[n].type \in ExitTypes /\ j[n].quantity > 0}

Total(j, fills) == SumFunction([n \in fills |-> j[n].quantity])

HeadOf(t) == [state |-> StateOf(journal[t]), count |-> Len(journal[t])]
NoHead == [state |-> NoState, count |-> 0]

NoReceipt == [state |-> "none", journals |-> [t \in Trades |-> NoHead]]

\* SimulationSessionReceiptV1: a COMPLETED session has only terminal journals.
ValidReceipt(r) ==
  r.state = "COMPLETED" =>
    \A t \in Trades : r.journals[t].count > 0 => r.journals[t].state \in Terminal

NoResult == [state |-> "none", entry |-> 0, exit |-> 0]

ResultOf(j) == [state |-> StateOf(j), entry |-> Total(j, EntryFills(j)),
                exit |-> Total(j, ExitFills(j))]

\* Mutant: a result may name a state that is not final.
ValidResultLive(r) ==
  /\ r.state = "FLAT" => r.entry > 0 /\ r.exit = r.entry
  /\ r.state = "UNRESOLVED" => r.entry > 0 /\ r.exit < r.entry

\* SimulationResultV1.validate_result.
ValidResult(r) ==
  /\ r.state \in Terminal
  /\ r.entry \in Nat /\ r.exit \in Nat
  /\ r.state = "FLAT" => r.entry > 0 /\ r.exit = r.entry
  /\ r.state = "UNRESOLVED" => r.entry > 0 /\ r.exit < r.entry
  /\ r.state \in {"NO_FILL", "BLOCKED"} => r.entry = 0 /\ r.exit = 0

-----------------------------------------------------------------------------
Init == /\ journal = [t \in Trades |-> <<>>]
        /\ heads = [t \in Trades |-> NoHead]
        /\ receipt = NoReceipt
        /\ results = [t \in Trades |-> NoResult]

\* The store takes an event its validator accepts and the chain can hold.
Append1(t, e) == /\ MapThenSumSet(LAMBDA u : Len(journal[u]), Trades) < MaxEvents
                 /\ Chained(e, journal[t])
                 /\ ValidEvent(e)
                 /\ journal' = [journal EXCEPT ![t] = Append(@, e)]
                 /\ UNCHANGED <<heads, receipt, results>>

Emit(t) ==
  \E type \in Types, to \in States, q \in Quantities \cup {0} :
    Append1(t, [seq |-> Len(journal[t]) + 1, type |-> type,
                from |-> StateOf(journal[t]), to |-> to, quantity |-> q])

\* The closer reads, or reads again, one journal's head.
ReadHead(t) == /\ receipt = NoReceipt
               /\ journal[t] # <<>>
               /\ heads' = [heads EXCEPT ![t] = HeadOf(t)]
               /\ UNCHANGED <<journal, receipt, results>>

\* The closer publishes what it collected, however old the readings are.
Close(state) == LET r == [state |-> state, journals |-> heads]
                IN  /\ receipt = NoReceipt
                    /\ ValidReceipt(r)
                    /\ receipt' = r
                    /\ UNCHANGED <<journal, heads, results>>

\* A trade's result is published from its journal.
Publish(t) == /\ results[t] = NoResult
              /\ ValidResult(ResultOf(journal[t]))
              /\ results' = [results EXCEPT ![t] = ResultOf(journal[t])]
              /\ UNCHANGED <<journal, heads, receipt>>

Next == \/ \E t \in Trades : Emit(t) \/ ReadHead(t) \/ Publish(t)
        \/ \E state \in {"COMPLETED", "BLOCKED"} : Close(state)

Spec == Init /\ [][Next]_vars

-----------------------------------------------------------------------------
HeadRecord == [state : States \cup {NoState}, count : Nat]

\* Journals are sequences of well-formed events, and a reading, a receipt and
\* a result have the shape their contracts give them.
TypeOK ==
  /\ journal \in [Trades -> Seq(Event)]
  /\ heads \in [Trades -> HeadRecord]
  /\ receipt \in [state : {"none", "COMPLETED", "BLOCKED"}, journals : [Trades -> HeadRecord]]
  /\ results \in [Trades -> [state : Terminal \cup {NoState}, entry : Nat, exit : Nat]]

Exposure(j) ==
  /\ \A m, n \in EntryFills(j) : m = n
  /\ \A m, n \in ExitFills(j) : m = n
  /\ \A n \in ExitFills(j) : \E m \in EntryFills(j) : m < n
  /\ StateOf(j) \in {NoState, "PENDING", "NO_FILL"} => EntryFills(j) = {}
  /\ StateOf(j) \in {"ACTIVE", "FLAT"} => EntryFills(j) # {}
  /\ StateOf(j) = "ACTIVE" => ExitFills(j) = {}

\* What a journal's last state says of its fills is true of its whole
\* history: a pending or unfilled trade never had an entry fill, an active or
\* flat one had exactly one, and no trade is entered twice, exited twice or
\* exited before it is entered -- although each event is validated alone.
ExposureKnown == \A t \in Trades : Exposure(journal[t])

\* The journal j is over, and the head h reports every fill it will have.
Final(h, j) == /\ StateOf(j) \in Terminal
               /\ EntryFills(j) \cup ExitFills(j) \subseteq 1 .. h.count

\* A COMPLETED receipt is final although its heads were read one by one under
\* running writers: every trade it lists is terminal now and its journal has
\* gained no fill since the head it reports.
ReceiptIsFinal ==
  receipt.state = "COMPLETED" =>
    \A t \in Trades :
      receipt.journals[t].count > 0 => Final(receipt.journals[t], journal[t])

\* A published result stays true: whatever is appended to the journal later,
\* a recovery note or a source barrier, the quantities the result reports are
\* the quantities of the journal's fills.
ResultsStayTrue ==
  \A t \in Trades :
    results[t] # NoResult =>
      /\ results[t].entry = Total(journal[t], EntryFills(journal[t]))
      /\ results[t].exit = Total(journal[t], ExitFills(journal[t]))

\* The strengthening of ExposureKnown, ReceiptIsFinal and ResultsStayTrue that
\* every step preserves: any reading, published or not, that saw a terminal
\* state saw every fill, and a result is published of a journal that is over.
IndInv ==
  /\ TypeOK
  /\ ExposureKnown
  /\ \A t \in Trades : \A h \in {heads[t], receipt.journals[t]} :
       h.count > 0 /\ h.state \in Terminal => Final(h, journal[t])
  /\ ValidReceipt(receipt)
  /\ \A t \in Trades : results[t] # NoResult => StateOf(journal[t]) \in Terminal
  /\ ResultsStayTrue
=============================================================================
