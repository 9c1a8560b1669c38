---------------------- MODULE SimulationJournalProofs ----------------------
(***************************************************************************)
(* For every set of trades, event types and quantities and every length of *)
(* journal: TypeOK, ExposureKnown, ReceiptIsFinal and ResultsStayTrue are  *)
(* invariants of SimulationJournal.  What makes receipts and results final *)
(* is that an event leaves a terminal state only for another one, and that *)
(* no fill starts from a terminal state.                                   *)
(***************************************************************************)
EXTENDS SimulationJournal, TLAPS

\* The last state of a journal is a lifecycle state, or none when it is empty.
LEMMA LastState ==
  ASSUME NEW j \in Seq(Event)
  PROVE  /\ StateOf(j) \in States \cup {NoState}
         /\ j # <<>> => StateOf(j) \in States
<1>1. CASE j = <<>>
  BY <1>1 DEF StateOf
<1>2. CASE j # <<>>
  <2>1. Len(j) \in 1 .. Len(j) /\ j[Len(j)] \in Event
    BY <1>2
  <2>2. j[Len(j)].to \in States
    BY <2>1 DEF Event
  <2> QED
    BY <1>2, <2>2 DEF StateOf
<1> QED
  BY <1>1, <1>2

\* What appending one event does to a journal's state and to its fills.
LEMMA Appended ==
  ASSUME NEW j \in Seq(Event), NEW e \in Event
  PROVE  /\ Append(j, e) \in Seq(Event)
         /\ StateOf(Append(j, e)) = e.to
         /\ EntryFills(Append(j, e)) =
              EntryFills(j) \cup (IF e.type \in EntryFillTypes THEN {Len(j) + 1} ELSE {})
         /\ ExitFills(Append(j, e)) =
              ExitFills(j) \cup
                (IF e.type \in ExitTypes /\ e.quantity > 0 THEN {Len(j) + 1} ELSE {})
<1> DEFINE k == Append(j, e)
<1>1. k \in Seq(Event) /\ k # <<>> /\ Len(k) = Len(j) + 1 /\ Len(j) \in Nat
  OBVIOUS
<1>2. k[Len(j) + 1] = e /\ \A n \in 1 .. Len(j) : k[n] = j[n]
  OBVIOUS
<1>3. DOMAIN k = 1 .. Len(j) + 1 /\ DOMAIN j = 1 .. Len(j)
  OBVIOUS
<1>4. DOMAIN k = DOMAIN j \cup {Len(j) + 1} /\ Len(j) + 1 \notin DOMAIN j
  BY <1>1, <1>3
<1> HIDE DEF k
<1>5. StateOf(k) = e.to
  BY <1>1, <1>2 DEF StateOf
<1>6. EntryFills(k) = EntryFills(j) \cup (IF e.type \in EntryFillTypes THEN {Len(j) + 1} ELSE {})
  BY <1>2, <1>3, <1>4 DEF EntryFills
<1>7. ExitFills(k) =
        ExitFills(j) \cup (IF e.type \in ExitTypes /\ e.quantity > 0 THEN {Len(j) + 1} ELSE {})
  BY <1>2, <1>3, <1>4 DEF ExitFills
<1> QED
  BY <1>1, <1>5, <1>6, <1>7 DEF k

\* A valid event that extends a journal keeps what its state says of its fills.
LEMMA ExposureKept ==
  ASSUME NEW j \in Seq(Event), Exposure(j),
         NEW e \in Event, ValidEvent(e), Chained(e, j)
  PROVE  Exposure(Append(j, e))
<1> DEFINE k == Append(j, e)
<1>1. Len(j) \in Nat /\ e.from = StateOf(j) /\ e.seq = Len(j) + 1
  BY DEF Chained
<1>2. /\ StateOf(k) = e.to
      /\ EntryFills(k) =
           EntryFills(j) \cup (IF e.type \in EntryFillTypes THEN {Len(j) + 1} ELSE {})
      /\ ExitFills(k) =
           ExitFills(j) \cup
             (IF e.type \in ExitTypes /\ e.quantity > 0 THEN {Len(j) + 1} ELSE {})
  BY Appended
<1>3. EntryFills(j) \subseteq 1 .. Len(j) /\ ExitFills(j) \subseteq 1 .. Len(j)
  BY DEF EntryFills, ExitFills
<1> SUFFICES Exposure(k)
  OBVIOUS
<1> HIDE DEF k
<1>4. CASE e.type \in EntryFillTypes
  <2>1. StateOf(j) = "PENDING" /\ e.to = "ACTIVE" /\ e.type \notin ExitTypes
    BY <1>1, <1>4 DEF ValidEvent, EntryRule, EntryFillTypes, ExitTypes
  <2>2. EntryFills(j) = {}
    BY <2>1 DEF Exposure
  <2>3. ExitFills(j) = {}
    BY <2>2 DEF Exposure
  <2> QED
    BY <1>2, <1>4, <2>1, <2>2, <2>3 DEF Exposure, NoState
<1>5. CASE e.type \in ExitTypes
  <2>1. StateOf(j) = "ACTIVE" /\ e.to \in {"FLAT", "UNRESOLVED"} /\ e.type \notin EntryFillTypes
    BY <1>1, <1>5 DEF ValidEvent, ExitRule, EntryFillTypes, ExitTypes
  <2>2. EntryFills(j) # {} /\ ExitFills(j) = {}
    BY <2>1 DEF Exposure
  <2>3. \A m \in EntryFills(j) : m < Len(j) + 1
    BY <1>1, <1>3
  <2> QED
    BY <1>2, <1>5, <2>1, <2>2, <2>3 DEF Exposure, NoState
<1>6. CASE e.type \notin EntryFillTypes \cup ExitTypes
  <2>1. EntryFills(k) = EntryFills(j) /\ ExitFills(k) = ExitFills(j) /\ StateOf(k) = e.to
    BY <1>2, <1>6
  <2>2. CASE e.type = "ADMITTED"
    <3>1. StateOf(j) = NoState /\ e.to = "PENDING"
      BY <1>1, <2>2 DEF ValidEvent, RootRule, Event
    <3> QED
      BY <2>1, <3>1 DEF Exposure, NoState
  <2>3. CASE e.type = "ENTRY_NO_FILL"
    <3>1. StateOf(j) = "PENDING" /\ e.to = "NO_FILL"
      BY <1>1, <2>3 DEF ValidEvent, EntryRule
    <3> QED
      BY <2>1, <3>1 DEF Exposure, NoState
  <2>4. CASE e.type = "RECOVERED"
    <3>1. e.to = StateOf(j)
      BY <1>1, <2>4 DEF ValidEvent, RecoveryRule
    <3> QED
      BY <2>1, <3>1 DEF Exposure
  <2>5. CASE e.type \in BarrierTypes
    <3>1. e.to \in {"BLOCKED", "UNRESOLVED"}
      BY <2>5 DEF ValidEvent, BarrierRule
    <3> QED
      BY <2>1, <3>1 DEF Exposure, NoState
  <2> QED
    BY <1>6, <2>2, <2>3, <2>4, <2>5 DEF Event, EventTypes
<1> QED
  BY <1>4, <1>5, <1>6

\* A journal that is over stays over: a valid event neither revives it nor
\* adds a fill to it.
LEMMA OverKept ==
  ASSUME NEW j \in Seq(Event), StateOf(j) \in Terminal,
         NEW e \in Event, ValidEvent(e), Chained(e, j)
  PROVE  /\ StateOf(Append(j, e)) \in Terminal
         /\ EntryFills(Append(j, e)) = EntryFills(j)
         /\ ExitFills(Append(j, e)) = ExitFills(j)
<1>1. e.from \in Terminal /\ e.from = StateOf(j)
  BY DEF Chained
<1>2. e.type \notin EntryFillTypes \cup ExitTypes \cup {"ENTRY_NO_FILL"}
  BY <1>1 DEF ValidEvent, EntryRule, ExitRule, Terminal
<1>3. e.type # "ADMITTED"
  BY <1>1 DEF ValidEvent, RootRule, Terminal, NoState, Event
<1>4. e.to \in Terminal
  <2>1. CASE e.type = "RECOVERED"
    BY <1>1, <2>1 DEF ValidEvent, RecoveryRule
  <2>2. CASE e.type \in BarrierTypes
    BY <2>2 DEF ValidEvent, BarrierRule, Terminal
  <2> QED
    BY <1>2, <1>3, <2>1, <2>2 DEF Event, EventTypes
<1> QED
  BY <1>2, <1>4, Appended

\* A head that reports every fill of a finished journal goes on doing so.
LEMMA FinalKept ==
  ASSUME NEW j \in Seq(Event), NEW h, Final(h, j),
         NEW e \in Event, ValidEvent(e), Chained(e, j)
  PROVE  Final(h, Append(j, e))
BY OverKept DEF Final

\* Appending to a finished journal changes the total of none of its fills.
LEMMA TotalsKept ==
  ASSUME NEW j \in Seq(Event), StateOf(j) \in Terminal,
         NEW e \in Event, ValidEvent(e), Chained(e, j)
  PROVE  /\ Total(Append(j, e), EntryFills(Append(j, e))) = Total(j, EntryFills(j))
         /\ Total(Append(j, e), ExitFills(Append(j, e))) = Total(j, ExitFills(j))
<1> DEFINE k == Append(j, e)
<1>1. EntryFills(k) = EntryFills(j) /\ ExitFills(k) = ExitFills(j)
  BY OverKept
<1>2. EntryFills(j) \subseteq 1 .. Len(j) /\ ExitFills(j) \subseteq 1 .. Len(j)
  BY DEF EntryFills, ExitFills
<1>3. \A n \in 1 .. Len(j) : k[n] = j[n]
  OBVIOUS
<1> HIDE DEF k
<1>4. \A fills : fills \subseteq 1 .. Len(j) => Total(k, fills) = Total(j, fills)
  <2> SUFFICES ASSUME NEW fills, fills \subseteq 1 .. Len(j)
               PROVE  Total(k, fills) = Total(j, fills)
    OBVIOUS
  <2>1. [n \in fills |-> k[n].quantity] = [n \in fills |-> j[n].quantity]
    BY <1>3
  <2> QED
    BY <2>1 DEF Total
<1> QED
  BY <1>1, <1>2, <1>4 DEF k

-----------------------------------------------------------------------------
\* The empty session satisfies the inductive invariant.
LEMMA InitInv == Init => IndInv
<1> SUFFICES ASSUME Init PROVE IndInv
  OBVIOUS
<1>1. TypeOK
  BY DEF Init, TypeOK, HeadRecord, NoHead, NoReceipt, NoResult, NoState
<1>2. ExposureKnown
  <2> SUFFICES ASSUME NEW t \in Trades PROVE Exposure(<<>>)
    BY DEF Init, ExposureKnown
  <2>1. EntryFills(<<>>) = {} /\ ExitFills(<<>>) = {} /\ StateOf(<<>>) = NoState
    BY DEF EntryFills, ExitFills, StateOf
  <2> QED
    BY <2>1 DEF Exposure, NoState
<1>3. \A t \in Trades : heads[t].count = 0 /\ receipt.journals[t].count = 0
  BY DEF Init, NoHead, NoReceipt
<1>4. ValidReceipt(receipt)
  BY DEF Init, NoReceipt, ValidReceipt
<1>5. \A t \in Trades : results[t] = NoResult
  BY DEF Init
<1> QED
  BY <1>1, <1>2, <1>3, <1>4, <1>5 DEF IndInv, ResultsStayTrue

\* An event the store takes preserves the inductive invariant.
LEMMA EmitInv ==
  ASSUME IndInv, NEW t \in Trades, Emit(t)
  PROVE  IndInv'
<1>1. PICK type \in Types, to \in States, q \in Quantities \cup {0} :
        Append1(t, [seq |-> Len(journal[t]) + 1, type |-> type,
                    from |-> StateOf(journal[t]), to |-> to, quantity |-> q])
  BY DEF Emit
<1> DEFINE e == [seq |-> Len(journal[t]) + 1, type |-> type,
                 from |-> StateOf(journal[t]), to |-> to, quantity |-> q]
<1>2. journal \in [Trades -> Seq(Event)] /\ journal[t] \in Seq(Event)
  BY DEF IndInv, TypeOK
<1>3. e \in Event
  <2>1. Len(journal[t]) + 1 \in Nat \ {0}
    BY <1>2
  <2>2. type \in EventTypes /\ q \in Nat
    BY JournalAssumption
  <2>3. StateOf(journal[t]) \in States \cup {NoState}
    BY <1>2, LastState
  <2> QED
    BY <2>1, <2>2, <2>3 DEF Event
<1>4. /\ ValidEvent(e) /\ Chained(e, journal[t])
      /\ journal' = [journal EXCEPT ![t] = Append(journal[t], e)]
      /\ UNCHANGED <<heads, receipt, results>>
  BY <1>1 DEF Append1
<1> HIDE DEF e
<1>5. \A u \in Trades : journal'[u] = IF u = t THEN Append(journal[t], e) ELSE journal[u]
  BY <1>2, <1>4
<1>6. TypeOK'
  <2>1. Append(journal[t], e) \in Seq(Event)
    BY <1>2, <1>3
  <2>2. journal' \in [Trades -> Seq(Event)]
    BY <1>2, <1>4, <2>1
  <2> QED
    BY <1>4, <2>2 DEF IndInv, TypeOK
<1>7. ExposureKnown'
  <2> SUFFICES ASSUME NEW u \in Trades PROVE Exposure(journal'[u])
    BY DEF ExposureKnown
  <2>1. Exposure(journal[u])
    BY DEF IndInv, ExposureKnown
  <2>2. CASE u = t
    BY <1>2, <1>3, <1>4, <1>5, <2>1, <2>2, ExposureKept
  <2>3. CASE u # t
    BY <1>5, <2>1, <2>3
  <2> QED
    BY <2>2, <2>3
<1>8. \A u \in Trades : \A h \in {heads'[u], receipt'.journals[u]} :
        h.count > 0 /\ h.state \in Terminal => Final(h, journal'[u])
  <2> SUFFICES ASSUME NEW u \in Trades, NEW h \in {heads[u], receipt.journals[u]},
                      h.count > 0, h.state \in Terminal
               PROVE  Final(h, journal'[u])
    BY <1>4
  <2>1. Final(h, journal[u])
    BY DEF IndInv
  <2>2. CASE u = t
    BY <1>2, <1>3, <1>4, <1>5, <2>1, <2>2, FinalKept
  <2>3. CASE u # t
    BY <1>5, <2>1, <2>3
  <2> QED
    BY <2>2, <2>3
<1>9. ValidReceipt(receipt)'
  BY <1>4 DEF IndInv, ValidReceipt
<1>10. \A u \in Trades : results'[u] # NoResult =>
          /\ StateOf(journal'[u]) \in Terminal
          /\ results'[u].entry = Total(journal'[u], EntryFills(journal'[u]))
          /\ results'[u].exit = Total(journal'[u], ExitFills(journal'[u]))
  <2> SUFFICES ASSUME NEW u \in Trades, results[u] # NoResult
               PROVE  /\ StateOf(journal'[u]) \in Terminal
                      /\ results[u].entry = Total(journal'[u], EntryFills(journal'[u]))
                      /\ results[u].exit = Total(journal'[u], ExitFills(journal'[u]))
    BY <1>4
  <2>1. /\ StateOf(journal[u]) \in Terminal
        /\ results[u].entry = Total(journal[u], EntryFills(journal[u]))
        /\ results[u].exit = Total(journal[u], ExitFills(journal[u]))
    BY DEF IndInv, ResultsStayTrue
  <2>2. CASE u = t
    <3>1. StateOf(Append(journal[t], e)) \in Terminal
      BY <1>2, <1>3, <1>4, <2>1, <2>2, OverKept
    <3>2. /\ Total(Append(journal[t], e), EntryFills(Append(journal[t], e)))
               = Total(journal[t], EntryFills(journal[t]))
          /\ Total(Append(journal[t], e), ExitFills(Append(journal[t], e)))
               = Total(journal[t], ExitFills(journal[t]))
      BY <1>2, <1>3, <1>4, <2>1, <2>2, TotalsKept
    <3> QED
      BY <1>5, <2>1, <2>2, <3>1, <3>2
  <2>3. CASE u # t
    BY <1>5, <2>1, <2>3
  <2> QED
    BY <2>2, <2>3
<1> QED
  BY <1>6, <1>7, <1>8, <1>9, <1>10 DEF IndInv, ResultsStayTrue

\* A reading taken of a terminal journal reports all of its fills.
LEMMA ReadHeadInv ==
  ASSUME IndInv, NEW t \in Trades, ReadHead(t)
  PROVE  IndInv'
<1>1. /\ journal[t] # <<>> /\ heads' = [heads EXCEPT ![t] = HeadOf(t)]
      /\ journal' = journal /\ receipt' = receipt /\ results' = results
  BY DEF ReadHead
<1>2. /\ journal \in [Trades -> Seq(Event)] /\ journal[t] \in Seq(Event)
      /\ heads \in [Trades -> HeadRecord]
  BY DEF IndInv, TypeOK
<1>3. HeadOf(t) \in HeadRecord
  BY <1>2, LastState DEF HeadOf, HeadRecord
<1>4. \A u \in Trades : heads'[u] = IF u = t THEN HeadOf(t) ELSE heads[u]
  BY <1>1, <1>2
<1>5. TypeOK'
  BY <1>1, <1>2, <1>3 DEF IndInv, TypeOK
<1>6. HeadOf(t).state \in Terminal => Final(HeadOf(t), journal[t])
  BY <1>2 DEF HeadOf, Final, EntryFills, ExitFills
<1>7. \A u \in Trades : \A h \in {heads'[u], receipt'.journals[u]} :
        h.count > 0 /\ h.state \in Terminal => Final(h, journal'[u])
  <2> SUFFICES ASSUME NEW u \in Trades, NEW h \in {heads'[u], receipt.journals[u]},
                      h.count > 0, h.state \in Terminal
               PROVE  Final(h, journal[u])
    BY <1>1
  <2>1. CASE h = heads'[u] /\ u = t
    BY <1>4, <1>6, <2>1
  <2>2. CASE h \in {heads[u], receipt.journals[u]}
    BY <2>2 DEF IndInv
  <2> QED
    BY <1>4, <2>1, <2>2
<1> QED
  BY <1>1, <1>5, <1>7 DEF IndInv, ExposureKnown, ResultsStayTrue

\* A receipt that passes its validator preserves the inductive invariant.
LEMMA CloseInv ==
  ASSUME IndInv, NEW state \in {"COMPLETED", "BLOCKED"}, Close(state)
  PROVE  IndInv'
<1>1. /\ ValidReceipt(receipt') /\ receipt' = [state |-> state, journals |-> heads]
      /\ journal' = journal /\ heads' = heads /\ results' = results
  BY DEF Close
<1>2. TypeOK'
  BY <1>1 DEF IndInv, TypeOK
<1> QED
  BY <1>1, <1>2 DEF IndInv, ExposureKnown, ValidReceipt, ResultsStayTrue

\* A result is published of a journal that is over, and says what is in it.
LEMMA PublishInv ==
  ASSUME IndInv, NEW t \in Trades, Publish(t)
  PROVE  IndInv'
<1> DEFINE r == ResultOf(journal[t])
<1>1. /\ ValidResult(r) /\ results' = [results EXCEPT ![t] = r]
      /\ journal' = journal /\ heads' = heads /\ receipt' = receipt
  BY DEF Publish
<1>2. r \in [state : Terminal \cup {NoState}, entry : Nat, exit : Nat]
  BY <1>1 DEF ResultOf, ValidResult
<1>3. /\ StateOf(journal[t]) \in Terminal
      /\ r.entry = Total(journal[t], EntryFills(journal[t]))
      /\ r.exit = Total(journal[t], ExitFills(journal[t]))
  BY <1>1 DEF ResultOf, ValidResult
<1> HIDE DEF r
<1>4. TypeOK'
  BY <1>1, <1>2 DEF IndInv, TypeOK
<1>5. \A u \in Trades : results'[u] = IF u = t THEN r ELSE results[u]
  BY <1>1 DEF IndInv, TypeOK
<1>6. \A u \in Trades : results'[u] # NoResult =>
        /\ StateOf(journal'[u]) \in Terminal
        /\ results'[u].entry = Total(journal'[u], EntryFills(journal'[u]))
        /\ results'[u].exit = Total(journal'[u], ExitFills(journal'[u]))
  BY <1>1, <1>3, <1>5 DEF IndInv, ResultsStayTrue
<1> QED
  BY <1>1, <1>4, <1>6 DEF IndInv, ExposureKnown, ValidReceipt, ResultsStayTrue

-----------------------------------------------------------------------------
\* The inductive invariant holds in every state of every session.
THEOREM Invariance == Spec => []IndInv
<1>1. IndInv /\ [Next]_vars => IndInv'
  <2> SUFFICES ASSUME IndInv, [Next]_vars PROVE IndInv'
    OBVIOUS
  <2>1. ASSUME NEW t \in Trades, Emit(t) PROVE IndInv'
    BY <2>1, EmitInv
  <2>2. ASSUME NEW t \in Trades, ReadHead(t) PROVE IndInv'
    BY <2>2, ReadHeadInv
  <2>3. ASSUME NEW t \in Trades, Publish(t) PROVE IndInv'
    BY <2>3, PublishInv
  <2>4. ASSUME NEW state \in {"COMPLETED", "BLOCKED"}, Close(state) PROVE IndInv'
    BY <2>4, CloseInv
  <2>5. CASE UNCHANGED vars
    BY <2>5 DEF vars, IndInv, TypeOK, ExposureKnown, ValidReceipt, ResultsStayTrue
  <2> QED
    BY <2>1, <2>2, <2>3, <2>4, <2>5 DEF Next
<1> QED
  BY InitInv, <1>1, PTL DEF Spec

\* Journals, readings, receipts and results keep their shape.
THEOREM TypeCorrect == Spec => []TypeOK
<1>1. IndInv => TypeOK
  BY DEF IndInv
<1> QED
  BY Invariance, <1>1, PTL

\* What a journal's last state says of its fills is true of its history.
THEOREM ExposureIsKnown == Spec => []ExposureKnown
<1>1. IndInv => ExposureKnown
  BY DEF IndInv
<1> QED
  BY Invariance, <1>1, PTL

\* A COMPLETED session receipt is final, however its heads were collected.
THEOREM ReceiptsAreFinal == Spec => []ReceiptIsFinal
<1>1. IndInv => ReceiptIsFinal
  BY DEF IndInv, ReceiptIsFinal, ValidReceipt
<1> QED
  BY Invariance, <1>1, PTL

\* A published result stays true, whatever is appended to the journal later.
THEOREM ResultsAreTrue == Spec => []ResultsStayTrue
<1>1. IndInv => ResultsStayTrue
  BY DEF IndInv
<1> QED
  BY Invariance, <1>1, PTL
=============================================================================
