-------------------------- MODULE MCDecisionContext --------------------------
(***************************************************************************)
(* Three routes: one refers to a text; one refers to none and declares its *)
(* bars in the wrong order; one is of a symbol nothing is known about.     *)
(* Every message says 1 or, the first bar, 0: one that arrives before that *)
(* comes from a producer whose clock is ahead.                             *)
(***************************************************************************)
EXTENDS DecisionContext, TLC

CONSTANTS snapshot, bar0, bar1, note, mine, other

MCKindOf == snapshot :> "market" @@ bar0 :> "closed_bars" @@ bar1 :> "closed_bars"
            @@ note :> "text"
MCEventAt == snapshot :> 1 @@ bar0 :> 0 @@ bar1 :> 1 @@ note :> 1
MCProducedAt == snapshot :> 1 @@ bar0 :> 0 @@ bar1 :> 1 @@ note :> 1
MCSymbolOf == snapshot :> mine @@ bar0 :> mine @@ bar1 :> mine @@ note :> NoSymbol

Referring == [symbol |-> mine, routed |-> 1, deadline |-> 2, inputs |-> <<bar0, bar1>>,
              lastClose |-> 1, evidence |-> {note}]
Reordered == [Referring EXCEPT !.inputs = <<bar1, bar0>>, !.lastClose = 0, !.evidence = {}]
Elsewhere == [Referring EXCEPT !.symbol = other]
MCRoutes == {Referring, Reordered, Elsewhere}

Strict == {"market", "closed_bars", "text"}
MCProfiles == {Strict, Strict \ {"text"}}
=============================================================================
