------------------------ MODULE MCSimulationJournal ------------------------
(***************************************************************************)
(* Two interchangeable trades; one event type of each class that the       *)
(* validator treats alike.                                                 *)
(***************************************************************************)
EXTENDS SimulationJournal, TLC

Interchangeable == Permutations(Trades)
=============================================================================
