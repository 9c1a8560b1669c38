------------------------ MODULE MCSimulationLineage ------------------------
(***************************************************************************)
(* Two candidates on two markets with overlapping entry windows, the       *)
(* second off the allowlist, a session that ends within the first window,  *)
(* two usable frames and four that fail one check on a frame each: another *)
(* market, a gap, too old, too slow.                                       *)
(***************************************************************************)
EXTENDS SimulationLineage, TLC

CONSTANTS i1, i2

MCIntents == {i1, i2}
MCDecided == (i1 :> 0) @@ (i2 :> 0)
MCEligible == (i1 :> 4) @@ (i2 :> 2)
MCExpires == (i1 :> 5) @@ (i2 :> 4)
MCMarketOf == (i1 :> "BTC") @@ (i2 :> "ETH")

Frame(market, exchange, persisted, continuity) ==
  [market |-> market, exchange |-> exchange, persisted |-> persisted, continuity |-> continuity]

MCFrames == {Frame("BTC", 3, 3, "ADMITTED"), Frame("BTC", 3, 4, "ADMITTED"),
             Frame("ETH", 3, 3, "ADMITTED"), Frame("BTC", 3, 3, "GAP"),
             Frame("BTC", 0, 0, "ADMITTED"), Frame("BTC", 2, 4, "ADMITTED")}
=============================================================================
