---------------------------- MODULE MCPaperTrade ----------------------------
(***************************************************************************)
(* A LONG, a SHORT and an observed SIM candidate on one symbol, each with  *)
(* an ALLOW review, and a VETO of the LONG one.  Two measurements are of   *)
(* use; one has less depth than assessed, one is of a symbol that is not   *)
(* a DEV instrument.                                                       *)
(***************************************************************************)
EXTENDS PaperTrade

Candidate(version, side, stop, target) ==
  [version |-> version, side |-> side, expires |-> 1, stop |-> stop, target |-> target]
Up == Candidate("strategy-intent.v1", "LONG", 11, 16)
Down == Candidate("strategy-intent.v1", "SHORT", 13, 9)
Observed == Candidate("strategy-intent.observed-sim.v2", "LONG", 11, 16)
MCIntents == {Up, Down, Observed}

Review(intent, verdict) == [intent |-> intent, verdict |-> verdict, reviewed |-> 0]
MCReviews == {Review(i, "ALLOW") : i \in MCIntents} \cup {Review(Up, "VETO")}

Measurement(symbol, bid, ask, assessed) ==
  [symbol |-> symbol, profile |-> "DEV", bid |-> bid, ask |-> ask, assessed |-> assessed,
   depth |-> 26, allowed |-> TRUE, observed |-> 0, expires |-> 0,
   fee |-> 100, buySlippage |-> 50, sellSlippage |-> 50]
MCMeasurements ==
  {Measurement("BTCUSD:DEV", 12, 13, 26), Measurement("BTCUSD:DEV", 11, 12, 26),
   Measurement("BTCUSD:DEV", 12, 13, 27), Measurement("BTCUSD", 12, 13, 26)}

MCEnvironments ==
  {[mode |-> "PAPER", profile |-> "DEV", symbol |-> s] : s \in {"BTCUSD:DEV", "BTCUSD"}}
=============================================================================
