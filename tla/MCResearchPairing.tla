-------------------------- MODULE MCResearchPairing --------------------------
(* ResearchPairing for TLC: two attempts for the sample, a first one and a   *)
(* retry; the clock runs past the pairing clock, so every receipt can be     *)
(* late, and the strategy's documents may be about the neighbouring market.  *)
EXTENDS ResearchPairing, TLC

CONSTANTS first, second, own, neighbour

Retry == [a \in {first, second} |-> own]

(* Of the sample: one that has expired at the pairing clock, one that has    *)
(* not, one decided too late.  And one about the neighbour.                  *)
Emitted == {[decidedAt |-> AsOf, expires |-> 2, scope |-> own],
            [decidedAt |-> AsOf, expires |-> 3, scope |-> own],
            [decidedAt |-> PairedAt, expires |-> 3, scope |-> own],
            [decidedAt |-> AsOf, expires |-> 3, scope |-> neighbour]}

(* Either attempt may be the retry of the other. *)
Alike == Permutations({first, second})

=============================================================================
