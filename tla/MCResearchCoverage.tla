-------------------------- MODULE MCResearchCoverage --------------------------
(* ResearchCoverage for TLC: three arms, up to two windows, and a caller who *)
(* may present, for every scheduled key, two snapshots and two lineages, one *)
(* observation for each way of being wrong and one second answer for a key.  *)
EXTENDS ResearchCoverage

CONSTANTS strategyOnly, strategyReview, llmProposal, n1, n2, l1, l2

ThreeArms == {strategyOnly, strategyReview, llmProposal}

FirstWindow == [sample |-> 1, market |-> 1, asOf |-> 1, paired |-> 1,
                deadline |-> 2, pinned |-> Unpinned]

SecondWindow == [sample |-> 2, market |-> 2, asOf |-> 1, paired |-> 2,
                 deadline |-> 3, pinned |-> n1]

(* The third roster repeats a sample id, the fourth a market and clock, the *)
(* fifth is out of order, the last pairs at its deadline.                   *)
SomeRosters ==
    { <<FirstWindow, SecondWindow>>,
      <<FirstWindow>>,
      <<FirstWindow, [SecondWindow EXCEPT !.sample = 1]>>,
      <<FirstWindow, [SecondWindow EXCEPT !.market = 1]>>,
      <<SecondWindow, FirstWindow>>,
      <<[FirstWindow EXCEPT !.paired = 2]>> }

Observation(w, arm, snapshot, lineage) ==
    [campaign |-> Campaign, arm |-> arm, sample |-> w.sample,
     market |-> w.market, asOf |-> w.asOf, paired |-> w.paired,
     deadline |-> w.deadline, snapshot |-> snapshot, strategy |-> Strategy,
     lineage |-> lineage, called |-> arm = llmProposal, intact |-> TRUE]

Wellformed ==
    {Observation(w, arm, snapshot, lineage) :
        w \in {FirstWindow, SecondWindow}, arm \in ThreeArms,
        snapshot \in {n1, n2}, lineage \in {l1, l2}}

Others ==
    LET o == Observation(FirstWindow, llmProposal, n1, l1)
    IN  { [o EXCEPT !.intact = FALSE],
          [o EXCEPT !.campaign = "another campaign"],
          [o EXCEPT !.strategy = "another revision"],
          [o EXCEPT !.arm = "a fourth arm"],
          [o EXCEPT !.sample = 3],
          [o EXCEPT !.paired = 0],
          [o EXCEPT !.called = FALSE],
          [o EXCEPT !.arm = strategyOnly] }

SomeObservations == Wellformed \cup Others

=============================================================================
