------------------------- MODULE MCRegimeCapability -------------------------
(***************************************************************************)
(* One revision with two codes, of which the policy of one deployment      *)
(* lists the first.  The artifact another deployment expects lists both,   *)
(* in two regimes, and is invalid; a third artifact lists the second code  *)
(* and nobody expects it.                                                  *)
(***************************************************************************)
EXTENDS RegimeCapability

CONSTANTS r1, old, new, mine, theirs, detector

Candidate(code, decision) ==
  [revision |-> r1, code |-> code, side |-> "LONG", decision |-> decision, expires |-> 1]
MCIntents == {Candidate(old, 0), Candidate(new, 1)}

Catalog(listings) ==
  [sources |-> mine, detector |-> detector,
   capabilities |-> {[revision |-> r1, code |-> l[1], regime |-> l[2], sides |-> {"LONG"}] : l \in listings}]

Frozen == Catalog({<<old, "RANGE">>, <<old, "BULL">>})
TwoCodes == Catalog({<<old, "RANGE">>, <<new, "BULL">>})
Swapped == Catalog({<<new, "RANGE">>})

MCArtifacts == {Frozen, TwoCodes, Swapped}
MCDeployments ==
  {[expected |-> p, sources |-> mine, revisions |-> {r1}] : p \in {Frozen, TwoCodes}}
=============================================================================
