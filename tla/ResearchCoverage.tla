--------------------------- MODULE ResearchCoverage ---------------------------
(***************************************************************************)
(* The coverage gate of matched research, evaluate_research_coverage of    *)
(* kairos_core/research_schedule.py: a schedule froze one observation per  *)
(* window and arm, and the gate seals a campaign only when exactly these   *)
(* observations arrived.                                                   *)
(*                                                                         *)
(* The samples are an iterable read one at a time, in an order the caller  *)
(* chooses, and the gate keeps dictionaries of what it has seen.  It stops *)
(* at the first sample it refuses, so which check speaks first depends on  *)
(* the order, while the outcome of a campaign must not.                    *)
(*                                                                         *)
(* Records are compared only for equality, so hashes are the value hashed. *)
(***************************************************************************)
EXTENDS Naturals, Sequences, FiniteSets

CONSTANTS
    Arms,       \* RESEARCH_ARMS
    Control,    \* the arm "strategy-only"
    Campaign,   \* campaign_id of the schedule
    Strategy,   \* strategy_id and strategy_revision of the schedule
    Snapshots,  \* market_snapshot_sha256
    Unpinned,   \* no market_snapshot_sha256 in a window
    Rosters,    \* what a researcher may try to register: sequences of windows
    Offered     \* the observations the caller may present

(* market stands for the symbol and timeframe of a window. *)
Window == [sample : Nat, market : Nat, asOf : Nat, paired : Nat,
           deadline : Nat, pinned : Snapshots \cup {Unpinned}]

ASSUME CoverageAssumption ==
    /\ IsFiniteSet(Arms)
    /\ Control \in Arms
    /\ Rosters \subseteq Seq(Window)

VARIABLES
    roster,         \* the windows of the frozen schedule
    unaltered,      \* the schedule still has the digest it was registered with
    observed,       \* (arm, sample) -> observation
    snapshotBy,     \* snapshot_by_sample
    lineageBy,      \* baseline_lineage_by_sample
    verdict,        \* "new", "reading", "rejected" or "sealed"
    seal,           \* the observations the seal commits to, by (arm, sample)
    given,          \* history: the observations read so far
    repeated,       \* history: some observation was read twice
    ended           \* history: the iterable was read to its end

gate == <<observed, snapshotBy, lineageBy>>

history == <<given, repeated, ended>>

vars == <<roster, unaltered, gate, verdict, seal, history>>

Empty == [k \in {} |-> {}]

-----------------------------------------------------------------------------

ValidWindow(w) == w.asOf <= w.paired /\ w.paired < w.deadline

Precedes(v, w) ==
    \/ v.asOf < w.asOf
    \/ v.asOf = w.asOf /\ v.market < w.market
    \/ v.asOf = w.asOf /\ v.market = w.market /\ v.sample <= w.sample

(* A slip of Registered: sample ids may repeat. *)
RegisteredTwice(r) ==
    /\ r # <<>>
    /\ \A i \in DOMAIN r : ValidWindow(r[i])
    /\ \A i, j \in DOMAIN r : i < j =>
          /\ Precedes(r[i], r[j])
          /\ <<r[i].market, r[i].asOf>> # <<r[j].market, r[j].asOf>>

(* What the constructors of the schedule and of its windows let through. *)
Registered(r) ==
    /\ r # <<>>
    /\ \A i \in DOMAIN r : ValidWindow(r[i])
    /\ \A i, j \in DOMAIN r : i < j =>
          /\ Precedes(r[i], r[j])
          /\ r[i].sample # r[j].sample
          /\ <<r[i].market, r[i].asOf>> # <<r[j].market, r[j].asOf>>

Windows == {roster[i].sample : i \in DOMAIN roster}

WindowOf(s) == roster[CHOOSE i \in DOMAIN roster : roster[i].sample = s]

(* The keys a complete campaign has, one per window and arm. *)
Expected == Arms \X Windows

Key(o) == <<o.arm, o.sample>>

(* What one observation must satisfy whatever else was read. *)
Genuine(o) ==
    /\ o.intact
    /\ o.campaign = Campaign
    /\ o.arm \in Arms
    /\ o.sample \in Windows
    /\ \A f \in {"market", "asOf", "paired", "deadline"} :
          o[f] = WindowOf(o.sample)[f]
    /\ WindowOf(o.sample).pinned \in {Unpinned, o.snapshot}
    /\ o.strategy = Strategy
    /\ o.arm = Control => ~o.called

(* A slip of SetDefault: d[k] = v, which forgets the earlier arm. *)
Assign(d, k, v) ==
    [x \in DOMAIN d \cup {k} |-> IF x = k THEN v ELSE d[x]]

(* d.setdefault(k, v) *)
SetDefault(d, k, v) ==
    [x \in DOMAIN d \cup {k} |-> IF x \in DOMAIN d THEN d[x] ELSE v]

(* The observation agrees with what the other arms of its window recorded. *)
Agrees(o) ==
    /\ SetDefault(snapshotBy, o.sample, o.snapshot)[o.sample] = o.snapshot
    /\ SetDefault(lineageBy, o.sample, o.lineage)[o.sample] = o.lineage

Fresh(o) == Key(o) \notin DOMAIN observed

(* The result ids of a seal, by key: its list follows the frozen roster. *)
SealOf(seen) == [k \in Expected |-> seen[k]]

-----------------------------------------------------------------------------

Init ==
    /\ roster \in {r \in Rosters : Registered(r)}
    /\ unaltered \in BOOLEAN
    /\ observed = Empty
    /\ snapshotBy = Empty
    /\ lineageBy = Empty
    /\ verdict = "new"
    /\ seal = Empty
    /\ given = {}
    /\ repeated = FALSE
    /\ ended = FALSE

(* The gate recomputes the digest of the schedule before it reads anything. *)
Begin ==
    /\ verdict = "new"
    /\ verdict' = IF unaltered THEN "reading" ELSE "rejected"
    /\ UNCHANGED <<roster, unaltered, gate, seal, history>>

Read(o) ==
    /\ verdict = "reading"
    /\ given' = given \cup {o}
    /\ repeated' = (repeated \/ o \in given)
    /\ UNCHANGED <<roster, unaltered, seal, ended>>

(* The observation is refused: the call raises and its dictionaries go. *)
Refuse(o) ==
    /\ Read(o)
    /\ ~(Genuine(o) /\ Fresh(o) /\ Agrees(o))
    /\ verdict' = "rejected"
    /\ UNCHANGED gate

Record(o) ==
    /\ Read(o)
    /\ Genuine(o) /\ Fresh(o) /\ Agrees(o)
    /\ observed' = SetDefault(observed, Key(o), o)
    /\ snapshotBy' = SetDefault(snapshotBy, o.sample, o.snapshot)
    /\ lineageBy' = SetDefault(lineageBy, o.sample, o.lineage)
    /\ UNCHANGED verdict

(* Nothing is left to read. *)
Missing == Expected \ DOMAIN observed

Covered ==
    /\ Missing = {}
    /\ Cardinality(DOMAIN observed) = Cardinality(Arms) * Len(roster)

Conclude ==
    /\ verdict = "reading"
    /\ ended' = TRUE
    /\ UNCHANGED <<roster, unaltered, gate, given, repeated>>

FindIncomplete ==
    /\ Conclude
    /\ ~Covered
    /\ verdict' = "rejected"
    /\ UNCHANGED seal

Seal ==
    /\ Conclude
    /\ Covered
    /\ verdict' = "sealed"
    /\ seal' = SealOf(observed)

Next ==
    \/ Begin
    \/ \E o \in Offered : Refuse(o) \/ Record(o)
    \/ FindIncomplete
    \/ Seal

Spec == Init /\ [][Next]_vars

-----------------------------------------------------------------------------
(* Properties *)

(* The shape of the dictionaries: keys are scheduled (arm, sample) pairs (research_schedule.py:32-35). *)
TypeOK ==
    /\ roster \in Rosters
    /\ unaltered \in BOOLEAN
    /\ observed \in [DOMAIN observed -> Offered]
    /\ DOMAIN observed \subseteq Expected
    /\ DOMAIN snapshotBy \subseteq Windows
    /\ DOMAIN lineageBy = DOMAIN snapshotBy
    /\ verdict \in {"new", "reading", "rejected", "sealed"}
    /\ seal \in [DOMAIN seal -> Offered]
    /\ given \subseteq Offered
    /\ repeated \in BOOLEAN
    /\ ended \in BOOLEAN

(* No two observations of a campaign share a key, and the arms of a window  *)
(* saw the same market and the same strategy evaluation.                    *)
Matched(os) ==
    \A o, p \in os : o.sample = p.sample =>
        /\ o.arm = p.arm => o = p
        /\ o.snapshot = p.snapshot
        /\ o.lineage = p.lineage

(* Whatever is still to be read, this campaign cannot be complete. *)
Hopeless ==
    \/ ~unaltered
    \/ repeated
    \/ \E o \in given : ~Genuine(o)
    \/ ~Matched(given)

(* The outcome is a fact about the set of observations, whatever the order  *)
(* they are read in and however many pass before one is refused: a campaign *)
(* is sealed only if it is exactly the frozen roster with its arms matched, *)
(* the seal commits to each observation under its own key, and a campaign   *)
(* is rejected only if no reading of the rest could have completed it, or   *)
(* if the rest was empty and a scheduled arm is missing                     *)
(* (research_schedule.py:20 "missing, duplicate, extra, drifted or late").*)
JustVerdict ==
    /\ verdict = "sealed" =>
          /\ ~Hopeless
          /\ {Key(o) : o \in given} = Expected
          /\ DOMAIN seal = Expected
          /\ \A o \in given : seal[Key(o)] = o
    /\ verdict = "rejected" =>
          Hopeless \/ (ended /\ {Key(o) : o \in given} # Expected)

(* While the gate reads, its three dictionaries are what the observations   *)
(* read so far say, and these could still become a complete campaign.       *)
Faithful ==
    verdict = "reading" =>
        /\ ~Hopeless
        /\ ~ended
        /\ DOMAIN observed = {Key(o) : o \in given}
        /\ DOMAIN snapshotBy = {o.sample : o \in given}
        /\ \A o \in given :
              /\ observed[Key(o)] = o
              /\ snapshotBy[o.sample] = o.snapshot
              /\ lineageBy[o.sample] = o.lineage

NothingReadYet ==
    verdict = "new" => given = {} /\ gate = <<Empty, Empty, Empty>> /\ ~repeated /\ ~ended

(* The phases of a reading, and what each has established. *)
GateInv ==
    /\ Registered(roster)
    /\ NothingReadYet
    /\ Faithful
    /\ JustVerdict

(* The inductive invariant of the gate. *)
IndInv == TypeOK /\ GateInv

=============================================================================
