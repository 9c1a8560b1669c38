# kairos-core in TLA+

`kairos_core` is the package the services of a trading system share. It holds
the message bus (`bus/`), the immutable documents the services exchange
(`contracts/`) and two pure decision procedures of the research tooling
(`research_pairing.py`, `research_schedule.py`). Almost no state lives in the
package itself: the bus keeps a little, Redis keeps more, and the rest is state
*made of documents*, which grows as services publish what the validators let
through. Two kinds of question follow.

- **The bus** is concurrent code: generators suspended at awaits, several
  processes, a server that trims and reclaims. What is lost, handed out twice
  or starved?
- **The contracts** are validators that each look at one document. Services
  with clocks of their own derive documents from one another, in any order.
  What holds end to end, although no validator sees both ends?

Paths below are relative to `src/`.

## 1. Inventory

| Component | State | Operations | Interacts with | Correct means |
|---|---|---|---|---|
| Bus contract, `bus/base.py` | none | `publish`, `subscribe`, `ack` | every service | at-least-once with explicit ack |
| Redis Streams bus, `bus/redis_streams.py` | `_groups_ready`, `_reclaim_cursors` per process; locals of each `subscribe` generator; stream, groups and pending lists in Redis | `publish` (XADD with trimming), `_ensure_group`, `_reclaim_stale`, `_delivery_attempt`, `subscribe`, `ack` | Redis; other generators of the process through the two dictionaries; other processes through the pending list | nothing owed is lost; no message starves; work is shared; a destroyed group comes back |
| In-memory bus, `bus/inmemory.py` | one queue per iterated generator, `_counter` | `publish`, `subscribe`, `ack` | the consumers of one process | fan-out in order; no consumer loses by another |
| Bus factory, topics | none | a URL switch, names | - | - |
| Research schedule and coverage gate, `research_schedule.py`, `contracts/research_schedule.py` | three dictionaries during one call | `evaluate_research_coverage`, constructors of schedule, window and seal | reads an iterable of decision samples | the verdict depends on the set of samples, never on their order |
| Research pairing, `research_pairing.py`, `contracts/research_decision.py` | none | `build_research_decision_sample`, `_check_strategy`, `_check_llm`, record validator | documents of the LLM gateway and of the strategy evaluator | no look-ahead; no unanswered call hidden; both validators agree |
| LLM proposal, completion, failure, `contracts/llm_*.py` | none | validators | written by the gateway, read by the pairing | causal clocks, bounded expiry |
| Simulation journal, results, session receipt, `contracts/simulation.py` 1187-1417 | append-only journals, chained by hash | `SimulationTradeEventV2`, `SimulationResultV1`, heads, `SimulationSessionReceiptV1` | simulator appends, closer reads heads, publisher reads journals | a state says the truth about all fills; what was published stays true |
| Simulation lineage, `contracts/simulation.py` 694-1184, `contracts/strategy.py` 251-464 | published documents | validators from route and review to command receipt | router, reviewer, risk, simulator | only the reviewed candidate on its own fresh book; effects after causes |
| Simulation tape, `contracts/simulation.py` 283-691 | hash-chained frames | frame, quality and seal validators | recorder, simulator (both outside the repository) | first frame and missing predecessor hash go together; one chain head per symbol |
| Venue quality, PAPER risk decision, `contracts/strategy.py` 467-743 | published documents | validators | venue monitor, risk, execution | what is entered for a candidate has one approval behind it, in size, depth and time; loss at the stop keeps the budget |
| Decision context, `contracts/decision_context.py` | published documents; the service that writes them remembers first receipts | receipts and sources, `validate_context`, `missing_required_sources`, `validate_for_route` | sources over the bus, router, reviewer | no hindsight; DEFER on missing sources; no gap in the bars |
| Strategy evaluation, `contracts/strategy_evaluation.py` | none | validator | evaluator, pairing | status agrees with evidence |
| Regime capability, `contracts/regime_capability.py` | published documents, mutable allocations inside Macro, the policy a consumer has loaded | policy, `validate_policy_binding`, observation, capital basis, bound allocation | detector, Macro, a consumer that is redeployed | capital arrives as allocated and goes only where the deployment's frozen policy permits |
| Paper execution facts, `contracts/paper.py` | none | position, order and account snapshots, trade events | execution, venue | whatever exits race, the account can be stated |
| Adaptive candidate protocol | none | a frozen record | - | - |
| Identities, legacy contracts, config, logging, metrics | none | formatting, field types, I/O | - | - |

### What is hard here

- *Interleavings of the bus.* Every await of `subscribe` lets other generators
  of the process run; they share the reclaim cursor, which is read before the
  XAUTOCLAIM await and written after it. Envelopes of a batch grow stale behind
  a slow handler and are reclaimed by somebody else, then both acknowledge.
- *Crashes, lost replies, lost groups.* A process dies between a handler and
  its ack; a reply is lost after Redis has moved messages to the pending list;
  an operator destroys a group a process still believes to exist.
- *Limits.* `maxlen` trims a stream that groups read at different speeds; one
  XAUTOCLAIM examines at most ten times COUNT entries; the first reclaim
  depends on a monotonic clock that counts from boot.
- *Order and time of documents.* Late answers race timeouts; retries give two
  documents for one call; heads of journals are read one by one while writers
  append; recovery notes follow final states; a book is fresh at the decision
  and used at the admission.
- *Two validators for one fact.* The pairing builder checks documents, the
  record's validator checks fields copied from them.
- *Retries across services.* Risk decides again on a candidate whose answer was
  lost, execution sends an entry again after a crash, and a stop and a target of
  free quantities race at the venue with the rest of the entry.
- *Mutable objects inside frozen documents.* The allocation nested in a capital
  basis is a legacy message that may be changed after the basis was hashed.

`PROJECT.json` lists these hazards line by line with the property that covers
each, or the reason why none does.

## 2. Modules

| Module | Models | State |
|---|---|---|
| `AtLeastOnceBus` | the promise of `bus/base.py`, abstract | retained messages, open groups, backlog per group, leases |
| `RedisStreamsBus` | `bus/redis_streams.py` and the Redis commands it sends | server, bus objects, generators |
| `InMemoryBus` | `bus/inmemory.py` | queues and generators |
| `MessageBusProofs` | theorems about both buses, the refinement included | |
| `ResearchCoverage`, `ResearchCoverageProofs` | the coverage gate | the dictionaries of one call |
| `ResearchPairing`, `ResearchPairingProofs` | the pairing builder, its documents and its record | documents, clock |
| `SimulationJournal`, `SimulationJournalProofs` | events, heads, results, receipt | journals, readings |
| `SimulationLineage`, `SimulationLineageProofs` | route to command receipt | published documents |
| `DecisionContext`, `DecisionContextProofs` | the evidence a candidate is reviewed on | clocks of first receipt, contexts, reviews |
| `RegimeCapability`, `RegimeCapabilityProofs` | capital bound to a market regime | documents on the bus, bases inside Macro, deployment and loaded policy |
| `PaperTrade`, `PaperTradeProofs` | risk decision, orders and account of the PAPER route | decisions, orders, positions, cost of a trade |
| `MC*` | instances for TLC | |

Definitions marked "mutant" or "slip" are plausible bugs kept beside the
definition they replace; no specification uses them. They show that each
property can fail.

### The bus

`RedisStreamsBus` has one action per stretch of `subscribe` between two awaits.
`pc` says where a generator is suspended: before XGROUP CREATE (`ensure`), at
the head of the loop (`top`), before XAUTOCLAIM runs (`claim`) and after it
(`claimed`), before XPENDING (`lookup`), before XREADGROUP (`read`), with a
message in the consumer's hands (`handle`) and before XACK (`ack`). The rest of
the state is the server's (`stream`, `lastRead`, `pending`, ...) and that of the
bus objects (`ready` for `_groups_ready`, `cursor` for `_reclaim_cursors`).

A command and its reply are separate steps only where the code stores something
between them: `AutoClaim` runs on the server, `ClaimReply` writes the cursor.
Elsewhere a lost reply is `GeneratorDies` in the state behind the command: the
server has acted, the generator has nothing. A handler that raises
(`HandlerFails`), an exception in the generator and the death of a process are
faults; `PoisonFails` is a message whose handler fails each time.

Time is two flags. `stale` says a pending entry has been idle for
`reclaim_idle_ms`, `due` that `reclaim_every_s` have passed for a generator.
Both may be raised at any moment, so no property depends on how the intervals
compare with the time a handler takes. `warm` says the monotonic clock of the
host has reached `reclaim_every_s` (`last_reclaim` starts at 0.0).

The server follows the options the code sends: XGROUP CREATE from id 0 with
MKSTREAM, trimming with `ref_policy="ACKED"` and `approximate=True` (any subset
of the entries all groups have acknowledged, never below `maxlen`), XAUTOCLAIM
with COUNT and its scan limit, XREADGROUP from `>`.

`AtLeastOnceBus` is what `bus/base.py` promises: a message enters the backlog of
every open group and leaves it by the ack of a consumer that holds it and has
processed it, or with its group. The Redis bus implements it with the backlog of
a group read as *entries of the stream that are unread or pending*, and a batch
as a lease (`Contract`, `KeepsContract`).

`InMemoryBus` distinguishes the generator that was created from the one that has
been iterated, because the queue is registered by the first `__anext__`. The
queues are unbounded, so `publish` never suspends and is one step. What has a
counterpart in `RedisStreamsBus` is called `Memory...` (`MemoryPublish`,
`MemorySpec`), so that both can be extended by the module of the proofs.

### Research

`ResearchCoverage` is `evaluate_research_coverage` one sample at a time. The
caller offers any observation in any order, also twice; `Record` and `Refuse`
are the two ways through the body of the loop. Hashes stand for the value
hashed. `Registered` is what the constructors of schedule and windows let pass.

`ResearchPairing` lets attempts be started, answered, timed out and answered
late around the pairing clock, and lets the caller hand any mixture of documents
to the builder at any time from the pairing clock on. `CheckStrategy` and
`CheckLLM` are the builder's checks; `StrategyFields` and `LLMFields` what it
copies; `ValidRecord` the validator of the record, which sees only those fields.
`LONG_BIAS` stands for `SHORT_BIAS` too and `NO_PROPOSAL` for `DEFER`: the code
treats the two of a pair alike. The provider, evaluator and caller are external;
what is assumed of them is that a receipt is stamped with the clock it was
written at.

### Simulation

`SimulationJournal` lets the simulator append any event its validator accepts
that fits the hash chain (next sequence number, from the state of the head). A
closer reads heads one after another, possibly again, and publishes a session
receipt from readings of any age; results are published from journals. The
fields a fill must carry are abstracted to its quantity.

`SimulationLineage` publishes documents of seven kinds. A producer may stamp
anything and derive from any published document; the validator decides. Sets of
documents suffice because identities are content hashes. Both admissions are
modelled: V1 takes an intent, V2 an approved decision.

### Decision context

`DecisionContext` puts the validators of `contracts/decision_context.py` between
two services. The one that writes contexts receives messages over the bus, at
any time and repeatedly, and notes the clock of the *first* receipt (`received`);
a restart loses these notes, and a redelivery then gives a later clock.
`Capture` takes any selection of the noted messages, any cutoff and any declared
requirements the validator accepts; `Conclude` is the reviewer, who must answer
DEFER when a required source is missing. The history `arrived` keeps the true
first receipt and appears in no action's guard. `Causal`, `ValidBars`,
`ValidText` and `ForRoute` are the parts of the validators.

### Regime capability

`RegimeCapability` has the detector (`Observe`), Macro (`Allocate`, `Mutate`,
`Bind`) and a consumer (`Redeploy`, `Load`, `Accept`). Messages are rebuilt, so
validated, from JSON where they arrive (`Rebuilds`). Inside Macro a basis is an
object: `Mutate` changes the nested allocation without touching the identity,
and `Bind` does not validate nested objects, as pydantic does not. A deployment
carries the policy it was built to expect; `Binding` is `validate_policy_binding`.

### PAPER trade

`PaperTrade` starts at `VenueQualityV1` and `RiskTradeDecisionV1` and ends at
`AccountSnapshotV2`. `Decide` publishes any decision its validator accepts, also
a second one on the same candidate. Execution is external: `Prepare` journals an
effect, `SendEntry` sends it (again), `SendExit` places an exit of any quantity,
`Cancel` and `Fill` are the venue, lot by lot. Three properties of these
services are assumed, because the contracts name them: the venue takes a client
order id once, honours `reduce_only`, and fills entries at the measured book or
better. What the contracts *promise* about all this is checked and not built in:
the identity of a trade (`TradeId`) and of an order (`ClientId`), the rule that
only entries may lack `reduce_only` (`ValidOrder`), and the economics of a
decision (`WorstLoss`, `Approvable`). Prices are integers in ticks, fees and
slippages basis points, and `Scale` makes all products whole; a document whose
economics its validator recomputes carries only what they are computed from.
`Positions` is what a snapshot would list, `ValidSnapshot` its validator.

## 3. Runs

| Run | Instance | Shows |
|---|---|---|
| `redis_shared` | 2 processes share a group, one of them also reads another group; 2 messages, `maxlen` 1, no faults | `NothingLost`, `FreshOnce`, `PendingInStream`, and every step is a step of the contract (`KeepsContract`) |
| `redis_live` | 2 generators of one process share a group, its reclaim cursor and the cache of groups, on a freshly booted host; message 1 always fails, scan limit 1, 1 fault, 1 loss | `DeliversAll` (message 2 is processed all the same), `GroupComesBack`, and `KeepsContract` and `IndInv` (with `NothingLost` in it) across crash and loss |
| `inmemory` | 2 consumers, 3 messages, 2 stops of each | `FanOutInOrder`, `LossIsOwn`, `MemoryIndInv` |
| `inmemory_loss` | the same | *violated*: `CrashLosesNothing` |
| `coverage` | 6 rosters, 3 arms, up to 2 windows, 32 observations | `JustVerdict` and `IndInv` |
| `pairing` | an attempt and its retry, clock past the pairing, documents of the sample and of a neighbour | `NoLookAhead`, `LateAttemptBlocks`, `ValidatorsAgree`, `IndInv` |
| `pairing_clock` | as `pairing` | *violated*: `FailurePrecedesPairing` |
| `sim_journal` | 2 trades, 5 events | `ExposureKnown`, `ReceiptIsFinal`, `ResultsStayTrue`, `IndInv` |
| `sim_lineage` | 2 candidates, 6 frames, one document of each kind | `FillFollowsItsEvidence`, `AdmittedOnFreshBook`, `ReviewedCandidateOnly`, `IndInv` |
| `decision_context` | 3 routes, 4 messages, 1 restart | `NoHindsight`, `DecidedOnFullPicture`, `TailHasNoGap`, `AgeIsBounded`, `IndInv` |
| `regime` | 1 revision with 2 codes, 3 artifacts, 2 deployments, 1 change inside Macro | `CapitalIsOriginal`, `FundedIsPermitted`, `OneCodePerRevision`, `BudgetPrecedesCandidate`, `IndInv` |
| `paper` | 3 candidates, 4 measurements, 2 environments, 2 decisions of 1 or 2 lots | `AlwaysReportable`, `BackedByOneApproval`, `LossAtStop`, `IndInv` |

### Bounds, and why they are enough

- *Bus.* Two generators are the fewest that share a cursor, a group or a stale
  entry. In `redis_live` they are of one process, so that the cursor one of them
  writes after its XAUTOCLAIM may be older than what the other wrote meanwhile.
  In `redis_shared` they are of two processes and share only what Redis keeps; a
  third, of the other group, makes trimming depend on two readers. Two messages with COUNT 2 give a full batch
  and a partial one, and `maxlen` 1 puts the second publication at the trimming
  limit. Faults and losses are in `redis_live`: one fault suffices for each crash
  point, since it may hit any await, and one loss may destroy the group while
  messages are pending, read or being acknowledged. That run scans one entry at
  a time so that the failing message fills the window, and its process starts
  before its clock has reached `reclaim_every_s`. A fault in the larger instance
  of `redis_shared` is beyond what TLC enumerates in minutes; that several groups
  and processes meet a crash is left to the theorems. `MaxMsg`, `MaxFaults`
  and `MaxLosses` are guards of the model only.
- *Coverage.* Two windows and three arms: the fewest with two arms besides the
  control and a window that is pinned to a snapshot. The observations contain
  one for each check of the loop to fail; four of the six rosters are malformed,
  one for each rule, and never start.
- *Pairing.* Clocks before, at and after the pairing clock; expiries at it and
  after it; two attempts, since a third differs from neither. `Intents` lists
  what the evaluator may emit: one candidate that has expired at the pairing
  clock, one that has not, one decided too late, and one about the neighbour.
  One record at a time, because records do not influence each other.
- *Journal.* Five events in all, enough for one trade to be admitted, entered,
  exited, recovered and hit by a barrier, or for two to be followed by two more
  events while the closer reads. The event types contain one of each class
  that the validator treats alike (`TIMEOUT_TRIGGERED` for the three triggers,
  `ENTRY_PARTIAL` for both entries, `SOURCE_BARRIER` for `NO_ADMITTED_BOOK`).
  The trades are interchangeable, hence the symmetry.
- *Lineage.* One document of each kind is enough for TLC because a validator
  sees only ancestors, and each document has exactly one of each kind; another
  candidate's review or book enters through the candidate the document names.
  The stamps 0..5 leave room before, in and after the entry windows.
- *Context.* Clocks 0..2: before, at and after the route and up to its deadline.
  Two bars are the fewest with an order and a gap; one text that a route refers
  to, one route that refers to none, one whose bars are declared out of order,
  one of a symbol nothing is known about. `Minute` is 1.
- *Regime.* Two codes of one revision in two regimes, one artifact that lists
  both (and is invalid), one nobody expects. One change inside Macro is enough to
  part a basis from its identity, whichever field it changes; two allocations can
  be compared. No observation of the run says UNCERTAIN, which no valid policy
  lists; the theorem covers it.
- *PAPER trade.* Two decisions are the fewest that decide again. Two lots are the
  fewest of which one may fill before and one after an exit, and exits of two
  lots on a position of one. The measurements are two that suit, one assessed
  beyond its depth, one of a symbol that is no DEV instrument; budget and prices
  are chosen so that decisions exist on both sides of the budget, and so that
  the wrong side of the book would exceed it.

`CHECK_DEADLOCK FALSE` is set where a system really stops: the bounds of the
in-memory bus, a verdict, a full session, the last document of a bounded
exchange, a trade that is over. The Redis runs check deadlock.

### Fairness

`FairSpec` is used for the liveness run, `redis_live`. Fair are the steps of a generator
(the event loop runs what is ready, Redis answers, and a service whose
generator ended subscribes again) and the passing of time (`BecomeStale`,
`ReclaimDue`, `WarmUp`). Publishing, faults, crashes and losses are not fair: a
message need not come and a fault need not happen. A handler is assumed to end,
with success or with an exception. A consumer that failed on a message goes on
to the next one; letting the exception close the generator instead is the fault
`GeneratorDies` (the loops of the services are not in this repository, so both
are allowed). Crashes and losses
are finite in number, and `DeliversAll` would be false without that: a process
that always dies before its handler ends delivers nothing.

### Disagreements found

- `inmemory_loss`: `bus/base.py:34-36` asks at-least-once of every
  implementation. The in-memory bus takes an envelope from its queue before the
  handler runs, ignores `ack`, and drops the queue with the generator.
- `pairing_clock`: `README.md:114-115` and `contracts/research_decision.py:181`
  say a failure must be observed before the pairing clock. Builder and record
  accept one observed exactly at it.

## 4. Theorems

TLAPS checks the following for every value of the constants, from the named
assumptions of the modules (`BusAssumption`, `CoverageAssumption`,
`PairingAssumption`, `JournalAssumption`, `LineageAssumption`,
`ContextAssumption`, `RegimeAssumption`, `PaperAssumption`,
`InMemoryAssumption`). These say that parameters have their types, and that
documents given as constants have passed their own validators. One goes further:
`PaperAssumption` asks for a fee of at most 100 % of the notional. No contract
bounds `taker_fee_bps`, and above 100 % a trade loses by closing at its target, so
`LossAtStop` would not hold of trades that leave through it. TLC evaluates the
assumptions in every run.

Each module has one theorem `Invariance` (`Spec => []IndInv`) and derives the
others from it. `MessageBusProofs` extends both buses, which share no constant
and no variable, and has a second one, `MemoryInvariance`, for `MemorySpec`.

- **Redis bus** (`Invariance`, `NothingIsLost`, `PendingIsKept`,
  `FreshIsExclusive`). `NothingLost` is not inductive alone: an ack may only
  remove what was processed (`AckAfterProcess`), a group that is gone owes
  nothing (`NoGroupNoDebt`), a pending entry was read (`PendingWasRead`, else
  moving the last-delivered id could hide it), trimming keeps pending entries
  (`PendingInStream`, else XAUTOCLAIM would drop them from the pending list) and
  ids grow (`IdsBounded`, else a new message could collide with a processed
  one). `BatchBounded` and `IdleHoldsNothing` say what generators hold. `IndInv`
  is their conjunction. Note what is absent: who *owns* a pending entry plays no
  part, so late acks and double reclaims are harmless for any interleaving.
  `FreshOnce` rests on the last-delivered id: what a generator holds was read
  (`BatchWasRead`), a read returns entries behind that id and moves it, and
  creating a group, which sets it to 0, does not move it back, because a group
  that does not exist was never read (`NewGroupUnread`). All three say *until a
  group is destroyed*; after that the id starts again while batches of the old
  group are still held, and two consumers may well have the same message as new.
- **Refinement** (`KeepsTheContract`). Each action maps to a step of
  `AtLeastOnceBus` or to a stutter. The delicate steps are the read (new entries
  are the lowest unread ones, so advancing the last-delivered id turns exactly
  them from unread to pending and the backlog does not change), the trim, and a
  late ack in a group that was destroyed and created again, which releases a
  lease but acknowledges nothing.
- **In-memory bus** (`MemoryInvariance`, `MemoryFansOutInOrder`,
  `OnlyOwnLosses`). `FanOutInOrder` needs that a queue was registered at a clock
  that has passed and that a consumer without a queue has been given nothing.
  Two lemmas about sequences carry it: a hand-over moves the head of the queue
  to the end of what was received (`HandOver`), a publication extends both by
  the next id (`FanOut`). `LossIsOwn` is what is left of at-least-once here (see
  the disagreement above): a consumer loses by a failed handler or a closed
  generator of its own, never by those of another one. It needs that a consumer
  has an envelope in hand exactly while its handler runs.
- **Coverage gate** (`Invariance`, `VerdictIsJust`). `IndInv` is the shape of the
  dictionaries and `GateInv`, what each phase of the reading has established. `Faithful`
  says that the dictionaries are what was read; it needs distinct sample ids in
  the roster. Sealing then follows, with the count the code also checks: the
  number of expected keys is arms times windows.
- **Pairing** (`TypeCorrect`, `Invariance`, `NeverLooksAhead`,
  `LateAttemptsBlock`, `BuilderSatisfiesRecord`). Receipts carry the clock they
  were written at (`Stamped`), so those stamped up to the pairing clock are the
  ones that existed when it passed (`Remembered`). Agreement of the validators
  is a matter of cases over the outcomes.
- **Journal** (`Invariance`, `ExposureIsKnown`, `ReceiptsAreFinal`,
  `ResultsAreTrue`). The exposure of a journal follows from its last state
  because every event that changes fills names the state it starts from. That
  makes terminal states final for fills, so a head that saw one saw them all,
  however old the reading. A result is published from a terminal state, and what
  is appended behind it leaves the set of fills and each fill in it as they were
  (`FinalKept`, `TotalsKept`): the two totals are sums of the same function over
  the same set, whatever they are.
- **Lineage** (`Invariance`, `OnlyReviewedCandidates`, `BooksAreFresh`,
  `FillsFollowTheirEvidence`). `IndInv` says that each published document passed
  its validator and embeds a published one. The theorems chain the links.
- **Decision context** (`Invariance`, `WithoutHindsight`, `SeesFullPicture`,
  `TailIsUnbroken`, `AgeBounded`). The notes of the service are never earlier
  than the true first receipt (`NotesAreTrue`: a restart forgets, a redelivery
  notes a later clock), and each published document passed its validator on true
  notes (`DocsAreValid`). No hindsight is then the chain receipt, cutoff; the
  full picture needs in addition that a review rests on a context of its very
  route. `TailIsUnbroken` goes from neighbours, which the validator compares, to
  the whole tail: were some bar not where it should be, there would be one
  nearest to the decision bar, and its successor contradicts it. The library's
  well-foundedness of the naturals gives that bar (`LeastElement`).
- **Regime capability** (`Invariance`, `OriginalCapital`, `PermittedOnly`,
  `OneCode`, `BudgetInTime`). The identity of every basis is capital that Macro
  did allocate, whatever its nested allocation has become, and so is that of
  every basis bound from it; a consumer rebuilds what it takes, and rebuilding
  compares the two. A loaded policy is the expected one, and `Taken` remembers
  for each acceptance under which deployment it happened, so a redeployment
  changes nothing about it.
- **PAPER trade** (`Invariance`, `Reportable`, `OneApproval`, `LossBounded`).
  `EntryOnce` is the heart: entered lots plus what is left of the open entry
  never exceed the approved quantity, because the entry of a trade has one
  client order id whatever decision it was sent for, and nothing is entered for
  a trade whose entry the venue has not seen. `OneSided` says that exits are
  reduce-only and opposite, so a fill cannot turn a position; `StateIsTrue` ties
  the lifecycle state to position and stop; `LossPerLot` says a trade, closed at
  its stop now, has lost at most its estimate for each lot entered. An entry
  fill at the worst price or better adds at most one estimate, a stop fill adds
  nothing, and a target fill gains because the fee is at most 100 %. The budget
  follows by the estimate times the approved quantity.

Only model-checked: `DeliversAll` and `GroupComesBack`, the two liveness
properties; fairness and ENABLED are beyond TLAPS. Every invariant and action
property of a passing run is stated by a theorem. No theorem says what a fold
computes: `ResultsAreTrue` shows that two sums are equal because they are sums
of the same terms, and that is what `ResultsStayTrue` is about; that the sum is the
right one of these terms is the meaning of the library's `SumFunction`.

## 5. Not modelled

- *Simulation tape* (`contracts/simulation.py` 283-691): frames appear in
  `SimulationLineage` as recorded facts; their chain and the seal do not appear.
  No validator compares a seal with its frames, or a frame with its predecessor:
  each looks at one document, and contiguity of the chain is left to the
  recorder and the replayer, which are outside the repository.
- *Strategy evaluation* (`contracts/strategy_evaluation.py`): only its clocks and
  scope, as `ResearchPairing` needs them.
- Prices, fees, PnL and quantities of the simulation, and sums of floats
  anywhere: `PaperTrade` computes in integers, with the tolerances of the
  validators at zero.
- *Paper execution facts*: the event log `TradeExecutionEventV1`, of which only
  effects and client order ids are used; equity and peak; `timeout_at_ms`.
  `RiskTradeDecisionV1` compares neither its clock with the observation clock of
  its measurement, nor the measured venue symbol with the symbol of its intent;
  the model leaves both free, as the code does.
- *Decision context*: the field-by-field rebuilding of payloads, and the
  references listed for a prompt.
- *Regime capability*: confidence and evidence of an observation.
- Canonical JSON and SHA-256: a hash stands for what was hashed.
- The value of the delivery counter (XPENDING) that `_delivery_attempt` puts
  into the envelope; `source` keeps whether a message is new or reclaimed.
- `json.loads` of payloads that a foreign producer wrote.
- The superseded `SimulationTradeEventV1`, the reference tuple of LLM evidence,
  provenance fields.
- Configuration, logging, metrics, topic names, the adaptive candidate record and
  the legacy contracts that only have field types.

## 6. Plan

Done, in this order of importance: the bus with its contract and refinement, the
research gate and pairing, the simulation journal and lineage, the decision
context, regime capability and the PAPER trade, each with its theorems. Next:

1. `SimulationTape`: the documents of frames, quality and seal, with what each
   validator does check, composed with `SimulationLineage`, whose frames are
   constants so far. That a seal covers exactly the frames between its ends does
   not follow from these validators; it would be stated of a replayer that
   checks the chain, as an assumption named so.
2. `StrategyEvaluation`: status and evidence of a scheduled evaluation, composed
   with `ResearchPairing`.
3. The event log of paper execution, as a journal that `PaperTrade` writes and a
   restarted execution reads back.
4. `ResearchCampaign`: pairing for every window and arm, feeding the coverage
   gate. Abstract specification: at most one observation per key enters a seal,
   and each one is free of look-ahead. Theorem: refinement.
5. Theorems for the modules of 1-4 as they come, among them the refinement of 4.
