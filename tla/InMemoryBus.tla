----------------------------- MODULE InMemoryBus ------------------------------
(***************************************************************************)
(* kairos_core/bus/inmemory.py: one topic of the in-process bus.  Every    *)
(* subscribe() generator owns an asyncio queue from its first __anext__    *)
(* until it is closed; publish puts the envelope into every registered     *)
(* queue.  The queues are unbounded, so the awaits of publish never        *)
(* suspend and publish is one step.  `group` and `consumer` are ignored,   *)
(* and ack does nothing.  A definition that RedisStreamsBus has as well is *)
(* called Memory... here, so that one module can reason about both buses.  *)
(***************************************************************************)
EXTENDS Naturals, Sequences, SequencesExt

CONSTANTS
    Consumers,    \* each iterates one generator at a time
    MaxPublished, \* bound: messages published
    MaxStops      \* bound: handler errors and closed generators of a consumer

ASSUME InMemoryAssumption == MaxPublished \in Nat /\ MaxStops \in Nat

VARIABLES
    counter,   \* _counter: messages published so far; ids are 1..counter
    queue,     \* per consumer: its queue
    phase,     \* "off", "created" (no __anext__ yet), "waiting", "handling"
    current,   \* the envelope a consumer is handling, 0 if none
    (* auxiliary *)
    since,     \* value of counter when the queue was registered
    received,  \* envelopes the present generator has yielded
    queued,    \* messages put into a queue of this consumer
    finished,  \* messages its handler has finished
    stops      \* per consumer: handler errors and closed generators

memoryVars == <<counter, queue, phase, current, since, received, queued, finished, stops>>

EnvelopeIds == 1..MaxPublished
Registered == {s \in Consumers : phase[s] \in {"waiting", "handling"}}

(* The shape of the bus state; every id handed out or queued was published (inmemory.py:13-24). *)
MemoryTypeOK ==
    /\ counter \in 0..MaxPublished
    /\ queue \in [Consumers -> Seq(EnvelopeIds)]
    /\ phase \in [Consumers -> {"off", "created", "waiting", "handling"}]
    /\ current \in [Consumers -> 0..MaxPublished]
    /\ since \in [Consumers -> 0..MaxPublished]
    /\ received \in [Consumers -> Seq(EnvelopeIds)]
    /\ queued \in [Consumers -> SUBSET EnvelopeIds]
    /\ finished \in [Consumers -> SUBSET EnvelopeIds]
    /\ stops \in [Consumers -> 0..MaxStops]

MemoryInit ==
    /\ counter = 0
    /\ queue = [s \in Consumers |-> <<>>]
    /\ phase = [s \in Consumers |-> "off"]
    /\ current = [s \in Consumers |-> 0]
    /\ since = [s \in Consumers |-> 0]
    /\ received = [s \in Consumers |-> <<>>]
    /\ queued = [s \in Consumers |-> {}]
    /\ finished = [s \in Consumers |-> {}]
    /\ stops = [s \in Consumers |-> 0]

-----------------------------------------------------------------------------

IdleReceivers == {s \in Consumers : phase[s] = "waiting"}  \* mutant
Receivers == Registered

PutBounded(q, m) == IF Len(q) < 2 THEN Append(q, m) ELSE q  \* mutant: drops when full
Put(q, m) == Append(q, m)

LastMessageId == counter  \* mutant: id taken before the increment
MessageId == counter + 1

MemoryPublish ==
    /\ counter < MaxPublished
    /\ counter' = counter + 1
    /\ queue' = [s \in Consumers |-> IF s \in Receivers
                                     THEN Put(queue[s], MessageId) ELSE queue[s]]
    /\ queued' = [s \in Consumers |-> IF s \in Receivers
                                     THEN queued[s] \cup {MessageId} ELSE queued[s]]
    /\ UNCHANGED <<phase, current, since, received, finished, stops>>

(* subscribe() only builds the generator: no line of its body has run yet,  *)
(* and what is published now never reaches it.                              *)
MemorySubscribe(s) ==
    /\ phase[s] = "off"
    /\ phase' = [phase EXCEPT ![s] = "created"]
    /\ UNCHANGED <<counter, queue, current, since, received, queued, finished, stops>>

(* The first __anext__ registers an empty queue. *)
Register(s) ==
    /\ phase[s] = "created"
    /\ phase' = [phase EXCEPT ![s] = "waiting"]
    /\ since' = [since EXCEPT ![s] = counter]
    /\ UNCHANGED <<counter, queue, current, received, queued, finished, stops>>

Get(s) ==
    /\ phase[s] = "waiting"
    /\ queue[s] # <<>>
    /\ phase' = [phase EXCEPT ![s] = "handling"]
    /\ current' = [current EXCEPT ![s] = Head(queue[s])]
    /\ queue' = [queue EXCEPT ![s] = Tail(@)]
    /\ received' = [received EXCEPT ![s] = Append(@, Head(queue[s]))]
    /\ UNCHANGED <<counter, since, queued, finished, stops>>

(* The handler finishes, or fails; ack is a no-op, so nothing tells the two *)
(* apart for the bus.                                                       *)
Handled(s) ==
    /\ phase[s] = "handling"
    /\ phase' = [phase EXCEPT ![s] = "waiting"]
    /\ current' = [current EXCEPT ![s] = 0]
    /\ \/ /\ finished' = [finished EXCEPT ![s] = @ \cup {current[s]}]
          /\ UNCHANGED stops
       \/ /\ stops[s] < MaxStops
          /\ stops' = [stops EXCEPT ![s] = @ + 1]
          /\ UNCHANGED finished
    /\ UNCHANGED <<counter, queue, since, received, queued>>

(* The generator is closed, or its pending __anext__ is cancelled (a        *)
(* wait_for that times out): the finally clause removes the queue.          *)
Close(s) ==
    /\ phase[s] # "off"
    /\ stops[s] < MaxStops
    /\ stops' = [stops EXCEPT ![s] = @ + 1]
    /\ phase' = [phase EXCEPT ![s] = "off"]
    /\ queue' = [queue EXCEPT ![s] = <<>>]
    /\ current' = [current EXCEPT ![s] = 0]
    /\ since' = [since EXCEPT ![s] = 0]
    /\ received' = [received EXCEPT ![s] = <<>>]
    /\ UNCHANGED <<counter, queued, finished>>

MemoryNext ==
    \/ MemoryPublish
    \/ \E s \in Consumers : \/ MemorySubscribe(s) \/ Register(s) \/ Get(s)
                       \/ Handled(s) \/ Close(s)

MemorySpec == MemoryInit /\ [][MemoryNext]_memoryVars

-----------------------------------------------------------------------------
(* Properties *)

(* What a subscriber has been handed, followed by what waits in its queue,  *)
(* is exactly what was published since it registered, in publication order: *)
(* a slow, failing or closing consumer costs no other one a message.        *)
FanOutInOrder ==
    \A s \in Registered :
        received[s] \o queue[s] = [i \in 1..(counter - since[s]) |-> since[s] + i]

(* A consumer loses only by its own stops: as long as its handler has not   *)
(* failed and its generator was not closed, what was queued for it and is   *)
(* not finished is in its queue or in its hands, whatever the others do.    *)
LossIsOwn ==
    \A s \in Consumers :
        stops[s] = 0 =>
            queued[s] \ finished[s] \subseteq ToSet(queue[s]) \cup {current[s]}

(* What makes both inductive: a queue is registered at a clock that has     *)
(* passed, a consumer that is not registered has nothing, and one has an    *)
(* envelope in hand exactly while its handler runs.                         *)
MemoryIndInv ==
    /\ MemoryTypeOK
    /\ FanOutInOrder
    /\ \A s \in Consumers : since[s] <= counter
    /\ \A s \in Consumers \ Registered : received[s] = <<>> /\ queue[s] = <<>>
    /\ \A s \in Consumers : phase[s] = "handling" <=> current[s] # 0

(* bus/base.py:34-36 "Implementations must provide at-least-once delivery   *)
(* semantics and an explicit ack so that a crashing consumer does not lose  *)
(* messages": what was queued for a consumer and is not finished can still  *)
(* be obtained from the bus, or is being handled.                           *)
CrashLosesNothing ==
    \A s \in Consumers :
        queued[s] \ finished[s] \subseteq ToSet(queue[s]) \cup {current[s]}

=============================================================================
