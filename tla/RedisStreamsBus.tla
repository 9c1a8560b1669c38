--------------------------- MODULE RedisStreamsBus ----------------------------
(***************************************************************************)
(* kairos_core/bus/redis_streams.py: one topic (a Redis stream), consumer  *)
(* groups, and the subscribe() generators of several service processes.    *)
(*                                                                         *)
(* A subscriber is one iteration of subscribe(); the code between two      *)
(* awaits is one action, so that Redis, other subscribers of the same      *)
(* process (which share _groups_ready and _reclaim_cursors) and other      *)
(* processes run in between.  Time is abstracted to two flags: a pending   *)
(* entry may at any moment have been idle for reclaim_idle_ms (stale), and *)
(* reclaim_every_s may have passed for a subscriber (due).                 *)
(*                                                                         *)
(* The stream, the groups and their pending-entries lists are the Redis    *)
(* server, modelled from the commands the code sends and their options.    *)
(***************************************************************************)
EXTENDS Naturals, FiniteSets

CONSTANTS
    Groups,      \* consumer groups of the topic
    Procs,       \* service processes, one RedisStreamsBus object each
    Subs,        \* subscribe() generators
    ProcOf,      \* the process a subscriber runs in
    GroupOf,     \* the group it reads for
    BatchSize,   \* COUNT of XREADGROUP and XAUTOCLAIM
    ScanLimit,   \* pending entries one XAUTOCLAIM examines (10 * COUNT)
    MaxLen,      \* maxlen of the stream
    ColdProcs,   \* processes whose host has just booted (see warm)
    Poison,      \* messages whose handler fails every time
    MaxMsg,      \* bound: messages published
    MaxFaults,   \* bound: other handler errors, dead generators, crashes
    MaxLosses    \* bound: destroyed groups or streams

ASSUME BusAssumption ==
    /\ ProcOf \in [Subs -> Procs]
    /\ GroupOf \in [Subs -> Groups]
    /\ BatchSize \in Nat \ {0}
    /\ ScanLimit \in Nat \ {0}
    /\ MaxLen \in Nat \ {0}
    /\ ColdProcs \subseteq Procs
    /\ MaxMsg \in Nat
    /\ Poison \subseteq 1..MaxMsg
    /\ MaxFaults \in Nat
    /\ MaxLosses \in Nat

Ids == 1..MaxMsg

VARIABLES
    (* Redis server *)
    stream,      \* ids of the entries in the stream
    lastId,      \* id of the newest entry ever added
    exists,      \* groups that exist
    lastRead,    \* per group: last-delivered-id
    pending,     \* per group: ids in the pending-entries list
    stale,       \* per group: pending ids idle for reclaim_idle_ms or more
    (* bus objects, per process *)
    ready,       \* _groups_ready: pairs <<process, group>>
    cursor,      \* _reclaim_cursors; 0 stands for "0-0" and for absent
    warm,        \* processes whose monotonic clock reached reclaim_every_s
    (* subscribers *)
    pc,          \* where the generator is suspended
    due,         \* has reclaim_every_s passed since last_reclaim?
    startId,     \* start_id of the XAUTOCLAIM in flight
    nextId,      \* cursor in the reply of that XAUTOCLAIM
    batch,       \* ids of the batch the generator is yielding
    source,      \* "new" or "reclaimed": which loop yields the batch
    (* auxiliary *)
    owed,        \* per group: messages its current incarnation must deliver
    processed,   \* per group: messages a handler has finished
    faults, losses

server == <<stream, lastId, exists, lastRead, pending, stale>>
clients == <<ready, cursor, warm>>
locals == <<pc, due, startId, nextId, batch, source>>
aux == <<owed, processed, faults, losses>>
vars == <<server, clients, locals, aux>>

PC == {"off", "ensure", "top", "claim", "claimed", "lookup", "read",
       "handle", "ack"}

(* The shape of the server, of the bus objects (redis_streams.py:28-42) and of the generators. *)
TypeOK ==
    /\ stream \subseteq Ids
    /\ lastId \in 0..MaxMsg
    /\ exists \subseteq Groups
    /\ lastRead \in [Groups -> 0..MaxMsg]
    /\ pending \in [Groups -> SUBSET Ids]
    /\ stale \in [Groups -> SUBSET Ids]
    /\ ready \subseteq Procs \X Groups
    /\ cursor \in [Procs \X Groups -> 0..MaxMsg]
    /\ warm \subseteq Procs
    /\ pc \in [Subs -> PC]
    /\ due \in [Subs -> BOOLEAN]
    /\ startId \in [Subs -> 0..MaxMsg]
    /\ nextId \in [Subs -> 0..MaxMsg]
    /\ batch \in [Subs -> SUBSET Ids]
    /\ source \in [Subs -> {"new", "reclaimed"}]
    /\ owed \in [Groups -> SUBSET Ids]
    /\ processed \in [Groups -> SUBSET Ids]
    /\ faults \in 0..MaxFaults
    /\ losses \in 0..MaxLosses

Init ==
    /\ stream = {}
    /\ lastId = 0
    /\ exists = {}
    /\ lastRead = [g \in Groups |-> 0]
    /\ pending = [g \in Groups |-> {}]
    /\ stale = [g \in Groups |-> {}]
    /\ ready = {}
    /\ cursor = [k \in Procs \X Groups |-> 0]
    /\ warm = Procs \ ColdProcs
    /\ pc = [s \in Subs |-> "off"]
    /\ due = [s \in Subs |-> FALSE]
    /\ startId = [s \in Subs |-> 0]
    /\ nextId = [s \in Subs |-> 0]
    /\ batch = [s \in Subs |-> {}]
    /\ source = [s \in Subs |-> "new"]
    /\ owed = [g \in Groups |-> {}]
    /\ processed = [g \in Groups |-> {}]
    /\ faults = 0
    /\ losses = 0

Key(s) == <<ProcOf[s], GroupOf[s]>>

(* The n smallest elements of a set of ids. *)
Lowest(S, n) == {m \in S : Cardinality({k \in S : k < m}) < n}

IsFirst(m, S) == m \in S /\ \A k \in S : m <= k
IsLast(m, S) == m \in S /\ \A k \in S : k <= m

-----------------------------------------------------------------------------
(* Redis server *)

(* What a group still has to deliver or to see acknowledged. *)
Backlog(g) ==
    IF g \in exists
    THEN {m \in stream : m > lastRead[g] \/ m \in pending[g]}
    ELSE {}

(* ref_policy="ACKED": an entry may be trimmed once every existing group    *)
(* has read and acknowledged it.                                            *)
TrimmableRead == {m \in stream : \A g \in exists : m <= lastRead[g]}  \* mutant
TrimmableByOne ==  \* mutant: one group is enough
    {m \in stream : \E g \in exists : m <= lastRead[g] /\ m \notin pending[g]}
Trimmable == {m \in stream : \A g \in exists : m <= lastRead[g] /\ m \notin pending[g]}

(* approximate=True: when the stream is longer than maxlen some trimmable   *)
(* entries are removed, never below maxlen.                                 *)
TrimChoices ==
    {T \in SUBSET Trimmable :
        T = {} \/ Cardinality(stream \ T) + 1 >= MaxLen}

(* XAUTOCLAIM: the entries examined from an id on, those it claims, and the *)
(* entries after the point where it stopped.                                *)
Scanned(g, from) == Lowest({m \in pending[g] : m >= from}, ScanLimit)

Claimable(g, from) ==
    Lowest(Scanned(g, from) \cap stale[g] \cap stream, BatchSize)

NotScanned(g, from) ==
    LET stop == IF Cardinality(Claimable(g, from)) = BatchSize
                THEN Claimable(g, from)
                ELSE Scanned(g, from)
    IN  {m \in pending[g] : m >= from /\ \A k \in stop : m > k}

(* The cursor in the reply: the next entry to examine, "0-0" at the end. *)
IsNextCursor(c, g, from) ==
    IF NotScanned(g, from) = {} THEN c = 0 ELSE IsFirst(c, NotScanned(g, from))

NewEntriesFromStart(g) == Lowest(stream, BatchSize)  \* mutant: "0" for ">"
NewEntries(g) == Lowest({m \in stream : m > lastRead[g]}, BatchSize)

(* Time: a pending entry has been idle for reclaim_idle_ms, because its     *)
(* reader died or because its handler, or the messages before it in the     *)
(* batch, take that long.                                                   *)
BecomeStale(g, m) ==
    /\ m \in pending[g] \ stale[g]
    /\ stale' = [stale EXCEPT ![g] = @ \cup {m}]
    /\ UNCHANGED <<stream, lastId, exists, lastRead, pending, clients, locals, aux>>

(* An operator destroys a group, or deletes the stream with all its groups. *)
LoseGroups(gs) ==
    /\ exists' = exists \ gs
    /\ lastRead' = [g \in Groups |-> IF g \in gs THEN 0 ELSE lastRead[g]]
    /\ pending' = [g \in Groups |-> IF g \in gs THEN {} ELSE pending[g]]
    /\ stale' = [g \in Groups |-> IF g \in gs THEN {} ELSE stale[g]]
    /\ owed' = [g \in Groups |-> IF g \in gs THEN {} ELSE owed[g]]
    /\ losses < MaxLosses
    /\ losses' = losses + 1
    /\ UNCHANGED <<lastId, clients, locals, processed, faults>>

LoseGroup(g) ==
    /\ g \in exists
    /\ LoseGroups({g})
    /\ UNCHANGED stream

LoseStream ==
    /\ stream # {} \/ exists # {}
    /\ LoseGroups(exists)
    /\ stream' = {}

-----------------------------------------------------------------------------
(* publish *)

Publish ==
    /\ lastId < MaxMsg
    /\ lastId' = lastId + 1
    /\ \E T \in TrimChoices : stream' = (stream \ T) \cup {lastId + 1}
    /\ owed' = [g \in Groups |->
                  IF g \in exists THEN owed[g] \cup {lastId + 1} ELSE owed[g]]
    /\ UNCHANGED <<exists, lastRead, pending, stale, clients, locals,
                   processed, faults, losses>>

-----------------------------------------------------------------------------
(* subscribe *)

Goto(s, label) == pc' = [pc EXCEPT ![s] = label]

(* The generator is gone: its locals go with it. *)
Stop(ss) ==
    /\ pc' = [s \in Subs |-> IF s \in ss THEN "off" ELSE pc[s]]
    /\ due' = [s \in Subs |-> IF s \in ss THEN FALSE ELSE due[s]]
    /\ startId' = [s \in Subs |-> IF s \in ss THEN 0 ELSE startId[s]]
    /\ nextId' = [s \in Subs |-> IF s \in ss THEN 0 ELSE nextId[s]]
    /\ batch' = [s \in Subs |-> IF s \in ss THEN {} ELSE batch[s]]
    /\ source' = [s \in Subs |-> IF s \in ss THEN "new" ELSE source[s]]

(* A consumer starts iterating.  last_reclaim = 0.0, so a reclaim is due at *)
(* once unless the host's monotonic clock is below reclaim_every_s.         *)
Subscribe(s) ==
    /\ pc[s] = "off"
    /\ Goto(s, IF Key(s) \in ready THEN "top" ELSE "ensure")
    /\ due' = [due EXCEPT ![s] = ProcOf[s] \in warm]
    /\ UNCHANGED <<server, clients, startId, nextId, batch, source, aux>>

(* XGROUP CREATE id="0" MKSTREAM, BUSYGROUP tolerated. *)
GroupStartLatest == lastId  \* mutant: id="$"
GroupStart == 0

EnsureGroup(s) ==
    /\ pc[s] = "ensure"
    /\ LET g == GroupOf[s] IN
         /\ exists' = exists \cup {g}
         /\ lastRead' = [lastRead EXCEPT ![g] = IF g \in exists THEN @ ELSE GroupStart]
         /\ owed' = [owed EXCEPT ![g] = IF g \in exists THEN @ ELSE stream]
    /\ ready' = ready \cup {Key(s)}
    /\ Goto(s, "top")
    /\ UNCHANGED <<stream, lastId, pending, stale, cursor, warm, due,
                   startId, nextId, batch, source, processed, faults, losses>>

ReclaimDue(s) ==
    /\ pc[s] # "off"
    /\ ProcOf[s] \in warm
    /\ ~due[s]
    /\ due' = [due EXCEPT ![s] = TRUE]
    /\ UNCHANGED <<server, clients, pc, startId, nextId, batch, source, aux>>

(* time.monotonic() counts from the boot of the host: a process restart does *)
(* not set it back.                                                         *)
WarmUp(p) ==
    /\ p \notin warm
    /\ warm' = warm \cup {p}
    /\ UNCHANGED <<server, ready, cursor, locals, aux>>

(* Head of the while loop; _reclaim_stale reads the cursor before its await. *)
LoopTop(s) ==
    /\ pc[s] = "top"
    /\ IF due[s]
       THEN /\ due' = [due EXCEPT ![s] = FALSE]
            /\ startId' = [startId EXCEPT ![s] = cursor[Key(s)]]
            /\ Goto(s, "claim")
       ELSE /\ Goto(s, "read")
            /\ UNCHANGED <<due, startId>>
    /\ UNCHANGED <<server, clients, nextId, batch, source, aux>>

(* XAUTOCLAIM runs on the server: claimed entries start a new idle period,  *)
(* and entries whose message is gone leave the pending-entries list.        *)
AutoClaim(s) ==
    /\ pc[s] = "claim"
    /\ GroupOf[s] \in exists
    /\ LET g == GroupOf[s]
           from == startId[s]
       IN  /\ \E c \in 0..MaxMsg :
                 /\ IsNextCursor(c, g, from)
                 /\ nextId' = [nextId EXCEPT ![s] = c]
           /\ batch' = [batch EXCEPT ![s] = Claimable(g, from)]
           /\ stale' = [stale EXCEPT ![g] = @ \ Claimable(g, from)]
           /\ pending' = [pending EXCEPT ![g] = @ \ (Scanned(g, from) \ stream)]
    /\ source' = [source EXCEPT ![s] = "reclaimed"]
    /\ startId' = [startId EXCEPT ![s] = 0]
    /\ Goto(s, "claimed")
    /\ UNCHANGED <<stream, lastId, exists, lastRead, clients, due, aux>>

(* XAUTOCLAIM answers NOGROUP: forget the group and the cursor, claim       *)
(* nothing, go on to XREADGROUP.                                            *)
AutoClaimNoGroupKeepsReady(s) ==  \* mutant: the cached group is not discarded
    /\ pc[s] = "claim"
    /\ GroupOf[s] \notin exists
    /\ cursor' = [cursor EXCEPT ![Key(s)] = 0]
    /\ startId' = [startId EXCEPT ![s] = 0]
    /\ Goto(s, "read")
    /\ UNCHANGED <<server, ready, warm, due, nextId, batch, source, aux>>

AutoClaimNoGroup(s) ==
    /\ pc[s] = "claim"
    /\ GroupOf[s] \notin exists
    /\ ready' = ready \ {Key(s)}
    /\ cursor' = [cursor EXCEPT ![Key(s)] = 0]
    /\ startId' = [startId EXCEPT ![s] = 0]
    /\ Goto(s, "read")
    /\ UNCHANGED <<server, warm, due, nextId, batch, source, aux>>

(* The reply arrives: the cursor is stored after the await. *)
ClaimReplyNoCursor(s) ==  \* mutant: every scan starts at "0-0"
    /\ pc[s] = "claimed"
    /\ nextId' = [nextId EXCEPT ![s] = 0]
    /\ Goto(s, IF batch[s] = {} THEN "read" ELSE "lookup")
    /\ UNCHANGED <<server, clients, due, startId, batch, source, aux>>

ClaimReply(s) ==
    /\ pc[s] = "claimed"
    /\ cursor' = [cursor EXCEPT ![Key(s)] = nextId[s]]
    /\ nextId' = [nextId EXCEPT ![s] = 0]
    /\ Goto(s, IF batch[s] = {} THEN "read" ELSE "lookup")
    /\ UNCHANGED <<server, ready, warm, due, startId, batch, source, aux>>

(* _delivery_attempt for the claimed messages.  XPENDING answers NOGROUP    *)
(* outside the try block of _reclaim_stale: the generator dies.             *)
Lookup(s) ==
    /\ pc[s] = "lookup"
    /\ IF GroupOf[s] \in exists
       THEN Goto(s, "handle") /\ UNCHANGED <<due, startId, nextId, batch, source>>
       ELSE Stop({s})
    /\ UNCHANGED <<server, clients, aux>>

(* XREADGROUP ">" with COUNT and BLOCK: a batch of new entries, or nothing  *)
(* within block_ms.                                                         *)
ReadNew(s) ==
    /\ pc[s] = "read"
    /\ GroupOf[s] \in exists
    /\ LET g == GroupOf[s]
           news == NewEntries(g)
       IN  IF news = {}
           THEN /\ Goto(s, "top")
                /\ UNCHANGED <<lastRead, pending, batch>>
           ELSE /\ \E m \in news :
                     /\ IsLast(m, news)
                     /\ lastRead' = [lastRead EXCEPT ![g] = m]
                /\ pending' = [pending EXCEPT ![g] = @ \cup news]
                /\ batch' = [batch EXCEPT ![s] = news]
                /\ Goto(s, "handle")
    /\ source' = [source EXCEPT ![s] = "new"]
    /\ UNCHANGED <<stream, lastId, exists, stale, clients, due, startId, nextId, aux>>

(* XREADGROUP answers NOGROUP: the error leaves the generator, and          *)
(* _groups_ready still holds the group.                                     *)
ReadNoGroup(s) ==
    /\ pc[s] = "read"
    /\ GroupOf[s] \notin exists
    /\ Stop({s})
    /\ UNCHANGED <<server, clients, aux>>

-----------------------------------------------------------------------------
(* The consumer of the generator, and ack *)

(* After the message m of the batch the generator resumes behind its yield. *)
Resume(s, m) ==
    /\ batch' = [batch EXCEPT ![s] = @ \ {m}]
    /\ Goto(s, IF batch[s] # {m} THEN "handle"
               ELSE IF source[s] = "reclaimed" THEN "read" ELSE "top")
    /\ UNCHANGED <<due, startId, nextId, source>>

Process(s) ==
    /\ pc[s] = "handle"
    /\ \E m \in batch[s] :
         /\ IsFirst(m, batch[s])
         /\ m \notin Poison
         /\ processed' = [processed EXCEPT ![GroupOf[s]] = @ \cup {m}]
    /\ Goto(s, "ack")
    /\ UNCHANGED <<server, clients, due, startId, nextId, batch, source,
                   owed, faults, losses>>

(* XACK by id for the envelope's group, whoever owns the entry by now. *)
Ack(s) ==
    /\ pc[s] = "ack"
    /\ \E m \in batch[s] :
         /\ IsFirst(m, batch[s])
         /\ pending' = [pending EXCEPT ![GroupOf[s]] = @ \ {m}]
         /\ stale' = [stale EXCEPT ![GroupOf[s]] = @ \ {m}]
         /\ Resume(s, m)
    /\ UNCHANGED <<stream, lastId, exists, lastRead, clients, aux>>

(* The handler fails, on a poison message or by accident, and the consumer  *)
(* goes on without an ack.                                                  *)
GiveUp(s, ms) ==
    /\ pc[s] = "handle"
    /\ \E m \in batch[s] \cap ms : IsFirst(m, batch[s]) /\ Resume(s, m)
    /\ UNCHANGED <<server, clients, owed, processed, losses>>

PoisonFails(s) == GiveUp(s, Poison) /\ UNCHANGED faults

HandlerFails(s) ==
    /\ faults < MaxFaults
    /\ faults' = faults + 1
    /\ GiveUp(s, Ids \ Poison)

(* A transport error other than NOGROUP is raised at an await (a lost reply *)
(* included), or the consumer closes the generator.                         *)
GeneratorDies(s) ==
    /\ pc[s] # "off"
    /\ faults < MaxFaults
    /\ faults' = faults + 1
    /\ Stop({s})
    /\ UNCHANGED <<server, clients, owed, processed, losses>>

(* The process dies: all its generators and its bus object are gone. *)
Crash(p) ==
    /\ \E s \in Subs : ProcOf[s] = p /\ pc[s] # "off"
    /\ faults < MaxFaults
    /\ faults' = faults + 1
    /\ Stop({s \in Subs : ProcOf[s] = p})
    /\ ready' = {k \in ready : k[1] # p}
    /\ cursor' = [k \in Procs \X Groups |-> IF k[1] = p THEN 0 ELSE cursor[k]]
    /\ UNCHANGED <<server, warm, owed, processed, losses>>

-----------------------------------------------------------------------------

Step(s) ==
    \/ Subscribe(s) \/ EnsureGroup(s) \/ LoopTop(s)
    \/ AutoClaim(s) \/ AutoClaimNoGroup(s) \/ ClaimReply(s) \/ Lookup(s)
    \/ ReadNew(s) \/ ReadNoGroup(s)
    \/ Process(s) \/ Ack(s) \/ PoisonFails(s)

Fault(s) == HandlerFails(s) \/ GeneratorDies(s)

Next ==
    \/ Publish
    \/ \E s \in Subs : Step(s) \/ ReclaimDue(s) \/ Fault(s)
    \/ \E p \in Procs : Crash(p) \/ WarmUp(p)
    \/ \E g \in Groups : LoseGroup(g) \/ \E m \in Ids : BecomeStale(g, m)
    \/ LoseStream

Spec == Init /\ [][Next]_vars

(* The event loop runs every generator, Redis answers, a service that lost  *)
(* its generator subscribes again, and time passes.  Faults, losses and     *)
(* publications are not fair.                                               *)
Fairness ==
    /\ \A s \in Subs : WF_vars(Step(s)) /\ WF_vars(ReclaimDue(s))
    /\ \A p \in Procs : WF_vars(WarmUp(p))
    /\ \A g \in Groups : \A m \in Ids : WF_vars(BecomeStale(g, m))

FairSpec == Spec /\ Fairness

-----------------------------------------------------------------------------
(* Properties *)

(* The README's retention rule: "pending messages are never evicted before  *)
(* every group has acknowledged them".  Trimming at publish never removes   *)
(* an entry some group has been handed and has not acknowledged, so         *)
(* XAUTOCLAIM always finds the message behind a pending entry.              *)
PendingInStream == \A g \in Groups : pending[g] \subseteq stream

(* At-least-once (bus/base.py:34-36): a message a group is owed and that no *)
(* handler has finished is still in the group's backlog on the server, in   *)
(* every interleaving of trims, claims, late acks, crashes and lost         *)
(* replies.  It is either not read yet or in the pending-entries list.      *)
NothingLost ==
    \A g \in Groups : owed[g] \ processed[g] \subseteq Backlog(g)

(* Work is shared: as long as no group was destroyed, an envelope that is   *)
(* not marked reclaimed (attempt = 1) is in the hands of one subscriber of  *)
(* the group only; a second one can hold the message through a reclaim.     *)
FreshOnce ==
    losses = 0 =>
        \A s, t \in Subs :
            (s # t /\ GroupOf[s] = GroupOf[t]
               /\ source[s] = "new" /\ source[t] = "new")
            => batch[s] \cap batch[t] = {}

(* The inductive strengthening of the three: ids come from 1..lastId, an    *)
(* entry is pending only after it was read, a group that does not exist     *)
(* owes nothing, an ack follows the processing of the first message of the  *)
(* batch, and a generator that is not yielding holds nothing.  While no     *)
(* group was destroyed, one that does not exist was never read, and what is *)
(* held was read.                                                           *)
IdsBounded ==
    /\ stream \subseteq 1..lastId
    /\ \A g \in Groups : lastRead[g] <= lastId /\ processed[g] \subseteq 1..lastId
BatchBounded == \A s \in Subs : batch[s] \subseteq 1..lastId
PendingWasRead == \A g \in Groups : \A m \in pending[g] : m <= lastRead[g]
NoGroupNoDebt == \A g \in Groups \ exists : owed[g] = {} /\ pending[g] = {}
AckAfterProcess ==
    \A s \in Subs : pc[s] = "ack" =>
        \A m \in batch[s] : IsFirst(m, batch[s]) => m \in processed[GroupOf[s]]
IdleHoldsNothing ==
    \A s \in Subs : pc[s] \notin {"claimed", "lookup", "handle", "ack"} => batch[s] = {}
NewGroupUnread == losses = 0 => \A g \in Groups \ exists : lastRead[g] = 0
BatchWasRead ==
    losses = 0 => \A s \in Subs : \A m \in batch[s] : m <= lastRead[GroupOf[s]]

(* The inductive invariant: the parts above, in every interleaving of subscribe(), ack and the server. *)
IndInv ==
    /\ TypeOK
    /\ IdsBounded
    /\ BatchBounded
    /\ PendingWasRead
    /\ PendingInStream
    /\ NoGroupNoDebt
    /\ AckAfterProcess
    /\ IdleHoldsNothing
    /\ NothingLost
    /\ NewGroupUnread
    /\ BatchWasRead
    /\ FreshOnce

(* A group that was destroyed is created again by its subscribers, although *)
(* _groups_ready still claims it exists (redis_streams.py:85-88 discards it *)
(* on the reclaim that meets NOGROUP).                                      *)
GroupComesBack ==
    \A s \in Subs : GroupOf[s] \notin exists ~> GroupOf[s] \in exists

(* The bus keeps the contract of bus/base.py: what a group still has to     *)
(* acknowledge is the abstract backlog, a batch is a lease.                 *)
Contract == INSTANCE AtLeastOnceBus WITH
    Consumers <- Subs, Messages <- Ids, Poison <- Poison,
    retained <- stream, open <- exists,
    backlog <- [g \in Groups |-> Backlog(g)],
    leased <- batch

(* Every step of the Redis bus is a step of the abstract contract, or a stutter. *)
KeepsContract == Contract!SafeSpec

(* With fairness: every message that is not poison is eventually processed  *)
(* for every group that has it in its backlog.                              *)
DeliversAll == Contract!Delivery

=============================================================================
