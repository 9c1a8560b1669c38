---------------------------- MODULE AtLeastOnceBus ----------------------------
(***************************************************************************)
(* What kairos_core/bus/base.py promises of every transport: at-least-once *)
(* delivery with an explicit ack, "so that a crashing consumer does not    *)
(* lose messages".  One topic, a set of consumer groups and of consumers.  *)
(*                                                                         *)
(* A message enters the backlog of every open group when it is published   *)
(* and leaves it only when a consumer that holds it acknowledges it after  *)
(* processing.  A consumer holds a lease on messages of its backlog and    *)
(* may lose the lease at any time (handler error, crash); that does not    *)
(* touch the backlog.                                                      *)
(***************************************************************************)
EXTENDS Naturals

CONSTANTS
    Groups,     \* consumer groups of the topic
    Consumers,  \* consumers, each one reading for one group
    GroupOf,    \* the group a consumer reads for
    Messages,   \* message ids
    Poison      \* messages no handler can process

VARIABLES
    retained,   \* messages the transport still stores
    open,       \* groups that exist
    backlog,    \* per group: retained messages not acknowledged yet
    processed,  \* per group: messages some consumer finished processing
    leased      \* per consumer: the messages it was handed and still holds

vars == <<retained, open, backlog, processed, leased>>

Init ==
    /\ retained = {}
    /\ open = {}
    /\ backlog = [g \in Groups |-> {}]
    /\ processed = [g \in Groups |-> {}]
    /\ leased = [c \in Consumers |-> {}]

-----------------------------------------------------------------------------

(* Publishing stores a new message for every open group; the transport may  *)
(* at the same time forget messages that no open group has to acknowledge. *)
Publish(m, evicted) ==
    /\ m \notin retained
    /\ \A g \in Groups : m \notin backlog[g] \cup processed[g]
    /\ \A g \in Groups : evicted \cap backlog[g] = {}
    /\ retained' = (retained \ evicted) \cup {m}
    /\ backlog' = [g \in Groups |->
                     IF g \in open THEN backlog[g] \cup {m} ELSE backlog[g]]
    /\ UNCHANGED <<open, processed, leased>>

(* A new group owes everything that is still stored. *)
OpenGroup(g) ==
    /\ g \notin open
    /\ open' = open \cup {g}
    /\ backlog' = [backlog EXCEPT ![g] = retained]
    /\ UNCHANGED <<retained, processed, leased>>

(* The operator destroys groups, or the whole topic. *)
Lose(gs, all) ==
    /\ gs # {} \/ all
    /\ all => gs = open
    /\ gs \subseteq open
    /\ open' = open \ gs
    /\ retained' = IF all THEN {} ELSE retained
    /\ backlog' = [g \in Groups |-> IF g \in gs THEN {} ELSE backlog[g]]
    /\ UNCHANGED <<processed, leased>>

(* A consumer is handed messages of its backlog, possibly not for the first *)
(* time and possibly while another consumer still holds them.               *)
Lease(c, ms) ==
    /\ ms # {}
    /\ leased[c] = {}
    /\ ms \subseteq backlog[GroupOf[c]]
    /\ leased' = [leased EXCEPT ![c] = ms]
    /\ UNCHANGED <<retained, open, backlog, processed>>

(* A consumer processes a message it holds. *)
Process(c, m) ==
    /\ m \in leased[c]
    /\ processed' = [processed EXCEPT ![GroupOf[c]] = @ \cup {m}]
    /\ UNCHANGED <<retained, open, backlog, leased>>

(* A consumer acknowledges a message it holds and has processed. *)
Ack(c, m) ==
    /\ m \in leased[c] \cap processed[GroupOf[c]]
    /\ backlog' = [backlog EXCEPT ![GroupOf[c]] = @ \ {m}]
    /\ leased' = [leased EXCEPT ![c] = @ \ {m}]
    /\ UNCHANGED <<retained, open, processed>>

(* A lease ends without an ack: a message is given up by its handler, or    *)
(* the consumers cs stop or crash.                                          *)
Release(c, m) ==
    /\ leased' = [leased EXCEPT ![c] = @ \ {m}]
    /\ UNCHANGED <<retained, open, backlog, processed>>

Drop(cs) ==
    /\ leased' = [c \in Consumers |-> IF c \in cs THEN {} ELSE leased[c]]
    /\ UNCHANGED <<retained, open, backlog, processed>>

Next ==
    \/ \E m \in Messages, evicted \in SUBSET retained : Publish(m, evicted)
    \/ \E g \in Groups : OpenGroup(g)
    \/ \E gs \in SUBSET open, all \in BOOLEAN : Lose(gs, all)
    \/ \E c \in Consumers :
          \/ \E ms \in SUBSET backlog[GroupOf[c]] : Lease(c, ms)
          \/ \E m \in leased[c] : Process(c, m) \/ Ack(c, m) \/ Release(c, m)
    \/ \E cs \in SUBSET Consumers : Drop(cs)

(* What is in the backlog of a group is eventually processed for it, unless *)
(* the group itself is destroyed.  A poison message holds up no other.      *)
Delivery ==
    \A g \in Groups : \A m \in Messages \ Poison :
        m \in backlog[g] ~> (m \in processed[g] \/ m \notin backlog[g])

SafeSpec == Init /\ [][Next]_vars

Spec == SafeSpec /\ Delivery

=============================================================================
