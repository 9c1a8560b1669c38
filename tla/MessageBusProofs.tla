--------------------------- MODULE MessageBusProofs ---------------------------
(***************************************************************************)
(* Theorems about the two buses, RedisStreamsBus (and the contract it      *)
(* refines) and, at the end, InMemoryBus: for every number of groups,      *)
(* processes, subscribers, messages and faults.                            *)
(***************************************************************************)
EXTENDS RedisStreamsBus, InMemoryBus, FiniteSetTheorems, SequenceTheorems, TLAPS

(* The n smallest elements of a set are elements of it. *)
LEMMA LowestSubset ==
    ASSUME NEW S, NEW n
    PROVE  Lowest(S, n) \subseteq S
  BY DEF Lowest

(* What XAUTOCLAIM claims is pending, stale and in the stream. *)
LEMMA ClaimableSubset ==
    ASSUME NEW g, NEW from
    PROVE  /\ Claimable(g, from) \subseteq pending[g]
           /\ Claimable(g, from) \subseteq stream
  <1>1. Claimable(g, from) \subseteq Scanned(g, from) \cap stale[g] \cap stream
    BY LowestSubset DEF Claimable
  <1>2. Scanned(g, from) \subseteq {m \in pending[g] : m >= from}
    BY LowestSubset DEF Scanned
  <1>. QED  BY <1>1, <1>2

(* XREADGROUP returns entries of the stream behind the last-delivered id. *)
LEMMA NewEntriesSubset ==
    ASSUME NEW g
    PROVE  NewEntries(g) \subseteq {m \in stream : m > lastRead[g]}
  BY LowestSubset DEF NewEntries

(* The key of a subscriber is a pair of its process and its group. *)
LEMMA KeyType ==
    ASSUME NEW s \in Subs
    PROVE  /\ ProcOf[s] \in Procs
           /\ GroupOf[s] \in Groups
           /\ Key(s) \in Procs \X Groups
  BY BusAssumption DEF Key

(* Stopping subscribers keeps their locals well-typed. *)
LEMMA StopType ==
    ASSUME TypeOK, NEW ss, Stop(ss)
    PROVE  /\ pc' \in [Subs -> PC]
           /\ due' \in [Subs -> BOOLEAN]
           /\ startId' \in [Subs -> 0..MaxMsg]
           /\ nextId' \in [Subs -> 0..MaxMsg]
           /\ batch' \in [Subs -> SUBSET Ids]
           /\ source' \in [Subs -> {"new", "reclaimed"}]
  <1>1. due' \in [Subs -> BOOLEAN]
    <2>1. \A s \in Subs : (IF s \in ss THEN FALSE ELSE due[s]) \in BOOLEAN
      BY Zenon DEF TypeOK
    <2>. QED  BY <2>1, Zenon DEF Stop
  <1>2. pc' \in [Subs -> PC] /\ source' \in [Subs -> {"new", "reclaimed"}]
    BY DEF Stop, TypeOK, PC
  <1>3. startId' \in [Subs -> 0..MaxMsg] /\ nextId' \in [Subs -> 0..MaxMsg]
    BY BusAssumption DEF Stop, TypeOK
  <1>4. batch' \in [Subs -> SUBSET Ids]
    BY DEF Stop, TypeOK
  <1>. QED  BY <1>1, <1>2, <1>3, <1>4

(* So does resuming behind the yield of a message. *)
LEMMA ResumeType ==
    ASSUME TypeOK, NEW s \in Subs, NEW m, Resume(s, m)
    PROVE  /\ pc' \in [Subs -> PC]
           /\ batch' \in [Subs -> SUBSET Ids]
           /\ UNCHANGED <<due, startId, nextId, source>>
  <1>1. batch' \in [Subs -> SUBSET Ids]
    BY DEF Resume, TypeOK
  <1>2. pc' \in [Subs -> PC]
    BY DEF Resume, Goto, TypeOK, PC
  <1>. QED  BY <1>1, <1>2 DEF Resume

(* The initial state is well-typed. *)
LEMMA TypeInit == Init => TypeOK
  BY BusAssumption DEF Init, TypeOK, PC, Ids

(* Every step keeps the types. *)
LEMMA TypeStep == TypeOK /\ [Next]_vars => TypeOK'
<1>. SUFFICES ASSUME TypeOK, [Next]_vars PROVE TypeOK'
  OBVIOUS
<1>. USE BusAssumption
<1>1. CASE Publish
  <2>1. PICK T \in TrimChoices : stream' = (stream \ T) \cup {lastId + 1}
    BY <1>1 DEF Publish
  <2>2. lastId + 1 \in Ids /\ lastId' \in 0..MaxMsg
    BY <1>1 DEF Publish, TypeOK, Ids
  <2>3. stream' \subseteq Ids /\ owed' \in [Groups -> SUBSET Ids]
    BY <1>1, <2>1, <2>2 DEF Publish, TypeOK
  <2>. QED  BY <1>1, <2>2, <2>3 DEF Publish, TypeOK, clients, locals
<1>2. ASSUME NEW s \in Subs, Subscribe(s) PROVE TypeOK'
  BY <1>2 DEF Subscribe, Goto, TypeOK, PC, server, clients, aux
<1>3. ASSUME NEW s \in Subs, EnsureGroup(s) PROVE TypeOK'
  <2>1. exists' \subseteq Groups /\ ready' \subseteq Procs \X Groups
    BY <1>3, KeyType DEF EnsureGroup, TypeOK
  <2>2. lastRead' \in [Groups -> 0..MaxMsg] /\ owed' \in [Groups -> SUBSET Ids]
    BY <1>3, KeyType DEF EnsureGroup, GroupStart, TypeOK
  <2>3. pc' \in [Subs -> PC]
    BY <1>3 DEF EnsureGroup, Goto, TypeOK, PC
  <2>. QED  BY <1>3, <2>1, <2>2, <2>3 DEF EnsureGroup, TypeOK
<1>4. ASSUME NEW s \in Subs, LoopTop(s) PROVE TypeOK'
  <2>1. cursor[Key(s)] \in 0..MaxMsg
    BY KeyType DEF TypeOK
  <2>. QED  BY <1>4, <2>1 DEF LoopTop, Goto, TypeOK, PC, server, clients, aux
<1>5. ASSUME NEW s \in Subs, AutoClaim(s) PROVE TypeOK'
  <2>1. batch' \in [Subs -> SUBSET Ids]
    BY <1>5, ClaimableSubset, KeyType DEF AutoClaim, TypeOK
  <2>2. pending' \in [Groups -> SUBSET Ids] /\ stale' \in [Groups -> SUBSET Ids]
    BY <1>5, KeyType DEF AutoClaim, TypeOK
  <2>3. nextId' \in [Subs -> 0..MaxMsg] /\ startId' \in [Subs -> 0..MaxMsg]
    BY <1>5 DEF AutoClaim, TypeOK
  <2>4. pc' \in [Subs -> PC] /\ source' \in [Subs -> {"new", "reclaimed"}]
    BY <1>5 DEF AutoClaim, Goto, TypeOK, PC
  <2>. QED  BY <1>5, <2>1, <2>2, <2>3, <2>4 DEF AutoClaim, TypeOK, clients, aux
<1>6. ASSUME NEW s \in Subs, AutoClaimNoGroup(s) PROVE TypeOK'
  BY <1>6, KeyType DEF AutoClaimNoGroup, Goto, TypeOK, PC, server, aux
<1>7. ASSUME NEW s \in Subs, ClaimReply(s) PROVE TypeOK'
  BY <1>7, KeyType DEF ClaimReply, Goto, TypeOK, PC, server, aux
<1>8. ASSUME NEW s \in Subs, Lookup(s) PROVE TypeOK'
  <2>1. CASE GroupOf[s] \in exists
    BY <1>8, <2>1 DEF Lookup, Goto, TypeOK, PC, server, clients, aux
  <2>2. CASE GroupOf[s] \notin exists
    BY <1>8, <2>2, StopType DEF Lookup, TypeOK, server, clients, aux
  <2>. QED  BY <2>1, <2>2
<1>9. ASSUME NEW s \in Subs, ReadNew(s) PROVE TypeOK'
  <2>1. NewEntries(GroupOf[s]) \subseteq Ids
    BY NewEntriesSubset DEF TypeOK
  <2>2. lastRead' \in [Groups -> 0..MaxMsg]
    BY <1>9, <2>1, KeyType DEF ReadNew, TypeOK, Ids
  <2>3. pending' \in [Groups -> SUBSET Ids] /\ batch' \in [Subs -> SUBSET Ids]
    <3>1. CASE NewEntries(GroupOf[s]) = {}
      BY <1>9, <3>1 DEF ReadNew, TypeOK
    <3>2. CASE NewEntries(GroupOf[s]) # {}
      <4>1. /\ pending' = [pending EXCEPT ![GroupOf[s]] = @ \cup NewEntries(GroupOf[s])]
            /\ batch' = [batch EXCEPT ![s] = NewEntries(GroupOf[s])]
        BY <1>9, <3>2 DEF ReadNew
      <4>. QED  BY <2>1, <4>1, KeyType DEF TypeOK
    <3>. QED  BY <3>1, <3>2
  <2>4. pc' \in [Subs -> PC] /\ source' \in [Subs -> {"new", "reclaimed"}]
    BY <1>9 DEF ReadNew, Goto, TypeOK, PC
  <2>. QED  BY <1>9, <2>2, <2>3, <2>4 DEF ReadNew, TypeOK, clients, aux
<1>10. ASSUME NEW s \in Subs, ReadNoGroup(s) PROVE TypeOK'
  BY <1>10, StopType DEF ReadNoGroup, TypeOK, server, clients, aux
<1>11. ASSUME NEW s \in Subs, Process(s) PROVE TypeOK'
  <2>1. processed' \in [Groups -> SUBSET Ids]
    BY <1>11, KeyType DEF Process, TypeOK
  <2>. QED  BY <1>11, <2>1 DEF Process, Goto, TypeOK, PC, server, clients
<1>12. ASSUME NEW s \in Subs, Ack(s) PROVE TypeOK'
  <2>1. PICK m \in batch[s] : Resume(s, m)
    BY <1>12 DEF Ack
  <2>2. pending' \in [Groups -> SUBSET Ids] /\ stale' \in [Groups -> SUBSET Ids]
    BY <1>12, KeyType DEF Ack, TypeOK
  <2>. QED  BY <1>12, <2>1, <2>2, ResumeType DEF Ack, TypeOK, clients, aux
<1>13. ASSUME NEW s \in Subs, PoisonFails(s) \/ HandlerFails(s) PROVE TypeOK'
  <2>1. PICK m \in batch[s] : Resume(s, m)
    BY <1>13 DEF PoisonFails, HandlerFails, GiveUp
  <2>2. faults' \in 0..MaxFaults
    BY <1>13 DEF PoisonFails, HandlerFails, TypeOK
  <2>. QED  BY <1>13, <2>1, <2>2, ResumeType
            DEF PoisonFails, HandlerFails, GiveUp, TypeOK, server, clients
<1>14. ASSUME NEW s \in Subs, GeneratorDies(s) PROVE TypeOK'
  <2>1. faults' \in 0..MaxFaults
    BY <1>14 DEF GeneratorDies, TypeOK
  <2>. QED  BY <1>14, <2>1, StopType DEF GeneratorDies, TypeOK, server, clients
<1>15. ASSUME NEW s \in Subs, ReclaimDue(s) PROVE TypeOK'
  BY <1>15 DEF ReclaimDue, TypeOK, server, clients, aux
<1>16. ASSUME NEW p \in Procs, Crash(p) PROVE TypeOK'
  <2>1. faults' \in 0..MaxFaults
    BY <1>16 DEF Crash, TypeOK
  <2>2. ready' \subseteq Procs \X Groups /\ cursor' \in [Procs \X Groups -> 0..MaxMsg]
    BY <1>16 DEF Crash, TypeOK
  <2>3. Stop({s \in Subs : ProcOf[s] = p})
    BY <1>16 DEF Crash
  <2>. QED  BY <1>16, <2>1, <2>2, <2>3, StopType DEF Crash, TypeOK, server
<1>17. ASSUME NEW p \in Procs, WarmUp(p) PROVE TypeOK'
  BY <1>17 DEF WarmUp, TypeOK, server, locals, aux
<1>18. ASSUME NEW g \in Groups, NEW m \in Ids, BecomeStale(g, m) PROVE TypeOK'
  BY <1>18 DEF BecomeStale, TypeOK, clients, locals, aux
<1>19. ASSUME NEW gs, LoseGroups(gs), stream' \subseteq stream PROVE TypeOK'
  BY <1>19 DEF LoseGroups, TypeOK, clients, locals
<1>20. CASE UNCHANGED vars
  BY <1>20 DEF vars, TypeOK, server, clients, locals, aux
<1>. QED
  BY <1>1, <1>2, <1>3, <1>4, <1>5, <1>6, <1>7, <1>8, <1>9, <1>10, <1>11,
     <1>12, <1>13, <1>14, <1>15, <1>16, <1>17, <1>18, <1>19, <1>20
     DEF Next, Step, Fault, LoseGroup, LoseStream

(* Every variable keeps its type, whatever the numbers of groups, processes, *)
(* subscribers, messages and faults.                                         *)
THEOREM TypeCorrect == Spec => []TypeOK
  BY TypeInit, TypeStep, PTL DEF Spec

-----------------------------------------------------------------------------
(* The inductive invariant, in parts: what the server keeps for a group,    *)
(* what the generators hold, and who holds it for the first time.           *)

ServerInv ==
    /\ IdsBounded
    /\ PendingWasRead
    /\ PendingInStream
    /\ NoGroupNoDebt
    /\ NothingLost

ClientInv == BatchBounded /\ AckAfterProcess /\ IdleHoldsNothing

FreshInv == NewGroupUnread /\ BatchWasRead /\ FreshOnce

Yielding == {"claimed", "lookup", "handle", "ack"}

(* The invariant is the conjunction of these parts. *)
LEMMA IndInvSplit == IndInv <=> TypeOK /\ ServerInv /\ ClientInv /\ FreshInv
  BY DEF IndInv, ServerInv, ClientInv, FreshInv

(* Message ids are numbers. *)
LEMMA IdsAreNat == Ids \subseteq Nat /\ MaxMsg \in Nat
  BY BusAssumption DEF Ids

(* A last-delivered-id is a number. *)
LEMMA LastReadIsNat ==
    ASSUME TypeOK, NEW g \in Groups
    PROVE  lastRead[g] \in Nat
<1>1. lastRead[g] \in 0..MaxMsg
  BY DEF TypeOK
<1>. QED  BY <1>1, IdsAreNat

(* A read leaves nothing behind: an entry below one of the n smallest       *)
(* elements of a set of ids is one of the n smallest itself.                *)
LEMMA LowestDownward ==
    ASSUME NEW S \in SUBSET Ids, NEW n \in Nat,
           NEW k \in Lowest(S, n), NEW m \in S, m <= k
    PROVE  m \in Lowest(S, n)
<1>. DEFINE Below(x) == {j \in S : j < x}
<1>1. IsFiniteSet(Below(k))
  <2>1. IsFiniteSet(1..MaxMsg)
    BY BusAssumption, FS_Interval
  <2>. QED  BY <2>1, FS_Subset DEF Ids
<1>2. Below(m) \subseteq Below(k)
  <2>1. k \in S
    BY LowestSubset
  <2>2. m \in Nat /\ k \in Nat /\ S \subseteq Nat
    BY <2>1, IdsAreNat
  <2>3. \A j \in S : j < m => j < k
    BY <2>2
  <2>. QED  BY <2>3
<1>3. /\ IsFiniteSet(Below(m))
      /\ Cardinality(Below(m)) <= Cardinality(Below(k))
  BY <1>1, <1>2, FS_Subset
<1>4. Cardinality(Below(k)) \in Nat /\ Cardinality(Below(m)) \in Nat
  BY <1>1, <1>3, FS_CardinalityType
<1>5. Cardinality(Below(k)) < n
  BY DEF Lowest
<1>6. Cardinality(Below(m)) < n
  BY <1>3, <1>4, <1>5
<1>. QED  BY <1>6 DEF Lowest

(* Nothing of the server's half is touched. *)
LEMMA ServerFrame ==
    ASSUME ServerInv, UNCHANGED <<stream, lastId, exists, lastRead, pending>>,
           UNCHANGED <<owed, processed>>
    PROVE  ServerInv'
  BY DEF ServerInv, IdsBounded, PendingWasRead, PendingInStream, NoGroupNoDebt,
         NothingLost, Backlog

(* Publishing, with whatever trimming, keeps the server half. *)
LEMMA PublishServer == TypeOK /\ ServerInv /\ Publish => ServerInv'
<1>. SUFFICES ASSUME TypeOK, ServerInv, Publish PROVE ServerInv'
  OBVIOUS
<1>. USE BusAssumption
<1>1. PICK T \in TrimChoices : stream' = (stream \ T) \cup {lastId + 1}
  BY DEF Publish
<1>2. T \subseteq Trimmable
  BY DEF TrimChoices
<1>3. \A g \in exists : T \cap Backlog(g) = {} /\ T \cap pending[g] = {}
  <2>. SUFFICES ASSUME NEW g \in exists, NEW m \in T
                PROVE  m \notin Backlog(g) /\ m \notin pending[g]
    OBVIOUS
  <2>1. m \in stream /\ m <= lastRead[g] /\ m \notin pending[g]
    BY <1>2 DEF Trimmable
  <2>2. m \in Nat /\ lastRead[g] \in Nat
    BY <2>1, IdsAreNat DEF TypeOK
  <2>. QED  BY <2>1, <2>2 DEF Backlog
<1>4. lastId \in Nat /\ lastId' = lastId + 1
  BY DEF Publish, TypeOK
<1>5. IdsBounded'
  <2>1. stream' \subseteq 1..lastId'
    <3>1. \A m \in stream : m \in 1..lastId + 1
      BY <1>4 DEF ServerInv, IdsBounded
    <3>2. lastId + 1 \in 1..lastId + 1
      BY <1>4
    <3>. QED  BY <1>1, <1>4, <3>1, <3>2
  <2>2. \A g \in Groups : lastRead'[g] <= lastId' /\ processed'[g] \subseteq 1..lastId'
    <3>. SUFFICES ASSUME NEW g \in Groups
                  PROVE  lastRead[g] <= lastId + 1 /\ processed[g] \subseteq 1..lastId + 1
      BY <1>4 DEF Publish
    <3>1. lastRead[g] \in Nat /\ lastRead[g] <= lastId /\ processed[g] \subseteq 1..lastId
      BY DEF ServerInv, IdsBounded, TypeOK
    <3>. QED  BY <1>4, <3>1
  <2>. QED  BY <2>1, <2>2 DEF IdsBounded
<1>6. PendingWasRead' /\ NoGroupNoDebt'
  BY DEF Publish, ServerInv, PendingWasRead, NoGroupNoDebt
<1>7. PendingInStream'
  <2>. SUFFICES ASSUME NEW g \in Groups PROVE pending[g] \subseteq stream'
    BY DEF PendingInStream, Publish
  <2>1. CASE g \in exists
    BY <1>1, <1>3, <2>1 DEF ServerInv, PendingInStream
  <2>2. CASE g \notin exists
    BY <2>2 DEF ServerInv, NoGroupNoDebt
  <2>. QED  BY <2>1, <2>2
<1>8. NothingLost'
  <2>. SUFFICES ASSUME NEW g \in Groups, NEW m \in owed'[g] \ processed[g]
                PROVE  m \in Backlog(g)'
    BY DEF NothingLost, Publish
  <2>1. g \in exists
    BY DEF Publish, ServerInv, NoGroupNoDebt, TypeOK
  <2>2. CASE m = lastId + 1
    BY <1>1, <1>4, <2>1, <2>2 DEF Publish, Backlog, ServerInv, IdsBounded, TypeOK
  <2>3. CASE m # lastId + 1
    <3>1. m \in Backlog(g)
      BY <2>1, <2>3 DEF Publish, ServerInv, NothingLost, TypeOK
    <3>. QED  BY <1>1, <1>3, <2>1, <3>1 DEF Publish, Backlog
  <2>. QED  BY <2>2, <2>3
<1>. QED  BY <1>5, <1>6, <1>7, <1>8 DEF ServerInv

(* Losing groups, or the stream with all its groups, keeps the server half. *)
LEMMA LoseServer ==
    ASSUME TypeOK, ServerInv, NEW gs, LoseGroups(gs),
           \/ UNCHANGED stream
           \/ exists \subseteq gs /\ stream' = {}
    PROVE  ServerInv'
<1>. USE BusAssumption
<1>1. IdsBounded'
  <2>1. lastId \in Nat /\ UNCHANGED <<lastId, processed>> /\ stream' \subseteq stream
    BY DEF LoseGroups, TypeOK
  <2>2. \A g \in Groups : lastRead'[g] = 0 \/ lastRead'[g] = lastRead[g]
    BY DEF LoseGroups
  <2>. QED  BY <2>1, <2>2 DEF ServerInv, IdsBounded
<1>4. PendingWasRead'
  BY DEF LoseGroups, ServerInv, PendingWasRead, TypeOK
<1>2. NoGroupNoDebt' /\ PendingInStream'
  BY DEF LoseGroups, ServerInv, NoGroupNoDebt, PendingInStream, TypeOK
<1>3. NothingLost'
  <2>. SUFFICES ASSUME NEW g \in Groups PROVE owed'[g] \ processed[g] \subseteq Backlog(g)'
    BY DEF NothingLost, LoseGroups
  <2>1. CASE g \in gs \/ g \notin exists
    BY <2>1 DEF LoseGroups, ServerInv, NoGroupNoDebt
  <2>2. CASE g \notin gs /\ g \in exists
    BY <2>2 DEF LoseGroups, Backlog, ServerInv, NothingLost, TypeOK
  <2>. QED  BY <2>1, <2>2
<1>. QED  BY <1>1, <1>2, <1>3, <1>4 DEF ServerInv

(* A group that is created owes what the stream holds. *)
LEMMA EnsureServer ==
    ASSUME TypeOK, ServerInv, NEW s \in Subs, EnsureGroup(s)
    PROVE  ServerInv'
<1>. USE BusAssumption, KeyType
<1>1. IdsBounded' /\ PendingWasRead' /\ PendingInStream'
  BY DEF EnsureGroup, GroupStart, ServerInv, IdsBounded, PendingWasRead,
         PendingInStream, NoGroupNoDebt, TypeOK
<1>2. NoGroupNoDebt'
  BY DEF EnsureGroup, ServerInv, NoGroupNoDebt, TypeOK
<1>3. NothingLost'
  <2>. SUFFICES ASSUME NEW g \in Groups PROVE owed'[g] \ processed[g] \subseteq Backlog(g)'
    BY DEF NothingLost, EnsureGroup
  <2>1. CASE g = GroupOf[s] /\ g \notin exists
    <3>1. /\ owed'[g] = stream /\ lastRead'[g] = 0 /\ g \in exists'
          /\ UNCHANGED <<stream, pending, processed>>
      BY <2>1 DEF EnsureGroup, GroupStart, TypeOK
    <3>2. \A m \in stream : m > 0
      BY DEF TypeOK, Ids
    <3>. QED  BY <3>1, <3>2 DEF Backlog
  <2>2. CASE g # GroupOf[s] \/ g \in exists
    BY <2>2 DEF EnsureGroup, Backlog, ServerInv, NothingLost, TypeOK
  <2>. QED  BY <2>1, <2>2
<1>. QED  BY <1>1, <1>2, <1>3 DEF ServerInv

(* A claim touches only pending entries that are in the stream. *)
LEMMA AutoClaimServer ==
    ASSUME TypeOK, ServerInv, NEW s \in Subs, AutoClaim(s)
    PROVE  ServerInv'
<1>. USE BusAssumption, KeyType
<1>1. \A g \in Groups : /\ pending'[g] \subseteq pending[g]
                        /\ pending[g] \cap stream \subseteq pending'[g]
  BY DEF AutoClaim, TypeOK
<1>2. IdsBounded' /\ PendingWasRead' /\ PendingInStream' /\ NoGroupNoDebt'
  BY <1>1 DEF AutoClaim, aux, ServerInv, IdsBounded, PendingWasRead,
              PendingInStream, NoGroupNoDebt
<1>3. NothingLost'
  BY <1>1 DEF AutoClaim, aux, ServerInv, NothingLost, Backlog
<1>. QED  BY <1>2, <1>3 DEF ServerInv

(* A read moves messages from unread to pending and leaves none behind. *)
LEMMA ReadNewServer ==
    ASSUME TypeOK, ServerInv, NEW s \in Subs, ReadNew(s)
    PROVE  ServerInv'
<1>. USE BusAssumption, KeyType
<1>. DEFINE g == GroupOf[s]
            news == NewEntries(g)
<1>1. CASE news = {}
  BY <1>1, ServerFrame DEF ReadNew, aux
<1>2. CASE news # {}
  <2>1. PICK last \in news :
           IsLast(last, news) /\ lastRead' = [lastRead EXCEPT ![g] = last]
    BY <1>2 DEF ReadNew
  <2>2. pending' = [pending EXCEPT ![g] = @ \cup news]
    BY <1>2 DEF ReadNew
  <2>3. news \subseteq stream /\ \A m \in news : m > lastRead[g] /\ m <= last
    BY <2>1, NewEntriesSubset DEF IsLast
  <2>9. last \in stream /\ last \in 1..lastId /\ last \in Nat
    <3>1. last \in stream
      BY <2>1, <2>3
    <3>. QED  BY <3>1, IdsAreNat DEF ServerInv, IdsBounded, TypeOK
  <2>4. UNCHANGED <<stream, lastId, exists, owed, processed>> /\ g \in exists
    BY DEF ReadNew, aux
  <2>8. IdsBounded'
    <3>1. last <= lastId /\ last \in Nat
      BY <2>9 DEF TypeOK
    <3>. QED  BY <2>1, <2>4, <3>1 DEF ServerInv, IdsBounded, TypeOK
  <2>5. PendingInStream' /\ NoGroupNoDebt'
    BY <2>2, <2>3, <2>4 DEF ServerInv, PendingInStream, NoGroupNoDebt, TypeOK
  <2>6. PendingWasRead'
    <3>. SUFFICES ASSUME NEW h \in Groups, NEW m \in pending'[h]
                  PROVE  m <= lastRead'[h]
      BY DEF PendingWasRead
    <3>1. CASE h = g /\ m \in news
      BY <2>1, <2>3, <3>1 DEF TypeOK
    <3>2. CASE h = g /\ m \notin news
      <4>1. m \in pending[g] /\ m <= lastRead[g] /\ last > lastRead[g]
        BY <2>1, <2>2, <2>3, <3>2 DEF ServerInv, PendingWasRead, TypeOK
      <4>2. m \in Nat /\ last \in Nat /\ lastRead[g] \in Nat
        <5>1. pending[g] \subseteq Ids /\ lastRead[g] \in Nat
          BY KeyType, LastReadIsNat DEF TypeOK
        <5>2. m \in Nat
          BY <4>1, <5>1, IdsAreNat
        <5>3. last \in Nat
          BY <2>9
        <5>. QED  BY <5>1, <5>2, <5>3
      <4>. QED  BY <2>1, <3>2, <4>1, <4>2 DEF TypeOK
    <3>3. CASE h # g
      BY <2>1, <2>2, <3>3 DEF ServerInv, PendingWasRead, TypeOK
    <3>. QED  BY <3>1, <3>2, <3>3
  <2>7. NothingLost'
    <3>. SUFFICES ASSUME NEW h \in Groups, NEW m \in owed[h] \ processed[h]
                  PROVE  m \in Backlog(h)'
      BY <2>4 DEF NothingLost
    <3>1. m \in Backlog(h)
      BY DEF ServerInv, NothingLost
    <3>2. h \in exists /\ m \in stream /\ (m > lastRead[h] \/ m \in pending[h])
      BY <3>1 DEF Backlog
    <3>3. CASE h # g \/ m \in pending[h]
      BY <2>1, <2>2, <2>4, <3>2, <3>3 DEF Backlog, TypeOK
    <3>4. CASE h = g /\ m \notin pending[h]
      <4>1. CASE m <= last
        <5>1. m \in news
          BY <2>1, <3>2, <3>4, <4>1, LowestDownward DEF NewEntries, TypeOK
        <5>. QED  BY <2>2, <2>4, <3>2, <3>4, <5>1 DEF Backlog, TypeOK
      <4>2. CASE ~(m <= last)
        <5>1. m \in Nat /\ last \in Nat
          BY <2>3, <3>2, IdsAreNat DEF TypeOK
        <5>. QED  BY <2>1, <2>4, <3>2, <3>4, <4>2, <5>1 DEF Backlog, TypeOK
      <4>. QED  BY <4>1, <4>2
    <3>. QED  BY <3>3, <3>4
  <2>. QED  BY <2>5, <2>6, <2>7, <2>8 DEF ServerInv
<1>. QED  BY <1>1, <1>2

(* A processed message was in a batch, so it is one of the ids. *)
LEMMA ProcessServer ==
    ASSUME TypeOK, ServerInv, BatchBounded, NEW s \in Subs, Process(s)
    PROVE  ServerInv'
<1>. USE KeyType
<1>1. PICK m \in batch[s] : processed' = [processed EXCEPT ![GroupOf[s]] = @ \cup {m}]
  BY DEF Process
<1>2. m \in 1..lastId
  BY <1>1 DEF BatchBounded
<1>3. \A g \in Groups : /\ processed[g] \subseteq processed'[g]
                        /\ processed'[g] \subseteq processed[g] \cup {m}
  BY <1>1 DEF TypeOK
<1>4. UNCHANGED <<stream, lastId, exists, lastRead, pending, owed>>
  BY DEF Process, server
<1>5. \A g \in Groups : processed'[g] \subseteq 1..lastId
  BY <1>2, <1>3 DEF ServerInv, IdsBounded
<1>. QED
  BY <1>3, <1>4, <1>5 DEF ServerInv, IdsBounded, PendingWasRead, PendingInStream,
     NoGroupNoDebt, NothingLost, Backlog

(* Only a processed message is acknowledged: the ack takes nothing unprocessed *)
(* out of the backlog, even when another subscriber holds the message too.     *)
LEMMA AckServer ==
    ASSUME TypeOK, ServerInv, AckAfterProcess, NEW s \in Subs, Ack(s)
    PROVE  ServerInv'
<1>. USE KeyType
<1>1. PICK m \in batch[s] :
         /\ IsFirst(m, batch[s])
         /\ pending' = [pending EXCEPT ![GroupOf[s]] = @ \ {m}]
  BY DEF Ack
<1>2. m \in processed[GroupOf[s]]
  BY <1>1 DEF Ack, AckAfterProcess
<1>3. UNCHANGED <<stream, lastId, exists, lastRead, owed, processed>>
  BY DEF Ack, aux
<1>4. \A g \in Groups : /\ pending'[g] \subseteq pending[g]
                        /\ pending[g] \ processed[g] \subseteq pending'[g]
  BY <1>1, <1>2 DEF TypeOK
<1>. QED
  BY <1>3, <1>4 DEF ServerInv, IdsBounded, PendingWasRead, PendingInStream,
     NoGroupNoDebt, NothingLost, Backlog

(* Every step keeps the server half. *)
LEMMA ServerStep == IndInv /\ [Next]_vars => ServerInv'
<1>. SUFFICES ASSUME IndInv, [Next]_vars PROVE ServerInv'
  OBVIOUS
<1>. USE IndInvSplit DEF ClientInv
<1>1. CASE Publish
  BY <1>1, PublishServer
<1>2. ASSUME NEW s \in Subs,
             \/ EnsureGroup(s) \/ AutoClaim(s) \/ ReadNew(s) \/ Process(s) \/ Ack(s)
      PROVE  ServerInv'
  BY <1>2, EnsureServer, AutoClaimServer, ReadNewServer, ProcessServer, AckServer
<1>3. ASSUME NEW s \in Subs,
             \/ Subscribe(s) \/ LoopTop(s) \/ AutoClaimNoGroup(s) \/ ClaimReply(s)
             \/ Lookup(s) \/ ReadNoGroup(s) \/ ReclaimDue(s)
      PROVE  ServerInv'
  BY <1>3, ServerFrame DEF Subscribe, LoopTop, AutoClaimNoGroup, ClaimReply, Lookup,
     ReadNoGroup, ReclaimDue, server, aux
<1>4. ASSUME NEW s \in Subs, PoisonFails(s) \/ HandlerFails(s) \/ GeneratorDies(s)
      PROVE  ServerInv'
  BY <1>4, ServerFrame DEF PoisonFails, HandlerFails, GiveUp, GeneratorDies, server
<1>5. ASSUME NEW p \in Procs, Crash(p) \/ WarmUp(p) PROVE ServerInv'
  BY <1>5, ServerFrame DEF Crash, WarmUp, server, aux
<1>6. ASSUME NEW g \in Groups, NEW m \in Ids, BecomeStale(g, m) PROVE ServerInv'
  BY <1>6, ServerFrame DEF BecomeStale, aux
<1>7. ASSUME NEW g \in Groups, LoseGroup(g) PROVE ServerInv'
  BY <1>7, LoseServer DEF LoseGroup
<1>8. CASE LoseStream
  BY <1>8, LoseServer DEF LoseStream
<1>9. CASE UNCHANGED vars
  BY <1>9, ServerFrame DEF vars, server, aux
<1>. QED
  BY <1>1, <1>2, <1>3, <1>4, <1>5, <1>6, <1>7, <1>8, <1>9 DEF Next, Step, Fault

-----------------------------------------------------------------------------

(* One subscriber moves; the others keep what they hold. *)
LEMMA ClientFrame ==
    ASSUME TypeOK, ClientInv, NEW s \in Subs,
           lastId' = lastId,
           \A g \in Groups : processed[g] \subseteq processed'[g],
           \A t \in Subs : t # s => pc'[t] = pc[t] /\ batch'[t] = batch[t],
           batch'[s] \subseteq 1..lastId,
           pc'[s] \notin Yielding => batch'[s] = {},
           pc'[s] = "ack" => \A m \in batch'[s] :
                                 IsFirst(m, batch'[s]) => m \in processed'[GroupOf[s]]
    PROVE  ClientInv'
  BY KeyType DEF ClientInv, BatchBounded, AckAfterProcess, IdleHoldsNothing, Yielding

(* Subscribers stop, or nothing happens to any of them. *)
LEMMA ClientStop ==
    ASSUME TypeOK, ClientInv, lastId' = lastId, processed' = processed,
           NEW ss, Stop(ss)
    PROVE  ClientInv'
  BY DEF Stop, ClientInv, BatchBounded, AckAfterProcess, IdleHoldsNothing

(* A subscriber whose batch is empty goes to a place where none is needed. *)
LEMMA ClientIdle ==
    ASSUME ClientInv, lastId <= lastId', TypeOK, lastId' \in Nat,
           UNCHANGED <<pc, batch, processed>>
    PROVE  ClientInv'
<1>1. \A n \in 1..lastId : n \in 1..lastId'
  BY DEF TypeOK
<1>2. BatchBounded'
  BY <1>1 DEF ClientInv, BatchBounded
<1>. QED  BY <1>2 DEF ClientInv, AckAfterProcess, IdleHoldsNothing

(* Every step keeps the half about the subscribers. *)
LEMMA ClientStep == IndInv /\ [Next]_vars => ClientInv'
<1>. SUFFICES ASSUME IndInv, [Next]_vars PROVE ClientInv'
  OBVIOUS
<1>. USE IndInvSplit
<1>0. TypeOK /\ ClientInv /\ ServerInv /\ lastId \in Nat
  BY IdsAreNat DEF TypeOK
<1>1. CASE Publish
  <2>1. lastId <= lastId + 1 /\ lastId' = lastId + 1 /\ lastId' \in Nat
    BY <1>0, <1>1 DEF Publish
  <2>. QED  BY <1>0, <1>1, <2>1, ClientIdle DEF Publish, locals
<1>2. ASSUME NEW s \in Subs,
             \/ Subscribe(s) \/ EnsureGroup(s) \/ LoopTop(s) \/ AutoClaimNoGroup(s)
      PROVE  ClientInv'
  <2>1. /\ pc'[s] \in {"top", "ensure", "claim", "read"}
        /\ batch' = batch /\ batch[s] = {}
        /\ \A t \in Subs : t # s => pc'[t] = pc[t]
    BY <1>0, <1>2 DEF Subscribe, EnsureGroup, LoopTop, AutoClaimNoGroup, Goto,
       ClientInv, IdleHoldsNothing, TypeOK
  <2>2. UNCHANGED <<lastId, processed>>
    BY <1>2 DEF Subscribe, EnsureGroup, LoopTop, AutoClaimNoGroup, server, aux
  <2>. QED  BY <1>0, <2>1, <2>2, ClientFrame
<1>3. ASSUME NEW s \in Subs, AutoClaim(s) PROVE ClientInv'
  <2>1. /\ pc'[s] = "claimed"
        /\ batch' = [batch EXCEPT ![s] = Claimable(GroupOf[s], startId[s])]
        /\ \A t \in Subs : t # s => pc'[t] = pc[t]
        /\ UNCHANGED <<lastId, processed>>
    BY <1>0, <1>3 DEF AutoClaim, Goto, TypeOK, aux
  <2>2. Claimable(GroupOf[s], startId[s]) \subseteq 1..lastId
    BY <1>0, ClaimableSubset DEF ServerInv, IdsBounded
  <2>. QED  BY <1>0, <2>1, <2>2, ClientFrame DEF Yielding, TypeOK
<1>4. ASSUME NEW s \in Subs, ClaimReply(s) PROVE ClientInv'
  <2>1. /\ pc'[s] = IF batch[s] = {} THEN "read" ELSE "lookup"
        /\ batch' = batch
        /\ \A t \in Subs : t # s => pc'[t] = pc[t]
        /\ UNCHANGED <<lastId, processed>>
    BY <1>0, <1>4 DEF ClaimReply, Goto, TypeOK, server, aux
  <2>. QED  BY <1>0, <2>1, ClientFrame DEF Yielding, ClientInv, BatchBounded
<1>5. ASSUME NEW s \in Subs, Lookup(s) PROVE ClientInv'
  <2>1. UNCHANGED <<lastId, processed>>
    BY <1>5 DEF Lookup, server, aux
  <2>2. CASE Stop({s})
    BY <1>0, <2>1, <2>2, ClientStop
  <2>3. CASE Goto(s, "handle") /\ batch' = batch
    <3>1. pc'[s] = "handle" /\ \A t \in Subs : t # s => pc'[t] = pc[t]
      BY <1>0, <2>3 DEF Goto, TypeOK
    <3>. QED  BY <1>0, <2>1, <2>3, <3>1, ClientFrame DEF Yielding, ClientInv, BatchBounded
  <2>. QED  BY <1>5, <2>2, <2>3 DEF Lookup
<1>6. ASSUME NEW s \in Subs, ReadNew(s) PROVE ClientInv'
  <2>1. UNCHANGED <<lastId, processed>>
    BY <1>6 DEF ReadNew, aux
  <2>2. CASE NewEntries(GroupOf[s]) = {}
    <3>1. /\ pc'[s] = "top" /\ batch' = batch /\ batch[s] = {}
          /\ \A t \in Subs : t # s => pc'[t] = pc[t]
      BY <1>0, <1>6, <2>2 DEF ReadNew, Goto, TypeOK, ClientInv, IdleHoldsNothing
    <3>. QED  BY <1>0, <2>1, <3>1, ClientFrame
  <2>3. CASE NewEntries(GroupOf[s]) # {}
    <3>1. /\ pc'[s] = "handle"
          /\ batch' = [batch EXCEPT ![s] = NewEntries(GroupOf[s])]
          /\ \A t \in Subs : t # s => pc'[t] = pc[t]
      BY <1>0, <1>6, <2>3 DEF ReadNew, Goto, TypeOK
    <3>2. NewEntries(GroupOf[s]) \subseteq 1..lastId
      BY <1>0, NewEntriesSubset DEF ServerInv, IdsBounded
    <3>. QED  BY <1>0, <2>1, <3>1, <3>2, ClientFrame DEF Yielding, TypeOK
  <2>. QED  BY <2>2, <2>3
<1>7. ASSUME NEW s \in Subs, Process(s) PROVE ClientInv'
  <2>1. PICK m \in batch[s] :
           /\ IsFirst(m, batch[s])
           /\ processed' = [processed EXCEPT ![GroupOf[s]] = @ \cup {m}]
    BY <1>7 DEF Process
  <2>2. /\ pc'[s] = "ack" /\ batch' = batch /\ lastId' = lastId
        /\ \A t \in Subs : t # s => pc'[t] = pc[t]
    BY <1>0, <1>7 DEF Process, Goto, TypeOK, server
  <2>3. /\ \A g \in Groups : processed[g] \subseteq processed'[g]
        /\ m \in processed'[GroupOf[s]]
    BY <1>0, <2>1, KeyType DEF TypeOK
  <2>4. \A n \in batch[s] : IsFirst(n, batch[s]) => n = m
    <3>1. batch[s] \subseteq Nat
      BY <1>0, IdsAreNat DEF TypeOK
    <3>. QED  BY <2>1, <3>1 DEF IsFirst
  <2>. QED  BY <1>0, <2>2, <2>3, <2>4, ClientFrame DEF Yielding, ClientInv, BatchBounded
<1>8. ASSUME NEW s \in Subs, Ack(s) \/ PoisonFails(s) \/ HandlerFails(s)
      PROVE  ClientInv'
  <2>1. PICK m \in batch[s] : Resume(s, m)
    BY <1>8 DEF Ack, PoisonFails, HandlerFails, GiveUp
  <2>2. UNCHANGED <<lastId, processed>>
    BY <1>8 DEF Ack, PoisonFails, HandlerFails, GiveUp, server, aux
  <2>3. /\ batch'[s] = batch[s] \ {m}
        /\ pc'[s] \in {"handle", "read", "top"}
        /\ pc'[s] # "handle" => batch[s] = {m}
        /\ \A t \in Subs : t # s => pc'[t] = pc[t] /\ batch'[t] = batch[t]
    BY <1>0, <2>1 DEF Resume, Goto, TypeOK
  <2>. QED  BY <1>0, <2>2, <2>3, ClientFrame DEF Yielding, ClientInv, BatchBounded
<1>9. ASSUME NEW s \in Subs, ReadNoGroup(s) \/ GeneratorDies(s) PROVE ClientInv'
  BY <1>0, <1>9, ClientStop DEF ReadNoGroup, GeneratorDies, server, aux
<1>10. ASSUME NEW p \in Procs, Crash(p) PROVE ClientInv'
  BY <1>0, <1>10, ClientStop DEF Crash, server
<1>11. ASSUME UNCHANGED <<pc, batch, processed, lastId>> PROVE ClientInv'
  BY <1>0, <1>11, ClientIdle
<1>. QED
  BY <1>1, <1>2, <1>3, <1>4, <1>5, <1>6, <1>7, <1>8, <1>9, <1>10, <1>11
     DEF Next, Step, Fault, ReclaimDue, WarmUp, BecomeStale, LoseGroup, LoseStream,
         LoseGroups, vars, server, clients, locals, aux

-----------------------------------------------------------------------------

(* Subscribers give up part of what they hold; all of it if the mark of     *)
(* their batch changes.                                                     *)
LEMMA FreshShrink ==
    ASSUME FreshInv,
           UNCHANGED <<exists, lastRead, losses>>,
           \A s \in Subs : batch'[s] \subseteq batch[s],
           \A s \in Subs : batch'[s] = {} \/ source'[s] = source[s]
    PROVE  FreshInv'
<1>1. NewGroupUnread' /\ BatchWasRead'
  BY DEF FreshInv, NewGroupUnread, BatchWasRead
<1>2. FreshOnce'
  <2>. SUFFICES ASSUME losses = 0, NEW s \in Subs, NEW t \in Subs, s # t,
                       GroupOf[s] = GroupOf[t], source'[s] = "new", source'[t] = "new"
                PROVE  batch'[s] \cap batch'[t] = {}
    BY DEF FreshOnce
  <2>1. CASE batch'[s] = {} \/ batch'[t] = {}
    BY <2>1
  <2>2. CASE batch'[s] # {} /\ batch'[t] # {}
    <3>1. batch[s] \cap batch[t] = {}
      BY <2>2 DEF FreshInv, FreshOnce
    <3>. QED  BY <3>1
  <2>. QED  BY <2>1, <2>2
<1>. QED  BY <1>1, <1>2 DEF FreshInv

(* Stopping subscribers is such a step. *)
LEMMA FreshStop ==
    ASSUME FreshInv, UNCHANGED <<exists, lastRead, losses>>, NEW ss, Stop(ss)
    PROVE  FreshInv'
<1>1. /\ \A s \in Subs : batch'[s] \subseteq batch[s]
      /\ \A s \in Subs : batch'[s] = {} \/ source'[s] = source[s]
  BY DEF Stop
<1>. QED  BY <1>1, FreshShrink

(* Creating a group: it was not read before. *)
LEMMA EnsureFresh ==
    ASSUME IndInv, NEW s \in Subs, EnsureGroup(s)
    PROVE  FreshInv'
<1>1. TypeOK /\ FreshInv
  BY IndInvSplit
<1>2. /\ exists' = exists \cup {GroupOf[s]}
      /\ lastRead' = [lastRead EXCEPT ![GroupOf[s]] =
                         IF GroupOf[s] \in exists THEN @ ELSE 0]
      /\ UNCHANGED <<batch, source, losses>>
  BY DEF EnsureGroup, GroupStart
<1>3. losses = 0 => \A g \in Groups : lastRead'[g] = lastRead[g]
  BY <1>1, <1>2, KeyType DEF FreshInv, NewGroupUnread, TypeOK
<1>4. NewGroupUnread' /\ BatchWasRead'
  BY <1>1, <1>2, <1>3, KeyType DEF FreshInv, NewGroupUnread, BatchWasRead
<1>5. FreshOnce'
  BY <1>1, <1>2 DEF FreshInv, FreshOnce
<1>. QED  BY <1>4, <1>5 DEF FreshInv

(* What is claimed was read before, and is marked as reclaimed. *)
LEMMA AutoClaimFresh ==
    ASSUME IndInv, NEW s \in Subs, AutoClaim(s)
    PROVE  FreshInv'
<1>1. TypeOK /\ FreshInv /\ PendingWasRead
  BY IndInvSplit DEF ServerInv
<1>2. /\ batch' = [batch EXCEPT ![s] = Claimable(GroupOf[s], startId[s])]
      /\ source' = [source EXCEPT ![s] = "reclaimed"]
      /\ UNCHANGED <<exists, lastRead, losses>>
  BY DEF AutoClaim, aux
<1>3. \A m \in Claimable(GroupOf[s], startId[s]) : m <= lastRead[GroupOf[s]]
  BY <1>1, ClaimableSubset, KeyType DEF PendingWasRead
<1>4. \A t \in Subs : t # s => batch'[t] = batch[t] /\ source'[t] = source[t]
  BY <1>1, <1>2 DEF TypeOK
<1>5. batch'[s] = Claimable(GroupOf[s], startId[s]) /\ source'[s] = "reclaimed"
  BY <1>1, <1>2 DEF TypeOK
<1>6. NewGroupUnread' /\ BatchWasRead'
  BY <1>1, <1>2, <1>3, <1>4, <1>5 DEF FreshInv, NewGroupUnread, BatchWasRead
<1>7. FreshOnce'
  BY <1>1, <1>2, <1>4, <1>5 DEF FreshInv, FreshOnce
<1>. QED  BY <1>6, <1>7 DEF FreshInv

(* A read hands out entries behind the last-delivered id, which nobody of    *)
(* the group holds, and moves the id behind them.                           *)
LEMMA ReadNewFresh ==
    ASSUME IndInv, NEW s \in Subs, ReadNew(s)
    PROVE  FreshInv'
<1>. DEFINE g == GroupOf[s]
            news == NewEntries(g)
<1>1. TypeOK /\ FreshInv /\ IdleHoldsNothing /\ g \in Groups
  BY IndInvSplit, KeyType DEF ClientInv
<1>2. /\ g \in exists /\ UNCHANGED <<exists, losses>>
      /\ source' = [source EXCEPT ![s] = "new"]
      /\ batch[s] = {}
  BY <1>1 DEF ReadNew, aux, IdleHoldsNothing
<1>3. CASE news = {}
  <2>1. UNCHANGED <<lastRead, batch>>
    BY <1>3 DEF ReadNew
  <2>2. \A t \in Subs : batch[t] = {} \/ source'[t] = source[t]
    BY <1>1, <1>2 DEF TypeOK
  <2>. QED  BY <1>1, <1>2, <2>1, <2>2, FreshShrink
<1>4. CASE news # {}
  <2>1. PICK last \in news :
           /\ IsLast(last, news)
           /\ lastRead' = [lastRead EXCEPT ![g] = last]
           /\ batch' = [batch EXCEPT ![s] = news]
    BY <1>4 DEF ReadNew
  <2>2. /\ \A h \in Groups : h # g => lastRead'[h] = lastRead[h]
        /\ lastRead'[g] = last /\ batch'[s] = news
        /\ \A t \in Subs : t # s => batch'[t] = batch[t] /\ source'[t] = source[t]
    BY <1>1, <1>2, <2>1 DEF TypeOK
  <2>3. \A m \in news : lastRead[g] < m /\ m <= last
    BY <2>1, NewEntriesSubset DEF IsLast
  <2>4. /\ lastRead[g] \in Nat /\ last \in Nat /\ news \subseteq Nat
        /\ \A t \in Subs : batch[t] \subseteq Nat
    <3>1. news \subseteq Ids
      BY <1>1, NewEntriesSubset DEF TypeOK
    <3>. QED  BY <1>1, <2>1, <3>1, IdsAreNat, LastReadIsNat DEF TypeOK
  <2>. HIDE DEF news, g
  <2>5. ASSUME losses = 0, NEW t \in Subs, t # s, GroupOf[t] = g
        PROVE  batch[t] \cap news = {} /\ \A m \in batch[t] : m <= last
    <3>1. \A m \in batch[t] : m <= lastRead[g]
      BY <1>1, <2>5 DEF FreshInv, BatchWasRead
    <3>. QED  BY <2>1, <2>3, <2>4, <3>1
  <2>6. NewGroupUnread'
    BY <1>1, <1>2, <2>2 DEF FreshInv, NewGroupUnread
  <2>7. BatchWasRead'
    <3>. SUFFICES ASSUME losses = 0, NEW t \in Subs, NEW m \in batch'[t]
                  PROVE  m <= lastRead'[GroupOf[t]]
      BY <1>2 DEF BatchWasRead
    <3>1. CASE t = s
      BY <2>2, <2>3, <3>1 DEF g
    <3>2. CASE t # s /\ GroupOf[t] = g
      BY <2>2, <2>5, <3>2
    <3>3. CASE t # s /\ GroupOf[t] # g
      BY <1>1, <2>2, <3>3, KeyType DEF FreshInv, BatchWasRead
    <3>. QED  BY <3>1, <3>2, <3>3
  <2>8. FreshOnce'
    <3>. SUFFICES ASSUME losses = 0, NEW t \in Subs, NEW u \in Subs, t # u,
                         GroupOf[t] = GroupOf[u], source'[t] = "new", source'[u] = "new"
                  PROVE  batch'[t] \cap batch'[u] = {}
      BY <1>2 DEF FreshOnce
    <3>1. CASE t = s
      BY <2>2, <2>5, <3>1 DEF g
    <3>2. CASE u = s
      BY <2>2, <2>5, <3>2 DEF g
    <3>3. CASE t # s /\ u # s
      BY <1>1, <2>2, <3>3 DEF FreshInv, FreshOnce
    <3>. QED  BY <3>1, <3>2, <3>3
  <2>. QED  BY <2>6, <2>7, <2>8 DEF FreshInv
<1>. QED  BY <1>3, <1>4

(* Every step keeps the part about first deliveries. *)
LEMMA FreshStep == IndInv /\ [Next]_vars => FreshInv'
<1>. SUFFICES ASSUME IndInv, [Next]_vars PROVE FreshInv'
  OBVIOUS
<1>0. TypeOK /\ FreshInv
  BY IndInvSplit
<1>1. ASSUME NEW s \in Subs, EnsureGroup(s) \/ AutoClaim(s) \/ ReadNew(s)
      PROVE  FreshInv'
  BY <1>1, EnsureFresh, AutoClaimFresh, ReadNewFresh
<1>2. ASSUME UNCHANGED <<exists, lastRead, losses, batch, source>> PROVE FreshInv'
  BY <1>0, <1>2, FreshShrink
<1>3. ASSUME NEW s \in Subs, Lookup(s) \/ ReadNoGroup(s) \/ GeneratorDies(s)
      PROVE  FreshInv'
  <2>1. UNCHANGED <<exists, lastRead, losses>>
    BY <1>3 DEF Lookup, ReadNoGroup, GeneratorDies, server, aux
  <2>2. Stop({s}) \/ UNCHANGED <<batch, source>>
    BY <1>3 DEF Lookup, ReadNoGroup, GeneratorDies
  <2>. QED  BY <1>0, <1>2, <2>1, <2>2, FreshStop
<1>4. ASSUME NEW s \in Subs, Ack(s) \/ PoisonFails(s) \/ HandlerFails(s)
      PROVE  FreshInv'
  <2>1. UNCHANGED <<exists, lastRead, losses>>
    BY <1>4 DEF Ack, PoisonFails, HandlerFails, GiveUp, server, aux
  <2>2. PICK m \in batch[s] : Resume(s, m)
    BY <1>4 DEF Ack, PoisonFails, HandlerFails, GiveUp
  <2>3. \A t \in Subs : batch'[t] \subseteq batch[t] /\ source'[t] = source[t]
    BY <1>0, <2>2 DEF Resume, TypeOK
  <2>. QED  BY <1>0, <2>1, <2>3, FreshShrink
<1>5. ASSUME NEW p \in Procs, Crash(p) PROVE FreshInv'
  BY <1>0, <1>5, FreshStop DEF Crash, server
<1>6. ASSUME NEW gs, LoseGroups(gs) PROVE FreshInv'
  <2>1. losses' # 0
    BY <1>0, <1>6, BusAssumption DEF LoseGroups, TypeOK
  <2>. QED  BY <2>1 DEF FreshInv, NewGroupUnread, BatchWasRead, FreshOnce
<1>. QED
  BY <1>1, <1>2, <1>3, <1>4, <1>5, <1>6
     DEF Next, Step, Fault, Publish, Subscribe, LoopTop, AutoClaimNoGroup, ClaimReply,
         Process, ReclaimDue, WarmUp, BecomeStale, LoseGroup, LoseStream,
         vars, server, clients, locals, aux

-----------------------------------------------------------------------------

(* The invariant holds initially. *)
LEMMA IndInvInit == Init => IndInv
<1>. SUFFICES ASSUME Init PROVE IndInv
  OBVIOUS
<1>1. TypeOK
  BY TypeInit
<1>2. ServerInv /\ ClientInv
  BY DEF Init, ServerInv, ClientInv, IdsBounded, BatchBounded, PendingWasRead,
     PendingInStream, NoGroupNoDebt, AckAfterProcess, IdleHoldsNothing, NothingLost
<1>3. FreshInv
  BY DEF Init, FreshInv, NewGroupUnread, BatchWasRead, FreshOnce
<1>. QED  BY <1>1, <1>2, <1>3, IndInvSplit

(* The invariant holds in every reachable state. *)
THEOREM Invariance == Spec => []IndInv
<1>1. IndInv /\ [Next]_vars => IndInv'
  <2>. SUFFICES ASSUME IndInv, [Next]_vars PROVE IndInv'
    OBVIOUS
  <2>1. TypeOK' /\ ServerInv' /\ ClientInv' /\ FreshInv'
    BY IndInvSplit, TypeStep, ServerStep, ClientStep, FreshStep
  <2>. QED  BY <2>1 DEF IndInv, ServerInv, ClientInv, FreshInv
<1>. QED  BY IndInvInit, <1>1, PTL DEF Spec

(* At-least-once, for every number of groups, processes, subscribers and     *)
(* faults: what a group is owed and nobody has processed is in its backlog.  *)
THEOREM NothingIsLost == Spec => []NothingLost
<1>1. IndInv => NothingLost
  BY DEF IndInv
<1>. QED  BY Invariance, <1>1, PTL

(* Until a group is destroyed, no two subscribers of one group hold the same *)
(* message as a new one.                                                     *)
THEOREM FreshIsExclusive == Spec => []FreshOnce
<1>1. IndInv => FreshOnce
  BY DEF IndInv
<1>. QED  BY Invariance, <1>1, PTL

(* Trimming at publish never takes an entry that some group holds pending.   *)
THEOREM PendingIsKept == Spec => []PendingInStream
<1>1. IndInv => PendingInStream
  BY DEF IndInv
<1>. QED  BY Invariance, <1>1, PTL

-----------------------------------------------------------------------------
(***************************************************************************)
(* RedisStreamsBus implements the safety part of AtLeastOnceBus: every     *)
(* step of the Redis bus is a step of the contract on the backlog and the  *)
(* leases, or changes neither.                                             *)
(***************************************************************************)

(* The backlog of a group when nothing it is built from changes. *)
LEMMA BacklogSame ==
    ASSUME UNCHANGED <<stream, exists, lastRead, pending>>
    PROVE  \A g \in Groups : Backlog(g)' = Backlog(g)
  BY DEF Backlog

(* A step that changes neither the backlogs nor the leases is a stutter. *)
LEMMA Stutter ==
    ASSUME UNCHANGED <<stream, exists, processed, batch>>,
           \A g \in Groups : Backlog(g)' = Backlog(g)
    PROVE  UNCHANGED Contract!vars
  BY DEF Contract!vars

(* A publish maps to a publish that evicts what the trimming removed. *)
LEMMA PublishMaps == IndInv /\ Publish => Contract!Next
<1>. SUFFICES ASSUME IndInv, Publish PROVE Contract!Next
  OBVIOUS
<1>. USE IndInvSplit
<1>1. PICK T \in TrimChoices : stream' = (stream \ T) \cup {lastId + 1}
  BY DEF Publish
<1>2. T \in SUBSET stream /\ T \subseteq Trimmable
  BY DEF TrimChoices, Trimmable
<1>3. \A g \in Groups : T \cap Backlog(g) = {}
  <2>. SUFFICES ASSUME NEW g \in Groups, NEW m \in T PROVE m \notin Backlog(g)
    OBVIOUS
  <2>1. CASE g \notin exists
    BY <2>1 DEF Backlog
  <2>2. CASE g \in exists
    <3>1. m \in stream /\ m <= lastRead[g] /\ m \notin pending[g]
      BY <1>2, <2>2 DEF Trimmable
    <3>2. m \in Nat /\ lastRead[g] \in Nat
      BY <3>1, IdsAreNat, LastReadIsNat DEF TypeOK
    <3>. QED  BY <3>1, <3>2 DEF Backlog
  <2>. QED  BY <2>1, <2>2
<1>4. lastId \in Nat /\ lastId + 1 \in Ids /\ lastId + 1 \notin 1..lastId
  BY IdsAreNat DEF Publish, TypeOK, Ids
<1>5. lastId + 1 \notin stream
  BY <1>4 DEF ServerInv, IdsBounded
<1>6. \A g \in Groups : lastId + 1 \notin Backlog(g) \cup processed[g]
  BY <1>4, <1>5 DEF ServerInv, IdsBounded, Backlog
<1>7. \A g \in Groups :
         Backlog(g)' = IF g \in exists THEN Backlog(g) \cup {lastId + 1} ELSE Backlog(g)
  <2>. SUFFICES ASSUME NEW g \in Groups
                PROVE  Backlog(g)' = IF g \in exists THEN Backlog(g) \cup {lastId + 1}
                                     ELSE Backlog(g)
    OBVIOUS
  <2>1. UNCHANGED <<exists, lastRead, pending>>
    BY DEF Publish
  <2>2. CASE g \notin exists
    BY <2>1, <2>2 DEF Backlog
  <2>3. CASE g \in exists
    <3>1. lastId + 1 > lastRead[g]
      BY <1>4 DEF ServerInv, IdsBounded, TypeOK
    <3>. QED  BY <1>1, <1>3, <2>1, <2>3, <3>1 DEF Backlog
  <2>. QED  BY <2>2, <2>3
<1>8. Contract!Publish(lastId + 1, T)
  BY <1>1, <1>3, <1>5, <1>6, <1>7 DEF Contract!Publish, Publish, locals
<1>. QED  BY <1>2, <1>4, <1>8 DEF Contract!Next

(* Losing groups maps to losing them. *)
LEMMA LoseMaps ==
    ASSUME IndInv,
           \/ \E g \in Groups : LoseGroup(g)
           \/ LoseStream
    PROVE  Contract!Next
<1>. USE IndInvSplit DEF TypeOK
<1>1. ASSUME NEW g \in Groups, LoseGroup(g) PROVE Contract!Next
  <2>1. /\ exists' = exists \ {g} /\ g \in exists
        /\ UNCHANGED <<stream, processed, batch>>
        /\ \A h \in Groups : h # g => UNCHANGED <<lastRead[h], pending[h]>>
    BY <1>1 DEF LoseGroup, LoseGroups, locals
  <2>2. \A h \in Groups : Backlog(h)' = IF h \in {g} THEN {} ELSE Backlog(h)
    BY <2>1 DEF Backlog
  <2>3. Contract!Lose({g}, FALSE)
    BY <2>1, <2>2 DEF Contract!Lose
  <2>. QED  BY <2>1, <2>3 DEF Contract!Next
<1>2. ASSUME LoseStream PROVE Contract!Next
  <2>1. /\ exists' = {} /\ stream' = {} /\ (stream # {} \/ exists # {})
        /\ UNCHANGED <<processed, batch>>
    BY <1>2 DEF LoseStream, LoseGroups, locals
  <2>2. \A h \in Groups : Backlog(h)' = IF h \in exists THEN {} ELSE Backlog(h)
    BY <2>1 DEF Backlog
  <2>3. Contract!Lose(exists, TRUE)
    BY <2>1, <2>2 DEF Contract!Lose
  <2>. QED  BY <2>3 DEF Contract!Next
<1>. QED  BY <1>1, <1>2

(* Creating a group opens it; finding one that exists is a stutter. *)
LEMMA EnsureMaps ==
    ASSUME IndInv, NEW s \in Subs, EnsureGroup(s)
    PROVE  [Contract!Next]_(Contract!vars)
<1>. USE IndInvSplit, KeyType
<1>. DEFINE g == GroupOf[s]
<1>1. /\ UNCHANGED <<stream, pending, processed, batch>>
      /\ exists' = exists \cup {g}
      /\ lastRead' = [lastRead EXCEPT ![g] = IF g \in exists THEN @ ELSE 0]
  BY DEF EnsureGroup, GroupStart
<1>2. CASE g \in exists
  <2>1. exists' = exists /\ lastRead' = lastRead
    BY <1>1, <1>2 DEF TypeOK
  <2>. QED  BY <1>1, <2>1, BacklogSame, Stutter
<1>3. CASE g \notin exists
  <2>1. \A m \in stream : m > 0
    BY DEF TypeOK, Ids
  <2>2. lastRead'[g] = 0 /\ g \in exists'
    BY <1>1, <1>3 DEF TypeOK
  <2>3. Backlog(g)' = stream
    BY <1>1, <2>1, <2>2 DEF Backlog
  <2>4. \A h \in Groups : h # g => Backlog(h)' = Backlog(h)
    BY <1>1 DEF Backlog, TypeOK
  <2>5. Contract!OpenGroup(g)
    BY <1>1, <1>3, <2>3, <2>4 DEF Contract!OpenGroup
  <2>. QED  BY <2>5 DEF Contract!Next
<1>. QED  BY <1>2, <1>3

(* Handing a batch of the backlog to a subscriber that holds nothing. *)
LEMMA LeaseMaps ==
    ASSUME TypeOK, NEW s \in Subs, NEW ms \in SUBSET Backlog(GroupOf[s]),
           batch[s] = {}, batch' = [batch EXCEPT ![s] = ms],
           UNCHANGED <<stream, exists, processed>>,
           \A g \in Groups : Backlog(g)' = Backlog(g)
    PROVE  [Contract!Next]_(Contract!vars)
<1>. USE KeyType
<1>1. CASE ms = {}
  <2>1. batch' = batch
    BY <1>1 DEF TypeOK
  <2>. QED  BY <2>1, Stutter
<1>2. CASE ms # {}
  <2>1. Contract!Lease(s, ms)
    BY <1>2 DEF Contract!Lease
  <2>. QED  BY <2>1 DEF Contract!Next
<1>. QED  BY <1>1, <1>2

(* What a claim returns is leased to the subscriber. *)
LEMMA AutoClaimMaps ==
    ASSUME IndInv, NEW s \in Subs, AutoClaim(s)
    PROVE  [Contract!Next]_(Contract!vars)
<1>. USE IndInvSplit, KeyType
<1>. DEFINE g == GroupOf[s]
            ms == Claimable(g, startId[s])
<1>1. /\ g \in exists /\ batch' = [batch EXCEPT ![s] = ms]
      /\ UNCHANGED <<stream, exists, lastRead, processed>>
      /\ pending' = [pending EXCEPT ![g] = @ \ (Scanned(g, startId[s]) \ stream)]
  BY DEF AutoClaim, aux
<1>2. batch[s] = {}
  BY DEF AutoClaim, ClientInv, IdleHoldsNothing
<1>3. ms \in SUBSET Backlog(g)
  BY <1>1, ClaimableSubset DEF Backlog
<1>4. pending' = pending
  BY <1>1 DEF ServerInv, PendingInStream, TypeOK
<1>. QED  BY <1>1, <1>2, <1>3, <1>4, BacklogSame, LeaseMaps

(* What a read returns is leased to the subscriber. *)
LEMMA ReadNewMaps ==
    ASSUME IndInv, NEW s \in Subs, ReadNew(s)
    PROVE  [Contract!Next]_(Contract!vars)
<1>. USE IndInvSplit, KeyType
<1>. DEFINE g == GroupOf[s]
            news == NewEntries(g)
<1>0. UNCHANGED <<stream, exists, processed>> /\ g \in exists
  BY DEF ReadNew, aux
<1>1. CASE news = {}
  BY <1>0, <1>1, BacklogSame, Stutter DEF ReadNew
<1>2. CASE news # {}
  <2>1. PICK last \in news :
           IsLast(last, news) /\ lastRead' = [lastRead EXCEPT ![g] = last]
    BY <1>2 DEF ReadNew
  <2>2. /\ pending' = [pending EXCEPT ![g] = @ \cup news]
        /\ batch' = [batch EXCEPT ![s] = news]
    BY <1>2 DEF ReadNew
  <2>3. /\ news \subseteq stream /\ last \in news
        /\ \A m \in news : m > lastRead[g] /\ m <= last
    BY <2>1, NewEntriesSubset DEF IsLast
  <2>4. batch[s] = {}
    BY DEF ReadNew, ClientInv, IdleHoldsNothing
  <2>5. news \in SUBSET Backlog(g)
    BY <1>0, <2>3 DEF Backlog
  <2>6. Backlog(g)' = Backlog(g)
    <3>1. lastRead[g] \in Nat /\ last \in Nat /\ stream \subseteq Nat
      BY <2>3, IdsAreNat, LastReadIsNat DEF TypeOK
    <3>2. \A m \in stream :
             (m > last \/ m \in pending[g] \cup news) <=> (m > lastRead[g] \/ m \in pending[g])
      <4>. SUFFICES ASSUME NEW m \in stream
                    PROVE  (m > last \/ m \in news) <=> m > lastRead[g]
        OBVIOUS
      <4>1. m > last \/ m \in news => m > lastRead[g]
        <5>1. m \in Nat
          BY <3>1
        <5>. QED  BY <2>3, <3>1, <5>1
      <4>2. m > lastRead[g] /\ m <= last => m \in news
        BY <2>3, LowestDownward, BusAssumption DEF NewEntries, TypeOK
      <4>3. m > last \/ m <= last
        <5>1. m \in Nat
          BY <3>1
        <5>. QED  BY <3>1, <5>1
      <4>. QED  BY <4>1, <4>2, <4>3
    <3>3. lastRead'[g] = last /\ pending'[g] = pending[g] \cup news
      BY <2>1, <2>2 DEF TypeOK
    <3>. QED  BY <1>0, <3>2, <3>3 DEF Backlog
  <2>7. \A h \in Groups : h # g => Backlog(h)' = Backlog(h)
    BY <1>0, <2>1, <2>2 DEF Backlog, TypeOK
  <2>8. \A h \in Groups : Backlog(h)' = Backlog(h)
    BY <2>6, <2>7
  <2>. QED  BY <1>0, <2>2, <2>4, <2>5, <2>8, LeaseMaps
<1>. QED  BY <1>1, <1>2

(* Processing maps to processing. *)
LEMMA ProcessMaps ==
    ASSUME IndInv, NEW s \in Subs, Process(s)
    PROVE  Contract!Next
<1>1. PICK m \in batch[s] : processed' = [processed EXCEPT ![GroupOf[s]] = @ \cup {m}]
  BY DEF Process
<1>2. UNCHANGED <<stream, exists, lastRead, pending, batch>>
  BY DEF Process, server
<1>3. \A g \in Groups : Backlog(g)' = Backlog(g)
  BY <1>2, BacklogSame
<1>4. Contract!Process(s, m)
  BY <1>1, <1>2, <1>3 DEF Contract!Process
<1>. QED  BY <1>1, <1>4 DEF Contract!Next

(* Giving a message up releases its lease. *)
LEMMA ReleaseMaps ==
    ASSUME NEW s \in Subs, NEW m \in batch[s],
           batch' = [batch EXCEPT ![s] = @ \ {m}],
           UNCHANGED <<stream, exists, processed>>,
           \A g \in Groups : Backlog(g)' = Backlog(g)
    PROVE  Contract!Next
<1>1. Contract!Release(s, m)
  BY DEF Contract!Release
<1>. QED  BY <1>1 DEF Contract!Next

(* An ack takes the message out of the backlog, unless the group was lost    *)
(* and created again meanwhile and has not read the message yet.             *)
LEMMA AckMaps ==
    ASSUME IndInv, NEW s \in Subs, Ack(s)
    PROVE  Contract!Next
<1>. USE IndInvSplit, KeyType
<1>. DEFINE g == GroupOf[s]
<1>1. PICK m \in batch[s] :
         /\ IsFirst(m, batch[s])
         /\ pending' = [pending EXCEPT ![g] = @ \ {m}]
         /\ batch' = [batch EXCEPT ![s] = @ \ {m}]
  BY DEF Ack, Resume
<1>2. UNCHANGED <<stream, exists, lastRead, processed>>
  BY DEF Ack, aux
<1>3. m \in processed[g]
  BY <1>1 DEF Ack, ClientInv, AckAfterProcess
<1>4. \A h \in Groups : h # g => Backlog(h)' = Backlog(h)
  BY <1>1, <1>2 DEF Backlog, TypeOK
<1>5. pending'[g] = pending[g] \ {m}
  BY <1>1 DEF TypeOK
<1>6. CASE m > lastRead[g]
  <2>1. Backlog(g)' = Backlog(g)
    BY <1>2, <1>5, <1>6 DEF Backlog
  <2>. QED  BY <1>1, <1>2, <1>4, <2>1, ReleaseMaps
<1>7. CASE ~(m > lastRead[g])
  <2>1. Backlog(g)' = Backlog(g) \ {m}
    BY <1>2, <1>5, <1>7 DEF Backlog
  <2>2. Contract!Ack(s, m)
    BY <1>1, <1>2, <1>3, <1>4, <2>1 DEF Contract!Ack
  <2>. QED  BY <1>1, <2>2 DEF Contract!Next
<1>. QED  BY <1>6, <1>7

(* Subscribers that stop drop their leases. *)
LEMMA StopMaps ==
    ASSUME NEW ss \in SUBSET Subs, Stop(ss),
           UNCHANGED <<stream, exists, lastRead, pending, processed>>
    PROVE  Contract!Next
<1>1. \A g \in Groups : Backlog(g)' = Backlog(g)
  BY BacklogSame
<1>2. Contract!Drop(ss)
  BY <1>1 DEF Contract!Drop, Stop
<1>. QED  BY <1>2 DEF Contract!Next

(* A step that touches no backlog, lease or group is a stutter. *)
LEMMA QuietMaps ==
    ASSUME UNCHANGED <<stream, exists, lastRead, pending, processed, batch>>
    PROVE  [Contract!Next]_(Contract!vars)
  BY BacklogSame, Stutter

(* Every step maps to a step of the contract or to a stutter. *)
LEMMA StepMaps == IndInv /\ [Next]_vars => [Contract!Next]_(Contract!vars)
<1>. SUFFICES ASSUME IndInv, [Next]_vars PROVE [Contract!Next]_(Contract!vars)
  OBVIOUS
<1>1. CASE Publish
  BY <1>1, PublishMaps
<1>2. ASSUME NEW s \in Subs,
             \/ EnsureGroup(s) \/ AutoClaim(s) \/ ReadNew(s) \/ Process(s) \/ Ack(s)
      PROVE  [Contract!Next]_(Contract!vars)
  BY <1>2, EnsureMaps, AutoClaimMaps, ReadNewMaps, ProcessMaps, AckMaps
<1>3. ASSUME NEW s \in Subs,
             \/ Subscribe(s) \/ LoopTop(s) \/ AutoClaimNoGroup(s)
             \/ ClaimReply(s) \/ ReclaimDue(s)
      PROVE  [Contract!Next]_(Contract!vars)
  BY <1>3, QuietMaps DEF Subscribe, LoopTop, AutoClaimNoGroup, ClaimReply,
     ReclaimDue, server, aux
<1>4. ASSUME NEW s \in Subs, Lookup(s) PROVE [Contract!Next]_(Contract!vars)
  BY <1>4, QuietMaps, StopMaps DEF Lookup, server, aux
<1>5. ASSUME NEW s \in Subs, ReadNoGroup(s) \/ GeneratorDies(s)
      PROVE  [Contract!Next]_(Contract!vars)
  BY <1>5, StopMaps DEF ReadNoGroup, GeneratorDies, server, aux
<1>6. ASSUME NEW s \in Subs, PoisonFails(s) \/ HandlerFails(s)
      PROVE  [Contract!Next]_(Contract!vars)
  <2>1. PICK m \in batch[s] : batch' = [batch EXCEPT ![s] = @ \ {m}]
    BY <1>6 DEF PoisonFails, HandlerFails, GiveUp, Resume
  <2>2. UNCHANGED <<stream, exists, lastRead, pending, processed>>
    BY <1>6 DEF PoisonFails, HandlerFails, GiveUp, server
  <2>. QED  BY <2>1, <2>2, BacklogSame, ReleaseMaps
<1>7. ASSUME NEW p \in Procs, Crash(p) PROVE [Contract!Next]_(Contract!vars)
  <2>1. Stop({s \in Subs : ProcOf[s] = p})
    BY <1>7 DEF Crash
  <2>2. UNCHANGED <<stream, exists, lastRead, pending, processed>>
    BY <1>7 DEF Crash, server
  <2>. QED  BY <2>1, <2>2, StopMaps
<1>8. ASSUME NEW p \in Procs, WarmUp(p) PROVE [Contract!Next]_(Contract!vars)
  BY <1>8, QuietMaps DEF WarmUp, server, locals, aux
<1>9. ASSUME NEW g \in Groups, NEW m \in Ids, BecomeStale(g, m)
      PROVE  [Contract!Next]_(Contract!vars)
  BY <1>9, QuietMaps DEF BecomeStale, locals, aux
<1>10. CASE LoseStream \/ \E g \in Groups : LoseGroup(g)
  BY <1>10, LoseMaps
<1>11. CASE UNCHANGED vars
  BY <1>11, QuietMaps DEF vars, server, locals, aux
<1>. QED
  BY <1>1, <1>2, <1>3, <1>4, <1>5, <1>6, <1>7, <1>8, <1>9, <1>10, <1>11
     DEF Next, Step, Fault

(* Initial states map to initial states. *)
LEMMA InitMaps == Init => Contract!Init
  BY DEF Init, Contract!Init, Backlog

(* The Redis bus keeps the safety contract of bus/base.py: only messages of   *)
(* the backlog are handed out, and one leaves the backlog only by the ack of a *)
(* holder that processed it, or with its group.                                *)
THEOREM KeepsTheContract == Spec => KeepsContract
  BY InitMaps, StepMaps, Invariance, PTL DEF Spec, KeepsContract, Contract!SafeSpec

-----------------------------------------------------------------------------
(***************************************************************************)
(* The other implementation of the bus: queues in memory, with constants   *)
(* and variables of their own.                                             *)
(***************************************************************************)

(* Moving the head of the queue to what was received moves nothing else. *)
LEMMA HandOver ==
    ASSUME NEW S, NEW a \in Seq(S), NEW q \in Seq(S), q # <<>>
    PROVE  /\ Append(a, Head(q)) \in Seq(S) /\ Tail(q) \in Seq(S) /\ Head(q) \in S
           /\ Append(a, Head(q)) \o Tail(q) = a \o q
<1>. DEFINE b == Append(a, Head(q))
            r == Tail(q)
            old == a \o q
            new == b \o r
<1>1. /\ Head(q) \in S /\ Head(q) = q[1]
      /\ r \in Seq(S) /\ Len(r) = Len(q) - 1
      /\ \A i \in 1..Len(r) : r[i] = q[i + 1]
  BY HeadTailProperties
<1>2. /\ b \in Seq(S) /\ Len(b) = Len(a) + 1
      /\ \A i \in 1..Len(a) : b[i] = a[i]
      /\ b[Len(a) + 1] = q[1]
  BY <1>1, AppendProperties
<1>3. Len(a) \in Nat /\ Len(q) \in Nat /\ Len(q) >= 1
  OBVIOUS
<1>4. /\ old \in Seq(S) /\ Len(old) = Len(a) + Len(q)
      /\ \A i \in 1..Len(a) + Len(q) : old[i] = IF i <= Len(a) THEN a[i] ELSE q[i - Len(a)]
  BY ConcatProperties
<1>5. b \in Seq(S) /\ r \in Seq(S)
  BY <1>1, <1>2
<1>. HIDE DEF b, r
<1>6. /\ new \in Seq(S) /\ Len(new) = Len(b) + Len(r)
      /\ \A i \in 1..Len(b) + Len(r) : new[i] = IF i <= Len(b) THEN b[i] ELSE r[i - Len(b)]
  BY <1>5, ConcatProperties
<1>. HIDE DEF old, new
<1>7. ASSUME NEW i \in 1..Len(a) + Len(q) PROVE new[i] = old[i]
  <2>1. i \in 1..Len(b) + Len(r)
    BY <1>1, <1>2, <1>3
  <2>2. CASE i <= Len(a)
    BY <1>2, <1>3, <1>4, <1>6, <2>1, <2>2
  <2>3. CASE i = Len(a) + 1
    BY <1>2, <1>3, <1>4, <1>6, <2>1, <2>3
  <2>4. CASE i > Len(a) + 1
    <3>1. i - Len(b) \in 1..Len(r) /\ i - Len(b) + 1 = i - Len(a)
      BY <1>1, <1>2, <1>3, <2>4
    <3>2. r[i - Len(b)] = q[i - Len(a)]
      BY <1>1, <3>1
    <3>. QED  BY <1>2, <1>3, <1>4, <1>6, <2>1, <2>4, <3>2
  <2>. QED  BY <1>3, <2>2, <2>3, <2>4
<1>8. new = old
  <2>1. Len(new) = Len(old) /\ \A i \in 1..Len(new) : new[i] = old[i]
    BY <1>1, <1>2, <1>3, <1>4, <1>6, <1>7
  <2>. QED  BY <1>4, <1>6, <2>1, SeqEqual
<1>. QED  BY <1>1, <1>2, <1>8 DEF b, r, old, new

(* What was published since a clock, in order. *)
Published(from, to) == [i \in 1..(to - from) |-> from + i]

(* A publication goes behind everything a subscriber has been given. *)
LEMMA FanOut ==
    ASSUME NEW from \in Nat, NEW to \in Nat, from <= to, to + 1 \in EnvelopeIds,
           NEW a \in Seq(EnvelopeIds), NEW q \in Seq(EnvelopeIds), a \o q = Published(from, to)
    PROVE  /\ Append(q, to + 1) \in Seq(EnvelopeIds)
           /\ a \o Append(q, to + 1) = Published(from, to + 1)
<1>. DEFINE p == Append(q, to + 1)
            old == a \o q
            new == a \o p
<1>1. /\ p \in Seq(EnvelopeIds) /\ Len(p) = Len(q) + 1 /\ p[Len(q) + 1] = to + 1
      /\ \A i \in 1..Len(q) : p[i] = q[i]
  BY AppendProperties
<1>2. Len(a) \in Nat /\ Len(q) \in Nat
  OBVIOUS
<1>3. /\ old \in Seq(EnvelopeIds) /\ Len(old) = Len(a) + Len(q)
      /\ \A i \in 1..Len(a) + Len(q) : old[i] = IF i <= Len(a) THEN a[i] ELSE q[i - Len(a)]
  BY ConcatProperties
<1>4. DOMAIN old = 1..(to - from) /\ \A i \in 1..(to - from) : old[i] = from + i
  BY DEF Published
<1>. HIDE DEF p
<1>5. /\ new \in Seq(EnvelopeIds) /\ Len(new) = Len(a) + Len(p)
      /\ \A i \in 1..Len(a) + Len(p) : new[i] = IF i <= Len(a) THEN a[i] ELSE p[i - Len(a)]
  BY <1>1, ConcatProperties
<1>. HIDE DEF old, new
<1>6. Len(a) + Len(q) = to - from
  <2>1. 1..Len(a) + Len(q) = 1..(to - from)
    BY <1>3, <1>4
  <2>. QED  BY <1>2, <2>1
<1>7. ASSUME NEW i \in 1..(to + 1 - from) PROVE new[i] = from + i
  <2>1. i \in 1..Len(a) + Len(p)
    BY <1>1, <1>2, <1>6
  <2>2. CASE i <= Len(a)
    <3>1. i \in 1..(to - from) /\ i \in 1..Len(a) + Len(q)
      BY <1>2, <1>6, <2>2
    <3>2. new[i] = a[i]
      BY <1>5, <2>1, <2>2
    <3>3. old[i] = a[i]
      BY <1>3, <2>2, <3>1
    <3>4. old[i] = from + i
      BY <1>4, <3>1
    <3>. QED  BY <3>2, <3>3, <3>4
  <2>3. CASE i > Len(a) /\ i # to + 1 - from
    <3>1. i - Len(a) \in 1..Len(q) /\ i \in 1..(to - from) /\ i \in 1..Len(a) + Len(q)
      BY <1>2, <1>6, <2>3
    <3>2. new[i] = p[i - Len(a)] /\ old[i] = q[i - Len(a)]
      BY <1>2, <1>3, <1>5, <2>1, <2>3, <3>1
    <3>3. p[i - Len(a)] = q[i - Len(a)]
      BY <1>1, <3>1
    <3>4. old[i] = from + i
      BY <1>4, <3>1
    <3>. QED  BY <3>2, <3>3, <3>4
  <2>4. CASE i = to + 1 - from
    <3>1. i - Len(a) = Len(q) + 1 /\ ~ (i <= Len(a)) /\ from + i = to + 1
      BY <1>2, <1>6, <2>4
    <3>2. new[i] = p[Len(q) + 1]
      BY <1>5, <2>1, <3>1
    <3>. QED  BY <1>1, <3>1, <3>2
  <2>. QED  BY <1>2, <2>2, <2>3, <2>4
<1>8. new = Published(from, to + 1)
  <2>. DEFINE n == to + 1 - from
              r == Published(from, to + 1)
  <2>1. n \in Nat /\ \A i \in 1..n : from + i \in EnvelopeIds
    BY InMemoryAssumption DEF EnvelopeIds
  <2>2. Len(new) = n
    <3>1. Len(new) = Len(a) + (Len(q) + 1)
      BY <1>1, <1>5
    <3>2. Len(a) + (Len(q) + 1) = (Len(a) + Len(q)) + 1
      BY <1>2
    <3>3. (to - from) + 1 = n
      OBVIOUS
    <3>. QED  BY <1>6, <3>1, <3>2, <3>3
  <2>3. \A i \in 1..n : new[i] = from + i
    BY <1>7
  <2>4. r = [i \in 1..n |-> from + i]
    BY DEF Published
  <2>. HIDE DEF n, r
  <2>5. r \in [1..n -> EnvelopeIds]
    BY <2>1, <2>4
  <2>6. r \in Seq(EnvelopeIds) /\ Len(r) = n
    BY <2>1, <2>5
  <2>7. \A i \in 1..n : r[i] = from + i
    BY <2>4
  <2>8. new = r
    BY <1>5, <2>2, <2>3, <2>6, <2>7, SeqEqual
  <2>. QED  BY <2>8 DEF r
<1>. QED  BY <1>1, <1>8 DEF p, new

(* The initial state of the bus satisfies the invariant. *)
LEMMA QueuesStart == MemoryInit => MemoryIndInv
<1>. SUFFICES ASSUME MemoryInit PROVE MemoryIndInv
  OBVIOUS
<1>1. MemoryTypeOK
  BY InMemoryAssumption DEF MemoryInit, MemoryTypeOK, EnvelopeIds
<1>2. Registered = {}
  BY DEF MemoryInit, Registered
<1>3. \A s \in Consumers : /\ since[s] <= counter /\ received[s] = <<>> /\ queue[s] = <<>>
                           /\ phase[s] # "handling" /\ current[s] = 0
  BY DEF MemoryInit
<1>. QED  BY <1>1, <1>2, <1>3 DEF MemoryIndInv, FanOutInOrder

(* A publication goes into every registered queue and into no other. *)
LEMMA PublishKeepsQueues ==
    ASSUME MemoryIndInv, MemoryPublish PROVE MemoryIndInv'
<1>. USE DEF MessageId, Receivers, Put
<1>1. /\ counter \in Nat /\ counter + 1 \in EnvelopeIds /\ counter' = counter + 1
      /\ phase' = phase /\ current' = current /\ received' = received /\ since' = since
      /\ Registered' = Registered
  BY InMemoryAssumption DEF MemoryPublish, MemoryIndInv, MemoryTypeOK, EnvelopeIds, Registered
<1>2. ASSUME NEW s \in Registered
      PROVE  /\ s \in Consumers /\ queue'[s] = Append(queue[s], counter + 1)
             /\ queue'[s] \in Seq(EnvelopeIds)
             /\ received'[s] \o queue'[s] = Published(since'[s], counter')
  <2>1. s \in Consumers /\ queue'[s] = Append(queue[s], counter + 1)
    BY <1>2 DEF MemoryPublish, Registered
  <2>2. /\ since[s] \in Nat /\ since[s] <= counter
        /\ received[s] \in Seq(EnvelopeIds) /\ queue[s] \in Seq(EnvelopeIds)
    BY <2>1, InMemoryAssumption DEF MemoryIndInv, MemoryTypeOK
  <2>3. received[s] \o queue[s] = Published(since[s], counter)
    BY <1>2, Zenon DEF MemoryIndInv, FanOutInOrder, Published
  <2>4. /\ Append(queue[s], counter + 1) \in Seq(EnvelopeIds)
        /\ received[s] \o Append(queue[s], counter + 1) = Published(since[s], counter + 1)
    BY <1>1, <2>2, <2>3, FanOut
  <2>. QED  BY <1>1, <2>1, <2>4
<1>3. ASSUME NEW s \in Consumers, s \notin Registered
      PROVE  queue'[s] = queue[s]
  BY <1>3 DEF MemoryPublish
<1>4. queue' \in [Consumers -> Seq(EnvelopeIds)]
  BY <1>2, <1>3 DEF MemoryPublish, MemoryIndInv, MemoryTypeOK
<1>5. MemoryTypeOK'
  BY <1>1, <1>4, InMemoryAssumption DEF MemoryPublish, MemoryIndInv, MemoryTypeOK, EnvelopeIds
<1>6. FanOutInOrder'
  BY <1>1, <1>2 DEF FanOutInOrder, Published
<1>7. \A s \in Consumers : since'[s] <= counter'
  BY <1>1, InMemoryAssumption DEF MemoryIndInv, MemoryTypeOK
<1>8. \A s \in Consumers \ Registered' : received'[s] = <<>> /\ queue'[s] = <<>>
  BY <1>1, <1>3 DEF MemoryIndInv
<1>9. \A s \in Consumers : phase'[s] = "handling" <=> current'[s] # 0
  BY <1>1 DEF MemoryIndInv
<1>. QED  BY <1>5, <1>6, <1>7, <1>8, <1>9 DEF MemoryIndInv

(* One consumer's own step leaves what every other consumer sees alone. *)
LEMMA OthersUndisturbed ==
    ASSUME MemoryIndInv, NEW s \in Consumers, MemoryTypeOK', counter' = counter,
           \A t \in Consumers \ {s} : /\ phase'[t] = phase[t] /\ since'[t] = since[t]
                                 /\ received'[t] = received[t] /\ queue'[t] = queue[t]
                                 /\ current'[t] = current[t],
           since'[s] <= counter, phase'[s] = "handling" <=> current'[s] # 0,
           s \in Registered' =>
               received'[s] \o queue'[s] = [i \in 1..(counter - since'[s]) |-> since'[s] + i],
           s \notin Registered' => received'[s] = <<>> /\ queue'[s] = <<>>
    PROVE  MemoryIndInv'
<1>1. \A t \in Consumers \ {s} : t \in Registered' <=> t \in Registered
  BY DEF Registered
<1>2. Registered' \subseteq Consumers
  BY DEF Registered
<1>3. ASSUME NEW t \in Registered'
      PROVE  received'[t] \o queue'[t] = [i \in 1..(counter' - since'[t]) |-> since'[t] + i]
  <2>1. CASE t = s
    BY <1>3, <2>1
  <2>2. CASE t # s
    <3>1. received[t] \o queue[t] = [i \in 1..(counter - since[t]) |-> since[t] + i]
      BY <1>1, <1>2, <1>3, <2>2 DEF MemoryIndInv, FanOutInOrder
    <3>. QED  BY <1>2, <1>3, <2>2, <3>1
  <2>. QED  BY <2>1, <2>2
<1>4. \A t \in Consumers : since'[t] <= counter'
  BY DEF MemoryIndInv
<1>5. \A t \in Consumers \ Registered' : received'[t] = <<>> /\ queue'[t] = <<>>
  BY <1>1 DEF MemoryIndInv
<1>6. \A t \in Consumers : phase'[t] = "handling" <=> current'[t] # 0
  BY DEF MemoryIndInv
<1>. QED  BY <1>3, <1>4, <1>5, <1>6 DEF MemoryIndInv, FanOutInOrder

(* The invariant is kept by every step of a consumer. *)
LEMMA ConsumerKeepsQueues ==
    ASSUME MemoryIndInv, NEW s \in Consumers,
           \/ MemorySubscribe(s) \/ Register(s) \/ Get(s)
           \/ Handled(s) \/ Close(s)
    PROVE  MemoryIndInv'
<1>. USE DEF MemoryIndInv
<1>1. CASE MemorySubscribe(s)
  <2>1. MemoryTypeOK'
    BY <1>1 DEF MemorySubscribe, MemoryTypeOK
  <2>2. s \notin Registered /\ s \notin Registered'
    BY <1>1 DEF MemorySubscribe, MemoryTypeOK, Registered
  <2>. QED  BY <1>1, <2>1, <2>2, OthersUndisturbed DEF MemorySubscribe, MemoryTypeOK
<1>2. CASE Register(s)
  <2>1. MemoryTypeOK'
    BY <1>2 DEF Register, MemoryTypeOK
  <2>2. s \notin Registered /\ s \in Registered' /\ since'[s] = counter
    BY <1>2 DEF Register, MemoryTypeOK, Registered
  <2>3. received'[s] = <<>> /\ queue'[s] = <<>>
    BY <1>2, <2>2 DEF Register
  <2>4. received'[s] \o queue'[s] = [i \in 1..(counter - since'[s]) |-> since'[s] + i]
    <3>1. counter - since'[s] = 0
      BY <2>2 DEF MemoryTypeOK
    <3>2. [i \in 1..0 |-> since'[s] + i] = <<>>
      OBVIOUS
    <3>3. <<>> \o <<>> = <<>>
      OBVIOUS
    <3>. QED  BY <2>3, <3>1, <3>2, <3>3
  <2>5. /\ counter' = counter /\ since'[s] <= counter /\ phase'[s] = "waiting" /\ current'[s] = 0
        /\ \A t \in Consumers \ {s} : /\ phase'[t] = phase[t] /\ since'[t] = since[t]
                                 /\ received'[t] = received[t] /\ queue'[t] = queue[t]
                                 /\ current'[t] = current[t]
    BY <1>2, InMemoryAssumption DEF Register, MemoryTypeOK
  <2>. QED  BY <2>1, <2>2, <2>4, <2>5, OthersUndisturbed
<1>3. CASE Get(s)
  <2>1. /\ received[s] \in Seq(EnvelopeIds) /\ queue[s] \in Seq(EnvelopeIds) /\ queue[s] # <<>>
    BY <1>3 DEF Get, MemoryTypeOK
  <2>2. /\ received'[s] = Append(received[s], Head(queue[s])) /\ queue'[s] = Tail(queue[s])
    BY <1>3 DEF Get, MemoryTypeOK
  <2>3. /\ received'[s] \in Seq(EnvelopeIds) /\ queue'[s] \in Seq(EnvelopeIds)
        /\ Head(queue[s]) \in EnvelopeIds /\ received'[s] \o queue'[s] = received[s] \o queue[s]
    <3>1. /\ Append(received[s], Head(queue[s])) \in Seq(EnvelopeIds)
          /\ Tail(queue[s]) \in Seq(EnvelopeIds) /\ Head(queue[s]) \in EnvelopeIds
          /\ Append(received[s], Head(queue[s])) \o Tail(queue[s]) = received[s] \o queue[s]
      <4>. DEFINE a == received[s]
                  q == queue[s]
      <4>1. /\ a \in Seq(EnvelopeIds) /\ q \in Seq(EnvelopeIds) /\ q # <<>>
        BY <2>1
      <4>. HIDE DEF a, q
      <4>2. /\ Append(a, Head(q)) \in Seq(EnvelopeIds)
            /\ Tail(q) \in Seq(EnvelopeIds) /\ Head(q) \in EnvelopeIds
            /\ Append(a, Head(q)) \o Tail(q) = a \o q
        BY <4>1, HandOver
      <4>. QED  BY <4>2 DEF a, q
    <3>. QED  BY <2>2, <3>1, Zenon
  <2>4. MemoryTypeOK'
    <3>1. /\ received' \in [Consumers -> Seq(EnvelopeIds)] /\ queue' \in [Consumers -> Seq(EnvelopeIds)]
      BY <1>3, <2>2, <2>3 DEF Get, MemoryTypeOK
    <3>2. current' \in [Consumers -> 0..MaxPublished] /\ phase' \in [Consumers -> {"off", "created", "waiting", "handling"}]
      BY <1>3, <2>3, InMemoryAssumption DEF Get, MemoryTypeOK, EnvelopeIds
    <3>. QED  BY <1>3, <3>1, <3>2 DEF Get, MemoryTypeOK
  <2>5. s \in Registered /\ s \in Registered'
    BY <1>3 DEF Get, MemoryTypeOK, Registered
  <2>6. received'[s] \o queue'[s] = [i \in 1..(counter - since'[s]) |-> since'[s] + i]
    BY <1>3, <2>3, <2>5 DEF Get, FanOutInOrder
  <2>7. \A t \in Consumers \ {s} : /\ phase'[t] = phase[t] /\ since'[t] = since[t]
                              /\ received'[t] = received[t] /\ queue'[t] = queue[t]
                              /\ current'[t] = current[t]
    BY <1>3 DEF Get, MemoryTypeOK
  <2>8. counter' = counter /\ since'[s] <= counter /\ current'[s] # 0 /\ phase'[s] = "handling"
    BY <1>3, <2>3, InMemoryAssumption DEF Get, MemoryTypeOK, EnvelopeIds
  <2>. QED  BY <2>4, <2>5, <2>6, <2>7, <2>8, OthersUndisturbed
<1>4. CASE Handled(s)
  <2>1. MemoryTypeOK'
    <3>1. /\ phase' \in [Consumers -> {"off", "created", "waiting", "handling"}]
          /\ current' \in [Consumers -> 0..MaxPublished]
      BY <1>4, InMemoryAssumption DEF Handled, MemoryTypeOK
    <3>2. current[s] \in EnvelopeIds
      BY <1>4, InMemoryAssumption DEF Handled, MemoryTypeOK, EnvelopeIds
    <3>3. finished' \in [Consumers -> SUBSET EnvelopeIds]
      <4>1. CASE finished' = finished
        BY <4>1 DEF MemoryTypeOK
      <4>2. CASE finished' = [finished EXCEPT ![s] = @ \cup {current[s]}]
        BY <3>2, <4>2 DEF MemoryTypeOK
      <4>. QED  BY <1>4, <4>1, <4>2 DEF Handled
    <3>4. stops' \in [Consumers -> 0..MaxStops]
      <4>1. CASE stops' = stops
        BY <4>1 DEF MemoryTypeOK
      <4>2. CASE stops[s] < MaxStops /\ stops' = [stops EXCEPT ![s] = @ + 1]
        <5>1. stops[s] + 1 \in 0..MaxStops
          BY <4>2, InMemoryAssumption DEF MemoryTypeOK
        <5>. QED  BY <4>2, <5>1 DEF MemoryTypeOK
      <4>. QED  BY <1>4, <4>1, <4>2 DEF Handled
    <3>. QED  BY <1>4, <3>1, <3>3, <3>4 DEF Handled, MemoryTypeOK
  <2>2. s \in Registered /\ s \in Registered'
    BY <1>4 DEF Handled, MemoryTypeOK, Registered
  <2>3. /\ counter' = counter /\ since' = since /\ received' = received /\ queue' = queue
        /\ \A t \in Consumers \ {s} : phase'[t] = phase[t] /\ current'[t] = current[t]
        /\ phase'[s] = "waiting" /\ current'[s] = 0
    BY <1>4 DEF Handled, MemoryTypeOK
  <2>4. received'[s] \o queue'[s] = [i \in 1..(counter - since'[s]) |-> since'[s] + i]
    BY <2>2, <2>3, Zenon DEF FanOutInOrder
  <2>. QED  BY <2>1, <2>2, <2>3, <2>4, OthersUndisturbed
<1>5. CASE Close(s)
  <2>1. /\ \A t \in Consumers \ {s} : /\ phase'[t] = phase[t] /\ since'[t] = since[t]
                                 /\ received'[t] = received[t] /\ queue'[t] = queue[t]
                                 /\ current'[t] = current[t]
        /\ phase'[s] = "off" /\ current'[s] = 0 /\ since'[s] = 0 /\ received'[s] = <<>> /\ queue'[s] = <<>>
        /\ counter' = counter
    BY <1>5 DEF Close, MemoryTypeOK
  <2>2. MemoryTypeOK'
    BY <1>5, InMemoryAssumption DEF Close, MemoryTypeOK
  <2>3. s \notin Registered' /\ since'[s] <= counter
    BY <2>1, InMemoryAssumption DEF Registered, MemoryTypeOK
  <2>. QED  BY <2>1, <2>2, <2>3, OthersUndisturbed
<1>. QED  BY <1>1, <1>2, <1>3, <1>4, <1>5

(* Every step, and every stutter, keeps the invariant. *)
LEMMA StepKeepsQueues == MemoryIndInv /\ [MemoryNext]_memoryVars => MemoryIndInv'
<1>. SUFFICES ASSUME MemoryIndInv, [MemoryNext]_memoryVars PROVE MemoryIndInv'
  OBVIOUS
<1>1. CASE MemoryPublish
  BY <1>1, PublishKeepsQueues
<1>2. ASSUME NEW s \in Consumers,
             \/ MemorySubscribe(s) \/ Register(s) \/ Get(s)
             \/ Handled(s) \/ Close(s)
      PROVE  MemoryIndInv'
  BY <1>2, ConsumerKeepsQueues
<1>3. CASE UNCHANGED memoryVars
  BY <1>3 DEF memoryVars, MemoryIndInv, MemoryTypeOK, FanOutInOrder,
              Registered, EnvelopeIds
<1>. QED  BY <1>1, <1>2, <1>3 DEF MemoryNext

(* Through every publication, registration, hand-over, failed handler and  *)
(* closed generator, the in-memory bus keeps its state well-formed and its *)
(* queues within what was published since each was registered              *)
(* (inmemory.py:13-37).                                                    *)
THEOREM MemoryInvariance == MemorySpec => []MemoryIndInv
<1>. QED  BY QueuesStart, StepKeepsQueues, PTL DEF MemorySpec

(* What a registered subscriber has been handed, followed by what waits in *)
(* its queue, is at every moment exactly what was published since it       *)
(* registered, in order: it shares with no other subscriber a message it   *)
(* could lose to it (inmemory.py:17-31).                                   *)
THEOREM MemoryFansOutInOrder == MemorySpec => []FanOutInOrder
<1>1. MemoryIndInv => FanOutInOrder
  BY DEF MemoryIndInv
<1>. QED  BY <1>1, MemoryInvariance, PTL

(* Appending an element adds it to the elements of a sequence, *)
LEMMA AppendedSet ==
    ASSUME NEW S, NEW q \in Seq(S), NEW m
    PROVE  ToSet(q) \cup {m} \subseteq ToSet(Append(q, m))
<1>. DEFINE p == Append(q, m)
<1>1. /\ DOMAIN p = 1..Len(q) + 1 /\ DOMAIN q = 1..Len(q) /\ Len(q) \in Nat
      /\ p[Len(q) + 1] = m /\ \A i \in 1..Len(q) : p[i] = q[i]
  OBVIOUS
<1>. HIDE DEF p
<1>2. Len(q) + 1 \in DOMAIN p /\ \A i \in DOMAIN q : i \in DOMAIN p
  BY <1>1
<1>3. ToSet(q) \cup {m} \subseteq ToSet(p)
  BY <1>1, <1>2 DEF ToSet
<1>. QED  BY <1>3 DEF p

(* and what is not at its head is in its tail. *)
LEMMA HeadOrTail ==
    ASSUME NEW S, NEW q \in Seq(S), q # <<>>
    PROVE  ToSet(q) \subseteq ToSet(Tail(q)) \cup {Head(q)}
<1>. DEFINE r == Tail(q)
<1>1. /\ Head(q) = q[1] /\ Len(q) \in Nat /\ DOMAIN q = 1..Len(q)
      /\ DOMAIN r = 1..Len(q) - 1 /\ \A i \in 1..Len(q) - 1 : r[i] = q[i + 1]
  BY HeadTailProperties
<1>. HIDE DEF r
<1>2. ASSUME NEW i \in DOMAIN q, i # 1
      PROVE  q[i] \in ToSet(r)
  <2>1. i - 1 \in DOMAIN r /\ r[i - 1] = q[i]
    BY <1>1, <1>2
  <2>. QED  BY <2>1 DEF ToSet
<1>3. ToSet(q) \subseteq ToSet(r) \cup {Head(q)}
  BY <1>1, <1>2 DEF ToSet
<1>. QED  BY <1>3 DEF r

(* A consumer that never stopped keeps what it is owed at every step. *)
LEMMA LossStep ==
    ASSUME MemoryIndInv, LossIsOwn, [MemoryNext]_memoryVars, NEW s \in Consumers, stops'[s] = 0
    PROVE  queued'[s] \ finished'[s] \subseteq ToSet(queue'[s]) \cup {current'[s]}
<1>. DEFINE Kept == queued[s] \ finished[s] \subseteq ToSet(queue[s]) \cup {current[s]}
<1>1. /\ queue[s] \in Seq(EnvelopeIds) /\ stops[s] \in Nat /\ 0 \notin queued[s]
      /\ (phase[s] = "handling" <=> current[s] # 0)
  BY InMemoryAssumption DEF MemoryIndInv, MemoryTypeOK, EnvelopeIds
<1>2. stops[s] = 0 => Kept
  BY DEF LossIsOwn
<1>3. CASE MemoryPublish
  <2>1. Kept /\ current'[s] = current[s] /\ finished'[s] = finished[s]
    BY <1>2, <1>3 DEF MemoryPublish
  <2>2. CASE s \in Receivers
    <3>1. /\ queue'[s] = Append(queue[s], MessageId)
          /\ queued'[s] = queued[s] \cup {MessageId}
      BY <1>3, <2>2 DEF MemoryPublish, Put
    <3>2. ToSet(queue[s]) \cup {MessageId} \subseteq ToSet(queue'[s])
      BY <1>1, <3>1, AppendedSet
    <3>. QED  BY <2>1, <3>1, <3>2
  <2>3. CASE s \notin Receivers
    <3>1. queue'[s] = queue[s] /\ queued'[s] = queued[s]
      BY <1>3, <2>3 DEF MemoryPublish
    <3>. QED  BY <2>1, <3>1
  <2>. QED  BY <2>2, <2>3
<1>4. CASE Get(s)
  <2>1. /\ Kept /\ finished'[s] = finished[s] /\ queued'[s] = queued[s] /\ queue[s] # <<>>
        /\ current[s] = 0 /\ current'[s] = Head(queue[s]) /\ queue'[s] = Tail(queue[s])
    BY <1>1, <1>2, <1>4 DEF Get, MemoryIndInv, MemoryTypeOK
  <2>2. ToSet(queue[s]) \subseteq ToSet(queue'[s]) \cup {current'[s]}
    BY <1>1, <2>1, HeadOrTail
  <2>. QED  BY <1>1, <2>1, <2>2
<1>5. CASE Handled(s)
  <2>1. /\ stops[s] = 0 /\ queue'[s] = queue[s] /\ queued'[s] = queued[s]
        /\ finished'[s] = finished[s] \cup {current[s]}
    BY <1>1, <1>5 DEF Handled, MemoryIndInv, MemoryTypeOK
  <2>. QED  BY <1>2, <2>1
<1>6. CASE Close(s)
  BY <1>1, <1>6 DEF Close, MemoryIndInv, MemoryTypeOK
<1>7. CASE MemorySubscribe(s) \/ Register(s)
  BY <1>2, <1>7 DEF MemorySubscribe, Register
<1>8. ASSUME NEW t \in Consumers \ {s},
             \/ MemorySubscribe(t) \/ Register(t) \/ Get(t) \/ Handled(t) \/ Close(t)
      PROVE  queued'[s] \ finished'[s] \subseteq ToSet(queue'[s]) \cup {current'[s]}
  <2>1. /\ stops'[s] = stops[s] /\ queue'[s] = queue[s] /\ queued'[s] = queued[s]
        /\ finished'[s] = finished[s] /\ current'[s] = current[s]
    BY <1>8 DEF MemorySubscribe, Register, Get, Handled, Close, MemoryIndInv, MemoryTypeOK
  <2>. QED  BY <1>2, <2>1
<1>9. CASE UNCHANGED memoryVars
  BY <1>2, <1>9 DEF memoryVars
<1>. QED  BY <1>3, <1>4, <1>5, <1>6, <1>7, <1>8, <1>9 DEF MemoryNext

(* As long as a consumer's own handler has not failed and its generator was *)
(* not closed, nothing queued for it is lost: whatever the other consumers  *)
(* do, it is processed, in its queue or in its hands (inmemory.py:22-39).   *)
THEOREM OnlyOwnLosses == MemorySpec => []LossIsOwn
<1>1. MemoryInit => LossIsOwn
  BY DEF MemoryInit, LossIsOwn
<1>2. MemoryIndInv /\ LossIsOwn /\ [MemoryNext]_memoryVars => LossIsOwn'
  BY LossStep DEF LossIsOwn
<1>. QED  BY <1>1, <1>2, MemoryInvariance, PTL DEF MemorySpec

=============================================================================
