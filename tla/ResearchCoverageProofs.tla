------------------------ MODULE ResearchCoverageProofs ------------------------
(***************************************************************************)
(* The verdict of the coverage gate is a fact about the set of             *)
(* observations it was given, for every roster, every set of arms and      *)
(* every order of reading.                                                 *)
(***************************************************************************)
EXTENDS ResearchCoverage, FiniteSetTheorems, TLAPS

-----------------------------------------------------------------------------
(* What the gate counts. *)

(* A roster of n windows with distinct sample ids expects one observation   *)
(* per arm and window: what the gate counts is what the roster asks for.    *)
LEMMA ExpectedCount ==
    ASSUME CoverageAssumption, roster \in Rosters, Registered(roster)
    PROVE  Cardinality(Expected) = Cardinality(Arms) * Len(roster)
<1>1. roster \in Seq(Window)
  BY DEF CoverageAssumption
<1>2. /\ Len(roster) \in Nat
      /\ DOMAIN roster = 1..Len(roster)
  BY <1>1
<1>. DEFINE sampleAt == [i \in 1..Len(roster) |-> roster[i].sample]
<1>3. sampleAt \in Surjection(1..Len(roster), Windows)
  BY <1>2 DEF Surjection, Windows
<1>4. \A i, j \in 1..Len(roster) : sampleAt[i] = sampleAt[j] => i = j
  <2>. SUFFICES ASSUME NEW i \in 1..Len(roster), NEW j \in 1..Len(roster),
                       roster[i].sample = roster[j].sample, i # j
                PROVE  FALSE
    OBVIOUS
  <2>1. i < j \/ j < i
    BY <1>2
  <2>. QED
    BY <2>1, <1>2 DEF Registered
<1>5. sampleAt \in Bijection(1..Len(roster), Windows)
  <2>. HIDE DEF sampleAt
  <2>. QED
    BY <1>3, <1>4 DEF Bijection, Injection, Surjection, IsInjective
<1>6. IsFiniteSet(1..Len(roster)) /\ Cardinality(1..Len(roster)) = Len(roster)
  BY <1>2, FS_Interval
<1>7. IsFiniteSet(Windows) /\ Cardinality(Windows) = Len(roster)
  BY <1>5, <1>6, FS_Bijection DEF ExistsBijection
<1>. QED
  BY <1>7, FS_Product DEF CoverageAssumption, Expected

-----------------------------------------------------------------------------
(* Type correctness. *)

(* The initial state is well-typed. *)
LEMMA TypeInit == Init => TypeOK
  BY DEF Init, TypeOK, Empty

(* Every step keeps the types. *)
LEMMA TypeNext == TypeOK /\ [Next]_vars => TypeOK'
<1>. SUFFICES ASSUME TypeOK, [Next]_vars
              PROVE  TypeOK'
  OBVIOUS
<1>. USE DEF TypeOK, Windows, Expected
<1>1. CASE Begin
  BY <1>1 DEF Begin, gate, history
<1>2. ASSUME NEW o \in Offered, Refuse(o)
      PROVE  TypeOK'
  BY <1>2 DEF Refuse, Read, gate
<1>3. ASSUME NEW o \in Offered, Record(o)
      PROVE  TypeOK'
  <2>1. Key(o) \in Expected /\ o.sample \in Windows
    BY <1>3 DEF Record, Genuine, Key
  <2>2. /\ observed' = SetDefault(observed, Key(o), o)
        /\ snapshotBy' = SetDefault(snapshotBy, o.sample, o.snapshot)
        /\ lineageBy' = SetDefault(lineageBy, o.sample, o.lineage)
    BY <1>3 DEF Record
  <2>3. observed' \in [DOMAIN observed' -> Offered]
    BY <2>2 DEF SetDefault
  <2>4. DOMAIN observed' \subseteq Expected
    BY <2>1, <2>2 DEF SetDefault
  <2>5. DOMAIN snapshotBy' \subseteq Windows /\ DOMAIN lineageBy' = DOMAIN snapshotBy'
    BY <2>1, <2>2 DEF SetDefault
  <2>. QED
    BY <1>3, <2>3, <2>4, <2>5 DEF Record, Read
<1>4. CASE FindIncomplete
  BY <1>4 DEF FindIncomplete, Conclude, gate
<1>5. CASE Seal
  <2>1. Expected = DOMAIN observed
    BY <1>5 DEF Seal, Covered, Missing
  <2>2. seal' \in [DOMAIN seal' -> Offered]
    BY <1>5, <2>1 DEF Seal, SealOf
  <2>. QED
    BY <1>5, <2>2 DEF Seal, Conclude, gate
<1>6. CASE UNCHANGED vars
  BY <1>6 DEF vars, gate, history
<1>. QED
  BY <1>1, <1>2, <1>3, <1>4, <1>5, <1>6 DEF Next

-----------------------------------------------------------------------------
(* The inductive invariant. *)

(* Reading one more observation never makes a hopeless campaign hopeful. *)
LEMMA HopelessStays ==
    ASSUME NEW o, Hopeless, UNCHANGED <<roster, unaltered>>,
           given' = given \cup {o}, repeated => repeated'
    PROVE  Hopeless'
  BY DEF Hopeless, Genuine, Matched, Windows, WindowOf

(* The invariant holds before anything is read. *)
LEMMA InvInit == Init => GateInv
  BY DEF Init, GateInv, NothingReadYet, Faithful, JustVerdict, gate, Empty

(* Beginning to read keeps it. *)
LEMMA InvBegin == TypeOK /\ GateInv /\ Begin => GateInv'
<1>. SUFFICES ASSUME TypeOK, GateInv, Begin
              PROVE  GateInv'
  OBVIOUS
<1>1. UNCHANGED <<roster, unaltered, observed, snapshotBy, lineageBy, seal, given, repeated, ended>>
  BY DEF Begin, gate, history
<1>2. given = {} /\ ~repeated /\ ~ended /\ observed = Empty /\ snapshotBy = Empty
  BY DEF Begin, GateInv, NothingReadYet, gate
<1>3. Hopeless' <=> ~unaltered
  BY <1>1, <1>2 DEF Hopeless, Matched
<1>4. DOMAIN Empty = {}
  BY DEF Empty
<1>5. Faithful'
  BY <1>1, <1>2, <1>3, <1>4 DEF Begin, Faithful
<1>. QED
  BY <1>1, <1>3, <1>5 DEF Begin, GateInv, NothingReadYet, JustVerdict

(* A refused observation makes the campaign hopeless. *)
LEMMA InvRefuse ==
    ASSUME TypeOK, GateInv, NEW o \in Offered, Refuse(o)
    PROVE  GateInv'
<1>1. /\ UNCHANGED <<roster, unaltered, observed, snapshotBy, lineageBy, seal, ended>>
      /\ given' = given \cup {o}
      /\ verdict = "reading" /\ verdict' = "rejected"
  BY DEF Refuse, Read, gate
<1>2. Faithful /\ Registered(roster)
  BY DEF GateInv
<1>3. CASE ~Genuine(o)
  <2>1. Hopeless'
    <3>1. ~Genuine(o)'
      BY <1>1, <1>3 DEF Genuine, Windows, WindowOf
    <3>. QED
      BY <1>1, <3>1 DEF Hopeless
  <2>. QED
    BY <1>1, <1>2, <2>1 DEF GateInv, NothingReadYet, Faithful, JustVerdict
<1>4. CASE ~Fresh(o)
  <2>1. PICK p \in given : Key(p) = Key(o)
    BY <1>1, <1>2, <1>4 DEF Faithful, Fresh
  <2>2. p.arm = o.arm /\ p.sample = o.sample
    BY <2>1 DEF Key
  <2>3. Hopeless'
    <3>1. CASE p = o
      BY <3>1, <1>1 DEF Refuse, Read, Hopeless
    <3>2. CASE p # o
      BY <3>2, <2>2, <1>1 DEF Hopeless, Matched
    <3>. QED
      BY <3>1, <3>2
  <2>. QED
    BY <1>1, <1>2, <2>3 DEF GateInv, NothingReadYet, Faithful, JustVerdict
<1>5. CASE ~Agrees(o)
  <2>1. \E p \in given : /\ p.sample = o.sample
                         /\ p.snapshot # o.snapshot \/ p.lineage # o.lineage
    <3>1. CASE o.sample \in DOMAIN snapshotBy
      <4>1. PICK p \in given : p.sample = o.sample
        BY <1>1, <1>2, <3>1 DEF Faithful
      <4>2. snapshotBy[o.sample] = p.snapshot /\ lineageBy[o.sample] = p.lineage
        BY <1>1, <1>2, <4>1 DEF Faithful
      <4>. QED
        BY <1>5, <3>1, <4>1, <4>2 DEF Agrees, TypeOK, SetDefault
    <3>2. CASE o.sample \notin DOMAIN snapshotBy
      BY <1>5, <3>2 DEF Agrees, TypeOK, SetDefault
    <3>. QED
      BY <3>1, <3>2
  <2>2. Hopeless'
    BY <1>1, <2>1 DEF Hopeless, Matched
  <2>. QED
    BY <1>1, <1>2, <2>2 DEF GateInv, NothingReadYet, Faithful, JustVerdict
<1>. QED
  BY <1>3, <1>4, <1>5 DEF Refuse

(* A recorded observation leaves the dictionaries faithful. *)
LEMMA InvRecord ==
    ASSUME TypeOK, GateInv, NEW o \in Offered, Record(o)
    PROVE  GateInv'
<1>1. /\ UNCHANGED <<roster, unaltered, seal, ended, verdict>>
      /\ given' = given \cup {o}
      /\ repeated' = (repeated \/ o \in given)
      /\ verdict = "reading"
      /\ observed' = SetDefault(observed, Key(o), o)
      /\ snapshotBy' = SetDefault(snapshotBy, o.sample, o.snapshot)
      /\ lineageBy' = SetDefault(lineageBy, o.sample, o.lineage)
  BY DEF Record, Read
<1>2. /\ ~Hopeless /\ ~ended
      /\ DOMAIN observed = {Key(p) : p \in given}
      /\ DOMAIN snapshotBy = {p.sample : p \in given}
      /\ \A p \in given : /\ observed[Key(p)] = p
                          /\ snapshotBy[p.sample] = p.snapshot
                          /\ lineageBy[p.sample] = p.lineage
  BY <1>1 DEF GateInv, Faithful
<1>3. Genuine(o) /\ Key(o) \notin DOMAIN observed /\ Agrees(o)
  BY DEF Record, Fresh
<1>4. DOMAIN lineageBy = DOMAIN snapshotBy
  BY DEF TypeOK
<1>5. o \notin given
  BY <1>2, <1>3
<1>6. \A p \in given : p.sample = o.sample =>
          p.arm # o.arm /\ p.snapshot = o.snapshot /\ p.lineage = o.lineage
  <2>. SUFFICES ASSUME NEW p \in given, p.sample = o.sample
                PROVE  p.arm # o.arm /\ p.snapshot = o.snapshot /\ p.lineage = o.lineage
    OBVIOUS
  <2>1. p.arm # o.arm
    BY <1>2, <1>3 DEF Key
  <2>2. o.sample \in DOMAIN snapshotBy /\ o.sample \in DOMAIN lineageBy
    BY <1>2, <1>4
  <2>3. p.snapshot = o.snapshot
    BY <1>2, <1>3, <2>2 DEF Agrees, SetDefault
  <2>4. p.lineage = o.lineage
    BY <1>2, <1>3, <2>2 DEF Agrees, SetDefault
  <2>. QED
    BY <2>1, <2>3, <2>4
<1>7. ~Hopeless'
  <2>1. unaltered' /\ ~repeated'
    BY <1>1, <1>2, <1>5 DEF Hopeless
  <2>2. \A p \in given' : Genuine(p)'
    <3>1. \A p : Genuine(p)' <=> Genuine(p)
      BY <1>1 DEF Genuine, Windows, WindowOf
    <3>. QED
      BY <1>1, <1>2, <1>3, <3>1 DEF Hopeless
  <2>3. Matched(given')
    BY <1>1, <1>2, <1>6 DEF Hopeless, Matched
  <2>. QED
    BY <2>1, <2>2, <2>3 DEF Hopeless
<1>8. DOMAIN observed' = {Key(p) : p \in given'}
  BY <1>1, <1>2 DEF SetDefault
<1>9. DOMAIN snapshotBy' = {p.sample : p \in given'}
  BY <1>1, <1>2 DEF SetDefault
<1>10. \A p \in given' : observed'[Key(p)] = p
  BY <1>1, <1>2, <1>3 DEF SetDefault
<1>11. snapshotBy'[o.sample] = o.snapshot /\ lineageBy'[o.sample] = o.lineage
  BY <1>1, <1>3 DEF Agrees
<1>12. \A p \in given : snapshotBy'[p.sample] = p.snapshot /\ lineageBy'[p.sample] = p.lineage
  BY <1>1, <1>2, <1>4 DEF SetDefault
<1>13. Faithful'
  BY <1>1, <1>2, <1>7, <1>8, <1>9, <1>10, <1>11, <1>12 DEF Faithful
<1>. QED
  BY <1>1, <1>13 DEF GateInv, NothingReadYet, JustVerdict

(* At the end of the iterable the count decides rightly. *)
LEMMA InvConclude ==
    ASSUME CoverageAssumption, TypeOK, GateInv, FindIncomplete \/ Seal
    PROVE  GateInv'
<1>1. /\ UNCHANGED <<roster, unaltered, observed, snapshotBy, lineageBy, given, repeated>>
      /\ verdict = "reading" /\ ended'
      /\ verdict' \in {"rejected", "sealed"}
  BY DEF FindIncomplete, Seal, Conclude, gate
<1>2. /\ ~Hopeless
      /\ DOMAIN observed = {Key(o) : o \in given}
      /\ \A o \in given : observed[Key(o)] = o
  BY <1>1 DEF GateInv, Faithful
<1>3. ~Hopeless'
  BY <1>1, <1>2 DEF Hopeless, Genuine, Matched, Windows, WindowOf
<1>4. Covered <=> {Key(o) : o \in given} = Expected
  <2>1. DOMAIN observed \subseteq Expected
    BY DEF TypeOK
  <2>2. Missing = {} <=> DOMAIN observed = Expected
    BY <2>1 DEF Missing
  <2>3. Cardinality(Expected) = Cardinality(Arms) * Len(roster)
    BY ExpectedCount DEF TypeOK, GateInv
  <2>. QED
    BY <1>2, <2>2, <2>3 DEF Covered
<1>5. Expected' = Expected
  BY <1>1 DEF Expected, Windows
<1>6. JustVerdict'
  <2>1. CASE FindIncomplete
    BY <1>1, <1>4, <1>5, <2>1 DEF FindIncomplete, JustVerdict
  <2>2. CASE Seal
    <3>1. seal' = [k \in Expected |-> observed[k]]
      BY <2>2 DEF Seal, SealOf
    <3>2. {Key(o) : o \in given} = Expected
      BY <1>4, <2>2 DEF Seal
    <3>3. \A o \in given : seal'[Key(o)] = o
      BY <1>2, <3>1, <3>2
    <3>. QED
      BY <1>1, <1>3, <1>5, <2>2, <3>1, <3>2, <3>3 DEF Seal, JustVerdict
  <2>. QED
    BY <2>1, <2>2
<1>. QED
  BY <1>1, <1>6 DEF GateInv, NothingReadYet, Faithful

(* The invariant depends on the variables only. *)
LEMMA InvStutter == GateInv /\ UNCHANGED vars => GateInv'
  BY DEF GateInv, NothingReadYet, Faithful, JustVerdict, vars, gate, history, Hopeless,
     Genuine, Matched, Windows, WindowOf, Expected

(* The inductive invariant: the dictionaries say what was read. *)
THEOREM Invariance == Spec => []IndInv
<1>1. Init => IndInv
  BY TypeInit, InvInit DEF IndInv
<1>2. IndInv /\ [Next]_vars => IndInv'
  <2>1. TypeOK /\ GateInv /\ [Next]_vars => GateInv'
    BY CoverageAssumption, InvBegin, InvRefuse, InvRecord, InvConclude, InvStutter DEF Next
  <2>. QED
    BY <2>1, TypeNext DEF IndInv
<1>. QED
  BY <1>1, <1>2, PTL DEF Spec

(* The gate seals exactly the complete, matched campaigns, in any order. *)
THEOREM VerdictIsJust == Spec => []JustVerdict
<1>1. IndInv => JustVerdict
  BY DEF IndInv, GateInv
<1>. QED
  BY <1>1, Invariance, PTL

=============================================================================
