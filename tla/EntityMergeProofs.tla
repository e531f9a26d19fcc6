------------------------- MODULE EntityMergeProofs --------------------------
(***************************************************************************)
(* What the merge promises, for every value of the constants: whatever ops *)
(* the devices write and whatever order they reach a replica in.           *)
(*                                                                         *)
(* First the parts of a replica's state that the order between versions    *)
(* does not decide (FieldsFollow, and from it DeadAddsStayDead and         *)
(* ObservedRemove); what AdmitVersion returns is not looked into there.    *)
(* Then the order itself: frontiers and heads are those of reachability    *)
(* among the versions applied, on time or late, and the registers the      *)
(* writes no other descends from.  Together they make a replica's state    *)
(* one function of the versions applied, StateExact, which is convergence  *)
(* and the rebuild identity; and with what the writers had applied, the    *)
(* order is causality.  Induction is always on the least stamp at which a  *)
(* statement fails.                                                        *)
(***************************************************************************)
EXTENDS EntityMergeProps, FiniteSetTheorems, WellFoundedInduction, TLAPS

-----------------------------------------------------------------------------
(* The stamp order. *)

LEMMA StampFacts ==
    ASSUME NEW a \in OptStamp, NEW b \in OptStamp, NEW c \in OptStamp
    PROVE  /\ ~Below(a, a)
           /\ Below(a, b) /\ Below(b, c) => Below(a, c)
           /\ Below(a, b) \/ a = b \/ Below(b, a)
           /\ Below(a, b) => ~Below(b, a)
           /\ b # NoStamp => Below(NoStamp, b)
           /\ ~Below(a, NoStamp)
<1>0. \A x \in Stamp : x.hlc \in Nat /\ x.dev \in Nat
  <2>1. \A x \in Stamp : x.hlc \in 1..MaxHlc /\ x.dev \in Device
    BY DEF Stamp
  <2>2. \A x \in Stamp : x.hlc \in Nat
    BY <2>1, MaxHlcAssumption
  <2>3. \A x \in Stamp : x.dev \in Nat
    BY <2>1, DeviceAssumption, Zenon
  <2> QED
    BY <2>2, <2>3
<1>2. \A x, y \in Stamp : x.hlc = y.hlc /\ x.dev = y.dev => x = y
  BY DEF Stamp
<1>3. \A x \in Stamp : x.hlc > 0
  BY MaxHlcAssumption DEF Stamp
<1>4. NoStamp.hlc = 0 /\ NoStamp.dev = 0
  BY DEF NoStamp
<1>1. \A x \in OptStamp : x.hlc \in Nat /\ x.dev \in Nat
  BY <1>0, <1>4 DEF OptStamp
<1>5. \A x, y \in OptStamp : x.hlc = y.hlc /\ x.dev = y.dev => x = y
  BY <1>2, <1>3, <1>4 DEF OptStamp
<1>6. \A x \in OptStamp : x # NoStamp => x.hlc > 0
  BY <1>3 DEF OptStamp
<1> QED
  BY <1>1, <1>4, <1>5, <1>6 DEF Below

\* Adding a stamp to a set moves its greatest as Later does, and its least as
\* Earlier does.
LEMMA GreatestOfUnion ==
    ASSUME NEW S, S \subseteq Stamp, NEW a \in Stamp, NEW m, IsGreatest(m, S)
    PROVE  IsGreatest(Later(m, a), S \cup {a})
<1>1. m \in OptStamp /\ a \in OptStamp /\ \A b \in S : b \in OptStamp
  BY DEF IsGreatest, OptStamp
<1>2. a # NoStamp
  BY DEF Stamp, NoStamp
<1> QED
  BY <1>1, <1>2, StampFacts DEF IsGreatest, Later, AtMost

LEMMA LeastOfUnion ==
    ASSUME NEW S, S \subseteq Stamp, NEW a \in Stamp, NEW m, IsLeast(m, S)
    PROVE  IsLeast(Earlier(m, a), S \cup {a})
<1>1. m \in OptStamp /\ a \in OptStamp /\ \A b \in S : b \in OptStamp
  BY DEF IsLeast, OptStamp
<1>2. a # NoStamp /\ \A b \in S : b # NoStamp
  BY DEF Stamp, NoStamp
<1> QED
  BY <1>1, <1>2, StampFacts DEF IsLeast, Earlier, AtMost

-----------------------------------------------------------------------------
(* One fold. *)

\* What a state's versions are known to be: stamped ops, each stamp one op's,
\* and only Patches increment.
VersionsOK(vs) ==
    /\ \A v \in vs : /\ v.at \in Stamp
                     /\ v.legacy \in BOOLEAN
                     /\ v.inc = 1 => ~v.legacy
    /\ \A v, w \in vs : v.at = w.at => v = w

\* The floor rises exactly as the greatest full-state stamp does.
LEMMA FloorFollows ==
    ASSUME NEW s, NEW op, VersionsOK(s.versions \cup {op}),
           op \notin s.versions, FieldsFollow(s)
    PROVE  /\ FoldedFloor(s, op) \in OptStamp
           /\ s.legacy \in OptStamp
           /\ AtMost(s.legacy, FoldedFloor(s, op))
           /\ FoldedFloor(s, op) = op.at <=> Raises(s, op)
           /\ IsGreatest(FoldedFloor(s, op),
                         Stamps({v \in s.versions \cup {op} : v.legacy}))
<1> DEFINE L == Stamps({v \in s.versions : v.legacy})
<1>1. IsGreatest(s.legacy, L)
  BY DEF FieldsFollow
<1>2. L \subseteq Stamp /\ op.at \in Stamp /\ op.at \notin L /\ op.at # NoStamp
  BY DEF VersionsOK, Stamps, Stamp, NoStamp
<1>3. s.legacy \in OptStamp /\ op.at \in OptStamp /\ s.legacy # op.at
  BY <1>1, <1>2 DEF IsGreatest, OptStamp
<1>4. CASE op.legacy
  <2>1. Stamps({v \in s.versions \cup {op} : v.legacy}) = L \cup {op.at}
    BY <1>4 DEF Stamps
  <2>2. FoldedFloor(s, op) = Later(s.legacy, op.at)
    BY <1>2, <1>3, <1>4, StampFacts DEF FoldedFloor, Raises, Later
  <2>3. IsGreatest(Later(s.legacy, op.at), L \cup {op.at})
    BY <1>1, <1>2, GreatestOfUnion
  <2> QED
    BY <1>2, <1>3, <1>4, <2>1, <2>2, <2>3, StampFacts
       DEF FoldedFloor, Raises, AtMost, Later
<1>5. CASE ~op.legacy
  <2>1. Stamps({v \in s.versions \cup {op} : v.legacy}) = L
    BY <1>5 DEF Stamps
  <2>2. FoldedFloor(s, op) = s.legacy /\ ~Raises(s, op)
    BY <1>5 DEF FoldedFloor, Raises
  <2> QED
    BY <1>1, <1>3, <2>1, <2>2 DEF AtMost
<1> QED
  BY <1>4, <1>5

LEMMA MergeFollows ==
    ASSUME NEW s, NEW op, VersionsOK(s.versions \cup {op}),
           op \notin s.versions, FieldsFollow(s)
    PROVE  FieldsFollow(MergeOp(s, op))
<1> DEFINE t == MergeOp(s, op)
           vs == s.versions
           ws == vs \cup {op}
           floor == FoldedFloor(s, op)
<1>1. /\ t.versions = ws
      /\ t.legacy = floor
      /\ t.create = FoldedCreate(s, op)
      /\ t.head = Later(s.head, op.at)
      /\ t.patched = FoldedPatched(s, op)
      /\ t.base = FoldedBase(s, op)
      /\ t.adds = FoldedAdds(s, op)
      /\ t.removes = s.removes \cup op.removes
      /\ t.deltas = FoldedDeltas(s, op)
      /\ t.entries = [k \in Key |-> FoldedEntry(s, op, k)]
  BY DEF MergeOp
<1> HIDE DEF t
<1>2. /\ op.at \in Stamp
      /\ \A v \in vs : v.at \in Stamp /\ v.at # op.at
      /\ \A v \in ws : v.at \in OptStamp
      /\ op.at # NoStamp
  BY DEF VersionsOK, Stamp, NoStamp, OptStamp
<1>3. /\ IsGreatest(floor, Stamps({v \in ws : v.legacy}))
      /\ floor \in OptStamp /\ s.legacy \in OptStamp
      /\ AtMost(s.legacy, floor)
      /\ floor = op.at <=> Raises(s, op)
      /\ ~Raises(s, op) => floor = s.legacy
  BY FloorFollows DEF FoldedFloor
<1>4. IsLeast(t.create, Stamps({v \in ws : v.create \/ v.legacy}))
  <2> DEFINE C == Stamps({v \in vs : v.create \/ v.legacy})
  <2>1. IsLeast(s.create, C) /\ C \subseteq Stamp
    BY <1>2 DEF FieldsFollow, Stamps
  <2>2. CASE op.create \/ op.legacy
    <3>1. Stamps({v \in ws : v.create \/ v.legacy}) = C \cup {op.at}
      BY <2>2 DEF Stamps
    <3> QED
      BY <1>1, <1>2, <2>1, <2>2, <3>1, LeastOfUnion DEF FoldedCreate
  <2>3. CASE ~(op.create \/ op.legacy)
    <3>1. Stamps({v \in ws : v.create \/ v.legacy}) = C
      BY <2>3 DEF Stamps
    <3> QED
      BY <1>1, <2>1, <2>3, <3>1 DEF FoldedCreate
  <2> QED
    BY <2>2, <2>3
<1>5. IsGreatest(t.head, Stamps(ws))
  <2>1. Stamps(ws) = Stamps(vs) \cup {op.at} /\ Stamps(vs) \subseteq Stamp
    BY <1>2 DEF Stamps
  <2>2. IsGreatest(s.head, Stamps(vs))
    BY DEF FieldsFollow
  <2>3. IsGreatest(Later(s.head, op.at), Stamps(vs) \cup {op.at})
    BY <1>2, <2>1, <2>2, GreatestOfUnion
  <2> QED
    BY <1>1, <2>1, <2>3, Zenon
<1>6. t.adds = UNION {v.adds \X {v.at} :
                        v \in {v \in ws : ~Below(v.at, floor)}}
  <2>1. s.adds = UNION {v.adds \X {v.at} :
                          v \in {v \in vs : ~Below(v.at, s.legacy)}}
    BY DEF FieldsFollow
  <2>2. \A v \in vs : ~Below(v.at, floor) <=>
           ~Below(v.at, s.legacy) /\ (Raises(s, op) => ~Below(v.at, op.at))
    BY <1>2, <1>3, StampFacts DEF AtMost
  <2>3. ASSUME NEW x
        PROVE  x \in t.adds <=>
                 \E v \in ws : ~Below(v.at, floor) /\ x \in v.adds \X {v.at}
    <3>1. x \in s.adds <=>
            \E v \in vs : ~Below(v.at, s.legacy) /\ x \in v.adds \X {v.at}
      BY <2>1
    <3>2. x \in t.adds <=>
            \/ x \in s.adds /\ (Raises(s, op) => ~Below(x[2], op.at))
            \/ ~Below(op.at, floor) /\ x \in op.adds \X {op.at}
      BY <1>1 DEF FoldedAdds
    <3>3. \A v : x \in v.adds \X {v.at} => x[2] = v.at
      OBVIOUS
    <3> QED
      BY <2>2, <3>1, <3>2, <3>3
  <2> QED
    BY <2>3
<1>7. t.removes = UNION {v.removes : v \in ws}
  BY <1>1 DEF FieldsFollow
<1>8. t.deltas = Stamps({v \in ws : /\ ~v.legacy /\ v.inc = 1
                                   /\ ~AtMost(v.at, floor)})
  <2>1. s.deltas = Stamps({v \in vs : /\ ~v.legacy /\ v.inc = 1
                                     /\ ~AtMost(v.at, s.legacy)})
    BY DEF FieldsFollow
  <2>2. \A v \in vs : ~AtMost(v.at, floor) <=>
           ~AtMost(v.at, s.legacy) /\ (Raises(s, op) => ~AtMost(v.at, op.at))
    BY <1>2, <1>3, StampFacts DEF AtMost
  <2>3. op.inc = 1 => ~op.legacy /\ floor = s.legacy
    BY <1>3 DEF VersionsOK, Raises
  <2> QED
    BY <1>1, <2>1, <2>2, <2>3 DEF FoldedDeltas, Stamps
<1>9. IF floor = NoStamp THEN t.base = 0
      ELSE \A v \in ws : v.at = floor => t.base = v.base
  BY <1>1, <1>2, <1>3 DEF FoldedBase, FieldsFollow
<1>12. /\ \A v \in ws : v.legacy \/ v.at.hlc <= t.patched
       /\ t.patched = 0 \/ \E v \in ws : ~v.legacy /\ v.at.hlc = t.patched
  <2>1. \A v \in ws : v.at.hlc \in Nat
    <3>1. \A v \in ws : v.at.hlc \in 1..MaxHlc
      BY DEF VersionsOK, Stamp
    <3> QED
      BY <3>1, MaxHlcAssumption
  <2>2. /\ \A v \in vs : v.legacy \/ v.at.hlc <= s.patched
        /\ s.patched = 0 \/ \E v \in vs : ~v.legacy /\ v.at.hlc = s.patched
    BY DEF FieldsFollow
  <2>3. s.patched \in Nat
    BY <2>1, <2>2
  <2> QED
    BY <1>1, <2>1, <2>2, <2>3 DEF FoldedPatched
<1>10. ASSUME NEW k \in Key
       PROVE  /\ IsGreatest(t.entries[k].at,
                            Stamps({v \in ws : k \in DOMAIN v.puts}))
              /\ t.entries[k].at = NoStamp => t.entries[k].val = Absent
              /\ \A v \in {v \in ws : k \in DOMAIN v.puts} :
                    v.at = t.entries[k].at => t.entries[k].val = v.puts[k]
  <2> DEFINE W == {v \in vs : k \in DOMAIN v.puts}
  <2>1. /\ IsGreatest(s.entries[k].at, Stamps(W))
        /\ s.entries[k].at = NoStamp => s.entries[k].val = Absent
        /\ \A v \in W : v.at = s.entries[k].at => s.entries[k].val = v.puts[k]
    BY DEF FieldsFollow
  <2>2. Stamps(W) \subseteq Stamp /\ s.entries[k].at \in OptStamp
    BY <1>2, <2>1 DEF Stamps, IsGreatest, OptStamp
  <2>3. t.entries[k] = FoldedEntry(s, op, k)
    BY <1>1
  <2>4. CASE k \in DOMAIN op.puts
    <3>1. Stamps({v \in ws : k \in DOMAIN v.puts}) = Stamps(W) \cup {op.at}
      BY <2>4 DEF Stamps
    <3>2. t.entries[k].at = Later(s.entries[k].at, op.at)
      BY <2>3, <2>4 DEF FoldedEntry, Later
    <3>3. IsGreatest(t.entries[k].at, Stamps(W) \cup {op.at})
      BY <1>2, <2>1, <2>2, <3>2, GreatestOfUnion
    <3>4. ASSUME NEW v \in ws, k \in DOMAIN v.puts, v.at = t.entries[k].at
          PROVE  t.entries[k].val = v.puts[k]
      <4>1. CASE Below(s.entries[k].at, op.at)
        BY <1>2, <2>3, <2>4, <3>4, <4>1 DEF FoldedEntry
      <4>2. CASE ~Below(s.entries[k].at, op.at)
        <5>1. t.entries[k] = s.entries[k]
          BY <2>3, <4>2 DEF FoldedEntry
        <5>2. s.entries[k].at # op.at
          BY <1>2, <2>1 DEF IsGreatest, Stamps
        <5> QED
          BY <2>1, <3>4, <5>1, <5>2
      <4> QED
        BY <4>1, <4>2
    <3>5. t.entries[k].at = NoStamp => t.entries[k].val = Absent
      BY <1>2, <2>1, <2>3 DEF FoldedEntry
    <3> QED
      BY <3>1, <3>3, <3>4, <3>5
  <2>5. CASE k \notin DOMAIN op.puts
    <3>1. {v \in ws : k \in DOMAIN v.puts} = W
      BY <2>5
    <3>2. t.entries[k] = s.entries[k]
      BY <2>3, <2>5 DEF FoldedEntry
    <3> QED
      BY <2>1, <3>1, <3>2
  <2> QED
    BY <2>4, <2>5
<1>11. FieldsFollow(t)
  <2>1. t.versions = ws /\ t.legacy = floor
    BY <1>1
  <2> HIDE DEF ws, floor
  <2> QED
    BY <1>3, <1>4, <1>5, <1>6, <1>7, <1>8, <1>9, <1>10, <1>12, <2>1, Zenon
       DEF FieldsFollow
<1> QED
  BY <1>11 DEF t

-----------------------------------------------------------------------------
(* The invariant. *)

(***************************************************************************)
(* The strengthening of FieldsExact that every step keeps.  An op is fresh *)
(* on the device that writes it because no op of that device is stamped    *)
(* above its clock; a replica only ever folds ops some device has sealed.  *)
(***************************************************************************)
Sealed ==
    /\ VersionsOK(ops)
    /\ clock \in [Device -> Nat]
    /\ \A v \in ops : v.at.hlc <= clock[v.at.dev]

Inv ==
    /\ Sealed
    /\ DOMAIN rep = Device
    /\ \A d \in Device : rep[d].versions \subseteq ops /\ FieldsFollow(rep[d])

LEMMA InitInv == Init => Inv
<1> SUFFICES ASSUME Init PROVE Inv
  OBVIOUS
<1>1. Sealed
  BY DEF Init, Sealed, VersionsOK
<1>2. EmptyState.versions = {} /\ FieldsFollow(EmptyState)
  BY DEF EmptyState, FieldsFollow, Stamps, IsGreatest, IsLeast
<1> QED
  BY <1>1, <1>2 DEF Init, Inv

\* What a write is to the argument: an op at a reading above d's clock, which
\* names d's heads as its parents, or none in a full-state op, and removes the
\* tags d observes of an element or nothing.
Written(d, h, op) ==
    /\ clock[d] < h
    /\ op.at = [hlc |-> h, dev |-> d]
    /\ op.legacy \in BOOLEAN
    /\ op.inc = 1 => ~op.legacy
    /\ op.removes = {} \/ \E x : op.removes = ObservedTags(rep[d], x)
    /\ op.parents = IF op.legacy THEN {} ELSE rep[d].heads
    /\ op.origin \in {"user", "generated"}

\* Such an op is fresh and well-formed.
LEMMA WrittenIsFresh ==
    ASSUME Inv, NEW d \in Device, NEW h \in 1..MaxHlc, NEW op, Written(d, h, op)
    PROVE  VersionsOK(ops \cup {op}) /\ op \notin ops
<1>1. h \in Nat /\ clock[d] \in Nat /\ op.at \in Stamp
  BY MaxHlcAssumption DEF Inv, Sealed, Stamp, Written
<1>2. op.at.hlc = h /\ op.at.dev = d
  BY DEF Written
<1>3. \A v \in ops : v.at # op.at
  <2>1. \A v \in ops : v.at.hlc \in 1..MaxHlc /\ v.at.hlc <= clock[v.at.dev]
    BY DEF Inv, Sealed, VersionsOK, Stamp
  <2> QED
    BY <1>1, <1>2, <2>1, MaxHlcAssumption DEF Written
<1> QED
  BY <1>1, <1>3 DEF Inv, Sealed, VersionsOK, Written

LEMMA WriteKeepsInv ==
    ASSUME Inv, NEW d \in Device, NEW h \in 1..MaxHlc, NEW op,
           Written(d, h, op), AppendAndFold(d, op)
    PROVE  Inv'
<1>1. h \in Nat /\ clock[d] \in Nat /\ clock[d] < h
  BY MaxHlcAssumption DEF Inv, Sealed, Written
<1>2. op.at.hlc = h /\ op.at.dev = d
  BY DEF Written
<1>4. VersionsOK(ops \cup {op}) /\ op \notin ops
  BY WrittenIsFresh
<1>5. ops' = ops \cup {op} /\ clock' = [clock EXCEPT ![d] = h]
  BY <1>2 DEF AppendAndFold
<1>6. Sealed'
  <2>1. clock' \in [Device -> Nat] /\ VersionsOK(ops')
    BY <1>1, <1>4, <1>5 DEF Inv, Sealed
  <2>2. ASSUME NEW v \in ops'
        PROVE  v.at.hlc <= clock'[v.at.dev]
    <3>1. v.at.dev \in Device /\ v.at.hlc \in Nat
      <4>1. v.at \in Stamp
        BY <2>1 DEF VersionsOK
      <4> QED
        BY <4>1, MaxHlcAssumption DEF Stamp
    <3>2. CASE v = op
      BY <1>1, <1>2, <1>5, <3>2 DEF Inv, Sealed
    <3>3. CASE v \in ops
      <4>1. v.at.hlc <= clock[v.at.dev] /\ clock[v.at.dev] \in Nat
        BY <3>1, <3>3 DEF Inv, Sealed
      <4>2. clock[v.at.dev] <= clock'[v.at.dev]
        BY <1>1, <1>5, <3>1, <4>1 DEF Inv, Sealed
      <4> QED
        BY <3>1, <4>1, <4>2, <2>1
    <3> QED
      BY <1>5, <3>2, <3>3
  <2> QED
    BY <2>1, <2>2 DEF Sealed
<1>7. VersionsOK(rep[d].versions \cup {op}) /\ op \notin rep[d].versions
  BY <1>4 DEF Inv, VersionsOK
<1>8. FieldsFollow(MergeOp(rep[d], op))
  BY <1>7, MergeFollows DEF Inv
<1>9. rep' = [rep EXCEPT ![d] = MergeOp(rep[d], op)]
  BY DEF AppendAndFold
<1>10. MergeOp(rep[d], op).versions = rep[d].versions \cup {op}
  BY DEF MergeOp
<1>11. \A e \in Device : rep'[e].versions \subseteq ops' /\ FieldsFollow(rep'[e])
  BY <1>5, <1>8, <1>9, <1>10 DEF Inv
<1> QED
  BY <1>6, <1>9, <1>11 DEF Inv

\* A register is written by a person or by the routine engine.
LEMMA EditOrigin == \A e \in Edits : e.kind = "set" => e.origin \in {"user", "generated"}
  BY EditAssumption DEF EditRecord

LEMMA CreateWrites ==
    ASSUME NEW d \in Writer, NEW h \in 1..MaxHlc, NEW e \in Edits,
           NEW legacy \in BOOLEAN, Create(d, h, e, legacy)
    PROVE  d \in Device /\ \E op : Written(d, h, op) /\ AppendAndFold(d, op)
<1> DEFINE at == [hlc |-> h, dev |-> d]
           l == LegacyOf(rep[d], at, TRUE, e)
           p == PatchOf(rep[d], at, TRUE, e)
           op == IF legacy THEN l ELSE p
<1>1. d \in Device /\ clock[d] < h /\ AppendAndFold(d, op)
  BY WriterAssumption DEF Create
<1>2. op = l \/ op = p
  OBVIOUS
<1>3. /\ l.at = at /\ l.legacy = TRUE /\ l.inc = 0 /\ l.removes = {} /\ l.parents = {}
      /\ l.origin = "user" \/ (e.kind = "set" /\ l.origin = e.origin)
  BY Zenon DEF LegacyOf
<1>4. /\ p.at = at /\ p.legacy = FALSE /\ p.parents = rep[d].heads
      /\ p.removes = {} \/ p.removes = ObservedTags(rep[d], e.elem)
      /\ p.origin = "user" \/ (e.kind = "set" /\ p.origin = e.origin)
  BY Zenon DEF PatchOf
<1>7. l.origin \in {"user", "generated"} /\ p.origin \in {"user", "generated"}
  BY <1>3, <1>4, EditOrigin, Zenon
<1>5. 0 # 1
  OBVIOUS
<1> HIDE DEF op, l, p
<1>6. Written(d, h, op)
  BY <1>1, <1>2, <1>3, <1>4, <1>5, <1>7, Zenon DEF Written
<1> QED
  BY <1>1, <1>6

LEMMA EditWrites ==
    ASSUME NEW d \in Writer, NEW h \in 1..MaxHlc, NEW e \in Edits,
           NEW legacy \in BOOLEAN, Edit(d, h, e, legacy)
    PROVE  d \in Device /\ \E op : Written(d, h, op) /\ AppendAndFold(d, op)
<1> DEFINE at == [hlc |-> h, dev |-> d]
           l == LegacyOf(rep[d], at, FALSE, e)
           p == PatchOf(rep[d], at, FALSE, e)
           op == IF legacy THEN l ELSE p
<1>1. d \in Device /\ clock[d] < h /\ AppendAndFold(d, op)
  BY WriterAssumption DEF Edit
<1>2. op = l \/ op = p
  OBVIOUS
<1>3. /\ l.at = at /\ l.legacy = TRUE /\ l.inc = 0 /\ l.removes = {} /\ l.parents = {}
      /\ l.origin = "user" \/ (e.kind = "set" /\ l.origin = e.origin)
  BY Zenon DEF LegacyOf
<1>4. /\ p.at = at /\ p.legacy = FALSE /\ p.parents = rep[d].heads
      /\ p.removes = {} \/ p.removes = ObservedTags(rep[d], e.elem)
      /\ p.origin = "user" \/ (e.kind = "set" /\ p.origin = e.origin)
  BY Zenon DEF PatchOf
<1>7. l.origin \in {"user", "generated"} /\ p.origin \in {"user", "generated"}
  BY <1>3, <1>4, EditOrigin, Zenon
<1>5. 0 # 1
  OBVIOUS
<1> HIDE DEF op, l, p
<1>6. Written(d, h, op)
  BY <1>1, <1>2, <1>3, <1>4, <1>5, <1>7, Zenon DEF Written
<1> QED
  BY <1>1, <1>6

LEMMA ReceiveKeepsInv ==
    ASSUME Inv, NEW d \in Device, NEW op \in ops, Receive(d, op)
    PROVE  Inv'
<1>1. op.at.hlc \in Nat /\ clock[d] \in Nat
  <2>1. op.at.hlc \in 1..MaxHlc /\ clock[d] \in Nat
    BY DEF Inv, Sealed, VersionsOK, Stamp
  <2> QED
    BY <2>1, MaxHlcAssumption
<1>2. ops' = ops /\ DOMAIN clock = Device
      /\ clock' = [clock EXCEPT ![d] = IF clock[d] < op.at.hlc THEN op.at.hlc
                                        ELSE clock[d]]
  BY DEF Receive, Inv, Sealed
<1>3. clock' \in [Device -> Nat] /\ \A e \in Device : clock[e] <= clock'[e]
  BY <1>1, <1>2 DEF Inv, Sealed
<1>4. Sealed'
  <2>1. ASSUME NEW v \in ops
        PROVE  v.at.hlc <= clock'[v.at.dev]
    <3>1. v.at.dev \in Device /\ v.at.hlc \in Nat
      BY MaxHlcAssumption DEF Inv, Sealed, VersionsOK, Stamp
    <3>2. v.at.hlc <= clock[v.at.dev] /\ clock[v.at.dev] \in Nat
      BY <3>1 DEF Inv, Sealed
    <3> QED
      BY <1>3, <3>1, <3>2
  <2> QED
    BY <1>2, <1>3, <2>1 DEF Inv, Sealed
<1>5. VersionsOK(rep[d].versions \cup {op}) /\ op \notin rep[d].versions
  BY DEF Receive, Inv, Sealed, VersionsOK
<1>6. FieldsFollow(MergeOp(rep[d], op))
  BY <1>5, MergeFollows DEF Inv
<1>7. rep' = [rep EXCEPT ![d] = MergeOp(rep[d], op)]
  BY DEF Receive
<1>8. MergeOp(rep[d], op).versions = rep[d].versions \cup {op}
  BY DEF MergeOp
<1>9. \A e \in Device : rep'[e].versions \subseteq ops' /\ FieldsFollow(rep'[e])
  BY <1>2, <1>6, <1>7, <1>8 DEF Inv
<1> QED
  BY <1>4, <1>7, <1>9 DEF Inv

LEMMA NextKeepsInv == Inv /\ [Next]_vars => Inv'
<1> SUFFICES ASSUME Inv, [Next]_vars PROVE Inv'
  OBVIOUS
<1>1. CASE UNCHANGED vars
  <2>1. ops' = ops /\ rep' = rep /\ clock' = clock
    BY <1>1 DEF vars
  <2>2. Sealed'
    BY <2>1 DEF Inv, Sealed, VersionsOK
  <2>3. \A d \in Device : FieldsFollow(rep'[d])
    BY <2>1 DEF Inv
  <2> QED
    BY <2>1, <2>2, <2>3 DEF Inv
<1>2. CASE Next
  BY <1>2, CreateWrites, EditWrites, WriteKeepsInv, ReceiveKeepsInv DEF Next
<1> QED
  BY <1>1, <1>2

(***************************************************************************)
(* On every replica, at all times, the merge tables that the version order *)
(* does not decide are the function FieldsFollow of the ops applied.       *)
(***************************************************************************)
THEOREM FieldsAreExact == Spec => []FieldsExact
<1>1. Inv => FieldsExact
  BY DEF Inv, FieldsExact
<1> QED
  BY <1>1, InitInv, NextKeepsInv, PTL DEF Spec

\* A fold takes no add back to life: one that is not live was removed, or is
\* below the floor, and both are for good.
LEMMA MergeKeepsDead ==
    ASSUME NEW s, NEW op, VersionsOK(s.versions \cup {op}),
           op \notin s.versions, FieldsFollow(s)
    PROVE  StaysDead(s, MergeOp(s, op))
<1> DEFINE t == MergeOp(s, op)
<1>1. t.removes = s.removes \cup op.removes /\ t.legacy = FoldedFloor(s, op)
  BY DEF MergeOp
<1> HIDE DEF t
<1>2. /\ s.legacy \in OptStamp /\ t.legacy \in OptStamp
      /\ AtMost(s.legacy, t.legacy)
  BY <1>1, FloorFollows
<1>3. ASSUME NEW v \in s.versions, NEW e \in v.adds,
             <<e, v.at>> \notin LiveAdds(s)
      PROVE  <<e, v.at>> \notin LiveAdds(t)
  <2>1. v.at \in OptStamp
    BY DEF VersionsOK, OptStamp
  <2>2. ~Below(v.at, s.legacy) => <<e, v.at>> \in s.adds
    BY DEF FieldsFollow
  <2>3. <<e, v.at>> \in s.removes \/ Below(v.at, s.legacy)
    BY <1>3, <2>2 DEF LiveAdds, Superseded
  <2>4. <<e, v.at>> \in t.removes \/ Below(v.at, t.legacy)
    BY <1>1, <1>2, <2>1, <2>3, StampFacts DEF AtMost
  <2> QED
    BY <2>4 DEF LiveAdds, Superseded
<1>4. StaysDead(s, t)
  BY <1>1, <1>2, <1>3 DEF StaysDead
<1> QED
  BY <1>4 DEF t

(***************************************************************************)
(* Nothing prune_below_floor deletes, and nothing a remove hid, is ever    *)
(* live again on the replica; the floor and the removes never shrink.      *)
(***************************************************************************)
THEOREM DeadAddsStay == Spec => DeadAddsStayDead
<1> DEFINE A == \A d \in Device : StaysDead(rep[d], rep'[d])
<1>1. Inv /\ [Next]_vars => [A]_vars
  <2> SUFFICES ASSUME Inv, Next, NEW d \in Device
               PROVE  StaysDead(rep[d], rep'[d])
    OBVIOUS
  <2>1. StaysDead(rep[d], rep[d])
    BY DEF StaysDead, AtMost
  <2>2. ASSUME NEW c \in Device, NEW op, op \notin rep[c].versions,
               VersionsOK(rep[c].versions \cup {op}),
               rep' = [rep EXCEPT ![c] = MergeOp(rep[c], op)]
        PROVE  StaysDead(rep[d], rep'[d])
    <3>1. StaysDead(rep[c], MergeOp(rep[c], op))
      BY <2>2, MergeKeepsDead DEF Inv
    <3> QED
      BY <2>1, <2>2, <3>1 DEF Inv
  <2>3. ASSUME NEW c \in Device, NEW op \in ops, Receive(c, op)
        PROVE  StaysDead(rep[d], rep'[d])
    BY <2>2, <2>3 DEF Receive, Inv, Sealed, VersionsOK
  <2>4. ASSUME NEW c \in Writer, NEW h \in 1..MaxHlc, NEW e \in Edits,
               NEW legacy \in BOOLEAN,
               Create(c, h, e, legacy) \/ Edit(c, h, e, legacy)
        PROVE  StaysDead(rep[d], rep'[d])
    <3>1. PICK op : Written(c, h, op) /\ AppendAndFold(c, op)
      BY <2>4, CreateWrites, EditWrites
    <3>2. c \in Device
      BY WriterAssumption
    <3>3. VersionsOK(ops \cup {op}) /\ op \notin ops
      BY <3>1, <3>2, WrittenIsFresh
    <3> QED
      BY <2>2, <3>1, <3>2, <3>3 DEF AppendAndFold, Inv, VersionsOK
  <2> QED
    BY <2>3, <2>4 DEF Next
<1> QED
  BY <1>1, InitInv, NextKeepsInv, PTL DEF Spec, DeadAddsStayDead

-----------------------------------------------------------------------------
(* The OR-set. *)

\* The history is of ops that exist.
SeenIsSealed ==
    /\ DOMAIN seen = Stamps(ops)
    /\ \A w \in ops : seen[w.at] \subseteq Stamps(ops)

\* A remove names tags its writer had applied, and of the element's other adds
\* its writer had applied, another remove or the floor had hidden each.
RemovesWhatItSaw ==
    \A w \in ops : \A r \in w.removes :
        /\ r[2] \in seen[w.at]
        /\ \A v \in ops : v.at \in seen[w.at] /\ r[1] \in v.adds =>
              \/ <<r[1], v.at>> \in w.removes
              \/ \E u \in ops : /\ u.at \in seen[w.at]
                                /\ \/ <<r[1], v.at>> \in u.removes
                                   \/ u.legacy /\ Below(v.at, u.at)

ObservedInv == Inv /\ SeenIsSealed /\ RemovesWhatItSaw

\* No history yet.
LEMMA InitObserved == Init => ObservedInv
<1>1. Init => SeenIsSealed /\ RemovesWhatItSaw
  BY DEF Init, SeenIsSealed, RemovesWhatItSaw, Stamps
<1> QED
  BY <1>1, InitInv DEF ObservedInv

\* Writing records what the writer has applied, of the new op only.
LEMMA WriteKeepsObserved ==
    ASSUME ObservedInv, NEW d \in Device, NEW h \in 1..MaxHlc, NEW op,
           Written(d, h, op), AppendAndFold(d, op), Inv'
    PROVE  ObservedInv'
<1> USE DEF ObservedInv
<1> DEFINE vs == rep[d].versions
<1>1. /\ ops' = ops \cup {op}
      /\ seen' = [a \in DOMAIN seen \cup {op.at} |-> IF a = op.at THEN Stamps(vs) ELSE seen[a]]
  BY DEF AppendAndFold
<1>2. VersionsOK(ops \cup {op}) /\ op \notin ops /\ vs \subseteq ops /\ FieldsFollow(rep[d])
  BY WrittenIsFresh DEF Inv
<1>3. \A v \in ops : v.at # op.at
  BY <1>2 DEF VersionsOK
<1>4. /\ DOMAIN seen' = DOMAIN seen \cup {op.at}
      /\ seen'[op.at] = Stamps(vs)
      /\ \A a \in DOMAIN seen : seen'[a] = seen[a]
  <2>1. op.at \notin DOMAIN seen
    BY <1>3 DEF SeenIsSealed, Stamps
  <2> HIDE DEF vs
  <2> QED
    BY <1>1, <2>1
<1>5. \A v \in ops : v.at \in DOMAIN seen /\ seen'[v.at] = seen[v.at]
  BY <1>4 DEF SeenIsSealed, Stamps
<1>6. Stamps(ops') = Stamps(ops) \cup {op.at} /\ Stamps(vs) \subseteq Stamps(ops)
  BY <1>1, <1>2 DEF Stamps
<1>7. SeenIsSealed'
  <2>1. DOMAIN seen' = Stamps(ops')
    BY <1>4, <1>6 DEF SeenIsSealed
  <2>2. \A w \in ops' : seen'[w.at] \subseteq Stamps(ops')
    BY <1>1, <1>4, <1>5, <1>6 DEF SeenIsSealed
  <2> QED
    BY <2>1, <2>2 DEF SeenIsSealed
<1>8. ASSUME NEW w \in ops, NEW r \in w.removes
      PROVE  /\ r[2] \in seen'[w.at]
             /\ \A v \in ops' : v.at \in seen'[w.at] /\ r[1] \in v.adds =>
                   \/ <<r[1], v.at>> \in w.removes
                   \/ \E u \in ops' : /\ u.at \in seen'[w.at]
                                      /\ \/ <<r[1], v.at>> \in u.removes
                                         \/ u.legacy /\ Below(v.at, u.at)
  <2>1. seen'[w.at] = seen[w.at] /\ seen[w.at] \subseteq Stamps(ops)
    BY <1>5 DEF SeenIsSealed
  <2>2. \A v \in ops' : v.at \in seen[w.at] => v \in ops
    BY <1>1, <1>3, <2>1 DEF Stamps
  <2>3. r[2] \in seen[w.at]
    BY <1>8 DEF RemovesWhatItSaw
  <2>4. ASSUME NEW v \in ops, v.at \in seen[w.at], r[1] \in v.adds
        PROVE  \/ <<r[1], v.at>> \in w.removes
               \/ \E u \in ops : /\ u.at \in seen[w.at]
                                 /\ \/ <<r[1], v.at>> \in u.removes
                                    \/ u.legacy /\ Below(v.at, u.at)
    BY <1>8, <2>4 DEF RemovesWhatItSaw
  <2> QED
    BY <1>1, <2>1, <2>2, <2>3, <2>4
<1>9. ASSUME NEW r \in op.removes
      PROVE  /\ r[2] \in seen'[op.at]
             /\ \A v \in ops' : v.at \in seen'[op.at] /\ r[1] \in v.adds =>
                   \/ <<r[1], v.at>> \in op.removes
                   \/ \E u \in ops' : /\ u.at \in seen'[op.at]
                                      /\ \/ <<r[1], v.at>> \in u.removes
                                         \/ u.legacy /\ Below(v.at, u.at)
  <2>1. PICK x : op.removes = {a \in rep[d].adds \ rep[d].removes : a[1] = x}
    BY <1>9 DEF Written, ObservedTags
  <2>2. r \in rep[d].adds /\ r[1] = x
    BY <2>1
  <2>3. PICK v0 \in vs : r \in v0.adds \X {v0.at}
    BY <1>2, <2>2 DEF FieldsFollow
  <2>4. r[2] \in Stamps(vs)
    BY <2>3 DEF Stamps
  <2>5. ASSUME NEW v \in ops', v.at \in Stamps(vs), x \in v.adds
        PROVE  \/ <<x, v.at>> \in op.removes
               \/ \E u \in ops' : /\ u.at \in Stamps(vs)
                                  /\ \/ <<x, v.at>> \in u.removes
                                     \/ u.legacy /\ Below(v.at, u.at)
    <3>1. v \in vs
      <4>1. PICK y \in vs : y.at = v.at
        BY <2>5 DEF Stamps
      <4> QED
        BY <1>1, <1>2, <4>1 DEF VersionsOK
    <3>2. CASE Below(v.at, rep[d].legacy)
      <4>1. rep[d].legacy # NoStamp
        <5>1. v.at \in OptStamp
          BY <1>2, <3>1 DEF VersionsOK, OptStamp
        <5>2. ~Below(v.at, NoStamp)
          BY <5>1, StampFacts
        <5> QED
          BY <3>2, <5>2
      <4>2. PICK u \in vs : u.legacy /\ u.at = rep[d].legacy
        BY <1>2, <4>1 DEF FieldsFollow, IsGreatest, Stamps
      <4> QED
        BY <1>1, <1>2, <3>2, <4>2 DEF Stamps
    <3>3. CASE ~Below(v.at, rep[d].legacy)
      <4>1. <<x, v.at>> \in rep[d].adds
        BY <1>2, <2>5, <3>1, <3>3 DEF FieldsFollow
      <4>2. CASE <<x, v.at>> \in rep[d].removes
        <5>1. PICK u \in vs : <<x, v.at>> \in u.removes
          BY <1>2, <4>2 DEF FieldsFollow
        <5> QED
          BY <1>1, <1>2, <5>1 DEF Stamps
      <4>3. CASE <<x, v.at>> \notin rep[d].removes
        BY <2>1, <4>1, <4>3
      <4> QED
        BY <4>2, <4>3
    <3> QED
      BY <3>2, <3>3
  <2> QED
    BY <1>4, <2>2, <2>4, <2>5
<1>10. RemovesWhatItSaw'
  <2> SUFFICES ASSUME NEW w \in ops', NEW r \in w.removes
               PROVE  /\ r[2] \in seen'[w.at]
                      /\ \A v \in ops' : v.at \in seen'[w.at] /\ r[1] \in v.adds =>
                            \/ <<r[1], v.at>> \in w.removes
                            \/ \E u \in ops' : /\ u.at \in seen'[w.at]
                                               /\ \/ <<r[1], v.at>> \in u.removes
                                                  \/ u.legacy /\ Below(v.at, u.at)
    BY Zenon DEF RemovesWhatItSaw
  <2>1. CASE w \in ops
    BY <1>8, <2>1, Zenon
  <2>2. CASE w = op
    BY <1>9, <2>2, Zenon
  <2> QED
    BY <1>1, <2>1, <2>2
<1> QED
  BY <1>7, <1>10

LEMMA NextKeepsObserved == ObservedInv /\ [Next]_vars => ObservedInv'
<1> SUFFICES ASSUME ObservedInv, [Next]_vars PROVE ObservedInv'
  OBVIOUS
<1>0. Inv'
  BY NextKeepsInv DEF ObservedInv
<1>1. ASSUME UNCHANGED <<ops, seen>> PROVE ObservedInv'
  BY <1>0, <1>1 DEF ObservedInv, SeenIsSealed, RemovesWhatItSaw
<1>2. CASE UNCHANGED vars
  BY <1>1, <1>2 DEF vars
<1>3. ASSUME NEW d \in Device, NEW op \in ops, Receive(d, op) PROVE ObservedInv'
  BY <1>1, <1>3 DEF Receive
<1>4. ASSUME NEW d \in Writer, NEW h \in 1..MaxHlc, NEW e \in Edits, NEW legacy \in BOOLEAN,
             Create(d, h, e, legacy) \/ Edit(d, h, e, legacy)
      PROVE  ObservedInv'
  <2>1. d \in Device /\ \E op : Written(d, h, op) /\ AppendAndFold(d, op)
    BY <1>4, CreateWrites, EditWrites
  <2> QED
    BY <1>0, <2>1, WriteKeepsObserved
<1> QED
  BY <1>2, <1>3, <1>4 DEF Next

(***************************************************************************)
(* For any devices, elements and ops, delivered in any order: an add stays *)
(* against every remove whose writer had not applied it, and a remove      *)
(* takes away every add its writer had applied once the replica holds what *)
(* that writer held.                                                       *)
(***************************************************************************)
THEOREM RemovesAreObserved == Spec => []ObservedRemove
<1>1. ASSUME ObservedInv PROVE ObservedRemove
  <2> SUFFICES ASSUME NEW d \in Device, NEW v \in rep[d].versions, NEW e \in Element,
                      e \in v.adds
               PROVE  LET s == rep[d]
                          removals == {w \in s.versions : \E r \in w.removes : r[1] = e}
                      IN  /\ (/\ ~Below(v.at, s.legacy)
                              /\ \A w \in removals : v.at \notin seen[w.at])
                                => e \in Elements(s)
                          /\ (\E w \in removals :
                                  /\ v.at \in seen[w.at]
                                  /\ seen[w.at] \subseteq Stamps(s.versions))
                                => <<e, v.at>> \notin LiveAdds(s)
    BY DEF ObservedRemove
  <2> DEFINE s == rep[d]
             removals == {w \in s.versions : \E r \in w.removes : r[1] = e}
  <2>1. s.versions \subseteq ops /\ FieldsFollow(s) /\ VersionsOK(ops)
    BY <1>1 DEF ObservedInv, Inv, Sealed
  <2>2. ASSUME ~Below(v.at, s.legacy), \A w \in removals : v.at \notin seen[w.at]
        PROVE  e \in Elements(s)
    <3>1. <<e, v.at>> \in s.adds
      BY <2>1, <2>2 DEF FieldsFollow
    <3>2. ASSUME <<e, v.at>> \in s.removes PROVE FALSE
      <4>1. PICK w \in s.versions : <<e, v.at>> \in w.removes
        BY <2>1, <3>2 DEF FieldsFollow
      <4>2. <<e, v.at>>[2] \in seen[w.at]
        BY <1>1, <2>1, <4>1 DEF ObservedInv, RemovesWhatItSaw
      <4>3. w \in removals
        BY <4>1
      <4> QED
        BY <2>2, <4>2, <4>3
    <3>3. <<e, v.at>> \in LiveAdds(s)
      BY <2>2, <3>1, <3>2 DEF LiveAdds, Superseded
    <3> QED
      BY <3>3 DEF Elements
  <2>3. ASSUME NEW w \in removals, v.at \in seen[w.at],
               seen[w.at] \subseteq Stamps(s.versions)
        PROVE  <<e, v.at>> \notin LiveAdds(s)
    <3>1. PICK r \in w.removes : r[1] = e
      OBVIOUS
    <3>2. w \in ops /\ v \in ops /\ w \in s.versions
      BY <2>1
    <3>3. \/ <<e, v.at>> \in w.removes
          \/ \E u \in ops : /\ u.at \in seen[w.at]
                            /\ \/ <<e, v.at>> \in u.removes
                               \/ u.legacy /\ Below(v.at, u.at)
      BY <1>1, <2>3, <3>1, <3>2 DEF ObservedInv, RemovesWhatItSaw
    <3>4. ASSUME NEW u \in ops, u.at \in seen[w.at] PROVE u \in s.versions
      <4>1. PICK y \in s.versions : y.at = u.at
        BY <2>3, <3>4 DEF Stamps
      <4> QED
        BY <2>1, <4>1 DEF VersionsOK
    <3>5. ASSUME NEW u \in s.versions, <<e, v.at>> \in u.removes
          PROVE  <<e, v.at>> \notin LiveAdds(s)
      BY <2>1, <3>5 DEF FieldsFollow, LiveAdds
    <3>6. ASSUME NEW u \in s.versions, u.legacy, Below(v.at, u.at)
          PROVE  <<e, v.at>> \notin LiveAdds(s)
      <4>1. AtMost(u.at, s.legacy) /\ s.legacy \in Stamps(s.versions)
        BY <2>1, <3>6 DEF FieldsFollow, IsGreatest, Stamps
      <4>2. u.at \in OptStamp /\ v.at \in OptStamp /\ s.legacy \in OptStamp
        BY <2>1, <4>1 DEF VersionsOK, OptStamp, Stamps
      <4>3. Below(v.at, s.legacy)
        BY <3>6, <4>1, <4>2, StampFacts DEF AtMost
      <4> QED
        BY <4>3 DEF LiveAdds, Superseded
    <3> QED
      BY <3>2, <3>3, <3>4, <3>5, <3>6
  <2> QED
    BY <2>2, <2>3
<1>2. ObservedInv => ObservedRemove
  BY <1>1
<1> QED
  BY <1>2, InitObserved, NextKeepsObserved, PTL DEF Spec

-----------------------------------------------------------------------------
(* Least and greatest stamps. *)

\* Stamps are well-ordered: readings are naturals, and so are devices.
LEMMA LeastStamp ==
    ASSUME NEW S, S \subseteq Stamp, S # {}
    PROVE  \E a \in S : \A b \in S : AtMost(a, b)
<1>1. \A a \in S : a.hlc \in Nat /\ a.dev \in Nat
  <2>1. \A a \in S : a.hlc \in 1..MaxHlc /\ a.dev \in Device
    BY DEF Stamp
  <2>2. \A a \in S : a.dev \in Nat
    BY <2>1, DeviceAssumption, Zenon
  <2> QED
    BY <2>1, <2>2, MaxHlcAssumption
<1>2. ASSUME NEW T, T \subseteq Nat, T # {}
      PROVE  \E n \in T : \A m \in T : n <= m
  <2>1. PICK n \in T : \A m \in T : <<m, n>> \notin OpToRel(<, Nat)
    BY <1>2, NatLessThanWellFounded, WFMin
  <2>2. ASSUME NEW m \in T PROVE n <= m
    <3>1. m \in Nat /\ n \in Nat
      BY <1>2
    <3>2. ~(m < n)
      BY <2>1, <3>1 DEF OpToRel
    <3> QED
      BY <3>1, <3>2
  <2> QED
    BY <2>2
<1>3. PICK h \in {a.hlc : a \in S} : \A m \in {a.hlc : a \in S} : h <= m
  <2>1. {a.hlc : a \in S} \subseteq Nat /\ {a.hlc : a \in S} # {}
    BY <1>1
  <2> QED
    BY <1>2, <2>1
<1> DEFINE T == {a.dev : a \in {x \in S : x.hlc = h}}
<1>4. PICK k \in T : \A m \in T : k <= m
  <2>1. T \subseteq Nat /\ T # {}
    BY <1>1, <1>3
  <2> QED
    BY <1>2, <2>1
<1>5. PICK a \in S : a.hlc = h /\ a.dev = k
  BY <1>4
<1>6. ASSUME NEW b \in S PROVE AtMost(a, b)
  <2>1. a.hlc <= b.hlc /\ (a.hlc = b.hlc => a.dev <= b.dev)
    BY <1>3, <1>4, <1>5
  <2>2. a.hlc = b.hlc /\ a.dev = b.dev => a = b
    BY DEF Stamp
  <2> QED
    BY <1>1, <2>1, <2>2 DEF AtMost, Below
<1> QED
  BY <1>6

\* The order with equality, from the strict one.
LEMMA AtMostFacts ==
    ASSUME NEW a \in OptStamp, NEW b \in OptStamp, NEW c \in OptStamp
    PROVE  /\ AtMost(a, b) /\ AtMost(b, c) => AtMost(a, c)
           /\ AtMost(a, b) /\ AtMost(b, a) => a = b
           /\ AtMost(a, b) \/ Below(b, a)
           /\ AtMost(a, b) => ~Below(b, a)
           /\ AtMost(a, b) /\ Below(b, c) => Below(a, c)
           /\ Below(a, b) /\ AtMost(b, c) => Below(a, c)
           /\ AtMost(a, NoStamp) => a = NoStamp
  BY StampFacts DEF AtMost

\* NoStamp stands for a missing stamp and is none.
LEMMA StampIsOpt == Stamp \subseteq OptStamp /\ NoStamp \notin Stamp /\ NoStamp \in OptStamp
  BY DEF Stamp, OptStamp, NoStamp

\* A finite set of stamps has a greatest element: the one with the fewest
\* above it.
LEMMA GreatestStamp ==
    ASSUME NEW S, S \subseteq OptStamp, S # {}, IsFiniteSet(S)
    PROVE  \E a \in S : \A b \in S : AtMost(b, a)
<1> DEFINE up(a) == {b \in S : Below(a, b)}
           N == {Cardinality(up(a)) : a \in S}
<1>1. \A a \in S : IsFiniteSet(up(a)) /\ Cardinality(up(a)) \in Nat
  BY FS_Subset, FS_CardinalityType
<1>2. PICK n \in N : \A m \in N : <<m, n>> \notin OpToRel(<, Nat)
  <2>1. N \subseteq Nat /\ N # {}
    BY <1>1
  <2> HIDE DEF N
  <2> QED
    BY <2>1, NatLessThanWellFounded, WFMin
<1>3. PICK a \in S : n = Cardinality(up(a))
  BY <1>2
<1>4. ASSUME NEW b \in S PROVE AtMost(b, a)
  <2>1. CASE Below(a, b)
    <3>1. up(b) \subseteq up(a) /\ b \in up(a) /\ b \notin up(b)
      BY <2>1, StampFacts
    <3>2. Cardinality(up(b)) < Cardinality(up(a))
      <4> HIDE DEF up
      <4>1. up(b) # up(a)
        BY <3>1
      <4>2. /\ IsFiniteSet(up(a)) /\ IsFiniteSet(up(b))
            /\ Cardinality(up(a)) \in Nat /\ Cardinality(up(b)) \in Nat
        BY <1>1
      <4>3. Cardinality(up(b)) <= Cardinality(up(a)) /\ (Cardinality(up(b)) = Cardinality(up(a)) => up(a) = up(b))
        BY <3>1, <4>2, FS_Subset, Zenon
      <4> QED
        BY <4>1, <4>2, <4>3
    <3>3. <<Cardinality(up(b)), n>> \in OpToRel(<, Nat)
      BY <1>1, <1>3, <3>2 DEF OpToRel
    <3> QED
      BY <1>2, <3>3
  <2>2. CASE ~Below(a, b)
    BY <2>2, StampFacts DEF AtMost
  <2> QED
    BY <2>1, <2>2
<1> QED
  BY <1>4

\* Greatest is what it says, of a finite set.
LEMMA GreatestIs ==
    ASSUME NEW S, S \subseteq OptStamp, IsFiniteSet(S)
    PROVE  IsGreatest(Greatest(S), S)
<1>1. CASE S = {}
  BY <1>1 DEF Greatest, IsGreatest
<1>2. CASE S # {}
  <2>1. \E a \in S : \A b \in S : AtMost(b, a)
    BY <1>2, GreatestStamp
  <2> QED
    BY <1>2, <2>1, Zenon DEF Greatest, IsGreatest
<1> QED
  BY <1>1, <1>2

\* A set has one greatest stamp, and one least.
LEMMA GreatestUnique ==
    ASSUME NEW S, S \subseteq Stamp, NEW m, NEW n, IsGreatest(m, S), IsGreatest(n, S)
    PROVE  m = n
<1>1. S = {} => m = NoStamp /\ n = NoStamp
  BY DEF IsGreatest
<1>2. S # {} => m \in S /\ n \in S /\ AtMost(m, n) /\ AtMost(n, m)
  BY DEF IsGreatest
<1> QED
  BY <1>1, <1>2, AtMostFacts, StampIsOpt

LEMMA LeastUnique ==
    ASSUME NEW S, S \subseteq Stamp, NEW m, NEW n, IsLeast(m, S), IsLeast(n, S)
    PROVE  m = n
<1>1. S = {} => m = NoStamp /\ n = NoStamp
  BY DEF IsLeast
<1>2. S # {} => m \in S /\ n \in S /\ AtMost(m, n) /\ AtMost(n, m)
  BY DEF IsLeast
<1> QED
  BY <1>1, <1>2, AtMostFacts, StampIsOpt

-----------------------------------------------------------------------------
(* Reachability. *)

\* Closure satisfies its recursion, for any edges: so does the least set that
\* holds the edges of a and, with an element, its edges.
LEMMA ClosureIs ==
    ASSUME NEW D, \A a \in DOMAIN D : D[a] \subseteq DOMAIN D
    PROVE  Closure(D) = [a \in DOMAIN D |->
                            D[a] \cup UNION {Closure(D)[b] : b \in D[a]}]
<1> DEFINE S == DOMAIN D
           closed(C) == \A c \in C : D[c] \subseteq C
           L(a) == {b \in S : \A C \in SUBSET S : D[a] \subseteq C /\ closed(C) => b \in C}
           w == [a \in S |-> L(a)]
<1>1. ASSUME NEW a \in S
      PROVE  L(a) = D[a] \cup UNION {w[b] : b \in D[a]}
  <2> DEFINE U == D[a] \cup UNION {w[b] : b \in D[a]}
  <2>0. D[a] \subseteq S /\ \A b \in D[a] : b \in S /\ w[b] = L(b)
    OBVIOUS
  <2>1. ASSUME NEW b \in U PROVE b \in L(a)
    <3>1. ASSUME NEW C \in SUBSET S, D[a] \subseteq C, closed(C) PROVE b \in C
      <4>1. CASE b \in D[a]
        BY <3>1, <4>1
      <4>2. ASSUME NEW c \in D[a], b \in L(c) PROVE b \in C
        <5>1. c \in C /\ D[c] \subseteq C
          BY <3>1, <4>2
        <5> QED
          BY <3>1, <4>2, <5>1
      <4> HIDE DEF L
      <4> QED
        BY <2>0, <2>1, <4>1, <4>2
    <3>2. b \in S
      <4>1. \A c \in D[a] : L(c) \subseteq S
        OBVIOUS
      <4> HIDE DEF L
      <4> QED
        BY <2>0, <2>1, <4>1
    <3> QED
      BY <3>1, <3>2
  <2>2. ASSUME NEW b \in L(a) PROVE b \in U
    <3>1. U \subseteq S
      <4>1. \A c \in D[a] : L(c) \subseteq S
        OBVIOUS
      <4> HIDE DEF L
      <4> QED
        BY <2>0, <4>1
    <3>2. ASSUME NEW c \in U PROVE D[c] \subseteq U
      <4>1. CASE c \in D[a]
        <5>1. D[c] \subseteq L(c)
          BY <2>0, <4>1
        <5> HIDE DEF L
        <5> QED
          BY <2>0, <4>1, <5>1
      <4>2. ASSUME NEW e \in D[a], c \in L(e) PROVE D[c] \subseteq U
        <5>1. D[c] \subseteq L(e)
          <6>1. c \in S /\ D[c] \subseteq S
            BY <4>2
          <6>2. ASSUME NEW C \in SUBSET S, D[e] \subseteq C, closed(C) PROVE D[c] \subseteq C
            BY <4>2, <6>2
          <6> QED
            BY <6>1, <6>2
        <5> HIDE DEF L
        <5> QED
          BY <2>0, <4>2, <5>1
      <4> HIDE DEF L
      <4> QED
        BY <2>0, <3>2, <4>1, <4>2
    <3>3. D[a] \subseteq U
      OBVIOUS
    <3> HIDE DEF U
    <3> QED
      BY <2>2, <3>1, <3>2, <3>3
  <2> HIDE DEF L, w
  <2> QED
    BY <2>1, <2>2
<1>2. w = [a \in S |-> D[a] \cup UNION {w[b] : b \in D[a]}]
  <2>1. w = [a \in S |-> L(a)]
    OBVIOUS
  <2> HIDE DEF w, L
  <2> QED
    BY <1>1, <2>1
<1>3. \E r : r = [a \in S |-> D[a] \cup UNION {r[b] : b \in D[a]}]
  BY <1>2, Zenon
<1> HIDE DEF w
<1> QED
  BY <1>3, Zenon DEF Closure

\* The stamps of versions, and the version a stamp names.
LEMMA StampsAre ==
    ASSUME NEW vs, VersionsOK(vs)
    PROVE  /\ Stamps(vs) \subseteq Stamp
           /\ Stamps(vs) \subseteq OptStamp
           /\ NoStamp \notin Stamps(vs)
           /\ \A v \in vs : v.at \in Stamps(vs)
           /\ \A a \in Stamps(vs) : VersionAt(vs, a) \in vs /\ VersionAt(vs, a).at = a
           /\ \A v \in vs : VersionAt(vs, v.at) = v
<1>1. \A v \in vs : v.at \in Stamps(vs)
  BY DEF Stamps
<1>2. \A a \in Stamps(vs) : \E v \in vs : v.at = a
  BY DEF Stamps
<1>3. \A a \in Stamps(vs) : VersionAt(vs, a) \in vs /\ VersionAt(vs, a).at = a
  BY <1>2, Zenon DEF VersionAt
<1>4. \A v \in vs : VersionAt(vs, v.at) = v
  BY <1>1, <1>3 DEF VersionsOK
<1>5. Stamps(vs) \subseteq Stamp
  BY <1>2 DEF VersionsOK
<1> QED
  BY <1>1, <1>3, <1>4, <1>5, StampIsOpt

\* The recursion Reach satisfies.
LEMMA ReachIs ==
    ASSUME NEW vs
    PROVE  /\ DOMAIN Direct(vs) = Stamps(vs)
           /\ DOMAIN Reach(vs) = Stamps(vs)
           /\ \A a \in Stamps(vs) :
                /\ Direct(vs)[a] =
                     {b \in Stamps(vs) : /\ Below(b, a)
                                         /\ \/ a.dev = b.dev
                                            \/ \E v \in vs : v.at = a /\ b \in v.parents}
                /\ Reach(vs)[a] = Direct(vs)[a] \cup UNION {Reach(vs)[b] : b \in Direct(vs)[a]}
<1>1. /\ DOMAIN Direct(vs) = Stamps(vs)
      /\ \A a \in Stamps(vs) :
            Direct(vs)[a] = {b \in Stamps(vs) : /\ Below(b, a)
                                         /\ \/ a.dev = b.dev
                                            \/ \E v \in vs : v.at = a /\ b \in v.parents}
  BY DEF Direct
<1>2. \A a \in DOMAIN Direct(vs) : Direct(vs)[a] \subseteq DOMAIN Direct(vs)
  BY <1>1
<1>3. Closure(Direct(vs)) = [a \in Stamps(vs) |->
         Direct(vs)[a] \cup UNION {Closure(Direct(vs))[b] : b \in Direct(vs)[a]}]
  BY <1>1, <1>2, ClosureIs
<1>4. Reach(vs) = [a \in Stamps(vs) |-> Direct(vs)[a] \cup UNION {Reach(vs)[b] : b \in Direct(vs)[a]}]
  BY <1>3, Zenon DEF Reach
<1>5. /\ DOMAIN Reach(vs) = Stamps(vs)
      /\ \A a \in Stamps(vs) : Reach(vs)[a] = Direct(vs)[a] \cup UNION {Reach(vs)[b] : b \in Direct(vs)[a]}
  <2> DEFINE R == Reach(vs)
             E == Direct(vs)
  <2>1. R = [a \in Stamps(vs) |-> E[a] \cup UNION {R[b] : b \in E[a]}]
    BY <1>4
  <2> HIDE DEF R, E
  <2>2. /\ DOMAIN R = Stamps(vs)
        /\ \A a \in Stamps(vs) : R[a] = E[a] \cup UNION {R[b] : b \in E[a]}
    BY <2>1, Zenon
  <2> QED
    BY <2>2 DEF R, E
<1> QED
  BY <1>1, <1>5

\* What is reached is below, and reaching is transitive.
LEMMA ReachFacts ==
    ASSUME NEW vs, VersionsOK(vs)
    PROVE  /\ \A a \in Stamps(vs) : \A b \in Reach(vs)[a] :
                 b \in Stamps(vs) /\ Below(b, a) /\ b # a
           /\ \A a \in Stamps(vs) : \A b \in Reach(vs)[a] : Reach(vs)[b] \subseteq Reach(vs)[a]
           /\ \A a \in Stamps(vs) : Direct(vs)[a] \subseteq Reach(vs)[a]
           /\ \A a \in Stamps(vs) : \A c \in Reach(vs)[a] :
                 \E b \in Direct(vs)[a] : c = b \/ c \in Reach(vs)[b]
           /\ \A a, b \in Stamps(vs) : a.dev = b.dev /\ Below(b, a) => b \in Reach(vs)[a]
<1> DEFINE S == Stamps(vs)
           R == Reach(vs)
           E == Direct(vs)
<1>0. S \subseteq Stamp /\ S \subseteq OptStamp
  BY StampsAre
<1>1. \A a \in S : R[a] = E[a] \cup UNION {R[b] : b \in E[a]}
  BY ReachIs
<1>2. \A a \in S : \A b \in E[a] : b \in S /\ Below(b, a)
  BY ReachIs
<1>3. \A a, b \in S : a.dev = b.dev /\ Below(b, a) => b \in E[a]
  BY ReachIs
<1> HIDE DEF S, R, E
<1>4. \A a \in S : E[a] \subseteq R[a]
  BY <1>1
<1>5. \A a \in S : \A c \in R[a] : \E b \in E[a] : c = b \/ c \in R[b]
  BY <1>1
<1>6. \A a \in S : \A b \in R[a] : b \in S /\ Below(b, a)
  <2> DEFINE T == {a \in S : \E b \in R[a] : ~(b \in S /\ Below(b, a))}
  <2>1. SUFFICES ASSUME T # {} PROVE FALSE
    BY <2>1
  <2>2. PICK a \in T : \A c \in T : AtMost(a, c)
    BY <1>0, <2>1, LeastStamp
  <2>3. PICK b \in R[a] : ~(b \in S /\ Below(b, a))
    BY <2>2
  <2>4. PICK c \in E[a] : b = c \/ b \in R[c]
    BY <1>5, <2>2
  <2>5. c \in S /\ Below(c, a) /\ a \in OptStamp /\ c \in OptStamp
    BY <1>0, <1>2, <2>2
  <2>6. c \notin T
    BY <2>2, <2>5, AtMostFacts
  <2>7. b \in S /\ (b = c \/ Below(b, c))
    BY <2>4, <2>5, <2>6
  <2>8. Below(b, a)
    BY <1>0, <2>5, <2>7, StampFacts
  <2> QED
    BY <2>3, <2>7, <2>8
<1>7. \A a \in S : \A b \in R[a] : R[b] \subseteq R[a]
  <2> DEFINE T == {a \in S : \E b \in R[a] : ~(R[b] \subseteq R[a])}
  <2>1. SUFFICES ASSUME T # {} PROVE FALSE
    BY <2>1
  <2>2. PICK a \in T : \A c \in T : AtMost(a, c)
    BY <1>0, <2>1, LeastStamp
  <2>3. PICK b \in R[a] : ~(R[b] \subseteq R[a])
    BY <2>2
  <2>4. PICK c \in E[a] : b = c \/ b \in R[c]
    BY <1>5, <2>2
  <2>5. c \in S /\ Below(c, a) /\ a \in OptStamp /\ c \in OptStamp
    BY <1>0, <1>2, <2>2
  <2>6. c \notin T
    BY <2>2, <2>5, AtMostFacts
  <2>7. R[b] \subseteq R[c]
    BY <2>4, <2>5, <2>6
  <2>8. R[c] \subseteq R[a]
    BY <1>1, <2>2, <2>4
  <2> QED
    BY <2>3, <2>7, <2>8
<1>8. \A a \in S : \A b \in R[a] : b # a
  BY <1>0, <1>6, StampFacts
<1>9. \A a, b \in S : a.dev = b.dev /\ Below(b, a) => b \in R[a]
  BY <1>3, <1>4
<1> QED
  BY <1>4, <1>5, <1>6, <1>7, <1>8, <1>9 DEF S, R, E

\* More versions reach more.
LEMMA ReachGrows ==
    ASSUME NEW vs, NEW ws, VersionsOK(ws), vs \subseteq ws
    PROVE  \A a \in Stamps(vs) : a \in Stamps(ws) /\ Reach(vs)[a] \subseteq Reach(ws)[a]
<1> DEFINE R == Reach(vs)
           Q == Reach(ws)
           E == Direct(vs)
           T == {a \in Stamps(vs) : ~(R[a] \subseteq Q[a])}
<1>0. VersionsOK(vs) /\ Stamps(vs) \subseteq Stamps(ws)
  BY DEF VersionsOK, Stamps
<1>1. Stamps(vs) \subseteq Stamp /\ Stamps(vs) \subseteq OptStamp
  BY <1>0, StampsAre
<1>2. \A a \in Stamps(vs) : \A b \in E[a] : b \in Stamps(vs) /\ Below(b, a) /\ b \in Direct(ws)[a]
  BY <1>0, ReachIs
<1>3. \A a \in Stamps(vs) : \A c \in R[a] : \E b \in E[a] : c = b \/ c \in R[b]
  BY <1>0, ReachFacts
<1>4. \A a \in Stamps(ws) : \A b \in Direct(ws)[a] : b \in Q[a] /\ Q[b] \subseteq Q[a]
  BY ReachFacts
<1>5. T = {}
  <2>1. SUFFICES ASSUME T # {} PROVE FALSE
    BY <2>1
  <2>2. PICK a \in T : \A c \in T : AtMost(a, c)
    BY <1>1, <2>1, LeastStamp
  <2> HIDE DEF R, Q, E
  <2>3. PICK c \in R[a] : c \notin Q[a]
    BY <2>2
  <2>4. PICK b \in E[a] : c = b \/ c \in R[b]
    BY <1>3, <2>2
  <2>5. b \in Stamps(vs) /\ Below(b, a) /\ b \in Direct(ws)[a]
    BY <1>2, <2>2
  <2>6. b \notin T
    BY <1>1, <2>2, <2>5, AtMostFacts
  <2>7. b \in Q[a] /\ Q[b] \subseteq Q[a]
    BY <1>0, <1>4, <2>2, <2>5
  <2> QED
    BY <2>3, <2>4, <2>5, <2>6, <2>7
<1> QED
  BY <1>0, <1>5

\* A version that did not arrive late changes nothing among the others.
LEMMA OnTimeReach ==
    ASSUME NEW vs, NEW v, VersionsOK(vs \cup {v}), v \notin vs, ~ArrivedLate(vs, v)
    PROVE  \A a \in Stamps(vs) : Reach(vs \cup {v})[a] = Reach(vs)[a]
<1> DEFINE ws == vs \cup {v}
           R == Reach(vs)
           Q == Reach(ws)
           T == {a \in Stamps(vs) : ~(Q[a] \subseteq R[a])}
<1>0. VersionsOK(vs) /\ VersionsOK(ws) /\ vs \subseteq ws
  BY DEF VersionsOK
<1>1. /\ Stamps(vs) \subseteq Stamp /\ Stamps(vs) \subseteq OptStamp
      /\ Stamps(ws) = Stamps(vs) \cup {v.at} /\ v.at \notin Stamps(vs)
  <2>1. Stamps(ws) = Stamps(vs) \cup {v.at}
    BY DEF Stamps
  <2>2. v.at \notin Stamps(vs)
    BY DEF Stamps, VersionsOK
  <2> QED
    BY <1>0, <2>1, <2>2, StampsAre
<1>2. ASSUME NEW a \in Stamps(vs) PROVE Direct(ws)[a] = Direct(vs)[a]
  <2>1. /\ Direct(ws)[a] = {b \in Stamps(ws) : /\ Below(b, a)
                                         /\ \/ a.dev = b.dev
                                            \/ \E w \in ws : w.at = a /\ b \in w.parents}
        /\ Direct(vs)[a] = {b \in Stamps(vs) : /\ Below(b, a)
                                         /\ \/ a.dev = b.dev
                                            \/ \E w \in vs : w.at = a /\ b \in w.parents}
    <3>1. a \in Stamps(ws)
      BY <1>1
    <3> QED
      BY <3>1, ReachIs, Zenon
  <2>2. \A w \in ws : w.at = a => w \in vs
    BY <1>1
  <2>3. ~(Below(v.at, a) /\ (a.dev = v.at.dev \/ \E w \in vs : w.at = a /\ v.at \in w.parents))
    BY DEF ArrivedLate, Stamps
  <2> HIDE DEF ws
  <2>4. \A w \in vs : w \in ws
    BY DEF ws
  <2> QED
    BY <1>1, <2>1, <2>2, <2>3, <2>4
<1>3. \A a \in Stamps(vs) : R[a] \subseteq Q[a]
  BY <1>0, ReachGrows
<1>4. T = {}
  <2>1. SUFFICES ASSUME T # {} PROVE FALSE
    BY <2>1
  <2>2. PICK a \in T : \A c \in T : AtMost(a, c)
    BY <1>1, <2>1, LeastStamp
  <2>3. \A x \in Stamps(ws) : \A c \in Q[x] : \E b \in Direct(ws)[x] : c = b \/ c \in Q[b]
    BY <1>0, ReachFacts
  <2>4. \A x \in Stamps(vs) : \A b \in Direct(vs)[x] : b \in Stamps(vs) /\ Below(b, x) /\ b \in R[x] /\ R[b] \subseteq R[x]
    BY <1>0, ReachFacts
  <2> HIDE DEF R, Q, ws
  <2>5. PICK c \in Q[a] : c \notin R[a]
    BY <2>2
  <2>6. PICK b \in Direct(vs)[a] : c = b \/ c \in Q[b]
    BY <1>1, <1>2, <2>2, <2>3
  <2>7. b \in Stamps(vs) /\ Below(b, a) /\ b \in R[a] /\ R[b] \subseteq R[a]
    BY <2>2, <2>4
  <2>8. b \notin T
    BY <1>1, <2>2, <2>7, AtMostFacts
  <2> QED
    BY <2>5, <2>6, <2>7, <2>8
<1> QED
  BY <1>3, <1>4

-----------------------------------------------------------------------------
(* Frontiers. *)

\* The versions of device d that b reaches, itself included.
Upto(vs, b, d) == {a \in Reach(vs)[b] \cup {b} : a.dev = d}

\* The row f is the frontier of b.
RowExact(vs, b, f) ==
    /\ f \in [Device -> OptStamp]
    /\ \A d \in Device : IsGreatest(f[d], Upto(vs, b, d))

\* The rows F are the frontiers of the versions vs, no more and no fewer.
FrontierExact(vs, F) ==
    /\ DOMAIN F = Stamps(vs)
    /\ F = [a \in Stamps(vs) |-> F[a]]
    /\ \A b \in Stamps(vs) : RowExact(vs, b, F[b])

\* A set of versions a replica may have applied.
Applied(vs) == VersionsOK(vs) /\ IsFiniteSet(vs)

\* Finitely many versions have finitely many stamps.
LEMMA AppliedStamps ==
    ASSUME NEW vs, Applied(vs)
    PROVE  /\ VersionsOK(vs)
           /\ IsFiniteSet(Stamps(vs))
           /\ \A S \in SUBSET Stamps(vs) : S \subseteq OptStamp /\ IsFiniteSet(S)
<1>1. IsFiniteSet(Stamps(vs))
  <2> DEFINE f == [v \in vs |-> v.at]
  <2>1. f \in Surjection(vs, Stamps(vs))
    BY DEF Surjection, Stamps
  <2> QED
    BY <2>1, FS_Surjection DEF Applied
<1> QED
  BY <1>1, FS_Subset, StampsAre DEF Applied

\* A version reaches what those it reaches do.
LEMMA UptoFacts ==
    ASSUME NEW vs, VersionsOK(vs), NEW b \in Stamps(vs), NEW d \in Device
    PROVE  /\ Upto(vs, b, d) \subseteq Stamps(vs)
           /\ \A p \in Reach(vs)[b] : Upto(vs, p, d) \subseteq Upto(vs, b, d)
           /\ b.dev = d => b \in Upto(vs, b, d)
  BY ReachFacts DEF Upto

\* The order a frontier decides is reachability.
LEMMA RowOrder ==
    ASSUME NEW vs, VersionsOK(vs), NEW a \in Stamps(vs), NEW b \in Stamps(vs),
           NEW f, RowExact(vs, b, f)
    PROVE  a # b /\ ReachedBy(a, f) <=> a \in Reach(vs)[b]
<1>1. a \in Stamp /\ a.dev \in Device /\ a \in OptStamp /\ a # NoStamp
  BY StampsAre, StampIsOpt DEF Stamp
<1> DEFINE g == f[a.dev]
           U == Upto(vs, b, a.dev)
<1>2. g \in OptStamp /\ IsGreatest(g, U)
  BY <1>1 DEF RowExact
<1>3. U \subseteq Stamps(vs)
  BY <1>1, UptoFacts
<1>4. ASSUME a \in Reach(vs)[b] PROVE a # b /\ AtMost(a, g)
  <2>1. a # b /\ a \in U
    BY <1>4, ReachFacts DEF Upto
  <2> QED
    BY <1>2, <2>1 DEF IsGreatest
<1>5. ASSUME a # b, AtMost(a, g) PROVE a \in Reach(vs)[b]
  <2>1. g # NoStamp
    BY <1>1, <1>5, AtMostFacts, StampIsOpt
  <2>2. g \in U
    BY <1>2, <2>1 DEF IsGreatest
  <2>3. g \in Stamps(vs) /\ g.dev = a.dev /\ (g = b \/ g \in Reach(vs)[b])
    BY <1>3, <2>2 DEF Upto
  <2>4. a = g \/ a \in Reach(vs)[g]
    BY <1>5, <2>3, ReachFacts DEF AtMost
  <2> HIDE DEF g
  <2> QED
    BY <1>5, <2>3, <2>4, ReachFacts
<1> QED
  BY <1>4, <1>5 DEF ReachedBy

\* So with exact frontiers Precedes is reachability.
LEMMA OrderOfFrontiers ==
    ASSUME NEW vs, VersionsOK(vs), NEW F, FrontierExact(vs, F)
    PROVE  \A a, b \in Stamps(vs) : Precedes(F, a, b) <=> a \in Reach(vs)[b]
  BY RowOrder DEF FrontierExact, Precedes

\* The edges the code follows: parents and the previous version of the device.
LEMMA EdgesAre ==
    ASSUME NEW ws, Applied(ws), NEW v \in ws
    PROVE  /\ Edges(ws, v) \subseteq Direct(ws)[v.at]
           /\ Edges(ws \ {v}, v) = Edges(ws, v)
           /\ \A b \in Direct(ws)[v.at] :
                 \E p \in Edges(ws, v) : b = p \/ b \in Reach(ws)[p]
<1> DEFINE S == Stamps(ws)
           at == v.at
           mine == {s \in S : s.dev = at.dev /\ Below(s, at)}
           prev == PreviousOfDevice(ws, at)
<1>0. VersionsOK(ws) /\ S \subseteq OptStamp /\ NoStamp \notin S /\ at \in S
  BY StampsAre DEF Applied
<1>1. IsGreatest(prev, mine)
  <2>1. mine \in SUBSET S
    OBVIOUS
  <2>2. mine \subseteq OptStamp /\ IsFiniteSet(mine)
    BY <2>1, AppliedStamps
  <2>3. prev = Greatest(mine)
    BY DEF PreviousOfDevice
  <2> QED
    BY <2>2, <2>3, GreatestIs
<1>2. Edges(ws, v) = {p \in v.parents \cap S : Below(p, at)} \cup ({prev} \ {NoStamp})
  BY DEF Edges
<1>3. Direct(ws)[at] = {b \in S : Below(b, at) /\ (at.dev = b.dev \/ b \in v.parents)}
  <2>1. Direct(ws)[at] = {b \in S : /\ Below(b, at)
                                    /\ \/ at.dev = b.dev
                                       \/ \E w \in ws : w.at = at /\ b \in w.parents}
    BY <1>0, ReachIs
  <2>2. \A w \in ws : w.at = at => w = v
    BY <1>0 DEF VersionsOK
  <2> QED
    BY <2>1, <2>2
<1>4. prev # NoStamp => prev \in mine
  BY <1>1 DEF IsGreatest
<1>5. Edges(ws, v) \subseteq Direct(ws)[at]
  <2> HIDE DEF prev
  <2> QED
    BY <1>2, <1>3, <1>4
<1>6. Edges(ws \ {v}, v) = Edges(ws, v)
  <2>1. ~Below(at, at)
    BY <1>0, StampFacts
  <2>2. \A x : x \in Stamps(ws \ {v}) <=> x \in S /\ x # at
    BY <1>0 DEF Stamps, VersionsOK
  <2>3. {s \in Stamps(ws \ {v}) : s.dev = at.dev /\ Below(s, at)} = mine
    BY <2>1, <2>2
  <2>4. PreviousOfDevice(ws \ {v}, at) = prev
    BY <2>3 DEF PreviousOfDevice
  <2>5. {p \in v.parents \cap Stamps(ws \ {v}) : Below(p, at)} = {p \in v.parents \cap S : Below(p, at)}
    BY <2>1, <2>2
  <2> QED
    BY <1>2, <2>4, <2>5 DEF Edges
<1>7. ASSUME NEW b \in Direct(ws)[at]
      PROVE  \E p \in Edges(ws, v) : b = p \/ b \in Reach(ws)[p]
  <2>1. CASE b \in v.parents
    BY <1>2, <1>3, <2>1
  <2>2. CASE at.dev = b.dev
    <3>1. b \in mine
      BY <1>3, <2>2
    <3>2. prev \in mine /\ AtMost(b, prev) /\ prev # NoStamp
      BY <1>0, <1>1, <3>1 DEF IsGreatest
    <3>3. prev \in Edges(ws, v)
      BY <1>2, <3>2
    <3>4. b = prev \/ b \in Reach(ws)[prev]
      BY <1>0, <3>1, <3>2, ReachFacts DEF AtMost
    <3> QED
      BY <3>3, <3>4
  <2> QED
    BY <1>3, <2>1, <2>2
<1> QED
  BY <1>5, <1>6, <1>7

\* The frontier computed along exact edges is exact.
LEMMA FrontierOfExact ==
    ASSUME NEW ws, Applied(ws), NEW v \in ws, NEW F,
           \A p \in Edges(ws, v) : RowExact(ws, p, F[p])
    PROVE  RowExact(ws, v.at, FrontierOf(F, ws, v))
<1> DEFINE S == Stamps(ws)
           at == v.at
           f == FrontierOf(F, ws, v)
           self == SelfOnly(at)
           D == Edges(ws, v)
<1>0. VersionsOK(ws) /\ S \subseteq OptStamp /\ NoStamp \notin S /\ at \in S /\ NoStamp \in OptStamp
  BY StampsAre, StampIsOpt DEF Applied
<1>1. D \subseteq Direct(ws)[at] /\ \A p \in D : p \in S /\ p \in Reach(ws)[at]
  BY <1>0, EdgesAre, ReachFacts
<1>2. \A u \in Reach(ws)[at] : \E p \in D : u = p \/ u \in Reach(ws)[p]
  <2> SUFFICES ASSUME NEW u \in Reach(ws)[at]
               PROVE  \E p \in D : u = p \/ u \in Reach(ws)[p]
    OBVIOUS
  <2>1. PICK b \in Direct(ws)[at] : u = b \/ u \in Reach(ws)[b]
    BY <1>0, ReachFacts
  <2>2. PICK p \in D : b = p \/ b \in Reach(ws)[p]
    BY EdgesAre
  <2>3. p \in S
    BY <1>1
  <2>4. u = p \/ u \in Reach(ws)[p]
    BY <1>0, <2>1, <2>2, <2>3, ReachFacts
  <2> QED
    BY <2>2, <2>4
<1>3. ASSUME NEW d \in Device
      PROVE  f[d] \in OptStamp /\ IsGreatest(f[d], Upto(ws, at, d))
  <2> DEFINE T == {self[d]} \cup {F[p][d] : p \in D}
             U == Upto(ws, at, d)
  <2>1. f[d] = Greatest(T)
    <3>1. f[d] = Greatest({self[d]} \cup {g[d] : g \in {F[p] : p \in D}})
      BY DEF FrontierOf, JoinAll
    <3>2. {g[d] : g \in {F[p] : p \in D}} = {F[p][d] : p \in D}
      OBVIOUS
    <3> QED
      BY <3>1, <3>2
  <2>2. self[d] = IF d = at.dev THEN at ELSE NoStamp
    BY DEF SelfOnly
  <2>3. U \subseteq S /\ (at.dev = d => at \in U)
    BY <1>0, UptoFacts
  <2>4. ASSUME NEW p \in D PROVE F[p][d] = NoStamp \/ F[p][d] \in U
    <3>1. IsGreatest(F[p][d], Upto(ws, p, d))
      BY DEF RowExact
    <3>2. Upto(ws, p, d) \subseteq U
      BY <1>0, <1>1, UptoFacts
    <3> QED
      BY <3>1, <3>2 DEF IsGreatest
  <2>5. \A t \in T : t = NoStamp \/ t \in U
    BY <2>2, <2>3, <2>4
  <2>6. T \subseteq OptStamp /\ IsFiniteSet(T) /\ T # {}
    <3>1. T \subseteq S \cup {NoStamp}
      BY <2>3, <2>5
    <3>2. IsFiniteSet(S \cup {NoStamp})
      BY AppliedStamps, FS_AddElement
    <3>3. IsFiniteSet(T)
      BY <3>1, <3>2, FS_Subset
    <3> QED
      BY <1>0, <3>1, <3>3
  <2>7. f[d] \in T /\ \A t \in T : AtMost(t, f[d])
    BY <2>1, <2>6, GreatestIs DEF IsGreatest
  <2>8. ASSUME NEW u \in U PROVE \E t \in T : AtMost(u, t)
    <3>1. u.dev = d /\ (u = at \/ u \in Reach(ws)[at])
      BY DEF Upto
    <3>2. CASE u = at
      BY <2>2, <3>1, <3>2 DEF AtMost
    <3>3. CASE u \in Reach(ws)[at]
      <4>1. PICK p \in D : u = p \/ u \in Reach(ws)[p]
        BY <1>2, <3>3
      <4>2. u \in Upto(ws, p, d)
        BY <3>1, <4>1 DEF Upto
      <4>3. AtMost(u, F[p][d])
        BY <4>2 DEF RowExact, IsGreatest
      <4> QED
        BY <4>3
    <3> QED
      BY <3>1, <3>2, <3>3
  <2> HIDE DEF T, U, f
  <2>9. f[d] \in OptStamp
    BY <2>6, <2>7
  <2>10. \A u \in U : AtMost(u, f[d])
    <3> SUFFICES ASSUME NEW u \in U PROVE AtMost(u, f[d])
      OBVIOUS
    <3>1. PICK t \in T : AtMost(u, t)
      BY <2>8
    <3> QED
      BY <1>0, <2>3, <2>6, <2>7, <3>1, AtMostFacts
  <2>11. CASE f[d] = NoStamp
    <3>1. \A u \in U : FALSE
      BY <1>0, <2>3, <2>10, <2>11, AtMostFacts
    <3> QED
      BY <2>9, <2>11, <3>1 DEF IsGreatest, U
  <2>12. CASE f[d] # NoStamp
    BY <2>5, <2>7, <2>9, <2>10, <2>12 DEF IsGreatest, U
  <2> QED
    BY <2>11, <2>12
<1>4. f = [d \in Device |-> f[d]]
  BY DEF FrontierOf, JoinAll
<1> HIDE DEF f
<1>5. RowExact(ws, at, f)
  BY <1>3, <1>4 DEF RowExact
<1> QED
  BY <1>5 DEF f

\* A version has one exact frontier.
LEMMA RowUnique ==
    ASSUME NEW vs, VersionsOK(vs), NEW b \in Stamps(vs), NEW f, NEW g,
           RowExact(vs, b, f), RowExact(vs, b, g)
    PROVE  f = g
<1>1. \A d \in Device : f[d] = g[d]
  <2> SUFFICES ASSUME NEW d \in Device PROVE f[d] = g[d]
    OBVIOUS
  <2>1. Upto(vs, b, d) \subseteq Stamp
    BY UptoFacts, StampsAre
  <2> QED
    BY <2>1, GreatestUnique DEF RowExact
<1> QED
  BY <1>1 DEF RowExact

\* Versions have one table of exact frontiers.
LEMMA FrontierUnique ==
    ASSUME NEW vs, VersionsOK(vs), NEW F, NEW G, FrontierExact(vs, F), FrontierExact(vs, G)
    PROVE  F = G
<1>1. \A b \in Stamps(vs) : F[b] = G[b]
  BY RowUnique DEF FrontierExact
<1> QED
  BY <1>1 DEF FrontierExact

\* The versions nothing descends from.
HeadsOf(vs) == {a \in Stamps(vs) : \A b \in Stamps(vs) : a \notin Reach(vs)[b]}

\* What an admission must return for the versions ws.
AdmitExact(ws, a) == FrontierExact(ws, a.frontier) /\ a.heads = HeadsOf(ws)

\* A version admitted has a stamp of its own, and takes no edge away.
LEMMA AddVersion ==
    ASSUME NEW vs, NEW v, Applied(vs \cup {v}), v \notin vs
    PROVE  /\ Applied(vs) /\ VersionsOK(vs) /\ VersionsOK(vs \cup {v})
           /\ Stamps(vs \cup {v}) = Stamps(vs) \cup {v.at}
           /\ v.at \notin Stamps(vs)
           /\ v.at \in Stamps(vs \cup {v})
           /\ \A a \in Stamps(vs) : a \in Stamps(vs \cup {v})
           /\ \A a \in Stamps(vs) : Reach(vs)[a] \subseteq Reach(vs \cup {v})[a]
<1>1. VersionsOK(vs) /\ VersionsOK(vs \cup {v}) /\ Applied(vs)
  <2>1. VersionsOK(vs)
    BY DEF Applied, VersionsOK
  <2>2. IsFiniteSet(vs)
    BY FS_Subset DEF Applied
  <2> QED
    BY <2>1, <2>2 DEF Applied
<1>2. Stamps(vs \cup {v}) = Stamps(vs) \cup {v.at}
  BY DEF Stamps
<1>3. v.at \notin Stamps(vs)
  BY <1>1 DEF Stamps, VersionsOK
<1> QED
  BY <1>1, <1>2, <1>3, ReachGrows

\* An admission on time stores the frontier and heads of the versions it leaves.
LEMMA OnTimeExact ==
    ASSUME NEW vs, NEW v, Applied(vs \cup {v}), v \notin vs, ~ArrivedLate(vs, v),
           NEW F, FrontierExact(vs, F), NEW heads, heads = HeadsOf(vs)
    PROVE  /\ AdmitExact(vs \cup {v}, AdmitOnTime(vs, F, heads, v))
           /\ ~AdmitOnTime(vs, F, heads, v).refined
<1> DEFINE ws == vs \cup {v}
           f == FrontierOf(F, vs, v)
           G == WithRow(F, v.at, f)
           hs == {h \in heads : ~ReachedBy(h, f)} \cup {v.at}
<1>0. /\ Applied(vs) /\ VersionsOK(vs) /\ VersionsOK(ws) /\ Applied(ws)
      /\ Stamps(ws) = Stamps(vs) \cup {v.at} /\ v.at \notin Stamps(vs) /\ v.at \in Stamps(ws)
  BY AddVersion
<1>1. \A a \in Stamps(vs) : Reach(ws)[a] = Reach(vs)[a]
  BY <1>0, OnTimeReach
<1>2. \A b \in Stamps(vs) : RowExact(ws, b, F[b])
  BY <1>1 DEF FrontierExact, RowExact, Upto
<1>3. ws \ {v} = vs /\ v \in ws
  OBVIOUS
<1>4. f = FrontierOf(F, ws, v)
  <2>1. Edges(vs, v) = Edges(ws, v)
    BY <1>0, <1>3, EdgesAre
  <2> QED
    BY <2>1 DEF FrontierOf
<1>5. RowExact(ws, v.at, f)
  <2>1. \A p \in Edges(ws, v) : p \in Stamps(ws) /\ p # v.at
    <3>1. Edges(ws, v) \subseteq Direct(ws)[v.at]
      BY <1>0, <1>3, EdgesAre
    <3> QED
      BY <1>0, <3>1, ReachFacts
  <2>2. \A p \in Edges(ws, v) : RowExact(ws, p, F[p])
    BY <1>0, <1>2, <2>1
  <2> HIDE DEF ws
  <2>3. RowExact(ws, v.at, FrontierOf(F, ws, v))
    BY <1>0, <1>3, <2>2, FrontierOfExact
  <2> QED
    BY <1>4, <2>3
<1> HIDE DEF f, ws
<1>6. FrontierExact(ws, G)
  <2>1. DOMAIN F = Stamps(vs)
    BY DEF FrontierExact
  <2>2. G = [a \in Stamps(ws) |-> IF a = v.at THEN f ELSE F[a]]
    BY <1>0, <2>1 DEF WithRow
  <2> HIDE DEF G
  <2>3. G[v.at] = f /\ \A a \in Stamps(vs) : G[a] = F[a]
    BY <1>0, <2>2
  <2>4. DOMAIN G = Stamps(ws) /\ G = [a \in Stamps(ws) |-> G[a]]
    BY <2>2
  <2>5. \A b \in Stamps(ws) : RowExact(ws, b, G[b])
    BY <1>0, <1>2, <1>5, <2>3
  <2> QED
    BY <2>4, <2>5 DEF FrontierExact
<1>7. hs = HeadsOf(ws)
  <2>1. \A a \in Stamps(vs) : ReachedBy(a, f) <=> a \in Reach(ws)[v.at]
    BY <1>0, <1>5, RowOrder
  <2>2. v.at \in HeadsOf(ws)
    BY <1>0, <1>1, ReachFacts DEF HeadsOf
  <2>3. \A a \in Stamps(vs) : a \in HeadsOf(ws) <=> a \in heads /\ ~ReachedBy(a, f)
    BY <1>0, <1>1, <2>1 DEF HeadsOf
  <2>4. HeadsOf(ws) \subseteq Stamps(ws) /\ heads \subseteq Stamps(vs)
    BY DEF HeadsOf
  <2> QED
    BY <1>0, <2>2, <2>3, <2>4
<1>8. AdmitOnTime(vs, F, heads, v) = [frontier |-> G, heads |-> hs, refined |-> FALSE]
  BY DEF AdmitOnTime, f
<1> HIDE DEF G, hs
<1> QED
  BY <1>6, <1>7, <1>8 DEF AdmitExact, ws

\* Every finite set of versions has exact frontiers.
LEMMA ExactExists ==
    ASSUME NEW ws, Applied(ws)
    PROVE  FrontierExact(ws, [b \in Stamps(ws) |-> [d \in Device |-> Greatest(Upto(ws, b, d))]])
<1> DEFINE E == [b \in Stamps(ws) |-> [d \in Device |-> Greatest(Upto(ws, b, d))]]
<1>1. ASSUME NEW b \in Stamps(ws) PROVE RowExact(ws, b, E[b])
  <2>1. E[b] = [d \in Device |-> Greatest(Upto(ws, b, d))]
    OBVIOUS
  <2>2. ASSUME NEW d \in Device
        PROVE  /\ Greatest(Upto(ws, b, d)) \in OptStamp
               /\ IsGreatest(Greatest(Upto(ws, b, d)), Upto(ws, b, d))
    <3>1. Upto(ws, b, d) \in SUBSET Stamps(ws)
      BY AppliedStamps, UptoFacts
    <3>2. Upto(ws, b, d) \subseteq OptStamp /\ IsFiniteSet(Upto(ws, b, d))
      BY <3>1, AppliedStamps
    <3>3. IsGreatest(Greatest(Upto(ws, b, d)), Upto(ws, b, d))
      BY <3>2, GreatestIs
    <3> QED
      BY <3>2, <3>3, StampIsOpt DEF IsGreatest
  <2> QED
    BY <2>1, <2>2 DEF RowExact
<1>2. DOMAIN E = Stamps(ws) /\ E = [b \in Stamps(ws) |-> E[b]]
  OBVIOUS
<1> HIDE DEF E
<1>3. FrontierExact(ws, E)
  BY <1>1, <1>2 DEF FrontierExact
<1> QED
  BY <1>3 DEF E

\* A frontier stored for fewer versions adds nothing to the exact one.
LEMMA JoinExact ==
    ASSUME NEW ws, VersionsOK(ws), NEW b \in Stamps(ws), NEW e, RowExact(ws, b, e),
           NEW f, \A d \in Device : f[d] = NoStamp \/ f[d] \in Upto(ws, b, d)
    PROVE  Join(f, e) = e
<1>1. ASSUME NEW d \in Device PROVE Later(f[d], e[d]) = e[d]
  <2>1. e[d] \in OptStamp /\ IsGreatest(e[d], Upto(ws, b, d)) /\ Upto(ws, b, d) \subseteq OptStamp
    BY UptoFacts, StampsAre DEF RowExact
  <2>2. CASE f[d] = NoStamp
    BY <2>1, <2>2, StampFacts, StampIsOpt DEF Later
  <2>3. CASE f[d] \in Upto(ws, b, d)
    <3>1. AtMost(f[d], e[d])
      BY <2>1, <2>3 DEF IsGreatest
    <3> QED
      BY <3>1 DEF Later, AtMost
  <2> QED
    BY <2>2, <2>3
<1>2. e = [d \in Device |-> e[d]]
  BY DEF RowExact
<1> QED
  BY <1>1, <1>2 DEF Join

\* recompute leaves the exact frontiers: they satisfy its recursion, and at the
\* least stamp where it left others it would have read exact ones.
LEMMA RecomputeExact ==
    ASSUME NEW vs, NEW v, Applied(vs \cup {v}), v \notin vs,
           NEW F, FrontierExact(vs, F)
    PROVE  FrontierExact(vs \cup {v}, Recompute(vs \cup {v}, F))
<1> DEFINE ws == vs \cup {v}
           S == Stamps(ws)
           base(a) == IF a \in DOMAIN F THEN F[a] ELSE SelfOnly(a)
           E == [b \in S |-> [d \in Device |-> Greatest(Upto(ws, b, d))]]
           G == Recompute(ws, F)
<1>0. /\ VersionsOK(ws) /\ Applied(ws) /\ VersionsOK(vs)
      /\ S = Stamps(vs) \cup {v.at} /\ v.at \notin Stamps(vs)
      /\ \A a \in Stamps(vs) : Reach(vs)[a] \subseteq Reach(ws)[a]
  BY AddVersion
<1>1. FrontierExact(ws, E)
  BY <1>0, ExactExists
<1> HIDE DEF ws, E
<1>2. \A a \in S : VersionAt(ws, a) \in ws /\ VersionAt(ws, a).at = a
  BY <1>0, StampsAre
<1>3. \A a \in S : \A p \in Edges(ws, VersionAt(ws, a)) : p \in S /\ Below(p, a)
  <2> SUFFICES ASSUME NEW a \in S, NEW p \in Edges(ws, VersionAt(ws, a))
               PROVE  p \in S /\ Below(p, a)
    OBVIOUS
  <2>1. p \in Direct(ws)[a]
    BY <1>0, <1>2, EdgesAre
  <2> QED
    BY <1>0, <2>1, ReachFacts
<1>4. \A a \in S : \A d \in Device : base(a)[d] = NoStamp \/ base(a)[d] \in Upto(ws, a, d)
  <2> SUFFICES ASSUME NEW a \in S, NEW d \in Device
               PROVE  base(a)[d] = NoStamp \/ base(a)[d] \in Upto(ws, a, d)
    OBVIOUS
  <2>1. CASE a \in Stamps(vs)
    <3>1. base(a) = F[a] /\ IsGreatest(F[a][d], Upto(vs, a, d))
      BY <2>1 DEF FrontierExact, RowExact
    <3>2. Upto(vs, a, d) \subseteq Upto(ws, a, d)
      BY <1>0, <2>1 DEF Upto
    <3> QED
      BY <3>1, <3>2 DEF IsGreatest
  <2>2. CASE a \notin Stamps(vs)
    <3>1. base(a) = SelfOnly(a)
      BY <2>2 DEF FrontierExact
    <3>2. base(a)[d] = IF d = a.dev THEN a ELSE NoStamp
      BY <3>1 DEF SelfOnly
    <3> QED
      BY <3>2 DEF Upto
  <2> QED
    BY <2>1, <2>2
<1>5. ASSUME NEW a \in S
      PROVE  Join(base(a), FrontierOf(E, ws, VersionAt(ws, a))) = E[a]
  <2>1. \A p \in Edges(ws, VersionAt(ws, a)) : RowExact(ws, p, E[p])
    BY <1>1, <1>3 DEF FrontierExact
  <2>2. RowExact(ws, a, FrontierOf(E, ws, VersionAt(ws, a)))
    BY <1>0, <1>2, <2>1, FrontierOfExact
  <2>3. FrontierOf(E, ws, VersionAt(ws, a)) = E[a]
    BY <1>0, <1>1, <2>2, RowUnique DEF FrontierExact
  <2> HIDE DEF base
  <2>4. Join(base(a), E[a]) = E[a]
    BY <1>0, <1>1, <1>4, JoinExact DEF FrontierExact
  <2> QED
    BY <2>3, <2>4
<1> HIDE DEF S
<1>6. E = [a \in S |-> Join(base(a), FrontierOf(E, ws, VersionAt(ws, a)))]
  <2>1. E = [a \in S |-> E[a]]
    BY <1>1 DEF FrontierExact, S
  <2> HIDE DEF base
  <2> QED
    BY <1>5, <2>1
<1>7. G = [a \in S |-> Join(base(a), FrontierOf(G, ws, VersionAt(ws, a)))]
  <2>1. \E g : g = [a \in S |-> Join(base(a), FrontierOf(g, ws, VersionAt(ws, a)))]
    BY <1>6, Zenon
  <2>2. G = CHOOSE g : g = [a \in S |-> Join(base(a), FrontierOf(g, ws, VersionAt(ws, a)))]
    BY Zenon DEF Recompute, S
  <2> HIDE DEF G, base
  <2> QED
    BY <2>1, <2>2, Zenon
<1> HIDE DEF G, base
<1>8. \A a \in S : G[a] = Join(base(a), FrontierOf(G, ws, VersionAt(ws, a)))
  BY <1>7
<1>9. \A a \in S : G[a] = E[a]
  <2> DEFINE T == {a \in S : G[a] # E[a]}
  <2>0. S \subseteq Stamp /\ S \subseteq OptStamp
    BY <1>0, StampsAre DEF S
  <2>1. SUFFICES ASSUME T # {} PROVE FALSE
    BY <2>1
  <2>2. PICK a \in T : \A c \in T : AtMost(a, c)
    BY <2>0, <2>1, LeastStamp
  <2>3. \A p \in Edges(ws, VersionAt(ws, a)) : G[p] = E[p]
    <3> SUFFICES ASSUME NEW p \in Edges(ws, VersionAt(ws, a)) PROVE p \notin T
      BY <1>3, <2>2
    <3>1. p \in S /\ Below(p, a)
      BY <1>3, <2>2
    <3> QED
      BY <2>0, <2>2, <3>1, AtMostFacts
  <2>4. {G[p] : p \in Edges(ws, VersionAt(ws, a))} = {E[p] : p \in Edges(ws, VersionAt(ws, a))}
    BY <2>3
  <2>5. FrontierOf(G, ws, VersionAt(ws, a)) = FrontierOf(E, ws, VersionAt(ws, a))
    BY <2>4 DEF FrontierOf
  <2> QED
    BY <1>5, <1>8, <2>2, <2>5
<1>10. G = E
  <2>1. E = [a \in S |-> E[a]] /\ G = [a \in S |-> G[a]]
    <3>1. E = [a \in S |-> E[a]]
      BY <1>1 DEF FrontierExact, S
    <3>2. G = [a \in S |-> G[a]]
      BY <1>7
    <3> QED
      BY <3>1, <3>2
  <2> QED
    BY <1>9, <2>1
<1> QED
  BY <1>1, <1>10 DEF G, ws

\* Each device's latest version that no other device's latest reaches.
LEMMA RecomputedHeadsExact ==
    ASSUME NEW ws, Applied(ws), NEW G, FrontierExact(ws, G)
    PROVE  RecomputedHeads(ws, G) = HeadsOf(ws)
<1> DEFINE S == Stamps(ws)
           R == Reach(ws)
           latest == {s \in S : ~\E t \in S : t.dev = s.dev /\ Below(s, t)}
<1>0. VersionsOK(ws) /\ S \subseteq OptStamp
  BY StampsAre DEF Applied
<1>1. RecomputedHeads(ws, G) = {c \in latest : ~\E d \in latest : d # c /\ ReachedBy(c, G[d])}
  BY DEF RecomputedHeads
<1>2. \A c, d \in S : d # c /\ ReachedBy(c, G[d]) <=> c \in R[d]
  <2>1. \A c, d \in S : Precedes(G, c, d) <=> c \in R[d]
    BY <1>0, OrderOfFrontiers
  <2> QED
    BY <2>1 DEF Precedes
<1>3. ASSUME NEW a \in HeadsOf(ws) PROVE a \in RecomputedHeads(ws, G)
  <2>1. a \in S /\ \A b \in S : a \notin R[b]
    BY DEF HeadsOf
  <2>2. a \in latest
    BY <1>0, <2>1, ReachFacts
  <2> QED
    BY <1>1, <1>2, <2>1, <2>2
<1>4. ASSUME NEW c \in RecomputedHeads(ws, G), NEW b \in S, c \in R[b] PROVE FALSE
  <2> DEFINE B == {t \in S : t.dev = b.dev}
  <2>1. B \in SUBSET S /\ B # {}
    OBVIOUS
  <2>2. PICK t \in B : \A u \in B : AtMost(u, t)
    <3>1. B \subseteq OptStamp /\ IsFiniteSet(B)
      BY <2>1, AppliedStamps
    <3> QED
      BY <2>1, <3>1, GreatestStamp
  <2>3. t \in latest
    BY <1>0, <2>2, AtMostFacts
  <2>4. b = t \/ b \in R[t]
    BY <1>0, <2>2, ReachFacts DEF AtMost
  <2>5. c \in R[t]
    BY <1>0, <1>4, <2>2, <2>4, ReachFacts
  <2>6. c \in S
    BY <1>1, <1>4
  <2> QED
    BY <1>1, <1>2, <1>4, <2>2, <2>3, <2>5, <2>6
<1>5. RecomputedHeads(ws, G) \subseteq S
  BY <1>1
<1> QED
  BY <1>3, <1>4, <1>5 DEF HeadsOf

\* admit_version, on time or late.
LEMMA AdmissionExact ==
    ASSUME NEW vs, NEW v, Applied(vs \cup {v}), v \notin vs,
           NEW F, FrontierExact(vs, F), NEW heads, heads = HeadsOf(vs)
    PROVE  /\ AdmitExact(vs \cup {v}, AdmitVersion(vs, F, heads, v))
           /\ ~AdmitVersion(vs, F, heads, v).refined =>
                 \A a \in Stamps(vs) : Reach(vs \cup {v})[a] = Reach(vs)[a]
<1>1. CASE ~ArrivedLate(vs, v)
  <2>1. AdmitVersion(vs, F, heads, v) = AdmitOnTime(vs, F, heads, v)
    BY <1>1 DEF AdmitVersion
  <2>2. AdmitExact(vs \cup {v}, AdmitOnTime(vs, F, heads, v))
    BY <1>1, OnTimeExact
  <2>3. \A a \in Stamps(vs) : Reach(vs \cup {v})[a] = Reach(vs)[a]
    BY <1>1, OnTimeReach DEF Applied
  <2> QED
    BY <2>1, <2>2, <2>3, Zenon
<1>2. CASE ArrivedLate(vs, v)
  <2> DEFINE ws == vs \cup {v}
             G == Recompute(ws, F)
             hs == RecomputedHeads(ws, G)
  <2>1. FrontierExact(ws, G)
    BY RecomputeExact
  <2>2. hs = HeadsOf(ws)
    BY <2>1, RecomputedHeadsExact
  <2>3. AdmitVersion(vs, F, heads, v) = [frontier |-> G, heads |-> hs, refined |-> TRUE]
    BY <1>2 DEF AdmitVersion, AdmitLate
  <2> HIDE DEF G, hs
  <2> QED
    BY <2>1, <2>2, <2>3 DEF AdmitExact
<1> QED
  BY <1>1, <1>2

-----------------------------------------------------------------------------
(* Registers. *)

\* The writes of C that no other write of C descends from.
Undominated(R, C) == {m \in C : \A n \in C : m.at \notin R[n.at]}

\* The writes of f at or above the floor.
Candidates(vs, f, floor) == {m \in Writes(vs, f) : ~Below(m.at, floor)}

\* The writes of one more version.
LEMMA WritesAre ==
    ASSUME NEW vs, NEW op, NEW f
    PROVE  /\ \A m \in Writes(vs, f) : m.at \in Stamps(vs)
           /\ f \in DOMAIN op.sets =>
                Writes(vs \cup {op}, f) =
                  Writes(vs, f) \cup {[at |-> op.at, val |-> op.sets[f], origin |-> op.origin]}
           /\ f \notin DOMAIN op.sets => Writes(vs \cup {op}, f) = Writes(vs, f)
<1>1. ASSUME NEW m \in Writes(vs, f) PROVE m.at \in Stamps(vs)
  <2>1. PICK v \in vs : m = [at |-> v.at, val |-> v.sets[f], origin |-> v.origin]
    BY DEF Writes
  <2>2. m.at = v.at
    BY <2>1
  <2> QED
    BY <2>2 DEF Stamps
<1> DEFINE W(v) == [at |-> v.at, val |-> v.sets[f], origin |-> v.origin]
           D(V) == {v \in V : f \in DOMAIN v.sets}
<1>2. f \in DOMAIN op.sets => D(vs \cup {op}) = D(vs) \cup {op}
  OBVIOUS
<1>3. f \notin DOMAIN op.sets => D(vs \cup {op}) = D(vs)
  OBVIOUS
<1>4. \A V : Writes(V, f) = {W(v) : v \in D(V)}
  BY DEF Writes
<1> HIDE DEF W, D
<1>5. f \in DOMAIN op.sets => Writes(vs \cup {op}, f) = Writes(vs, f) \cup {W(op)}
  BY <1>2, <1>4
<1>6. f \notin DOMAIN op.sets => Writes(vs \cup {op}, f) = Writes(vs, f)
  BY <1>3, <1>4
<1> QED
  BY <1>1, <1>5, <1>6 DEF W

\* What some write of C descends from, an undominated one does.
LEMMA Dominating ==
    ASSUME NEW ws, Applied(ws), NEW C, \A m \in C : m.at \in Stamps(ws),
           NEW x, NEW n0 \in C, x \in Reach(ws)[n0.at]
    PROVE  \E n \in Undominated(Reach(ws), C) : x \in Reach(ws)[n.at]
<1> DEFINE R == Reach(ws)
           A == {n \in C : x \in R[n.at]}
           B == {n.at : n \in A}
<1>0. VersionsOK(ws) /\ Stamps(ws) \subseteq OptStamp
  BY StampsAre DEF Applied
<1>1. \A a \in Stamps(ws) : \A b \in R[a] : b \in Stamps(ws) /\ Below(b, a) /\ R[b] \subseteq R[a]
  BY <1>0, ReachFacts
<1> HIDE DEF R
<1>2. B \in SUBSET Stamps(ws) /\ B # {}
  BY DEF R
<1>3. PICK t \in B : \A u \in B : AtMost(u, t)
  <2> HIDE DEF B
  <2>1. B \subseteq OptStamp /\ IsFiniteSet(B)
    BY <1>2, AppliedStamps
  <2> QED
    BY <1>2, <2>1, GreatestStamp
<1>4. PICK n \in A : n.at = t
  BY <1>3
<1>5. ASSUME NEW k \in C, n.at \in R[k.at] PROVE FALSE
  <2>1. x \in R[k.at] /\ Below(n.at, k.at)
    BY <1>1, <1>4, <1>5
  <2>2. AtMost(k.at, n.at)
    BY <1>3, <1>4, <2>1
  <2> QED
    BY <1>0, <1>4, <2>1, <2>2, AtMostFacts
<1> QED
  BY <1>4, <1>5 DEF Undominated, R

\* Registers::refilter over a finer order.
LEMMA RefilterExact ==
    ASSUME NEW ws, Applied(ws), NEW G, FrontierExact(ws, G),
           NEW C, \A m \in C : m.at \in Stamps(ws),
           NEW R, \A m \in C : R[m.at] \subseteq Reach(ws)[m.at]
    PROVE  Refilter(G, Undominated(R, C)) = Undominated(Reach(ws), C)
<1> DEFINE Q == Reach(ws)
           U == Undominated(R, C)
           V == Undominated(Q, C)
<1>1. V \subseteq U /\ U \subseteq C /\ V \subseteq C
  BY DEF Undominated
<1>2. \A m, n \in C : Precedes(G, m.at, n.at) <=> m.at \in Q[n.at]
  BY OrderOfFrontiers DEF Applied
<1>3. Refilter(G, U) = {m \in U : \A n \in U : m.at \notin Q[n.at]}
  BY <1>1, <1>2 DEF Refilter
<1>4. ASSUME NEW m \in U, \A n \in U : m.at \notin Q[n.at], NEW k \in C, m.at \in Q[k.at]
      PROVE  FALSE
  <2>1. PICK n \in V : m.at \in Q[n.at]
    BY <1>4, Dominating
  <2> QED
    BY <1>1, <1>4, <2>1
<1>5. ASSUME NEW m, m \in Refilter(G, U) PROVE m \in V
  BY <1>1, <1>3, <1>4, <1>5 DEF Undominated
<1>6. ASSUME NEW m, m \in V PROVE m \in Refilter(G, U)
  <2>1. \A n \in C : m.at \notin Q[n.at]
    BY <1>6 DEF Undominated
  <2> HIDE DEF Q, U, V
  <2> QED
    BY <1>1, <1>3, <1>6, <2>1
<1> QED
  BY <1>5, <1>6

\* Registers::raise_floor: what is dominated from above the floor stays so.
LEMMA RaiseFloorExact ==
    ASSUME NEW ws, VersionsOK(ws), NEW C, \A m \in C : m.at \in Stamps(ws),
           NEW floor \in OptStamp
    PROVE  RaiseFloor(Undominated(Reach(ws), C), floor) =
             Undominated(Reach(ws), {m \in C : ~Below(m.at, floor)})
<1> DEFINE R == Reach(ws)
           D == {m \in C : ~Below(m.at, floor)}
<1>1. \A m, n \in C : m.at \in R[n.at] => Below(m.at, n.at)
  BY ReachFacts
<1>2. \A m \in C : m.at \in OptStamp
  BY StampsAre
<1>3. \A m \in D, n \in C : m.at \in R[n.at] => n \in D
  BY <1>1, <1>2, StampFacts
<1> HIDE DEF R
<1>4. \A m : m \in RaiseFloor(Undominated(R, C), floor) <=>
               m \in D /\ \A n \in C : m.at \notin R[n.at]
  BY DEF RaiseFloor, Undominated
<1>5. \A m : m \in Undominated(R, D) <=> m \in D /\ \A n \in D : m.at \notin R[n.at]
  BY DEF Undominated
<1>6. D \subseteq C
  OBVIOUS
<1> HIDE DEF D
<1>7. RaiseFloor(Undominated(R, C), floor) = Undominated(R, D)
  BY <1>3, <1>4, <1>5, <1>6
<1> QED
  BY <1>7 DEF R, D

\* Registers::offer of a write that is not below the floor.
LEMMA OfferExact ==
    ASSUME NEW ws, Applied(ws), NEW G, FrontierExact(ws, G),
           NEW C, \A m \in C : m.at \in Stamps(ws),
           NEW m, m.at \in Stamps(ws), \A n \in C : n.at # m.at,
           NEW floor, ~Below(m.at, floor)
    PROVE  Offer(G, floor, Undominated(Reach(ws), C), m) = Undominated(Reach(ws), C \cup {m})
<1> DEFINE R == Reach(ws)
           U == Undominated(R, C)
           D == C \cup {m}
           V == Undominated(R, D)
<1>0. VersionsOK(ws)
  BY DEF Applied
<1>1. \A p, q \in D : Precedes(G, p.at, q.at) <=> p.at \in R[q.at]
  BY <1>0, OrderOfFrontiers
<1>2. \A p, q, r \in D : p.at \in R[q.at] /\ q.at \in R[r.at] => p.at \in R[r.at]
  BY <1>0, ReachFacts
<1>3. \A p \in D : p.at \notin R[p.at]
  BY <1>0, ReachFacts
<1>4. U \subseteq C /\ \A p \in C : p \in U <=> \A q \in C : p.at \notin R[q.at]
  BY DEF Undominated
<1>5. V \subseteq D /\ \A p \in D : p \in V <=> \A q \in D : p.at \notin R[q.at]
  BY DEF Undominated
<1>6. (\E k \in C : m.at \in R[k.at]) => \E n \in U : m.at \in R[n.at]
  BY Dominating
<1> HIDE DEF R, U, V
<1>7. CASE \E n \in U : m.at \in R[n.at]
  <2>1. Offer(G, floor, U, m) = U
    BY <1>1, <1>4, <1>7 DEF Offer
  <2>2. m \notin V
    BY <1>4, <1>5, <1>7
  <2>3. \A p \in C : p \in U => p.at \notin R[m.at]
    BY <1>2, <1>4, <1>7
  <2>4. \A p : p \in U <=> p \in V
    BY <1>4, <1>5, <2>2, <2>3
  <2> QED
    BY <2>1, <2>4 DEF R, U, V
<1>8. CASE ~\E n \in U : m.at \in R[n.at]
  <2>1. Offer(G, floor, U, m) = {n \in U : ~Precedes(G, n.at, m.at)} \cup {m}
    <3>1. ~\E n \in U : n.at = m.at \/ Precedes(G, m.at, n.at)
      BY <1>1, <1>4, <1>8
    <3> QED
      BY <3>1 DEF Offer
  <2>2. m \in V
    BY <1>3, <1>5, <1>6, <1>8
  <2>3. \A p \in C : p \in V <=> p \in U /\ ~Precedes(G, p.at, m.at)
    BY <1>1, <1>4, <1>5
  <2>4. \A p : p \in {n \in U : ~Precedes(G, n.at, m.at)} \cup {m} <=> p \in V
    BY <1>4, <1>5, <2>2, <2>3
  <2> QED
    BY <2>1, <2>4 DEF R, U, V
<1> QED
  BY <1>7, <1>8

\* ms is what the register f is to keep of the versions vs.
RegisterExact(vs, f, floor, ms) == ms = Undominated(Reach(vs), Candidates(vs, f, floor))

\* The fold of a register: filtered again, pruned by the floor, offered the write.
LEMMA FoldedRegisterExact ==
    ASSUME NEW s, NEW op, Applied(s.versions \cup {op}), op \notin s.versions,
           FieldsFollow(s), NEW f, RegisterExact(s.versions, f, s.legacy, s.members[f]),
           NEW a, AdmitExact(s.versions \cup {op}, a),
           ~a.refined => \A b \in Stamps(s.versions) :
                            Reach(s.versions \cup {op})[b] = Reach(s.versions)[b]
    PROVE  RegisterExact(s.versions \cup {op}, f, FoldedFloor(s, op), FoldedRegister(s, a, op, f))
<1> DEFINE vs == s.versions
           ws == vs \cup {op}
           R == Reach(vs)
           Q == Reach(ws)
           C == Candidates(vs, f, s.legacy)
           floor == FoldedFloor(s, op)
           D == {m \in C : ~Below(m.at, floor)}
           m0 == [at |-> op.at, val |-> op.sets[f], origin |-> op.origin]
           kept == IF a.refined THEN Refilter(a.frontier, s.members[f]) ELSE s.members[f]
           pruned == IF Raises(s, op) THEN RaiseFloor(kept, op.at) ELSE kept
<1>0. /\ VersionsOK(vs) /\ VersionsOK(ws) /\ Applied(ws) /\ Stamps(ws) = Stamps(vs) \cup {op.at}
      /\ op.at \notin Stamps(vs) /\ op.at \in Stamps(ws)
      /\ \A b \in Stamps(vs) : b \in Stamps(ws) /\ R[b] \subseteq Q[b]
  BY AddVersion
<1>1. Stamps(ws) \subseteq OptStamp /\ op.at \in OptStamp
  BY <1>0, StampsAre
<1>2. /\ floor \in OptStamp /\ s.legacy \in OptStamp /\ AtMost(s.legacy, floor)
      /\ floor = op.at <=> Raises(s, op)
      /\ ~Raises(s, op) => floor = s.legacy
  BY <1>0, FloorFollows DEF FoldedFloor
<1>3. \A m \in C : m.at \in Stamps(vs) /\ m.at \in Stamps(ws) /\ m.at # op.at
  <2>1. \A m \in Writes(vs, f) : m.at \in Stamps(vs)
    BY WritesAre
  <2> HIDE DEF ws
  <2> QED
    BY <1>0, <2>1 DEF Candidates
<1>4. FrontierExact(ws, a.frontier)
  BY DEF AdmitExact
<1> HIDE DEF ws, floor
<1>5. kept = Undominated(Q, C)
  <2>1. CASE a.refined
    <3>1. Refilter(a.frontier, Undominated(R, C)) = Undominated(Q, C)
      BY <1>0, <1>3, <1>4, RefilterExact
    <3> QED
      BY <2>1, <3>1 DEF RegisterExact
  <2>2. CASE ~a.refined
    <3>1. \A m \in C : Q[m.at] = R[m.at]
      BY <1>3, <2>2 DEF ws
    <3>2. Undominated(R, C) = Undominated(Q, C)
      BY <3>1 DEF Undominated
    <3> QED
      BY <2>2, <3>2 DEF RegisterExact
  <2> QED
    BY <2>1, <2>2
<1>6. pruned = Undominated(Q, D)
  <2>1. CASE Raises(s, op)
    <3>1. RaiseFloor(Undominated(Q, C), floor) = Undominated(Q, D)
      BY <1>0, <1>2, <1>3, RaiseFloorExact
    <3> QED
      BY <1>2, <1>5, <2>1, <3>1
  <2>2. CASE ~Raises(s, op)
    <3>1. D = C
      BY <1>2, <2>2 DEF Candidates
    <3> QED
      BY <1>5, <2>2, <3>1
  <2> QED
    BY <2>1, <2>2
<1> HIDE DEF kept, pruned
<1>7. FoldedRegister(s, a, op, f) =
         IF f \in DOMAIN op.sets THEN Offer(a.frontier, floor, pruned, m0) ELSE pruned
  BY DEF FoldedRegister, kept, pruned, floor
<1>8. D = {m \in Writes(vs, f) : ~Below(m.at, floor)}
  <2>1. \A m \in Writes(vs, f) : m.at \in OptStamp
    BY <1>0, <1>1, WritesAre
  <2>2. \A m \in Writes(vs, f) : Below(m.at, s.legacy) => Below(m.at, floor)
    BY <1>2, <2>1, AtMostFacts
  <2> QED
    BY <2>2 DEF Candidates
<1>9. CASE f \notin DOMAIN op.sets
  <2>1. Writes(ws, f) = Writes(vs, f)
    BY <1>9, WritesAre DEF ws
  <2>2. Candidates(ws, f, floor) = D
    BY <1>8, <2>1 DEF Candidates
  <2> QED
    BY <1>6, <1>7, <1>9, <2>2 DEF RegisterExact, ws, floor
<1>10. CASE f \in DOMAIN op.sets
  <2>1. Writes(ws, f) = Writes(vs, f) \cup {m0}
    BY <1>10, WritesAre DEF ws
  <2>2. m0.at = op.at
    OBVIOUS
  <2> HIDE DEF m0
  <2>3. CASE Below(op.at, floor)
    <3>1. Candidates(ws, f, floor) = D
      BY <1>8, <2>1, <2>2, <2>3 DEF Candidates
    <3>2. Offer(a.frontier, floor, pruned, m0) = pruned
      BY <2>2, <2>3 DEF Offer
    <3> QED
      BY <1>6, <1>7, <1>10, <3>1, <3>2 DEF RegisterExact, ws, floor
  <2>4. CASE ~Below(op.at, floor)
    <3>1. Candidates(ws, f, floor) = D \cup {m0}
      BY <1>8, <2>1, <2>2, <2>4 DEF Candidates
    <3>2. Offer(a.frontier, floor, Undominated(Q, D), m0) = Undominated(Q, D \cup {m0})
      <4>1. \A m \in D : m.at \in Stamps(ws) /\ m.at # m0.at
        BY <1>3, <2>2
      <4>2. m0.at \in Stamps(ws) /\ ~Below(m0.at, floor)
        BY <1>0, <2>2, <2>4
      <4> HIDE DEF D
      <4> QED
        BY <1>0, <1>4, <4>1, <4>2, OfferExact
    <3> QED
      BY <1>6, <1>7, <1>10, <3>1, <3>2 DEF RegisterExact, ws, floor
  <2> QED
    BY <2>3, <2>4
<1> QED
  BY <1>9, <1>10

-----------------------------------------------------------------------------
(* The whole state. *)

\* The record MergeOp returns, row by row.
Shaped(s) ==
    s = [versions |-> s.versions, frontier |-> s.frontier, heads |-> s.heads,
         legacy |-> s.legacy, create |-> s.create, head |-> s.head,
         patched |-> s.patched, members |-> [f \in Field |-> s.members[f]],
         base |-> s.base, adds |-> s.adds, removes |-> s.removes,
         deltas |-> s.deltas,
         entries |-> [k \in Key |-> [at |-> s.entries[k].at, val |-> s.entries[k].val]]]

\* Every row is the one function of the versions applied.
StateExact(s) ==
    /\ Shaped(s)
    /\ FieldsFollow(s)
    /\ FrontierExact(s.versions, s.frontier)
    /\ s.heads = HeadsOf(s.versions)
    /\ \A f \in Field : RegisterExact(s.versions, f, s.legacy, s.members[f])

\* No versions, no rows.
LEMMA EmptyExact == StateExact(EmptyState) /\ EmptyState.versions = {}
<1> DEFINE s == EmptyState
<1>1. /\ s.versions = {} /\ s.frontier = <<>> /\ s.heads = {} /\ s.legacy = NoStamp
      /\ s.members = [f \in Field |-> {}]
      /\ s.entries = [k \in Key |-> [at |-> NoStamp, val |-> Absent]]
  BY DEF EmptyState
<1>2. Shaped(s)
  <2>1. [f \in Field |-> s.members[f]] = s.members
    BY <1>1
  <2>2. [k \in Key |-> [at |-> s.entries[k].at, val |-> s.entries[k].val]] = s.entries
    BY <1>1
  <2> QED
    BY <2>1, <2>2 DEF Shaped, EmptyState
<1>3. FieldsFollow(s)
  BY DEF EmptyState, FieldsFollow, Stamps, IsGreatest, IsLeast
<1>4. Stamps({}) = {}
  BY DEF Stamps
<1>5. FrontierExact({}, <<>>)
  <2>1. <<>> = [a \in {} |-> <<>>[a]] /\ DOMAIN <<>> = {}
    OBVIOUS
  <2> QED
    BY <1>4, <2>1 DEF FrontierExact
<1>6. HeadsOf({}) = {}
  BY <1>4 DEF HeadsOf
<1>7. \A f \in Field : RegisterExact({}, f, NoStamp, {})
  BY DEF RegisterExact, Undominated, Candidates, Writes
<1> HIDE DEF s
<1>8. StateExact(s)
  BY <1>1, <1>2, <1>3, <1>5, <1>6, <1>7 DEF StateExact
<1> QED
  BY <1>1, <1>8 DEF s

\* One fold takes the exact state of the versions to that of one more.
LEMMA MergeExact ==
    ASSUME NEW s, NEW op, Applied(s.versions \cup {op}), op \notin s.versions, StateExact(s)
    PROVE  StateExact(MergeOp(s, op)) /\ MergeOp(s, op).versions = s.versions \cup {op}
<1> DEFINE t == MergeOp(s, op)
           vs == s.versions
           ws == vs \cup {op}
           a == AdmitVersion(vs, s.frontier, s.heads, op)
<1>0. VersionsOK(ws) /\ FieldsFollow(s)
  BY DEF Applied, StateExact
<1>1. /\ AdmitExact(ws, a)
      /\ ~a.refined => \A b \in Stamps(vs) : Reach(ws)[b] = Reach(vs)[b]
  BY AdmissionExact DEF StateExact
<1> HIDE DEF a
<1>2. t = [versions |-> ws,
         frontier |-> a.frontier,
         heads    |-> a.heads,
         legacy   |-> FoldedFloor(s, op),
         create   |-> FoldedCreate(s, op),
         head     |-> Later(s.head, op.at),
         patched  |-> FoldedPatched(s, op),
         members  |-> [f \in Field |-> FoldedRegister(s, a, op, f)],
         base     |-> FoldedBase(s, op),
         adds     |-> FoldedAdds(s, op),
         removes  |-> s.removes \cup op.removes,
         deltas   |-> FoldedDeltas(s, op),
         entries  |-> [k \in Key |-> FoldedEntry(s, op, k)]]
  BY DEF MergeOp, a
<1>3. FieldsFollow(t)
  BY <1>0, MergeFollows
<1> HIDE DEF t, ws
<1>4. /\ t.versions = ws /\ t.frontier = a.frontier /\ t.heads = a.heads
      /\ t.legacy = FoldedFloor(s, op)
      /\ t.members = [f \in Field |-> FoldedRegister(s, a, op, f)]
      /\ t.entries = [k \in Key |-> FoldedEntry(s, op, k)]
  BY <1>2
<1>5. \A f \in Field : RegisterExact(ws, f, t.legacy, t.members[f])
  <2> SUFFICES ASSUME NEW f \in Field PROVE RegisterExact(ws, f, t.legacy, t.members[f])
    OBVIOUS
  <2>1. RegisterExact(vs, f, s.legacy, s.members[f])
    BY DEF StateExact
  <2>2. RegisterExact(ws, f, FoldedFloor(s, op), FoldedRegister(s, a, op, f))
    BY <1>0, <1>1, <2>1, FoldedRegisterExact DEF ws
  <2> QED
    BY <1>4, <2>2
<1>6. Shaped(t)
  <2>1. [f \in Field |-> t.members[f]] = t.members
    BY <1>4
  <2>2. \A k \in Key : s.entries[k] = [at |-> s.entries[k].at, val |-> s.entries[k].val]
    <3> DEFINE e == [k \in Key |-> [at |-> s.entries[k].at, val |-> s.entries[k].val]]
    <3>1. s.entries = e
      BY DEF StateExact, Shaped
    <3>2. \A k \in Key : e[k] = [at |-> s.entries[k].at, val |-> s.entries[k].val]
      OBVIOUS
    <3> HIDE DEF e
    <3> QED
      BY <3>1, <3>2
  <2>3. ASSUME NEW k \in Key
        PROVE  t.entries[k] = [at |-> t.entries[k].at, val |-> t.entries[k].val]
    <3>1. t.entries[k] = FoldedEntry(s, op, k)
      BY <1>4
    <3>2. CASE k \in DOMAIN op.puts /\ Below(s.entries[k].at, op.at)
      <4>1. t.entries[k] = [at |-> op.at, val |-> op.puts[k]]
        BY <3>1, <3>2 DEF FoldedEntry
      <4> QED
        BY <4>1
    <3>3. CASE ~(k \in DOMAIN op.puts /\ Below(s.entries[k].at, op.at))
      <4>1. t.entries[k] = s.entries[k]
        BY <3>1, <3>3 DEF FoldedEntry
      <4> QED
        BY <2>2, <4>1
    <3> QED
      BY <3>2, <3>3
  <2>4. [k \in Key |-> [at |-> t.entries[k].at, val |-> t.entries[k].val]] = t.entries
    <3>1. t.entries = [k \in Key |-> t.entries[k]]
      BY <1>4
    <3> QED
      BY <2>3, <3>1
  <2> QED
    BY <1>2, <2>1, <2>4 DEF Shaped
<1>7. StateExact(t)
  BY <1>1, <1>3, <1>4, <1>5, <1>6 DEF StateExact, AdmitExact
<1> QED
  BY <1>4, <1>7 DEF t, ws

\* Two exact states of the same versions are the same state.
LEMMA ExactUnique ==
    ASSUME NEW s, NEW t, StateExact(s), StateExact(t), s.versions = t.versions,
           VersionsOK(s.versions)
    PROVE  s = t
<1> DEFINE vs == s.versions
<1>0. /\ Stamps(vs) \subseteq Stamp /\ FieldsFollow(s) /\ FieldsFollow(t)
      /\ NoStamp \notin Stamps(vs)
  BY StampsAre DEF StateExact
<1>1. \A V \in SUBSET vs : Stamps(V) \subseteq Stamp
  BY <1>0 DEF Stamps
<1>2. s.frontier = t.frontier /\ s.heads = t.heads
  BY FrontierUnique DEF StateExact
<1>3. s.legacy = t.legacy
  <2> DEFINE S == Stamps({v \in vs : v.legacy})
  <2>1. S \subseteq Stamp /\ IsGreatest(s.legacy, S) /\ IsGreatest(t.legacy, S)
    BY <1>0, <1>1 DEF FieldsFollow
  <2> HIDE DEF S
  <2> QED
    BY <2>1, GreatestUnique
<1>4. s.create = t.create
  <2> DEFINE S == Stamps({v \in vs : v.create \/ v.legacy})
  <2>1. S \subseteq Stamp /\ IsLeast(s.create, S) /\ IsLeast(t.create, S)
    BY <1>0, <1>1 DEF FieldsFollow
  <2> HIDE DEF S
  <2> QED
    BY <2>1, LeastUnique
<1>5. s.head = t.head
  <2>1. IsGreatest(s.head, Stamps(vs)) /\ IsGreatest(t.head, Stamps(vs))
    BY <1>0 DEF FieldsFollow
  <2> QED
    BY <1>0, <2>1, GreatestUnique
<1>6. s.patched = t.patched
  <2>1. \A v \in vs : v.at.hlc \in Nat /\ v.at.hlc > 0
    <3>1. \A v \in vs : v.at.hlc \in 1..MaxHlc
      BY DEF VersionsOK, Stamp
    <3> QED
      BY <3>1, MaxHlcAssumption
  <2>2. /\ \A v \in vs : v.legacy \/ v.at.hlc <= s.patched
        /\ s.patched = 0 \/ \E v \in vs : ~v.legacy /\ v.at.hlc = s.patched
    BY <1>0 DEF FieldsFollow
  <2>3. /\ \A v \in vs : v.legacy \/ v.at.hlc <= t.patched
        /\ t.patched = 0 \/ \E v \in vs : ~v.legacy /\ v.at.hlc = t.patched
    BY <1>0 DEF FieldsFollow
  <2> QED
    BY <2>1, <2>2, <2>3
<1>7. /\ s.adds = t.adds /\ s.removes = t.removes /\ s.deltas = t.deltas
  BY <1>0, <1>3 DEF FieldsFollow
<1>8. s.base = t.base
  <2>1. CASE s.legacy = NoStamp
    BY <1>0, <1>3, <2>1 DEF FieldsFollow
  <2>2. CASE s.legacy # NoStamp
    <3>1. PICK v \in vs : v.at = s.legacy
      BY <1>0, <2>2 DEF FieldsFollow, IsGreatest, Stamps
    <3> QED
      BY <1>0, <1>3, <2>2, <3>1 DEF FieldsFollow
  <2> QED
    BY <2>1, <2>2
<1>9. [f \in Field |-> s.members[f]] = [f \in Field |-> t.members[f]]
  BY <1>3 DEF StateExact, RegisterExact
<1>10. ASSUME NEW k \in Key
       PROVE  s.entries[k].at = t.entries[k].at /\ s.entries[k].val = t.entries[k].val
  <2> DEFINE V == {v \in vs : k \in DOMAIN v.puts}
  <2>1. /\ IsGreatest(s.entries[k].at, Stamps(V)) /\ IsGreatest(t.entries[k].at, Stamps(V))
        /\ Stamps(V) \subseteq Stamp
    BY <1>0, <1>1 DEF FieldsFollow
  <2>2. s.entries[k].at = t.entries[k].at
    BY <2>1, GreatestUnique
  <2>5. /\ s.entries[k].at = NoStamp => s.entries[k].val = Absent
        /\ \A v \in V : v.at = s.entries[k].at => s.entries[k].val = v.puts[k]
    BY <1>0 DEF FieldsFollow
  <2>6. /\ t.entries[k].at = NoStamp => t.entries[k].val = Absent
        /\ \A v \in V : v.at = t.entries[k].at => t.entries[k].val = v.puts[k]
    BY <1>0 DEF FieldsFollow
  <2>3. CASE s.entries[k].at = NoStamp
    BY <2>2, <2>3, <2>5, <2>6
  <2>4. CASE s.entries[k].at # NoStamp
    <3>1. PICK v \in V : v.at = s.entries[k].at
      BY <2>1, <2>4 DEF IsGreatest, Stamps
    <3>2. s.entries[k].val = v.puts[k] /\ t.entries[k].val = v.puts[k]
      BY <2>2, <2>5, <2>6, <3>1
    <3> QED
      BY <2>2, <3>2
  <2> QED
    BY <2>2, <2>3, <2>4
<1>11. [k \in Key |-> [at |-> s.entries[k].at, val |-> s.entries[k].val]]
        = [k \in Key |-> [at |-> t.entries[k].at, val |-> t.entries[k].val]]
  BY <1>10
<1>12. Shaped(s) /\ Shaped(t)
  BY DEF StateExact
<1> QED
  BY <1>2, <1>3, <1>4, <1>5, <1>6, <1>7, <1>8, <1>9, <1>11, <1>12 DEF Shaped

\* The ops up to a stamp.
Prefix(vs, a) == {v \in vs : AtMost(v.at, a)}

\* The stamp before a, NoStamp of the first.
Before(vs, a) == Greatest({b \in Stamps(vs) : Below(b, a)})

\* The ops up to a stamp are those up to the one before it, and its own.
LEMMA PrefixStep ==
    ASSUME NEW vs, Applied(vs), NEW a \in Stamps(vs),
           NEW b, b = Before(vs, a)
    PROVE  /\ b = NoStamp => Prefix(vs, a) = {VersionAt(vs, a)}
           /\ b # NoStamp => /\ b \in Stamps(vs) /\ Below(b, a)
                             /\ Prefix(vs, a) = Prefix(vs, b) \cup {VersionAt(vs, a)}
                             /\ VersionAt(vs, a) \notin Prefix(vs, b)
           /\ Applied(Prefix(vs, a))
<1> DEFINE B == {c \in Stamps(vs) : Below(c, a)}
           v == VersionAt(vs, a)
<1>0. /\ VersionsOK(vs) /\ Stamps(vs) \subseteq OptStamp /\ NoStamp \notin Stamps(vs)
      /\ v \in vs /\ v.at = a /\ \A w \in vs : w.at \in Stamps(vs)
  BY StampsAre DEF Applied
<1>1. IsGreatest(b, B)
  <2>1. B \in SUBSET Stamps(vs)
    OBVIOUS
  <2>2. B \subseteq OptStamp /\ IsFiniteSet(B)
    BY <2>1, AppliedStamps
  <2> QED
    BY <2>2, GreatestIs DEF Before
<1>2. \A w \in vs : w.at = a => w = v
  BY <1>0 DEF VersionsOK
<1>3. \A w \in vs : AtMost(w.at, a) <=> w = v \/ w.at \in B
  BY <1>0, <1>2 DEF AtMost
<1>4. v.at \notin B
  BY <1>0, StampFacts
<1>5. b = NoStamp => B = {}
  BY <1>0, <1>1 DEF IsGreatest
<1>6. ASSUME b # NoStamp
      PROVE  /\ b \in Stamps(vs) /\ Below(b, a)
             /\ \A w \in vs : w.at \in B <=> AtMost(w.at, b)
  <2>1. b \in B /\ \A c \in B : AtMost(c, b)
    BY <1>1, <1>6 DEF IsGreatest
  <2> QED
    BY <1>0, <2>1, AtMostFacts
<1>7. Applied(Prefix(vs, a))
  <2>1. Prefix(vs, a) \subseteq vs
    BY DEF Prefix
  <2>2. IsFiniteSet(Prefix(vs, a))
    BY <2>1, FS_Subset DEF Applied
  <2>3. VersionsOK(Prefix(vs, a))
    BY <1>0, <2>1 DEF VersionsOK
  <2> QED
    BY <2>2, <2>3 DEF Applied
<1> HIDE DEF B, v
<1>8. b = NoStamp => Prefix(vs, a) = {v}
  BY <1>0, <1>3, <1>5 DEF Prefix
<1>9. b # NoStamp => /\ Prefix(vs, a) = Prefix(vs, b) \cup {v}
                     /\ v \notin Prefix(vs, b)
  BY <1>0, <1>3, <1>4, <1>6 DEF Prefix
<1> QED
  BY <1>6, <1>7, <1>8, <1>9 DEF v

\* Folding a log in stamp order leaves the exact state of its ops.
LEMMA RebuiltExact ==
    ASSUME NEW s, Applied(s.versions)
    PROVE  StateExact(Rebuilt(s)) /\ Rebuilt(s).versions = s.versions
<1> DEFINE vs == s.versions
           log == Stamps(vs)
           before(at) == Before(vs, at)
           stateOf(V) == CHOOSE t : StateExact(t) /\ t.versions = V
           step(g, at) == MergeOp(IF before(at) = NoStamp THEN EmptyState ELSE g[before(at)],
                                  VersionAt(vs, at))
           w == [at \in log |-> stateOf(Prefix(vs, at))]
           upto == CHOOSE g : g = [at \in log |-> step(g, at)]
           good(t, V) == StateExact(t) /\ t.versions = V
<1>0. VersionsOK(vs) /\ log \subseteq Stamp /\ log \subseteq OptStamp
  BY StampsAre DEF Applied
<1>1. ASSUME NEW at \in log, NEW g,
             before(at) # NoStamp => good(g[before(at)], Prefix(vs, before(at)))
      PROVE  good(step(g, at), Prefix(vs, at))
  <2> DEFINE p == IF before(at) = NoStamp THEN EmptyState ELSE g[before(at)]
             v == VersionAt(vs, at)
             b == before(at)
  <2>0. /\ b = NoStamp => Prefix(vs, at) = {v}
        /\ b # NoStamp => /\ Prefix(vs, at) = Prefix(vs, b) \cup {v}
                          /\ v \notin Prefix(vs, b)
        /\ Applied(Prefix(vs, at))
    BY PrefixStep
  <2> HIDE DEF b, v, before
  <2>1. StateExact(p) /\ Prefix(vs, at) = p.versions \cup {v} /\ v \notin p.versions
    <3>1. CASE b = NoStamp
      <4>1. p = EmptyState
        BY <3>1 DEF b
      <4> HIDE DEF p
      <4> QED
        BY <2>0, <3>1, <4>1, EmptyExact
    <3>2. CASE b # NoStamp
      <4>1. p = g[b] /\ good(g[b], Prefix(vs, b))
        BY <1>1, <3>2 DEF b
      <4> HIDE DEF p
      <4> QED
        BY <2>0, <3>2, <4>1
    <3> QED
      BY <3>1, <3>2
  <2> HIDE DEF p
  <2>2. StateExact(MergeOp(p, v)) /\ MergeOp(p, v).versions = p.versions \cup {v}
    BY <2>0, <2>1, MergeExact
  <2>3. step(g, at) = MergeOp(p, v)
    BY DEF p, v
  <2> HIDE DEF step
  <2> QED
    BY <2>1, <2>2, <2>3
<1>2. \A at \in log : before(at) # NoStamp => before(at) \in log /\ Below(before(at), at)
  BY PrefixStep
<1> HIDE DEF before
<1>3. \A at \in log : \E t : good(t, Prefix(vs, at))
  <2> DEFINE T == {at \in log : ~\E t : good(t, Prefix(vs, at))}
  <2>1. SUFFICES ASSUME T # {} PROVE FALSE
    BY <2>1
  <2>2. PICK at \in T : \A c \in T : AtMost(at, c)
    BY <1>0, <2>1, LeastStamp
  <2>3. at \in log /\ ~\E t : good(t, Prefix(vs, at))
    BY <2>2
  <2>4. before(at) # NoStamp => \E t : good(t, Prefix(vs, before(at)))
    <3> SUFFICES ASSUME before(at) # NoStamp PROVE before(at) \notin T
      BY <1>2, <2>3
    <3>1. before(at) \in log /\ Below(before(at), at)
      BY <1>2, <2>3
    <3> QED
      BY <1>0, <2>2, <2>3, <3>1, AtMostFacts
  <2> HIDE DEF T, good, log
  <2>5. PICK t : before(at) # NoStamp => good(t, Prefix(vs, before(at)))
    BY <2>4
  <2> DEFINE g == [x \in {before(at)} |-> t]
  <2>6. g[before(at)] = t
    OBVIOUS
  <2> HIDE DEF g, step
  <2>7. good(step(g, at), Prefix(vs, at))
    BY <1>1, <2>3, <2>5, <2>6
  <2> QED
    BY <2>3, <2>7
<1>4. \A at \in log : good(w[at], Prefix(vs, at))
  <2> SUFFICES ASSUME NEW at \in log PROVE good(w[at], Prefix(vs, at))
    OBVIOUS
  <2>1. w[at] = stateOf(Prefix(vs, at))
    OBVIOUS
  <2>2. \E t : StateExact(t) /\ t.versions = Prefix(vs, at)
    BY <1>3
  <2>3. good(stateOf(Prefix(vs, at)), Prefix(vs, at))
    BY <2>2, Zenon
  <2> HIDE DEF w, stateOf, good
  <2> QED
    BY <2>1, <2>3
<1>5. \A at \in log : w[at] = step(w, at)
  <2> SUFFICES ASSUME NEW at \in log PROVE w[at] = step(w, at)
    OBVIOUS
  <2> HIDE DEF w, step
  <2>1. good(step(w, at), Prefix(vs, at))
    <3>1. before(at) # NoStamp => good(w[before(at)], Prefix(vs, before(at)))
      BY <1>2, <1>4
    <3> QED
      BY <1>1, <3>1
  <2>2. good(w[at], Prefix(vs, at))
    BY <1>4
  <2>3. VersionsOK(Prefix(vs, at))
    BY PrefixStep DEF Applied
  <2> QED
    BY <2>1, <2>2, <2>3, ExactUnique
<1>6. w = [at \in log |-> step(w, at)]
  <2>1. w = [at \in log |-> w[at]]
    OBVIOUS
  <2> HIDE DEF w, step
  <2> QED
    BY <1>5, <2>1
<1>7. upto = [at \in log |-> step(upto, at)]
  <2>1. \E g : g = [at \in log |-> step(g, at)]
    <3> HIDE DEF step, w
    <3> QED
      BY <1>6, Zenon
  <2> HIDE DEF step
  <2> QED
    BY <2>1, Zenon
<1>8. Rebuilt(s) = IF log = {} THEN EmptyState ELSE upto[Greatest(log)]
  BY Zenon DEF Rebuilt, Before, before
<1> HIDE DEF w, step, upto, good
<1>9. \A at \in log : upto[at] = step(upto, at)
  BY <1>7
<1>10. \A at \in log : good(upto[at], Prefix(vs, at))
  <2> DEFINE T == {at \in log : ~good(upto[at], Prefix(vs, at))}
  <2>1. SUFFICES ASSUME T # {} PROVE FALSE
    BY <2>1
  <2>2. PICK at \in T : \A c \in T : AtMost(at, c)
    BY <1>0, <2>1, LeastStamp
  <2>3. before(at) # NoStamp => good(upto[before(at)], Prefix(vs, before(at)))
    <3> SUFFICES ASSUME before(at) # NoStamp PROVE before(at) \notin T
      BY <1>2, <2>2
    <3>1. before(at) \in log /\ Below(before(at), at)
      BY <1>2, <2>2
    <3> QED
      BY <1>0, <2>2, <3>1, AtMostFacts
  <2> QED
    BY <1>1, <1>9, <2>2, <2>3
<1>11. CASE log = {}
  <2>1. vs = {}
    BY <1>11 DEF Stamps
  <2> QED
    BY <1>8, <1>11, <2>1, EmptyExact
<1>12. CASE log # {}
  <2> DEFINE top == Greatest(log)
  <2>1. top \in log /\ \A a \in log : AtMost(a, top)
    <3>1. IsGreatest(top, log)
      BY <1>0, AppliedStamps, GreatestIs
    <3> QED
      BY <1>12, <3>1 DEF IsGreatest
  <2>2. Prefix(vs, top) = vs
    BY <2>1 DEF Prefix, Stamps
  <2> HIDE DEF top
  <2>3. Rebuilt(s) = upto[top]
    BY <1>8, <1>12 DEF top
  <2>4. good(upto[top], vs)
    BY <1>10, <2>1, <2>2
  <2> QED
    BY <2>3, <2>4 DEF good
<1> QED
  BY <1>11, <1>12

-----------------------------------------------------------------------------
(* The invariant of the whole state and of the history. *)

\* The versions the writer of w had applied.
SeenBy(w) == {x \in ops : x.at \in seen[w.at]}

\* What the writer of w had applied is stamped below w, holds w's parents and
\* its device's earlier ops, and is a parent of w or reached from one, among
\* the versions it had applied, if w is a Patch.
Causal(w) ==
    /\ \A a \in seen[w.at] : Below(a, w.at)
    /\ w.parents \subseteq seen[w.at]
    /\ \A v \in ops : v.at.dev = w.at.dev /\ Below(v.at, w.at) => v.at \in seen[w.at]
    /\ ~w.legacy => \A a \in seen[w.at] :
                       \E p \in w.parents : a = p \/ a \in Reach(SeenBy(w))[p]

\* A device holds what it wrote, and its clock has passed what it holds.
Held ==
    /\ \A v \in ops : v \in rep[v.at.dev].versions
    /\ \A d \in Device : \A v \in rep[d].versions : v.at.hlc <= clock[d]

MergeInv ==
    /\ ObservedInv
    /\ IsFiniteSet(ops)
    /\ \A d \in Device : StateExact(rep[d])
    /\ Held
    /\ \A w \in ops : w.origin \in {"user", "generated"} /\ Causal(w)

\* Nothing is written yet.
LEMMA InitMergeInv == Init => MergeInv
<1> SUFFICES ASSUME Init PROVE MergeInv
  OBVIOUS
<1>1. ObservedInv
  BY InitObserved
<1>2. ops = {} /\ IsFiniteSet(ops)
  BY FS_EmptySet DEF Init
<1>3. \A d \in Device : rep[d] = EmptyState
  BY DEF Init
<1>4. \A d \in Device : StateExact(rep[d]) /\ rep[d].versions = {}
  BY <1>3, EmptyExact
<1> QED
  BY <1>1, <1>2, <1>4 DEF MergeInv, Held

\* What a replica holds of finitely many ops is finitely many.
LEMMA AppliedSubset ==
    ASSUME NEW vs, NEW ws, Applied(ws), vs \subseteq ws
    PROVE  Applied(vs)
<1>1. IsFiniteSet(vs)
  BY FS_Subset DEF Applied
<1>2. VersionsOK(vs)
  BY DEF VersionsOK, Applied
<1> QED
  BY <1>1, <1>2 DEF Applied

\* Every version is a head or reached from one.
LEMMA HeadsCover ==
    ASSUME NEW vs, Applied(vs), NEW a \in Stamps(vs)
    PROVE  \E p \in HeadsOf(vs) : a = p \/ a \in Reach(vs)[p]
<1> DEFINE R == Reach(vs)
           B == {b \in Stamps(vs) : a \in R[b]}
<1>0. VersionsOK(vs) /\ Stamps(vs) \subseteq OptStamp
  BY StampsAre DEF Applied
<1>1. \A x \in Stamps(vs) : \A y \in R[x] : y \in Stamps(vs) /\ Below(y, x) /\ R[y] \subseteq R[x]
  BY <1>0, ReachFacts
<1> HIDE DEF R
<1>2. CASE B = {}
  BY <1>2 DEF HeadsOf, R
<1>3. CASE B # {}
  <2>1. PICK t \in B : \A u \in B : AtMost(u, t)
    <3>1. B \in SUBSET Stamps(vs)
      OBVIOUS
    <3>2. B \subseteq OptStamp /\ IsFiniteSet(B)
      BY <3>1, AppliedStamps
    <3> QED
      BY <1>3, <3>2, GreatestStamp
  <2>2. ASSUME NEW b \in Stamps(vs), t \in R[b] PROVE FALSE
    <3>1. a \in R[b] /\ Below(t, b)
      BY <1>1, <2>1, <2>2
    <3> QED
      BY <1>0, <2>1, <3>1, AtMostFacts
  <2>3. t \in HeadsOf(vs)
    BY <2>1, <2>2 DEF HeadsOf, R
  <2> QED
    BY <2>1, <2>3 DEF R
<1> QED
  BY <1>2, <1>3

\* A fold of a fresh op keeps every replica exact, and the others unchanged.
LEMMA FoldKeepsExact ==
    ASSUME MergeInv, NEW d \in Device, NEW op, op \notin rep[d].versions,
           Applied(ops \cup {op}),
           rep' = [rep EXCEPT ![d] = MergeOp(rep[d], op)]
    PROVE  /\ \A e \in Device : StateExact(rep'[e])
           /\ rep'[d].versions = rep[d].versions \cup {op}
           /\ \A e \in Device \ {d} : rep'[e] = rep[e]
<1>1. Inv /\ rep[d].versions \subseteq ops /\ DOMAIN rep = Device
  BY DEF MergeInv, ObservedInv, Inv
<1>2. Applied(rep[d].versions \cup {op})
  BY <1>1, AppliedSubset
<1>3. StateExact(MergeOp(rep[d], op)) /\ MergeOp(rep[d], op).versions = rep[d].versions \cup {op}
  BY <1>2, MergeExact DEF MergeInv
<1>4. rep'[d] = MergeOp(rep[d], op) /\ \A e \in Device \ {d} : rep'[e] = rep[e]
  BY <1>1
<1> QED
  BY <1>3, <1>4 DEF MergeInv

\* Receiving leaves the history alone and raises the clock over the op.
LEMMA ReceiveKeepsMergeInv ==
    ASSUME MergeInv, NEW d \in Device, NEW op \in ops, Receive(d, op), ObservedInv'
    PROVE  MergeInv'
<1>0. Inv /\ Applied(ops) /\ clock \in [Device -> Nat]
  BY DEF MergeInv, ObservedInv, Inv, Sealed, Applied
<1>1. /\ op \notin rep[d].versions /\ ops' = ops /\ seen' = seen
      /\ rep' = [rep EXCEPT ![d] = MergeOp(rep[d], op)]
      /\ clock' = [clock EXCEPT ![d] = IF clock[d] < op.at.hlc THEN op.at.hlc ELSE clock[d]]
  BY DEF Receive
<1>2. /\ \A e \in Device : StateExact(rep'[e])
      /\ rep'[d].versions = rep[d].versions \cup {op}
      /\ \A e \in Device \ {d} : rep'[e] = rep[e]
  <2>1. ops \cup {op} = ops
    OBVIOUS
  <2>2. Applied(ops \cup {op})
    BY <1>0, <2>1
  <2> QED
    BY <1>1, <2>2, FoldKeepsExact
<1>3. \A v \in ops : v.at.dev \in Device /\ v.at.hlc \in Nat
  <2>1. \A v \in ops : v.at.dev \in Device /\ v.at.hlc \in 1..MaxHlc
    BY <1>0 DEF Applied, VersionsOK, Stamp
  <2> QED
    BY <2>1, MaxHlcAssumption
<1>4. Held'
  <2>1. \A v \in ops : v \in rep'[v.at.dev].versions
    BY <1>2, <1>3 DEF MergeInv, Held
  <2>2. ASSUME NEW e \in Device, NEW v \in rep'[e].versions PROVE v.at.hlc <= clock'[e]
    <3>0. clock'[e] \in Nat /\ clock[e] \in Nat /\ clock[e] <= clock'[e]
      BY <1>0, <1>1, <1>3
    <3>1. CASE v \in rep[e].versions
      <4>1. v.at.hlc <= clock[e] /\ v \in ops
        BY <1>0, <3>1 DEF MergeInv, Held, Inv
      <4> QED
        BY <1>3, <3>0, <4>1
    <3>2. CASE e = d /\ v = op
      BY <1>0, <1>1, <1>3, <3>2
    <3> QED
      BY <1>2, <3>1, <3>2
  <2> QED
    BY <1>1, <2>1, <2>2 DEF Held
<1>5. ASSUME NEW w \in ops PROVE w.origin \in {"user", "generated"} /\ Causal(w)'
  <2>1. w.origin \in {"user", "generated"} /\ Causal(w)
    BY DEF MergeInv
  <2>2. SeenBy(w)' = SeenBy(w)
    BY <1>1 DEF SeenBy
  <2>3. Causal(w)'
    BY <1>1, <2>1, <2>2 DEF Causal
  <2> QED
    BY <2>1, <2>3
<1> QED
  BY <1>1, <1>2, <1>4, <1>5 DEF MergeInv

\* Writing records what the writer holds, all of it below the new op and covered
\* by the heads the op names.
LEMMA WriteKeepsMergeInv ==
    ASSUME MergeInv, NEW d \in Device, NEW h \in 1..MaxHlc, NEW op,
           Written(d, h, op), AppendAndFold(d, op), ObservedInv'
    PROVE  MergeInv'
<1> DEFINE vs == rep[d].versions
<1>0. Inv /\ Applied(ops) /\ clock \in [Device -> Nat] /\ vs \subseteq ops /\ SeenIsSealed
  BY DEF MergeInv, ObservedInv, Inv, Sealed, Applied
<1>1. /\ ops' = ops \cup {op}
      /\ rep' = [rep EXCEPT ![d] = MergeOp(rep[d], op)]
      /\ clock' = [clock EXCEPT ![d] = op.at.hlc]
      /\ seen' = [a \in DOMAIN seen \cup {op.at} |-> IF a = op.at THEN Stamps(vs) ELSE seen[a]]
  BY DEF AppendAndFold
<1>2. /\ VersionsOK(ops \cup {op}) /\ op \notin ops /\ op \notin vs
      /\ op.at.hlc = h /\ op.at.dev = d /\ h \in Nat /\ clock[d] < h
  <2>1. VersionsOK(ops \cup {op}) /\ op \notin ops
    BY <1>0, WrittenIsFresh
  <2> QED
    BY <1>0, <2>1, MaxHlcAssumption DEF Written
<1>3. Applied(ops \cup {op}) /\ IsFiniteSet(ops')
  BY <1>0, <1>1, <1>2, FS_AddElement DEF Applied
<1>4. /\ \A e \in Device : StateExact(rep'[e])
      /\ rep'[d].versions = vs \cup {op}
      /\ \A e \in Device \ {d} : rep'[e] = rep[e]
  BY <1>1, <1>2, <1>3, FoldKeepsExact
<1>5. \A v \in ops \cup {op} : v.at.dev \in Device /\ v.at.hlc \in Nat /\ v.at \in OptStamp
  <2>1. \A v \in ops \cup {op} : v.at.dev \in Device /\ v.at.hlc \in 1..MaxHlc /\ v.at \in OptStamp
    BY <1>2, StampIsOpt DEF VersionsOK, Stamp
  <2> QED
    BY <2>1, MaxHlcAssumption
<1>6. \A v \in vs : v.at.hlc <= clock[d] /\ v.at.hlc < h /\ Below(v.at, op.at)
  <2>1. \A v \in vs : v.at.hlc <= clock[d] /\ v.at.hlc \in Nat
    BY <1>0, <1>5 DEF MergeInv, Held
  <2> QED
    BY <1>0, <1>2, <2>1 DEF Below
<1>7. Held'
  <2>1. \A v \in ops' : v \in rep'[v.at.dev].versions
    BY <1>1, <1>2, <1>4, <1>5 DEF MergeInv, Held
  <2>2. ASSUME NEW e \in Device, NEW v \in rep'[e].versions PROVE v.at.hlc <= clock'[e]
    <3>1. CASE e = d
      BY <1>0, <1>1, <1>2, <1>4, <1>5, <1>6, <3>1
    <3>2. CASE e # d
      BY <1>0, <1>1, <1>4, <3>2 DEF MergeInv, Held
    <3> QED
      BY <3>1, <3>2
  <2> QED
    BY <2>1, <2>2 DEF Held
<1>8. /\ \A v \in ops : v.at # op.at /\ seen'[v.at] = seen[v.at] /\ op.at \notin seen[v.at]
                        /\ seen[v.at] \subseteq Stamps(ops)
      /\ seen'[op.at] = Stamps(vs)
  <2>1. \A v \in ops : v.at # op.at
    BY <1>2 DEF VersionsOK
  <2>2. op.at \notin Stamps(ops) /\ DOMAIN seen = Stamps(ops)
    BY <1>0, <2>1 DEF SeenIsSealed, Stamps
  <2>3. \A v \in ops : v.at \in DOMAIN seen /\ seen[v.at] \subseteq Stamps(ops)
    BY <1>0, <2>2 DEF SeenIsSealed, Stamps
  <2> HIDE DEF vs
  <2> QED
    BY <1>1, <2>1, <2>2, <2>3
<1>9. ASSUME NEW w \in ops PROVE Causal(w)'
  <2>1. Causal(w)
    BY DEF MergeInv
  <2>2. SeenBy(w)' = SeenBy(w)
    BY <1>1, <1>8 DEF SeenBy
  <2>3. ~(op.at.dev = w.at.dev /\ Below(op.at, w.at))
    <3>1. ASSUME w.at.dev = d PROVE ~Below(op.at, w.at)
      <4>1. w.at.hlc <= clock[d]
        BY <1>0, <3>1 DEF Inv, Sealed
      <4> QED
        BY <1>0, <1>2, <1>5, <4>1 DEF Below
    <3> QED
      BY <1>2, <3>1
  <2>4. seen'[w.at] = seen[w.at]
    BY <1>8
  <2>5. /\ \A a \in seen'[w.at] : Below(a, w.at)
        /\ w.parents \subseteq seen'[w.at]
        /\ \A v \in ops' : v.at.dev = w.at.dev /\ Below(v.at, w.at) => v.at \in seen'[w.at]
    BY <1>1, <2>1, <2>3, <2>4 DEF Causal
  <2>6. ~w.legacy => \A a \in seen'[w.at] :
                       \E p \in w.parents : a = p \/ a \in Reach(SeenBy(w)')[p]
    BY <2>1, <2>2, <2>4 DEF Causal
  <2> QED
    BY <2>5, <2>6 DEF Causal
<1>10. Causal(op)'
  <2>1. \A a \in Stamps(vs) : Below(a, op.at)
    BY <1>6 DEF Stamps
  <2>2. rep[d].heads = HeadsOf(vs) /\ HeadsOf(vs) \subseteq Stamps(vs) /\ Applied(vs)
    BY <1>0, AppliedSubset DEF MergeInv, StateExact, HeadsOf
  <2>3. op.parents \subseteq Stamps(vs) /\ (~op.legacy => op.parents = HeadsOf(vs))
    BY <2>2 DEF Written
  <2>4. ASSUME NEW v \in ops', v.at.dev = op.at.dev, Below(v.at, op.at)
        PROVE  v.at \in Stamps(vs)
    <3>1. v # op
      BY <1>5, <2>4, StampFacts
    <3>2. v \in ops /\ v.at.dev = d
      BY <1>1, <1>2, <2>4, <3>1
    <3>3. v \in vs
      BY <3>2 DEF MergeInv, Held
    <3> QED
      BY <3>3 DEF Stamps
  <2>5. SeenBy(op)' = vs
    <3>1. SeenBy(op)' = {x \in ops \cup {op} : x.at \in Stamps(vs)}
      BY <1>1, <1>8 DEF SeenBy
    <3>2. \A x \in ops \cup {op} : x.at \in Stamps(vs) <=> x \in vs
      BY <1>0, <1>2 DEF Stamps, VersionsOK
    <3> QED
      BY <1>0, <3>1, <3>2
  <2>6. ~op.legacy => \A a \in Stamps(vs) :
                       \E p \in op.parents : a = p \/ a \in Reach(vs)[p]
    BY <2>2, <2>3, HeadsCover
  <2> HIDE DEF vs
  <2> QED
    BY <1>8, <2>1, <2>3, <2>4, <2>5, <2>6 DEF Causal
<1>11. op.origin \in {"user", "generated"}
  BY DEF Written
<1>12. \A w \in ops' : w.origin \in {"user", "generated"} /\ Causal(w)'
  BY <1>1, <1>9, <1>10, <1>11 DEF MergeInv
<1> QED
  BY <1>3, <1>4, <1>7, <1>12 DEF MergeInv

\* One case per action.
LEMMA NextKeepsMergeInv == MergeInv /\ [Next]_vars => MergeInv'
<1> SUFFICES ASSUME MergeInv, [Next]_vars PROVE MergeInv'
  OBVIOUS
<1>0. ObservedInv'
  BY NextKeepsObserved DEF MergeInv
<1>1. CASE UNCHANGED vars
  <2>1. ops' = ops /\ rep' = rep /\ clock' = clock /\ seen' = seen
    BY <1>1 DEF vars
  <2>2. Held' /\ \A d \in Device : StateExact(rep'[d])
    BY <2>1 DEF MergeInv, Held
  <2>3. \A w \in ops' : w.origin \in {"user", "generated"} /\ Causal(w)'
    BY <2>1 DEF MergeInv, Causal, SeenBy
  <2> QED
    BY <1>0, <2>1, <2>2, <2>3 DEF MergeInv
<1>2. ASSUME NEW d \in Device, NEW op \in ops, Receive(d, op) PROVE MergeInv'
  BY <1>0, <1>2, ReceiveKeepsMergeInv
<1>3. ASSUME NEW d \in Writer, NEW h \in 1..MaxHlc, NEW e \in Edits, NEW legacy \in BOOLEAN,
             Create(d, h, e, legacy) \/ Edit(d, h, e, legacy)
      PROVE  MergeInv'
  <2>1. d \in Device /\ \E op : Written(d, h, op) /\ AppendAndFold(d, op)
    BY <1>3, CreateWrites, EditWrites
  <2> QED
    BY <1>0, <2>1, WriteKeepsMergeInv
<1> QED
  BY <1>1, <1>2, <1>3 DEF Next

\* The invariant of every behaviour.
LEMMA AlwaysMergeInv == Spec => []MergeInv
  BY InitMergeInv, NextKeepsMergeInv, PTL DEF Spec

\* What the invariant says of one replica.
LEMMA ReplicaFacts ==
    ASSUME MergeInv, NEW d \in Device
    PROVE  /\ StateExact(rep[d]) /\ Applied(rep[d].versions) /\ VersionsOK(rep[d].versions)
           /\ rep[d].versions \subseteq ops
           /\ \A a, b \in Stamps(rep[d].versions) :
                 Precedes(rep[d].frontier, a, b) <=> a \in Reach(rep[d].versions)[b]
<1>1. StateExact(rep[d]) /\ rep[d].versions \subseteq ops /\ Applied(ops)
  BY DEF MergeInv, ObservedInv, Inv, Sealed, Applied
<1>2. Applied(rep[d].versions)
  BY <1>1, AppliedSubset
<1>3. VersionsOK(rep[d].versions) /\ FrontierExact(rep[d].versions, rep[d].frontier)
  BY <1>1, <1>2 DEF Applied, StateExact
<1> QED
  BY <1>1, <1>2, <1>3, OrderOfFrontiers

(***************************************************************************)
(* For any devices and ops, in whatever order they are admitted, on time   *)
(* or late: the stored frontiers decide the order exactly as reachability  *)
(* among the applied versions does, and the stored heads are the versions  *)
(* nothing descends from.                                                  *)
(***************************************************************************)
THEOREM OrderIsExact == Spec => []OrderExact
<1>1. ASSUME MergeInv PROVE OrderExact
  <2> SUFFICES ASSUME NEW d \in Device
               PROVE  LET s == rep[d]
                          reach == Reach(s.versions)
                      IN  /\ \A a, b \in Stamps(s.versions) :
                                Precedes(s.frontier, a, b) <=> a \in reach[b]
                          /\ s.heads = {a \in Stamps(s.versions) :
                                          \A b \in Stamps(s.versions) : a \notin reach[b]}
    BY Zenon DEF OrderExact
  <2>1. \A a, b \in Stamps(rep[d].versions) :
           Precedes(rep[d].frontier, a, b) <=> a \in Reach(rep[d].versions)[b]
    BY <1>1, ReplicaFacts
  <2>2. rep[d].heads = HeadsOf(rep[d].versions)
    BY <1>1 DEF MergeInv, StateExact
  <2> QED
    BY <2>1, <2>2 DEF HeadsOf
<1>2. MergeInv => OrderExact
  BY <1>1
<1> QED
  BY <1>2, AlwaysMergeInv, PTL

\* The floor a replica stores.
LEMMA FloorIs ==
    ASSUME NEW s, Applied(s.versions), FieldsFollow(s)
    PROVE  Floor(s.versions) = s.legacy
<1> DEFINE S == Stamps({v \in s.versions : v.legacy})
<1>1. S \in SUBSET Stamps(s.versions) /\ Stamps(s.versions) \subseteq Stamp
  BY AppliedStamps, StampsAre DEF Stamps
<1>2. IsGreatest(s.legacy, S)
  BY DEF FieldsFollow
<1>3. Floor(s.versions) = Greatest(S)
  BY DEF Floor
<1> HIDE DEF S
<1>4. IsGreatest(Greatest(S), S)
  BY <1>1, AppliedStamps, GreatestIs
<1> QED
  BY <1>1, <1>2, <1>3, <1>4, GreatestUnique

(***************************************************************************)
(* Every register of every replica keeps exactly the writes at or above    *)
(* the floor that no other such write descends from, whatever order the    *)
(* writes, the full-state ops and the late versions that refine the order  *)
(* came in.                                                                *)
(***************************************************************************)
THEOREM RegistersAreExact == Spec => []RegistersExact
<1>1. ASSUME MergeInv PROVE RegistersExact
  <2> SUFFICES ASSUME NEW d \in Device, NEW f \in Field
               PROVE  LET vs == rep[d].versions
                          reach == Reach(vs)
                          candidates == {m \in Writes(vs, f) : ~Below(m.at, Floor(vs))}
                      IN  rep[d].members[f] =
                            {m \in candidates : \A n \in candidates : m.at \notin reach[n.at]}
    BY Zenon DEF RegistersExact
  <2>1. Floor(rep[d].versions) = rep[d].legacy
    BY <1>1, ReplicaFacts, FloorIs DEF StateExact
  <2>2. RegisterExact(rep[d].versions, f, rep[d].legacy, rep[d].members[f])
    BY <1>1, ReplicaFacts DEF StateExact
  <2> QED
    BY <2>1, <2>2 DEF RegisterExact, Undominated, Candidates
<1>2. MergeInv => RegistersExact
  BY <1>1
<1> QED
  BY <1>2, AlwaysMergeInv, PTL

(***************************************************************************)
(* Strong eventual consistency, for any devices, fields and ops: replicas  *)
(* that applied the same ops hold the same rows.                           *)
(***************************************************************************)
THEOREM ReplicasConverge == Spec => []Convergence
<1>1. ASSUME MergeInv PROVE Convergence
  BY <1>1, ReplicaFacts, ExactUnique DEF Convergence
<1>2. MergeInv => Convergence
  BY <1>1
<1> QED
  BY <1>2, AlwaysMergeInv, PTL

(***************************************************************************)
(* The rebuild identity: clearing the tables and refolding the log in      *)
(* stamp order gives back every row, in any state a device can be in.      *)
(***************************************************************************)
THEOREM RebuildIsIdentity == Spec => []RebuildIdentity
<1>1. ASSUME MergeInv PROVE RebuildIdentity
  BY <1>1, ReplicaFacts, RebuiltExact, ExactUnique DEF RebuildIdentity
<1>2. MergeInv => RebuildIdentity
  BY <1>1
<1> QED
  BY <1>2, AlwaysMergeInv, PTL

-----------------------------------------------------------------------------
(* Causality. *)

\* The recursion Past satisfies.
LEMMA PastIs ==
    ASSUME SeenIsSealed
    PROVE  /\ DOMAIN seen = Stamps(ops)
           /\ \A a \in Stamps(ops) : /\ seen[a] \subseteq Stamps(ops)
                                     /\ Past[a] = seen[a] \cup UNION {Past[b] : b \in seen[a]}
<1>1. DOMAIN seen = Stamps(ops) /\ \A a \in DOMAIN seen : seen[a] \subseteq DOMAIN seen
  BY DEF SeenIsSealed, Stamps
<1>2. Closure(seen) = [a \in DOMAIN seen |-> seen[a] \cup UNION {Closure(seen)[b] : b \in seen[a]}]
  BY <1>1, ClosureIs
<1>3. Past = [a \in DOMAIN seen |-> seen[a] \cup UNION {Past[b] : b \in seen[a]}]
  BY <1>2, Zenon DEF Past
<1> DEFINE P == Past
<1>4. P = [a \in DOMAIN seen |-> seen[a] \cup UNION {P[b] : b \in seen[a]}]
  BY <1>3
<1> HIDE DEF P
<1>5. \A a \in DOMAIN seen : P[a] = seen[a] \cup UNION {P[b] : b \in seen[a]}
  BY <1>4, Zenon
<1> QED
  BY <1>1, <1>5 DEF P

\* A version reaches only what is in its causal past.
LEMMA ReachInPast ==
    ASSUME MergeInv, NEW vs, vs \subseteq ops
    PROVE  \A a \in Stamps(vs) : Reach(vs)[a] \subseteq Past[a]
<1> DEFINE R == Reach(vs)
           T == {a \in Stamps(vs) : ~(R[a] \subseteq Past[a])}
<1>0. SeenIsSealed /\ VersionsOK(ops) /\ VersionsOK(vs) /\ Stamps(vs) \subseteq Stamps(ops)
  BY DEF MergeInv, ObservedInv, Inv, Sealed, VersionsOK, Stamps
<1>1. Stamps(vs) \subseteq Stamp /\ Stamps(vs) \subseteq OptStamp
  BY <1>0, StampsAre
<1>2. \A a \in Stamps(ops) : Past[a] = seen[a] \cup UNION {Past[b] : b \in seen[a]}
  BY <1>0, PastIs
<1>3. \A a \in Stamps(vs) : \A b \in Direct(vs)[a] : b \in Stamps(vs) /\ Below(b, a) /\ b \in seen[a]
  <2> SUFFICES ASSUME NEW a \in Stamps(vs), NEW b \in Direct(vs)[a]
               PROVE  b \in Stamps(vs) /\ Below(b, a) /\ b \in seen[a]
    OBVIOUS
  <2>1. /\ b \in Stamps(vs) /\ Below(b, a)
        /\ a.dev = b.dev \/ \E v \in vs : v.at = a /\ b \in v.parents
    BY ReachIs
  <2>2. PICK w \in vs : w.at = a
    BY DEF Stamps
  <2>3. Causal(w) /\ w \in ops
    BY <2>2 DEF MergeInv
  <2>4. CASE a.dev = b.dev
    <3>1. PICK v \in ops : v.at = b
      BY <1>0, <2>1 DEF Stamps
    <3> QED
      BY <2>1, <2>2, <2>3, <2>4, <3>1 DEF Causal
  <2>5. CASE \E v \in vs : v.at = a /\ b \in v.parents
    <3>1. b \in w.parents
      BY <1>0, <2>2, <2>5 DEF VersionsOK
    <3> QED
      BY <2>1, <2>2, <2>3, <3>1 DEF Causal
  <2> QED
    BY <2>1, <2>4, <2>5
<1>4. \A a \in Stamps(vs) : \A c \in R[a] : \E b \in Direct(vs)[a] : c = b \/ c \in R[b]
  BY <1>0, ReachFacts
<1>5. T = {}
  <2>1. SUFFICES ASSUME T # {} PROVE FALSE
    BY <2>1
  <2>2. PICK a \in T : \A c \in T : AtMost(a, c)
    BY <1>1, <2>1, LeastStamp
  <2> HIDE DEF R
  <2>3. PICK c \in R[a] : c \notin Past[a]
    BY <2>2
  <2>4. PICK b \in Direct(vs)[a] : c = b \/ c \in R[b]
    BY <1>4, <2>2
  <2>5. b \in Stamps(vs) /\ Below(b, a) /\ b \in seen[a]
    BY <1>3, <2>2
  <2>6. b \notin T
    BY <1>1, <2>2, <2>5, AtMostFacts
  <2>7. b \in Past[a] /\ Past[b] \subseteq Past[a]
    BY <1>0, <1>2, <2>2, <2>5
  <2> QED
    BY <2>3, <2>4, <2>5, <2>6, <2>7
<1> QED
  BY <1>5

\* A Patch reaches all its writer had applied, wherever that is held.
LEMMA PatchReaches ==
    ASSUME MergeInv, NEW vs, vs \subseteq ops, NEW v \in vs, ~v.legacy,
           seen[v.at] \subseteq Stamps(vs), NEW a \in seen[v.at]
    PROVE  a \in Reach(vs)[v.at]
<1>0. VersionsOK(ops) /\ VersionsOK(vs) /\ v.at \in Stamps(vs) /\ Causal(v)
  BY DEF MergeInv, ObservedInv, Inv, Sealed, VersionsOK, Stamps
<1>1. SeenBy(v) \subseteq vs
  <2> SUFFICES ASSUME NEW x \in ops, x.at \in seen[v.at] PROVE x \in vs
    BY DEF SeenBy
  <2>1. PICK y \in vs : y.at = x.at
    BY DEF Stamps
  <2> QED
    BY <1>0, <2>1 DEF VersionsOK
<1>2. PICK p \in v.parents : a = p \/ a \in Reach(SeenBy(v))[p]
  BY <1>0 DEF Causal
<1>3. p \in seen[v.at] /\ Below(p, v.at) /\ p \in Stamps(vs)
  BY <1>0, <1>2 DEF Causal
<1>4. p \in Reach(vs)[v.at]
  <2>1. p \in Direct(vs)[v.at]
    BY <1>0, <1>2, <1>3, ReachIs
  <2> QED
    BY <1>0, <2>1, ReachFacts
<1>5. p \in Stamps(SeenBy(v))
  <2>1. PICK y \in vs : y.at = p
    BY <1>3 DEF Stamps
  <2> QED
    BY <1>3, <2>1 DEF SeenBy, Stamps
<1>6. Reach(SeenBy(v))[p] \subseteq Reach(vs)[p]
  BY <1>0, <1>1, <1>5, ReachGrows
<1>7. Reach(vs)[p] \subseteq Reach(vs)[v.at]
  BY <1>0, <1>4, ReachFacts
<1> QED
  BY <1>2, <1>4, <1>6, <1>7

(***************************************************************************)
(* The order a replica stores is causality as the writers had it: nothing  *)
(* precedes an op that is not in its causal past, and a replica that holds *)
(* all a Patch's writer had applied orders all of it before the Patch.     *)
(***************************************************************************)
THEOREM OrderIsCausal == Spec => []OrderIsCausality
<1>1. ASSUME MergeInv PROVE OrderIsCausality
  <2> SUFFICES ASSUME NEW d \in Device, NEW a \in Stamps(rep[d].versions), NEW v \in rep[d].versions
               PROVE  /\ Precedes(rep[d].frontier, a, v.at) => a \in Past[v.at]
                      /\ (/\ ~v.legacy
                          /\ seen[v.at] \subseteq Stamps(rep[d].versions)
                          /\ a \in seen[v.at]) => Precedes(rep[d].frontier, a, v.at)
    BY Zenon DEF OrderIsCausality
  <2>1. rep[d].versions \subseteq ops /\ v.at \in Stamps(rep[d].versions)
    BY <1>1, ReplicaFacts DEF Stamps
  <2>2. Precedes(rep[d].frontier, a, v.at) <=> a \in Reach(rep[d].versions)[v.at]
    BY <1>1, <2>1, ReplicaFacts
  <2>3. a \in Reach(rep[d].versions)[v.at] => a \in Past[v.at]
    BY <1>1, <2>1, ReachInPast
  <2>4. ASSUME ~v.legacy, seen[v.at] \subseteq Stamps(rep[d].versions), a \in seen[v.at]
        PROVE  a \in Reach(rep[d].versions)[v.at]
    BY <1>1, <2>1, <2>4, PatchReaches
  <2> QED
    BY <2>2, <2>3, <2>4
<1>2. MergeInv => OrderIsCausality
  BY <1>1
<1> QED
  BY <1>2, AlwaysMergeInv, PTL

-----------------------------------------------------------------------------
(* Who wins a register. *)

\* A person's write.
User(m) == m.origin # "generated"

\* Origin first, then the class rule, then the stamp.
LEMMA OutranksIs ==
    ASSUME NEW class, NEW m, NEW n
    PROVE  Outranks(class, m, n) <=>
             \/ User(m) /\ ~User(n)
             \/ (User(m) <=> User(n)) /\ ClassKey(class, m) /\ ~ClassKey(class, n)
             \/ /\ User(m) <=> User(n)
                /\ ClassKey(class, m) <=> ClassKey(class, n)
                /\ Below(n.at, m.at)
  BY Zenon DEF Outranks, User, ClassKey

\* A register with members has a winner.
LEMMA WinnerIs ==
    ASSUME NEW class, NEW vs, Applied(vs), NEW ms, ms # {},
           \A m \in ms : m.at \in Stamps(vs),
           \A m, n \in ms : m.at = n.at => m = n
    PROVE  /\ Winner(class, ms) \in ms
           /\ \A n \in ms \ {Winner(class, ms)} : Outranks(class, Winner(class, ms), n)
<1> DEFINE U == IF \E m \in ms : User(m) THEN {m \in ms : User(m)} ELSE ms
           K == IF \E m \in U : ClassKey(class, m) THEN {m \in U : ClassKey(class, m)} ELSE U
           B == {m.at : m \in K}
<1>0. Stamps(vs) \subseteq OptStamp
  BY StampsAre DEF Applied
<1>1. U # {} /\ U \subseteq ms /\ \A m \in U, n \in ms : User(m) \/ ~User(n)
  OBVIOUS
<1>2. \A m \in U, n \in ms : n \notin U => User(m) /\ ~User(n)
  OBVIOUS
<1>3. \A m, n \in U : User(m) <=> User(n)
  OBVIOUS
<1> HIDE DEF U
<1>4. K # {} /\ K \subseteq U
  BY <1>1
<1>5. \A m \in K, n \in U : n \notin K => ClassKey(class, m) /\ ~ClassKey(class, n)
  OBVIOUS
<1>6. \A m, n \in K : ClassKey(class, m) <=> ClassKey(class, n)
  OBVIOUS
<1> HIDE DEF K
<1>7. PICK t \in B : \A u \in B : AtMost(u, t)
  <2>1. B \in SUBSET Stamps(vs) /\ B # {}
    BY <1>1, <1>4
  <2>2. B \subseteq OptStamp /\ IsFiniteSet(B)
    BY <2>1, AppliedStamps
  <2> QED
    BY <2>1, <2>2, GreatestStamp
<1>8. PICK w \in K : w.at = t
  BY <1>7
<1>9. ASSUME NEW n \in ms \ {w} PROVE Outranks(class, w, n)
  <2>1. CASE n \notin U
    BY <1>2, <1>4, <1>8, <2>1, OutranksIs
  <2>2. CASE n \in U /\ n \notin K
    BY <1>3, <1>4, <1>5, <1>8, <2>2, OutranksIs
  <2>3. CASE n \in K
    <3>1. AtMost(n.at, w.at) /\ n.at # w.at
      BY <1>1, <1>4, <1>7, <1>8, <1>9, <2>3
    <3>2. Below(n.at, w.at)
      BY <3>1 DEF AtMost
    <3> QED
      BY <1>3, <1>4, <1>6, <1>8, <2>3, <3>2, OutranksIs
  <2> QED
    BY <2>1, <2>2, <2>3
<1>10. \E m \in ms : \A n \in ms \ {m} : Outranks(class, m, n)
  BY <1>1, <1>4, <1>8, <1>9
<1> QED
  BY <1>10, Zenon DEF Winner

(***************************************************************************)
(* For any fields, classes and ops: a user's write of the class's dominant *)
(* value stands against every write that does not have it in its past, and *)
(* a generated write never beats a user's write outside its past.          *)
(***************************************************************************)
THEOREM DominantStands == Spec => []DominantWriteStands
<1>1. ASSUME MergeInv PROVE DominantWriteStands
  <2> SUFFICES ASSUME NEW d \in Device, NEW f \in Field
               PROVE
        LET s == rep[d]
            live == {m \in Writes(s.versions, f) : ~Below(m.at, s.legacy)}
            unseen(m) == \A n \in live : m.at \notin Past[n.at]
        IN  /\ (\E m \in live : /\ m.origin = "user" /\ unseen(m)
                                /\ ClassKey(ClassOf[f], m))
                  => ClassKey(ClassOf[f], [val |-> RegisterValue(s, f)])
            /\ (\E m \in live : m.origin = "user" /\ unseen(m))
                  => Winner(ClassOf[f], s.members[f]).origin = "user"
    BY Zenon DEF DominantWriteStands
  <2> DEFINE s == rep[d]
             vs == s.versions
             live == {m \in Writes(vs, f) : ~Below(m.at, s.legacy)}
             ms == s.members[f]
             class == ClassOf[f]
             W == Winner(class, ms)
  <2>0. /\ StateExact(s) /\ Applied(vs) /\ VersionsOK(vs) /\ vs \subseteq ops
    BY <1>1, ReplicaFacts
  <2>1. ms = {m \in live : \A n \in live : m.at \notin Reach(vs)[n.at]}
    BY <2>0 DEF StateExact, RegisterExact, Undominated, Candidates
  <2>2. \A m \in Writes(vs, f) : /\ m.at \in Stamps(vs)
                                 /\ m.origin \in {"user", "generated"}
                                 /\ \A n \in Writes(vs, f) : m.at = n.at => m = n
    <3>1. \A m \in Writes(vs, f) : \E v \in vs :
             m = [at |-> v.at, val |-> v.sets[f], origin |-> v.origin]
      BY DEF Writes
    <3>2. \A v \in vs : v.origin \in {"user", "generated"} /\ v.at \in Stamps(vs)
      BY <1>1, <2>0 DEF MergeInv, Stamps
    <3>3. ASSUME NEW m \in Writes(vs, f)
          PROVE  m.at \in Stamps(vs) /\ m.origin \in {"user", "generated"}
      <4>1. PICK v \in vs : m = [at |-> v.at, val |-> v.sets[f], origin |-> v.origin]
        BY <3>1
      <4>2. m.at = v.at /\ m.origin = v.origin
        BY <4>1
      <4> QED
        BY <3>2, <4>2
    <3>4. ASSUME NEW m \in Writes(vs, f), NEW n \in Writes(vs, f), m.at = n.at PROVE m = n
      <4>1. PICK v \in vs : m = [at |-> v.at, val |-> v.sets[f], origin |-> v.origin]
        BY <3>1
      <4>2. PICK w \in vs : n = [at |-> w.at, val |-> w.sets[f], origin |-> w.origin]
        BY <3>1
      <4>3. v.at = w.at
        BY <3>4, <4>1, <4>2
      <4>4. v = w
        BY <2>0, <4>3 DEF VersionsOK
      <4> QED
        BY <4>1, <4>2, <4>4
    <3> QED
      BY <3>3, <3>4
  <2>3. \A m \in live, n \in live : m.at \in Reach(vs)[n.at] => m.at \in Past[n.at]
    BY <1>1, <2>0, <2>2, ReachInPast
  <2>4. ASSUME NEW m \in live, \A n \in live : m.at \notin Past[n.at], m.origin = "user"
        PROVE  /\ W \in ms /\ W.origin = "user" /\ ~Below(W.at, s.legacy)
               /\ ClassKey(class, m) => ClassKey(class, W)
    <3>1. m \in ms
      BY <2>1, <2>3, <2>4
    <3>2. ms \subseteq live /\ live \subseteq Writes(vs, f)
      BY <2>1
    <3> HIDE DEF ms, live
    <3>3. W \in ms /\ \A n \in ms \ {W} : Outranks(class, W, n)
      <4>1. \A x \in ms : x.at \in Stamps(vs)
        BY <2>2, <3>2
      <4>2. \A x, y \in ms : x.at = y.at => x = y
        BY <2>2, <3>2
      <4> QED
        BY <2>0, <3>1, <4>1, <4>2, WinnerIs
    <3>4. W = m \/ Outranks(class, W, m)
      BY <3>1, <3>3
    <3>5. User(m)
      BY <2>4 DEF User
    <3>6. User(W) /\ (ClassKey(class, m) => ClassKey(class, W))
      BY <3>4, <3>5, OutranksIs
    <3>7. W \in live /\ W.origin \in {"user", "generated"}
      BY <2>2, <3>2, <3>3
    <3> QED
      BY <3>3, <3>6, <3>7 DEF User, live
  <2>5. ASSUME W \in ms, ~Below(W.at, s.legacy) PROVE RegisterValue(s, f) = W.val
    BY <2>5 DEF RegisterValue, Superseded
  <2>6. ClassKey(class, W) => ClassKey(class, [val |-> W.val])
    BY DEF ClassKey
  <2> HIDE DEF W, ms
  <2> QED
    BY <2>4, <2>5, <2>6 DEF W, ms
<1>2. MergeInv => DominantWriteStands
  BY <1>1
<1> QED
  BY <1>2, AlwaysMergeInv, PTL
=============================================================================
