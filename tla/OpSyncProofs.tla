---------------------------- MODULE OpSyncProofs ----------------------------
(***************************************************************************)
(* The sync of OpSync for every number of devices, ops, sessions and       *)
(* losses: an op leaves the outbox only when the relay has stored it, the  *)
(* whole implements the delivery that OpDelivery specifies, what a stream  *)
(* owes a device is on its way to it, and a loss the relay knows of        *)
(* reaches the device as a gap.                                            *)
(*                                                                         *)
(* The argument has two layers.  DeliveryInv is about the way up: an ack   *)
(* in hand was given for a batch of this session that the relay stored     *)
(* (Numbered, Requested), and every op anywhere was committed by its       *)
(* device (Written, Streamed).  It is enough for the refinement.           *)
(* StreamInv is about the way down, and adds how far each stage of a       *)
(* stream may lag behind the relay's rows (Behind), what its queued events *)
(* have reported (Reports), and the two properties themselves, stated of   *)
(* one device.  Both contain RelayInv, the invariant of the relay's log:   *)
(* retention never hides a loss.                                           *)
(***************************************************************************)
EXTENDS OpSyncProps, TLAPS, FiniteSetTheorems, WellFoundedInduction

-----------------------------------------------------------------------------
(***************************************************************************)
(* The relay's durable log, for any devices, bounds and retention limits.  *)
(* ReplayIsComplete alone is not inductive: it speaks of the frames a      *)
(* reader's cursors select, and says nothing of an op that all the cursors *)
(* pass, which an eviction must still record.  RelayInv therefore says     *)
(* that every op ever accepted is Accounted for, in a frame or below its   *)
(* device's watermark.                                                     *)
(***************************************************************************)

RelayInv == RelayTypeOK /\ Accounted

-----------------------------------------------------------------------------
(* The greatest element of a bounded set of naturals. *)

LEMMA MaxOfBounded ==
    ASSUME NEW N \in Nat, NEW S, S \subseteq 0..N, S # {}
    PROVE  Max(S) \in S /\ \A y \in S : y <= Max(S)
<1> DEFINE T == {n \in 0..N : N - n \in S}
<1>1. T \subseteq Nat /\ T # {}
  <2>1. PICK x \in S : TRUE
    OBVIOUS
  <2>2. x \in 0..N /\ N - x \in 0..N /\ N - (N - x) = x
    BY <2>1
  <2>3. N - x \in T
    BY <2>1, <2>2
  <2>4. T \subseteq Nat
    OBVIOUS
  <2>5. T # {}
    <3> HIDE DEF T
    <3> QED
      BY <2>3
  <2> QED
    BY <2>4, <2>5
<1>2. PICK t \in T : \A u \in T : ~(<<u, t>> \in OpToRel(<, Nat))
  <2> HIDE DEF T
  <2> QED
    BY <1>1, NatLessThanWellFounded, WFMin, Zenon
<1>3. \A u \in T : t <= u
  <2> HIDE DEF T
  <2>1. \A u \in T : ~(u < t)
    BY <1>1, <1>2, Zenon DEF OpToRel
  <2>2. t \in Nat /\ \A u \in T : u \in Nat
    BY <1>1, <1>2, Zenon
  <2> QED
    BY <2>1, <2>2
<1>4. N - t \in S /\ N - t \in 0..N
  BY <1>2
<1>5. \A y \in S : y <= N - t
  <2>1. SUFFICES ASSUME NEW y \in S PROVE y <= N - t
    OBVIOUS
  <2>2. y \in 0..N /\ N - y \in 0..N /\ N - (N - y) = y
    OBVIOUS
  <2>3. N - y \in T
    BY <2>2
  <2>4. t \in 0..N /\ t <= N - y
    <3>1. t \in 0..N
      BY <1>2
    <3> HIDE DEF T
    <3> QED
      BY <1>3, <2>3, <3>1
  <2> QED
    BY <2>2, <2>4
<1> HIDE DEF T
<1>6. \E x \in S : \A y \in S : x >= y
  <2>1. \A y \in S : N - t >= y
    BY <1>4, <1>5
  <2> QED
    BY <1>4, <2>1
<1>7. Max(S) \in S /\ \A y \in S : Max(S) >= y
  BY <1>6 DEF Max
<1> QED
  BY <1>7

\* A watermark after an eviction is a seq, is at least the one before, and
\* passes every op of its device in a deleted frame.
LEMMA WatermarkPasses ==
    ASSUME NEW d \in Device, NEW doomed, evicted \in Cursors,
           \A f \in doomed : f.ops \subseteq Op
    PROVE  /\ EvictedThrough(d, doomed) \in 0..MaxSeq
           /\ evicted[d] <= EvictedThrough(d, doomed)
           /\ \A f \in doomed : \A op \in f.ops :
                op.dev = d => op.seq <= EvictedThrough(d, doomed)
<1> DEFINE S == {evicted[d]} \cup SeqsOf(UNION {f.ops : f \in doomed}, d)
<1>1. S \subseteq 0..MaxSeq /\ S # {}
  BY DEF SeqsOf, Op, Cursors
<1>2. Max(S) \in S /\ \A y \in S : y <= Max(S)
  <2> HIDE DEF S
  <2> QED
    BY <1>1, MaxOfBounded, RelayBoundAssumption
<1>3. EvictedThrough(d, doomed) = Max(S)
  BY DEF EvictedThrough
<1>4. \A f \in doomed : \A op \in f.ops : op.dev = d => op.seq \in S
  BY DEF SeqsOf
<1>5. evicted[d] \in S
  OBVIOUS
<1> HIDE DEF S
<1> QED
  BY <1>1, <1>2, <1>3, <1>4, <1>5

-----------------------------------------------------------------------------
(* What one append does to the log. *)

LEMMA AppendKeepsLosses ==
    ASSUME RelayTypeOK,
           NEW ops \in Batch, NEW batchId \in Nat,
           NEW expired \in SUBSET frames,
           AppendFresh(ops, batchId, expired)
    PROVE  /\ evicted' \in Cursors
           /\ \A d \in Device : evicted[d] <= evicted'[d]
           /\ \A f \in frames : \A op \in f.ops :
                \/ \E g \in frames' : op \in g.ops
                \/ op.seq <= evicted'[op.dev]
           /\ \A op \in ops : \/ \E g \in frames' : op \in g.ops
                              \/ op.seq <= evicted'[op.dev]
<1> DEFINE new == [id |-> lastId + 1, ops |-> ops, batch |-> batchId]
           F == frames \cup {new}
           doomed == expired \cup OverBudget(F)
<1>1. /\ frames' = F \ doomed
      /\ evicted' = [d \in Device |-> EvictedThrough(d, doomed)]
  BY DEF AppendFresh, Retain
<1>2. new.ops = ops
  OBVIOUS
<1>3. doomed \subseteq F
  BY DEF OverBudget
<1>4. \A f \in F : f.ops \subseteq Op
  <2>1. \A f \in frames : f.ops \subseteq Op
    BY DEF RelayTypeOK, Frame, Batch
  <2>2. ops \subseteq Op
    BY DEF Batch
  <2> QED
    BY <1>2, <2>1, <2>2
<1>5. evicted \in Cursors
  BY DEF RelayTypeOK
<1> HIDE DEF new, F, doomed
<1>6. \A d \in Device :
        /\ EvictedThrough(d, doomed) \in 0..MaxSeq
        /\ evicted[d] <= EvictedThrough(d, doomed)
        /\ \A f \in doomed : \A op \in f.ops :
             op.dev = d => op.seq <= EvictedThrough(d, doomed)
  BY <1>3, <1>4, <1>5, WatermarkPasses
<1>7. evicted' \in Cursors
  BY <1>1, <1>6 DEF Cursors
<1>8. \A d \in Device : evicted[d] <= evicted'[d]
  BY <1>1, <1>6
<1>9. \A f \in F : \A op \in f.ops :
        (\E g \in frames' : op \in g.ops) \/ op.seq <= evicted'[op.dev]
  <2>1. SUFFICES ASSUME NEW f \in F, NEW op \in f.ops, f \notin frames'
                 PROVE  op.seq <= evicted'[op.dev]
    OBVIOUS
  <2>2. f \in doomed
    BY <1>1, <2>1
  <2>3. op.dev \in Device
    BY <1>4, <2>1 DEF Op
  <2> QED
    BY <1>1, <1>6, <2>1, <2>2, <2>3
<1>10. frames \subseteq F /\ new \in F
  BY DEF F
<1> QED
  BY <1>2, <1>7, <1>8, <1>9, <1>10

-----------------------------------------------------------------------------
(* The inductive invariant. *)

LEMMA InitRelayInv == RelayInit => RelayInv
<1> SUFFICES ASSUME RelayInit PROVE RelayInv
  OBVIOUS
<1>1. RelayTypeOK
  BY RelayBoundAssumption DEF RelayInit, RelayTypeOK, Cursors
<1>2. Accounted
  BY DEF RelayInit, Accounted
<1> QED
  BY <1>1, <1>2 DEF RelayInv

LEMMA FreshTypeOK ==
    ASSUME RelayTypeOK,
           NEW ops \in Batch, NEW batchId \in Nat,
           NEW expired \in SUBSET frames,
           AppendFresh(ops, batchId, expired)
    PROVE  RelayTypeOK'
<1> DEFINE new == [id |-> lastId + 1, ops |-> ops, batch |-> batchId]
<1>1. frames' \subseteq frames \cup {new}
  BY DEF AppendFresh, Retain
<1>2. lastId \in Nat /\ lastId < MaxAppends /\ lastId' = lastId + 1
  BY RelayBoundAssumption DEF RelayTypeOK, AppendFresh
<1>3. lastId' \in 0..MaxAppends /\ lastId + 1 \in 1..MaxAppends
  BY <1>2, RelayBoundAssumption
<1>4. new \in Frame
  BY <1>3 DEF Frame
<1>5. frames' \subseteq Frame
  BY <1>1, <1>4 DEF RelayTypeOK
<1>6. \A f \in frames : f.id \in Nat /\ f.id <= lastId
  BY DEF RelayTypeOK, Frame
<1>7. new.id = lastId + 1
  OBVIOUS
<1> HIDE DEF new
<1>8. \A f \in frames' : f.id <= lastId'
  BY <1>1, <1>2, <1>6, <1>7
<1>9. \A f, g \in frames' : f.id = g.id => f = g
  <2>1. \A f \in frames : f.id # new.id
    BY <1>2, <1>6, <1>7
  <2>2. \A f, g \in frames : f.id = g.id => f = g
    BY DEF RelayTypeOK
  <2> QED
    BY <1>1, <2>1, <2>2
<1>10. evicted' \in Cursors
  BY AppendKeepsLosses
<1>11. stored' \subseteq Op
  BY DEF RelayTypeOK, AppendFresh, Batch
<1> QED
  BY <1>3, <1>5, <1>8, <1>9, <1>10, <1>11 DEF RelayTypeOK

\* The relay's invariant is what a subscriber is promised.
LEMMA AccountedReplay == RelayInv => ReplayIsComplete
<1>1. SUFFICES ASSUME RelayInv, NEW c \in Cursors, NEW op \in stored,
                      ~(op.seq <= c[op.dev])
               PROVE  \/ \E f \in Replay(c) : op \in f.ops
                      \/ op.dev \in Gaps(c)
  BY DEF ReplayIsComplete
<1>2. op.dev \in Device /\ op.seq \in Nat
  BY <1>1 DEF RelayInv, RelayTypeOK, Op
<1>3. c[op.dev] \in Nat /\ evicted[op.dev] \in Nat
  BY <1>1, <1>2 DEF RelayInv, RelayTypeOK, Cursors
<1>4. CASE \E f \in frames : op \in f.ops
  BY <1>1, <1>4 DEF Replay, Covered
<1>5. CASE op.seq <= evicted[op.dev]
  BY <1>1, <1>2, <1>3, <1>5 DEF Gaps
<1> QED
  BY <1>1, <1>4, <1>5 DEF RelayInv, Accounted

-----------------------------------------------------------------------------
(* The sync: the records a session and a stream keep. *)


\* A batch in flight.
Outgoing == [id : Nat, seqs : {S \in SUBSET (1..MaxSeq) : S # {}}, tries : Nat]

Session == [batches : Nat,
            inflight : SUBSET Outgoing,
            acks : SUBSET Nat,
            submit : BOOLEAN, caughtUp : BOOLEAN,
            applied : BOOLEAN, failed : BOOLEAN, deferred : BOOLEAN]

Request == [dev : Device, batch : Nat, ops : Batch, live : BOOLEAN]

RxFrame == [ops : SUBSET Op, from : Device, live : BOOLEAN]

Event == [kind : {"ops"}, ops : SUBSET Op]
           \cup [kind : {"gap"}, through : Cursors]
           \cup [kind : {"caughtUp"}]
           \cup [kind : {"closed"}, code : Codes]

Stream == [stage : {"none", "opened", "live", "ended"}, cursors : Cursors,
           rx : Seq(RxFrame), events : Seq(Event)]

SyncTypeOK ==
    /\ log \in [Device -> SUBSET Op] /\ floor \in [Device -> Cursors]
    /\ outbox \in [Device -> SUBSET (1..MaxSeq)]
    /\ st \in [Device -> SyncState]
    /\ sess \in [Device -> Session]
    /\ stream \in [Device -> Stream]
    /\ up \subseteq Request /\ posting \subseteq Request
    /\ pin \in Cursors
    /\ told \in [Device -> Cursors] /\ excused \in [Device -> BOOLEAN]

-----------------------------------------------------------------------------
(* Sequences as the sets of their elements. *)

LEMMA RangeType ==
    ASSUME NEW T, NEW s \in Seq(T)
    PROVE  Range(s) \subseteq T
<1>1. DOMAIN s = 1..Len(s) /\ \A i \in 1..Len(s) : s[i] \in T
  OBVIOUS
<1> QED
  BY <1>1 DEF Range

LEMMA RangeOfTail ==
    ASSUME NEW T, NEW s \in Seq(T), s # <<>>
    PROVE  /\ Head(s) \in T /\ Tail(s) \in Seq(T)
           /\ Range(s) = {Head(s)} \cup Range(Tail(s))
<1>1. /\ Len(s) \in Nat /\ Len(s) >= 1 /\ DOMAIN s = 1..Len(s)
      /\ Head(s) = s[1] /\ Head(s) \in T /\ Tail(s) \in Seq(T)
      /\ DOMAIN Tail(s) = 1..(Len(s) - 1)
      /\ \A i \in 1..(Len(s) - 1) : Tail(s)[i] = s[i + 1]
  OBVIOUS
<1>2. ASSUME NEW x \in Range(s) PROVE x \in {Head(s)} \cup Range(Tail(s))
  <2>1. PICK i \in 1..Len(s) : x = s[i]
    BY <1>1, <1>2 DEF Range
  <2>2. CASE i = 1
    BY <1>1, <2>1, <2>2
  <2>3. CASE i # 1
    <3>1. i - 1 \in 1..(Len(s) - 1) /\ Tail(s)[i - 1] = s[i]
      BY <1>1, <2>1, <2>3
    <3> QED
      BY <1>1, <2>1, <3>1 DEF Range
  <2> QED
    BY <2>2, <2>3
<1>3. ASSUME NEW x \in {Head(s)} \cup Range(Tail(s)) PROVE x \in Range(s)
  <2>1. CASE x = Head(s)
    <3>1. 1 \in DOMAIN s /\ x = s[1]
      BY <1>1, <2>1
    <3> QED
      BY <3>1 DEF Range
  <2>2. CASE x \in Range(Tail(s))
    <3>1. PICK i \in 1..(Len(s) - 1) : x = Tail(s)[i]
      BY <1>1, <2>2 DEF Range
    <3>2. i + 1 \in DOMAIN s /\ x = s[i + 1]
      BY <1>1, <3>1
    <3> QED
      BY <3>2 DEF Range
  <2> QED
    BY <1>3, <2>1, <2>2
<1> QED
  BY <1>1, <1>2, <1>3

LEMMA RangeOfAppend ==
    ASSUME NEW T, NEW s \in Seq(T), NEW x \in T
    PROVE  /\ Append(s, x) \in Seq(T)
           /\ Range(Append(s, x)) = Range(s) \cup {x}
<1>1. /\ Len(s) \in Nat /\ DOMAIN s = 1..Len(s)
      /\ Append(s, x) \in Seq(T)
      /\ DOMAIN Append(s, x) = 1..(Len(s) + 1)
      /\ \A i \in 1..Len(s) : Append(s, x)[i] = s[i]
      /\ Append(s, x)[Len(s) + 1] = x
  OBVIOUS
<1>2. ASSUME NEW y \in Range(Append(s, x)) PROVE y \in Range(s) \cup {x}
  <2>1. PICK i \in 1..(Len(s) + 1) : y = Append(s, x)[i]
    BY <1>1, <1>2 DEF Range
  <2>2. i \in 1..Len(s) \/ i = Len(s) + 1
    BY <1>1, <2>1
  <2> QED
    BY <1>1, <2>1, <2>2 DEF Range
<1>3. ASSUME NEW y \in Range(s) \cup {x} PROVE y \in Range(Append(s, x))
  <2>1. CASE y = x
    <3>1. Len(s) + 1 \in DOMAIN Append(s, x)
      BY <1>1
    <3> QED
      BY <1>1, <2>1, <3>1 DEF Range
  <2>2. CASE y \in Range(s)
    <3>1. PICK i \in 1..Len(s) : y = s[i]
      BY <1>1, <2>2 DEF Range
    <3>2. i \in DOMAIN Append(s, x) /\ y = Append(s, x)[i]
      BY <1>1, <3>1
    <3> QED
      BY <3>2 DEF Range
  <2> QED
    BY <1>3, <2>1, <2>2
<1> QED
  BY <1>1, <1>2, <1>3

LEMMA RangeOfConcat ==
    ASSUME NEW T, NEW s \in Seq(T), NEW t \in Seq(T)
    PROVE  /\ s \o t \in Seq(T)
           /\ Range(s \o t) = Range(s) \cup Range(t)
<1> DEFINE u == s \o t
<1>1. /\ Len(s) \in Nat /\ DOMAIN s = 1..Len(s)
      /\ Len(t) \in Nat /\ DOMAIN t = 1..Len(t)
      /\ u \in Seq(T) /\ DOMAIN u = 1..(Len(s) + Len(t))
      /\ \A i \in 1..Len(s) : u[i] = s[i]
      /\ \A i \in (Len(s) + 1)..(Len(s) + Len(t)) : u[i] = t[i - Len(s)]
  OBVIOUS
<1> HIDE DEF u
<1>2. ASSUME NEW y \in Range(u) PROVE y \in Range(s) \cup Range(t)
  <2>1. PICK i \in 1..(Len(s) + Len(t)) : y = u[i]
    BY <1>1, <1>2 DEF Range
  <2>2. CASE i \in 1..Len(s)
    BY <1>1, <2>1, <2>2 DEF Range
  <2>3. CASE i \notin 1..Len(s)
    <3>1. /\ i \in (Len(s) + 1)..(Len(s) + Len(t))
          /\ i - Len(s) \in 1..Len(t)
      BY <1>1, <2>1, <2>3
    <3> QED
      BY <1>1, <2>1, <3>1 DEF Range
  <2> QED
    BY <2>2, <2>3
<1>3. ASSUME NEW y \in Range(s) \cup Range(t) PROVE y \in Range(u)
  <2>1. CASE y \in Range(s)
    <3>1. PICK i \in 1..Len(s) : y = s[i]
      BY <1>1, <2>1 DEF Range
    <3>2. i \in DOMAIN u /\ y = u[i]
      BY <1>1, <3>1
    <3> QED
      BY <3>2 DEF Range
  <2>2. CASE y \in Range(t)
    <3>1. PICK i \in 1..Len(t) : y = t[i]
      BY <1>1, <2>2 DEF Range
    <3>2. i + Len(s) \in (Len(s) + 1)..(Len(s) + Len(t)) /\ (i + Len(s)) - Len(s) = i
      BY <1>1, <3>1
    <3>3. i + Len(s) \in DOMAIN u /\ y = u[i + Len(s)]
      BY <1>1, <3>1, <3>2
    <3> QED
      BY <3>3 DEF Range
  <2> QED
    BY <1>3, <2>1, <2>2
<1> QED
  BY <1>1, <1>2, <1>3 DEF u

-----------------------------------------------------------------------------
(* What the read of the durable log sends. *)

\* relay_frames' ids are distinct and no greater than the last one given out.
LEMMA FramesAreFinite ==
    ASSUME RelayTypeOK, NEW F \in SUBSET frames
    PROVE  IsFiniteSet(F)
<1> DEFINE id == [f \in F |-> f.id]
<1>1. \A f \in F : f.id \in 1..MaxAppends
  BY DEF RelayTypeOK, Frame
<1>2. \A f, g \in F : f.id = g.id => f = g
  BY DEF RelayTypeOK
<1>3. id \in Injection(F, 1..MaxAppends)
  BY <1>1, <1>2 DEF Injection, IsInjective
<1>4. IsFiniteSet(1..MaxAppends)
  BY FS_Interval, RelayBoundAssumption
<1> HIDE DEF id
<1> QED
  BY <1>3, <1>4, FS_Injection

\* The k-th frame by id: each frame has one rank, and every rank is taken.
LEMMA InIdOrderLists ==
    ASSUME RelayTypeOK, NEW F \in SUBSET frames
    PROVE  /\ InIdOrder(F) \in Seq(F)
           /\ Range(InIdOrder(F)) = F
<1> DEFINE n == Cardinality(F)
           below(f) == {g \in F : g.id <= f.id}
           rank == [f \in F |-> Cardinality(below(f))]
           at(k) == CHOOSE f \in F : Cardinality({g \in F : g.id <= f.id}) = k
<1>1. IsFiniteSet(F) /\ n \in Nat
  BY FramesAreFinite, FS_CardinalityType
<1>2. \A f, g \in F : f.id \in Nat /\ (f.id = g.id => f = g)
  BY DEF RelayTypeOK, Frame
<1>3. \A f \in F : below(f) \in SUBSET F /\ f \in below(f)
  BY <1>2
<1>4. \A f \in F : /\ IsFiniteSet(below(f))
                   /\ Cardinality(below(f)) \in Nat
                   /\ Cardinality(below(f)) <= n
                   /\ Cardinality(below(f)) # 0
  <2> HIDE DEF below
  <2>1. \A f \in F : IsFiniteSet(below(f)) /\ Cardinality(below(f)) <= n
                     /\ below(f) # {}
    BY <1>1, <1>3, FS_Subset
  <2> QED
    BY <2>1, FS_CardinalityType, FS_EmptySet
<1>5. rank \in [F -> 1..n]
  <2> HIDE DEF below, n
  <2>1. \A f \in F : Cardinality(below(f)) \in 1..n
    BY <1>1, <1>4
  <2> QED
    BY <2>1
<1>6. \A f, g \in F : f.id < g.id => rank[f] # rank[g]
  <2>1. SUFFICES ASSUME NEW f \in F, NEW g \in F, f.id < g.id
                 PROVE  Cardinality(below(f)) # Cardinality(below(g))
    OBVIOUS
  <2>2. below(f) \in SUBSET below(g) /\ g \notin below(f) /\ g \in below(g)
    BY <1>2, <2>1
  <2> HIDE DEF below
  <2> QED
    BY <1>4, <2>1, <2>2, FS_Subset
<1>7. \A f, g \in F : rank[f] = rank[g] => f = g
  <2> HIDE DEF rank
  <2>1. \A f, g \in F : f # g => f.id < g.id \/ g.id < f.id
    BY <1>2
  <2> QED
    BY <1>6, <2>1
<1>8. \A k \in 1..n : \E f \in F : rank[f] = k
  <2> HIDE DEF rank, n
  <2>1. rank \in Injection(F, 1..n)
    BY <1>5, <1>7 DEF Injection, IsInjective
  <2>2. IsFiniteSet(1..n) /\ Cardinality(1..n) = n
    BY <1>1, FS_Interval
  <2>3. rank \in Surjection(F, 1..n)
    BY <2>1, <2>2, FS_Injection DEF n
  <2> QED
    BY <2>3 DEF Surjection
<1>9. \A k \in 1..n : at(k) \in F /\ rank[at(k)] = k
  <2>1. \A k \in 1..n : \E f \in F : Cardinality({g \in F : g.id <= f.id}) = k
    BY <1>8
  <2> QED
    BY <2>1
<1>10. InIdOrder(F) = [k \in 1..n |-> at(k)]
  BY DEF InIdOrder
<1>11. \A f \in F : rank[f] \in 1..n /\ at(rank[f]) = f
  <2> HIDE DEF rank, n, at
  <2> QED
    BY <1>5, <1>7, <1>9
<1> HIDE DEF rank, n, at
<1>12. InIdOrder(F) \in Seq(F)
  BY <1>1, <1>9, <1>10
<1>13. Range(InIdOrder(F)) = F
  BY <1>9, <1>10, <1>11 DEF Range
<1> QED
  BY <1>12, <1>13

GapEvents(c) ==
    IF Gaps(c) = {} THEN {}
    ELSE {[kind |-> "gap", through |-> [d \in Device |->
                              IF d \in Gaps(c) THEN evicted[d] ELSE 0]]}

CaughtUp == [kind |-> "caughtUp"]

LEMMA ReplayEventsLists ==
    ASSUME RelayTypeOK, NEW c \in Cursors
    PROVE  /\ ReplayEvents(c) \in Seq(Event)
           /\ Range(ReplayEvents(c)) = GapEvents(c)
                \cup {OpsEvent(f.ops) : f \in Replay(c)} \cup {CaughtUp}
<1> DEFINE g == [kind |-> "gap", through |-> [d \in Device |->
                              IF d \in Gaps(c) THEN evicted[d] ELSE 0]]
           gap == IF Gaps(c) = {} THEN <<>> ELSE <<g>>
           replay == InIdOrder(Replay(c))
           ops == [i \in DOMAIN replay |-> OpsEvent(replay[i].ops)]
<1>1. ReplayEvents(c) = gap \o ops \o <<CaughtUp>>
  BY DEF ReplayEvents, CaughtUp
<1>2. g \in Event
  <2>1. [d \in Device |-> IF d \in Gaps(c) THEN evicted[d] ELSE 0] \in Cursors
    BY RelayBoundAssumption DEF RelayTypeOK, Cursors
  <2> QED
    BY <2>1 DEF Event
<1>3. gap \in Seq(Event) /\ Range(gap) = GapEvents(c)
  <2> HIDE DEF g
  <2>1. CASE Gaps(c) = {}
    <3>1. gap = <<>> /\ GapEvents(c) = {}
      BY <2>1 DEF GapEvents
    <3> HIDE DEF gap
    <3> QED
      BY <3>1 DEF Range
  <2>2. CASE Gaps(c) # {}
    <3>1. gap = <<g>> /\ GapEvents(c) = {g}
      BY <2>2 DEF GapEvents, g
    <3> HIDE DEF gap
    <3> QED
      BY <1>2, <3>1 DEF Range
  <2> QED
    BY <2>1, <2>2
<1>4. replay \in Seq(Replay(c)) /\ Range(replay) = Replay(c)
  <2>1. Replay(c) \in SUBSET frames
    BY DEF Replay
  <2> QED
    BY <2>1, InIdOrderLists
<1>5. \A f \in Replay(c) : OpsEvent(f.ops) \in Event
  BY DEF Replay, RelayTypeOK, Frame, Batch, OpsEvent, Event
<1> HIDE DEF replay
<1>6. ops \in Seq(Event) /\ Range(ops) = {OpsEvent(f.ops) : f \in Replay(c)}
  <2>1. /\ Len(replay) \in Nat /\ DOMAIN replay = 1..Len(replay)
        /\ \A i \in 1..Len(replay) : replay[i] \in Replay(c)
    BY <1>4
  <2>2. \A f \in Replay(c) : \E i \in 1..Len(replay) : f = replay[i]
    BY <1>4, <2>1 DEF Range
  <2>3. ops = [i \in 1..Len(replay) |-> OpsEvent(replay[i].ops)]
    BY <2>1
  <2> HIDE DEF ops
  <2>4. ops \in Seq(Event)
    BY <1>5, <2>1, <2>3
  <2>5. Range(ops) = {OpsEvent(f.ops) : f \in Replay(c)}
    BY <2>1, <2>2, <2>3 DEF Range
  <2> QED
    BY <2>4, <2>5
<1>7. CaughtUp \in Event /\ <<CaughtUp>> \in Seq(Event)
      /\ Range(<<CaughtUp>>) = {CaughtUp}
  <2>1. CaughtUp \in Event
    BY DEF CaughtUp, Event
  <2> QED
    BY <2>1 DEF Range
<1> HIDE DEF gap, ops
<1>8. gap \o ops \in Seq(Event) /\ Range(gap \o ops) = Range(gap) \cup Range(ops)
  BY <1>3, <1>6, RangeOfConcat
<1>9. /\ ReplayEvents(c) \in Seq(Event)
      /\ Range(ReplayEvents(c)) = Range(gap \o ops) \cup {CaughtUp}
  <2> DEFINE h == gap \o ops
             last == <<CaughtUp>>
  <2>1. ReplayEvents(c) = h \o last /\ h \in Seq(Event) /\ last \in Seq(Event)
    BY <1>1, <1>7, <1>8
  <2> HIDE DEF h, last
  <2>2. /\ ReplayEvents(c) \in Seq(Event)
        /\ Range(ReplayEvents(c)) = Range(h) \cup Range(last)
    BY <2>1, RangeOfConcat
  <2> QED
    BY <1>7, <2>2 DEF h, last
<1> QED
  BY <1>3, <1>6, <1>8, <1>9

-----------------------------------------------------------------------------
(* The cursors of a device. *)

\* upsert_sync_cursor: at and below its cursor a device holds everything.
LEMMA CursorFacts ==
    ASSUME NEW d \in Device
    PROVE  /\ CursorOf(d) \in Cursors
           /\ \A op \in Op : op.seq <= CursorOf(d)[op.dev] => Held(d, op)
           /\ \A e \in Device : \A n \in 1..MaxSeq :
                (\A k \in 1..n : Held(d, [dev |-> e, seq |-> k]))
                    => n <= CursorOf(d)[e]
<1> DEFINE S(e) == {0} \cup {n \in 1..MaxSeq : \A k \in 1..n :
                                          Held(d, [dev |-> e, seq |-> k])}
<1>1. CursorOf(d) = [e \in Device |-> Max(S(e))]
  BY DEF CursorOf
<1>2. \A e \in Device : S(e) \subseteq 0..MaxSeq /\ 0 \in S(e)
  BY RelayBoundAssumption
<1>3. \A e \in Device : /\ Max(S(e)) \in S(e)
                        /\ \A y \in S(e) : y <= Max(S(e))
  <2> HIDE DEF S
  <2> QED
    BY <1>2, MaxOfBounded, RelayBoundAssumption
<1>4. CursorOf(d) \in Cursors
  <2> HIDE DEF S
  <2> QED
    BY <1>1, <1>2, <1>3 DEF Cursors
<1>5. \A e \in Device : \A n \in S(e) : n \in 0..MaxSeq /\
          \A k \in 1..n : Held(d, [dev |-> e, seq |-> k])
  BY RelayBoundAssumption
<1>6. \A e \in Device : \A n \in 1..MaxSeq :
          (\A k \in 1..n : Held(d, [dev |-> e, seq |-> k])) => n \in S(e)
  OBVIOUS
<1> HIDE DEF S
<1>7. ASSUME NEW op \in Op, op.seq <= CursorOf(d)[op.dev] PROVE Held(d, op)
  <2>1. /\ op.dev \in Device /\ op.seq \in 1..MaxSeq
        /\ op = [dev |-> op.dev, seq |-> op.seq]
    BY DEF Op
  <2>2. CursorOf(d)[op.dev] = Max(S(op.dev)) /\ Max(S(op.dev)) \in S(op.dev)
    BY <1>1, <1>3, <2>1
  <2>3. op.seq \in 1..Max(S(op.dev)) /\ Max(S(op.dev)) \in 0..MaxSeq
    BY <1>5, <1>7, <2>1, <2>2
  <2> QED
    BY <1>5, <2>1, <2>2, <2>3
<1>8. ASSUME NEW e \in Device, NEW n \in 1..MaxSeq,
             \A k \in 1..n : Held(d, [dev |-> e, seq |-> k])
      PROVE  n <= CursorOf(d)[e]
  BY <1>1, <1>3, <1>6, <1>8
<1> QED
  BY <1>4, <1>7, <1>8

-----------------------------------------------------------------------------
(* Types of the parts the steps are made of. *)

LEMMA OwnFacts ==
    ASSUME NEW d \in Device, NEW seqs \in SUBSET (1..MaxSeq)
    PROVE  /\ Own(d, seqs) \subseteq Op
           /\ \A op \in Op : op \in Own(d, seqs) <=> op.dev = d /\ op.seq \in seqs
           /\ seqs # {} => Own(d, seqs) \in Batch
<1>1. Own(d, seqs) \subseteq Op
  BY DEF Own, Op
<1>2. \A op \in Op : op \in Own(d, seqs) <=> op.dev = d /\ op.seq \in seqs
  BY DEF Own, Op
<1>3. ASSUME seqs # {} PROVE Own(d, seqs) \in Batch
  <2>1. PICK n \in seqs : TRUE
    BY <1>3
  <2>2. [dev |-> d, seq |-> n] \in Own(d, seqs)
    BY DEF Own
  <2>3. Own(d, seqs) # {}
    BY <2>2
  <2>4. Own(d, seqs) \in SUBSET Op /\ Own(d, seqs) \notin {{}}
    BY <1>1, <2>3, Zenon
  <2> QED
    BY <2>4, Zenon DEF Batch
<1> QED
  BY <1>1, <1>2, <1>3

\* A device's ops in a log are finitely many.
LEMMA OwnOpsFinite ==
    ASSUME NEW d \in Device, NEW L \in SUBSET Op
    PROVE  IsFiniteSet({op \in L : op.dev = d})
<1> DEFINE own == {op \in L : op.dev = d}
           seq == [op \in own |-> op.seq]
<1>1. \A op \in own : op.seq \in 1..MaxSeq
  BY DEF Op
<1>2. \A op, p \in own : op.seq = p.seq => op = p
  BY DEF Op
<1> HIDE DEF own
<1>3. seq \in Injection(own, 1..MaxSeq)
  BY <1>1, <1>2 DEF Injection, IsInjective
<1>4. IsFiniteSet(1..MaxSeq)
  BY FS_Interval, RelayBoundAssumption
<1> HIDE DEF seq
<1>5. IsFiniteSet(own)
  BY <1>3, <1>4, FS_Injection
<1> QED
  BY <1>5 DEF own

LEMMA StreamTypes ==
    /\ Zero \in Cursors /\ NoStream \in Stream
    /\ \A c \in Cursors : Subscribed(c) \in Stream
<1>1. Zero \in Cursors
  BY RelayBoundAssumption DEF Zero, Cursors
<1>2. NoStream \in Stream
  BY <1>1 DEF NoStream, Stream
<1> QED
  BY <1>1, <1>2 DEF Subscribed, NoStream, Stream

LEMMA FreshType ==
    ASSUME SyncTypeOK, NEW d \in Device
    PROVE  /\ Fresh(d) \in Session /\ Fresh(d).batches = 0
           /\ Fresh(d).inflight = {} /\ Fresh(d).acks = {}
  BY DEF SyncTypeOK, Fresh, NoSession, Session

LEMMA WithBatchType ==
    ASSUME NEW s \in Session, NEW new \in SUBSET Outgoing,
           Cardinality(new) \in Nat
    PROVE  /\ WithBatch(s, new) \in Session
           /\ WithBatch(s, new).batches = s.batches + Cardinality(new)
           /\ WithBatch(s, new).inflight = s.inflight \cup new
           /\ WithBatch(s, new).acks = s.acks
<1>1. s.batches + Cardinality(new) \in Nat
  BY DEF Session
<1>2. s.inflight \cup new \in SUBSET Outgoing
  BY DEF Session
<1> QED
  BY <1>1, <1>2 DEF WithBatch, Session

LEMMA NewBatchFacts ==
    ASSUME SyncTypeOK, NEW d \in Device, NEW s \in Session
    PROVE  /\ \/ NewBatch(d, s) = {} /\ Cardinality(NewBatch(d, s)) = 0
              \/ \E b \in Outgoing :
                    /\ NewBatch(d, s) = {b} /\ Cardinality(NewBatch(d, s)) = 1
                    /\ b.id = s.batches + 1 /\ b.seqs \subseteq outbox[d]
           /\ WithBatch(s, NewBatch(d, s)) \in Session
           /\ {Message(d, b) : b \in NewBatch(d, s)} \subseteq Request
<1> DEFINE seqs == outbox[d] \ InflightSeqs(s)
           b == [id |-> s.batches + 1, seqs |-> seqs, tries |-> 0]
           new == NewBatch(d, s)
<1>1. seqs \in SUBSET (1..MaxSeq) /\ seqs \subseteq outbox[d]
  BY DEF SyncTypeOK
<1>2. s.batches + 1 \in Nat
  BY DEF Session
<1>3. CASE seqs = {}
  <2>1. new = {} /\ Cardinality(new) = 0
    BY <1>3, FS_EmptySet DEF NewBatch
  <2> HIDE DEF new
  <2>2. WithBatch(s, new) \in Session
    BY <2>1, WithBatchType
  <2> QED
    BY <2>1, <2>2 DEF new
<1>4. CASE seqs # {}
  <2>1. new = {b}
    BY <1>4 DEF NewBatch
  <2>2. Cardinality(new) = 1
    BY <2>1, FS_Singleton
  <2>3. b \in Outgoing /\ b.id = s.batches + 1 /\ b.seqs = seqs
    <3> HIDE DEF seqs
    <3> QED
      BY <1>1, <1>2, <1>4 DEF Outgoing
  <2> HIDE DEF new, b, seqs
  <2>4. WithBatch(s, new) \in Session
    BY <2>1, <2>2, <2>3, WithBatchType
  <2>5. Own(d, b.seqs) \in Batch
    BY <1>1, <1>4, <2>3, OwnFacts
  <2>6. Message(d, b) \in Request
    BY <2>3, <2>5 DEF Message, Request, Outgoing
  <2>7. {Message(d, x) : x \in new} = {Message(d, b)}
    BY <2>1
  <2>8. \E x \in Outgoing : new = {x} /\ Cardinality(new) = 1
                 /\ x.id = s.batches + 1 /\ x.seqs \subseteq outbox[d]
    BY <1>1, <2>1, <2>2, <2>3
  <2> QED
    BY <2>4, <2>6, <2>7, <2>8 DEF new
<1> QED
  BY <1>3, <1>4

LEMMA MessageType ==
    ASSUME NEW d \in Device, NEW b \in Outgoing
    PROVE  Message(d, b) \in Request
<1>1. b.seqs \in SUBSET (1..MaxSeq) /\ b.seqs # {} /\ b.id \in Nat
  BY DEF Outgoing
<1>2. Own(d, b.seqs) \in Batch
  BY <1>1, OwnFacts
<1> QED
  BY <1>1, <1>2 DEF Message, Request

LEMMA OrphanedFacts ==
    ASSUME NEW R \in SUBSET Request, NEW devs
    PROVE  /\ Orphaned(R, devs) \in SUBSET Request
           /\ \A m \in Orphaned(R, devs) :
                /\ m.live => m \in R /\ m.dev \notin devs
                /\ \E n \in R : m.dev = n.dev /\ m.ops = n.ops
           /\ \A n \in R : \E m \in Orphaned(R, devs) : m.ops = n.ops
<1>1. ASSUME NEW n \in R
      PROVE  [n EXCEPT !.live = FALSE] \in Request
             /\ [n EXCEPT !.live = FALSE].live = FALSE
             /\ [n EXCEPT !.live = FALSE].dev = n.dev
             /\ [n EXCEPT !.live = FALSE].ops = n.ops
  BY <1>1 DEF Request
<1>2. Orphaned(R, devs) \in SUBSET Request
  BY <1>1 DEF Orphaned
<1>3. ASSUME NEW m \in Orphaned(R, devs)
      PROVE  /\ m.live => m \in R /\ m.dev \notin devs
             /\ \E n \in R : m.dev = n.dev /\ m.ops = n.ops
  <2>1. PICK n \in R : m = IF n.dev \in devs THEN [n EXCEPT !.live = FALSE] ELSE n
    BY <1>3 DEF Orphaned
  <2> QED
    BY <1>1, <2>1
<1>4. ASSUME NEW n \in R PROVE \E m \in Orphaned(R, devs) : m.ops = n.ops
  <2> DEFINE m == IF n.dev \in devs THEN [n EXCEPT !.live = FALSE] ELSE n
  <2>1. m \in Orphaned(R, devs)
    BY <1>4 DEF Orphaned
  <2> QED
    BY <1>1, <1>4, <2>1
<1> QED
  BY <1>2, <1>3, <1>4

LEMMA EndSessionType ==
    ASSUME SyncTypeOK, NEW d \in Device, NEW state \in SyncState,
           EndSession(d, state)
    PROVE  /\ st' \in [Device -> SyncState] /\ sess' \in [Device -> Session]
           /\ stream' \in [Device -> Stream]
           /\ up' \subseteq Request /\ posting' \subseteq Request
<1>1. Fresh(d) \in Session /\ NoStream \in Stream
  BY FreshType, StreamTypes
<1>2. up' \subseteq Request /\ posting' \subseteq Request
  BY OrphanedFacts DEF EndSession, SyncTypeOK
<1> QED
  BY <1>1, <1>2 DEF EndSession, SyncTypeOK

LEMMA ConsumeType ==
    ASSUME SyncTypeOK, NEW d \in Device, stream[d].events # <<>>, Consume(d)
    PROVE  /\ stream' \in [Device -> Stream]
           /\ Head(stream[d].events) \in Event
           /\ stream'[d].stage = stream[d].stage
           /\ stream'[d].cursors = stream[d].cursors
           /\ stream'[d].rx = stream[d].rx
           /\ Range(stream[d].events) =
                {Head(stream[d].events)} \cup Range(stream'[d].events)
           /\ \A e \in Device : e # d => stream'[e] = stream[e]
<1>1. stream[d] \in Stream /\ stream[d].events \in Seq(Event)
  BY DEF SyncTypeOK, Stream
<1>2. /\ Head(stream[d].events) \in Event
      /\ Tail(stream[d].events) \in Seq(Event)
      /\ Range(stream[d].events) =
           {Head(stream[d].events)} \cup Range(Tail(stream[d].events))
  BY <1>1, RangeOfTail
<1>3. stream' = [stream EXCEPT ![d] =
                     [stream[d] EXCEPT !.events = Tail(stream[d].events)]]
  BY DEF Consume
<1>4. /\ stream'[d] = [stream[d] EXCEPT !.events = Tail(stream[d].events)]
      /\ \A e \in Device : e # d => stream'[e] = stream[e]
  BY <1>3 DEF SyncTypeOK
<1>5. [stream[d] EXCEPT !.events = Tail(stream[d].events)] \in Stream
  BY <1>1, <1>2 DEF Stream
<1>6. stream' \in [Device -> Stream]
  BY <1>3, <1>5 DEF SyncTypeOK
<1>7. /\ stream'[d].stage = stream[d].stage
      /\ stream'[d].cursors = stream[d].cursors
      /\ stream'[d].rx = stream[d].rx
      /\ stream'[d].events = Tail(stream[d].events)
  BY <1>1, <1>4 DEF Stream
<1> QED
  BY <1>2, <1>4, <1>6, <1>7

LEMMA MaybeLiveType ==
    ASSUME NEW state \in SyncState, NEW caughtUp, NEW unacked
    PROVE  MaybeLive(state, caughtUp, unacked) \in SyncState
  BY DEF MaybeLive, SyncState

\* The driver opens and ends sessions.
LEMMA SessionTypes ==
    ASSUME SyncTypeOK, NEW d \in Device,
           \/ Connect(d) \/ Renew(d) \/ DropSession(d) \/ RelayRestart
           \/ RecvClosed(d)
    PROVE  SyncTypeOK'
<1>1. CASE Connect(d)
  <2>1. Fresh(d) \in Session
    BY FreshType
  <2>2. /\ WithBatch(Fresh(d), NewBatch(d, Fresh(d))) \in Session
        /\ {Message(d, b) : b \in NewBatch(d, Fresh(d))} \subseteq Request
    BY <2>1, NewBatchFacts
  <2>3. Subscribed(CursorOf(d)) \in Stream /\ Zero \in Cursors
    BY CursorFacts, StreamTypes
  <2> QED
    BY <1>1, <2>2, <2>3 DEF Connect, SyncTypeOK, SyncState
<1>2. CASE Renew(d)
  BY <1>2 DEF Renew, SyncTypeOK, SyncState
<1>3. CASE DropSession(d)
  <2>1. "Disconnected" \in SyncState
    BY DEF SyncState
  <2> QED
    BY <1>3, <2>1, EndSessionType DEF DropSession, SyncTypeOK
<1>4. CASE RelayRestart
  <2>1. \A e \in Device : Fresh(e) \in Session
    BY FreshType
  <2>2. up' \subseteq Request
    BY <1>4, OrphanedFacts DEF RelayRestart, SyncTypeOK
  <2> QED
    BY <1>4, <2>1, <2>2, StreamTypes DEF RelayRestart, SyncTypeOK, SyncState
<1>5. CASE RecvClosed(d)
  <2> DEFINE state == IF IsTerminal(Head(stream[d].events).code)
                      THEN "Stopped" ELSE "Disconnected"
  <2>1. state \in SyncState
    BY DEF SyncState
  <2>2. EndSession(d, state)
    BY <1>5 DEF RecvClosed
  <2> HIDE DEF state
  <2> QED
    BY <1>5, <2>1, <2>2, EndSessionType DEF RecvClosed, SyncTypeOK
<1> QED
  BY <1>1, <1>2, <1>3, <1>4, <1>5

\* The pump: what it writes, sends and re-sends.
LEMMA SendTypes ==
    ASSUME SyncTypeOK, NEW d \in Device,
           \/ Write(d) \/ Drain(d) \/ Retransmit(d) \/ Resync(d)
           \/ PublishSnapshot(d) \/ RecvAck(d)
    PROVE  SyncTypeOK'
<1>1. CASE Write(d)
  <2> DEFINE n == Cardinality({op \in log[d] : op.dev = d}) + 1
  <2>1. {op \in log[d] : op.dev = d} \in SUBSET log[d]
    OBVIOUS
  <2>2. n \in 1..MaxSeq
    <3>1. IsFiniteSet({op \in log[d] : op.dev = d})
      BY OwnOpsFinite DEF SyncTypeOK
    <3>2. Cardinality({op \in log[d] : op.dev = d}) \in Nat
      BY <3>1, FS_CardinalityType
    <3>3. n <= MaxSeq
      BY <1>1 DEF Write
    <3> QED
      BY <3>2, <3>3, RelayBoundAssumption
  <2>3. /\ log' = [log EXCEPT ![d] = @ \cup {[dev |-> d, seq |-> n]}]
        /\ outbox' = [outbox EXCEPT ![d] = @ \cup {n}]
        /\ sess' = [sess EXCEPT ![d].submit = TRUE]
        /\ UNCHANGED <<floor, st, stream, up, posting, pin, told, excused>>
    BY <1>1 DEF Write
  <2> HIDE DEF n
  <2>4. [dev |-> d, seq |-> n] \in Op
    BY <2>2 DEF Op
  <2>5. sess' \in [Device -> Session]
    <3>1. sess \in [Device -> Session] /\ sess[d] \in Session
      BY DEF SyncTypeOK
    <3>2. [sess[d] EXCEPT !.submit = TRUE] \in Session
      BY <3>1 DEF Session
    <3> QED
      BY <2>3, <3>1, <3>2
  <2> QED
    BY <2>2, <2>3, <2>4, <2>5 DEF SyncTypeOK
<1>2. CASE Drain(d)
  <2> DEFINE new == NewBatch(d, sess[d])
             s == WithBatch(sess[d], new)
  <2>1. s \in Session /\ {Message(d, b) : b \in new} \subseteq Request
    BY NewBatchFacts DEF SyncTypeOK
  <2>2. /\ sess' = [sess EXCEPT ![d] = [s EXCEPT !.submit = FALSE]]
        /\ up' = up \cup {Message(d, b) : b \in new}
        /\ UNCHANGED <<log, floor, outbox, st, stream, posting, pin, told, excused>>
    BY <1>2 DEF Drain
  <2> HIDE DEF s, new
  <2>3. [s EXCEPT !.submit = FALSE] \in Session
    BY <2>1 DEF Session
  <2> QED
    BY <2>1, <2>2, <2>3 DEF SyncTypeOK
<1>3. CASE Retransmit(d)
  <2>1. PICK b \in sess[d].inflight :
          IF b.tries < MaxRetries
          THEN /\ sess' = [sess EXCEPT ![d].inflight =
                             (@ \ {b}) \cup {[b EXCEPT !.tries = @ + 1]}]
               /\ up' = up \cup {Message(d, b)}
               /\ UNCHANGED <<st, stream, posting>>
          ELSE EndSession(d, "Disconnected")
    BY <1>3 DEF Retransmit
  <2>2. UNCHANGED <<log, floor, outbox, pin, told, excused>>
    BY <1>3 DEF Retransmit
  <2>3. b \in Outgoing
    BY <2>1 DEF SyncTypeOK, Session
  <2>4. CASE b.tries < MaxRetries
    <3>1. [b EXCEPT !.tries = @ + 1] \in Outgoing
      BY <2>3 DEF Outgoing
    <3>2. Message(d, b) \in Request
      BY <2>3, MessageType
    <3>3. sess' \in [Device -> Session]
      <4> DEFINE left == (sess[d].inflight \ {b}) \cup {[b EXCEPT !.tries = @ + 1]}
      <4>1. left \in SUBSET Outgoing /\ sess[d] \in Session
        BY <3>1 DEF SyncTypeOK, Session
      <4>2. sess' = [sess EXCEPT ![d] = [sess[d] EXCEPT !.inflight = left]]
        BY <2>1, <2>4
      <4> HIDE DEF left
      <4>3. [sess[d] EXCEPT !.inflight = left] \in Session
        BY <4>1 DEF Session
      <4> QED
        BY <4>2, <4>3 DEF SyncTypeOK
    <3> QED
      BY <2>1, <2>2, <2>4, <3>2, <3>3 DEF SyncTypeOK
  <2>5. CASE ~(b.tries < MaxRetries)
    <3>1. EndSession(d, "Disconnected") /\ "Disconnected" \in SyncState
      BY <2>1, <2>5 DEF SyncState
    <3> QED
      BY <2>2, <3>1, EndSessionType DEF SyncTypeOK
  <2> QED
    BY <2>4, <2>5
<1>4. CASE Resync(d)
  <2>1. Subscribed(CursorOf(d)) \in Stream
    BY CursorFacts, StreamTypes
  <2> QED
    BY <1>4, <2>1 DEF Resync, driverVars, SyncTypeOK
<1>5. CASE PublishSnapshot(d)
  BY <1>5, CursorFacts DEF PublishSnapshot, driverVars, SyncTypeOK
<1>6. CASE RecvAck(d)
  <2>1. PICK id \in sess[d].acks :
          LET s == sess[d]
              done == {b \in s.inflight : b.id = id}
              left == outbox[d] \ UNION {b.seqs : b \in done}
          IN  /\ sess' = [sess EXCEPT ![d].acks = @ \ {id},
                                      ![d].inflight = @ \ done]
              /\ outbox' = [outbox EXCEPT ![d] = left]
              /\ st' = [st EXCEPT ![d] = MaybeLive(@, s.caughtUp, left)]
    BY <1>6 DEF RecvAck
  <2>2. UNCHANGED <<log, floor, stream, up, posting, pin, told, excused>>
    BY <1>6 DEF RecvAck
  <2>3. sess' \in [Device -> Session]
    <3> DEFINE acks == sess[d].acks \ {id}
               left == sess[d].inflight \ {b \in sess[d].inflight : b.id = id}
    <3>1. /\ acks \in SUBSET Nat /\ left \in SUBSET Outgoing
          /\ sess[d] \in Session
      BY DEF SyncTypeOK, Session
    <3>2. sess' = [sess EXCEPT ![d] = [sess[d] EXCEPT !.acks = acks,
                                                      !.inflight = left]]
      BY <2>1
    <3> HIDE DEF acks, left
    <3>3. [sess[d] EXCEPT !.acks = acks, !.inflight = left] \in Session
      BY <3>1 DEF Session
    <3> QED
      BY <3>2, <3>3 DEF SyncTypeOK
  <2>4. st' \in [Device -> SyncState]
    BY <2>1, MaybeLiveType DEF SyncTypeOK
  <2>5. outbox' \in [Device -> SUBSET (1..MaxSeq)]
    BY <2>1 DEF SyncTypeOK
  <2> QED
    BY <2>2, <2>3, <2>4, <2>5 DEF SyncTypeOK
<1> QED
  BY <1>1, <1>2, <1>3, <1>4, <1>5, <1>6

LEMMA LargerOfTwo ==
    ASSUME NEW x \in 0..MaxSeq, NEW y \in 0..MaxSeq
    PROVE  /\ Max({x, y}) \in {x, y} /\ Max({x, y}) \in 0..MaxSeq
           /\ x <= Max({x, y}) /\ y <= Max({x, y})
<1>1. {x, y} \subseteq 0..MaxSeq /\ {x, y} # {}
  OBVIOUS
<1>2. Max({x, y}) \in {x, y} /\ \A z \in {x, y} : z <= Max({x, y})
  BY <1>1, MaxOfBounded, RelayBoundAssumption
<1> QED
  BY <1>2

\* told and floor rise to the larger of what they were and what came in.
LEMMA JoinFacts ==
    ASSUME NEW a \in Cursors, NEW c \in Cursors
    PROVE  /\ [e \in Device |-> Max({a[e], c[e]})] \in Cursors
           /\ \A e \in Device :
                /\ Max({a[e], c[e]}) \in {a[e], c[e]}
                /\ a[e] <= Max({a[e], c[e]}) /\ c[e] <= Max({a[e], c[e]})
<1>1. \A e \in Device : a[e] \in 0..MaxSeq /\ c[e] \in 0..MaxSeq
  BY DEF Cursors
<1>2. \A e \in Device :
        /\ Max({a[e], c[e]}) \in {a[e], c[e]} /\ Max({a[e], c[e]}) \in 0..MaxSeq
        /\ a[e] <= Max({a[e], c[e]}) /\ c[e] <= Max({a[e], c[e]})
  BY <1>1, LargerOfTwo
<1> QED
  BY <1>2 DEF Cursors

LEMMA ReportedFacts ==
    ASSUME SyncTypeOK, NEW d \in Device, Reported(d), NextEvent(d, "gap")
    PROVE  LET g == Head(stream[d].events)
           IN  /\ g \in Range(stream[d].events) /\ g.kind = "gap"
               /\ g.through \in Cursors
               /\ told' \in [Device -> Cursors]
               /\ \A e \in Device :
                    /\ told'[d][e] \in {told[d][e], g.through[e]}
                    /\ told[d][e] <= told'[d][e] /\ g.through[e] <= told'[d][e]
               /\ \A e \in Device : e # d => told'[e] = told[e]
<1> DEFINE g == Head(stream[d].events)
           rises == [e \in Device |-> Max({told[d][e], g.through[e]})]
<1>1. stream[d].events \in Seq(Event) /\ stream[d].events # <<>> /\ g.kind = "gap"
  BY DEF SyncTypeOK, Stream, NextEvent
<1>2. g \in Event /\ g \in Range(stream[d].events)
  BY <1>1, RangeOfTail
<1>3. g.through \in Cursors
  BY <1>1, <1>2 DEF Event
<1>4. told' = [told EXCEPT ![d] = rises]
  BY DEF Reported
<1>5. told[d] \in Cursors
  BY DEF SyncTypeOK
<1> HIDE DEF g
<1>6. /\ rises \in Cursors
      /\ \A e \in Device :
           /\ rises[e] \in {told[d][e], g.through[e]}
           /\ told[d][e] <= rises[e] /\ g.through[e] <= rises[e]
  BY <1>3, <1>5, JoinFacts
<1> HIDE DEF rises
<1>7. /\ told' \in [Device -> Cursors] /\ told'[d] = rises
      /\ \A e \in Device : e # d => told'[e] = told[e]
  BY <1>4, <1>6 DEF SyncTypeOK
<1> QED
  BY <1>1, <1>2, <1>3, <1>6, <1>7 DEF g

\* What a device holds, it keeps, and its cursors do not fall.
Grows ==
    /\ \A d \in Device : log[d] \subseteq log'[d]
    /\ \A d, e \in Device : floor[d][e] <= floor'[d][e]

LEMMA CursorsGrow ==
    ASSUME SyncTypeOK, log' \in [Device -> SUBSET Op],
           floor' \in [Device -> Cursors], Grows, NEW d \in Device
    PROVE  /\ \A op \in Op : Held(d, op) => Held(d, op)'
           /\ CursorOf(d)' \in Cursors
           /\ \A e \in Device : CursorOf(d)[e] <= CursorOf(d)'[e]
<1> DEFINE S(e) == {0} \cup {n \in 1..MaxSeq : \A k \in 1..n :
                                          Held(d, [dev |-> e, seq |-> k])}
           T(e) == {0} \cup {n \in 1..MaxSeq : \A k \in 1..n :
                                          Held(d, [dev |-> e, seq |-> k])'}
<1>1. ASSUME NEW op \in Op, Held(d, op) PROVE Held(d, op)'
  <2>1. op.dev \in Device /\ op.seq \in Nat
    BY DEF Op
  <2>2. floor[d][op.dev] \in Nat /\ floor'[d][op.dev] \in Nat
    BY <2>1 DEF SyncTypeOK, Cursors
  <2>3. floor[d][op.dev] <= floor'[d][op.dev] /\ log[d] \subseteq log'[d]
    BY <2>1 DEF Grows
  <2> QED
    BY <1>1, <2>1, <2>2, <2>3 DEF Held
<1>2. \A e \in Device : \A k \in 1..MaxSeq : [dev |-> e, seq |-> k] \in Op
  BY DEF Op
<1>3. CursorOf(d) = [e \in Device |-> Max(S(e))]
  BY DEF CursorOf
<1>4. CursorOf(d)' = [e \in Device |-> Max(T(e))]
  BY DEF CursorOf
<1>5. \A e \in Device : \A k \in 1..MaxSeq :
          Held(d, [dev |-> e, seq |-> k]) => Held(d, [dev |-> e, seq |-> k])'
  BY <1>1, <1>2
<1>6. \A e \in Device : S(e) \subseteq T(e)
  <2>1. SUFFICES ASSUME NEW e \in Device, NEW n \in 1..MaxSeq,
                        \A k \in 1..n : Held(d, [dev |-> e, seq |-> k])
                 PROVE  \A k \in 1..n : Held(d, [dev |-> e, seq |-> k])'
    BY Zenon
  <2>2. \A k \in 1..n : k \in 1..MaxSeq
    BY RelayBoundAssumption
  <2> QED
    BY <1>5, <2>1, <2>2
<1>7. \A e \in Device : /\ S(e) \subseteq 0..MaxSeq /\ 0 \in S(e)
                        /\ T(e) \subseteq 0..MaxSeq /\ 0 \in T(e)
  BY RelayBoundAssumption
<1> HIDE DEF S, T
<1>8. \A e \in Device : /\ Max(S(e)) \in S(e)
                        /\ Max(T(e)) \in T(e)
                        /\ \A y \in T(e) : y <= Max(T(e))
  BY <1>7, MaxOfBounded, RelayBoundAssumption
<1>9. CursorOf(d)' \in Cursors
  BY <1>4, <1>7, <1>8 DEF Cursors
<1>10. \A e \in Device : Max(S(e)) <= Max(T(e))
  BY <1>6, <1>8
<1> QED
  BY <1>1, <1>3, <1>4, <1>9, <1>10

\* floor[d] and the stream after a joined snapshot record.
LEMMA AppliedFacts ==
    ASSUME SyncTypeOK, NEW d \in Device, RecvGapApplied(d)
    PROVE  /\ floor' \in [Device -> Cursors] /\ log' = log
           /\ Grows
           /\ \A e \in Device : /\ floor'[d][e] \in {floor[d][e], pin[e]}
                                /\ floor[d][e] <= floor'[d][e]
                                /\ pin[e] <= floor'[d][e]
           /\ \A e \in Device : e # d => floor'[e] = floor[e]
           /\ stream' \in [Device -> Stream]
           /\ stream'[d] = Subscribed(CursorOf(d)')
           /\ \A e \in Device : e # d => stream'[e] = stream[e]
           /\ CursorOf(d)' \in Cursors
<1> DEFINE joined == [e \in Device |-> Max({floor[d][e], pin[e]})]
<1>1. /\ floor' = [floor EXCEPT ![d] = joined] /\ log' = log
      /\ stream' = [stream EXCEPT ![d] = Subscribed(CursorOf(d)')]
  BY DEF RecvGapApplied
<1>2. /\ joined \in Cursors
      /\ \A e \in Device :
           /\ joined[e] \in {floor[d][e], pin[e]}
           /\ floor[d][e] <= joined[e] /\ pin[e] <= joined[e]
  BY JoinFacts DEF SyncTypeOK
<1> HIDE DEF joined
<1>3. /\ floor' \in [Device -> Cursors] /\ floor'[d] = joined
      /\ \A e \in Device : e # d => floor'[e] = floor[e]
  BY <1>1, <1>2 DEF SyncTypeOK
<1>4. Grows
  <2>1. \A c, e \in Device : floor[c][e] \in Nat
    BY DEF SyncTypeOK, Cursors
  <2> QED
    BY <1>1, <1>2, <1>3, <2>1 DEF Grows
<1>5. log' \in [Device -> SUBSET Op]
  BY <1>1 DEF SyncTypeOK
<1>6. CursorOf(d)' \in Cursors
  BY <1>3, <1>4, <1>5, CursorsGrow
<1>7. Subscribed(CursorOf(d)') \in Stream
  BY <1>6, StreamTypes
<1> QED
  BY <1>1, <1>2, <1>3, <1>4, <1>6, <1>7 DEF SyncTypeOK

\* The pump: what it reads.
LEMMA ReceiveTypes ==
    ASSUME SyncTypeOK, NEW d \in Device,
           \/ RecvOps(d) \/ RecvCaughtUp(d) \/ RecvDamaged(d)
           \/ RecvGapFails(d) \/ RecvGapDeferred(d) \/ RecvGapApplied(d)
    PROVE  SyncTypeOK'
<1>1. /\ sess[d] \in Session
      /\ [sess[d] EXCEPT !.caughtUp = TRUE] \in Session
      /\ [sess[d] EXCEPT !.failed = TRUE] \in Session
      /\ [sess[d] EXCEPT !.deferred = TRUE] \in Session
      /\ [sess[d] EXCEPT !.applied = TRUE, !.deferred = FALSE] \in Session
  BY DEF SyncTypeOK, Session
<1>2. CASE RecvOps(d)
  <2>1. /\ stream' \in [Device -> Stream] /\ Head(stream[d].events) \in Event
        /\ Head(stream[d].events).kind = "ops"
    BY <1>2, ConsumeType DEF RecvOps, NextEvent
  <2>2. Head(stream[d].events).ops \in SUBSET Op
    BY <2>1 DEF Event
  <2>3. log' \in [Device -> SUBSET Op]
    BY <1>2, <2>2 DEF RecvOps, SyncTypeOK
  <2>4. st' \in [Device -> SyncState]
    BY <1>2, MaybeLiveType DEF RecvOps, SyncTypeOK
  <2> QED
    BY <1>2, <2>1, <2>3, <2>4 DEF RecvOps, SyncTypeOK
<1>3. CASE RecvCaughtUp(d)
  <2>1. stream' \in [Device -> Stream]
    BY <1>3, ConsumeType DEF RecvCaughtUp, NextEvent
  <2>2. st' \in [Device -> SyncState]
    BY <1>3, MaybeLiveType DEF RecvCaughtUp, SyncTypeOK
  <2>3. sess' \in [Device -> Session]
    BY <1>1, <1>3 DEF RecvCaughtUp, SyncTypeOK
  <2> QED
    BY <1>3, <2>1, <2>2, <2>3 DEF RecvCaughtUp, SyncTypeOK
<1>4. CASE RecvDamaged(d)
  <2>1. stream' \in [Device -> Stream]
    BY <1>4, ConsumeType DEF RecvDamaged, NextEvent
  <2> QED
    BY <1>4, <2>1 DEF RecvDamaged, driverVars, SyncTypeOK
<1>5. CASE RecvGapFails(d)
  <2>1. stream' \in [Device -> Stream]
    BY <1>5, ConsumeType DEF RecvGapFails, NextEvent
  <2>2. told' \in [Device -> Cursors]
    BY <1>5, ReportedFacts DEF RecvGapFails
  <2>3. sess' \in [Device -> Session]
    BY <1>1, <1>5 DEF RecvGapFails, SyncTypeOK
  <2> QED
    BY <1>5, <2>1, <2>2, <2>3 DEF RecvGapFails, SyncTypeOK, SyncState
<1>6. CASE RecvGapDeferred(d)
  <2>1. stream' \in [Device -> Stream]
    BY <1>6, ConsumeType DEF RecvGapDeferred, NextEvent
  <2>2. told' \in [Device -> Cursors]
    BY <1>6, ReportedFacts DEF RecvGapDeferred
  <2>3. sess' \in [Device -> Session]
    BY <1>1, <1>6 DEF RecvGapDeferred, SyncTypeOK
  <2> QED
    BY <1>6, <2>1, <2>2, <2>3 DEF RecvGapDeferred, SyncTypeOK, SyncState
<1>7. CASE RecvGapApplied(d)
  <2>1. stream' \in [Device -> Stream] /\ floor' \in [Device -> Cursors]
    BY <1>7, AppliedFacts
  <2>2. told' \in [Device -> Cursors]
    BY <1>7, ReportedFacts DEF RecvGapApplied
  <2>3. sess' \in [Device -> Session]
    BY <1>1, <1>7 DEF RecvGapApplied, SyncTypeOK
  <2>4. st' \in [Device -> SyncState]
    <3> DEFINE state == IF st[d] = "Degraded" THEN "CatchingUp" ELSE st[d]
    <3>1. state \in SyncState
      BY DEF SyncTypeOK, SyncState
    <3>2. st' = [st EXCEPT ![d] = MaybeLive(state, sess[d].caughtUp, outbox[d])]
      BY <1>7 DEF RecvGapApplied
    <3> HIDE DEF state
    <3> QED
      BY <3>1, <3>2, MaybeLiveType DEF SyncTypeOK
  <2> QED
    BY <1>7, <2>1, <2>2, <2>3, <2>4 DEF RecvGapApplied, SyncTypeOK
<1> QED
  BY <1>2, <1>3, <1>4, <1>5, <1>6, <1>7

\* RelayHub::publish: a frame enters every open receiver, and what a full one
\* loses is excused.
LEMMA FanOutFacts ==
    ASSUME SyncTypeOK, NEW m \in Request, FanOut(m)
    PROVE  LET sent == [ops |-> m.ops, from |-> m.dev, live |-> m.live]
           IN  /\ stream' \in [Device -> Stream]
               /\ excused' \in [Device -> BOOLEAN]
               /\ \A d \in Device :
                    /\ stream'[d].stage = stream[d].stage
                    /\ stream'[d].cursors = stream[d].cursors
                    /\ stream'[d].events = stream[d].events
                    /\ Range(stream'[d].rx) \subseteq Range(stream[d].rx) \cup {sent}
                    /\ Listening(d) => sent \in Range(stream'[d].rx)
                    /\ excused[d] => excused'[d]
                    /\ ~excused'[d] =>
                         Range(stream[d].rx) \subseteq Range(stream'[d].rx)
<1> DEFINE sent == [ops |-> m.ops, from |-> m.dev, live |-> m.live]
           full(d) == Len(stream[d].rx) = Capacity
           kept(d) == IF full(d) THEN Tail(stream[d].rx) ELSE stream[d].rx
           pushed(d) == Append(kept(d), sent)
<1>1. /\ stream' = [d \in Device |->
              IF Listening(d) THEN [stream[d] EXCEPT !.rx = pushed(d)]
              ELSE stream[d]]
      /\ excused' = [d \in Device |-> excused[d] \/ (Listening(d) /\ full(d))]
  BY DEF FanOut
<1>2. sent \in RxFrame
  BY DEF Request, RxFrame, Batch
<1>3. \A d \in Device : stream[d] \in Stream /\ stream[d].rx \in Seq(RxFrame)
  BY DEF SyncTypeOK, Stream
<1> HIDE DEF sent
<1>4. \A d \in Device :
        /\ kept(d) \in Seq(RxFrame)
        /\ Range(kept(d)) \subseteq Range(stream[d].rx)
        /\ ~full(d) => Range(kept(d)) = Range(stream[d].rx)
  <2>1. SUFFICES ASSUME NEW d \in Device
                 PROVE  /\ kept(d) \in Seq(RxFrame)
                        /\ Range(kept(d)) \subseteq Range(stream[d].rx)
                        /\ ~full(d) => Range(kept(d)) = Range(stream[d].rx)
    OBVIOUS
  <2>2. CASE full(d)
    <3>1. stream[d].rx # <<>> /\ kept(d) = Tail(stream[d].rx)
      BY <2>2, OpSyncAssumption
    <3> QED
      BY <1>3, <2>2, <3>1, RangeOfTail
  <2>3. CASE ~full(d)
    BY <1>3, <2>3
  <2> QED
    BY <2>2, <2>3
<1> HIDE DEF kept
<1>5. \A d \in Device :
        /\ pushed(d) \in Seq(RxFrame)
        /\ Range(pushed(d)) = Range(kept(d)) \cup {sent}
  BY <1>2, <1>4, RangeOfAppend
<1> HIDE DEF pushed, full
<1>6. \A d \in Device : [stream[d] EXCEPT !.rx = pushed(d)] \in Stream
  BY <1>3, <1>5 DEF Stream
<1>7. stream' \in [Device -> Stream]
  BY <1>1, <1>3, <1>6
<1>8. excused' \in [Device -> BOOLEAN]
  BY <1>1
<1>9. ASSUME NEW d \in Device
      PROVE  /\ stream'[d].stage = stream[d].stage
             /\ stream'[d].cursors = stream[d].cursors
             /\ stream'[d].events = stream[d].events
             /\ stream'[d].rx = IF Listening(d) THEN pushed(d) ELSE stream[d].rx
  <2>1. stream'[d] = IF Listening(d) THEN [stream[d] EXCEPT !.rx = pushed(d)]
                     ELSE stream[d]
    BY <1>1, <1>9
  <2>2. stream[d] \in Stream
    BY <1>3, <1>9
  <2> QED
    BY <2>1, <2>2 DEF Stream
<1>10. ASSUME NEW d \in Device
       PROVE  /\ Range(stream'[d].rx) \subseteq Range(stream[d].rx) \cup {sent}
              /\ Listening(d) => sent \in Range(stream'[d].rx)
  BY <1>4, <1>5, <1>9, <1>10
<1>11. ASSUME NEW d \in Device
       PROVE  /\ excused[d] => excused'[d]
              /\ ~excused'[d] => ~(Listening(d) /\ full(d))
  BY <1>1, <1>11
<1>12. ASSUME NEW d \in Device, ~excused'[d]
       PROVE  Range(stream[d].rx) \subseteq Range(stream'[d].rx)
  BY <1>4, <1>5, <1>9, <1>11, <1>12
<1> QED
  BY <1>7, <1>8, <1>9, <1>10, <1>11, <1>12 DEF sent

LEMMA AckFacts ==
    ASSUME SyncTypeOK, NEW m \in Request, Ack(m)
    PROVE  /\ sess' \in [Device -> Session]
           /\ \A d \in Device :
                /\ sess'[d].batches = sess[d].batches
                /\ sess'[d].inflight = sess[d].inflight
                /\ sess'[d].acks = IF m.live /\ d = m.dev
                                   THEN sess[d].acks \cup {m.batch}
                                   ELSE sess[d].acks
<1>1. m.dev \in Device /\ m.batch \in Nat
  BY DEF Request
<1>2. \A d \in Device : sess[d] \in Session
  BY DEF SyncTypeOK
<1>3. CASE m.live
  <2> DEFINE acks == sess[m.dev].acks \cup {m.batch}
             s == [sess[m.dev] EXCEPT !.acks = acks]
  <2>1. acks \in SUBSET Nat
    BY <1>1, <1>2 DEF Session
  <2>2. sess' = [sess EXCEPT ![m.dev] = s]
    BY <1>3 DEF Ack
  <2> HIDE DEF acks
  <2>3. /\ s \in Session /\ s.batches = sess[m.dev].batches
        /\ s.inflight = sess[m.dev].inflight /\ s.acks = acks
    BY <1>1, <1>2, <2>1 DEF Session
  <2> HIDE DEF s
  <2>4. /\ sess' \in [Device -> Session] /\ sess'[m.dev] = s
        /\ \A d \in Device : d # m.dev => sess'[d] = sess[d]
    BY <1>1, <2>2, <2>3 DEF SyncTypeOK
  <2> QED
    BY <1>3, <2>3, <2>4 DEF acks
<1>4. CASE ~m.live
  BY <1>4 DEF Ack, SyncTypeOK
<1> QED
  BY <1>3, <1>4

\* spawn_stream reads the log: the events are what the read sends.
LEMMA ReadLogFacts ==
    ASSUME SyncTypeOK, RelayTypeOK, NEW d \in Device, ReadLog(d)
    PROVE  /\ stream' \in [Device -> Stream]
           /\ stream'[d].stage = "live" /\ stream'[d].rx = stream[d].rx
           /\ Range(stream'[d].events) = GapEvents(stream[d].cursors)
                \cup {OpsEvent(f.ops) : f \in Replay(stream[d].cursors)}
                \cup {CaughtUp}
           /\ \A e \in Device : e # d => stream'[e] = stream[e]
<1> DEFINE evs == ReplayEvents(stream[d].cursors)
           s == [stream[d] EXCEPT !.stage = "live", !.events = evs]
<1>1. stream[d] \in Stream /\ stream[d].cursors \in Cursors
  BY DEF SyncTypeOK, Stream
<1>2. /\ evs \in Seq(Event)
      /\ Range(evs) = GapEvents(stream[d].cursors)
           \cup {OpsEvent(f.ops) : f \in Replay(stream[d].cursors)}
           \cup {CaughtUp}
  BY <1>1, ReplayEventsLists
<1>3. stream' = [stream EXCEPT ![d] = s]
  BY DEF ReadLog
<1> HIDE DEF evs
<1>4. s \in Stream /\ s.stage = "live" /\ s.rx = stream[d].rx /\ s.events = evs
  BY <1>1, <1>2 DEF Stream
<1> HIDE DEF s
<1>5. /\ stream' \in [Device -> Stream] /\ stream'[d] = s
      /\ \A e \in Device : e # d => stream'[e] = stream[e]
  BY <1>3, <1>4 DEF SyncTypeOK
<1> QED
  BY <1>2, <1>4, <1>5

\* live_loop: a frame goes from the receiver to the events, or is the own one.
LEMMA ForwardFacts ==
    ASSUME SyncTypeOK, NEW d \in Device, Forward(d)
    PROVE  LET f == Head(stream[d].rx)
           IN  /\ stream' \in [Device -> Stream]
               /\ stream'[d].stage = stream[d].stage
               /\ f \in RxFrame
               /\ Range(stream[d].rx) = {f} \cup Range(stream'[d].rx)
               /\ \/ f.from = d /\ stream'[d].events = stream[d].events
                  \/ Range(stream'[d].events) =
                       Range(stream[d].events) \cup {OpsEvent(f.ops)}
               /\ \A e \in Device : e # d => stream'[e] = stream[e]
<1> DEFINE f == Head(stream[d].rx)
           own == f.from = d /\ f.live
           evs == IF own THEN stream[d].events
                  ELSE Append(stream[d].events, OpsEvent(f.ops))
           s == [stream[d] EXCEPT !.rx = Tail(stream[d].rx), !.events = evs]
<1>1. /\ stream[d] \in Stream /\ stream[d].rx \in Seq(RxFrame)
      /\ stream[d].events \in Seq(Event) /\ stream[d].rx # <<>>
  BY DEF SyncTypeOK, Stream, Forward
<1>2. /\ f \in RxFrame /\ Tail(stream[d].rx) \in Seq(RxFrame)
      /\ Range(stream[d].rx) = {f} \cup Range(Tail(stream[d].rx))
  BY <1>1, RangeOfTail
<1>3. OpsEvent(f.ops) \in Event
  BY <1>2 DEF RxFrame, OpsEvent, Event
<1>4. stream' = [stream EXCEPT ![d] = s]
  BY DEF Forward
<1> HIDE DEF f
<1>5. /\ evs \in Seq(Event)
      /\ \/ f.from = d /\ evs = stream[d].events
         \/ Range(evs) = Range(stream[d].events) \cup {OpsEvent(f.ops)}
  <2>1. CASE own
    BY <1>1, <2>1
  <2>2. CASE ~own
    BY <1>1, <1>3, <2>2, RangeOfAppend
  <2> QED
    BY <2>1, <2>2
<1> HIDE DEF evs
<1>6. /\ s \in Stream /\ s.stage = stream[d].stage
      /\ s.rx = Tail(stream[d].rx) /\ s.events = evs
  BY <1>1, <1>2, <1>5 DEF Stream
<1> HIDE DEF s
<1>7. /\ stream' \in [Device -> Stream] /\ stream'[d] = s
      /\ \A e \in Device : e # d => stream'[e] = stream[e]
  BY <1>4, <1>6 DEF SyncTypeOK
<1> QED
  BY <1>2, <1>5, <1>6, <1>7 DEF f

LEMMA CloseStreamFacts ==
    ASSUME SyncTypeOK, NEW d \in Device, NEW code \in Codes, CloseStream(d, code)
    PROVE  LET closed == [kind |-> "closed", code |-> code]
           IN  /\ stream' \in [Device -> Stream]
               /\ stream'[d].stage = "ended" /\ Range(stream'[d].rx) = {}
               /\ Range(stream'[d].events) = Range(stream[d].events) \cup {closed}
               /\ \A e \in Device : e # d => stream'[e] = stream[e]
<1> DEFINE closed == [kind |-> "closed", code |-> code]
           evs == Append(stream[d].events, closed)
           none == <<>>
           s == [stream[d] EXCEPT !.stage = "ended", !.rx = none, !.events = evs]
<1>1. stream[d] \in Stream /\ stream[d].events \in Seq(Event)
  BY DEF SyncTypeOK, Stream
<1>2. closed \in Event
  BY DEF Event
<1>3. stream' = [stream EXCEPT ![d] = s]
  BY DEF CloseStream
<1> HIDE DEF closed
<1>4. evs \in Seq(Event) /\ Range(evs) = Range(stream[d].events) \cup {closed}
  BY <1>1, <1>2, RangeOfAppend
<1>5. none \in Seq(RxFrame) /\ Range(none) = {}
  BY DEF Range
<1> HIDE DEF evs, none
<1>6. s \in Stream /\ s.stage = "ended" /\ s.rx = none /\ s.events = evs
  BY <1>1, <1>4, <1>5 DEF Stream
<1> HIDE DEF s
<1>7. /\ stream' \in [Device -> Stream] /\ stream'[d] = s
      /\ \A e \in Device : e # d => stream'[e] = stream[e]
  BY <1>3, <1>6 DEF SyncTypeOK
<1> QED
  BY <1>4, <1>6, <1>7, <1>5 DEF closed

\* The relay's steps.
LEMMA RelayTypes ==
    ASSUME SyncTypeOK, RelayTypeOK,
           \/ \E m \in up : StoreFresh(m) \/ PublishDuplicate(m) \/ LoseMessage(m)
           \/ \E m \in posting : PublishStored(m)
           \/ \E d \in Device : ReadLog(d) \/ Forward(d)
           \/ \E d \in Device, code \in Codes : CloseStream(d, code)
    PROVE  SyncTypeOK'
<1>1. ASSUME NEW m \in up, StoreFresh(m) PROVE SyncTypeOK'
  BY <1>1 DEF StoreFresh, Arrives, driverVars, SyncTypeOK
<1>2. ASSUME NEW m \in up, PublishDuplicate(m) PROVE SyncTypeOK'
  <2>1. m \in Request
    BY <1>2 DEF SyncTypeOK
  <2>2. sess' \in [Device -> Session]
    BY <1>2, <2>1, AckFacts DEF PublishDuplicate
  <2> QED
    BY <1>2, <2>2 DEF PublishDuplicate, Arrives, SyncTypeOK
<1>3. ASSUME NEW m \in up, LoseMessage(m) PROVE SyncTypeOK'
  BY <1>3 DEF LoseMessage, driverVars, SyncTypeOK
<1>4. ASSUME NEW m \in posting, PublishStored(m) PROVE SyncTypeOK'
  <2>1. m \in Request
    BY <1>4 DEF SyncTypeOK
  <2>2. sess' \in [Device -> Session]
    BY <1>4, <2>1, AckFacts DEF PublishStored
  <2>3. stream' \in [Device -> Stream] /\ excused' \in [Device -> BOOLEAN]
    BY <1>4, <2>1, FanOutFacts DEF PublishStored
  <2> QED
    BY <1>4, <2>2, <2>3 DEF PublishStored, SyncTypeOK
<1>5. ASSUME NEW d \in Device, ReadLog(d) PROVE SyncTypeOK'
  <2>1. stream' \in [Device -> Stream]
    BY <1>5, ReadLogFacts
  <2> QED
    BY <1>5, <2>1 DEF ReadLog, driverVars, SyncTypeOK
<1>6. ASSUME NEW d \in Device, Forward(d) PROVE SyncTypeOK'
  <2>1. stream' \in [Device -> Stream]
    BY <1>6, ForwardFacts
  <2> QED
    BY <1>6, <2>1 DEF Forward, driverVars, SyncTypeOK
<1>7. ASSUME NEW d \in Device, NEW code \in Codes, CloseStream(d, code)
      PROVE  SyncTypeOK'
  <2>1. stream' \in [Device -> Stream]
    BY <1>7, CloseStreamFacts
  <2>2. UNCHANGED <<driverVars, up, posting, pin, told, excused>>
    BY <1>7, Zenon DEF CloseStream, driverVars
  <2> QED
    BY <2>1, <2>2 DEF driverVars, SyncTypeOK
<1> QED
  BY <1>1, <1>2, <1>3, <1>4, <1>5, <1>6, <1>7

\* The actions of Next, one by one.
DeviceStep(d) ==
    \/ Connect(d) \/ Renew(d) \/ DropSession(d) \/ RecvClosed(d)
    \/ Write(d) \/ Drain(d) \/ Retransmit(d) \/ Resync(d)
    \/ PublishSnapshot(d) \/ RecvAck(d)
    \/ RecvOps(d) \/ RecvCaughtUp(d) \/ RecvDamaged(d)
    \/ RecvGapFails(d) \/ RecvGapDeferred(d) \/ RecvGapApplied(d)

RelayStep ==
    \/ \E m \in up : StoreFresh(m) \/ PublishDuplicate(m) \/ LoseMessage(m)
    \/ \E m \in posting : PublishStored(m)
    \/ \E d \in Device : ReadLog(d) \/ Forward(d)
    \/ \E d \in Device, code \in Codes : CloseStream(d, code)

LEMMA NextIsAStep ==
    ASSUME Next
    PROVE  (\E d \in Device : DeviceStep(d)) \/ RelayRestart \/ RelayStep
<1>1. ASSUME NEW d \in Writer, Write(d) PROVE \E e \in Device : DeviceStep(e)
  BY <1>1, OpSyncAssumption DEF DeviceStep
<1>2. ASSUME NEW d \in Device,
             \/ Connect(d) \/ Renew(d) \/ Pump(d) \/ Retransmit(d)
             \/ Resync(d) \/ PublishSnapshot(d)
             \/ DropSession(d) \/ RecvDamaged(d) \/ RecvGapDeferred(d)
      PROVE  DeviceStep(d)
  BY <1>2 DEF DeviceStep, Pump
<1>3. Relay => RelayStep
  BY DEF Relay, RelayStep
<1>4. ASSUME \/ \E d \in Device, code \in Codes : CloseStream(d, code)
             \/ \E m \in up : LoseMessage(m)
      PROVE  RelayStep
  BY <1>4 DEF RelayStep
<1> QED
  BY <1>1, <1>2, <1>3, <1>4 DEF Next, Faulty

-----------------------------------------------------------------------------
(* What a step leaves alone, and what only grows. *)

LEMMA RelayFrame ==
    /\ \A d \in Device : DeviceStep(d) => UNCHANGED relayVars
    /\ RelayRestart => UNCHANGED relayVars
    /\ \A m : PublishDuplicate(m) \/ LoseMessage(m) \/ PublishStored(m)
                => UNCHANGED relayVars
    /\ \A d : ReadLog(d) \/ Forward(d) => UNCHANGED relayVars
    /\ \A d, code : CloseStream(d, code) => UNCHANGED relayVars
<1>1. ASSUME NEW d \in Device, DeviceStep(d) PROVE UNCHANGED relayVars
  <2>1. ASSUME \/ Connect(d) \/ Renew(d) \/ DropSession(d) \/ RecvClosed(d)
               \/ Write(d) \/ Drain(d) \/ Retransmit(d) \/ Resync(d)
        PROVE  UNCHANGED relayVars
    BY <2>1, Zenon DEF Connect, Renew, DropSession, RecvClosed, Write, Drain,
                 Retransmit, Resync
  <2>2. ASSUME \/ PublishSnapshot(d) \/ RecvAck(d)
               \/ RecvOps(d) \/ RecvCaughtUp(d) \/ RecvDamaged(d)
        PROVE  UNCHANGED relayVars
    BY <2>2, Zenon DEF PublishSnapshot, RecvAck, RecvOps, RecvCaughtUp, RecvDamaged
  <2>3. ASSUME \/ RecvGapFails(d) \/ RecvGapDeferred(d)
               \/ RecvGapApplied(d)
        PROVE  UNCHANGED relayVars
    BY <2>3, Zenon DEF RecvGapFails, RecvGapDeferred, RecvGapApplied
  <2> QED
    BY <1>1, <2>1, <2>2, <2>3 DEF DeviceStep
<1>2. RelayRestart => UNCHANGED relayVars
  BY Zenon DEF RelayRestart
<1>3. \A m : PublishDuplicate(m) \/ LoseMessage(m) \/ PublishStored(m)
                => UNCHANGED relayVars
  BY Zenon DEF PublishDuplicate, AppendDuplicate, LoseMessage, PublishStored
<1>4. \A d : ReadLog(d) \/ Forward(d) => UNCHANGED relayVars
  BY Zenon DEF ReadLog, Forward
<1>5. \A d, code : CloseStream(d, code) => UNCHANGED relayVars
  BY Zenon DEF CloseStream
<1> QED
  BY <1>1, <1>2, <1>3, <1>4, <1>5, Zenon

LEMMA LogFrame ==
    /\ \A d \in Device :
         DeviceStep(d) => \/ UNCHANGED <<log, floor>>
                          \/ Write(d) \/ RecvOps(d) \/ RecvGapApplied(d)
    /\ RelayRestart => UNCHANGED <<log, floor>>
    /\ RelayStep => UNCHANGED <<log, floor>>
<1>1. ASSUME NEW d \in Device, DeviceStep(d),
             ~Write(d), ~RecvOps(d), ~RecvGapApplied(d)
        PROVE  UNCHANGED <<log, floor>>
  <2>1. ASSUME \/ Connect(d) \/ Renew(d) \/ DropSession(d) \/ RecvClosed(d)
               \/ Drain(d) \/ Retransmit(d) \/ Resync(d)
        PROVE  UNCHANGED <<log, floor>>
    BY <2>1, Zenon DEF Connect, Renew, DropSession, RecvClosed, Drain,
                 Retransmit, Resync, driverVars
  <2>2. ASSUME \/ PublishSnapshot(d) \/ RecvAck(d)
               \/ RecvCaughtUp(d) \/ RecvDamaged(d)
        PROVE  UNCHANGED <<log, floor>>
    BY <2>2, Zenon DEF PublishSnapshot, RecvAck, RecvCaughtUp, RecvDamaged, driverVars
  <2>3. ASSUME RecvGapFails(d) \/ RecvGapDeferred(d)
        PROVE  UNCHANGED <<log, floor>>
    BY <2>3, Zenon DEF RecvGapFails, RecvGapDeferred
  <2> QED
    BY <1>1, <2>1, <2>2, <2>3 DEF DeviceStep
<1>2. RelayRestart => UNCHANGED <<log, floor>>
  BY Zenon DEF RelayRestart
<1>3. \A m : StoreFresh(m) \/ PublishDuplicate(m) \/ LoseMessage(m)
               \/ PublishStored(m) => UNCHANGED <<log, floor>>
  BY Zenon DEF StoreFresh, PublishDuplicate, LoseMessage, PublishStored, driverVars
<1>4. \A d : ReadLog(d) \/ Forward(d) => UNCHANGED <<log, floor>>
  BY Zenon DEF ReadLog, Forward, driverVars
<1>5. \A d, code : CloseStream(d, code) => UNCHANGED <<log, floor>>
  BY Zenon DEF CloseStream, driverVars
<1>6. RelayStep => UNCHANGED <<log, floor>>
  BY <1>3, <1>4, <1>5, Zenon DEF RelayStep
<1> QED
  BY <1>1, <1>2, <1>6, Zenon

\* The relay forgets no op it stored, and its watermarks do not fall.
RelayGrows ==
    /\ stored \subseteq stored'
    /\ \A d \in Device : evicted[d] <= evicted'[d]

Step == (\E d \in Device : DeviceStep(d)) \/ RelayRestart \/ RelayStep

LEMMA StepTypes ==
    ASSUME SyncTypeOK, RelayTypeOK, Step
    PROVE  SyncTypeOK'
<1>1. ASSUME NEW d \in Device, DeviceStep(d) PROVE SyncTypeOK'
  BY <1>1, SessionTypes, SendTypes, ReceiveTypes DEF DeviceStep
<1>2. ASSUME RelayRestart PROVE SyncTypeOK'
  <2>1. PICK d \in Device : TRUE
    BY <1>2 DEF RelayRestart
  <2> QED
    BY <1>2, SessionTypes
<1>3. ASSUME RelayStep PROVE SyncTypeOK'
  BY <1>3, RelayTypes DEF RelayStep
<1> QED
  BY <1>1, <1>2, <1>3 DEF Step

\* Only a fresh append changes the relay's tables.
LEMMA RelayStepFacts ==
    ASSUME SyncTypeOK, RelayInv, Step
    PROVE  RelayInv' /\ RelayGrows
<1>1. CASE UNCHANGED relayVars
  <2>1. RelayInv'
    BY <1>1 DEF relayVars, RelayInv, RelayTypeOK, Accounted
  <2>2. \A d \in Device : evicted[d] \in Nat
    BY DEF RelayInv, RelayTypeOK, Cursors
  <2> QED
    BY <1>1, <2>1, <2>2 DEF relayVars, RelayGrows
<1>2. ASSUME NEW m \in up, StoreFresh(m) PROVE RelayInv' /\ RelayGrows
  <2>1. m.ops \in Batch /\ m.batch \in Nat
    BY DEF SyncTypeOK, Request
  <2>2. PICK expired \in SUBSET frames : AppendFresh(m.ops, m.batch, expired)
    BY <1>2 DEF StoreFresh
  <2>3. RelayTypeOK'
    BY <2>1, <2>2, FreshTypeOK DEF RelayInv
  <2>4. /\ \A d \in Device : evicted[d] <= evicted'[d]
        /\ \A f \in frames : \A op \in f.ops :
             \/ \E g \in frames' : op \in g.ops
             \/ op.seq <= evicted'[op.dev]
        /\ evicted' \in Cursors
    BY <2>1, <2>2, AppendKeepsLosses DEF RelayInv
  <2>5. stored' = stored \cup m.ops
    BY <2>2 DEF AppendFresh
  <2> DEFINE new == [id |-> lastId + 1, ops |-> m.ops, batch |-> m.batch]
  <2>6. new \in frames'
    <3>1. frames' = (frames \cup {new})
                      \ (expired \cup OverBudget(frames \cup {new}))
      BY <2>2 DEF AppendFresh, Retain
    <3>4. new \notin expired
      BY <2>2 DEF RelayInv, RelayTypeOK, Frame
    <3>2. \A g \in frames \cup {new} : ~(g.id > new.id)
      BY DEF RelayInv, RelayTypeOK, Frame
    <3>3. new \notin OverBudget(frames \cup {new})
      <4> HIDE DEF new
      <4> QED
        BY <3>2 DEF OverBudget
    <3> QED
      BY <3>1, <3>3, <3>4
  <2>7. \A op \in stored' : \/ \E f \in frames' : op \in f.ops
                            \/ op.seq <= evicted'[op.dev]
    <3>1. SUFFICES ASSUME NEW op \in stored'
                   PROVE  \/ \E f \in frames' : op \in f.ops
                          \/ op.seq <= evicted'[op.dev]
      OBVIOUS
    <3>2. CASE op \in m.ops
      BY <2>6, <3>2
    <3>3. CASE op \in stored
      <4>1. op.dev \in Device /\ op.seq \in Nat
        BY <3>3 DEF RelayInv, RelayTypeOK, Op
      <4>2. evicted[op.dev] \in Nat /\ evicted'[op.dev] \in Nat
        BY <2>4, <4>1 DEF RelayInv, RelayTypeOK, Cursors
      <4>3. \/ \E f \in frames : op \in f.ops
            \/ op.seq <= evicted[op.dev]
        BY <3>3 DEF RelayInv, Accounted
      <4> QED
        BY <2>4, <4>1, <4>2, <4>3
    <3> QED
      BY <2>5, <3>2, <3>3
  <2> QED
    BY <2>3, <2>4, <2>5, <2>7 DEF RelayInv, Accounted, RelayGrows
<1> QED
  BY <1>1, <1>2, RelayFrame DEF Step, RelayStep

LEMMA StepGrows ==
    ASSUME SyncTypeOK, Step
    PROVE  Grows
<1>1. \A d, e \in Device : floor[d][e] \in Nat
  BY DEF SyncTypeOK, Cursors
<1>2. CASE UNCHANGED <<log, floor>>
  BY <1>1, <1>2 DEF Grows
<1>3. ASSUME NEW d \in Device, Write(d) PROVE Grows
  BY <1>1, <1>3 DEF Write, Grows, SyncTypeOK
<1>4. ASSUME NEW d \in Device, RecvOps(d) PROVE Grows
  BY <1>1, <1>4 DEF RecvOps, Grows, SyncTypeOK
<1>5. ASSUME NEW d \in Device, RecvGapApplied(d) PROVE Grows
  BY <1>5, AppliedFacts
<1> QED
  BY <1>2, <1>3, <1>4, <1>5, LogFrame DEF Step

-----------------------------------------------------------------------------
(***************************************************************************)
(* The invariant.  Why an ack may be believed: batch numbers start over in *)
(* every session, so that a number names a batch only together with the    *)
(* session that is still there to be answered (Numbered, Requested), and   *)
(* what a request carries was committed by its sender before it was sent   *)
(* (Written).                                                              *)
(***************************************************************************)
NumberedAt(d) ==
    /\ st[d] \notin Connected => sess[d].batches = 0
    /\ sess[d].acks \subseteq 1..sess[d].batches
    /\ \A b \in sess[d].inflight :
         /\ b.id \in 1..sess[d].batches
         /\ Own(d, b.seqs) \subseteq log[d]
         /\ b.id \in sess[d].acks => Own(d, b.seqs) \subseteq stored
         /\ \A c \in sess[d].inflight : b.id = c.id => b.seqs = c.seqs

Numbered == \A d \in Device : NumberedAt(d)

\* A request that can still be answered is of a batch of the session's.
Sent(m) ==
    /\ m.ops \subseteq log[m.dev] /\ \A op \in m.ops : op.dev = m.dev
    /\ m.live => /\ m.batch \in 1..sess[m.dev].batches
                 /\ \A b \in sess[m.dev].inflight :
                      b.id = m.batch => m.ops = Own(m.dev, b.seqs)

Requested ==
    /\ \A m \in up : Sent(m)
    /\ \A m \in posting : Sent(m) /\ m.ops \subseteq stored

\* Nothing is on the relay, in a record or held by a device that its author
\* did not commit.
Written ==
    /\ \A op \in stored : op \in log[op.dev]
    /\ \A f \in frames : f.ops \subseteq stored
    /\ \A d \in Device : /\ Own(d, outbox[d]) \subseteq log[d]
                         /\ \A op \in Op : Held(d, op) => op \in log[op.dev]
    /\ \A op \in Op : op.seq <= pin[op.dev] => op \in log[op.dev]

\* What the streams carry is on the relay's disk.
Streamed ==
    \A d \in Device :
        /\ \A e \in Range(stream[d].events) : e.kind = "ops" => e.ops \subseteq stored
        /\ \A f \in Range(stream[d].rx) :
             f.ops \subseteq stored /\ f.ops \subseteq log[f.from]

DeliveryInv ==
    /\ SyncTypeOK /\ RelayInv
    /\ Numbered /\ Requested /\ Written /\ Streamed /\ AckedIsStored

\* No session begins or ends, and none has a batch or an ack it had not.
SameSession(d) ==
    /\ sess'[d].batches = sess[d].batches
    /\ sess'[d].inflight \subseteq sess[d].inflight
    /\ sess'[d].acks \subseteq sess[d].acks
    /\ st'[d] \in Connected <=> st[d] \in Connected

SameSessions == \A d \in Device : SameSession(d)

LEMMA SameSessionKeepsAt ==
    ASSUME Grows, RelayGrows, NEW d \in Device, NumberedAt(d), SameSession(d)
    PROVE  NumberedAt(d)'
<1>1. log[d] \subseteq log'[d] /\ stored \subseteq stored'
  BY DEF Grows, RelayGrows
<1> QED
  BY <1>1 DEF NumberedAt, SameSession, Own

LEMMA SentStaysSent ==
    ASSUME Grows, NEW m \in Request, Sent(m),
           m.live => SameSession(m.dev)
    PROVE  Sent(m)'
<1>1. m.dev \in Device
  BY DEF Request
<1>2. log[m.dev] \subseteq log'[m.dev]
  BY <1>1 DEF Grows
<1> QED
  BY <1>2 DEF Sent, SameSession, Own

LEMMA SameSessionsKeepInv ==
    ASSUME Numbered, Requested, Grows, RelayGrows, SameSessions,
           SyncTypeOK, up' \subseteq up, posting' \subseteq posting
    PROVE  Numbered' /\ Requested'
<1>1. Numbered'
  BY SameSessionKeepsAt DEF Numbered, SameSessions
<1>2. ASSUME NEW m \in up \cup posting PROVE Sent(m)'
  <2>1. m \in Request /\ m.dev \in Device /\ Sent(m)
    BY <1>2 DEF SyncTypeOK, Request, Requested
  <2> QED
    BY <2>1, SentStaysSent DEF SameSessions
<1>3. Requested'
  BY <1>2 DEF Requested, RelayGrows
<1> QED
  BY <1>1, <1>3

\* The steps after which every session has the batches it had.
LEMMA QuietSteps ==
    ASSUME SyncTypeOK, NEW d \in Device,
           \/ Renew(d) \/ Write(d) \/ Resync(d) \/ PublishSnapshot(d)
           \/ RecvOps(d) \/ RecvCaughtUp(d) \/ RecvDamaged(d)
           \/ RecvGapFails(d) \/ RecvGapDeferred(d) \/ RecvGapApplied(d)
           \/ ReadLog(d) \/ Forward(d) \/ (\E code \in Codes : CloseStream(d, code))
           \/ (\E m \in up : LoseMessage(m))
    PROVE  SameSessions /\ up' \subseteq up /\ posting' = posting
<1>0. /\ \A e \in Device : sess[e] \in Session /\ st[e] \in SyncState
      /\ sess = [e \in Device |-> sess[e]]
  BY DEF SyncTypeOK
<1>1. CASE sess' = sess /\ st' = st
  <2>1. SameSessions
    BY <1>1 DEF SameSessions, SameSession
  <2>2. up' \subseteq up /\ posting' = posting
    <3>1. CASE \/ Renew(d) \/ Write(d) \/ Resync(d) \/ PublishSnapshot(d)
               \/ RecvOps(d) \/ RecvCaughtUp(d)
      BY <3>1, Zenon DEF Renew, Write, Resync, PublishSnapshot, RecvOps, RecvCaughtUp
    <3>2. CASE \/ RecvDamaged(d) \/ RecvGapFails(d) \/ RecvGapDeferred(d)
               \/ RecvGapApplied(d)
      BY <3>2, Zenon DEF RecvDamaged, RecvGapFails, RecvGapDeferred, RecvGapApplied
    <3>3. CASE \/ ReadLog(d) \/ Forward(d)
               \/ \E code \in Codes : CloseStream(d, code)
      BY <3>3, Zenon DEF ReadLog, Forward, CloseStream
    <3>4. CASE \E m \in up : LoseMessage(m)
      BY <3>4 DEF LoseMessage
    <3> QED
      BY <3>1, <3>2, <3>3, <3>4
  <2> QED
    BY <2>1, <2>2
<1>2. CASE Renew(d)
  BY <1>2 DEF Renew, SameSessions, SameSession, SyncTypeOK, Connected
<1>3. CASE Write(d)
  <2>1. /\ sess' = [sess EXCEPT ![d].submit = TRUE]
        /\ UNCHANGED <<st, up, posting>>
    BY <1>3 DEF Write
  <2> QED
    BY <1>0, <2>1 DEF SameSessions, SameSession, Session
<1>4. CASE \/ Resync(d) \/ PublishSnapshot(d) \/ RecvDamaged(d)
           \/ ReadLog(d) \/ Forward(d) \/ (\E code \in Codes : CloseStream(d, code))
           \/ (\E m \in up : LoseMessage(m))
  <2>1. sess' = sess /\ st' = st
    <3>1. CASE Resync(d) \/ PublishSnapshot(d) \/ RecvDamaged(d)
      BY <3>1, Zenon DEF Resync, PublishSnapshot, RecvDamaged, driverVars
    <3>2. CASE \/ ReadLog(d) \/ Forward(d)
               \/ \E code \in Codes : CloseStream(d, code)
      BY <3>2, Zenon DEF ReadLog, Forward, CloseStream, driverVars
    <3>3. CASE \E m \in up : LoseMessage(m)
      BY <3>3, Zenon DEF LoseMessage, driverVars
    <3> QED
      BY <1>4, <3>1, <3>2, <3>3
  <2> QED
    BY <1>1, <2>1
<1>5. ASSUME NEW state \in SyncState, NEW c, NEW left
      PROVE  MaybeLive(state, c, left) \in Connected <=> state \in Connected
  BY DEF MaybeLive, Connected
<1>6. CASE RecvOps(d)
  <2>1. /\ sess' = sess /\ up' = up /\ posting' = posting
        /\ st' = [st EXCEPT ![d] = MaybeLive(@, sess[d].caughtUp, outbox[d])]
    BY <1>6 DEF RecvOps
  <2> QED
    BY <1>0, <1>5, <2>1 DEF SameSessions, SameSession, SyncTypeOK
<1>7. CASE RecvCaughtUp(d)
  <2>1. /\ sess' = [sess EXCEPT ![d].caughtUp = TRUE] /\ up' = up
        /\ posting' = posting
        /\ st' = [st EXCEPT ![d] = MaybeLive(@, TRUE, outbox[d])]
    BY <1>7 DEF RecvCaughtUp
  <2>2. st'[d] \in Connected <=> st[d] \in Connected
    BY <1>0, <2>1 DEF SyncTypeOK, MaybeLive, Connected
  <2> QED
    BY <1>0, <2>1, <2>2 DEF SameSessions, SameSession, SyncTypeOK, Session
<1>8. CASE RecvGapFails(d) \/ RecvGapDeferred(d)
  <2>1. /\ \/ sess' = [sess EXCEPT ![d].failed = TRUE]
           \/ sess' = [sess EXCEPT ![d].deferred = TRUE]
        /\ st' = [st EXCEPT ![d] = "Degraded"] /\ st[d] \in Connected
        /\ up' = up /\ posting' = posting
    BY <1>8 DEF RecvGapFails, RecvGapDeferred, NextEvent
  <2>2. /\ sess'[d].batches = sess[d].batches
        /\ sess'[d].inflight = sess[d].inflight
        /\ sess'[d].acks = sess[d].acks
        /\ \A e \in Device : e # d => sess'[e] = sess[e]
    BY <1>0, <2>1 DEF SyncTypeOK, Session
  <2>3. /\ st'[d] \in Connected <=> st[d] \in Connected
        /\ \A e \in Device : e # d => st'[e] = st[e]
    BY <1>0, <2>1 DEF SyncTypeOK, Connected
  <2> QED
    BY <2>1, <2>2, <2>3 DEF SameSessions, SameSession
<1>9. CASE RecvGapApplied(d)
  <2> DEFINE state == IF st[d] = "Degraded" THEN "CatchingUp" ELSE st[d]
  <2>1. /\ sess' = [sess EXCEPT ![d].applied = TRUE, ![d].deferred = FALSE]
        /\ st' = [st EXCEPT ![d] = MaybeLive(state, sess[d].caughtUp, outbox[d])]
        /\ st[d] \in Connected /\ up' = up /\ posting' = posting
    BY <1>9 DEF RecvGapApplied, NextEvent
  <2>2. state \in SyncState /\ state \in Connected
    BY <1>0, <2>1 DEF SyncState, Connected
  <2> HIDE DEF state
  <2>3. st'[d] \in Connected
    BY <1>5, <2>1, <2>2 DEF SyncTypeOK
  <2> QED
    BY <1>0, <2>1, <2>3 DEF SameSessions, SameSession, SyncTypeOK, Session
<1> QED
  BY <1>2, <1>3, <1>4, <1>6, <1>7, <1>8, <1>9

\* SessionEnd: nothing of the session is in flight, and nobody is left to be
\* answered.
LEMMA EndKeepsInv ==
    ASSUME Numbered, Requested, SyncTypeOK, Grows, RelayGrows,
           NEW d \in Device, NEW state \in {"Disconnected", "Stopped"},
           EndSession(d, state)
    PROVE  Numbered' /\ Requested'
<1>1. /\ st' = [st EXCEPT ![d] = state] /\ sess' = [sess EXCEPT ![d] = Fresh(d)]
      /\ up' = Orphaned(up, {d}) /\ posting' = Orphaned(posting, {d})
  BY DEF EndSession
<1>2. /\ Fresh(d).batches = 0 /\ Fresh(d).inflight = {} /\ Fresh(d).acks = {}
  BY FreshType
<1>3. /\ sess'[d] = Fresh(d) /\ st'[d] = state
      /\ \A e \in Device : e # d => sess'[e] = sess[e] /\ st'[e] = st[e]
  BY <1>1 DEF SyncTypeOK
<1>4. NumberedAt(d)'
  BY <1>2, <1>3 DEF NumberedAt
<1>5. \A e \in Device : e # d => SameSession(e)
  BY <1>3 DEF SameSession
<1>6. Numbered'
  BY <1>4, <1>5, SameSessionKeepsAt DEF Numbered
<1>7. ASSUME NEW m \in up' \cup posting' PROVE Sent(m)'
  <2>1. /\ m \in Request
        /\ m.live => (m \in up \/ m \in posting) /\ m.dev # d
        /\ \E n \in up \cup posting : m.dev = n.dev /\ m.ops = n.ops
    BY <1>1, <1>7, OrphanedFacts DEF SyncTypeOK
  <2>2. PICK n \in up \cup posting : m.dev = n.dev /\ m.ops = n.ops
    BY <2>1
  <2>3. m.dev \in Device
    BY <2>1 DEF Request
  <2>4. CASE m.live
    <3>1. Sent(m) /\ SameSession(m.dev)
      BY <1>5, <2>1, <2>3, <2>4 DEF Requested
    <3> QED
      BY <2>1, <3>1, SentStaysSent
  <2>5. CASE ~m.live
    <3>1. m.ops \subseteq log[m.dev] /\ \A op \in m.ops : op.dev = m.dev
      BY <2>2 DEF Requested, Sent
    <3>2. log[m.dev] \subseteq log'[m.dev]
      BY <2>3 DEF Grows
    <3> QED
      BY <2>5, <3>1, <3>2 DEF Sent
  <2> QED
    BY <2>4, <2>5
<1>8. \A m \in posting' : m.ops \subseteq stored'
  <2>1. \A m \in posting' : \E n \in posting : m.ops = n.ops
    BY <1>1, OrphanedFacts DEF SyncTypeOK
  <2> QED
    BY <2>1 DEF Requested, RelayGrows
<1> QED
  BY <1>6, <1>7, <1>8 DEF Requested

LEMMA RestartKeepsInv ==
    ASSUME Numbered, Requested, SyncTypeOK, Grows, RelayRestart
    PROVE  Numbered' /\ Requested'
<1>1. /\ sess' = [d \in Device |-> Fresh(d)]
      /\ up' = Orphaned(up, Device) /\ posting' = {}
  BY DEF RelayRestart
<1>2. \A d \in Device : /\ Fresh(d).batches = 0 /\ Fresh(d).inflight = {}
                        /\ Fresh(d).acks = {}
  BY FreshType
<1>3. Numbered'
  BY <1>1, <1>2 DEF Numbered, NumberedAt
<1>4. ASSUME NEW m \in up' PROVE Sent(m)'
  <2>1. /\ m \in Request
        /\ m.live => m.dev \notin Device
        /\ \E n \in up : m.dev = n.dev /\ m.ops = n.ops
    BY <1>1, <1>4, OrphanedFacts DEF SyncTypeOK
  <2>2. m.dev \in Device
    BY <2>1 DEF Request
  <2>3. m.ops \subseteq log[m.dev] /\ \A op \in m.ops : op.dev = m.dev
    BY <2>1 DEF Requested, Sent
  <2>4. log[m.dev] \subseteq log'[m.dev]
    BY <2>2 DEF Grows
  <2> QED
    BY <2>1, <2>2, <2>3, <2>4 DEF Sent
<1> QED
  BY <1>1, <1>3, <1>4 DEF Requested

\* build_outbox_frames, send_pending: a batch under a number not yet used.
LEMMA SendKeepsInv ==
    ASSUME Numbered, Requested, Written, SyncTypeOK, Grows, RelayGrows,
           NEW d \in Device, NEW s \in Session,
           \/ s = sess[d]
           \/ s = Fresh(d) /\ sess[d].batches = 0,
           sess'[d].batches = s.batches + Cardinality(NewBatch(d, s)),
           sess'[d].inflight = s.inflight \cup NewBatch(d, s),
           sess'[d].acks = s.acks,
           st'[d] \in Connected,
           \A e \in Device : e # d => SameSession(e),
           up' = up \cup {Message(d, b) : b \in NewBatch(d, s)},
           posting' = posting
    PROVE  Numbered' /\ Requested'
<1>1. /\ s.batches = sess[d].batches /\ s.batches \in Nat
      /\ s.inflight \subseteq sess[d].inflight
      /\ s.acks \subseteq sess[d].acks
  <2>1. Fresh(d).batches = 0 /\ Fresh(d).inflight = {} /\ Fresh(d).acks = {}
    BY FreshType
  <2> QED
    BY <2>1 DEF Session
<1>2. /\ s.acks \subseteq 1..s.batches
      /\ \A b \in s.inflight :
           /\ b.id \in 1..s.batches
           /\ Own(d, b.seqs) \subseteq log[d]
           /\ b.id \in s.acks => Own(d, b.seqs) \subseteq stored
           /\ \A c \in s.inflight : b.id = c.id => b.seqs = c.seqs
  BY <1>1 DEF Numbered, NumberedAt
<1>3. log[d] \subseteq log'[d] /\ stored \subseteq stored'
  BY DEF Grows, RelayGrows
<1>4. \A e \in Device : e # d => NumberedAt(e)'
  BY SameSessionKeepsAt DEF Numbered
<1>5. ASSUME NEW m \in up \cup posting PROVE
        /\ m \in Request /\ m.dev \in Device /\ Sent(m)
        /\ m.dev # d => Sent(m)'
  <2>1. m \in Request /\ m.dev \in Device /\ Sent(m)
    BY <1>5 DEF SyncTypeOK, Request, Requested
  <2> QED
    BY <2>1, SentStaysSent
<1>6. ASSUME NEW m \in up \cup posting, m.dev = d
      PROVE  /\ m.ops \subseteq log'[m.dev] /\ \A op \in m.ops : op.dev = m.dev
             /\ m.live => /\ m.batch \in 1..s.batches
                          /\ \A b \in s.inflight :
                               b.id = m.batch => m.ops = Own(m.dev, b.seqs)
  BY <1>1, <1>3, <1>5, <1>6 DEF Sent
<1>7. \A m \in posting' : m.ops \subseteq stored'
  BY <1>3 DEF Requested
<1>8. CASE NewBatch(d, s) = {} /\ Cardinality(NewBatch(d, s)) = 0
  <2>1. sess'[d].batches = s.batches /\ sess'[d].inflight = s.inflight /\ up' = up
    BY <1>1, <1>8
  <2>2. NumberedAt(d)'
    BY <1>2, <1>3, <2>1 DEF NumberedAt, Own
  <2>3. \A m \in up \cup posting : m.dev = d => Sent(m)'
    BY <1>6, <2>1 DEF Sent, Own
  <2> QED
    BY <1>4, <1>5, <1>7, <2>1, <2>2, <2>3 DEF Numbered, Requested
<1>9. ASSUME NEW b \in Outgoing,
             NewBatch(d, s) = {b}, Cardinality(NewBatch(d, s)) = 1,
             b.id = s.batches + 1, b.seqs \subseteq outbox[d]
      PROVE  Numbered' /\ Requested'
  <2>1. /\ sess'[d].batches = s.batches + 1
        /\ sess'[d].inflight = s.inflight \cup {b}
        /\ up' = up \cup {Message(d, b)}
    BY <1>9
  <2>2. Own(d, b.seqs) \subseteq log'[d]
    <3>1. Own(d, b.seqs) \subseteq Own(d, outbox[d])
      BY <1>9 DEF Own
    <3> QED
      BY <1>3, <3>1 DEF Written
  <2>3. /\ b.id \notin 1..s.batches /\ b.id \in 1..(s.batches + 1)
        /\ 1..s.batches \subseteq 1..(s.batches + 1)
    BY <1>1, <1>9
  <2>4. NumberedAt(d)'
    <3>1. sess'[d].acks \subseteq 1..sess'[d].batches
      BY <1>2, <2>1, <2>3
    <3>2. ASSUME NEW c \in sess'[d].inflight
          PROVE  /\ c.id \in 1..sess'[d].batches
                 /\ Own(d, c.seqs) \subseteq log'[d]
                 /\ c.id \in sess'[d].acks => Own(d, c.seqs) \subseteq stored'
                 /\ \A x \in sess'[d].inflight : c.id = x.id => c.seqs = x.seqs
      <4>1. CASE c \in s.inflight
        <5>1. c.id # b.id
          BY <1>2, <2>3, <4>1
        <5> QED
          BY <1>2, <1>3, <2>1, <2>3, <4>1, <5>1
      <4>2. CASE c = b
        <5>1. \A x \in s.inflight : x.id # b.id
          BY <1>2, <2>3
        <5>2. b.id \notin s.acks
          BY <1>2, <2>3
        <5> QED
          BY <2>1, <2>2, <2>3, <4>2, <5>1, <5>2
      <4> QED
        BY <2>1, <3>2, <4>1, <4>2
    <3> QED
      BY <3>1, <3>2 DEF NumberedAt, Own
  <2>5. \A m \in up \cup posting : m.dev = d => Sent(m)'
    <3>1. SUFFICES ASSUME NEW m \in up \cup posting, m.dev = d
                   PROVE  Sent(m)'
      OBVIOUS
    <3>2. ASSUME m.live
          PROVE  /\ m.batch \in 1..sess'[m.dev].batches
                 /\ \A c \in sess'[m.dev].inflight :
                      c.id = m.batch => m.ops = Own(m.dev, c.seqs)
      <4>1. m.batch \in 1..s.batches
        BY <1>6, <3>1, <3>2
      <4>2. m.batch # b.id /\ m.batch \in 1..(s.batches + 1)
        BY <2>3, <4>1
      <4> QED
        BY <1>6, <2>1, <3>1, <3>2, <4>2
    <3> QED
      BY <1>6, <3>1, <3>2 DEF Sent, Own
  <2>6. Sent(Message(d, b))'
    <3> DEFINE m == Message(d, b)
    <3>1. m.dev = d /\ m.batch = b.id /\ m.ops = Own(d, b.seqs)
      BY DEF Message
    <3>2. \A op \in Own(d, b.seqs) : op.dev = d
      BY DEF Own
    <3>3. \A c \in sess'[d].inflight : c.id = b.id => c = b
      BY <1>2, <2>1, <2>3
    <3> HIDE DEF m
    <3>4. Sent(m)'
      BY <2>1, <2>2, <2>3, <3>1, <3>2, <3>3 DEF Sent, Own
    <3>5. m' = m
      BY DEF m, Message, Own
    <3> QED
      BY <3>4, <3>5 DEF m
  <2> QED
    BY <1>4, <1>5, <1>7, <2>1, <2>4, <2>5, <2>6 DEF Numbered, Requested
<1> QED
  BY <1>8, <1>9, NewBatchFacts

LEMMA SendingKeepsInv ==
    ASSUME Numbered, Requested, Written, SyncTypeOK, Grows, RelayGrows,
           NEW d \in Device, Connect(d) \/ Drain(d)
    PROVE  Numbered' /\ Requested'
<1>1. CASE Connect(d)
  <2> DEFINE s == Fresh(d)
             t == WithBatch(s, NewBatch(d, s))
  <2>1. /\ sess' = [sess EXCEPT ![d] = t]
        /\ up' = up \cup {Message(d, b) : b \in NewBatch(d, s)}
        /\ st[d] = "Disconnected" /\ st' = [st EXCEPT ![d] = "CatchingUp"]
        /\ posting' = posting
    BY <1>1 DEF Connect
  <2>2. s \in Session
    BY FreshType
  <2>3. /\ t.batches = s.batches + Cardinality(NewBatch(d, s))
        /\ t.inflight = s.inflight \cup NewBatch(d, s) /\ t.acks = s.acks
    <3> HIDE DEF s
    <3>1. NewBatch(d, s) \in SUBSET Outgoing /\ Cardinality(NewBatch(d, s)) \in Nat
      BY <2>2, NewBatchFacts
    <3> QED
      BY <2>2, <3>1, WithBatchType
  <2>4. sess[d].batches = 0
    BY <2>1 DEF Numbered, NumberedAt, Connected
  <2> HIDE DEF s, t
  <2>5. /\ sess'[d] = t /\ st'[d] \in Connected
        /\ \A e \in Device : e # d => SameSession(e)
    BY <2>1 DEF SyncTypeOK, SameSession, Connected
  <2>6. s = Fresh(d)
    BY DEF s
  <2> QED
    BY <2>1, <2>2, <2>3, <2>4, <2>5, <2>6, SendKeepsInv
<1>2. CASE Drain(d)
  <2> DEFINE s == sess[d]
             w == WithBatch(s, NewBatch(d, s))
             t == [w EXCEPT !.submit = FALSE]
  <2>1. /\ sess' = [sess EXCEPT ![d] = t]
        /\ up' = up \cup {Message(d, b) : b \in NewBatch(d, s)}
        /\ st[d] \in Connected /\ st' = st /\ posting' = posting
    BY <1>2 DEF Drain
  <2>2. s \in Session
    BY DEF SyncTypeOK
  <2>3. /\ w.batches = s.batches + Cardinality(NewBatch(d, s))
        /\ w.inflight = s.inflight \cup NewBatch(d, s) /\ w.acks = s.acks
        /\ w \in Session
    <3> HIDE DEF s
    <3>1. NewBatch(d, s) \in SUBSET Outgoing /\ Cardinality(NewBatch(d, s)) \in Nat
      BY <2>2, NewBatchFacts
    <3> QED
      BY <2>2, <3>1, WithBatchType
  <2> HIDE DEF w
  <2>4. t.batches = w.batches /\ t.inflight = w.inflight /\ t.acks = w.acks
    BY <2>3 DEF Session
  <2>6. s = sess[d]
    OBVIOUS
  <2> HIDE DEF s, t
  <2>5. /\ sess'[d] = t /\ st'[d] \in Connected
        /\ \A e \in Device : e # d => SameSession(e)
    BY <2>1 DEF SyncTypeOK, SameSession
  <2> QED
    BY <2>1, <2>2, <2>3, <2>4, <2>5, <2>6, SendKeepsInv
<1> QED
  BY <1>1, <1>2

\* retransmit_due: the same frame, under the same number.
LEMMA RetransmitKeepsInv ==
    ASSUME Numbered, Requested, SyncTypeOK, Grows, RelayGrows,
           NEW d \in Device, Retransmit(d)
    PROVE  Numbered' /\ Requested'
<1>1. PICK b \in sess[d].inflight :
        IF b.tries < MaxRetries
        THEN /\ sess' = [sess EXCEPT ![d].inflight =
                           (@ \ {b}) \cup {[b EXCEPT !.tries = @ + 1]}]
             /\ up' = up \cup {Message(d, b)}
             /\ UNCHANGED <<st, stream, posting>>
        ELSE EndSession(d, "Disconnected")
  BY DEF Retransmit
<1>2. CASE ~(b.tries < MaxRetries)
  BY <1>1, <1>2, EndKeepsInv
<1>3. CASE b.tries < MaxRetries
  <2> DEFINE again == [b EXCEPT !.tries = @ + 1]
             left == (sess[d].inflight \ {b}) \cup {again}
             t == [sess[d] EXCEPT !.inflight = left]
  <2>1. b \in Outgoing /\ sess[d] \in Session
    BY DEF SyncTypeOK, Session
  <2>2. again.id = b.id /\ again.seqs = b.seqs
    BY <2>1 DEF Outgoing
  <2>3. /\ sess' = [sess EXCEPT ![d] = t]
        /\ up' = up \cup {Message(d, b)} /\ st' = st /\ posting' = posting
    BY <1>1, <1>3
  <2> HIDE DEF again
  <2>4. \A c \in left : \E x \in sess[d].inflight : c.id = x.id /\ c.seqs = x.seqs
    BY <2>2
  <2> HIDE DEF left
  <2>5. t.batches = sess[d].batches /\ t.acks = sess[d].acks /\ t.inflight = left
    BY <2>1 DEF Session
  <2> HIDE DEF t
  <2>6. sess'[d] = t /\ \A e \in Device : e # d => SameSession(e)
    BY <2>3 DEF SyncTypeOK, SameSession
  <2>7. log[d] \subseteq log'[d] /\ stored \subseteq stored'
    BY DEF Grows, RelayGrows
  <2>8. NumberedAt(d)'
    <3>1. ASSUME NEW c \in left
          PROVE  /\ c.id \in 1..sess[d].batches
                 /\ Own(d, c.seqs) \subseteq log'[d]
                 /\ c.id \in sess[d].acks => Own(d, c.seqs) \subseteq stored'
                 /\ \A y \in left : c.id = y.id => c.seqs = y.seqs
      BY <2>4, <2>7, <3>1 DEF Numbered, NumberedAt
    <3>2. /\ st[d] \notin Connected => sess[d].batches = 0
          /\ sess[d].acks \subseteq 1..sess[d].batches
      BY DEF Numbered, NumberedAt
    <3> QED
      BY <2>3, <2>5, <2>6, <3>1, <3>2 DEF NumberedAt, Own
  <2>9. Numbered'
    BY <2>6, <2>8, SameSessionKeepsAt DEF Numbered
  <2>10. ASSUME NEW m \in up \cup posting PROVE Sent(m)'
    <3>1. m \in Request /\ m.dev \in Device /\ Sent(m)
      BY <2>10 DEF SyncTypeOK, Request, Requested
    <3>2. CASE m.dev # d
      BY <2>6, <3>1, <3>2, SentStaysSent
    <3>3. CASE m.dev = d
      BY <2>4, <2>5, <2>6, <2>7, <3>1, <3>3 DEF Sent, Own
    <3> QED
      BY <3>2, <3>3
  <2>11. Sent(Message(d, b))'
    <3>1. /\ b.id \in 1..sess[d].batches /\ Own(d, b.seqs) \subseteq log'[d]
          /\ \A c \in left : c.id = b.id => c.seqs = b.seqs
      BY <2>4, <2>7 DEF Numbered, NumberedAt
    <3>2. \A op \in Own(d, b.seqs) : op.dev = d
      BY DEF Own
    <3> QED
      BY <2>5, <2>6, <3>1, <3>2 DEF Sent, Message, Own
  <2>12. \A m \in posting' : m.ops \subseteq stored'
    BY <2>3, <2>7 DEF Requested
  <2> QED
    BY <2>3, <2>9, <2>10, <2>11, <2>12 DEF Requested
<1> QED
  BY <1>2, <1>3

\* handle_frame, Ack.
LEMMA RecvAckSession ==
    ASSUME SyncTypeOK, NEW d \in Device, RecvAck(d)
    PROVE  SameSessions
<1>1. PICK id \in sess[d].acks :
        LET s == sess[d]
            done == {b \in s.inflight : b.id = id}
            left == outbox[d] \ UNION {b.seqs : b \in done}
        IN  /\ sess' = [sess EXCEPT ![d].acks = @ \ {id},
                                    ![d].inflight = @ \ done]
            /\ outbox' = [outbox EXCEPT ![d] = left]
            /\ st' = [st EXCEPT ![d] = MaybeLive(@, s.caughtUp, left)]
  BY DEF RecvAck
<1> DEFINE acks == sess[d].acks \ {id}
           left == sess[d].inflight \ {b \in sess[d].inflight : b.id = id}
           rest == outbox[d] \ UNION {b.seqs : b \in {b \in sess[d].inflight : b.id = id}}
           t == [sess[d] EXCEPT !.acks = acks, !.inflight = left]
<1>2. /\ sess' = [sess EXCEPT ![d] = t]
      /\ st' = [st EXCEPT ![d] = MaybeLive(st[d], sess[d].caughtUp, rest)]
  BY <1>1 DEF SyncTypeOK
<1>3. acks \subseteq sess[d].acks /\ left \subseteq sess[d].inflight
  OBVIOUS
<1> HIDE DEF acks, left, rest
<1>4. /\ t.batches = sess[d].batches /\ t.inflight \subseteq sess[d].inflight
      /\ t.acks \subseteq sess[d].acks
  BY <1>3 DEF SyncTypeOK, Session
<1> HIDE DEF t
<1>5. /\ sess'[d] = t /\ st'[d] = MaybeLive(st[d], sess[d].caughtUp, rest)
      /\ \A e \in Device : e # d => sess'[e] = sess[e] /\ st'[e] = st[e]
  BY <1>2 DEF SyncTypeOK
<1>6. st'[d] \in Connected <=> st[d] \in Connected
  BY <1>5 DEF MaybeLive, Connected
<1> QED
  BY <1>4, <1>5, <1>6 DEF SameSessions, SameSession

\* publish.rs: a batch is acked once it is on disk.
LEMMA PublishKeepsInv ==
    ASSUME Numbered, Requested, Written, SyncTypeOK, Grows, RelayGrows,
           \/ \E m \in up : StoreFresh(m) \/ PublishDuplicate(m)
           \/ \E m \in posting : PublishStored(m)
    PROVE  Numbered' /\ Requested'
<1>1. ASSUME NEW m \in up, StoreFresh(m) PROVE Numbered' /\ Requested'
  <2>1. /\ up' = up \ {m} /\ posting' = posting \cup {m}
        /\ stored' = stored \cup m.ops /\ sess' = sess /\ st' = st
    BY <1>1 DEF StoreFresh, Arrives, AppendFresh, driverVars
  <2>2. SameSessions
    BY <2>1 DEF SameSessions, SameSession
  <2>3. Numbered'
    BY <2>2, SameSessionKeepsAt DEF Numbered, SameSessions
  <2>4. ASSUME NEW x \in up \cup posting PROVE Sent(x)'
    <3>1. x \in Request /\ x.dev \in Device /\ Sent(x)
      BY <2>4 DEF SyncTypeOK, Request, Requested
    <3> QED
      BY <2>2, <3>1, SentStaysSent DEF SameSessions
  <2>5. \A x \in posting' : x.ops \subseteq stored'
    BY <2>1 DEF Requested
  <2> QED
    BY <2>1, <2>3, <2>4, <2>5 DEF Requested
<1>2. ASSUME NEW m \in up \cup posting, Ack(m), m.ops \subseteq stored, st' = st,
             up' \subseteq up, posting' \subseteq posting
      PROVE  Numbered' /\ Requested'
  <2>1. m \in Request /\ m.dev \in Device /\ Sent(m)
    BY <1>2 DEF SyncTypeOK, Request, Requested
  <2>2. \A d \in Device :
          /\ sess'[d].batches = sess[d].batches
          /\ sess'[d].inflight = sess[d].inflight
          /\ sess'[d].acks = IF m.live /\ d = m.dev THEN sess[d].acks \cup {m.batch}
                             ELSE sess[d].acks
    BY <1>2, <2>1, AckFacts
  <2>3. ASSUME NEW d \in Device PROVE NumberedAt(d)'
    <3>1. log[d] \subseteq log'[d] /\ stored \subseteq stored' /\ NumberedAt(d)
      BY <2>3 DEF Grows, RelayGrows, Numbered
    <3>2. CASE m.live /\ d = m.dev
      <4>1. /\ m.batch \in 1..sess[d].batches
            /\ \A b \in sess[d].inflight :
                 b.id = m.batch => Own(d, b.seqs) \subseteq stored'
        BY <1>2, <2>1, <3>1, <3>2 DEF Sent
      <4>2. sess'[d].acks = sess[d].acks \cup {m.batch}
        BY <2>2, <2>3, <3>2
      <4> QED
        BY <1>2, <2>2, <2>3, <3>1, <4>1, <4>2 DEF NumberedAt, Own
    <3>3. CASE ~(m.live /\ d = m.dev)
      <4>1. SameSession(d)
        BY <1>2, <2>2, <2>3, <3>3 DEF SameSession
      <4> QED
        BY <2>3, <3>1, <4>1, SameSessionKeepsAt
    <3> QED
      BY <3>2, <3>3
  <2>4. ASSUME NEW x \in up \cup posting PROVE Sent(x)'
    <3>1. x \in Request /\ x.dev \in Device /\ Sent(x)
      BY <2>4 DEF SyncTypeOK, Request, Requested
    <3>2. log[x.dev] \subseteq log'[x.dev]
      BY <3>1 DEF Grows
    <3> QED
      BY <2>2, <3>1, <3>2 DEF Sent, Own
  <2> QED
    BY <1>2, <2>3, <2>4 DEF Numbered, Requested, RelayGrows
<1>3. ASSUME NEW m \in up, PublishDuplicate(m) PROVE Numbered' /\ Requested'
  <2>1. /\ Ack(m) /\ st' = st /\ up' = up \ {m} /\ posting' = posting
        /\ \E f \in frames : f.ops = m.ops
    BY <1>3 DEF PublishDuplicate, Arrives, AppendDuplicate, Duplicate
  <2>2. m.ops \subseteq stored
    BY <2>1 DEF Written
  <2> QED
    BY <1>2, <2>1, <2>2
<1>4. ASSUME NEW m \in posting, PublishStored(m) PROVE Numbered' /\ Requested'
  <2>1. Ack(m) /\ st' = st /\ up' = up /\ posting' = posting \ {m}
    BY <1>4 DEF PublishStored
  <2>2. m.ops \subseteq stored
    BY DEF Requested
  <2> QED
    BY <1>2, <2>1, <2>2
<1> QED
  BY <1>1, <1>3, <1>4

\* Every step keeps the numbering of the batches and what requests carry.
LEMMA NumberingHolds ==
    ASSUME Numbered, Requested, Written, SyncTypeOK, Grows, RelayGrows, Step
    PROVE  Numbered' /\ Requested'
<1>1. ASSUME NEW d \in Device, DeviceStep(d) PROVE Numbered' /\ Requested'
  <2>1. CASE Connect(d) \/ Drain(d)
    BY <2>1, SendingKeepsInv
  <2>2. CASE Retransmit(d)
    BY <2>2, RetransmitKeepsInv
  <2>3. CASE DropSession(d)
    BY <2>3, EndKeepsInv DEF DropSession
  <2>4. CASE RecvClosed(d)
    <3> DEFINE state == IF IsTerminal(Head(stream[d].events).code)
                        THEN "Stopped" ELSE "Disconnected"
    <3>1. EndSession(d, state)
      BY <2>4 DEF RecvClosed
    <3>2. state \in {"Disconnected", "Stopped"}
      OBVIOUS
    <3> HIDE DEF state
    <3> QED
      BY <3>1, <3>2, EndKeepsInv
  <2>5. CASE RecvAck(d)
    <3>1. up' = up /\ posting' = posting
      BY <2>5 DEF RecvAck
    <3> QED
      BY <2>5, <3>1, RecvAckSession, SameSessionsKeepInv
  <2>6. CASE \/ Renew(d) \/ Write(d) \/ Resync(d) \/ PublishSnapshot(d)
             \/ RecvOps(d) \/ RecvCaughtUp(d) \/ RecvDamaged(d)
             \/ RecvGapFails(d) \/ RecvGapDeferred(d) \/ RecvGapApplied(d)
    BY <2>6, QuietSteps, SameSessionsKeepInv
  <2> QED
    BY <1>1, <2>1, <2>2, <2>3, <2>4, <2>5, <2>6 DEF DeviceStep
<1>2. ASSUME RelayRestart PROVE Numbered' /\ Requested'
  BY <1>2, RestartKeepsInv
<1>3. ASSUME RelayStep PROVE Numbered' /\ Requested'
  <2>1. CASE \/ \E m \in up : StoreFresh(m) \/ PublishDuplicate(m)
             \/ \E m \in posting : PublishStored(m)
    BY <2>1, PublishKeepsInv
  <2>2. ASSUME NEW d \in Device,
               \/ ReadLog(d) \/ Forward(d)
               \/ (\E code \in Codes : CloseStream(d, code))
        PROVE  Numbered' /\ Requested'
    BY <2>2, QuietSteps, SameSessionsKeepInv
  <2>3. ASSUME NEW m \in up, LoseMessage(m) PROVE Numbered' /\ Requested'
    <3>1. m.dev \in Device
      BY DEF SyncTypeOK, Request
    <3> QED
      BY <2>3, <3>1, QuietSteps, SameSessionsKeepInv
  <2> QED
    BY <1>3, <2>1, <2>2, <2>3 DEF RelayStep
<1> QED
  BY <1>1, <1>2, <1>3 DEF Step

-----------------------------------------------------------------------------
(* What is written, stored, pinned and streamed. *)

LEMMA OutboxFrame ==
    /\ \A d \in Device :
         DeviceStep(d) => outbox' = outbox \/ Write(d) \/ RecvAck(d)
    /\ \A d \in Device : DeviceStep(d) => pin' = pin \/ PublishSnapshot(d)
    /\ RelayRestart => UNCHANGED <<outbox, pin>>
    /\ RelayStep => UNCHANGED <<outbox, pin>>
<1>1. ASSUME NEW d \in Device,
             \/ Connect(d) \/ Renew(d) \/ DropSession(d) \/ RecvClosed(d)
             \/ Drain(d) \/ Retransmit(d) \/ Resync(d)
      PROVE  UNCHANGED <<outbox, pin>>
  BY <1>1, Zenon DEF Connect, Renew, DropSession, RecvClosed, Drain,
                     Retransmit, Resync, driverVars
<1>2. ASSUME NEW d \in Device,
             \/ RecvCaughtUp(d) \/ RecvDamaged(d) \/ RecvOps(d)
             \/ RecvGapFails(d) \/ RecvGapDeferred(d) \/ RecvGapApplied(d)
      PROVE  UNCHANGED <<outbox, pin>>
  BY <1>2, Zenon DEF RecvCaughtUp, RecvDamaged, RecvOps, RecvGapFails,
                     RecvGapDeferred, RecvGapApplied, driverVars
<1>3. \A d \in Device : /\ PublishSnapshot(d) => outbox' = outbox
                        /\ RecvAck(d) \/ Write(d) => pin' = pin
  BY Zenon DEF PublishSnapshot, RecvAck, Write, driverVars
<1>4. RelayRestart => UNCHANGED <<outbox, pin>>
  BY Zenon DEF RelayRestart
<1>5. \A m : StoreFresh(m) \/ PublishDuplicate(m) \/ LoseMessage(m)
               \/ PublishStored(m) => UNCHANGED <<outbox, pin>>
  BY Zenon DEF StoreFresh, PublishDuplicate, LoseMessage, PublishStored, driverVars
<1>6. \A d : ReadLog(d) \/ Forward(d) => UNCHANGED <<outbox, pin>>
  BY Zenon DEF ReadLog, Forward, driverVars
<1>7. \A d, code : CloseStream(d, code) => UNCHANGED <<outbox, pin>>
  BY Zenon DEF CloseStream, driverVars
<1>8. RelayStep => UNCHANGED <<outbox, pin>>
  BY <1>5, <1>6, <1>7, Zenon DEF RelayStep
<1> QED
  BY <1>1, <1>2, <1>3, <1>4, <1>8 DEF DeviceStep

\* A command commits the next op of its device.
LEMMA WriteFacts ==
    ASSUME SyncTypeOK, NEW d \in Device, Write(d)
    PROVE  LET n == Cardinality({op \in log[d] : op.dev = d}) + 1
           IN  /\ n \in 1..MaxSeq /\ [dev |-> d, seq |-> n] \in Op
               /\ log' = [log EXCEPT ![d] = @ \cup {[dev |-> d, seq |-> n]}]
               /\ log'[d] = log[d] \cup {[dev |-> d, seq |-> n]}
               /\ outbox' = [outbox EXCEPT ![d] = @ \cup {n}]
               /\ outbox'[d] = outbox[d] \cup {n}
               /\ \A e \in Device : e # d => log'[e] = log[e] /\ outbox'[e] = outbox[e]
               /\ floor' = floor
<1> DEFINE n == Cardinality({op \in log[d] : op.dev = d}) + 1
<1>1. IsFiniteSet({op \in log[d] : op.dev = d})
  BY OwnOpsFinite DEF SyncTypeOK
<1>2. Cardinality({op \in log[d] : op.dev = d}) \in Nat
  BY <1>1, FS_CardinalityType
<1>3. /\ n <= MaxSeq /\ floor' = floor
      /\ log' = [log EXCEPT ![d] = @ \cup {[dev |-> d, seq |-> n]}]
      /\ outbox' = [outbox EXCEPT ![d] = @ \cup {n}]
  BY DEF Write
<1>4. n \in 1..MaxSeq
  BY <1>2, <1>3, RelayBoundAssumption
<1> HIDE DEF n
<1>5. [dev |-> d, seq |-> n] \in Op
  BY <1>4 DEF Op
<1>6. /\ log'[d] = log[d] \cup {[dev |-> d, seq |-> n]}
      /\ outbox'[d] = outbox[d] \cup {n}
      /\ \A e \in Device : e # d => log'[e] = log[e] /\ outbox'[e] = outbox[e]
  BY <1>3 DEF SyncTypeOK
<1> QED
  BY <1>3, <1>4, <1>5, <1>6 DEF n

\* handle_frame, Ack: the rows that leave the outbox are of batches on disk.
LEMMA RecvAckFacts ==
    ASSUME SyncTypeOK, Numbered, NEW d \in Device, RecvAck(d)
    PROVE  /\ outbox'[d] \subseteq outbox[d]
           /\ \A n \in outbox[d] : n \notin outbox'[d] =>
                [dev |-> d, seq |-> n] \in stored
           /\ outbox' = [outbox EXCEPT ![d] = outbox'[d]]
           /\ \A e \in Device : e # d => outbox'[e] = outbox[e]
           /\ UNCHANGED <<log, floor, stored>>
<1>1. PICK id \in sess[d].acks :
        LET s == sess[d]
            done == {b \in s.inflight : b.id = id}
            left == outbox[d] \ UNION {b.seqs : b \in done}
        IN  outbox' = [outbox EXCEPT ![d] = left]
  BY DEF RecvAck
<1> DEFINE done == {b \in sess[d].inflight : b.id = id}
           left == outbox[d] \ UNION {b.seqs : b \in done}
<1>2. outbox' = [outbox EXCEPT ![d] = left]
  BY <1>1
<1>3. left \subseteq outbox[d]
  OBVIOUS
<1>4. \A n \in outbox[d] : n \notin left => [dev |-> d, seq |-> n] \in stored
  <2>1. SUFFICES ASSUME NEW n \in outbox[d], n \notin left
                 PROVE  [dev |-> d, seq |-> n] \in stored
    OBVIOUS
  <2>2. PICK b \in sess[d].inflight : b.id = id /\ n \in b.seqs
    BY <2>1
  <2>3. Own(d, b.seqs) \subseteq stored
    BY <1>1, <2>2 DEF Numbered, NumberedAt
  <2> QED
    BY <2>2, <2>3 DEF Own
<1> HIDE DEF left
<1>5. outbox'[d] = left /\ \A e \in Device : e # d => outbox'[e] = outbox[e]
  BY <1>2 DEF SyncTypeOK
<1>6. UNCHANGED <<log, floor, stored>>
  BY DEF RecvAck, relayVars
<1> QED
  BY <1>2, <1>3, <1>4, <1>5, <1>6

LEMMA StoredStep ==
    ASSUME Step
    PROVE  UNCHANGED <<frames, stored>> \/ \E m \in up : StoreFresh(m)
  BY RelayFrame DEF Step, RelayStep, relayVars

\* handle_frame, OpBatch: what comes in is on the relay's disk.
LEMMA RecvOpsFacts ==
    ASSUME SyncTypeOK, Streamed, NEW d \in Device, RecvOps(d)
    PROVE  LET ops == Head(stream[d].events).ops
           IN  /\ ops \subseteq Op /\ ops \subseteq stored
               /\ log'[d] = log[d] \cup ops
               /\ log' = [log EXCEPT ![d] = @ \cup ops]
               /\ \A e \in Device : e # d => log'[e] = log[e]
               /\ floor' = floor
<1> DEFINE e == Head(stream[d].events)
<1>1. /\ stream[d].events \in Seq(Event) /\ stream[d].events # <<>>
      /\ e.kind = "ops"
  BY DEF SyncTypeOK, Stream, RecvOps, NextEvent
<1>2. e \in Event /\ e \in Range(stream[d].events)
  BY <1>1, RangeOfTail
<1>3. e.ops \subseteq Op
  BY <1>1, <1>2 DEF Event
<1>4. e.ops \subseteq stored
  BY <1>1, <1>2 DEF Streamed
<1>5. log' = [log EXCEPT ![d] = @ \cup e.ops] /\ floor' = floor
  BY DEF RecvOps
<1> HIDE DEF e
<1>6. log'[d] = log[d] \cup e.ops /\ \A x \in Device : x # d => log'[x] = log[x]
  BY <1>5 DEF SyncTypeOK
<1> QED
  BY <1>3, <1>4, <1>5, <1>6 DEF e

LEMMA WrittenHolds ==
    ASSUME SyncTypeOK, RelayInv, Numbered, Requested, Written, Streamed,
           SyncTypeOK', Grows, RelayGrows, Step
    PROVE  Written'
<1>0. \A op \in Op : op.dev \in Device /\ log[op.dev] \subseteq log'[op.dev]
  BY DEF Op, Grows
<1>1. ASSUME NEW op \in stored' PROVE op \in log'[op.dev]
  <2>1. CASE op \in stored
    BY <1>0, <2>1 DEF Written, RelayInv, RelayTypeOK
  <2>2. ASSUME NEW m \in up, StoreFresh(m), op \in m.ops PROVE op \in log'[op.dev]
    <3>1. op \in log[m.dev] /\ op.dev = m.dev
      BY <2>2 DEF Requested, Sent
    <3>2. op \in Op
      BY <2>2 DEF SyncTypeOK, Request, Batch
    <3> QED
      BY <1>0, <3>1, <3>2
  <2> QED
    BY <1>1, <2>1, <2>2, StoredStep DEF StoreFresh, AppendFresh
<1>2. ASSUME NEW f \in frames' PROVE f.ops \subseteq stored'
  <2>1. CASE f \in frames
    BY <2>1 DEF Written, RelayGrows
  <2>2. ASSUME NEW m \in up, StoreFresh(m), f \notin frames
        PROVE  f.ops \subseteq stored'
    BY <1>2, <2>2 DEF StoreFresh, AppendFresh, Retain
  <2> QED
    BY <1>2, <2>1, <2>2, StoredStep
<1>3. ASSUME NEW d \in Device PROVE Own(d, outbox'[d]) \subseteq log'[d]
  <2>1. Own(d, outbox[d]) \subseteq log[d] /\ log[d] \subseteq log'[d]
    BY <1>3 DEF Written, Grows
  <2>2. CASE outbox' = outbox
    BY <2>1, <2>2
  <2>3. ASSUME NEW w \in Device, Write(w) PROVE Own(d, outbox'[d]) \subseteq log'[d]
    <3> DEFINE n == Cardinality({op \in log[w] : op.dev = w}) + 1
    <3>1. /\ log'[w] = log[w] \cup {[dev |-> w, seq |-> n]}
          /\ outbox'[w] = outbox[w] \cup {n}
          /\ \A e \in Device : e # w => outbox'[e] = outbox[e]
      BY <2>3, WriteFacts
    <3> HIDE DEF n
    <3> QED
      BY <1>3, <2>1, <3>1 DEF Own
  <2>4. ASSUME NEW w \in Device, RecvAck(w) PROVE Own(d, outbox'[d]) \subseteq log'[d]
    <3>1. outbox'[d] \subseteq outbox[d]
      BY <1>3, <2>4, RecvAckFacts
    <3> QED
      BY <2>1, <3>1 DEF Own
  <2> QED
    BY <2>2, <2>3, <2>4, OutboxFrame DEF Step
<1>4. ASSUME NEW d \in Device, NEW op \in Op, Held(d, op)' PROVE op \in log'[op.dev]
  <2>1. Held(d, op) => op \in log'[op.dev]
    BY <1>0, <1>4 DEF Written
  <2>2. CASE UNCHANGED <<log, floor>>
    BY <1>4, <2>1, <2>2 DEF Held
  <2>3. ASSUME NEW w \in Device, Write(w) PROVE op \in log'[op.dev]
    <3> DEFINE n == Cardinality({o \in log[w] : o.dev = w}) + 1
               new == [dev |-> w, seq |-> n]
    <3>1. /\ log'[w] = log[w] \cup {new} /\ floor' = floor
          /\ \A e \in Device : e # w => log'[e] = log[e]
      BY <2>3, WriteFacts
    <3>2. new.dev = w
      OBVIOUS
    <3> HIDE DEF new
    <3> QED
      BY <1>4, <2>1, <3>1, <3>2 DEF Held
  <2>4. ASSUME NEW w \in Device, RecvOps(w) PROVE op \in log'[op.dev]
    <3> DEFINE ops == Head(stream[w].events).ops
    <3>1. /\ log'[w] = log[w] \cup ops /\ floor' = floor /\ ops \subseteq stored
          /\ \A e \in Device : e # w => log'[e] = log[e]
      BY <2>4, RecvOpsFacts
    <3> HIDE DEF ops
    <3>2. op \in stored => op \in log'[op.dev]
      BY <1>0 DEF Written
    <3> QED
      BY <1>4, <2>1, <3>1, <3>2 DEF Held
  <2>5. ASSUME NEW w \in Device, RecvGapApplied(w) PROVE op \in log'[op.dev]
    <3>1. /\ log' = log
          /\ \A e \in Device : floor'[w][e] \in {floor[w][e], pin[e]}
          /\ \A e \in Device : e # w => floor'[e] = floor[e]
      BY <2>5, AppliedFacts
    <3>2. op.seq <= pin[op.dev] => op \in log'[op.dev]
      BY <1>0 DEF Written
    <3> QED
      BY <1>0, <1>4, <2>1, <3>1, <3>2 DEF Held
  <2> QED
    BY <2>2, <2>3, <2>4, <2>5, LogFrame DEF Step
<1>5. ASSUME NEW op \in Op, op.seq <= pin'[op.dev] PROVE op \in log'[op.dev]
  <2>1. CASE pin' = pin
    BY <1>0, <1>5, <2>1 DEF Written
  <2>2. ASSUME NEW d \in Device, PublishSnapshot(d) PROVE op \in log'[op.dev]
    <3>1. Held(d, op)
      BY <1>5, <2>2, CursorFacts DEF PublishSnapshot
    <3> QED
      BY <1>0, <2>2, <3>1 DEF Written
  <2> QED
    BY <2>1, <2>2, OutboxFrame DEF Step
<1> QED
  BY <1>1, <1>2, <1>3, <1>4, <1>5 DEF Written, Own

\* publish.rs: an op leaves its author's outbox only when it is on disk.
LEMMA AckedHolds ==
    ASSUME SyncTypeOK, Numbered, Streamed, AckedIsStored, RelayGrows, Step
    PROVE  AckedIsStored'
<1>1. SUFFICES ASSUME NEW d \in Device, NEW op \in log'[d],
                      op.dev = d, op.seq \notin outbox'[d]
               PROVE  op \in stored'
  BY DEF AckedIsStored
<1>2. op \in log[d] /\ op.seq \notin outbox[d] => op \in stored'
  BY <1>1 DEF AckedIsStored, RelayGrows
<1>3. ASSUME NEW w \in Device, Write(w) PROVE op \in stored'
  <2> DEFINE n == Cardinality({o \in log[w] : o.dev = w}) + 1
             new == [dev |-> w, seq |-> n]
  <2>1. /\ log'[w] = log[w] \cup {new} /\ outbox'[w] = outbox[w] \cup {n}
        /\ \A e \in Device : e # w => log'[e] = log[e] /\ outbox'[e] = outbox[e]
    BY <1>3, WriteFacts
  <2>2. new.seq = n
    OBVIOUS
  <2> HIDE DEF new, n
  <2> QED
    BY <1>1, <1>2, <2>1, <2>2
<1>4. ASSUME NEW w \in Device, RecvAck(w) PROVE op \in stored'
  <2>1. /\ \A n \in outbox[w] : n \notin outbox'[w] =>
                [dev |-> w, seq |-> n] \in stored
        /\ \A e \in Device : e # w => outbox'[e] = outbox[e]
        /\ log' = log /\ stored' = stored
    BY <1>4, RecvAckFacts
  <2>2. op = [dev |-> op.dev, seq |-> op.seq]
    BY <1>1, <2>1 DEF SyncTypeOK, Op
  <2> QED
    BY <1>1, <1>2, <2>1, <2>2
<1>5. ASSUME NEW w \in Device, RecvOps(w) PROVE op \in stored'
  <2> DEFINE ops == Head(stream[w].events).ops
  <2>1. /\ log'[w] = log[w] \cup ops /\ ops \subseteq stored
        /\ \A e \in Device : e # w => log'[e] = log[e]
    BY <1>5, RecvOpsFacts
  <2>2. outbox' = outbox
    BY <1>5 DEF RecvOps
  <2> HIDE DEF ops
  <2> QED
    BY <1>1, <1>2, <2>1, <2>2 DEF RelayGrows
<1>6. ASSUME NEW w \in Device, RecvGapApplied(w) PROVE log' = log
  BY <1>6, AppliedFacts
<1>7. CASE log' = log /\ outbox' = outbox
  BY <1>1, <1>2, <1>7
<1> QED
  BY <1>3, <1>4, <1>5, <1>6, <1>7, LogFrame, OutboxFrame DEF Step

\* What a device's step does to its stream; other streams it leaves alone.
Reads(d) ==
    \/ RecvOps(d) \/ RecvCaughtUp(d) \/ RecvDamaged(d)
    \/ RecvGapFails(d) \/ RecvGapDeferred(d)

LEMMA DeviceStream ==
    ASSUME SyncTypeOK, NEW d \in Device, DeviceStep(d)
    PROVE  /\ \A e \in Device : e # d => stream'[e] = stream[e]
           /\ \/ stream' = stream
              \/ stream'[d] = NoStream /\ st'[d] \notin Connected
              \/ stream'[d] = Subscribed(CursorOf(d)) /\ UNCHANGED <<log, floor>>
              \/ RecvGapApplied(d)
              \/ Reads(d) /\ stream[d].events # <<>> /\ Consume(d)
<1>1. ASSUME NEW s, stream' = [stream EXCEPT ![d] = s]
      PROVE  stream'[d] = s /\ \A e \in Device : e # d => stream'[e] = stream[e]
  BY <1>1 DEF SyncTypeOK
<1>2. ASSUME NEW state \in {"Disconnected", "Stopped"}, EndSession(d, state)
      PROVE  /\ \A e \in Device : e # d => stream'[e] = stream[e]
             /\ stream'[d] = NoStream /\ st'[d] \notin Connected
  <2>1. stream' = [stream EXCEPT ![d] = NoStream] /\ st' = [st EXCEPT ![d] = state]
    BY <1>2 DEF EndSession
  <2> QED
    BY <1>1, <1>2, <2>1 DEF SyncTypeOK, Connected
<1>3. CASE Connect(d) \/ Resync(d)
  <2>1. /\ stream' = [stream EXCEPT ![d] = Subscribed(CursorOf(d))]
        /\ UNCHANGED <<log, floor>>
    BY <1>3, Zenon DEF Connect, Resync, driverVars
  <2> QED
    BY <1>1, <2>1
<1>4. CASE DropSession(d)
  BY <1>2, <1>4 DEF DropSession
<1>5. CASE RecvClosed(d)
  <2> DEFINE state == IF IsTerminal(Head(stream[d].events).code)
                      THEN "Stopped" ELSE "Disconnected"
  <2>1. EndSession(d, state)
    BY <1>5 DEF RecvClosed
  <2>2. state \in {"Disconnected", "Stopped"}
    OBVIOUS
  <2> HIDE DEF state
  <2> QED
    BY <1>2, <2>1, <2>2
<1>6. CASE Retransmit(d)
  <2>1. stream' = stream \/ EndSession(d, "Disconnected")
    BY <1>6 DEF Retransmit
  <2> QED
    BY <1>2, <2>1
<1>7. CASE \/ Renew(d) \/ Write(d) \/ Drain(d) \/ PublishSnapshot(d)
           \/ RecvAck(d)
  <2>1. stream' = stream
    BY <1>7, Zenon DEF Renew, Write, Drain, PublishSnapshot, RecvAck
  <2> QED
    BY <2>1
<1>8. CASE RecvGapApplied(d)
  BY <1>8, AppliedFacts
<1>9. CASE Reads(d)
  <2>1. stream[d].events # <<>> /\ Consume(d)
    BY <1>9 DEF Reads, RecvOps, RecvCaughtUp, RecvDamaged, RecvGapFails,
                RecvGapDeferred, NextEvent
  <2>2. stream' = [stream EXCEPT ![d] =
                     [stream[d] EXCEPT !.events = Tail(stream[d].events)]]
    BY <2>1 DEF Consume
  <2> QED
    BY <1>1, <1>9, <2>1, <2>2
<1> QED
  BY <1>3, <1>4, <1>5, <1>6, <1>7, <1>8, <1>9 DEF DeviceStep, Reads

LEMMA EmptyStreams ==
    /\ Range(NoStream.events) = {} /\ Range(NoStream.rx) = {}
    /\ NoStream.stage = "none"
    /\ \A c : /\ Subscribed(c).stage = "opened" /\ Subscribed(c).cursors = c
              /\ Range(Subscribed(c).events) = {} /\ Range(Subscribed(c).rx) = {}
<1> DEFINE none == <<>>
<1>1. Range(none) = {}
  BY DEF Range
<1>2. /\ NoStream.events = none /\ NoStream.rx = none /\ NoStream.stage = "none"
      /\ \A c : /\ Subscribed(c).stage = "opened" /\ Subscribed(c).cursors = c
                /\ Subscribed(c).events = none /\ Subscribed(c).rx = none
  BY DEF NoStream, Subscribed
<1> HIDE DEF none
<1> QED
  BY <1>1, <1>2

LEMMA StreamedHolds ==
    ASSUME SyncTypeOK, RelayInv, Requested, Written, Streamed,
           Grows, RelayGrows, Step
    PROVE  Streamed'
<1> DEFINE Of(evs, rx) ==
             /\ \A e \in evs : e.kind = "ops" => e.ops \subseteq stored'
             /\ \A f \in rx : f.ops \subseteq stored' /\ f.ops \subseteq log'[f.from]
<1>1. ASSUME NEW d \in Device PROVE Of(Range(stream[d].events), Range(stream[d].rx))
  <2>1. \A f \in Range(stream[d].rx) : f.from \in Device
    <3>1. stream[d].rx \in Seq(RxFrame)
      BY <1>1 DEF SyncTypeOK, Stream
    <3>2. Range(stream[d].rx) \subseteq RxFrame
      BY <3>1, RangeType
    <3> QED
      BY <3>2 DEF RxFrame
  <2>2. stored \subseteq stored' /\ \A e \in Device : log[e] \subseteq log'[e]
    BY DEF Grows, RelayGrows
  <2> QED
    BY <1>1, <2>1, <2>2 DEF Streamed
<1>2. SUFFICES ASSUME NEW d \in Device
               PROVE  Of(Range(stream'[d].events), Range(stream'[d].rx))
  BY DEF Streamed
<1>3. CASE stream'[d] = stream[d]
  BY <1>1, <1>2, <1>3
<1>4. ASSUME NEW x \in Device, DeviceStep(x)
      PROVE  Of(Range(stream'[d].events), Range(stream'[d].rx))
  <2>1. CASE x # d
    BY <1>2, <1>3, <1>4, <2>1, DeviceStream
  <2>2. CASE x = d
    <3>1. CASE \/ stream'[d] = NoStream \/ \E c : stream'[d] = Subscribed(c)
      <4>1. Range(stream'[d].events) = {} /\ Range(stream'[d].rx) = {}
        BY <3>1, EmptyStreams
      <4> QED
        BY <4>1
    <3>2. CASE stream[d].events # <<>> /\ Consume(d)
      <4>1. /\ Range(stream'[d].events) \subseteq Range(stream[d].events)
            /\ stream'[d].rx = stream[d].rx
        BY <1>2, <3>2, ConsumeType
      <4> QED
        BY <1>1, <1>2, <4>1
    <3>3. RecvGapApplied(d) => stream'[d] = Subscribed(CursorOf(d)')
      BY <1>2, AppliedFacts
    <3> QED
      BY <1>2, <1>3, <1>4, <2>2, <3>1, <3>2, <3>3, DeviceStream
  <2> QED
    BY <2>1, <2>2
<1>5. ASSUME RelayRestart PROVE Of(Range(stream'[d].events), Range(stream'[d].rx))
  <2>1. stream'[d] = NoStream
    BY <1>2, <1>5 DEF RelayRestart
  <2> QED
    BY <2>1, EmptyStreams
<1>6. ASSUME NEW m \in up, StoreFresh(m) \/ PublishDuplicate(m) \/ LoseMessage(m)
      PROVE  stream' = stream
  BY <1>6, Zenon DEF StoreFresh, PublishDuplicate, LoseMessage
<1>7. ASSUME NEW m \in posting, PublishStored(m)
      PROVE  Of(Range(stream'[d].events), Range(stream'[d].rx))
  <2> DEFINE sent == [ops |-> m.ops, from |-> m.dev, live |-> m.live]
  <2>1. m \in Request /\ m.dev \in Device /\ Sent(m) /\ m.ops \subseteq stored
    BY <1>7 DEF SyncTypeOK, Requested, Request
  <2>2. /\ stream'[d].events = stream[d].events
        /\ Range(stream'[d].rx) \subseteq Range(stream[d].rx) \cup {sent}
    BY <1>2, <1>7, <2>1, FanOutFacts DEF PublishStored
  <2>3. sent.ops \subseteq stored' /\ sent.ops \subseteq log'[sent.from]
    BY <2>1 DEF Sent, Grows, RelayGrows
  <2> HIDE DEF sent
  <2> QED
    BY <1>1, <1>2, <2>2, <2>3
<1>8. ASSUME NEW x \in Device, ReadLog(x)
      PROVE  Of(Range(stream'[d].events), Range(stream'[d].rx))
  <2>0. RelayTypeOK
    BY DEF RelayInv
  <2>1. CASE x # d
    BY <1>2, <1>3, <1>8, <2>0, <2>1, ReadLogFacts
  <2>2. CASE x = d
    <3> DEFINE c == stream[d].cursors
    <3>1. /\ stream'[d].rx = stream[d].rx
          /\ Range(stream'[d].events) = GapEvents(c)
               \cup {OpsEvent(f.ops) : f \in Replay(c)} \cup {CaughtUp}
      BY <1>2, <1>8, <2>0, <2>2, ReadLogFacts
    <3>2. \A e \in GapEvents(c) \cup {CaughtUp} : e.kind # "ops"
      BY DEF GapEvents, CaughtUp
    <3>3. \A f \in Replay(c) : /\ OpsEvent(f.ops).ops = f.ops
                               /\ f.ops \subseteq stored'
      BY DEF Replay, OpsEvent, Written, RelayGrows
    <3> HIDE DEF c
    <3> QED
      BY <1>1, <1>2, <3>1, <3>2, <3>3
  <2> QED
    BY <2>1, <2>2
<1>9. ASSUME NEW x \in Device, Forward(x)
      PROVE  Of(Range(stream'[d].events), Range(stream'[d].rx))
  <2>1. CASE x # d
    BY <1>2, <1>3, <1>9, <2>1, ForwardFacts
  <2>2. CASE x = d
    <3> DEFINE f == Head(stream[d].rx)
    <3>1. /\ Range(stream[d].rx) = {f} \cup Range(stream'[d].rx)
          /\ \/ stream'[d].events = stream[d].events
             \/ Range(stream'[d].events) =
                  Range(stream[d].events) \cup {OpsEvent(f.ops)}
      BY <1>2, <1>9, <2>2, ForwardFacts
    <3>2. OpsEvent(f.ops).ops = f.ops
      BY DEF OpsEvent
    <3> HIDE DEF f
    <3> QED
      BY <1>1, <1>2, <3>1, <3>2
  <2> QED
    BY <2>1, <2>2
<1>10. ASSUME NEW x \in Device, NEW code \in Codes, CloseStream(x, code)
       PROVE  Of(Range(stream'[d].events), Range(stream'[d].rx))
  <2>1. CASE x # d
    BY <1>2, <1>3, <1>10, <2>1, CloseStreamFacts
  <2>2. CASE x = d
    <3> DEFINE closed == [kind |-> "closed", code |-> code]
    <3>1. /\ Range(stream'[d].rx) = {}
          /\ Range(stream'[d].events) = Range(stream[d].events) \cup {closed}
      BY <1>2, <1>10, <2>2, CloseStreamFacts
    <3>2. closed.kind # "ops"
      OBVIOUS
    <3> HIDE DEF closed
    <3> QED
      BY <1>1, <1>2, <3>1, <3>2
  <2> QED
    BY <2>1, <2>2
<1> HIDE DEF Of
<1> QED
  BY <1>3, <1>4, <1>5, <1>6, <1>7, <1>8, <1>9, <1>10 DEF Step, RelayStep

-----------------------------------------------------------------------------
LEMMA InitDeliveryInv == Init => DeliveryInv
<1> SUFFICES ASSUME Init PROVE DeliveryInv
  OBVIOUS
<1>1. /\ Zero \in Cursors /\ NoStream \in Stream
      /\ Range(NoStream.events) = {} /\ Range(NoStream.rx) = {}
  BY StreamTypes, EmptyStreams
<1>2. NoSession \in Session
  BY DEF NoSession, Session
<1>3. SyncTypeOK
  BY <1>1, <1>2 DEF Init, SyncTypeOK, SyncState
<1>4. RelayInv
  BY InitRelayInv DEF Init
<1>5. Numbered
  BY DEF Init, Numbered, NumberedAt, NoSession
<1>6. Requested
  BY DEF Init, Requested
<1>7. Written
  <2>1. \A d, e \in Device : Zero[e] = 0 /\ floor[d][e] = 0 /\ pin[e] = 0
    BY DEF Init, Zero
  <2>2. \A op \in Op : op.dev \in Device /\ op.seq \in Nat /\ ~(op.seq <= 0)
    BY DEF Op
  <2>3. \A d \in Device : Own(d, outbox[d]) = {}
    BY DEF Init, Own
  <2>4. \A d \in Device : \A op \in Op : ~Held(d, op)
    BY <2>1, <2>2 DEF Init, Held
  <2>5. stored = {} /\ frames = {}
    BY DEF Init, RelayInit
  <2> QED
    BY <2>1, <2>2, <2>3, <2>4, <2>5 DEF Written
<1>8. Streamed
  BY <1>1 DEF Init, Streamed
<1>9. AckedIsStored
  BY DEF Init, AckedIsStored
<1> QED
  BY <1>3, <1>4, <1>5, <1>6, <1>7, <1>8, <1>9 DEF DeliveryInv

LEMMA StepFacts ==
    ASSUME DeliveryInv, Next
    PROVE  /\ Step /\ SyncTypeOK' /\ RelayInv' /\ Grows /\ RelayGrows
<1>1. Step /\ SyncTypeOK /\ RelayInv
  BY NextIsAStep DEF Step, DeliveryInv
<1>2. RelayTypeOK
  BY <1>1 DEF RelayInv
<1> QED
  BY <1>1, <1>2, StepTypes, RelayStepFacts, StepGrows

LEMMA NextDeliveryInv ==
    ASSUME DeliveryInv, [Next]_vars
    PROVE  DeliveryInv'
<1>1. CASE Next
  <2>1. /\ Step /\ SyncTypeOK' /\ RelayInv' /\ Grows /\ RelayGrows
    BY <1>1, StepFacts
  <2>2. Numbered' /\ Requested'
    BY <2>1, NumberingHolds DEF DeliveryInv
  <2>3. Written'
    BY <2>1, WrittenHolds DEF DeliveryInv
  <2>4. Streamed'
    BY <2>1, StreamedHolds DEF DeliveryInv
  <2>5. AckedIsStored'
    BY <2>1, AckedHolds DEF DeliveryInv
  <2> QED
    BY <2>1, <2>2, <2>3, <2>4, <2>5 DEF DeliveryInv
<1>2. CASE UNCHANGED vars
  <2>1. SyncTypeOK' /\ RelayInv'
    BY <1>2 DEF DeliveryInv, SyncTypeOK, RelayInv, RelayTypeOK, Accounted,
                vars, relayVars, driverVars
  <2>2. Numbered' /\ Requested'
    BY <1>2 DEF DeliveryInv, Numbered, NumberedAt, Requested, Sent, Own,
                vars, relayVars, driverVars
  <2>3. Written' /\ Streamed' /\ AckedIsStored'
    BY <1>2 DEF DeliveryInv, Written, Held, Own, Streamed, AckedIsStored,
                vars, relayVars, driverVars
  <2> QED
    BY <2>1, <2>2, <2>3 DEF DeliveryInv
<1> QED
  BY <1>1, <1>2

LEMMA DeliveryInvHolds == Spec => []DeliveryInv
  BY InitDeliveryInv, NextDeliveryInv, PTL DEF Spec

(***************************************************************************)
(* relay_append, evict and relay_replay_after together, for any set of     *)
(* devices, any cap and any choice of expired frames: every op the relay   *)
(* ever accepted is at or below the reader's cursor, in its replay, or     *)
(* under a gap it is told of.                                              *)
(***************************************************************************)
THEOREM ReplayNeverHidesALoss == Spec => []ReplayIsComplete
<1>1. DeliveryInv => ReplayIsComplete
  BY AccountedReplay DEF DeliveryInv
<1> QED
  BY <1>1, DeliveryInvHolds, PTL

(***************************************************************************)
(* evict's watermarks only rise, and an op leaves the disk only below one, *)
(* in every step of every behaviour.                                       *)
(***************************************************************************)
THEOREM EvictionIsRemembered == Spec => LossIsRemembered
<1> DEFINE Remembered ==
       /\ \A d \in Device : evicted[d] <= evicted'[d]
       /\ \A f \in frames : \A op \in f.ops :
            \/ \E g \in frames' : op \in g.ops
            \/ op.seq <= evicted'[op.dev]
<1>1. DeliveryInv /\ [Next]_vars => [Remembered]_relayVars
  <2>1. SUFFICES ASSUME DeliveryInv, Next, ~UNCHANGED relayVars
                 PROVE  Remembered
    BY DEF vars
  <2>2. PICK m \in up : StoreFresh(m)
    <3>1. Step
      BY <2>1, NextIsAStep DEF Step
    <3> QED
      BY <2>1, <3>1, RelayFrame DEF Step, RelayStep
  <2>3. PICK expired \in SUBSET frames : AppendFresh(m.ops, m.batch, expired)
    BY <2>2 DEF StoreFresh
  <2>4. m.ops \in Batch /\ m.batch \in Nat
    BY <2>1 DEF DeliveryInv, SyncTypeOK, Request
  <2> QED
    BY <2>1, <2>3, <2>4, AppendKeepsLosses DEF DeliveryInv, RelayInv
<1> QED
  BY <1>1, DeliveryInvHolds, PTL DEF Spec, LossIsRemembered

(***************************************************************************)
(* publish.rs and handle_frame's Ack, for any devices, any bounds and any  *)
(* faults: an op that left its author's outbox is one the relay stored,    *)
(* although batch numbers start over with every session, requests outlive  *)
(* their sessions, and acks are lost, late or given for a re-send.         *)
(***************************************************************************)
THEOREM AcksAreHonest == Spec => []AckedIsStored
<1>1. DeliveryInv => AckedIsStored
  BY DEF DeliveryInv
<1> QED
  BY <1>1, DeliveryInvHolds, PTL

-----------------------------------------------------------------------------
(* The refinement of OpDelivery, step by step. *)

Copies == [d \in Device |-> {op \in Op : Held(d, op)}]

Unacked == [d \in Device |-> Own(d, outbox[d])]

LEMMA CopiesStay ==
    ASSUME UNCHANGED <<log, floor>> PROVE Copies' = Copies
  BY DEF Copies, Held

LEMMA UnackedStays ==
    ASSUME outbox' = outbox PROVE Unacked' = Unacked
  BY DEF Unacked, Own

\* A command commits.
LEMMA WriteCommits ==
    ASSUME DeliveryInv, NEW d \in Device, Write(d)
    PROVE  Delivery!Commit(d)
<1> DEFINE n == Cardinality({op \in log[d] : op.dev = d}) + 1
           op == [dev |-> d, seq |-> n]
           new == {x \in Op : x.dev = d /\ x.seq = n}
<1>1. SyncTypeOK /\ Written
  BY DEF DeliveryInv
<1>2. /\ n \in 1..MaxSeq /\ op \in Op
      /\ log'[d] = log[d] \cup {op} /\ outbox'[d] = outbox[d] \cup {n}
      /\ \A e \in Device : e # d => log'[e] = log[e] /\ outbox'[e] = outbox[e]
      /\ floor' = floor
  BY <1>1, WriteFacts
<1>3. {x \in Copies[d] : x.dev = d} = {x \in log[d] : x.dev = d}
  <2>1. \A x \in log[d] : x \in Op
    BY <1>1 DEF SyncTypeOK
  <2>2. \A x \in Op : x.dev = d /\ Held(d, x) => x \in log[d]
    BY <1>1 DEF Written
  <2> QED
    BY <2>1, <2>2 DEF Copies, Held
<1>4. new = {op}
  BY <1>2 DEF Op
<1>5. stored' = stored
  BY DEF Write, relayVars
<1> HIDE DEF n
<1>6. Copies' = [Copies EXCEPT ![d] = @ \cup new]
  <2> HIDE DEF op, new
  <2>1. \A x \in Op : Held(d, x)' <=> Held(d, x) \/ x = op
    BY <1>2 DEF Held
  <2>2. \A e \in Device : e # d => \A x \in Op : Held(e, x)' <=> Held(e, x)
    BY <1>2 DEF Held
  <2>3. /\ {x \in Op : Held(d, x)'} = {x \in Op : Held(d, x)} \cup new
        /\ \A e \in Device : e # d =>
             {x \in Op : Held(e, x)'} = {x \in Op : Held(e, x)}
    BY <1>2, <1>4, <2>1, <2>2
  <2>4. Copies' = [e \in Device |-> {x \in Op : Held(e, x)'}]
    BY DEF Copies
  <2> QED
    BY <2>3, <2>4 DEF Copies
<1>7. Unacked' = [Unacked EXCEPT ![d] = @ \cup new]
  <2>1. Own(d, outbox'[d]) = Own(d, outbox[d]) \cup {op}
    BY <1>2 DEF Own
  <2> HIDE DEF op, new
  <2>2. \A e \in Device : e # d => Own(e, outbox'[e]) = Own(e, outbox[e])
    BY <1>2
  <2>3. Unacked' = [e \in Device |-> Own(e, outbox'[e])]
    BY DEF Unacked, Own
  <2> QED
    BY <1>4, <2>1, <2>2, <2>3 DEF Unacked
<1>8. new # {}
  BY <1>4
<1>9. n = Delivery!Cardinality({x \in Copies[d] : x.dev = d}) + 1
  <2>1. \A S : Delivery!Cardinality(S) = Cardinality(S)
    BY Zenon DEF Delivery!Cardinality, Cardinality
  <2> QED
    BY <1>3, <2>1 DEF n
<1> QED
  BY <1>5, <1>6, <1>7, <1>8, <1>9 DEF Delivery!Commit, Copies, Unacked

\* The relay appends a fresh batch.
LEMMA StoreStores ==
    ASSUME DeliveryInv, NEW m \in up, StoreFresh(m)
    PROVE  Delivery!Store(m.dev)
<1>1. m \in Request /\ m.dev \in Device /\ Sent(m) /\ m.ops \subseteq Op
  BY DEF DeliveryInv, SyncTypeOK, Request, Requested, Batch
<1>2. m.ops \in SUBSET {op \in Copies[m.dev] : op.dev = m.dev}
  BY <1>1 DEF Sent, Copies, Held
<1>3. stored' = stored \cup m.ops /\ UNCHANGED <<log, floor, outbox>>
  BY DEF StoreFresh, AppendFresh, driverVars
<1>4. Copies' = Copies /\ Unacked' = Unacked
  BY <1>3, CopiesStay, UnackedStays
<1> QED
  BY <1>2, <1>3, <1>4 DEF Delivery!Store, Copies, Unacked

\* The author takes the ack.
LEMMA AckAcks ==
    ASSUME DeliveryInv, NEW d \in Device, RecvAck(d)
    PROVE  Delivery!Acked(d)
<1> DEFINE gone == Own(d, outbox[d] \ outbox'[d])
<1>1. SyncTypeOK /\ Numbered
  BY DEF DeliveryInv
<1>2. /\ outbox'[d] \subseteq outbox[d]
      /\ \A n \in outbox[d] : n \notin outbox'[d] =>
           [dev |-> d, seq |-> n] \in stored
      /\ \A e \in Device : e # d => outbox'[e] = outbox[e]
      /\ UNCHANGED <<log, floor, stored>>
  BY <1>1, RecvAckFacts
<1>3. gone \in SUBSET (Unacked[d] \cap stored)
  BY <1>2 DEF Own, Unacked
<1>4. Unacked' = [Unacked EXCEPT ![d] = @ \ gone]
  <2>1. Own(d, outbox'[d]) = Own(d, outbox[d]) \ gone
    BY <1>2 DEF Own
  <2> HIDE DEF gone
  <2>2. Unacked' = [e \in Device |-> Own(e, outbox'[e])]
    BY DEF Unacked, Own
  <2> QED
    BY <1>2, <2>1, <2>2 DEF Unacked
<1>5. Copies' = Copies
  BY <1>2, CopiesStay
<1> HIDE DEF gone
<1> QED
  BY <1>2, <1>3, <1>4, <1>5 DEF Delivery!Acked, Copies, Unacked

\* A replay, a live frame or a snapshot record brings what some device wrote.
LEMMA ReceivingLearns ==
    ASSUME DeliveryInv, NEW d \in Device, RecvOps(d) \/ RecvGapApplied(d)
    PROVE  Delivery!Learn(d)
<1>1. SyncTypeOK /\ Written /\ Streamed
  BY DEF DeliveryInv
<1>2. \A op \in Op : op \in log[op.dev] => op \in UNION {Copies[e] : e \in Device}
  <2>1. SUFFICES ASSUME NEW op \in Op, op \in log[op.dev]
                 PROVE  \E e \in Device : op \in Copies[e]
    OBVIOUS
  <2>2. op.dev \in Device /\ op \in Copies[op.dev]
    BY <2>1 DEF Op, Copies, Held
  <2> QED
    BY <2>2
<1>3. ASSUME NEW ops \in SUBSET Op, \A op \in ops : op \in log[op.dev],
             \A op \in Op : Held(d, op)' <=> Held(d, op) \/ op \in ops,
             \A e \in Device : e # d => log'[e] = log[e] /\ floor'[e] = floor[e],
             outbox' = outbox, stored' = stored
      PROVE  Delivery!Learn(d)
  <2>1. ops \in SUBSET UNION {Copies[e] : e \in Device}
    BY <1>2, <1>3
  <2>2. Copies' = [Copies EXCEPT ![d] = @ \cup ops]
    <3>1. \A e \in Device : e # d => \A x \in Op : Held(e, x)' <=> Held(e, x)
      BY <1>3 DEF Held
    <3> QED
      BY <1>3, <3>1 DEF Copies
  <2>3. Unacked' = Unacked
    BY <1>3, UnackedStays
  <2> QED
    BY <1>3, <2>1, <2>2, <2>3 DEF Delivery!Learn, Delivery!Committed, Copies, Unacked
<1>4. CASE RecvOps(d)
  <2> DEFINE ops == Head(stream[d].events).ops
  <2>1. /\ ops \subseteq Op /\ ops \subseteq stored
        /\ log'[d] = log[d] \cup ops /\ floor' = floor
        /\ \A e \in Device : e # d => log'[e] = log[e]
    BY <1>1, <1>4, RecvOpsFacts
  <2>2. outbox' = outbox /\ stored' = stored
    BY <1>4 DEF RecvOps, relayVars
  <2> HIDE DEF ops
  <2>3. \A op \in Op : Held(d, op)' <=> Held(d, op) \/ op \in ops
    BY <2>1 DEF Held
  <2>4. \A op \in ops : op \in log[op.dev]
    BY <1>1, <2>1 DEF Written
  <2> QED
    BY <1>3, <2>1, <2>2, <2>3, <2>4
<1>5. CASE RecvGapApplied(d)
  <2> DEFINE ops == {op \in Op : op.seq <= pin[op.dev]}
  <2>1. /\ log' = log
        /\ \A e \in Device : /\ floor'[d][e] \in {floor[d][e], pin[e]}
                             /\ floor[d][e] <= floor'[d][e]
                             /\ pin[e] <= floor'[d][e]
        /\ \A e \in Device : e # d => floor'[e] = floor[e]
        /\ floor' \in [Device -> Cursors]
    BY <1>1, <1>5, AppliedFacts
  <2>2. outbox' = outbox /\ stored' = stored
    BY <1>5 DEF RecvGapApplied, relayVars
  <2>3. \A op \in Op : Held(d, op)' <=> Held(d, op) \/ op \in ops
    <3>1. \A e \in Device : floor[d][e] \in Nat /\ floor'[d][e] \in Nat /\ pin[e] \in Nat
      BY <1>1, <2>1 DEF SyncTypeOK, Cursors
    <3>2. \A op \in Op : op.dev \in Device /\ op.seq \in Nat
      BY DEF Op
    <3> QED
      BY <2>1, <3>1, <3>2 DEF Held
  <2>4. ops \in SUBSET Op /\ \A op \in ops : op \in log[op.dev]
    BY <1>1 DEF Written
  <2> HIDE DEF ops
  <2> QED
    BY <1>3, <2>1, <2>2, <2>3, <2>4
<1> QED
  BY <1>4, <1>5

LEMMA NextRefines ==
    ASSUME DeliveryInv, [Next]_vars
    PROVE  [Delivery!Next]_(Delivery!vars)
<1>1. ASSUME UNCHANGED <<log, floor, outbox, stored>>
      PROVE  UNCHANGED Delivery!vars
  <2>1. Copies' = Copies /\ Unacked' = Unacked /\ stored' = stored
    BY <1>1, CopiesStay, UnackedStays
  <2> QED
    BY <2>1 DEF Delivery!vars, Copies, Unacked
<1>2. CASE UNCHANGED vars
  BY <1>1, <1>2 DEF vars, driverVars, relayVars
<1>3. ASSUME NEW d \in Device, DeviceStep(d)
      PROVE  [Delivery!Next]_(Delivery!vars)
  <2>1. CASE Write(d)
    BY <2>1, WriteCommits DEF Delivery!Next
  <2>2. CASE RecvAck(d)
    BY <2>2, AckAcks DEF Delivery!Next
  <2>3. CASE RecvOps(d) \/ RecvGapApplied(d)
    BY <2>3, ReceivingLearns DEF Delivery!Next
  <2>4. CASE ~(Write(d) \/ RecvAck(d) \/ RecvOps(d) \/ RecvGapApplied(d))
    BY <1>1, <1>3, <2>4, LogFrame, OutboxFrame, RelayFrame DEF relayVars
  <2> QED
    BY <2>1, <2>2, <2>3, <2>4
<1>4. ASSUME RelayRestart PROVE [Delivery!Next]_(Delivery!vars)
  BY <1>1, <1>4, LogFrame, OutboxFrame, RelayFrame DEF relayVars
<1>5. ASSUME RelayStep PROVE [Delivery!Next]_(Delivery!vars)
  <2>1. ASSUME NEW m \in up, StoreFresh(m) PROVE Delivery!Next
    <3>1. m.dev \in Device
      BY DEF DeliveryInv, SyncTypeOK, Request
    <3> QED
      BY <2>1, <3>1, StoreStores DEF Delivery!Next
  <2>2. CASE stored' = stored
    BY <1>1, <1>5, <2>2, LogFrame, OutboxFrame
  <2> QED
    BY <1>5, <2>1, <2>2, StoredStep DEF Step
<1> QED
  BY <1>2, <1>3, <1>4, <1>5, NextIsAStep

(***************************************************************************)
(* The driver, the transport, the relay's log and its streams implement    *)
(* OpDelivery: whatever is lost, re-sent, closed or restarted, a row       *)
(* leaves an outbox only for an op on the relay's disk, the relay stores   *)
(* only what its author holds, and a device comes to hold only what some   *)
(* device holds, and never holds less.                                     *)
(***************************************************************************)
THEOREM SyncImplementsDelivery == Spec => DeliverySpec
<1>1. Init => Delivery!Init
  <2>1. SUFFICES ASSUME Init PROVE Delivery!Init
    OBVIOUS
  <2>2. \A d, e \in Device : floor[d][e] = 0
    BY <2>1 DEF Init, Zero
  <2>3. \A op \in Op : op.dev \in Device /\ op.seq \in Nat /\ ~(op.seq <= 0)
    BY DEF Op
  <2>4. Copies = [d \in Device |-> {}]
    BY <2>1, <2>2, <2>3 DEF Init, Copies, Held
  <2>5. Unacked = [d \in Device |-> {}]
    BY <2>1 DEF Init, Unacked, Own
  <2>6. stored = {}
    BY <2>1 DEF Init, RelayInit
  <2> QED
    BY <2>4, <2>5, <2>6 DEF Delivery!Init, Copies, Unacked
<1>2. DeliveryInv /\ [Next]_vars => [Delivery!Next]_(Delivery!vars)
  BY NextRefines
<1> QED
  BY <1>1, <1>2, DeliveryInvHolds, PTL DEF Spec, DeliverySpec, Delivery!Spec

-----------------------------------------------------------------------------
(***************************************************************************)
(* The streams.  Nothing falls between a replay and the live frames: the   *)
(* cursors a stream was opened with are no higher than the device's        *)
(* (Behind), what the relay has reported lost is lost (Reports), and every *)
(* stored op is accounted for (Accounts).  A loss the device was told of   *)
(* is on its way again, or shows (Surfaces).                               *)
(***************************************************************************)
Trusting == {"CatchingUp", "Live"}

Behind ==
    \A d \in Device : stream[d].stage = "opened" =>
        \A e \in Device : stream[d].cursors[e] <= CursorOf(d)[e]

Reports ==
    \A d, e \in Device :
        /\ told[d][e] <= evicted[e]
        /\ \A v \in Range(stream[d].events) :
             v.kind = "gap" => v.through[e] <= evicted[e]

Coming(d, op) ==
    \E e \in Range(stream[d].events) :
        \/ e.kind = "ops" /\ op \in e.ops
        \/ e.kind = "gap" /\ op.seq <= e.through[op.dev]

AccountedFor(d, op) ==
    \/ Held(d, op) \/ Coming(d, op)
    \/ \E f \in Range(stream[d].rx) : op \in f.ops
    \/ \E m \in posting : op \in m.ops
    \/ op.seq <= told[d][op.dev]
    \/ excused[d]

Accounts ==
    \A d \in Device : \A op \in stored :
        stream[d].stage = "live" => AccountedFor(d, op)

Below(d) == \E e \in Device : CursorOf(d)[e] < told[d][e]

Answering(d) ==
    \/ stream[d].stage = "opened"
    \/ \E e \in Range(stream[d].events) : e.kind \in {"gap", "closed"}
    \/ excused[d]

Surfaces ==
    \A d \in Device : st[d] \in Trusting /\ Below(d) => Answering(d)

StreamInv == DeliveryInv /\ Behind /\ Reports /\ Accounts /\ Surfaces

\* Nothing of d's stream, session state or histories changes.
Apart(d) ==
    /\ stream'[d] = stream[d] /\ told'[d] = told[d]
    /\ excused'[d] = excused[d] /\ st'[d] = st[d]

\* A request on its way through publish.rs stays on it.
PostingStays == \A m \in posting : \E n \in posting' : n.ops = m.ops

LEMMA EndKeepsPosting ==
    ASSUME SyncTypeOK, NEW d \in Device, NEW state, EndSession(d, state)
    PROVE  PostingStays
  BY OrphanedFacts DEF EndSession, SyncTypeOK, PostingStays

LEMMA DeviceFrame ==
    ASSUME SyncTypeOK, NEW d \in Device, DeviceStep(d)
    PROVE  /\ \A e \in Device : e # d => Apart(e)
           /\ PostingStays
<1>1. \A e \in Device : e # d => stream'[e] = stream[e]
  BY DeviceStream
<1>2. ASSUME NEW state, EndSession(d, state), UNCHANGED <<told, excused>>
      PROVE  /\ \A e \in Device : e # d => Apart(e)
             /\ PostingStays
  <2>1. st' = [st EXCEPT ![d] = state]
    BY <1>2 DEF EndSession
  <2> QED
    BY <1>1, <1>2, <2>1, EndKeepsPosting DEF Apart, SyncTypeOK
<1>3. CASE DropSession(d)
  BY <1>2, <1>3 DEF DropSession
<1>4. CASE RecvClosed(d)
  BY <1>2, <1>4 DEF RecvClosed
<1>5. CASE Retransmit(d)
  <2>1. /\ UNCHANGED <<told, excused>>
        /\ \/ UNCHANGED <<st, posting>>
           \/ EndSession(d, "Disconnected")
    BY <1>5 DEF Retransmit
  <2> QED
    BY <1>1, <1>2, <2>1 DEF Apart, PostingStays
<1>6. CASE \/ Connect(d) \/ Renew(d) \/ Write(d) \/ Drain(d) \/ Resync(d)
           \/ PublishSnapshot(d)
  <2>1. /\ posting' = posting
        /\ st' = st \/ \E x : st' = [st EXCEPT ![d] = x]
        /\ told' = told \/ \E x : told' = [told EXCEPT ![d] = x]
        /\ excused' = excused \/ \E x : excused' = [excused EXCEPT ![d] = x]
    BY <1>6 DEF Connect, Renew, Write, Drain, Resync, PublishSnapshot, driverVars
  <2> QED
    BY <1>1, <2>1 DEF Apart, PostingStays, SyncTypeOK
<1>7. CASE RecvAck(d) \/ RecvOps(d) \/ RecvCaughtUp(d) \/ RecvDamaged(d)
  <2>1. /\ posting' = posting
        /\ st' = st \/ \E x : st' = [st EXCEPT ![d] = x]
        /\ told' = told
        /\ excused' = excused \/ \E x : excused' = [excused EXCEPT ![d] = x]
    BY <1>7 DEF RecvAck, RecvOps, RecvCaughtUp, RecvDamaged, driverVars
  <2> QED
    BY <1>1, <2>1 DEF Apart, PostingStays, SyncTypeOK
<1>8. CASE RecvGapFails(d) \/ RecvGapDeferred(d) \/ RecvGapApplied(d)
  <2>1. /\ posting' = posting
        /\ \E x : st' = [st EXCEPT ![d] = x]
        /\ \E x : told' = [told EXCEPT ![d] = x]
        /\ excused' = excused
    BY <1>8 DEF RecvGapFails, RecvGapDeferred, RecvGapApplied, Reported
  <2> QED
    BY <1>1, <2>1 DEF Apart, PostingStays, SyncTypeOK
<1> QED
  BY <1>3, <1>4, <1>5, <1>6, <1>7, <1>8 DEF DeviceStep

LEMMA DeviceCases ==
    ASSUME SyncTypeOK, NEW d \in Device, DeviceStep(d)
    PROVE  \/ /\ stream'[d] = Subscribed(CursorOf(d)) /\ UNCHANGED <<log, floor>>
              /\ told'[d] \in {told[d], Zero}
           \/ RecvGapApplied(d)
           \/ /\ stream'[d] = NoStream /\ st'[d] \notin Connected /\ told' = told
           \/ /\ UNCHANGED <<stream, told, excused>>
              /\ st'[d] \in Trusting => st[d] \in Trusting
           \/ Reads(d)
<1>1. ASSUME NEW state \in {"Disconnected", "Stopped"}, EndSession(d, state)
      PROVE  stream'[d] = NoStream /\ st'[d] \notin Connected
  <2>1. stream' = [stream EXCEPT ![d] = NoStream] /\ st' = [st EXCEPT ![d] = state]
    BY <1>1 DEF EndSession
  <2> QED
    BY <1>1, <2>1 DEF SyncTypeOK, Connected
<1>2. CASE Connect(d) \/ Resync(d)
  <2>1. /\ stream' = [stream EXCEPT ![d] = Subscribed(CursorOf(d))]
        /\ UNCHANGED <<log, floor>>
        /\ told' = told \/ told' = [told EXCEPT ![d] = Zero]
    BY <1>2, Zenon DEF Connect, Resync, driverVars
  <2> QED
    BY <2>1 DEF SyncTypeOK
<1>3. CASE DropSession(d)
  <2>1. EndSession(d, "Disconnected") /\ told' = told
    BY <1>3 DEF DropSession
  <2> QED
    BY <1>1, <2>1
<1>4. CASE RecvClosed(d)
  <2> DEFINE state == IF IsTerminal(Head(stream[d].events).code)
                      THEN "Stopped" ELSE "Disconnected"
  <2>1. EndSession(d, state) /\ told' = told
    BY <1>4 DEF RecvClosed
  <2>2. state \in {"Disconnected", "Stopped"}
    OBVIOUS
  <2> HIDE DEF state
  <2> QED
    BY <1>1, <2>1, <2>2
<1>5. CASE Retransmit(d)
  <2>1. /\ UNCHANGED <<told, excused>>
        /\ UNCHANGED <<st, stream>> \/ EndSession(d, "Disconnected")
    BY <1>5 DEF Retransmit
  <2> QED
    BY <1>1, <2>1
<1>6. CASE Renew(d)
  BY <1>6 DEF Renew, SyncTypeOK, Trusting
<1>7. CASE Write(d) \/ Drain(d) \/ PublishSnapshot(d)
  <2>1. UNCHANGED <<stream, told, excused, st>>
    BY <1>7, Zenon DEF Write, Drain, PublishSnapshot, driverVars
  <2> QED
    BY <2>1
<1>8. CASE RecvAck(d)
  <2>1. /\ UNCHANGED <<stream, told, excused>>
        /\ \E c, left : st' = [st EXCEPT ![d] = MaybeLive(st[d], c, left)]
    BY <1>8 DEF RecvAck
  <2>2. PICK c, left : st' = [st EXCEPT ![d] = MaybeLive(st[d], c, left)]
    BY <2>1
  <2>3. st'[d] = MaybeLive(st[d], c, left)
    BY <2>2 DEF SyncTypeOK
  <2> QED
    BY <2>1, <2>3 DEF MaybeLive, Trusting
<1> QED
  BY <1>2, <1>3, <1>4, <1>5, <1>6, <1>7, <1>8 DEF DeviceStep, Reads

\* What the relay's steps leave alone.
LEMMA RelayApart ==
    ASSUME SyncTypeOK, RelayTypeOK
    PROVE  /\ \A m \in up : StoreFresh(m) \/ PublishDuplicate(m) \/ LoseMessage(m)
                => (\A e \in Device : Apart(e)) /\ PostingStays
           /\ \A d \in Device :
                \/ ReadLog(d) \/ Forward(d)
                \/ (\E code \in Codes : CloseStream(d, code))
                => /\ \A e \in Device : e # d => Apart(e)
                   /\ PostingStays /\ UNCHANGED <<told, st>>
           /\ \A d \in Device :
                \/ Forward(d) \/ (\E code \in Codes : CloseStream(d, code))
                => excused' = excused
           /\ \A m \in posting : PublishStored(m) => UNCHANGED <<told, st>>
<1>1. ASSUME NEW m \in up, StoreFresh(m) \/ PublishDuplicate(m) \/ LoseMessage(m)
      PROVE  (\A e \in Device : Apart(e)) /\ PostingStays
  <2>1. UNCHANGED <<stream, told, excused, st>>
    BY <1>1, Zenon DEF StoreFresh, PublishDuplicate, LoseMessage, driverVars
  <2>2. posting \subseteq posting'
    BY <1>1 DEF StoreFresh, PublishDuplicate, LoseMessage
  <2> QED
    BY <2>1, <2>2 DEF Apart, PostingStays
<1>2. ASSUME NEW d \in Device,
             \/ ReadLog(d) \/ Forward(d)
             \/ (\E code \in Codes : CloseStream(d, code))
      PROVE  /\ \A e \in Device : e # d => Apart(e)
             /\ PostingStays /\ UNCHANGED <<told, st>>
  <2>1. \A e \in Device : e # d => stream'[e] = stream[e]
    BY <1>2, ReadLogFacts, ForwardFacts, CloseStreamFacts
  <2>2. UNCHANGED <<told, st, posting>>
    BY <1>2, Zenon DEF ReadLog, Forward, CloseStream, driverVars
  <2>3. excused' = excused \/ excused' = [excused EXCEPT ![d] = FALSE]
    BY <1>2, Zenon DEF ReadLog, Forward, CloseStream
  <2> QED
    BY <2>1, <2>2, <2>3 DEF Apart, PostingStays, SyncTypeOK
<1>3. ASSUME NEW d \in Device,
             Forward(d) \/ (\E code \in Codes : CloseStream(d, code))
      PROVE  excused' = excused
  BY <1>3, Zenon DEF Forward, CloseStream
<1>4. ASSUME NEW m \in posting, PublishStored(m) PROVE UNCHANGED <<told, st>>
  BY <1>4, ZenonT(40) DEF PublishStored
<1> QED
  BY <1>1, <1>2, <1>3, <1>4

\* The pump reads an event off the stream.
LEMMA ReadsFacts ==
    ASSUME SyncTypeOK, NEW d \in Device, Reads(d)
    PROVE  LET v == Head(stream[d].events)
           IN  /\ stream'[d].stage = stream[d].stage
               /\ stream'[d].cursors = stream[d].cursors
               /\ stream'[d].rx = stream[d].rx
               /\ Range(stream[d].events) = {v} \cup Range(stream'[d].events)
               /\ \/ RecvOps(d) /\ v.kind = "ops" /\ UNCHANGED <<told, excused>>
                  \/ RecvCaughtUp(d) /\ v.kind = "caughtUp"
                       /\ UNCHANGED <<told, excused>>
                  \/ excused'[d] /\ UNCHANGED <<told, st>>
                  \/ /\ v.kind = "gap" /\ st'[d] = "Degraded" /\ excused' = excused
                     /\ v \in Range(stream[d].events)
                     /\ \A e \in Device :
                          /\ told'[d][e] \in {told[d][e], v.through[e]}
                          /\ told[d][e] <= told'[d][e]
                          /\ v.through[e] <= told'[d][e]
<1> DEFINE v == Head(stream[d].events)
<1>1. stream[d].events # <<>> /\ Consume(d)
  BY DEF Reads, RecvOps, RecvCaughtUp, RecvDamaged, RecvGapFails,
         RecvGapDeferred, NextEvent
<1>2. /\ stream'[d].stage = stream[d].stage
      /\ stream'[d].cursors = stream[d].cursors
      /\ stream'[d].rx = stream[d].rx
      /\ Range(stream[d].events) = {v} \cup Range(stream'[d].events)
  BY <1>1, ConsumeType
<1>3. ASSUME RecvOps(d) PROVE v.kind = "ops" /\ UNCHANGED <<told, excused>>
  BY <1>3 DEF RecvOps, NextEvent
<1>4. ASSUME RecvCaughtUp(d) PROVE v.kind = "caughtUp" /\ UNCHANGED <<told, excused>>
  BY <1>4 DEF RecvCaughtUp, NextEvent
<1>5. ASSUME RecvDamaged(d) PROVE excused'[d] /\ UNCHANGED <<told, st>>
  <2>1. excused' = [excused EXCEPT ![d] = TRUE] /\ UNCHANGED <<told, st>>
    BY <1>5, Zenon DEF RecvDamaged, driverVars
  <2> QED
    BY <2>1 DEF SyncTypeOK
<1>6. ASSUME RecvGapFails(d) \/ RecvGapDeferred(d)
      PROVE  /\ v.kind = "gap" /\ st'[d] = "Degraded" /\ excused' = excused
             /\ v \in Range(stream[d].events)
             /\ \A e \in Device :
                  /\ told'[d][e] \in {told[d][e], v.through[e]}
                  /\ told[d][e] <= told'[d][e]
                  /\ v.through[e] <= told'[d][e]
  <2>1. /\ NextEvent(d, "gap") /\ Reported(d)
        /\ st' = [st EXCEPT ![d] = "Degraded"] /\ excused' = excused
    BY <1>6 DEF RecvGapFails, RecvGapDeferred
  <2>2. /\ v.kind = "gap" /\ v \in Range(stream[d].events)
        /\ \A e \in Device :
             /\ told'[d][e] \in {told[d][e], v.through[e]}
             /\ told[d][e] <= told'[d][e]
             /\ v.through[e] <= told'[d][e]
    BY <2>1, ReportedFacts
  <2> QED
    BY <2>1, <2>2 DEF SyncTypeOK
<1> HIDE DEF v
<1>7. \/ RecvOps(d) /\ v.kind = "ops" /\ UNCHANGED <<told, excused>>
      \/ RecvCaughtUp(d) /\ v.kind = "caughtUp" /\ UNCHANGED <<told, excused>>
      \/ excused'[d] /\ UNCHANGED <<told, st>>
      \/ /\ v.kind = "gap" /\ st'[d] = "Degraded" /\ excused' = excused
         /\ v \in Range(stream[d].events)
         /\ \A e \in Device :
              /\ told'[d][e] \in {told[d][e], v.through[e]}
              /\ told[d][e] <= told'[d][e]
              /\ v.through[e] <= told'[d][e]
  BY <1>3, <1>4, <1>5, <1>6 DEF Reads
<1> QED
  BY <1>2, <1>7 DEF v

LEMMA BehindHolds ==
    ASSUME SyncTypeOK, RelayTypeOK, SyncTypeOK', Grows, Behind, Step
    PROVE  Behind'
<1>1. SUFFICES ASSUME NEW d \in Device, stream'[d].stage = "opened", NEW e \in Device
               PROVE  stream'[d].cursors[e] <= CursorOf(d)'[e]
  BY DEF Behind
<1>2. /\ CursorOf(d)[e] \in Nat /\ CursorOf(d)'[e] \in Nat
      /\ CursorOf(d)[e] <= CursorOf(d)'[e]
  <2>1. /\ CursorOf(d) \in Cursors /\ CursorOf(d)' \in Cursors
        /\ CursorOf(d)[e] <= CursorOf(d)'[e]
    BY <1>1, CursorFacts, CursorsGrow DEF SyncTypeOK
  <2> QED
    BY <1>1, <2>1 DEF Cursors
<1>3. stream[d].cursors[e] \in Nat
  BY <1>1 DEF SyncTypeOK, Stream, Cursors
<1>4. CASE stream'[d].stage = stream[d].stage /\ stream'[d].cursors = stream[d].cursors
  <2>1. stream[d].cursors[e] <= CursorOf(d)[e]
    BY <1>1, <1>4 DEF Behind
  <2> QED
    BY <1>2, <1>3, <1>4, <2>1
<1>5. ASSUME NEW x \in Device, DeviceStep(x)
      PROVE  stream'[d].cursors[e] <= CursorOf(d)'[e]
  <2>1. CASE x # d
    BY <1>1, <1>4, <1>5, <2>1, DeviceFrame DEF Apart
  <2>2. CASE x = d
    <3>1. CASE stream'[d] = Subscribed(CursorOf(d))
      BY <1>2, <3>1, EmptyStreams
    <3>2. CASE RecvGapApplied(d)
      <4>1. stream'[d] = Subscribed(CursorOf(d)')
        BY <1>1, <3>2, AppliedFacts
      <4>2. stream'[d].cursors = CursorOf(d)'
        BY <4>1, EmptyStreams
      <4> QED
        BY <1>2, <4>2
    <3>3. CASE stream'[d] = NoStream
      BY <1>1, <3>3, EmptyStreams
    <3>4. CASE Reads(d)
      BY <1>1, <1>4, <3>4, ReadsFacts
    <3>5. CASE stream' = stream
      BY <1>4, <3>5
    <3> QED
      BY <1>1, <1>5, <2>2, <3>1, <3>2, <3>3, <3>4, <3>5, DeviceCases
  <2> QED
    BY <2>1, <2>2
<1>6. ASSUME RelayRestart PROVE stream'[d].cursors[e] <= CursorOf(d)'[e]
  <2>1. stream'[d] = NoStream
    BY <1>1, <1>6 DEF RelayRestart
  <2> QED
    BY <1>1, <2>1, EmptyStreams
<1>7. ASSUME NEW m \in posting, PublishStored(m)
      PROVE  stream'[d].cursors[e] <= CursorOf(d)'[e]
  <2>1. m \in Request /\ FanOut(m)
    BY <1>7 DEF SyncTypeOK, PublishStored
  <2>2. stream'[d].stage = stream[d].stage /\ stream'[d].cursors = stream[d].cursors
    BY <1>1, <2>1, FanOutFacts
  <2> QED
    BY <1>4, <2>2
<1>8. ASSUME NEW m \in up, StoreFresh(m) \/ PublishDuplicate(m) \/ LoseMessage(m)
      PROVE  stream'[d].cursors[e] <= CursorOf(d)'[e]
  BY <1>1, <1>4, <1>8, RelayApart DEF Apart
<1>9. ASSUME NEW x \in Device,
             \/ ReadLog(x) \/ Forward(x)
             \/ (\E code \in Codes : CloseStream(x, code))
      PROVE  stream'[d].cursors[e] <= CursorOf(d)'[e]
  <2>1. CASE x # d
    BY <1>1, <1>4, <1>9, <2>1, RelayApart DEF Apart
  <2>2. CASE x = d
    <3>1. ReadLog(d) => stream'[d].stage = "live"
      BY <1>1, ReadLogFacts, SMTT(30)
    <3>2. Forward(d) => stream'[d].stage = "live"
      BY <1>1, ForwardFacts DEF Forward
    <3>3. \A code \in Codes : CloseStream(d, code) => stream'[d].stage = "ended"
      BY <1>1, CloseStreamFacts
    <3> QED
      BY <1>1, <1>9, <2>2, <3>1, <3>2, <3>3
  <2> QED
    BY <2>1, <2>2
<1> QED
  BY <1>5, <1>6, <1>7, <1>8, <1>9 DEF Step, RelayStep

\* What is reported lost is below a watermark.
LEMMA ReportsHolds ==
    ASSUME SyncTypeOK, RelayInv, SyncTypeOK', RelayInv', RelayGrows, Reports, Step
    PROVE  Reports'
<1>0. RelayTypeOK
  BY DEF RelayInv
<1>1. \A e \in Device : /\ evicted[e] \in Nat /\ evicted'[e] \in Nat
                        /\ evicted[e] <= evicted'[e]
  BY DEF RelayInv, RelayTypeOK, Cursors, RelayGrows
<1>2. ASSUME NEW d \in Device, NEW v \in Range(stream[d].events), v.kind = "gap"
      PROVE  v.through \in Cursors
  <2>1. v \in Event
    BY <1>2, RangeType DEF SyncTypeOK, Stream
  <2> QED
    BY <1>2, <2>1 DEF Event
<1>3. ASSUME NEW d \in Device, NEW e \in Device
      PROVE  /\ told[d][e] <= evicted'[e]
             /\ \A v \in Range(stream[d].events) :
                  v.kind = "gap" => v.through[e] <= evicted'[e]
  <2>1. told[d][e] \in Nat
    BY <1>3 DEF SyncTypeOK, Cursors
  <2>2. \A v \in Range(stream[d].events) : v.kind = "gap" => v.through[e] \in Nat
    BY <1>2, <1>3 DEF Cursors
  <2> QED
    BY <1>1, <1>3, <2>1, <2>2 DEF Reports
<1>4. SUFFICES ASSUME NEW d \in Device, NEW e \in Device
               PROVE  /\ told'[d][e] <= evicted'[e]
                      /\ \A v \in Range(stream'[d].events) :
                           v.kind = "gap" => v.through[e] <= evicted'[e]
  BY DEF Reports
<1>5. CASE /\ told'[d] = told[d]
           /\ Range(stream'[d].events) \subseteq Range(stream[d].events)
  BY <1>3, <1>4, <1>5
<1>6. ASSUME NEW x \in Device, DeviceStep(x)
      PROVE  /\ told'[d][e] <= evicted'[e]
             /\ \A v \in Range(stream'[d].events) :
                  v.kind = "gap" => v.through[e] <= evicted'[e]
  <2>1. CASE x # d
    BY <1>4, <1>5, <1>6, <2>1, DeviceFrame DEF Apart
  <2>2. CASE x = d
    <3>1. CASE stream'[d] = Subscribed(CursorOf(d)) /\ told'[d] \in {told[d], Zero}
      <4>1. Range(stream'[d].events) = {}
        BY <3>1, EmptyStreams
      <4>2. Zero[e] = 0
        BY <1>4 DEF Zero
      <4> QED
        BY <1>1, <1>3, <1>4, <3>1, <4>1, <4>2
    <3>2. CASE RecvGapApplied(d)
      <4> DEFINE v == Head(stream[d].events)
      <4>1. stream'[d] = Subscribed(CursorOf(d)')
        BY <1>4, <3>2, AppliedFacts
      <4>2. Range(stream'[d].events) = {}
        BY <4>1, EmptyStreams
      <4>3. /\ v \in Range(stream[d].events) /\ v.kind = "gap"
            /\ told'[d][e] \in {told[d][e], v.through[e]}
        BY <1>4, <3>2, ReportedFacts DEF RecvGapApplied
      <4> HIDE DEF v
      <4> QED
        BY <1>3, <1>4, <4>2, <4>3
    <3>3. CASE stream'[d] = NoStream /\ told' = told
      BY <1>5, <3>3, EmptyStreams
    <3>4. CASE Reads(d)
      <4> DEFINE v == Head(stream[d].events)
      <4>1. /\ Range(stream'[d].events) \subseteq Range(stream[d].events)
            /\ \/ told' = told
               \/ /\ v \in Range(stream[d].events) /\ v.kind = "gap"
                  /\ told'[d][e] \in {told[d][e], v.through[e]}
        BY <1>4, <3>4, ReadsFacts
      <4> HIDE DEF v
      <4> QED
        BY <1>3, <1>4, <4>1
    <3>5. CASE UNCHANGED <<stream, told>>
      BY <1>5, <3>5
    <3> QED
      BY <1>4, <1>6, <2>2, <3>1, <3>2, <3>3, <3>4, <3>5, DeviceCases
  <2> QED
    BY <2>1, <2>2
<1>7. CASE RelayRestart
  <2>1. stream'[d] = NoStream /\ told' = told
    BY <1>4, <1>7 DEF RelayRestart
  <2> QED
    BY <1>5, <2>1, EmptyStreams
<1>8. ASSUME NEW m \in posting, PublishStored(m)
      PROVE  told' = told /\ stream'[d].events = stream[d].events
  <2>1. m \in Request /\ FanOut(m) /\ told' = told
    BY <1>8 DEF SyncTypeOK, PublishStored
  <2> QED
    BY <1>4, <2>1, FanOutFacts
<1>9. ASSUME NEW m \in up, StoreFresh(m) \/ PublishDuplicate(m) \/ LoseMessage(m)
      PROVE  told'[d] = told[d] /\ stream'[d] = stream[d]
  BY <1>0, <1>4, <1>9, RelayApart DEF Apart
<1>10. ASSUME NEW x \in Device,
              \/ ReadLog(x) \/ Forward(x)
              \/ (\E code \in Codes : CloseStream(x, code))
       PROVE  /\ told'[d][e] <= evicted'[e]
              /\ \A v \in Range(stream'[d].events) :
                   v.kind = "gap" => v.through[e] <= evicted'[e]
  <2>0. told' = told
    BY <1>0, <1>10, RelayApart
  <2>1. CASE x # d
    BY <1>0, <1>4, <1>5, <1>10, <2>1, RelayApart DEF Apart
  <2>2. CASE x = d
    <3>1. CASE ReadLog(d)
      <4> DEFINE c == stream[d].cursors
      <4>1. Range(stream'[d].events) = GapEvents(c)
               \cup {OpsEvent(f.ops) : f \in Replay(c)} \cup {CaughtUp}
        BY <1>0, <1>4, <3>1, ReadLogFacts
      <4>2. /\ CaughtUp.kind # "gap"
            /\ \A f \in Replay(c) : OpsEvent(f.ops).kind # "gap"
        BY DEF CaughtUp, OpsEvent
      <4>3. \A v \in GapEvents(c) : v.through[e] = evicted[e] \/ v.through[e] = 0
        BY <1>4 DEF GapEvents
      <4> HIDE DEF c
      <4>4. \A v \in Range(stream'[d].events) :
              v.kind = "gap" => v.through[e] <= evicted'[e]
        BY <1>1, <1>4, <4>1, <4>2, <4>3
      <4> QED
        BY <1>3, <1>4, <2>0, <4>4
    <3>2. CASE Forward(d)
      <4> DEFINE f == Head(stream[d].rx)
      <4>1. \/ stream'[d].events = stream[d].events
            \/ Range(stream'[d].events) =
                  Range(stream[d].events) \cup {OpsEvent(f.ops)}
        BY <1>4, <3>2, ForwardFacts
      <4>2. OpsEvent(f.ops).kind # "gap"
        BY DEF OpsEvent
      <4> HIDE DEF f
      <4> QED
        BY <1>3, <1>4, <2>0, <4>1, <4>2
    <3>3. ASSUME NEW code \in Codes, CloseStream(d, code)
          PROVE  /\ told'[d][e] <= evicted'[e]
                 /\ \A v \in Range(stream'[d].events) :
                      v.kind = "gap" => v.through[e] <= evicted'[e]
      <4> DEFINE closed == [kind |-> "closed", code |-> code]
      <4>1. Range(stream'[d].events) = Range(stream[d].events) \cup {closed}
        BY <1>4, <3>3, CloseStreamFacts
      <4>2. closed.kind # "gap"
        OBVIOUS
      <4> HIDE DEF closed
      <4> QED
        BY <1>3, <1>4, <2>0, <4>1, <4>2
    <3> QED
      BY <1>10, <2>2, <3>1, <3>2, <3>3
  <2> QED
    BY <2>1, <2>2
<1> QED
  BY <1>5, <1>6, <1>7, <1>8, <1>9, <1>10 DEF Step, RelayStep

\* spawn_stream: what a stream's read of the log does not send, the device
\* holds.
LEMMA ReadLogAccounts ==
    ASSUME SyncTypeOK, RelayInv, Behind, NEW d \in Device, ReadLog(d), NEW op \in stored
    PROVE  Held(d, op) \/ Coming(d, op)'
<1> DEFINE c == stream[d].cursors
<1>1. RelayTypeOK /\ Accounted
  BY DEF RelayInv
<1>2. /\ Range(stream'[d].events) = GapEvents(c)
               \cup {OpsEvent(f.ops) : f \in Replay(c)} \cup {CaughtUp}
      /\ stream[d].stage = "opened"
  BY <1>1, ReadLogFacts DEF ReadLog
<1>3. /\ op \in Op /\ op.dev \in Device /\ op.seq \in Nat
      /\ c \in Cursors /\ c[op.dev] \in Nat /\ evicted[op.dev] \in Nat
  <2>1. op \in Op /\ op.dev \in Device /\ op.seq \in Nat
    BY <1>1 DEF RelayTypeOK, Op
  <2>2. c \in Cursors /\ evicted \in Cursors
    BY <1>1 DEF RelayTypeOK, SyncTypeOK, Stream
  <2> HIDE DEF c
  <2> QED
    BY <2>1, <2>2 DEF Cursors
<1>4. CASE op.seq <= c[op.dev]
  <2>1. c[op.dev] <= CursorOf(d)[op.dev]
    BY <1>2, <1>3 DEF Behind
  <2>2. CursorOf(d)[op.dev] \in Nat
    BY <1>3, CursorFacts DEF Cursors
  <2>3. op.seq <= CursorOf(d)[op.dev]
    BY <1>3, <1>4, <2>1, <2>2
  <2> QED
    BY <1>3, <2>3, CursorFacts
<1>5. ASSUME ~(op.seq <= c[op.dev]), NEW f \in frames, op \in f.ops
      PROVE  Coming(d, op)'
  <2>1. f \in Replay(c)
    BY <1>5 DEF Replay, Covered
  <2>2. /\ OpsEvent(f.ops) \in Range(stream'[d].events)
        /\ OpsEvent(f.ops).kind = "ops" /\ OpsEvent(f.ops).ops = f.ops
    BY <1>2, <2>1 DEF OpsEvent
  <2> QED
    BY <1>5, <2>2 DEF Coming
<1>6. ASSUME ~(op.seq <= c[op.dev]), op.seq <= evicted[op.dev]
      PROVE  Coming(d, op)'
  <2> DEFINE g == [kind |-> "gap", through |-> [e \in Device |->
                              IF e \in Gaps(c) THEN evicted[e] ELSE 0]]
  <2>1. op.dev \in Gaps(c)
    BY <1>3, <1>6 DEF Gaps
  <2>2. g \in GapEvents(c)
    BY <2>1 DEF GapEvents
  <2>3. g.kind = "gap" /\ g.through[op.dev] = evicted[op.dev]
    BY <1>3, <2>1
  <2> HIDE DEF g
  <2>4. g \in Range(stream'[d].events)
    BY <1>2, <2>2
  <2> QED
    BY <1>6, <2>3, <2>4 DEF Coming
<1> QED
  BY <1>1, <1>4, <1>5, <1>6 DEF Accounted

\* What is accounted for at a stream nobody touched stays so.
LEMMA ApartAccounts ==
    ASSUME SyncTypeOK, SyncTypeOK', Grows, PostingStays, NEW d \in Device,
           NEW op \in Op, Apart(d), AccountedFor(d, op)
    PROVE  AccountedFor(d, op)'
<1>1. Held(d, op) => Held(d, op)'
  BY CursorsGrow DEF SyncTypeOK
<1>2. Coming(d, op) => Coming(d, op)'
  BY DEF Coming, Apart
<1>3. (\E m \in posting : op \in m.ops) => \E m \in posting' : op \in m.ops
  BY DEF PostingStays
<1> QED
  BY <1>1, <1>2, <1>3 DEF AccountedFor, Apart

LEMMA AccountsHolds ==
    ASSUME DeliveryInv, SyncTypeOK', RelayInv', Grows, RelayGrows,
           Behind, Accounts, Step
    PROVE  Accounts'
<1>0. /\ SyncTypeOK /\ RelayInv /\ RelayTypeOK /\ Streamed
  BY DEF DeliveryInv, RelayInv
<1>1. SUFFICES ASSUME NEW d \in Device, NEW op \in stored', stream'[d].stage = "live"
               PROVE  AccountedFor(d, op)'
  BY DEF Accounts
<1>2. op \in Op /\ op.dev \in Device /\ op.seq \in Nat
  BY DEF RelayInv, RelayTypeOK, Op
<1>3. Held(d, op) => Held(d, op)'
  BY <1>0, <1>1, <1>2, CursorsGrow DEF SyncTypeOK
<1>4. ASSUME Apart(d), PostingStays, op \in stored PROVE AccountedFor(d, op)'
  <2>1. stream[d].stage = "live"
    BY <1>1, <1>4 DEF Apart
  <2>2. AccountedFor(d, op)
    BY <1>1, <1>4, <2>1 DEF Accounts
  <2> QED
    BY <1>0, <1>1, <1>2, <1>4, <2>2, ApartAccounts
<1>5. ASSUME NEW x \in Device, DeviceStep(x) PROVE AccountedFor(d, op)'
  <2>0. op \in stored /\ PostingStays
    BY <1>0, <1>1, <1>5, RelayFrame, DeviceFrame DEF relayVars
  <2>1. CASE x # d
    BY <1>0, <1>1, <1>4, <1>5, <2>0, <2>1, DeviceFrame
  <2>2. CASE x = d
    <3>1. CASE \/ stream'[d] = NoStream \/ \E c : stream'[d] = Subscribed(c)
      BY <1>1, <3>1, EmptyStreams
    <3>2. RecvGapApplied(d) => stream'[d] = Subscribed(CursorOf(d)')
      BY <1>0, <1>1, AppliedFacts
    <3>3. CASE UNCHANGED <<stream, told, excused>>
      <4>1. stream[d].stage = "live"
        BY <1>1, <3>3
      <4>2. AccountedFor(d, op)
        BY <1>1, <2>0, <4>1 DEF Accounts
      <4>3. Coming(d, op) => Coming(d, op)'
        BY <3>3 DEF Coming
      <4>4. (\E m \in posting : op \in m.ops) => \E m \in posting' : op \in m.ops
        BY <2>0 DEF PostingStays
      <4> QED
        BY <1>3, <3>3, <4>2, <4>3, <4>4 DEF AccountedFor
    <3>4. CASE Reads(d)
      <4> DEFINE v == Head(stream[d].events)
      <4>1. /\ stream'[d].stage = stream[d].stage
            /\ stream'[d].rx = stream[d].rx
            /\ Range(stream[d].events) = {v} \cup Range(stream'[d].events)
        BY <1>0, <1>1, <3>4, ReadsFacts
      <4>2. \/ RecvOps(d) /\ v.kind = "ops" /\ UNCHANGED <<told, excused>>
            \/ RecvCaughtUp(d) /\ v.kind = "caughtUp" /\ UNCHANGED <<told, excused>>
            \/ excused'[d] /\ UNCHANGED <<told, st>>
            \/ /\ v.kind = "gap" /\ excused' = excused
               /\ \A e \in Device : /\ told[d][e] <= told'[d][e]
                                    /\ v.through[e] <= told'[d][e]
               /\ v \in Range(stream[d].events)
        BY <1>0, <1>1, <3>4, ReadsFacts
      <4>3. AccountedFor(d, op)
        BY <1>1, <2>0, <4>1 DEF Accounts
      <4>4. (\E m \in posting : op \in m.ops) => \E m \in posting' : op \in m.ops
        BY <2>0 DEF PostingStays
      <4>5. RecvOps(d) => (op \in v.ops => Held(d, op)')
        <5>1. RecvOps(d) => log'[d] = log[d] \cup v.ops
          BY <1>0, <1>1, RecvOpsFacts
        <5> QED
          BY <5>1 DEF Held
      <4>6. v.kind = "gap" /\ v \in Range(stream[d].events) => v.through \in Cursors
        <5>1. Range(stream[d].events) \subseteq Event
          BY <1>0, <1>1, RangeType DEF SyncTypeOK, Stream
        <5> HIDE DEF v
        <5> QED
          BY <5>1 DEF Event
      <4> HIDE DEF v
      <4>7. Coming(d, op) => \/ Coming(d, op)'
                             \/ v.kind = "ops" /\ op \in v.ops
                             \/ v.kind = "gap" /\ op.seq <= v.through[op.dev]
        BY <4>1 DEF Coming
      <4>8. told[d][op.dev] \in Nat /\ told'[d][op.dev] \in Nat
        BY <1>0, <1>1, <1>2 DEF SyncTypeOK, Cursors
      <4>9. v.kind = "gap" /\ v \in Range(stream[d].events) => v.through[op.dev] \in Nat
        BY <1>2, <4>6 DEF Cursors
      <4>10. CASE RecvOps(d) /\ v.kind = "ops" /\ UNCHANGED <<told, excused>>
        BY <1>3, <4>1, <4>3, <4>4, <4>5, <4>7, <4>10 DEF AccountedFor
      <4>11. CASE v.kind = "caughtUp" /\ UNCHANGED <<told, excused>>
        BY <1>3, <4>1, <4>3, <4>4, <4>7, <4>11 DEF AccountedFor
      <4>12. CASE excused'[d]
        BY <4>12 DEF AccountedFor
      <4>13. CASE /\ v.kind = "gap" /\ excused' = excused
                  /\ \A e \in Device : /\ told[d][e] <= told'[d][e]
                                       /\ v.through[e] <= told'[d][e]
                  /\ v \in Range(stream[d].events)
        <5>1. op.seq <= told[d][op.dev] => op.seq <= told'[d][op.dev]
          BY <1>2, <4>8, <4>13
        <5>2. op.seq <= v.through[op.dev] => op.seq <= told'[d][op.dev]
          BY <1>2, <4>8, <4>9, <4>13
        <5> QED
          BY <1>3, <4>1, <4>3, <4>4, <4>7, <4>13, <5>1, <5>2 DEF AccountedFor
      <4> QED
        BY <4>2, <4>10, <4>11, <4>12, <4>13
    <3> QED
      BY <1>0, <1>1, <1>5, <2>2, <3>1, <3>2, <3>3, <3>4, DeviceCases
  <2> QED
    BY <2>1, <2>2
<1>6. CASE RelayRestart
  <2>1. stream'[d] = NoStream
    BY <1>1, <1>6 DEF RelayRestart
  <2> QED
    BY <1>1, <2>1, EmptyStreams
<1>7. ASSUME NEW m \in up, StoreFresh(m) \/ PublishDuplicate(m) \/ LoseMessage(m)
      PROVE  AccountedFor(d, op)'
  <2>1. Apart(d) /\ PostingStays
    BY <1>0, <1>1, <1>7, RelayApart
  <2>2. CASE op \in stored
    BY <1>4, <2>1, <2>2
  <2>3. CASE op \notin stored
    <3>1. StoreFresh(m)
      BY <1>1, <1>7, <2>3, RelayFrame DEF relayVars
    <3>2. op \in m.ops /\ m \in posting'
      BY <1>1, <2>3, <3>1 DEF StoreFresh, AppendFresh
    <3> QED
      BY <3>2 DEF AccountedFor
  <2> QED
    BY <2>2, <2>3
<1>8. ASSUME NEW m \in posting, PublishStored(m) PROVE AccountedFor(d, op)'
  <2> DEFINE sent == [ops |-> m.ops, from |-> m.dev, live |-> m.live]
  <2>1. m \in Request /\ FanOut(m) /\ posting' = posting \ {m} /\ told' = told
        /\ stored' = stored
    BY <1>0, <1>8 DEF SyncTypeOK, PublishStored, relayVars
  <2>2. /\ stream'[d].stage = stream[d].stage
        /\ stream'[d].events = stream[d].events
        /\ Listening(d) => sent \in Range(stream'[d].rx)
        /\ excused[d] => excused'[d]
        /\ ~excused'[d] => Range(stream[d].rx) \subseteq Range(stream'[d].rx)
    BY <1>0, <1>1, <2>1, FanOutFacts
  <2>3. Listening(d) /\ AccountedFor(d, op)
    BY <1>1, <2>1, <2>2 DEF Listening, Accounts
  <2>4. sent.ops = m.ops
    OBVIOUS
  <2> HIDE DEF sent
  <2>5. Coming(d, op) => Coming(d, op)'
    BY <2>2 DEF Coming
  <2> QED
    BY <1>3, <2>1, <2>2, <2>3, <2>4, <2>5 DEF AccountedFor
<1>9. ASSUME NEW x \in Device,
             \/ ReadLog(x) \/ Forward(x)
             \/ (\E code \in Codes : CloseStream(x, code))
      PROVE  AccountedFor(d, op)'
  <2>0. op \in stored /\ PostingStays /\ told' = told
    BY <1>0, <1>1, <1>9, RelayFrame, RelayApart DEF relayVars
  <2>1. CASE x # d
    BY <1>0, <1>1, <1>4, <1>9, <2>0, <2>1, RelayApart
  <2>2. CASE x = d /\ ReadLog(d)
    BY <1>0, <1>1, <1>3, <2>0, <2>2, ReadLogAccounts DEF AccountedFor
  <2>3. CASE x = d /\ Forward(d)
    <3> DEFINE f == Head(stream[d].rx)
    <3>1. /\ stream'[d].stage = stream[d].stage
          /\ Range(stream[d].rx) = {f} \cup Range(stream'[d].rx)
          /\ \/ f.from = d /\ stream'[d].events = stream[d].events
             \/ Range(stream'[d].events) =
                  Range(stream[d].events) \cup {OpsEvent(f.ops)}
      BY <1>0, <1>1, <2>3, ForwardFacts
    <3>2. excused' = excused
      BY <1>0, <1>1, <2>3, RelayApart
    <3>3. AccountedFor(d, op)
      BY <1>1, <2>0, <3>1 DEF Accounts
    <3>4. f.ops \subseteq log[f.from]
      BY <1>0, <1>1, <3>1 DEF Streamed
    <3>5. OpsEvent(f.ops).kind = "ops" /\ OpsEvent(f.ops).ops = f.ops
      BY DEF OpsEvent
    <3> HIDE DEF f
    <3>6. Coming(d, op) => Coming(d, op)'
      BY <3>1 DEF Coming
    <3>7. op \in f.ops => Held(d, op)' \/ Coming(d, op)'
      <4>1. CASE f.from = d
        BY <1>3, <3>4, <4>1 DEF Held
      <4>2. CASE Range(stream'[d].events) =
                   Range(stream[d].events) \cup {OpsEvent(f.ops)}
        BY <3>5, <4>2 DEF Coming
      <4> QED
        BY <3>1, <4>1, <4>2
    <3>8. (\E m \in posting : op \in m.ops) => \E m \in posting' : op \in m.ops
      BY <2>0 DEF PostingStays
    <3> QED
      BY <1>3, <2>0, <3>1, <3>2, <3>3, <3>6, <3>7, <3>8 DEF AccountedFor
  <2>4. ASSUME NEW code \in Codes, CloseStream(d, code) PROVE FALSE
    BY <1>0, <1>1, <2>4, CloseStreamFacts
  <2> QED
    BY <1>9, <2>1, <2>2, <2>3, <2>4
<1> QED
  BY <1>5, <1>6, <1>7, <1>8, <1>9 DEF Step, RelayStep

\* on_error, recover_gaps: a loss the device was told of does not go quiet.
LEMMA SurfacesHolds ==
    ASSUME DeliveryInv, SyncTypeOK', Grows, Behind, Reports, Surfaces, Step
    PROVE  Surfaces'
<1>0. SyncTypeOK /\ RelayInv /\ RelayTypeOK
  BY DEF DeliveryInv, RelayInv
<1>1. SUFFICES ASSUME NEW d \in Device, st'[d] \in Trusting, Below(d)'
               PROVE  Answering(d)'
  BY DEF Surfaces
<1>2. \A e \in Device : /\ CursorOf(d)[e] \in Nat /\ CursorOf(d)'[e] \in Nat
                        /\ CursorOf(d)[e] <= CursorOf(d)'[e]
                        /\ told[d][e] \in Nat /\ told'[d][e] \in Nat
  <2>1. /\ CursorOf(d) \in Cursors /\ CursorOf(d)' \in Cursors
        /\ told[d] \in Cursors /\ told'[d] \in Cursors
        /\ \A e \in Device : CursorOf(d)[e] <= CursorOf(d)'[e]
    BY <1>0, <1>1, CursorFacts, CursorsGrow DEF SyncTypeOK
  <2> QED
    BY <2>1 DEF Cursors
<1>3. PICK e \in Device : CursorOf(d)'[e] < told'[d][e]
  BY <1>1 DEF Below
<1>4. told'[d] = told[d] => CursorOf(d)[e] < told[d][e] /\ Below(d)
  <2>1. told'[d] = told[d] => CursorOf(d)[e] < told[d][e]
    BY <1>2, <1>3
  <2> QED
    BY <1>3, <2>1 DEF Below
<1>5. ASSUME told'[d] = told[d], st[d] \in Trusting,
             stream'[d].stage = stream[d].stage,
             \A v \in Range(stream[d].events) :
                v.kind \in {"gap", "closed"} => v \in Range(stream'[d].events),
             excused[d] => excused'[d]
      PROVE  Answering(d)'
  <2>1. Answering(d)
    BY <1>1, <1>4, <1>5 DEF Surfaces
  <2> QED
    BY <1>5, <2>1 DEF Answering
<1>6. ASSUME Apart(d) PROVE Answering(d)'
  BY <1>1, <1>5, <1>6 DEF Apart
<1>7. ASSUME NEW x \in Device, DeviceStep(x) PROVE Answering(d)'
  <2>1. CASE x # d
    BY <1>0, <1>1, <1>6, <1>7, <2>1, DeviceFrame
  <2>2. CASE x = d
    <3>1. CASE \E c : stream'[d] = Subscribed(c)
      BY <3>1, EmptyStreams DEF Answering
    <3>2. RecvGapApplied(d) => stream'[d] = Subscribed(CursorOf(d)')
      BY <1>0, <1>1, AppliedFacts
    <3>3. CASE st'[d] \notin Connected
      BY <1>1, <3>3 DEF Trusting, Connected
    <3>4. CASE /\ UNCHANGED <<stream, told, excused>>
               /\ st'[d] \in Trusting => st[d] \in Trusting
      BY <1>1, <1>5, <3>4
    <3>5. CASE Reads(d)
      <4> DEFINE v == Head(stream[d].events)
      <4>1. /\ stream'[d].stage = stream[d].stage
            /\ Range(stream[d].events) = {v} \cup Range(stream'[d].events)
            /\ \/ RecvOps(d) /\ v.kind = "ops" /\ UNCHANGED <<told, excused>>
               \/ RecvCaughtUp(d) /\ v.kind = "caughtUp"
                    /\ UNCHANGED <<told, excused>>
               \/ excused'[d]
               \/ st'[d] = "Degraded"
        BY <1>0, <1>1, <3>5, ReadsFacts
      <4> HIDE DEF v
      <4>2. ASSUME RecvOps(d) \/ RecvCaughtUp(d) PROVE st[d] \in Trusting
        <5>1. \E c, left : st' = [st EXCEPT ![d] = MaybeLive(st[d], c, left)]
          BY <4>2 DEF RecvOps, RecvCaughtUp
        <5>2. \E c, left : st'[d] = MaybeLive(st[d], c, left)
          BY <1>0, <1>1, <5>1 DEF SyncTypeOK
        <5> QED
          BY <1>1, <5>2 DEF MaybeLive, Trusting
      <4>3. CASE /\ RecvOps(d) \/ RecvCaughtUp(d)
                 /\ v.kind \in {"ops", "caughtUp"} /\ UNCHANGED <<told, excused>>
        <5>1. \A y \in Range(stream[d].events) :
                 y.kind \in {"gap", "closed"} => y \in Range(stream'[d].events)
          BY <4>1, <4>3
        <5> QED
          BY <1>5, <4>1, <4>2, <4>3, <5>1
      <4>4. CASE excused'[d]
        BY <4>4 DEF Answering
      <4>5. CASE st'[d] = "Degraded"
        BY <1>1, <4>5 DEF Trusting
      <4> QED
        BY <4>1, <4>3, <4>4, <4>5
    <3> QED
      BY <1>0, <1>1, <1>7, <2>2, <3>1, <3>2, <3>3, <3>4, <3>5, DeviceCases
  <2> QED
    BY <2>1, <2>2
<1>8. CASE RelayRestart
  <2>1. st'[d] = IF st[d] \in Connected THEN "Disconnected" ELSE st[d]
    BY <1>1, <1>8 DEF RelayRestart
  <2> QED
    BY <1>1, <2>1 DEF Trusting, Connected
<1>9. ASSUME NEW m \in up, StoreFresh(m) \/ PublishDuplicate(m) \/ LoseMessage(m)
      PROVE  Answering(d)'
  BY <1>0, <1>1, <1>6, <1>9, RelayApart
<1>10. ASSUME NEW m \in posting, PublishStored(m) PROVE Answering(d)'
  <2>1. m \in Request /\ FanOut(m)
    BY <1>0, <1>10 DEF SyncTypeOK, PublishStored
  <2>2. UNCHANGED <<told, st>>
    BY <1>0, <1>10, RelayApart
  <2>3. /\ stream'[d].stage = stream[d].stage
        /\ stream'[d].events = stream[d].events
        /\ excused[d] => excused'[d]
    BY <1>0, <1>1, <2>1, FanOutFacts
  <2> QED
    BY <1>1, <1>5, <2>2, <2>3
<1>11. ASSUME NEW x \in Device,
              \/ ReadLog(x) \/ Forward(x)
              \/ (\E code \in Codes : CloseStream(x, code))
       PROVE  Answering(d)'
  <2>0. UNCHANGED <<told, st>>
    BY <1>0, <1>11, RelayApart
  <2>1. CASE x # d
    BY <1>0, <1>1, <1>6, <1>11, <2>1, RelayApart
  <2>2. CASE x = d /\ ReadLog(d)
    <3> DEFINE c == stream[d].cursors
               g == [kind |-> "gap", through |-> [y \in Device |->
                              IF y \in Gaps(c) THEN evicted[y] ELSE 0]]
    <3>1. GapEvents(c) \subseteq Range(stream'[d].events)
      BY <1>0, <1>1, <2>2, ReadLogFacts
    <3>2. stream[d].stage = "opened" /\ c \in Cursors
      BY <1>0, <1>1, <2>2 DEF ReadLog, SyncTypeOK, Stream
    <3>3. c[e] <= CursorOf(d)[e]
      BY <1>1, <1>3, <3>2 DEF Behind
    <3>4. CursorOf(d)[e] < told[d][e] /\ told[d][e] <= evicted[e]
      BY <1>1, <1>3, <1>4, <2>0 DEF Reports
    <3>5. c[e] \in Nat /\ evicted[e] \in Nat
      <4>1. evicted \in Cursors
        BY <1>0 DEF RelayTypeOK
      <4> HIDE DEF c
      <4> QED
        BY <1>3, <3>2, <4>1 DEF Cursors
    <3>6. e \in Gaps(c)
      <4>1. c[e] < evicted[e]
        <5> HIDE DEF c
        <5> QED
          BY <1>2, <1>3, <3>3, <3>4, <3>5
      <4> QED
        BY <1>3, <4>1 DEF Gaps
    <3>7. g \in GapEvents(c) /\ g.kind = "gap"
      BY <3>6 DEF GapEvents
    <3> HIDE DEF g, c
    <3> QED
      BY <3>1, <3>7 DEF Answering
  <2>3. CASE x = d /\ Forward(d)
    <3>1. /\ stream'[d].stage = stream[d].stage
          /\ Range(stream[d].events) \subseteq Range(stream'[d].events)
      BY <1>0, <1>1, <2>3, ForwardFacts
    <3>2. excused' = excused
      BY <1>0, <1>1, <2>3, RelayApart
    <3> QED
      BY <1>1, <1>5, <2>0, <3>1, <3>2
  <2>4. ASSUME NEW code \in Codes, CloseStream(d, code) PROVE Answering(d)'
    <3> DEFINE closed == [kind |-> "closed", code |-> code]
    <3>1. closed \in Range(stream'[d].events) /\ closed.kind = "closed"
      BY <1>0, <1>1, <2>4, CloseStreamFacts
    <3> HIDE DEF closed
    <3> QED
      BY <3>1 DEF Answering
  <2> QED
    BY <1>11, <2>1, <2>2, <2>3, <2>4
<1> QED
  BY <1>7, <1>8, <1>9, <1>10, <1>11 DEF Step, RelayStep

LEMMA InitStreamInv == Init => StreamInv
<1> SUFFICES ASSUME Init PROVE StreamInv
  OBVIOUS
<1>1. DeliveryInv
  BY InitDeliveryInv
<1>2. \A d \in Device : /\ stream[d].stage = "none" /\ Range(stream[d].events) = {}
                        /\ st[d] = "Disconnected"
  BY EmptyStreams DEF Init
<1>3. \A d, e \in Device : told[d][e] = 0 /\ evicted[e] = 0
  BY DEF Init, Zero, RelayInit
<1> QED
  BY <1>1, <1>2, <1>3 DEF StreamInv, Behind, Reports, Accounts, Surfaces, Trusting

LEMMA NextStreamInv ==
    ASSUME StreamInv, [Next]_vars
    PROVE  StreamInv'
<1>0. DeliveryInv /\ DeliveryInv'
  BY NextDeliveryInv DEF StreamInv
<1>1. CASE Next
  <2>1. /\ Step /\ SyncTypeOK' /\ RelayInv' /\ Grows /\ RelayGrows
    BY <1>0, <1>1, StepFacts
  <2>2. SyncTypeOK /\ RelayInv /\ RelayTypeOK
    BY <1>0 DEF DeliveryInv, RelayInv
  <2>3. Behind'
    BY <2>1, <2>2, BehindHolds DEF StreamInv
  <2>4. Reports'
    BY <2>1, <2>2, ReportsHolds DEF StreamInv
  <2>5. Accounts'
    BY <1>0, <2>1, AccountsHolds DEF StreamInv
  <2>6. Surfaces'
    BY <1>0, <2>1, SurfacesHolds DEF StreamInv
  <2> QED
    BY <1>0, <2>3, <2>4, <2>5, <2>6 DEF StreamInv
<1>2. CASE UNCHANGED vars
  <2>1. \A d \in Device : CursorOf(d)' = CursorOf(d)
    BY <1>2 DEF CursorOf, Held, vars, driverVars
  <2>2. Behind' /\ Surfaces'
    BY <1>2, <2>1 DEF StreamInv, Behind, Surfaces, Below, Answering, vars, driverVars
  <2>3. Reports' /\ Accounts'
    BY <1>2 DEF StreamInv, Reports, Accounts, AccountedFor, Held, Coming,
                vars, driverVars, relayVars
  <2> QED
    BY <1>0, <2>2, <2>3 DEF StreamInv
<1> QED
  BY <1>1, <1>2

LEMMA StreamInvHolds == Spec => []StreamInv
  BY InitStreamInv, NextStreamInv, PTL DEF Spec

\* The elements of a sequence are what stands at its positions.
LEMMA RangeIsPositions ==
    ASSUME NEW T, NEW s \in Seq(T), NEW x
    PROVE  x \in Range(s) <=> \E i \in 1..Len(s) : s[i] = x
<1>1. DOMAIN s = 1..Len(s)
  OBVIOUS
<1> QED
  BY <1>1 DEF Range

(***************************************************************************)
(* spawn_stream, live_loop and the hub's fan-out, for any capacity, any    *)
(* devices and any interleaving of requests with opening, reading and      *)
(* closing streams: nothing the relay ever stored falls between the replay *)
(* and the live frames of an open stream.                                  *)
(***************************************************************************)
THEOREM NothingFallsBetween == Spec => []StreamAccounts
<1>1. StreamInv => StreamAccounts
  <2>1. SUFFICES ASSUME StreamInv, NEW d \in Device, NEW op \in stored,
                        stream[d].stage = "live"
                 PROVE  \/ Held(d, op) \/ InEvents(d, op) \/ InReceiver(d, op)
                        \/ \E m \in posting : op \in m.ops
                        \/ op.seq <= told[d][op.dev]
                        \/ excused[d]
    BY DEF StreamAccounts
  <2>2. stream[d].events \in Seq(Event) /\ stream[d].rx \in Seq(RxFrame)
    BY <2>1 DEF StreamInv, DeliveryInv, SyncTypeOK, Stream
  <2>3. Coming(d, op) => InEvents(d, op)
    BY <2>2, RangeIsPositions DEF Coming, InEvents
  <2>4. (\E f \in Range(stream[d].rx) : op \in f.ops) => InReceiver(d, op)
    BY <2>2, RangeIsPositions DEF InReceiver
  <2>5. AccountedFor(d, op)
    BY <2>1 DEF StreamInv, Accounts
  <2> QED
    BY <2>3, <2>4, <2>5 DEF AccountedFor
<1> QED
  BY <1>1, StreamInvHolds, PTL

(***************************************************************************)
(* on_error and recover_gaps, for any devices, records and faults: a       *)
(* session that is Live below a watermark it was told of has another       *)
(* answer of the relay under way.                                          *)
(***************************************************************************)
THEOREM LossIsNeverSilent == Spec => []KnownLossSurfaces
<1>1. StreamInv => KnownLossSurfaces
  <2>1. SUFFICES ASSUME StreamInv, NEW d \in Device, st[d] = "Live",
                        \E e \in Device : CursorOf(d)[e] < told[d][e]
                 PROVE  \/ stream[d].stage = "opened"
                        \/ \E i \in 1..Len(stream[d].events) :
                              stream[d].events[i].kind \in {"gap", "closed"}
                        \/ excused[d]
    BY DEF KnownLossSurfaces
  <2>2. stream[d].events \in Seq(Event)
    BY <2>1 DEF StreamInv, DeliveryInv, SyncTypeOK, Stream
  <2>3. Answering(d)
    BY <2>1 DEF StreamInv, Surfaces, Trusting, Below
  <2> QED
    BY <2>2, <2>3, RangeIsPositions DEF Answering
<1> QED
  BY <1>1, StreamInvHolds, PTL
=============================================================================
