--------------------------- MODULE OpGroupsProofs ---------------------------
(***************************************************************************)
(* Groups for any replicas, ops, groups and bounds: what a replica shows   *)
(* is one function of the ops it has, a held member stays in its log, and  *)
(* a rebuild changes nothing of what it shows.                             *)
(*                                                                         *)
(* The inductive invariant is GroupsInv.  Of one vault it says (VaultInv)  *)
(* which rows there are and what they stand for: a member of a group has   *)
(* a row exactly when it is present (RowsArePresent), an applied one is    *)
(* folded and a held one is logged (RowsTellTheFold), no complete group    *)
(* has a held member and an incomplete one shows only what a snapshot      *)
(* brought (WholeOrHeld).  Of the vaults together it says that a group     *)
(* this device has not written yet is present nowhere, which is what lets  *)
(* a write fold its members at once.                                       *)
(*                                                                         *)
(* Two steps take many ops one by one, a snapshot's retained ops and a     *)
(* rebuild's log.  Absorbed says in one step what such a run leaves, and   *)
(* ReceivedAll and RefoldedAll show it, by induction on the stamps.        *)
(***************************************************************************)
EXTENDS OpGroups, FiniteSetTheorems, WellFoundedInduction, TLAPS

Vault == [log : SUBSET Ops, row : [Ops -> {"none", "held", "applied"}],
          folded : SUBSET Ops, pruned : SUBSET Ops,
          floor : [Chain -> Nat], joined : SUBSET Ops]

Record0 == [stream : {o.stream : o \in Ops}, front : [Chain -> Nat],
            state : SUBSET Ops, retained : SUBSET Ops]

Grouped(o) == o.group # NoGroup

\* The ops of a vault: in its log, or in its merge state.
Has(v) == v.log \cup v.folded

Whole(v, g) == Cardinality(Members(g) \cap Has(v)) >= SizeOf[g]

\* What left the log is below its floor, and so is what a snapshot brought.
FoldIsKept(v) ==
    /\ \A o \in v.folded : o \in v.log \/ Covered(v, o)
    /\ \A o \in v.joined : o \in v.folded /\ Covered(v, o)
    /\ \A o \in v.pruned : o \notin v.log /\ Covered(v, o)
    /\ \A o \in v.log : ~Grouped(o) => o \in v.folded

RowsArePresent(v) ==
    \A o \in Ops : v.row[o] # "none" <=> (Grouped(o) /\ o \in Has(v))

RowsTellTheFold(v) ==
    /\ \A o \in Ops : v.row[o] = "applied" => o \in v.folded
    /\ \A o \in Ops : v.row[o] = "held" =>
            o \in v.log /\ (o \in v.folded => o \in v.joined)

WholeOrHeld(v) ==
    \A o \in Ops : Grouped(o) =>
        /\ v.row[o] = "held" => ~Whole(v, o.group)
        /\ o \in v.folded \ v.joined => Whole(v, o.group)

VaultInv(v) ==
    /\ v \in Vault
    /\ FoldIsKept(v) /\ RowsArePresent(v) /\ RowsTellTheFold(v) /\ WholeOrHeld(v)

\* A record's state is below its frontier.
RecordInv(rec) ==
    /\ rec \in Record0
    /\ \A o \in rec.state : o.seq <= rec.front[ChainOf(o)]
    /\ rec.state \cup rec.retained \subseteq published

\* Nothing is anywhere before it is published.
NothingEarly ==
    /\ published \subseteq Ops
    /\ \A r \in Replica : Has(rep[r]) \subseteq published

\* A device has logged what it published, or compacted it.
OwnAreKept ==
    \A r \in Replica : \A o \in published :
        o.dev = r => o \in rep[r].log \/ Covered(rep[r], o)

\* A group is published by the device that wrote it first.
WritersFirst ==
    \A o \in published : (o.dev \notin Replica /\ Grouped(o)) =>
        \A p \in Members(o.group) : p.dev \in Replica => p \in published

GroupsInv ==
    /\ rep \in [Replica -> Vault]
    /\ \A r \in Replica : VaultInv(rep[r])
    /\ \A rec \in snaps : RecordInv(rec)
    /\ NothingEarly /\ OwnAreKept /\ WritersFirst

(***************************************************************************)
(* What FoldReceived leaves of v when it takes the ops A, with the ops B   *)
(* logged meanwhile: the members among A without a row get one, and the    *)
(* held members of every group A touched are folded if it is whole now.    *)
(***************************************************************************)
RowsWith(v, A) ==
    [o \in Ops |-> IF o \in A /\ Grouped(o) /\ v.row[o] = "none"
                   THEN "held" ELSE v.row[o]]

PresentWith(v, A, g) == {o \in Members(g) : RowsWith(v, A)[o] # "none"}

Completed(v, A) ==
    {o \in Ops : /\ Grouped(o) /\ RowsWith(v, A)[o] = "held"
                 /\ A \cap Members(o.group) # {}
                 /\ Cardinality(PresentWith(v, A, o.group)) >= SizeOf[o.group]}

Absorbed(v, A, B) ==
    [log    |-> v.log \cup B,
     row    |-> [o \in Ops |-> IF o \in Completed(v, A) THEN "applied"
                               ELSE RowsWith(v, A)[o]],
     folded |-> v.folded \cup {o \in A : ~Grouped(o)} \cup Completed(v, A),
     pruned |-> v.pruned, floor |-> v.floor, joined |-> v.joined]

\* The ops of S that Receive takes into v.
Taken(v, S) == {o \in S \ v.log : ~Covered(v, o)}

-----------------------------------------------------------------------------
(* Sets of naturals, and the ops of the vault as a set ordered by stamp. *)

LEMMA LeastNat ==
    ASSUME NEW S, S \subseteq Nat, S # {}
    PROVE  \E n \in S : \A m \in S : n <= m
<1>1. PICK n \in S : \A m \in S : <<m, n>> \notin OpToRel(<, Nat)
  BY NatLessThanWellFounded, WFMin
<1>2. ASSUME NEW m \in S PROVE n <= m
  <2>1. m \in Nat /\ n \in Nat
    OBVIOUS
  <2>2. ~(m < n)
    BY <1>1, <2>1 DEF OpToRel
  <2> QED
    BY <2>1, <2>2
<1> QED
  BY <1>2

\* A finite set of naturals has a greatest element: the one with the fewest
\* above it.
LEMMA GreatestNat ==
    ASSUME NEW S, S \subseteq Nat, IsFiniteSet(S), S # {}
    PROVE  \E n \in S : \A m \in S : m <= n
<1> DEFINE up(n) == {m \in S : n < m}
           N == {Cardinality(up(n)) : n \in S}
<1>1. \A n \in S : IsFiniteSet(up(n)) /\ Cardinality(up(n)) \in Nat
  BY FS_Subset, FS_CardinalityType
<1>2. PICK k \in N : \A j \in N : k <= j
  <2>1. N \subseteq Nat /\ N # {}
    BY <1>1
  <2> HIDE DEF N
  <2> QED
    BY <2>1, LeastNat
<1>3. PICK n \in S : k = Cardinality(up(n))
  BY <1>2
<1>4. ASSUME NEW m \in S PROVE m <= n
  <2>1. m \in Nat /\ n \in Nat
    OBVIOUS
  <2>2. CASE n < m
    <3>0. \A j \in S : j \in Nat
      OBVIOUS
    <3>a. ~(m < m) /\ \A j \in S : m < j => n < j
      BY <2>1, <2>2, <3>0
    <3>1. up(m) \subseteq up(n) /\ m \in up(n) /\ m \notin up(m)
      BY <2>2, <3>a
    <3>2. k <= Cardinality(up(m))
      BY <1>2
    <3> HIDE DEF up
    <3>3. /\ IsFiniteSet(up(n)) /\ Cardinality(up(n)) \in Nat
          /\ Cardinality(up(m)) \in Nat
      BY <1>1
    <3>4. /\ Cardinality(up(m)) <= Cardinality(up(n))
          /\ (Cardinality(up(m)) = Cardinality(up(n)) => up(n) = up(m))
      BY <3>1, <3>3, FS_Subset, Zenon
    <3> QED
      BY <1>3, <3>1, <3>2, <3>3, <3>4
  <2> QED
    BY <2>1, <2>2
<1> QED
  BY <1>4

\* Max is what it says.
LEMMA MaxIs ==
    ASSUME NEW S, S \subseteq Nat, IsFiniteSet(S), S # {}
    PROVE  Max(S) \in S /\ \A m \in S : m <= Max(S)
<1>1. \E n \in S : \A m \in S : n >= m
  <2>1. PICK n \in S : \A m \in S : m <= n
    BY GreatestNat
  <2>2. \A m \in S : n >= m
    BY <2>1
  <2> QED
    BY <2>2
<1>2. Max(S) \in S /\ \A m \in S : Max(S) >= m
  BY <1>1 DEF Max
<1> QED
  BY <1>2

LEMMA OpFacts ==
    /\ IsFiniteSet(Ops) /\ NoGroup \notin Group
    /\ \A o \in Ops : /\ o.seq \in Nat /\ o.at \in Nat /\ ChainOf(o) \in Chain
                      /\ (Grouped(o) => o.group \in Group /\ o \in Members(o.group))
    /\ \A o, p \in Ops : o.at = p.at => o = p
    /\ \A g \in Group : SizeOf[g] \in Nat
    /\ \A g : \A o \in Members(g) : o \in Ops /\ o.group = g
  BY OpsAssumption DEF Grouped, Members, Chain, ChainOf

\* The members of a group that are counted, and that more present are more.
LEMMA Counted ==
    ASSUME NEW g, NEW S, S \subseteq Members(g), NEW T, T \subseteq S
    PROVE  /\ Cardinality(S) \in Nat /\ Cardinality(T) \in Nat
           /\ Cardinality(T) <= Cardinality(S)
<1>1. S \subseteq Ops /\ IsFiniteSet(Ops)
  BY OpFacts
<1>2. IsFiniteSet(S)
  BY <1>1, FS_Subset
<1>3. IsFiniteSet(T) /\ Cardinality(T) <= Cardinality(S)
  BY <1>2, FS_Subset
<1> QED
  BY <1>2, <1>3, FS_CardinalityType

LEMMA LatestIs ==
    ASSUME NEW S, S \subseteq Ops, S # {}
    PROVE  Latest(S) \in S /\ \A p \in S : p.at <= Latest(S).at
<1> DEFINE N == {o.at : o \in S}
<1>1. N \subseteq Nat /\ N # {}
  BY OpFacts
<1>2. IsFiniteSet(N)
  <2>1. IsFiniteSet(S)
    BY OpFacts, FS_Subset
  <2> DEFINE f == [o \in S |-> o.at]
  <2>2. f \in Surjection(S, N)
    BY DEF Surjection
  <2> HIDE DEF N, f
  <2> QED
    BY <2>1, <2>2, FS_Surjection
<1>3. \E o \in S : \A p \in S : p.at <= o.at
  <2>1. PICK n \in N : \A m \in N : m <= n
    <3> HIDE DEF N
    <3> QED
      BY <1>1, <1>2, GreatestNat
  <2>2. PICK o \in S : n = o.at
    BY <2>1
  <2>3. \A p \in S : p.at <= o.at
    BY <2>1, <2>2
  <2> QED
    BY <2>3
<1> QED
  BY <1>3, Zenon DEF Latest

\* The ops of S up to o, and how they grow from one op to the next.
Upto(S, o) == {p \in S : p.at <= o.at}

Before(S, o) == {p \in S : p.at < o.at}

LEMMA UptoStep ==
    ASSUME NEW S, S \subseteq Ops, NEW o \in S
    PROVE  /\ Before(S, o) = {} => Upto(S, o) = {o}
           /\ Before(S, o) # {} =>
                /\ Latest(Before(S, o)) \in Before(S, o)
                /\ Upto(S, o) = Upto(S, Latest(Before(S, o))) \cup {o}
                /\ o \notin Upto(S, Latest(Before(S, o)))
<1>1. \A p, q \in S : /\ p.at \in Nat /\ q.at \in Nat
                      /\ (p.at = q.at => p = q)
  BY OpFacts
<1>2. Before(S, o) = {} => Upto(S, o) = {o}
  BY <1>1 DEF Before, Upto
<1>3. ASSUME Before(S, o) # {}
      PROVE  /\ Latest(Before(S, o)) \in Before(S, o)
             /\ Upto(S, o) = Upto(S, Latest(Before(S, o))) \cup {o}
             /\ o \notin Upto(S, Latest(Before(S, o)))
  <2> DEFINE b == Latest(Before(S, o))
  <2>1. b \in Before(S, o) /\ \A p \in Before(S, o) : p.at <= b.at
    <3>1. Before(S, o) \subseteq Ops
      BY DEF Before
    <3> QED
      BY <1>3, <3>1, LatestIs
  <2> HIDE DEF b
  <2>2. b \in S /\ b.at < o.at
    BY <2>1 DEF Before
  <2>3. \A p \in S : p.at <= o.at <=> (p.at <= b.at \/ p = o)
    <3> TAKE p \in S
    <3>1. p.at < o.at => p.at <= b.at
      BY <2>1 DEF Before
    <3> QED
      BY <1>1, <2>2, <3>1
  <2>4. ~(o.at <= b.at)
    BY <1>1, <2>2
  <2> QED
    BY <2>1, <2>3, <2>4 DEF b, Upto
<1> QED
  BY <1>2, <1>3

-----------------------------------------------------------------------------
(* What a run of folds leaves. *)

LEMMA VaultFields ==
    ASSUME NEW v \in Vault
    PROVE  /\ v.log \subseteq Ops /\ v.folded \subseteq Ops
           /\ v.pruned \subseteq Ops /\ v.joined \subseteq Ops
           /\ v.floor \in [Chain -> Nat]
           /\ v.row \in [Ops -> {"none", "held", "applied"}]
           /\ v = [log |-> v.log, row |-> v.row, folded |-> v.folded,
                   pruned |-> v.pruned, floor |-> v.floor, joined |-> v.joined]
  BY DEF Vault

\* A vault with one of its tables grown.
LEMMA VaultExcept ==
    ASSUME NEW v, NEW S,
           v = [log |-> v.log, row |-> v.row, folded |-> v.folded,
                pruned |-> v.pruned, floor |-> v.floor, joined |-> v.joined]
    PROVE  /\ [v EXCEPT !.log = @ \cup S]
                = [log |-> v.log \cup S, row |-> v.row, folded |-> v.folded,
                   pruned |-> v.pruned, floor |-> v.floor, joined |-> v.joined]
           /\ [v EXCEPT !.folded = @ \cup S]
                = [log |-> v.log, row |-> v.row, folded |-> v.folded \cup S,
                   pruned |-> v.pruned, floor |-> v.floor, joined |-> v.joined]
<1>1. [v EXCEPT !.log = @ \cup S]
        = [log |-> v.log \cup S, row |-> v.row, folded |-> v.folded,
           pruned |-> v.pruned, floor |-> v.floor, joined |-> v.joined]
  BY SMTT(30)
<1>2. [v EXCEPT !.folded = @ \cup S]
        = [log |-> v.log, row |-> v.row, folded |-> v.folded \cup S,
           pruned |-> v.pruned, floor |-> v.floor, joined |-> v.joined]
  OBVIOUS
<1> QED
  BY <1>1, <1>2

LEMMA RowsWithType ==
    ASSUME NEW v \in Vault, NEW A
    PROVE  RowsWith(v, A) \in [Ops -> {"none", "held", "applied"}]
  BY VaultFields DEF RowsWith

LEMMA AbsorbedType ==
    ASSUME NEW v \in Vault, NEW A, A \subseteq Ops, NEW B, B \subseteq Ops
    PROVE  Absorbed(v, A, B) \in Vault
<1>1. Completed(v, A) \subseteq Ops
  BY DEF Completed
<1>2. [o \in Ops |-> IF o \in Completed(v, A) THEN "applied" ELSE RowsWith(v, A)[o]]
        \in [Ops -> {"none", "held", "applied"}]
  BY RowsWithType
<1> QED
  BY <1>1, <1>2, VaultFields DEF Absorbed, Vault

\* Nothing absorbed, nothing changed.
LEMMA AbsorbedNone ==
    ASSUME NEW v \in Vault
    PROVE  Absorbed(v, {}, {}) = v
<1>1. Completed(v, {}) = {}
  BY DEF Completed
<1>2. RowsWith(v, {}) = v.row
  BY VaultFields DEF RowsWith
<1>3. [o \in Ops |-> IF o \in Completed(v, {}) THEN "applied" ELSE RowsWith(v, {})[o]]
        = v.row
  BY <1>1, <1>2, VaultFields
<1> QED
  BY <1>1, <1>3, VaultFields DEF Absorbed

\* One more fold.
LEMMA AbsorbStep ==
    ASSUME NEW v \in Vault, NEW A, A \subseteq Ops, NEW B, NEW o \in Ops
    PROVE  FoldReceived(Absorbed(v, A, B), o) = Absorbed(v, A \cup {o}, B)
<1> DEFINE w == Absorbed(v, A, B)
           C == A \cup {o}
           g == o.group
           R == RowsWith(v, A)
           Q == RowsWith(v, C)
<1>0. /\ R \in [Ops -> {"none", "held", "applied"}]
      /\ Q \in [Ops -> {"none", "held", "applied"}]
  BY RowsWithType
<1>1. CASE ~Grouped(o)
  <2>1. Q = R
    BY <1>1 DEF RowsWith
  <2>2. Completed(v, C) = Completed(v, A)
    <3>1. \A p \in Ops : Grouped(p) =>
              (C \cap Members(p.group) # {} <=> A \cap Members(p.group) # {})
      BY <1>1 DEF Grouped, Members
    <3>2. \A h : PresentWith(v, C, h) = PresentWith(v, A, h)
      BY <2>1 DEF PresentWith
    <3> QED
      BY <2>1, <3>1, <3>2 DEF Completed
  <2>3. {p \in C : ~Grouped(p)} = {p \in A : ~Grouped(p)} \cup {o}
    BY <1>1
  <2>4. FoldReceived(w, o) = [w EXCEPT !.folded = @ \cup {o}]
    BY <1>1 DEF FoldReceived, Grouped
  <2>5. (v.folded \cup {p \in A : ~Grouped(p)} \cup Completed(v, A)) \cup {o}
          = v.folded \cup {p \in C : ~Grouped(p)} \cup Completed(v, C)
    BY <2>2, <2>3
  <2>6. w = [log |-> w.log, row |-> w.row, folded |-> w.folded,
             pruned |-> w.pruned, floor |-> w.floor, joined |-> w.joined]
    BY DEF Absorbed
  <2>7. [w EXCEPT !.folded = @ \cup {o}]
          = [log |-> w.log, row |-> w.row, folded |-> w.folded \cup {o},
             pruned |-> w.pruned, floor |-> w.floor, joined |-> w.joined]
    <3> HIDE DEF w
    <3> QED
      BY <2>6, VaultExcept
  <2>8. /\ w.log = v.log \cup B /\ w.pruned = v.pruned /\ w.floor = v.floor
        /\ w.joined = v.joined
        /\ w.folded = v.folded \cup {p \in A : ~Grouped(p)} \cup Completed(v, A)
        /\ w.row = [p \in Ops |-> IF p \in Completed(v, A) THEN "applied" ELSE R[p]]
    BY DEF Absorbed
  <2> HIDE DEF C, R, Q, w
  <2> QED
    BY <2>1, <2>2, <2>4, <2>5, <2>7, <2>8, ZenonT(40) DEF Absorbed, w, C, Q
<1>2. CASE Grouped(o)
  <2> DEFINE x == Record(w, o, FALSE)
             done == {p \in Ops : /\ p.group = g /\ x.row[p] = "held"
                                  /\ Cardinality(Present(x, g)) >= SizeOf[g]}
  <2>0. g \in Group /\ SizeOf[g] \in Nat /\ o \in Members(g)
    BY <1>2, OpFacts
  <2>1. \A p \in Ops : Q[p] = IF p = o /\ R[p] = "none" THEN "held" ELSE R[p]
    BY <1>2 DEF RowsWith
  <2> HIDE DEF R, Q
  <2>2. w.row = [p \in Ops |-> IF p \in Completed(v, A) THEN "applied" ELSE R[p]]
    BY DEF Absorbed, R
  <2>3. \A p \in Completed(v, A) : p \in Ops /\ R[p] = "held"
    BY DEF Completed, R
  <2>4. /\ x.row = [p \in Ops |-> IF p \in Completed(v, A) THEN "applied" ELSE Q[p]]
        /\ x.log = w.log /\ x.folded = w.folded /\ x.pruned = w.pruned
        /\ x.floor = w.floor /\ x.joined = w.joined
    <3>1. w \in [log : {w.log}, row : {w.row}, folded : {w.folded},
                 pruned : {w.pruned}, floor : {w.floor}, joined : {w.joined}]
      BY DEF Absorbed
    <3>2. CASE w.row[o] = "none"
      <4>1. x = [w EXCEPT !.row[o] = "held"]
        BY <3>2 DEF Record
      <4>2. x.row = [w.row EXCEPT ![o] = "held"]
        BY <3>1, <4>1
      <4>3. R[o] = "none" /\ o \notin Completed(v, A)
        BY <2>2, <3>2
      <4>4. x.row = [p \in Ops |-> IF p \in Completed(v, A) THEN "applied" ELSE Q[p]]
        <5>1. \A p \in Ops : p # o => Q[p] = R[p]
          BY <2>1
        <5>2. Q[o] = "held"
          BY <2>1, <4>3
        <5> HIDE DEF x, w
        <5> QED
          BY <2>2, <4>2, <4>3, <5>1, <5>2
      <4>5. x.log = w.log /\ x.folded = w.folded /\ x.pruned = w.pruned
        <5> HIDE DEF x, w
        <5> QED
          BY <3>1, <4>1
      <4>6. x.floor = w.floor /\ x.joined = w.joined
        <5> HIDE DEF x, w
        <5> QED
          BY <3>1, <4>1
      <4> HIDE DEF x, w
      <4> QED
        BY <4>4, <4>5, <4>6
    <3>3. CASE w.row[o] # "none"
      <4>1. x = w
        BY <3>3 DEF Record
      <4>2. R[o] # "none"
        BY <2>2, <2>3, <3>3
      <4>3. \A p \in Ops : Q[p] = R[p]
        BY <2>1, <4>2
      <4> HIDE DEF x, w
      <4> QED
        BY <2>2, <4>1, <4>3
    <3> QED
      BY <3>2, <3>3
  <2>5. Present(x, g) = PresentWith(v, C, g)
    <3>1. \A p \in Members(g) : x.row[p] # "none" <=> Q[p] # "none"
      <4> HIDE DEF x
      <4> TAKE p \in Members(g)
      <4>1. p \in Ops
        BY OpFacts
      <4>2. p \in Completed(v, A) => Q[p] # "none"
        BY <2>1, <2>3
      <4> QED
        BY <2>4, <4>1, <4>2
    <3> QED
      BY <3>1 DEF Present, PresentWith, Q
  <2>6. Completed(v, C) = Completed(v, A) \cup done
    <3>1. ASSUME NEW p \in Ops, p.group # g
          PROVE  p \in Completed(v, C) <=> p \in Completed(v, A)
      <4>1. C \cap Members(p.group) # {} <=> A \cap Members(p.group) # {}
        BY <3>1 DEF Members
      <4>2. Q[p] = R[p]
        BY <2>1, <3>1
      <4>3. PresentWith(v, C, p.group) = PresentWith(v, A, p.group)
        <5>1. \A q \in Members(p.group) : q \in Ops /\ q # o
          BY <3>1 DEF Members
        <5> QED
          BY <2>1, <5>1 DEF PresentWith, Q, R
      <4> QED
        BY <4>1, <4>2, <4>3 DEF Completed, Q, R
    <3>2. ASSUME NEW p \in Ops, p.group = g
          PROVE  p \in Completed(v, C) <=> p \in Completed(v, A) \/ p \in done
      <4>1. p \in Completed(v, C) <=>
              /\ Q[p] = "held"
              /\ Cardinality(PresentWith(v, C, g)) >= SizeOf[g]
        BY <1>2, <2>0, <3>2 DEF Completed, Q, Grouped
      <4>2. p \in done <=>
              /\ x.row[p] = "held"
              /\ Cardinality(PresentWith(v, C, g)) >= SizeOf[g]
        BY <2>5, <3>2
      <4>3. p \in Completed(v, A) =>
              Cardinality(PresentWith(v, C, g)) >= SizeOf[g]
        <5>1. PresentWith(v, A, g) \subseteq PresentWith(v, C, g)
          BY <2>1, OpFacts DEF PresentWith, Q, R
        <5>2. PresentWith(v, C, g) \subseteq Members(g)
          BY DEF PresentWith
        <5>3. /\ Cardinality(PresentWith(v, C, g)) \in Nat
              /\ Cardinality(PresentWith(v, A, g)) \in Nat
              /\ Cardinality(PresentWith(v, A, g))
                   <= Cardinality(PresentWith(v, C, g))
          BY <5>1, <5>2, Counted
        <5>4. p \in Completed(v, A) =>
                Cardinality(PresentWith(v, A, g)) >= SizeOf[g]
          BY <3>2 DEF Completed
        <5> QED
          BY <2>0, <5>3, <5>4
      <4>4. p \in Completed(v, A) => Q[p] = "held"
        BY <2>1, <2>3
      <4>5. x.row[p] = IF p \in Completed(v, A) THEN "applied" ELSE Q[p]
        <5> HIDE DEF x
        <5> QED
          BY <2>4
      <4> HIDE DEF x, done
      <4> QED
        BY <4>1, <4>2, <4>3, <4>4, <4>5
    <3>3. Completed(v, C) \subseteq Ops /\ done \subseteq Ops
      BY DEF Completed
    <3>4. \A p \in done : p.group = g
      OBVIOUS
    <3> HIDE DEF done, C
    <3> QED
      BY <2>3, <3>1, <3>2, <3>3, <3>4
  <2>7. FoldReceived(w, o) = [x EXCEPT !.folded = @ \cup done,
                !.row = [p \in Ops |-> IF p \in done THEN "applied" ELSE @[p]]]
    <3>1. FoldReceived(w, o) = ApplyHeld(x, {g})
      BY <1>2 DEF FoldReceived, TryComplete, Grouped
    <3>2. done = {p \in Ops : /\ p.group \in {g} /\ x.row[p] = "held"
                              /\ Cardinality(Present(x, p.group)) >= SizeOf[p.group]}
      OBVIOUS
    <3> HIDE DEF x, done, w
    <3> QED
      BY <3>1, <3>2 DEF ApplyHeld
  <2>8. {p \in C : ~Grouped(p)} = {p \in A : ~Grouped(p)}
    BY <1>2
  <2>9. /\ w.folded = v.folded \cup {p \in A : ~Grouped(p)} \cup Completed(v, A)
        /\ w.log = v.log \cup B /\ w.pruned = v.pruned /\ w.floor = v.floor
        /\ w.joined = v.joined
        /\ x = [log |-> x.log, row |-> x.row, folded |-> x.folded,
                pruned |-> x.pruned, floor |-> x.floor, joined |-> x.joined]
    BY DEF Absorbed, Record
  <2> HIDE DEF x, w, done, C
  <2>10. w.folded \cup done = v.folded \cup {p \in C : ~Grouped(p)} \cup Completed(v, C)
    BY <2>6, <2>8, <2>9
  <2>11. [p \in Ops |-> IF p \in done THEN "applied" ELSE x.row[p]]
           = [p \in Ops |-> IF p \in Completed(v, C) THEN "applied" ELSE Q[p]]
    BY <2>4, <2>6
  <2>12. FoldReceived(w, o) =
           [log |-> x.log,
            row |-> [p \in Ops |-> IF p \in done THEN "applied" ELSE x.row[p]],
            folded |-> x.folded \cup done,
            pruned |-> x.pruned, floor |-> x.floor, joined |-> x.joined]
    BY <2>7, <2>9
  <2> QED
    BY <2>4, <2>9, <2>10, <2>11, <2>12 DEF Absorbed, w, C, Q
<1> QED
  BY <1>1, <1>2

\* One more op received.
LEMMA ReceiveStep ==
    ASSUME NEW v \in Vault, NEW U, U \subseteq Ops, NEW o \in Ops, o \notin U
    PROVE  Receive(Absorbed(v, Taken(v, U), Taken(v, U)), o)
             = Absorbed(v, Taken(v, U \cup {o}), Taken(v, U \cup {o}))
<1> DEFINE T == Taken(v, U)
           w == Absorbed(v, T, T)
<1>1. T \subseteq Ops /\ o \notin T
  BY DEF Taken
<1>2. w.log = v.log \cup T /\ w.floor = v.floor
  BY DEF Absorbed
<1>3. /\ o \in w.log <=> o \in v.log
      /\ Covered(w, o) <=> Covered(v, o)
  BY <1>1, <1>2 DEF Covered
<1>4. CASE o \in v.log \/ Covered(v, o)
  <2>1. Taken(v, U \cup {o}) = T
    BY <1>4 DEF Taken
  <2>2. Receive(w, o) = w
    BY <1>3, <1>4 DEF Receive
  <2> QED
    BY <2>1, <2>2
<1>5. CASE ~(o \in v.log \/ Covered(v, o))
  <2>1. Taken(v, U \cup {o}) = T \cup {o}
    BY <1>5 DEF Taken
  <2>2. Receive(w, o) = FoldReceived([w EXCEPT !.log = @ \cup {o}], o)
    BY <1>3, <1>5 DEF Receive
  <2>3. [w EXCEPT !.log = @ \cup {o}] = Absorbed(v, T, T \cup {o})
    <3>1. w = [log |-> w.log, row |-> w.row, folded |-> w.folded,
               pruned |-> w.pruned, floor |-> w.floor, joined |-> w.joined]
      BY DEF Absorbed
    <3>2. w.log \cup {o} = v.log \cup (T \cup {o})
      BY <1>2
    <3>3. [w EXCEPT !.log = @ \cup {o}]
            = [log |-> w.log \cup {o}, row |-> w.row, folded |-> w.folded,
               pruned |-> w.pruned, floor |-> w.floor, joined |-> w.joined]
      <4> HIDE DEF w, T
      <4> QED
        BY <3>1, VaultExcept
    <3> HIDE DEF T
    <3> QED
      BY <3>2, <3>3 DEF Absorbed
  <2>4. FoldReceived(Absorbed(v, T, T \cup {o}), o)
          = Absorbed(v, T \cup {o}, T \cup {o})
    BY <1>1, AbsorbStep
  <2> HIDE DEF w, T
  <2> QED
    BY <2>1, <2>2, <2>3, <2>4 DEF w, T
<1> QED
  BY <1>4, <1>5

\* The log refolded, all of it.
LEMMA RefoldedAll ==
    ASSUME NEW v \in Vault, NEW S, S \subseteq Ops
    PROVE  InStampOrder(FoldReceived, v, S) = Absorbed(v, S, {})
<1> DEFINE val(U) == Absorbed(v, U, {})
           before(o) == Before(S, o)
           step(g, o) == FoldReceived(IF before(o) = {} THEN v ELSE g[Latest(before(o))], o)
           w == [o \in S |-> val(Upto(S, o))]
           upto == CHOOSE g : g = [o \in S |-> step(g, o)]
<1>1. val({}) = v
  BY AbsorbedNone
<1>2. ASSUME NEW U, U \subseteq Ops, NEW o \in Ops, o \notin U
      PROVE  FoldReceived(val(U), o) = val(U \cup {o})
  BY <1>2, AbsorbStep
<1>3. \A o \in S : /\ before(o) = {} => Upto(S, o) = {o}
                   /\ before(o) # {} =>
                        /\ Latest(before(o)) \in S
                        /\ Latest(before(o)).at < o.at
                        /\ Upto(S, o) = Upto(S, Latest(before(o))) \cup {o}
                        /\ o \notin Upto(S, Latest(before(o)))
  <2> TAKE o \in S
  <2>1. before(o) # {} => Latest(before(o)) \in before(o)
    BY UptoStep
  <2>2. \A p \in before(o) : p \in S /\ p.at < o.at
    BY DEF Before
  <2> QED
    BY <2>1, <2>2, UptoStep
<1> HIDE DEF val, before
<1>4. ASSUME NEW g, NEW o \in S,
             before(o) # {} => g[Latest(before(o))] = val(Upto(S, Latest(before(o))))
      PROVE  step(g, o) = val(Upto(S, o))
  <2>1. CASE before(o) = {}
    <3>1. FoldReceived(val({}), o) = val({} \cup {o})
      BY <1>2
    <3>2. step(g, o) = FoldReceived(v, o)
      BY <2>1
    <3>3. {} \cup {o} = Upto(S, o)
      BY <1>3, <2>1
    <3> HIDE DEF step
    <3> QED
      BY <1>1, <3>1, <3>2, <3>3
  <2>2. CASE before(o) # {}
    <3> DEFINE U == Upto(S, Latest(before(o)))
    <3>1. U \subseteq Ops /\ o \notin U /\ Upto(S, o) = U \cup {o}
      BY <1>3, <2>2 DEF Upto
    <3>2. step(g, o) = FoldReceived(val(U), o)
      BY <1>4, <2>2
    <3> HIDE DEF step, U
    <3> QED
      BY <1>2, <3>1, <3>2
  <2> QED
    BY <2>1, <2>2
<1> HIDE DEF step
<1>5. \A o \in S : w[o] = step(w, o)
  <2> SUFFICES ASSUME NEW o \in S PROVE w[o] = step(w, o)
    OBVIOUS
  <2>1. w[o] = val(Upto(S, o))
    OBVIOUS
  <2>2. before(o) # {} => w[Latest(before(o))] = val(Upto(S, Latest(before(o))))
    BY <1>3
  <2> HIDE DEF w
  <2> QED
    BY <1>4, <2>1, <2>2
<1>6. w = [o \in S |-> step(w, o)]
  <2>1. w = [o \in S |-> w[o]]
    OBVIOUS
  <2> HIDE DEF w
  <2> QED
    BY <1>5, <2>1
<1>7. upto = [o \in S |-> step(upto, o)]
  <2>1. \E g : g = [o \in S |-> step(g, o)]
    <3> HIDE DEF w
    <3> QED
      BY <1>6, Zenon
  <2> QED
    BY <2>1, Zenon
<1>8. InStampOrder(FoldReceived, v, S) = IF S = {} THEN v ELSE upto[Latest(S)]
  BY Zenon DEF InStampOrder, step, before, Before
<1> HIDE DEF w, upto
<1>9. \A o \in S : upto[o] = step(upto, o)
  BY <1>7
<1>10. \A o \in S : upto[o] = val(Upto(S, o))
  <2> DEFINE Z == {o \in S : upto[o] # val(Upto(S, o))}
  <2>1. SUFFICES ASSUME Z # {} PROVE FALSE
    OBVIOUS
  <2>2. PICK o \in Z : \A p \in Z : o.at <= p.at
    <3>1. {p.at : p \in Z} \subseteq Nat /\ {p.at : p \in Z} # {}
      BY <2>1, OpFacts
    <3>2. PICK n \in {p.at : p \in Z} : \A m \in {p.at : p \in Z} : n <= m
      BY <3>1, LeastNat
    <3>3. PICK o \in Z : n = o.at
      BY <3>2
    <3>4. \A p \in Z : o.at <= p.at
      BY <3>2, <3>3
    <3> QED
      BY <3>4
  <2>3. before(o) # {} => Latest(before(o)) \notin Z
    <3> SUFFICES ASSUME before(o) # {}, Latest(before(o)) \in Z PROVE FALSE
      OBVIOUS
    <3>1. Latest(before(o)).at < o.at /\ o.at <= Latest(before(o)).at
      BY <1>3, <2>2
    <3>2. Latest(before(o)).at \in Nat /\ o.at \in Nat
      BY <1>3, <2>2, OpFacts
    <3> QED
      BY <3>1, <3>2
  <2>4. before(o) # {} => upto[Latest(before(o))] = val(Upto(S, Latest(before(o))))
    BY <1>3, <2>2, <2>3
  <2>5. o \in S /\ upto[o] # val(Upto(S, o))
    BY <2>2
  <2> HIDE DEF Z
  <2> QED
    BY <1>4, <1>9, <2>4, <2>5
<1>11. CASE S = {}
  BY <1>1, <1>8, <1>11 DEF val
<1>12. CASE S # {}
  <2>1. Latest(S) \in S /\ \A p \in S : p.at <= Latest(S).at
    BY <1>12, LatestIs
  <2>2. Upto(S, Latest(S)) = S
    BY <2>1 DEF Upto
  <2> QED
    BY <1>8, <1>10, <1>12, <2>1, <2>2 DEF val
<1> QED
  BY <1>11, <1>12

\* The retained ops received, all of them.
LEMMA ReceivedAll ==
    ASSUME NEW v \in Vault, NEW S, S \subseteq Ops
    PROVE  InStampOrder(Receive, v, S) = Absorbed(v, Taken(v, S), Taken(v, S))
<1> DEFINE val(U) == Absorbed(v, Taken(v, U), Taken(v, U))
           before(o) == Before(S, o)
           step(g, o) == Receive(IF before(o) = {} THEN v ELSE g[Latest(before(o))], o)
           w == [o \in S |-> val(Upto(S, o))]
           upto == CHOOSE g : g = [o \in S |-> step(g, o)]
<1>1. val({}) = v
  <2>1. Taken(v, {}) = {}
    BY DEF Taken
  <2> QED
    BY <2>1, AbsorbedNone
<1>2. ASSUME NEW U, U \subseteq Ops, NEW o \in Ops, o \notin U
      PROVE  Receive(val(U), o) = val(U \cup {o})
  BY <1>2, ReceiveStep
<1>3. \A o \in S : /\ before(o) = {} => Upto(S, o) = {o}
                   /\ before(o) # {} =>
                        /\ Latest(before(o)) \in S
                        /\ Latest(before(o)).at < o.at
                        /\ Upto(S, o) = Upto(S, Latest(before(o))) \cup {o}
                        /\ o \notin Upto(S, Latest(before(o)))
  <2> TAKE o \in S
  <2>1. before(o) # {} => Latest(before(o)) \in before(o)
    BY UptoStep
  <2>2. \A p \in before(o) : p \in S /\ p.at < o.at
    BY DEF Before
  <2> QED
    BY <2>1, <2>2, UptoStep
<1> HIDE DEF val, before
<1>4. ASSUME NEW g, NEW o \in S,
             before(o) # {} => g[Latest(before(o))] = val(Upto(S, Latest(before(o))))
      PROVE  step(g, o) = val(Upto(S, o))
  <2>1. CASE before(o) = {}
    <3>1. Receive(val({}), o) = val({} \cup {o})
      BY <1>2
    <3>2. step(g, o) = Receive(v, o)
      BY <2>1
    <3>3. {} \cup {o} = Upto(S, o)
      BY <1>3, <2>1
    <3> HIDE DEF step
    <3> QED
      BY <1>1, <3>1, <3>2, <3>3
  <2>2. CASE before(o) # {}
    <3> DEFINE U == Upto(S, Latest(before(o)))
    <3>1. U \subseteq Ops /\ o \notin U /\ Upto(S, o) = U \cup {o}
      BY <1>3, <2>2 DEF Upto
    <3>2. step(g, o) = Receive(val(U), o)
      BY <1>4, <2>2
    <3> HIDE DEF step, U
    <3> QED
      BY <1>2, <3>1, <3>2
  <2> QED
    BY <2>1, <2>2
<1> HIDE DEF step
<1>5. \A o \in S : w[o] = step(w, o)
  <2> SUFFICES ASSUME NEW o \in S PROVE w[o] = step(w, o)
    OBVIOUS
  <2>1. w[o] = val(Upto(S, o))
    OBVIOUS
  <2>2. before(o) # {} => w[Latest(before(o))] = val(Upto(S, Latest(before(o))))
    BY <1>3
  <2> HIDE DEF w
  <2> QED
    BY <1>4, <2>1, <2>2
<1>6. w = [o \in S |-> step(w, o)]
  <2>1. w = [o \in S |-> w[o]]
    OBVIOUS
  <2> HIDE DEF w
  <2> QED
    BY <1>5, <2>1
<1>7. upto = [o \in S |-> step(upto, o)]
  <2>1. \E g : g = [o \in S |-> step(g, o)]
    <3> HIDE DEF w
    <3> QED
      BY <1>6, Zenon
  <2> QED
    BY <2>1, Zenon
<1>8. InStampOrder(Receive, v, S) = IF S = {} THEN v ELSE upto[Latest(S)]
  BY Zenon DEF InStampOrder, step, before, Before
<1> HIDE DEF w, upto
<1>9. \A o \in S : upto[o] = step(upto, o)
  BY <1>7
<1>10. \A o \in S : upto[o] = val(Upto(S, o))
  <2> DEFINE Z == {o \in S : upto[o] # val(Upto(S, o))}
  <2>1. SUFFICES ASSUME Z # {} PROVE FALSE
    OBVIOUS
  <2>2. PICK o \in Z : \A p \in Z : o.at <= p.at
    <3>1. {p.at : p \in Z} \subseteq Nat /\ {p.at : p \in Z} # {}
      BY <2>1, OpFacts
    <3>2. PICK n \in {p.at : p \in Z} : \A m \in {p.at : p \in Z} : n <= m
      BY <3>1, LeastNat
    <3>3. PICK o \in Z : n = o.at
      BY <3>2
    <3>4. \A p \in Z : o.at <= p.at
      BY <3>2, <3>3
    <3> QED
      BY <3>4
  <2>3. before(o) # {} => Latest(before(o)) \notin Z
    <3> SUFFICES ASSUME before(o) # {}, Latest(before(o)) \in Z PROVE FALSE
      OBVIOUS
    <3>1. Latest(before(o)).at < o.at /\ o.at <= Latest(before(o)).at
      BY <1>3, <2>2
    <3>2. Latest(before(o)).at \in Nat /\ o.at \in Nat
      BY <1>3, <2>2, OpFacts
    <3> QED
      BY <3>1, <3>2
  <2>4. before(o) # {} => upto[Latest(before(o))] = val(Upto(S, Latest(before(o))))
    BY <1>3, <2>2, <2>3
  <2>5. o \in S /\ upto[o] # val(Upto(S, o))
    BY <2>2
  <2> HIDE DEF Z
  <2> QED
    BY <1>4, <1>9, <2>4, <2>5
<1>11. CASE S = {}
  BY <1>1, <1>8, <1>11 DEF val
<1>12. CASE S # {}
  <2>1. Latest(S) \in S /\ \A p \in S : p.at <= Latest(S).at
    BY <1>12, LatestIs
  <2>2. Upto(S, Latest(S)) = S
    BY <2>1 DEF Upto
  <2> QED
    BY <1>8, <1>10, <1>12, <2>1, <2>2 DEF val
<1> QED
  BY <1>11, <1>12

-----------------------------------------------------------------------------
(* What each operation does to one vault. *)

\* A group with more members present is whole if it was.
LEMMA WholeGrows ==
    ASSUME NEW v, NEW w, NEW g \in Group, Has(v) \subseteq Has(w), Whole(v, g)
    PROVE  Whole(w, g)
<1>1. /\ Cardinality(Members(g) \cap Has(v)) \in Nat
      /\ Cardinality(Members(g) \cap Has(w)) \in Nat
      /\ Cardinality(Members(g) \cap Has(v)) <= Cardinality(Members(g) \cap Has(w))
  BY Counted
<1> QED
  BY <1>1, OpFacts DEF Whole

\* Receiving new ops, and folding or holding each.
LEMMA AbsorbInv ==
    ASSUME NEW v, VaultInv(v), NEW A, A \subseteq Ops,
           \A o \in A : o \notin v.log /\ ~Covered(v, o)
    PROVE  VaultInv(Absorbed(v, A, A)) /\ Has(Absorbed(v, A, A)) = Has(v) \cup A
<1> DEFINE w == Absorbed(v, A, A)
           R == RowsWith(v, A)
           D == Completed(v, A)
<1>0. /\ v \in Vault /\ FoldIsKept(v) /\ RowsArePresent(v)
      /\ RowsTellTheFold(v) /\ WholeOrHeld(v)
  BY DEF VaultInv
<1>1. /\ w.log = v.log \cup A
      /\ w.row = [o \in Ops |-> IF o \in D THEN "applied" ELSE R[o]]
      /\ w.folded = v.folded \cup {o \in A : ~Grouped(o)} \cup D
      /\ w.pruned = v.pruned /\ w.floor = v.floor /\ w.joined = v.joined
  BY DEF Absorbed
<1>2. w \in Vault
  BY <1>0, AbsorbedType
<1> HIDE DEF w
<1>3. \A o \in A : o \notin v.folded /\ v.row[o] = "none"
  BY <1>0 DEF FoldIsKept, RowsArePresent, Has
<1>4. \A o \in Ops : R[o] = IF o \in A /\ Grouped(o) THEN "held" ELSE v.row[o]
  BY <1>3 DEF RowsWith
<1>5. \A o \in Ops : R[o] # "none" <=> Grouped(o) /\ o \in Has(v) \cup A
  BY <1>0, <1>4 DEF RowsArePresent
<1>6. \A o \in D : o \in v.log \cup A /\ Grouped(o) /\ R[o] = "held" /\ o \in Ops
  BY <1>0, <1>4 DEF Completed, RowsTellTheFold
<1>7. Has(w) = Has(v) \cup A
  BY <1>1, <1>6 DEF Has
<1>8. \A g \in Group : PresentWith(v, A, g) = Members(g) \cap Has(w)
  <2> TAKE g \in Group
  <2>1. \A o \in Members(g) : o \in Ops /\ Grouped(o)
    BY OpFacts DEF Grouped
  <2> QED
    BY <1>5, <1>7, <2>1 DEF PresentWith
<1>9. \A o \in Ops : Grouped(o) => o.group \in Group /\ o \in Members(o.group)
  BY OpFacts
<1>10. \A o \in Ops : o \in D <=> /\ Grouped(o) /\ R[o] = "held"
                                  /\ A \cap Members(o.group) # {}
                                  /\ Whole(w, o.group)
  BY <1>8, <1>9 DEF Completed, Whole
<1> HIDE DEF R, D
<1>11. FoldIsKept(w)
  <2>1. \A o \in Ops : Covered(w, o) <=> Covered(v, o)
    BY <1>1 DEF Covered
  <2>2. /\ v.folded \subseteq Ops /\ v.joined \subseteq Ops /\ v.pruned \subseteq Ops
        /\ v.log \subseteq Ops
    BY <1>0, VaultFields
  <2> QED
    BY <1>0, <1>1, <1>6, <2>1, <2>2 DEF FoldIsKept
<1>12. RowsArePresent(w)
  BY <1>1, <1>5, <1>6, <1>7 DEF RowsArePresent
<1>13. RowsTellTheFold(w)
  <2>1. \A o \in Ops : w.row[o] = "applied" => o \in w.folded
    BY <1>0, <1>1, <1>4 DEF RowsTellTheFold
  <2>2. ASSUME NEW o \in Ops, w.row[o] = "held"
        PROVE  o \in w.log /\ (o \in w.folded => o \in w.joined)
    <3>1. R[o] = "held" /\ o \notin D /\ Grouped(o)
      BY <1>1, <1>5, <2>2
    <3>2. CASE o \in A
      BY <1>1, <1>3, <3>1, <3>2
    <3>3. CASE o \notin A
      BY <1>0, <1>1, <1>4, <3>1, <3>3 DEF RowsTellTheFold
    <3> QED
      BY <3>2, <3>3
  <2> QED
    BY <2>1, <2>2 DEF RowsTellTheFold
<1>14. WholeOrHeld(w)
  <2> SUFFICES ASSUME NEW o \in Ops, Grouped(o)
               PROVE  /\ w.row[o] = "held" => ~Whole(w, o.group)
                      /\ o \in w.folded \ w.joined => Whole(w, o.group)
    BY DEF WholeOrHeld
  <2>1. ASSUME w.row[o] = "held" PROVE ~Whole(w, o.group)
    <3>1. R[o] = "held" /\ o \notin D
      BY <1>1, <2>1
    <3>2. CASE A \cap Members(o.group) = {}
      <4>1. o \notin A /\ v.row[o] = "held"
        BY <1>4, <1>9, <3>1, <3>2
      <4>2. Members(o.group) \cap Has(w) = Members(o.group) \cap Has(v)
        BY <1>7, <3>2
      <4>3. ~Whole(v, o.group)
        BY <1>0, <4>1 DEF WholeOrHeld
      <4> QED
        BY <4>2, <4>3 DEF Whole
    <3>3. CASE A \cap Members(o.group) # {}
      BY <1>10, <3>1, <3>3
    <3> QED
      BY <3>2, <3>3
  <2>2. ASSUME o \in w.folded, o \notin w.joined PROVE Whole(w, o.group)
    <3>1. CASE o \in D
      BY <1>10, <3>1
    <3>2. CASE o \notin D
      <4>1. o \in v.folded \ v.joined
        BY <1>1, <2>2, <3>2
      <4>2. Whole(v, o.group)
        BY <1>0, <4>1 DEF WholeOrHeld
      <4> QED
        BY <1>7, <1>9, <4>2, WholeGrows
    <3> QED
      BY <3>1, <3>2
  <2> QED
    BY <2>1, <2>2
<1> QED
  BY <1>2, <1>7, <1>11, <1>12, <1>13, <1>14 DEF VaultInv, w

LEMMA JoinStateFields ==
    ASSUME NEW v \in Vault, NEW S \in SUBSET Ops, NEW named, NEW w,
           w = JoinState(v, S, named)
    PROVE  /\ w \in Vault /\ w.folded = v.folded \cup S
           /\ w.log = v.log /\ w.pruned = v.pruned
           /\ w.floor = v.floor /\ w.joined = v.joined
<1> DEFINE Q == [o \in Ops |-> IF o \in named /\ Grouped(o) /\ v.row[o] = "none"
                               THEN "applied" ELSE v.row[o]]
<1>1. w = [v EXCEPT !.folded = @ \cup S, !.row = Q]
  BY DEF JoinState, Grouped
<1>2. Q \in [Ops -> {"none", "held", "applied"}]
  BY VaultFields
<1> HIDE DEF Q
<1>3. w.folded = v.folded \cup S /\ w.row = Q
  BY <1>1 DEF Vault
<1>4. /\ w.log = v.log /\ w.pruned = v.pruned
      /\ w.floor = v.floor /\ w.joined = v.joined
  BY <1>1 DEF Vault
<1>5. w = [log |-> w.log, row |-> w.row, folded |-> w.folded,
           pruned |-> w.pruned, floor |-> w.floor, joined |-> w.joined]
  BY <1>1 DEF Vault
<1>6. w \in Vault
  <2>1. /\ w.row \in [Ops -> {"none", "held", "applied"}]
        /\ w.folded \in SUBSET Ops
    BY <1>2, <1>3, VaultFields
  <2> QED
    BY <1>4, <1>5, <2>1, VaultFields DEF Vault
<1> QED
  BY <1>3, <1>4, <1>6

\* The row of one op after it.
LEMMA JoinStateRow ==
    ASSUME NEW v \in Vault, NEW S, NEW named, NEW w, w = JoinState(v, S, named),
           NEW o \in Ops
    PROVE  w.row[o] = IF o \in named /\ Grouped(o) /\ v.row[o] = "none"
                      THEN "applied" ELSE v.row[o]
<1> DEFINE Q == [p \in Ops |-> IF p \in named /\ Grouped(p) /\ v.row[p] = "none"
                               THEN "applied" ELSE v.row[p]]
<1>1. w = [v EXCEPT !.folded = @ \cup S, !.row = Q]
  BY DEF JoinState, Grouped
<1> HIDE DEF Q
<1>2. w.row = Q
  BY <1>1 DEF Vault
<1> QED
  BY <1>2 DEF Q

\* The held members ApplyHeld folds.
Ready(v, G) ==
    {o \in Ops : /\ o.group \in G /\ v.row[o] = "held"
                 /\ Cardinality(Present(v, o.group)) >= SizeOf[o.group]}

LEMMA ApplyHeldFields ==
    ASSUME NEW v \in Vault, NEW G, NEW w, w = ApplyHeld(v, G)
    PROVE  /\ w \in Vault /\ w.folded = v.folded \cup Ready(v, G)
           /\ w.log = v.log /\ w.pruned = v.pruned
           /\ w.floor = v.floor /\ w.joined = v.joined
<1> DEFINE Q == [o \in Ops |-> IF o \in Ready(v, G) THEN "applied" ELSE v.row[o]]
<1>1. w = [v EXCEPT !.folded = @ \cup Ready(v, G), !.row = Q]
  BY DEF ApplyHeld, Ready
<1>2. Q \in [Ops -> {"none", "held", "applied"}]
  BY VaultFields
<1>3. Ready(v, G) \subseteq Ops
  BY DEF Ready
<1> HIDE DEF Q
<1>4. w.folded = v.folded \cup Ready(v, G) /\ w.row = Q
  BY <1>1 DEF Vault
<1>5. /\ w.log = v.log /\ w.pruned = v.pruned
      /\ w.floor = v.floor /\ w.joined = v.joined
  BY <1>1 DEF Vault
<1>6. w = [log |-> w.log, row |-> w.row, folded |-> w.folded,
           pruned |-> w.pruned, floor |-> w.floor, joined |-> w.joined]
  BY <1>1 DEF Vault
<1>7. w \in Vault
  <2>1. /\ w.row \in [Ops -> {"none", "held", "applied"}]
        /\ w.folded \in SUBSET Ops
    BY <1>2, <1>3, <1>4, VaultFields
  <2> QED
    BY <1>5, <1>6, <2>1, VaultFields DEF Vault
<1> QED
  BY <1>4, <1>5, <1>7

LEMMA ApplyHeldRow ==
    ASSUME NEW v \in Vault, NEW G, NEW w, w = ApplyHeld(v, G), NEW o \in Ops
    PROVE  w.row[o] = IF o \in Ready(v, G) THEN "applied" ELSE v.row[o]
<1> DEFINE Q == [p \in Ops |-> IF p \in Ready(v, G) THEN "applied" ELSE v.row[p]]
<1>1. w = [v EXCEPT !.folded = @ \cup Ready(v, G), !.row = Q]
  BY DEF ApplyHeld, Ready
<1> HIDE DEF Q
<1>2. w.row = Q
  BY <1>1 DEF Vault
<1> QED
  BY <1>2 DEF Q

\* A rebuild shows what the vault showed, whatever was compacted or pruned.
LEMMA RebuiltInv ==
    ASSUME NEW v, VaultInv(v)
    PROVE  /\ VaultInv(Rebuilt(v)) /\ Rebuilt(v).folded = v.folded
           /\ Rebuilt(v).log = v.log /\ Rebuilt(v).floor = v.floor
<1>a. PICK base : base = CompactedBase(v)
  OBVIOUS
<1>b. PICK cl : cl = Cleared(v)
  OBVIOUS
<1>c. PICK named : named = base \ v.pruned
  OBVIOUS
<1>d. PICK j : j = JoinState(cl, base, named)
  OBVIOUS
<1> DEFINE w == Absorbed(j, v.log, {})
           R == RowsWith(j, v.log)
           D == Completed(j, v.log)
<1>0. /\ v \in Vault /\ FoldIsKept(v) /\ RowsArePresent(v)
      /\ RowsTellTheFold(v) /\ WholeOrHeld(v)
  BY DEF VaultInv
<1>1. /\ v.log \subseteq Ops /\ v.folded \subseteq Ops /\ v.joined \subseteq Ops
      /\ v.row \in [Ops -> {"none", "held", "applied"}]
  BY <1>0, VaultFields
<1>2. /\ cl \in Vault /\ cl.folded = {} /\ cl.log = v.log /\ cl.pruned = v.pruned
      /\ cl.floor = v.floor /\ cl.joined = v.joined
      /\ cl.row = [o \in Ops |-> IF o \in v.log THEN "none" ELSE v.row[o]]
  <2> DEFINE Q == [o \in Ops |-> IF o \in v.log THEN "none" ELSE v.row[o]]
  <2>1. cl = [v EXCEPT !.folded = {}, !.row = Q]
    BY <1>b DEF Cleared
  <2>2. Q \in [Ops -> {"none", "held", "applied"}]
    BY <1>1
  <2> HIDE DEF Q
  <2>3. cl \in Vault
    BY <1>0, <2>1, <2>2 DEF Vault
  <2> QED
    BY <1>0, <2>1, <2>3 DEF Q, Vault
<1>3. base \subseteq Ops /\ \A o : o \in base <=> o \in v.folded /\ Covered(v, o)
  BY <1>1, <1>a DEF CompactedBase
<1>4. /\ j \in Vault /\ j.folded = base /\ j.log = v.log /\ j.pruned = v.pruned
      /\ j.floor = v.floor /\ j.joined = v.joined
      /\ \A o \in Ops : j.row[o] =
             IF o \in base \ v.pruned /\ Grouped(o) /\ cl.row[o] = "none"
             THEN "applied" ELSE cl.row[o]
  <2>1. {} \cup base = base
    OBVIOUS
  <2>2. /\ j \in Vault /\ j.folded = cl.folded \cup base
        /\ \A o \in Ops : j.row[o] =
               IF o \in named /\ Grouped(o) /\ cl.row[o] = "none"
               THEN "applied" ELSE cl.row[o]
        /\ j.log = cl.log /\ j.pruned = cl.pruned
        /\ j.floor = cl.floor /\ j.joined = cl.joined
    <3>1. cl \in Vault
      BY <1>2
    <3>2. base \in SUBSET Ops
      BY <1>3
    <3>3. \A o \in Ops : j.row[o] =
             IF o \in named /\ Grouped(o) /\ cl.row[o] = "none"
             THEN "applied" ELSE cl.row[o]
      BY <1>d, <3>1, JoinStateRow
    <3> QED
      BY <1>d, <3>1, <3>2, <3>3, JoinStateFields
  <2> QED
    BY <1>2, <1>c, <2>1, <2>2
<1>5. Rebuilt(v) = w
  BY <1>1, <1>4, <1>a, <1>b, <1>c, <1>d, RefoldedAll DEF Rebuilt
<1>6. \A o \in Ops : o \in v.log /\ Grouped(o) =>
                        R[o] = IF o \in base THEN "applied" ELSE "held"
  <2>1. \A o \in v.log : o \notin v.pruned
    BY <1>0 DEF FoldIsKept
  <2> QED
    BY <1>2, <1>4, <2>1 DEF RowsWith
<1>7. \A o \in Ops : ~(o \in v.log /\ Grouped(o)) => R[o] = v.row[o]
  <2> SUFFICES ASSUME NEW o \in Ops, ~(o \in v.log /\ Grouped(o)) PROVE R[o] = v.row[o]
    OBVIOUS
  <2>1. CASE ~Grouped(o)
    <3>1. v.row[o] = "none"
      BY <1>0, <2>1 DEF RowsArePresent
    <3> QED
      BY <1>2, <1>4, <2>1, <3>1 DEF RowsWith
  <2>2. CASE Grouped(o) /\ o \notin v.log
    <3>1. o \in base => v.row[o] # "none"
      BY <1>0, <1>3, <2>2 DEF RowsArePresent, Has
    <3> QED
      BY <1>2, <1>4, <2>2, <3>1 DEF RowsWith
  <2> QED
    BY <2>1, <2>2
<1>8. \A o \in Ops : R[o] # "none" <=> v.row[o] # "none"
  BY <1>0, <1>6, <1>7 DEF RowsArePresent, Has
<1>9. \A o \in Ops : R[o] = "held" <=> (o \in v.log \ base /\ Grouped(o))
  <2>1. \A o \in Ops : v.row[o] = "held" => o \in v.log /\ Grouped(o)
    BY <1>0 DEF RowsTellTheFold, RowsArePresent
  <2> QED
    BY <1>6, <1>7, <2>1
<1>10. \A o \in Ops : Grouped(o) => o.group \in Group /\ o \in Members(o.group)
  BY OpFacts
<1>11. \A g \in Group : PresentWith(j, v.log, g) = Members(g) \cap Has(v)
  <2> TAKE g \in Group
  <2>1. \A o \in Members(g) : o \in Ops /\ Grouped(o)
    BY OpFacts DEF Grouped
  <2> QED
    BY <1>0, <1>8, <2>1 DEF PresentWith, RowsArePresent
<1>12. \A o \in Ops : o \in D <=> /\ Grouped(o) /\ o \in v.log \ base
                                  /\ Whole(v, o.group)
  BY <1>9, <1>10, <1>11 DEF Completed, Whole
<1>13. D \subseteq Ops
  BY DEF Completed
<1>14. /\ w.log = v.log
       /\ w.row = [o \in Ops |-> IF o \in D THEN "applied" ELSE R[o]]
       /\ w.folded = base \cup {o \in v.log : ~Grouped(o)} \cup D
       /\ w.pruned = v.pruned /\ w.floor = v.floor /\ w.joined = v.joined
       /\ w \in Vault
  <2>1. v.log \cup {} = v.log
    OBVIOUS
  <2>2. w \in Vault
    BY <1>1, <1>4, AbsorbedType
  <2> QED
    BY <1>4, <2>1, <2>2 DEF Absorbed
<1> HIDE DEF w, R, D
<1>15. w.folded = v.folded
  <2>1. ASSUME NEW o \in w.folded PROVE o \in v.folded
    <3>1. CASE o \in base
      BY <1>3, <3>1
    <3>2. CASE o \in v.log /\ ~Grouped(o)
      BY <1>0, <3>2 DEF FoldIsKept
    <3>3. CASE o \in D
      <4>1. o \in Ops /\ Grouped(o) /\ o \in v.log /\ Whole(v, o.group)
        BY <1>12, <1>13, <3>3
      <4>2. v.row[o] # "none" /\ v.row[o] # "held"
        BY <1>0, <4>1 DEF RowsArePresent, Has, WholeOrHeld
      <4>3. v.row[o] = "applied"
        BY <1>1, <4>1, <4>2
      <4> QED
        BY <1>0, <4>1, <4>3 DEF RowsTellTheFold
    <3> QED
      BY <1>14, <3>1, <3>2, <3>3
  <2>2. ASSUME NEW o \in v.folded PROVE o \in w.folded
    <3>1. o \in Ops /\ (o \in v.log \/ Covered(v, o))
      BY <1>0, <1>1 DEF FoldIsKept
    <3>2. CASE o \in base
      BY <1>14, <3>2
    <3>3. CASE o \notin base
      <4>1. o \in v.log /\ o \notin v.joined
        BY <1>0, <1>3, <3>1, <3>3 DEF FoldIsKept
      <4>2. CASE ~Grouped(o)
        BY <1>14, <4>1, <4>2
      <4>3. CASE Grouped(o)
        BY <1>0, <1>12, <1>14, <3>1, <3>3, <4>1, <4>3 DEF WholeOrHeld
      <4> QED
        BY <4>2, <4>3
    <3> QED
      BY <3>2, <3>3
  <2> QED
    BY <2>1, <2>2
<1>16. Has(w) = Has(v) /\ \A g : Whole(w, g) <=> Whole(v, g)
  BY <1>14, <1>15 DEF Has, Whole
<1>17. FoldIsKept(w)
  BY <1>0, <1>14, <1>15 DEF FoldIsKept, Covered
<1>18. RowsArePresent(w)
  BY <1>0, <1>8, <1>12, <1>14, <1>16 DEF RowsArePresent, Has
<1>19. RowsTellTheFold(w)
  <2>1. ASSUME NEW o \in Ops, w.row[o] = "applied" PROVE o \in w.folded
    <3>1. CASE o \in D
      BY <1>14, <3>1
    <3>2. CASE o \notin D /\ o \in v.log /\ Grouped(o)
      BY <1>6, <1>14, <2>1, <3>2
    <3>3. CASE o \notin D /\ ~(o \in v.log /\ Grouped(o))
      BY <1>0, <1>7, <1>14, <1>15, <2>1, <3>3 DEF RowsTellTheFold
    <3> QED
      BY <3>1, <3>2, <3>3
  <2>2. ASSUME NEW o \in Ops, w.row[o] = "held"
        PROVE  o \in w.log /\ (o \in w.folded => o \in w.joined)
    <3>1. o \notin D /\ R[o] = "held"
      BY <1>14, <2>2
    <3>2. o \in v.log \ base /\ Grouped(o) /\ ~Whole(v, o.group)
      BY <1>9, <1>12, <3>1
    <3> QED
      BY <1>0, <1>14, <1>15, <3>2 DEF WholeOrHeld
  <2> QED
    BY <2>1, <2>2 DEF RowsTellTheFold
<1>20. WholeOrHeld(w)
  <2>1. \A o \in Ops : w.row[o] = "held" => ~Whole(w, o.group)
    BY <1>9, <1>12, <1>14, <1>16
  <2> QED
    BY <1>0, <1>14, <1>15, <1>16, <2>1 DEF WholeOrHeld
<1> QED
  BY <1>5, <1>14, <1>15, <1>17, <1>18, <1>19, <1>20 DEF VaultInv

\* j is u with the effects S of a snapshot and floors raised to top.
JoinedTo(j, u, S, top) ==
    /\ S \in SUBSET Ops /\ top \in [Chain -> Nat]
    /\ \A c \in Chain : u.floor[c] <= top[c]
    /\ \A o \in S : o.seq <= top[ChainOf(o)]
    /\ j \in Vault /\ j.log = u.log /\ j.pruned = u.pruned
    /\ j.folded = u.folded \cup S /\ j.joined = u.joined \cup S /\ j.floor = top
    /\ \A o \in Ops : j.row[o] = IF o \in S /\ Grouped(o) /\ u.row[o] = "none"
                                 THEN "applied" ELSE u.row[o]

\* A snapshot joined over what its retained ops left, and the groups it
\* completed.
LEMMA CompletedJoinInv ==
    ASSUME NEW u, VaultInv(u), NEW j, NEW S, NEW top, JoinedTo(j, u, S, top),
           NEW w, w = CompleteReadyGroups(j)
    PROVE  VaultInv(w) /\ Has(w) = Has(u) \cup S /\ w.log = u.log /\ w.floor = top
<1> USE DEF JoinedTo
<1> DEFINE G == {g \in Group : HeldOf(j, g) # {}}
           D == Ready(j, G)
<1>0. /\ u \in Vault /\ FoldIsKept(u) /\ RowsArePresent(u)
      /\ RowsTellTheFold(u) /\ WholeOrHeld(u)
      /\ u.folded \subseteq Ops /\ u.joined \subseteq Ops /\ u.pruned \subseteq Ops
      /\ u.log \subseteq Ops /\ u.floor \in [Chain -> Nat]
      /\ u.row \in [Ops -> {"none", "held", "applied"}]
  BY VaultFields DEF VaultInv
<1>1. /\ w \in Vault /\ w.folded = j.folded \cup D /\ w.log = j.log
      /\ w.pruned = j.pruned /\ w.floor = j.floor /\ w.joined = j.joined
      /\ \A o \in Ops : w.row[o] = IF o \in D THEN "applied" ELSE j.row[o]
  <2>1. w = ApplyHeld(j, G)
    BY DEF CompleteReadyGroups
  <2> HIDE DEF G
  <2>2. \A o \in Ops : w.row[o] = IF o \in D THEN "applied" ELSE j.row[o]
    BY <2>1, ApplyHeldRow
  <2> QED
    BY <2>1, <2>2, ApplyHeldFields
<1>2. \A o \in Ops : Grouped(o) => o.group \in Group /\ o \in Members(o.group)
  BY OpFacts
<1>3. \A o \in Ops : j.row[o] = "held" <=> u.row[o] = "held"
  OBVIOUS
<1>4. \A o \in Ops : u.row[o] = "held" =>
                        /\ Grouped(o) /\ o \in u.log /\ o.group \in G
                        /\ (o \in u.folded => o \in u.joined)
  <2> SUFFICES ASSUME NEW o \in Ops, u.row[o] = "held"
               PROVE  /\ Grouped(o) /\ o \in u.log /\ o.group \in G
                      /\ (o \in u.folded => o \in u.joined)
    OBVIOUS
  <2>1. Grouped(o) /\ o \in u.log /\ (o \in u.folded => o \in u.joined)
    BY <1>0 DEF RowsArePresent, RowsTellTheFold
  <2>2. o \in HeldOf(j, o.group)
    BY <1>2, <1>3, <2>1 DEF HeldOf
  <2> QED
    BY <1>2, <2>1, <2>2
<1>5. D \subseteq Ops /\ \A o \in D : u.row[o] = "held"
  BY <1>3 DEF Ready
<1>6. Has(w) = Has(u) \cup S
  BY <1>1, <1>4, <1>5 DEF Has
<1>7. \A o \in Ops : j.row[o] # "none" <=> (Grouped(o) /\ o \in Has(w))
  <2>1. \A o \in Ops : u.row[o] # "none" <=> (Grouped(o) /\ o \in Has(u))
    BY <1>0 DEF RowsArePresent
  <2> QED
    BY <1>6, <2>1
<1>8. \A g \in Group : Present(j, g) = Members(g) \cap Has(w)
  <2> TAKE g \in Group
  <2>1. \A o \in Members(g) : o \in Ops /\ Grouped(o)
    BY OpFacts DEF Grouped
  <2> QED
    BY <1>7, <2>1 DEF Present
<1>9. \A o \in Ops : o \in D <=> u.row[o] = "held" /\ Whole(w, o.group)
  <2> SUFFICES ASSUME NEW o \in Ops
               PROVE  o \in D <=> u.row[o] = "held" /\ Whole(w, o.group)
    OBVIOUS
  <2>1. o \in D => u.row[o] = "held"
    BY <1>5
  <2>2. u.row[o] = "held" => (o \in D <=> Whole(w, o.group))
    <3> HAVE u.row[o] = "held"
    <3>1. o.group \in Group /\ o.group \in G /\ j.row[o] = "held"
      BY <1>2, <1>3, <1>4
    <3> HIDE DEF G
    <3> QED
      BY <1>8, <3>1 DEF Ready, Whole
  <2> QED
    BY <2>1, <2>2
<1> HIDE DEF D, G
<1>10. FoldIsKept(w)
  <2>1. \A o \in Ops : Covered(u, o) => Covered(w, o)
    <3> SUFFICES ASSUME NEW o \in Ops, Covered(u, o) PROVE Covered(w, o)
      OBVIOUS
    <3>1. /\ ChainOf(o) \in Chain /\ o.seq \in Nat /\ o.seq <= u.floor[ChainOf(o)]
          /\ u.floor[ChainOf(o)] \in Nat /\ top[ChainOf(o)] \in Nat
          /\ u.floor[ChainOf(o)] <= top[ChainOf(o)]
      BY <1>0, OpFacts DEF Covered
    <3>2. o.seq <= top[ChainOf(o)]
      BY <3>1
    <3> QED
      BY <1>1, <3>2 DEF Covered
  <2>2. \A o \in S : Covered(w, o)
    BY <1>1 DEF Covered
  <2>3. \A o \in w.folded : o \in w.log \/ Covered(w, o)
    BY <1>0, <1>1, <1>4, <1>5, <2>1, <2>2 DEF FoldIsKept
  <2>4. \A o \in w.joined : o \in w.folded /\ Covered(w, o)
    BY <1>0, <1>1, <2>1, <2>2 DEF FoldIsKept
  <2>5. \A o \in w.pruned : o \notin w.log /\ Covered(w, o)
    BY <1>0, <1>1, <2>1 DEF FoldIsKept
  <2>6. \A o \in w.log : ~Grouped(o) => o \in w.folded
    BY <1>0, <1>1 DEF FoldIsKept
  <2> QED
    BY <2>3, <2>4, <2>5, <2>6 DEF FoldIsKept
<1>11. RowsArePresent(w)
  <2>1. \A o \in Ops : w.row[o] # "none" <=> j.row[o] # "none"
    BY <1>1, <1>3, <1>5
  <2> QED
    BY <1>7, <2>1 DEF RowsArePresent
<1>12. RowsTellTheFold(w)
  <2>1. ASSUME NEW o \in Ops, w.row[o] = "applied" PROVE o \in w.folded
    <3>1. u.row[o] = "applied" => o \in u.folded
      BY <1>0 DEF RowsTellTheFold
    <3> QED
      BY <1>1, <2>1, <3>1
  <2>2. ASSUME NEW o \in Ops, w.row[o] = "held"
        PROVE  o \in w.log /\ (o \in w.folded => o \in w.joined)
    <3>1. o \notin D /\ u.row[o] = "held"
      BY <1>1, <1>3, <2>2
    <3> QED
      BY <1>1, <1>4, <3>1
  <2> QED
    BY <2>1, <2>2 DEF RowsTellTheFold
<1>13. WholeOrHeld(w)
  <2>1. ASSUME NEW o \in Ops, w.row[o] = "held" PROVE ~Whole(w, o.group)
    BY <1>1, <1>3, <1>9, <2>1
  <2>2. ASSUME NEW o \in Ops, Grouped(o), o \in w.folded, o \notin w.joined
        PROVE  Whole(w, o.group)
    <3>1. CASE o \in D
      BY <1>9, <3>1
    <3>2. CASE o \notin D
      <4>1. o \in u.folded \ u.joined
        BY <1>1, <2>2, <3>2
      <4>2. Whole(u, o.group)
        BY <1>0, <2>2, <4>1 DEF WholeOrHeld
      <4> QED
        BY <1>2, <1>6, <2>2, <4>2, WholeGrows
    <3> QED
      BY <3>1, <3>2
  <2> QED
    BY <2>1, <2>2 DEF WholeOrHeld
<1> QED
  BY <1>1, <1>6, <1>10, <1>11, <1>12, <1>13 DEF VaultInv

\* The greater of two naturals.
LEMMA MaxOfTwo ==
    ASSUME NEW a \in Nat, NEW b \in Nat
    PROVE  Max({a, b}) \in Nat /\ a <= Max({a, b}) /\ b <= Max({a, b})
<1>1. IsFiniteSet({a, b})
  <2>1. IsFiniteSet({a}) /\ IsFiniteSet({b})
    BY FS_Singleton
  <2>2. IsFiniteSet({a} \cup {b})
    BY <2>1, FS_Union
  <2>3. {a} \cup {b} = {a, b}
    OBVIOUS
  <2> QED
    BY <2>2, <2>3
<1>2. Max({a, b}) \in {a, b} /\ \A m \in {a, b} : m <= Max({a, b})
  BY <1>1, MaxIs
<1> QED
  BY <1>2

\* apply_snapshot on one vault.
LEMMA JoinInv ==
    ASSUME NEW v, VaultInv(v), NEW rec \in Record0,
           \A o \in rec.state : o.seq <= rec.front[ChainOf(o)]
    PROVE  LET w == JoinSnapshot(v, rec)
           IN  /\ VaultInv(w)
               /\ Has(w) \subseteq Has(v) \cup rec.state \cup rec.retained
               /\ v.log \subseteq w.log
               /\ \A c \in Chain : v.floor[c] <= w.floor[c]
<1>0. /\ rec.state \in SUBSET Ops /\ rec.retained \in SUBSET Ops
      /\ rec.front \in [Chain -> Nat]
  BY DEF Record0
<1>1. PICK T : T = Taken(v, rec.retained)
  OBVIOUS
<1>2. PICK u : u = Absorbed(v, T, T)
  OBVIOUS
<1>3. v \in Vault /\ v.floor \in [Chain -> Nat]
  BY VaultFields DEF VaultInv
<1>4. InStampOrder(Receive, v, rec.retained) = u
  BY <1>0, <1>1, <1>2, <1>3, ReceivedAll
<1>5. T \subseteq Ops /\ T \subseteq rec.retained
      /\ \A o \in T : o \notin v.log /\ ~Covered(v, o)
  BY <1>0, <1>1 DEF Taken
<1>6. VaultInv(u) /\ Has(u) = Has(v) \cup T
  BY <1>2, <1>5, AbsorbInv
<1>7. u.log = v.log \cup T /\ u.floor = v.floor /\ u \in Vault
  BY <1>2, <1>6 DEF Absorbed, VaultInv
<1>8. PICK x : x = JoinState(u, rec.state, rec.state)
  OBVIOUS
<1>9. /\ x \in Vault /\ x.folded = u.folded \cup rec.state /\ x.log = u.log
      /\ x.pruned = u.pruned /\ x.floor = u.floor /\ x.joined = u.joined
  BY <1>0, <1>7, <1>8, JoinStateFields
<1>10. \A o \in Ops : x.row[o] =
          IF o \in rec.state /\ Grouped(o) /\ u.row[o] = "none"
          THEN "applied" ELSE u.row[o]
  BY <1>7, <1>8, JoinStateRow
<1>11. PICK top : top = [c \in Chain |-> Max({v.floor[c], rec.front[c]})]
  OBVIOUS
<1>12. top \in [Chain -> Nat]
       /\ \A c \in Chain : v.floor[c] <= top[c] /\ rec.front[c] <= top[c]
  <2>1. \A c \in Chain : v.floor[c] \in Nat /\ rec.front[c] \in Nat
    BY <1>0, <1>3
  <2> QED
    BY <1>11, <2>1, MaxOfTwo
<1>13. PICK j : j = Joined(v, rec)
  OBVIOUS
<1>14. j = [x EXCEPT !.floor = top, !.joined = @ \cup rec.state]
  <2>1. x.floor = v.floor
    BY <1>7, <1>9
  <2> QED
    BY <1>4, <1>8, <1>11, <1>13, <2>1 DEF Joined
<1>15. /\ j \in Vault /\ j.log = u.log /\ j.pruned = u.pruned
       /\ j.folded = u.folded \cup rec.state
       /\ j.joined = u.joined \cup rec.state /\ j.floor = top /\ j.row = x.row
  <2>1. j \in Vault
    BY <1>0, <1>9, <1>12, <1>14 DEF Vault
  <2> QED
    BY <1>9, <1>14, <2>1 DEF Vault
<1>16. \A o \in rec.state : o.seq <= top[ChainOf(o)]
  <2> TAKE o \in rec.state
  <2>1. o \in Ops /\ o.seq \in Nat /\ ChainOf(o) \in Chain
    BY <1>0, OpFacts
  <2>2. o.seq <= rec.front[ChainOf(o)] /\ rec.front[ChainOf(o)] <= top[ChainOf(o)]
    BY <1>12, <2>1
  <2>3. rec.front[ChainOf(o)] \in Nat /\ top[ChainOf(o)] \in Nat
    BY <1>0, <1>12, <2>1
  <2> QED
    BY <2>1, <2>2, <2>3
<1>17. PICK w : w = JoinSnapshot(v, rec)
  OBVIOUS
<1>18. w = CompleteReadyGroups(j)
  BY <1>13, <1>17 DEF JoinSnapshot
<1>19. VaultInv(w) /\ Has(w) = Has(u) \cup rec.state /\ w.log = u.log /\ w.floor = top
  <2>1. \A o \in Ops : j.row[o] =
          IF o \in rec.state /\ Grouped(o) /\ u.row[o] = "none"
          THEN "applied" ELSE u.row[o]
    BY <1>10, <1>15
  <2>2. \A c \in Chain : u.floor[c] <= top[c]
    BY <1>7, <1>12
  <2> QED
    <3>1. JoinedTo(j, u, rec.state, top)
      BY <1>0, <1>12, <1>15, <1>16, <2>1, <2>2 DEF JoinedTo
    <3> QED
      BY <1>6, <1>18, <3>1, CompletedJoinInv
<1> QED
  BY <1>5, <1>6, <1>7, <1>12, <1>17, <1>19

\* x is v with the ops B logged.
LoggedTo(x, v, B) ==
    /\ x \in Vault /\ x.log = v.log \cup B /\ x.row = v.row /\ x.folded = v.folded
    /\ x.pruned = v.pruned /\ x.floor = v.floor /\ x.joined = v.joined

\* The ops B are new to v, and the groups among them are whole with B and
\* present in no part before.
NewTo(v, B) ==
    /\ B \in SUBSET Ops
    /\ \A o \in B : o \notin v.log /\ ~Covered(v, o)
    /\ \A o \in B : Grouped(o) =>
           /\ Members(o.group) \cap Has(v) = {}
           /\ Cardinality(Members(o.group) \cap B) >= SizeOf[o.group]

\* append_and_fold_group on one vault.
LEMMA WriteInv ==
    ASSUME NEW v, VaultInv(v), NEW B, NewTo(v, B), NEW x, LoggedTo(x, v, B),
           NEW w, w = JoinState(x, B, B)
    PROVE  VaultInv(w) /\ Has(w) = Has(v) \cup B /\ w.log = v.log \cup B
           /\ w.floor = v.floor
<1> USE DEF NewTo
<1>0. /\ v \in Vault /\ FoldIsKept(v) /\ RowsArePresent(v)
      /\ RowsTellTheFold(v) /\ WholeOrHeld(v)
      /\ v.folded \subseteq Ops /\ v.joined \subseteq Ops /\ v.pruned \subseteq Ops
      /\ v.log \subseteq Ops
  BY VaultFields DEF VaultInv
<1>2. /\ x \in Vault /\ x.log = v.log \cup B /\ x.row = v.row /\ x.folded = v.folded
      /\ x.pruned = v.pruned /\ x.floor = v.floor /\ x.joined = v.joined
  BY DEF LoggedTo
<1>3. /\ w \in Vault /\ w.log = v.log \cup B /\ w.folded = v.folded \cup B
      /\ w.pruned = v.pruned /\ w.floor = v.floor /\ w.joined = v.joined
  <2>1. x \in Vault
    BY <1>2
  <2>2. /\ w \in Vault /\ w.folded = x.folded \cup B /\ w.log = x.log
        /\ w.pruned = x.pruned /\ w.floor = x.floor /\ w.joined = x.joined
    BY <2>1, JoinStateFields
  <2> QED
    BY <1>2, <2>2
<1>4. \A o \in B : o \notin v.folded /\ v.row[o] = "none"
  BY <1>0 DEF FoldIsKept, RowsArePresent, Has
<1>5. \A o \in Ops : w.row[o] = IF o \in B /\ Grouped(o) THEN "applied" ELSE v.row[o]
  <2>1. \A o \in Ops : w.row[o] = IF o \in B /\ Grouped(o) /\ x.row[o] = "none"
                                  THEN "applied" ELSE x.row[o]
    BY <1>2, JoinStateRow
  <2> QED
    BY <1>2, <1>4, <2>1
<1>6. Has(w) = Has(v) \cup B
  BY <1>3 DEF Has
<1>7. \A o \in Ops : Grouped(o) => o.group \in Group /\ o \in Members(o.group)
  BY OpFacts
<1>8. FoldIsKept(w)
  <2>1. \A o \in Ops : Covered(w, o) <=> Covered(v, o)
    BY <1>3 DEF Covered
  <2> QED
    BY <1>0, <1>3, <2>1 DEF FoldIsKept
<1>9. RowsArePresent(w)
  BY <1>0, <1>5, <1>6 DEF RowsArePresent
<1>10. RowsTellTheFold(w)
  BY <1>0, <1>3, <1>4, <1>5 DEF RowsTellTheFold
<1>11. WholeOrHeld(w)
  <2> SUFFICES ASSUME NEW o \in Ops, Grouped(o)
               PROVE  /\ w.row[o] = "held" => ~Whole(w, o.group)
                      /\ o \in w.folded \ w.joined => Whole(w, o.group)
    BY DEF WholeOrHeld
  <2>1. ASSUME w.row[o] = "held" PROVE ~Whole(w, o.group)
    <3>1. v.row[o] = "held" /\ o \in Has(v) /\ ~Whole(v, o.group)
      BY <1>0, <1>5, <2>1 DEF RowsArePresent, WholeOrHeld
    <3>2. \A p \in B : p \notin Members(o.group)
      <4> SUFFICES ASSUME NEW p \in B, p \in Members(o.group) PROVE FALSE
        OBVIOUS
      <4>1. p.group = o.group /\ Grouped(p)
        BY OpFacts DEF Grouped
      <4> QED
        BY <1>7, <3>1, <4>1
    <3>3. Members(o.group) \cap Has(w) = Members(o.group) \cap Has(v)
      BY <1>6, <3>2
    <3> QED
      BY <3>1, <3>3 DEF Whole
  <2>2. ASSUME o \in w.folded, o \notin w.joined PROVE Whole(w, o.group)
    <3>1. CASE o \in B
      <4> DEFINE M == Members(o.group) \cap B
                 N == Members(o.group) \cap Has(w)
      <4>1. /\ Cardinality(M) \in Nat /\ Cardinality(N) \in Nat
            /\ Cardinality(M) <= Cardinality(N)
        <5>1. M \subseteq N /\ N \subseteq Members(o.group)
          BY <1>6
        <5> QED
          BY <5>1, Counted
      <4>2. Cardinality(M) >= SizeOf[o.group] /\ SizeOf[o.group] \in Nat
        BY <1>7, <3>1, OpFacts
      <4> HIDE DEF M
      <4>3. Cardinality(N) >= SizeOf[o.group]
        <5> HIDE DEF N
        <5> QED
          BY <4>1, <4>2
      <4> QED
        BY <4>3 DEF Whole
    <3>2. CASE o \notin B
      BY <1>0, <1>3, <1>6, <1>7, <2>2, <3>2, WholeGrows DEF WholeOrHeld
    <3> QED
      BY <3>1, <3>2
  <2> QED
    BY <2>1, <2>2
<1> QED
  BY <1>3, <1>6, <1>8, <1>9, <1>10, <1>11 DEF VaultInv

\* compact_stream on one vault.
CompactedTo(w, v, c, target) ==
    /\ w \in Vault /\ c \in Chain /\ target \in Nat /\ v.floor[c] <= target
    /\ w.log = v.log \ Deletable(v, c, target)
    /\ w.floor = [v.floor EXCEPT ![c] = target]
    /\ w.row = v.row /\ w.folded = v.folded
    /\ w.pruned = v.pruned /\ w.joined = v.joined

LEMMA CompactInv ==
    ASSUME NEW v, VaultInv(v), NEW w, NEW c, NEW target,
           CompactedTo(w, v, c, target)
    PROVE  /\ VaultInv(w) /\ Has(w) = Has(v)
           /\ \A o \in Ops : (o \in v.log \/ Covered(v, o)) =>
                               (o \in w.log \/ Covered(w, o))
<1>0. /\ v \in Vault /\ FoldIsKept(v) /\ RowsArePresent(v)
      /\ RowsTellTheFold(v) /\ WholeOrHeld(v)
      /\ v.folded \subseteq Ops /\ v.joined \subseteq Ops /\ v.pruned \subseteq Ops
      /\ v.log \subseteq Ops /\ v.floor \in [Chain -> Nat]
      /\ v.row \in [Ops -> {"none", "held", "applied"}]
  BY VaultFields DEF VaultInv
<1>1. /\ w \in Vault /\ w.row = v.row /\ w.folded = v.folded
      /\ w.pruned = v.pruned /\ w.joined = v.joined /\ w.log \subseteq v.log
  BY DEF CompactedTo
<1>2. \A o \in v.log \ w.log : o \in v.folded /\ v.row[o] # "held" /\ Covered(w, o)
  <2> SUFFICES ASSUME NEW o \in v.log, o \notin w.log
               PROVE  o \in v.folded /\ v.row[o] # "held" /\ Covered(w, o)
    OBVIOUS
  <2>1. ChainOf(o) = c /\ o.seq <= target /\ v.row[o] # "held" /\ o \in Ops
    BY <1>0 DEF CompactedTo, Deletable
  <2>2. Covered(w, o)
    BY <1>0, <2>1 DEF CompactedTo, Covered
  <2>3. CASE Grouped(o)
    <3>1. v.row[o] # "none"
      BY <1>0, <2>1, <2>3 DEF RowsArePresent, Has
    <3>2. v.row[o] = "applied"
      BY <1>0, <2>1, <3>1
    <3> QED
      BY <1>0, <2>1, <2>2, <3>2 DEF RowsTellTheFold
  <2>4. CASE ~Grouped(o)
    BY <1>0, <2>1, <2>2, <2>4 DEF FoldIsKept
  <2> QED
    BY <2>3, <2>4
<1>3. \A o \in Ops : Covered(v, o) => Covered(w, o)
  <2> SUFFICES ASSUME NEW o \in Ops, Covered(v, o) PROVE Covered(w, o)
    OBVIOUS
  <2>1. /\ ChainOf(o) \in Chain /\ o.seq \in Nat /\ o.seq <= v.floor[ChainOf(o)]
        /\ v.floor[ChainOf(o)] \in Nat
    BY <1>0, OpFacts DEF Covered
  <2>2. w.floor[ChainOf(o)] = IF ChainOf(o) = c THEN target ELSE v.floor[ChainOf(o)]
    BY <1>0, <2>1 DEF CompactedTo
  <2>3. target \in Nat /\ v.floor[c] <= target
    BY DEF CompactedTo
  <2>4. o.seq <= w.floor[ChainOf(o)]
    BY <2>1, <2>2, <2>3
  <2> QED
    BY <2>4 DEF Covered
<1>4. Has(w) = Has(v)
  BY <1>1, <1>2 DEF Has
<1>5. FoldIsKept(w)
  BY <1>0, <1>1, <1>2, <1>3 DEF FoldIsKept
<1>6. RowsArePresent(w)
  BY <1>0, <1>1, <1>4 DEF RowsArePresent
<1>7. RowsTellTheFold(w)
  BY <1>0, <1>1, <1>2 DEF RowsTellTheFold
<1>8. WholeOrHeld(w)
  BY <1>0, <1>1, <1>4 DEF WholeOrHeld, Whole
<1> QED
  BY <1>1, <1>2, <1>3, <1>4, <1>5, <1>6, <1>7, <1>8 DEF VaultInv

\* prune_versions on one vault.
LEMMA PruneInv ==
    ASSUME NEW v, VaultInv(v), NEW o \in v.folded \ v.log, Covered(v, o),
           NEW w, w = [v EXCEPT !.pruned = @ \cup {o}]
    PROVE  VaultInv(w) /\ Has(w) = Has(v) /\ w.log = v.log /\ w.floor = v.floor
<1>0. v \in Vault /\ o \in Ops
  BY VaultFields DEF VaultInv
<1>1. /\ w \in Vault /\ w.log = v.log /\ w.row = v.row /\ w.folded = v.folded
      /\ w.pruned = v.pruned \cup {o} /\ w.floor = v.floor /\ w.joined = v.joined
  <2>1. w \in Vault
    BY <1>0 DEF Vault
  <2> QED
    BY <1>0, <2>1 DEF Vault
<1>2. FoldIsKept(w)
  BY <1>1 DEF VaultInv, FoldIsKept, Covered
<1>3. RowsArePresent(w) /\ RowsTellTheFold(w) /\ WholeOrHeld(w)
  BY <1>1 DEF VaultInv, RowsArePresent, RowsTellTheFold, WholeOrHeld, Whole, Has
<1> QED
  BY <1>1, <1>2, <1>3 DEF VaultInv, Has

\* A cursor is no lower than its floor.
LEMMA CursorIs ==
    ASSUME NEW v \in Vault, NEW c \in Chain
    PROVE  Cursor(v, c) \in Nat /\ v.floor[c] <= Cursor(v, c)
<1> DEFINE held == {o.seq : o \in {p \in v.log : ChainOf(p) = c}}
           runs == {n \in held : \A k \in (v.floor[c] + 1)..n : k \in held}
           S == {v.floor[c]} \cup runs
<1>0. v.log \subseteq Ops /\ v.floor[c] \in Nat
  BY VaultFields
<1>1. held \subseteq Nat
  BY <1>0, OpFacts
<1>2. IsFiniteSet(held)
  <2> DEFINE P == {p \in v.log : ChainOf(p) = c}
             f == [o \in P |-> o.seq]
  <2>1. IsFiniteSet(P)
    BY <1>0, OpFacts, FS_Subset
  <2>2. f \in Surjection(P, held)
    BY DEF Surjection
  <2> HIDE DEF P, f, held
  <2> QED
    BY <2>1, <2>2, FS_Surjection
<1>3. runs \subseteq held
  OBVIOUS
<1>4. Cursor(v, c) = Max(S)
  BY DEF Cursor
<1> HIDE DEF held, runs
<1>5. IsFiniteSet(S) /\ S \subseteq Nat /\ S # {} /\ v.floor[c] \in S
  <2>1. IsFiniteSet(runs)
    BY <1>2, <1>3, FS_Subset
  <2>2. IsFiniteSet({v.floor[c]})
    BY FS_Singleton
  <2>3. IsFiniteSet(S)
    BY <2>1, <2>2, FS_Union
  <2> QED
    BY <1>0, <1>1, <1>3, <2>3
<1> HIDE DEF S
<1>6. Max(S) \in S /\ \A m \in S : m <= Max(S)
  BY <1>5, MaxIs
<1> QED
  BY <1>4, <1>5, <1>6

-----------------------------------------------------------------------------
(* The invariant of all the vaults. *)

LEMMA InitGroups == Init => GroupsInv
<1> SUFFICES ASSUME Init PROVE GroupsInv
  OBVIOUS
<1> DEFINE e == EmptyVault
<1>1. /\ e \in Vault /\ e.log = {} /\ e.folded = {} /\ e.pruned = {}
      /\ e.joined = {} /\ \A o \in Ops : e.row[o] = "none"
  BY DEF EmptyVault, Vault
<1> HIDE DEF e
<1>2. VaultInv(e)
  BY <1>1 DEF VaultInv, FoldIsKept, RowsArePresent, RowsTellTheFold, WholeOrHeld, Has
<1>3. \A r \in Replica : rep[r] = e
  BY DEF Init, e
<1>4. rep \in [Replica -> Vault]
  BY <1>1 DEF Init, e
<1>5. \A r \in Replica : VaultInv(rep[r]) /\ Has(rep[r]) = {}
  BY <1>1, <1>2, <1>3 DEF Has
<1> QED
  BY <1>4, <1>5 DEF Init, GroupsInv, NothingEarly, OwnAreKept, WritersFirst

\* A step of one vault that keeps what it logged or covered and gains only
\* what was published.
LEMMA OneVault ==
    ASSUME GroupsInv, NEW r \in Replica, NEW w, VaultInv(w),
           rep' = [rep EXCEPT ![r] = w], UNCHANGED <<published, snaps>>,
           Has(w) \subseteq published,
           \A o \in Ops : (o \in rep[r].log \/ Covered(rep[r], o)) =>
                             (o \in w.log \/ Covered(w, o))
    PROVE  GroupsInv'
<1>1. w \in Vault /\ rep \in [Replica -> Vault]
  BY DEF VaultInv, GroupsInv
<1>2. rep' \in [Replica -> Vault] /\ rep'[r] = w
      /\ \A q \in Replica : q # r => rep'[q] = rep[q]
  BY <1>1
<1>3. \A q \in Replica : VaultInv(rep'[q])
  BY <1>2 DEF GroupsInv
<1>4. \A rec \in snaps' : RecordInv(rec)'
  BY DEF GroupsInv, RecordInv
<1>5. NothingEarly'
  <2>1. \A q \in Replica : Has(rep'[q]) \subseteq published
    BY <1>2 DEF GroupsInv, NothingEarly
  <2> QED
    BY <2>1 DEF GroupsInv, NothingEarly, Has
<1>6. OwnAreKept'
  <2> SUFFICES ASSUME NEW q \in Replica, NEW o \in published, o.dev = q
               PROVE  o \in rep'[q].log \/ Covered(rep'[q], o)
    BY DEF OwnAreKept, Covered
  <2>1. o \in Ops /\ (o \in rep[q].log \/ Covered(rep[q], o))
    BY DEF GroupsInv, NothingEarly, OwnAreKept
  <2> QED
    BY <1>2, <2>1
<1>7. WritersFirst'
  BY DEF GroupsInv, WritersFirst
<1>8. \A q \in Replica : VaultInv(rep[q])'
  BY <1>3 DEF VaultInv, FoldIsKept, RowsArePresent, RowsTellTheFold, WholeOrHeld,
              Has, Whole, Covered
<1> QED
  BY <1>2, <1>4, <1>5, <1>6, <1>7, <1>8 DEF GroupsInv

LEMMA DeliverKeeps ==
    ASSUME GroupsInv, NEW r \in Replica, NEW o \in published, Deliver(r, o)
    PROVE  GroupsInv'
<1>0. PICK v : v = rep[r]
  OBVIOUS
<1>1. VaultInv(v) /\ v \in Vault /\ o \in Ops /\ Has(v) \subseteq published
      /\ rep \in [Replica -> Vault]
  BY <1>0 DEF GroupsInv, VaultInv, NothingEarly
<1>2. PICK T : T = Taken(v, {o})
  OBVIOUS
<1>3. PICK w : w = Absorbed(v, T, T)
  OBVIOUS
<1>4. T \subseteq Ops /\ T \subseteq {o} /\ \A p \in T : p \notin v.log /\ ~Covered(v, p)
  BY <1>1, <1>2 DEF Taken
<1>5. Receive(v, o) = w
  <2>1. Taken(v, {}) = {} /\ {} \cup {o} = {o}
    BY DEF Taken
  <2>2. Receive(Absorbed(v, {}, {}), o) = Absorbed(v, Taken(v, {o}), Taken(v, {o}))
    BY <1>1, <2>1, ReceiveStep
  <2> QED
    BY <1>1, <1>2, <1>3, <2>2, AbsorbedNone
<1>6. VaultInv(w) /\ Has(w) = Has(v) \cup T
  BY <1>1, <1>3, <1>4, AbsorbInv
<1>7. w.log = v.log \cup T /\ w.floor = v.floor
  BY <1>3 DEF Absorbed
<1>8. rep' = [rep EXCEPT ![r] = w]
  BY <1>0, <1>5 DEF Deliver
<1>9. \A p \in Ops : (p \in v.log \/ Covered(v, p)) => (p \in w.log \/ Covered(w, p))
  BY <1>7 DEF Covered
<1>10. Has(w) \subseteq published
  BY <1>1, <1>4, <1>6
<1>11. UNCHANGED <<published, snaps>>
  BY DEF Deliver
<1> QED
  BY <1>0, <1>6, <1>8, <1>9, <1>10, <1>11, OneVault

LEMMA CompactKeeps ==
    ASSUME GroupsInv, NEW r \in Replica, NEW c \in Chain, Compact(r, c)
    PROVE  GroupsInv'
<1>0. PICK v : v = rep[r]
  OBVIOUS
<1>1. VaultInv(v) /\ v \in Vault /\ Has(v) \subseteq published
      /\ rep \in [Replica -> Vault] /\ v.floor \in [Chain -> Nat]
      /\ v.log \subseteq Ops
  BY <1>0, VaultFields DEF GroupsInv, VaultInv, NothingEarly
<1>2. PICK target \in (v.floor[c] + 1)..(Cursor(v, c) - 1) :
        rep' = [rep EXCEPT ![r].floor[c] = target,
                           ![r].log = @ \ Deletable(v, c, target)]
  BY <1>0 DEF Compact
<1>3. v.floor[c] \in Nat /\ target \in Nat /\ v.floor[c] <= target
  BY <1>1, <1>2, CursorIs
<1>4. PICK w : w = rep'[r]
  OBVIOUS
<1>5. PICK gone : gone = Deletable(v, c, target)
  OBVIOUS
<1>6. /\ w = [v EXCEPT !.floor = [v.floor EXCEPT ![c] = target], !.log = @ \ gone]
      /\ rep' = [rep EXCEPT ![r] = w]
  BY <1>0, <1>1, <1>2, <1>4, <1>5
<1>7. CompactedTo(w, v, c, target)
  <2>1. w \in Vault
    BY <1>1, <1>3, <1>6 DEF Vault
  <2> QED
    BY <1>1, <1>3, <1>5, <1>6, <2>1 DEF Vault, CompactedTo
<1>8. /\ VaultInv(w) /\ Has(w) = Has(v)
      /\ \A o \in Ops : (o \in v.log \/ Covered(v, o)) =>
                           (o \in w.log \/ Covered(w, o))
  BY <1>1, <1>7, CompactInv
<1>9. UNCHANGED <<published, snaps>>
  BY DEF Compact
<1> QED
  BY <1>0, <1>1, <1>6, <1>8, <1>9, OneVault

LEMMA PruneKeeps ==
    ASSUME GroupsInv, NEW r \in Replica, NEW o \in Ops, Prune(r, o)
    PROVE  GroupsInv'
<1>0. PICK v : v = rep[r]
  OBVIOUS
<1>1. VaultInv(v) /\ v \in Vault /\ Has(v) \subseteq published
      /\ rep \in [Replica -> Vault]
  BY <1>0 DEF GroupsInv, VaultInv, NothingEarly
<1>2. PICK w : w = [v EXCEPT !.pruned = @ \cup {o}]
  OBVIOUS
<1>3. rep' = [rep EXCEPT ![r] = w]
  BY <1>0, <1>1, <1>2 DEF Prune
<1>4. VaultInv(w) /\ Has(w) = Has(v) /\ w.log = v.log /\ w.floor = v.floor
  BY <1>0, <1>1, <1>2, PruneInv DEF Prune
<1>5. \A p \in Ops : (p \in v.log \/ Covered(v, p)) => (p \in w.log \/ Covered(w, p))
  BY <1>4 DEF Covered
<1>6. UNCHANGED <<published, snaps>>
  BY DEF Prune
<1> QED
  BY <1>0, <1>1, <1>3, <1>4, <1>5, <1>6, OneVault

LEMMA RebuildKeeps ==
    ASSUME GroupsInv, NEW r \in Replica, Rebuild(r)
    PROVE  GroupsInv' /\ rep'[r].folded = rep[r].folded
<1>0. PICK v : v = rep[r]
  OBVIOUS
<1>1. VaultInv(v) /\ v \in Vault /\ Has(v) \subseteq published
      /\ rep \in [Replica -> Vault]
  BY <1>0 DEF GroupsInv, VaultInv, NothingEarly
<1>2. PICK w : w = Rebuilt(v)
  OBVIOUS
<1>3. rep' = [rep EXCEPT ![r] = w]
  BY <1>0, <1>2 DEF Rebuild
<1>4. VaultInv(w) /\ w.folded = v.folded /\ w.log = v.log /\ w.floor = v.floor
  BY <1>1, <1>2, RebuiltInv
<1>5. \A p \in Ops : (p \in v.log \/ Covered(v, p)) => (p \in w.log \/ Covered(w, p))
  BY <1>4 DEF Covered
<1>6. Has(w) \subseteq published
  BY <1>1, <1>4 DEF Has
<1>7. UNCHANGED <<published, snaps>>
  BY DEF Rebuild
<1>8. GroupsInv'
  BY <1>0, <1>3, <1>4, <1>5, <1>6, <1>7, OneVault
<1> QED
  BY <1>0, <1>1, <1>3, <1>4, <1>8

LEMMA ApplySnapshotKeeps ==
    ASSUME GroupsInv, NEW r \in Replica, NEW rec \in snaps, ApplySnapshot(r, rec)
    PROVE  GroupsInv'
<1>0. PICK v : v = rep[r]
  OBVIOUS
<1>1. VaultInv(v) /\ v \in Vault /\ Has(v) \subseteq published
      /\ rep \in [Replica -> Vault] /\ v.floor \in [Chain -> Nat]
  BY <1>0, VaultFields DEF GroupsInv, VaultInv, NothingEarly
<1>2. /\ rec \in Record0 /\ \A o \in rec.state : o.seq <= rec.front[ChainOf(o)]
      /\ rec.state \cup rec.retained \subseteq published
  BY DEF GroupsInv, RecordInv
<1>3. PICK w : w = JoinSnapshot(v, rec)
  OBVIOUS
<1>4. rep' = [rep EXCEPT ![r] = w]
  BY <1>0, <1>3 DEF ApplySnapshot
<1>5. /\ VaultInv(w) /\ Has(w) \subseteq Has(v) \cup rec.state \cup rec.retained
      /\ v.log \subseteq w.log /\ \A c \in Chain : v.floor[c] <= w.floor[c]
  BY <1>1, <1>2, <1>3, JoinInv
<1>6. ASSUME NEW p \in Ops, p \in v.log \/ Covered(v, p)
      PROVE  p \in w.log \/ Covered(w, p)
  <2>1. w.floor \in [Chain -> Nat]
    BY <1>5, VaultFields DEF VaultInv
  <2>2. /\ ChainOf(p) \in Chain /\ p.seq \in Nat /\ v.floor[ChainOf(p)] \in Nat
        /\ w.floor[ChainOf(p)] \in Nat /\ v.floor[ChainOf(p)] <= w.floor[ChainOf(p)]
    BY <1>1, <1>5, <2>1, OpFacts
  <2>3. p.seq <= v.floor[ChainOf(p)] => p.seq <= w.floor[ChainOf(p)]
    BY <2>2
  <2> QED
    BY <1>5, <1>6, <2>3 DEF Covered
<1>7. Has(w) \subseteq published
  BY <1>1, <1>2, <1>5
<1>8. UNCHANGED <<published, snaps>>
  BY DEF ApplySnapshot
<1> QED
  BY <1>0, <1>4, <1>5, <1>6, <1>7, <1>8, OneVault

\* A group this device has not written yet is present nowhere.
LEMMA WriteKeeps ==
    ASSUME GroupsInv, NEW r \in Replica, NEW n, Write(r, n)
    PROVE  GroupsInv'
<1>0. PICK v : v = rep[r]
  OBVIOUS
<1>1. PICK B : B = Batch(r, n)
  OBVIOUS
<1>2. /\ VaultInv(v) /\ v \in Vault /\ Has(v) \subseteq published
      /\ rep \in [Replica -> Vault] /\ B \in SUBSET Ops /\ published \subseteq Ops
  BY <1>0, <1>1 DEF GroupsInv, VaultInv, NothingEarly, Batch
<1>3. \A o \in B : o \notin v.log /\ ~Covered(v, o) /\ o.dev = r
  BY <1>0, <1>1 DEF Write, Batch
<1>4. \A o \in B : o \notin published
  BY <1>0, <1>3 DEF GroupsInv, OwnAreKept
<1>5. ASSUME NEW o \in B, Grouped(o), NEW p \in Members(o.group)
      PROVE  p \notin published /\ (p.dev \in Replica => p \in B)
  <2>0. o \in Ops /\ o.dev = r /\ o.batch = n /\ o \in Members(o.group)
    BY <1>1, <1>2, <1>5, OpFacts DEF Batch
  <2>1. p.dev \in Replica => p \in B
    BY <1>1, <1>5, <2>0, GroupAssumption DEF Grouped
  <2>2. CASE p.dev \in Replica
    BY <1>4, <2>1, <2>2
  <2>3. CASE p.dev \notin Replica
    <3>1. p.group = o.group /\ Grouped(p)
      BY <1>5, OpFacts DEF Grouped
    <3>2. p \in published => o \in published
      BY <2>0, <2>3, <3>1 DEF GroupsInv, WritersFirst
    <3> QED
      BY <1>4, <2>1, <3>2
  <2> QED
    BY <2>1, <2>2, <2>3
<1>6. \A o \in B : Grouped(o) =>
         /\ Members(o.group) \cap Has(v) = {}
         /\ Cardinality(Members(o.group) \cap B) >= SizeOf[o.group]
  <2> SUFFICES ASSUME NEW o \in B, Grouped(o)
               PROVE  /\ Members(o.group) \cap Has(v) = {}
                      /\ Cardinality(Members(o.group) \cap B) >= SizeOf[o.group]
    OBVIOUS
  <2>1. Members(o.group) \cap Has(v) = {}
    BY <1>2, <1>5
  <2>2. o \in Ops /\ o.dev = r /\ o.batch = n /\ SizeOf[o.group] \in Nat
    BY <1>1, <1>2, OpFacts DEF Batch
  <2>3. SizeOf[o.group] = Cardinality(Members(o.group) \cap B)
    BY <1>1, <2>2, GroupAssumption DEF Grouped
  <2> QED
    BY <2>1, <2>2, <2>3
<1>7. PICK x : x = [v EXCEPT !.log = @ \cup B]
  OBVIOUS
<1>8. LoggedTo(x, v, B)
  <2>1. x \in Vault
    BY <1>2, <1>7 DEF Vault
  <2> QED
    BY <1>2, <1>7, <2>1 DEF Vault, LoggedTo
<1>9. PICK w : w = JoinState(x, B, B)
  OBVIOUS
<1>10. VaultInv(w) /\ Has(w) = Has(v) \cup B /\ w.log = v.log \cup B
       /\ w.floor = v.floor
  <2>1. \A o \in B : o \notin v.log /\ ~Covered(v, o)
    BY <1>3
  <2>2. NewTo(v, B)
    BY <1>2, <1>6, <2>1 DEF NewTo
  <2> QED
    BY <1>2, <1>8, <1>9, <2>2, WriteInv
<1>11. /\ rep' = [rep EXCEPT ![r] = w]
       /\ published' = published \cup B /\ snaps' = snaps
  BY <1>0, <1>1, <1>7, <1>9 DEF Write
<1>12. /\ rep' \in [Replica -> Vault] /\ rep'[r] = w
       /\ \A q \in Replica : q # r => rep'[q] = rep[q]
  BY <1>2, <1>10, <1>11 DEF VaultInv
<1>13. \A q \in Replica : VaultInv(rep'[q])
  BY <1>10, <1>12 DEF GroupsInv
<1>14. \A rec \in snaps' : RecordInv(rec)'
  BY <1>11 DEF GroupsInv, RecordInv
<1>15. NothingEarly'
  <2>1. \A q \in Replica : Has(rep'[q]) \subseteq published'
    BY <1>2, <1>10, <1>11, <1>12 DEF GroupsInv, NothingEarly
  <2> QED
    BY <1>2, <1>11, <2>1 DEF NothingEarly, Has
<1>16. OwnAreKept'
  <2> SUFFICES ASSUME NEW q \in Replica, NEW o \in published', o.dev = q
               PROVE  o \in rep'[q].log \/ Covered(rep'[q], o)
    BY DEF OwnAreKept, Covered
  <2>1. CASE o \in B
    BY <1>3, <1>10, <1>12, <2>1
  <2>2. CASE o \notin B
    <3>1. o \in rep[q].log \/ Covered(rep[q], o)
      BY <1>11, <2>2 DEF GroupsInv, OwnAreKept
    <3>2. CASE q = r
      BY <1>0, <1>10, <1>12, <3>1, <3>2 DEF Covered
    <3>3. CASE q # r
      BY <1>12, <3>1, <3>3
    <3> QED
      BY <3>2, <3>3
  <2> QED
    BY <2>1, <2>2
<1>17. WritersFirst'
  BY <1>3, <1>11 DEF GroupsInv, WritersFirst
<1>18. \A q \in Replica : VaultInv(rep[q])'
  BY <1>13 DEF VaultInv, FoldIsKept, RowsArePresent, RowsTellTheFold, WholeOrHeld,
               Has, Whole, Covered
<1> QED
  BY <1>12, <1>14, <1>15, <1>16, <1>17, <1>18 DEF GroupsInv

LEMMA WriteSnapshotKeeps ==
    ASSUME GroupsInv, NEW r \in Replica, NEW s \in {o.stream : o \in Ops},
           WriteSnapshot(r, s)
    PROVE  GroupsInv'
<1>0. PICK v : v = rep[r]
  OBVIOUS
<1>1. /\ VaultInv(v) /\ v \in Vault /\ Has(v) \subseteq published
      /\ v.floor \in [Chain -> Nat] /\ v.log \subseteq Ops /\ v.folded \subseteq Ops
  BY <1>0, VaultFields DEF GroupsInv, VaultInv, NothingEarly
<1>2. PICK front : front = [c \in Chain |-> IF c[1] = s THEN Cursor(v, c) ELSE 0]
  OBVIOUS
<1>3. PICK state : state = OfStream(v.folded, s)
  OBVIOUS
<1>4. PICK kept : kept = {o \in OfStream(v.log, s) : v.row[o] = "held"}
  OBVIOUS
<1>5. PICK rec : rec = [stream |-> s, front |-> front, state |-> state,
                        retained |-> kept]
  OBVIOUS
<1>6. /\ snaps' = snaps \cup {rec} /\ UNCHANGED <<rep, published>>
      /\ \A o \in OfStream(v.log, s) : o.seq <= Cursor(v, ChainOf(o))
  BY <1>0, <1>2, <1>3, <1>4, <1>5 DEF WriteSnapshot
<1>7. front \in [Chain -> Nat]
  BY <1>1, <1>2, CursorIs
<1>8. \A o \in state : o.seq <= front[ChainOf(o)]
  <2> SUFFICES ASSUME NEW o \in state PROVE o.seq <= front[ChainOf(o)]
    OBVIOUS
  <2>1. o \in v.folded /\ o.stream = s /\ o \in Ops
    BY <1>1, <1>3 DEF OfStream
  <2>2. ChainOf(o) \in Chain /\ o.seq \in Nat /\ ChainOf(o)[1] = s
    BY <2>1, OpFacts DEF ChainOf
  <2>3. front[ChainOf(o)] = Cursor(v, ChainOf(o))
    BY <1>2, <2>2
  <2>4. /\ Cursor(v, ChainOf(o)) \in Nat /\ v.floor[ChainOf(o)] \in Nat
        /\ v.floor[ChainOf(o)] <= Cursor(v, ChainOf(o))
    BY <1>1, <2>2, CursorIs
  <2>5. o \in v.log \/ Covered(v, o)
    BY <1>1, <2>1 DEF VaultInv, FoldIsKept
  <2>6. CASE o \in v.log
    BY <1>6, <2>1, <2>3, <2>6 DEF OfStream
  <2>7. CASE Covered(v, o)
    <3>1. o.seq <= v.floor[ChainOf(o)]
      BY <2>7 DEF Covered
    <3> QED
      BY <2>2, <2>3, <2>4, <3>1
  <2> QED
    BY <2>5, <2>6, <2>7
<1>9. state \subseteq v.folded /\ kept \subseteq v.log
  BY <1>3, <1>4 DEF OfStream
<1>10. RecordInv(rec)
  <2>1. rec \in Record0
    BY <1>1, <1>5, <1>7, <1>9 DEF Record0
  <2>2. rec.state = state /\ rec.front = front /\ rec.retained = kept
    BY <1>5
  <2>3. state \cup kept \subseteq published
    BY <1>1, <1>9 DEF Has
  <2> QED
    BY <1>8, <2>1, <2>2, <2>3 DEF RecordInv
<1>11. \A x \in snaps' : RecordInv(x)'
  <2>1. \A x \in snaps' : RecordInv(x)
    BY <1>6, <1>10 DEF GroupsInv
  <2> QED
    BY <1>6, <2>1 DEF RecordInv
<1>12. /\ NothingEarly' /\ OwnAreKept' /\ WritersFirst'
       /\ (rep \in [Replica -> Vault])'
  BY <1>6 DEF GroupsInv, NothingEarly, OwnAreKept, WritersFirst, Has, Covered
<1>13. \A q \in Replica : VaultInv(rep[q])'
  <2>1. \A q \in Replica : VaultInv(rep[q])
    BY DEF GroupsInv
  <2> QED
    BY <1>6, <2>1 DEF VaultInv, FoldIsKept, RowsArePresent, RowsTellTheFold,
                      WholeOrHeld, Has, Whole, Covered
<1> QED
  BY <1>11, <1>12, <1>13 DEF GroupsInv

LEMMA ForeignKeeps ==
    ASSUME GroupsInv, NEW o \in Ops, Foreign(o)
    PROVE  GroupsInv'
<1>1. /\ UNCHANGED <<rep, snaps>> /\ published' = published \cup {o}
      /\ o.dev \notin Replica
      /\ Grouped(o) =>
           \A p \in Members(o.group) : p.dev \in Replica => p \in published
  BY DEF Foreign, Grouped
<1>2. \A x \in snaps' : RecordInv(x)'
  BY <1>1 DEF GroupsInv, RecordInv
<1>3. NothingEarly'
  BY <1>1 DEF GroupsInv, NothingEarly, Has
<1>4. OwnAreKept'
  <2> SUFFICES ASSUME NEW q \in Replica, NEW p \in published', p.dev = q
               PROVE  p \in rep[q].log \/ Covered(rep[q], p)
    BY <1>1 DEF OwnAreKept, Covered
  <2>1. p \in published
    BY <1>1
  <2> QED
    BY <2>1 DEF GroupsInv, OwnAreKept
<1>5. WritersFirst'
  BY <1>1 DEF GroupsInv, WritersFirst
<1>6. \A q \in Replica : VaultInv(rep[q])'
  <2>1. \A q \in Replica : VaultInv(rep[q])
    BY DEF GroupsInv
  <2> QED
    BY <1>1, <2>1 DEF VaultInv, FoldIsKept, RowsArePresent, RowsTellTheFold,
                      WholeOrHeld, Has, Whole, Covered
<1> QED
  BY <1>1, <1>2, <1>3, <1>4, <1>5, <1>6 DEF GroupsInv

LEMMA NextKeepsGroups == GroupsInv /\ [Next]_vars => GroupsInv'
<1> SUFFICES ASSUME GroupsInv, [Next]_vars PROVE GroupsInv'
  OBVIOUS
<1>1. CASE UNCHANGED vars
  <2>1. \A q \in Replica : VaultInv(rep[q])
    BY DEF GroupsInv
  <2>2. \A q \in Replica : VaultInv(rep[q])'
    BY <1>1, <2>1 DEF vars, VaultInv, FoldIsKept, RowsArePresent, RowsTellTheFold,
                      WholeOrHeld, Has, Whole, Covered
  <2> QED
    BY <1>1, <2>2 DEF vars, GroupsInv, RecordInv, NothingEarly, OwnAreKept,
                      WritersFirst, Has, Covered
<1>2. ASSUME NEW o \in Ops, Foreign(o) PROVE GroupsInv'
  BY <1>2, ForeignKeeps
<1>3. ASSUME NEW r \in Replica, NEW n \in {o.batch : o \in Ops}, Write(r, n)
      PROVE  GroupsInv'
  BY <1>3, WriteKeeps
<1>4. ASSUME NEW r \in Replica, NEW o \in published, Deliver(r, o) PROVE GroupsInv'
  BY <1>4, DeliverKeeps
<1>5. ASSUME NEW r \in Replica, NEW c \in Chain, Compact(r, c) PROVE GroupsInv'
  BY <1>5, CompactKeeps
<1>6. ASSUME NEW r \in Replica, NEW o \in Ops, Prune(r, o) PROVE GroupsInv'
  BY <1>6, PruneKeeps
<1>7. ASSUME NEW r \in Replica, NEW s \in {o.stream : o \in Ops}, WriteSnapshot(r, s)
      PROVE  GroupsInv'
  BY <1>7, WriteSnapshotKeeps
<1>8. ASSUME NEW r \in Replica, NEW rec \in snaps, ApplySnapshot(r, rec)
      PROVE  GroupsInv'
  BY <1>8, ApplySnapshotKeeps
<1>9. ASSUME NEW r \in Replica, Rebuild(r) PROVE GroupsInv'
  BY <1>9, RebuildKeeps
<1> QED
  BY <1>1, <1>2, <1>3, <1>4, <1>5, <1>6, <1>7, <1>8, <1>9 DEF Next

LEMMA AlwaysGroups == Spec => []GroupsInv
  BY InitGroups, NextKeepsGroups, PTL DEF Spec

(***************************************************************************)
(* groups.rs, D8: at every replica, in every behaviour, what is folded is  *)
(* one function of the ops present, up to what a snapshot brought folded.  *)
(***************************************************************************)
THEOREM ShownIsAFunction == Spec => []FunctionOfOpsPresent
<1>1. GroupsInv => FunctionOfOpsPresent
  <2> SUFFICES ASSUME GroupsInv, NEW r \in Replica
               PROVE  /\ MayShow(rep[r]) \subseteq rep[r].folded
                      /\ rep[r].folded \ rep[r].joined \subseteq MayShow(rep[r])
    BY DEF FunctionOfOpsPresent
  <2>0. PICK v : v = rep[r]
    OBVIOUS
  <2>1. /\ v \in Vault /\ FoldIsKept(v) /\ RowsArePresent(v)
        /\ RowsTellTheFold(v) /\ WholeOrHeld(v)
        /\ v.log \subseteq Ops /\ v.folded \subseteq Ops /\ v.joined \subseteq Ops
        /\ v.row \in [Ops -> {"none", "held", "applied"}]
    BY <2>0, VaultFields DEF GroupsInv, VaultInv
  <2>2. OpsPresent(v) = Has(v)
    BY <2>1 DEF OpsPresent, Has, CompactedBase, FoldIsKept
  <2>3. \A o : o \in MayShow(v)
                 <=> o \in Has(v) /\ (Grouped(o) => Whole(v, o.group))
    BY <2>2 DEF MayShow, Grouped, Whole
  <2>4. ASSUME NEW o \in v.folded, o \notin v.joined PROVE o \in MayShow(v)
    BY <2>1, <2>3, <2>4 DEF Has, WholeOrHeld
  <2>5. ASSUME NEW o \in MayShow(v) PROVE o \in v.folded
    <3>1. CASE ~Grouped(o)
      BY <2>1, <2>3, <3>1 DEF Has, FoldIsKept
    <3>2. CASE Grouped(o)
      <4>1. o \in Ops /\ o \in Has(v) /\ Whole(v, o.group)
        BY <2>1, <2>3, <3>2 DEF Has
      <4>2. v.row[o] # "none" /\ v.row[o] # "held"
        BY <2>1, <3>2, <4>1 DEF RowsArePresent, WholeOrHeld
      <4>3. v.row[o] = "applied"
        BY <2>1, <4>1, <4>2
      <4> QED
        BY <2>1, <4>1, <4>3 DEF RowsTellTheFold
    <3> QED
      BY <3>1, <3>2
  <2> QED
    BY <2>0, <2>4, <2>5
<1> QED
  BY <1>1, AlwaysGroups, PTL

(***************************************************************************)
(* groups.rs, try_complete: every held member can be opened from the log,  *)
(* whatever compaction, snapshot joins and rebuilds did, and has not been  *)
(* folded before except by a snapshot.                                     *)
(***************************************************************************)
THEOREM HeldStaysLogged == Spec => []HeldIsLogged
<1>1. GroupsInv => HeldIsLogged
  BY DEF GroupsInv, VaultInv, RowsTellTheFold, HeldIsLogged
<1> QED
  BY <1>1, AlwaysGroups, PTL

(***************************************************************************)
(* rebuild.rs: no rebuild changes what the projection shows, whichever of  *)
(* a group's members were compacted, pruned or joined.                     *)
(***************************************************************************)
THEOREM RebuildChangesNothing == Spec => RebuildIdentity
<1>1. GroupsInv /\ [Next]_vars =>
        [\A r \in Replica : Rebuild(r) => rep'[r].folded = rep[r].folded]_vars
  BY RebuildKeeps
<1> QED
  BY <1>1, AlwaysGroups, PTL DEF Spec, RebuildIdentity
=============================================================================
