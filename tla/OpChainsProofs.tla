--------------------------- MODULE OpChainsProofs ---------------------------
(***************************************************************************)
(* Proofs about OpChains: what a vault says of forks is true, and what it  *)
(* could see of a fork it noticed, for every set of vaults and devices,    *)
(* every bound and every order of deliveries, compactions and joins.       *)
(*                                                                         *)
(* The inductive invariant ChainsInv has three parts.                      *)
(*                                                                         *)
(*  - BaseInv, of each vault by itself: every hash and every root it holds *)
(*    was signed by its device (Sound); the roots end exactly at the       *)
(*    prefix and every claim lies above it (Kept); no floor has passed its *)
(*    prefix (Low).  From Kept and Low it follows that a fold finds        *)
(*    nothing to do anywhere but in upsert_sync_cursor (FoldIdle), and     *)
(*    that the end of a prefix is always known.                            *)
(*                                                                         *)
(*  - Counted, OnePer, Reported and Acked relate the vaults to the ops     *)
(*    published: a vault still has what it signed, so it signs no seq      *)
(*    twice, and no acknowledgement exceeds what its sender's vault holds. *)
(*                                                                         *)
(*  - Linked and Noticed, of what a vault was told: a link whose two ends  *)
(*    are held agrees or has a fork row, and one whose end is missing is   *)
(*    expected (LinkOK); a digest was answered by a divergence row, by a   *)
(*    claim that still waits, or by a digest of the same peer that agreed  *)
(*    or can no longer be compared (Answered).                             *)
(*                                                                         *)
(* The lemmas take the functions of chain.rs one by one, with a vault s    *)
(* before and a vault t after.  Grown, Steady and Judged say what each of  *)
(* them keeps, and compose; VaultStep states what an action does to one    *)
(* vault and to the ops, and StepIs that such a step keeps the invariant.  *)
(***************************************************************************)
EXTENDS OpChains, TLAPS, SequenceTheorems, WellFoundedInduction

-----------------------------------------------------------------------------
(* The invariant.  W is the set of the ops published. *)

\* The replicas that signed an op at (d, n).
Signed(W, d, n) == {o.by : o \in {p \in W : p.dev = d /\ p.seq = n}}

\* A chain root of device d: signed, at each seq, by a replica that did.
ChainOK(W, d, root) ==
    /\ root \in Seq(Replica) /\ Len(root) <= MaxSeq[d]
    /\ \A i \in 1..Len(root) : root[i] \in Signed(W, d, i)

\* The tables of a vault.
Vault == [rows   : [Pos -> [by : Replica \cup {None}, root : Seq(Replica)]],
          floor  : [Dev -> Seq(Replica)],
          cursor : [Dev -> Nat],
          expect : SUBSET [dev : Dev, seq : Nat, by : Replica, namer : Pos],
          forks  : SUBSET [dev : Dev, seq : Nat, kind : {"seq", "link", "head"},
                           held : Replica, other : Replica],
          claims : SUBSET [dev : Dev, peer : Dev, root : Seq(Replica)],
          div    : SUBSET [dev : Dev, peer : Dev, seq : Nat],
          acks   : [Dev -> [Dev -> Nat]],
          sent   : [Dev -> Nat]]

\* A row has a signed hash, and its root, if it has one, ends in it.
RowsOK(W, s) ==
    \A p \in Pos :
        /\ s.rows[p].by # None => s.rows[p].by \in Signed(W, p[1], p[2])
        /\ s.rows[p].root # <<>> =>
             /\ s.rows[p].by # None
             /\ Len(s.rows[p].root) = p[2] /\ Last(s.rows[p].root) = s.rows[p].by
             /\ ChainOK(W, p[1], s.rows[p].root)

\* Floors and claims are chains; expectations, forks and divergences are true.
FloorOK(W, s) == \A d \in Dev : ChainOK(W, d, s.floor[d])

ClaimsOK(W, s) == \A c \in s.claims : c.root # <<>> /\ ChainOK(W, c.dev, c.root)

ExpectOK(W, s) == \A x \in s.expect : x.by \in Signed(W, x.dev, x.seq)

ForksOK(W, s) ==
    \A x \in s.forks : /\ x.held # x.other
                       /\ {x.held, x.other} \subseteq Signed(W, x.dev, x.seq)

DivOK(W, s) ==
    \A x \in s.div : \E n \in 1..x.seq : \E a, b \in Signed(W, x.dev, n) : a # b

Sound(W, s) ==
    /\ s \in Vault
    /\ RowsOK(W, s) /\ FloorOK(W, s) /\ ClaimsOK(W, s)
    /\ ExpectOK(W, s) /\ ForksOK(W, s) /\ DivOK(W, s)

\* Roots end at the prefix, and claims are above it.
Kept(s) ==
    /\ \A d \in Dev : s.cursor[d] <= MaxSeq[d]
    /\ \A p \in Pos :
         /\ (Len(s.floor[p[1]]) < p[2] /\ p[2] <= s.cursor[p[1]])
              => s.rows[p].root # <<>>
         /\ (Len(s.floor[p[1]]) < p[2] /\ s.cursor[p[1]] < p[2])
              => s.rows[p].root = <<>>
    /\ \A c \in s.claims : /\ s.cursor[c.dev] < Len(c.root)
                           /\ Len(s.floor[c.dev]) < Len(c.root)

Low(s) == \A d \in Dev : Len(s.floor[d]) <= s.cursor[d]

\* Digests, records and ops state chains and signed hashes.
FrontOK(W, f) == f \in [Dev -> Seq(Replica)] /\ \A d \in Dev : ChainOK(W, d, f[d])

OpOK(W, o) ==
    /\ o.dev \in Dev /\ o.seq \in 1..MaxSeq[o.dev]
    /\ o.by \in Replica /\ DevOf[o.by] = o.dev
    /\ o.prev # None => o.seq > 1 /\ o.prev \in Signed(W, o.dev, o.seq - 1)
    /\ \A h \in o.heads : /\ h.dev \in Dev /\ h.seq \in 1..MaxSeq[h.dev]
                          /\ h.by \in Signed(W, h.dev, h.seq)
    /\ o.front # <<>> => o.front = <<o.front[1]>> /\ FrontOK(W, o.front[1])

WireOK(W) == \A o \in W : OpOK(W, o)

BaseInv ==
    /\ WireOK(wire)
    /\ \A f \in snaps : FrontOK(wire, f)
    /\ rep = [r \in Replica |-> rep[r]]
    /\ \A r \in Replica : Sound(wire, rep[r]) /\ Kept(rep[r]) /\ Low(rep[r])

\* A position that is held or covered.
Taken(s, d, n) == Holds(s, d, n) \/ n <= Len(s.floor[d])

Counted == \A o \in wire : Taken(rep[o.by], o.dev, o.seq)

OnePer == \A o, p \in wire : (o.dev = p.dev /\ o.seq = p.seq /\ o.by = p.by) => o = p

\* The prefixes a digest states are held where it was signed.
Reported ==
    \A o \in wire : o.front # <<>> =>
        \A d \in Dev : Len(o.front[1][d]) <= rep[o.by].cursor[d]

Acked ==
    \A r \in Replica, k \in Dev, d \in Dev :
        \E q \in Replica : DevOf[q] = k /\ rep[r].acks[k][d] <= rep[q].cursor[d]

\* The predecessor op o names is held and equal, forked, covered or expected.
LinkOK(s, o) ==
    LET m == o.seq - 1
    IN  IF Holds(s, o.dev, m)
        THEN \/ s.rows[<<o.dev, m>>].by = o.prev
             \/ \E x \in s.forks : x.dev = o.dev /\ x.seq = m
        ELSE \/ m <= Len(s.floor[o.dev])
             \/ \E x \in s.expect : /\ x.dev = o.dev /\ x.seq = m /\ x.by = o.prev
                                    /\ x.namer = <<o.dev, o.seq>>

Linked ==
    \A r \in Replica, o \in wire :
        (/\ o.dev # DevOf[r] /\ o.prev # None
         /\ Holds(rep[r], o.dev, o.seq) /\ rep[r].rows[<<o.dev, o.seq>>].by = o.by)
        => LinkOK(rep[r], o)

\* A digest of the peer, reached here, with this root for d.
Stated(W, s, peer, d, root) ==
    \E o \in W : /\ o.dev = peer /\ o.front # <<>> /\ Taken(s, peer, o.seq)
                 /\ o.front[1][d] = root

\* The prefix or the floor has come to n.
Reached(s, d, n) == n <= s.cursor[d] \/ n <= Len(s.floor[d])

ClaimsTold(W, s) == \A c \in s.claims : Stated(W, s, c.peer, c.dev, c.root)

\* What the peer stated of d has a row, waits, or agreed once it could.
Answered(W, s, peer, d) ==
    \/ \E x \in s.div : x.dev = d /\ x.peer = peer
    \/ \E c \in s.claims : c.dev = d /\ c.peer = peer
    \/ \E root \in Seq(Replica) : /\ Stated(W, s, peer, d, root) /\ root # <<>>
                     /\ Reached(s, d, Len(root)) /\ ~Differs(s, d, root)

Noticed ==
    \A r \in Replica : \A peer \in Dev \ {DevOf[r]}, d \in Dev :
        (\E o \in wire : /\ o.dev = peer /\ o.front # <<>> /\ o.front[1][d] # <<>>
                         /\ Holds(rep[r], peer, o.seq)
                         /\ rep[r].rows[<<peer, o.seq>>].by = o.by)
        => Answered(wire, rep[r], peer, d)

ChainsInv ==
    /\ BaseInv /\ Counted /\ OnePer /\ Reported /\ Acked /\ Linked /\ Noticed
    /\ \A r \in Replica : ClaimsTold(wire, rep[r])

-----------------------------------------------------------------------------
(* The greatest element of a bounded set of naturals. *)

\* It is one of them, and none is greater.
LEMMA MaxOfBounded ==
    ASSUME NEW N \in Nat, NEW S, S \subseteq 0..N, S # {}
    PROVE  Max(S) \in S /\ \A y \in S : y <= Max(S)
<1> DEFINE T == {n \in 0..N : N - n \in S}
<1>1. T \subseteq Nat /\ T # {}
  <2>1. PICK x \in S : TRUE
    OBVIOUS
  <2>2. x \in 0..N /\ N - x \in 0..N /\ N - (N - x) = x
    BY <2>1
  <2>3. N - x \in T
    BY <2>1, <2>2
  <2>4. T \subseteq Nat
    OBVIOUS
  <2>5. T # {}
    <3> HIDE DEF T
    <3> QED
      BY <2>3
  <2> QED
    BY <2>4, <2>5
<1>2. PICK t \in T : \A u \in T : ~(<<u, t>> \in OpToRel(<, Nat))
  <2> HIDE DEF T
  <2> QED
    BY <1>1, NatLessThanWellFounded, WFMin, Zenon
<1>3. \A u \in T : t <= u
  <2> HIDE DEF T
  <2>1. \A u \in T : ~(u < t)
    BY <1>1, <1>2, Zenon DEF OpToRel
  <2>2. t \in Nat /\ \A u \in T : u \in Nat
    BY <1>1, <1>2, Zenon
  <2> QED
    BY <2>1, <2>2
<1>4. N - t \in S /\ N - t \in 0..N
  BY <1>2
<1>5. \A y \in S : y <= N - t
  <2>1. SUFFICES ASSUME NEW y \in S PROVE y <= N - t
    OBVIOUS
  <2>2. y \in 0..N /\ N - y \in 0..N /\ N - (N - y) = y
    OBVIOUS
  <2>3. N - y \in T
    BY <2>2
  <2>4. t \in 0..N /\ t <= N - y
    <3>1. t \in 0..N
      BY <1>2
    <3> HIDE DEF T
    <3> QED
      BY <1>3, <2>3, <3>1
  <2> QED
    BY <2>2, <2>4
<1> HIDE DEF T
<1>6. \E x \in S : \A y \in S : x >= y
  <2>1. \A y \in S : N - t >= y
    BY <1>4, <1>5
  <2> QED
    BY <1>4, <2>1
<1>7. Max(S) \in S /\ \A y \in S : Max(S) >= y
  BY <1>6 DEF Max
<1> QED
  BY <1>7

\* The least element of a set of naturals.
LEMMA MinOfNaturals ==
    ASSUME NEW S, S \subseteq Nat, S # {}
    PROVE  Min(S) \in S /\ \A y \in S : Min(S) <= y
<1>1. PICK t \in S : \A u \in S : ~(<<u, t>> \in OpToRel(<, Nat))
  BY NatLessThanWellFounded, WFMin, Zenon
<1>2. \A u \in S : ~(u < t)
  BY <1>1, Zenon DEF OpToRel
<1>3. \A u \in S : t <= u
  BY <1>2
<1>4. \E x \in S : \A y \in S : x =< y
  BY <1>3
<1> QED
  BY <1>4 DEF Min

\* Max of a bounded set, when it is known.
LEMMA MaxIs ==
    ASSUME NEW N \in Nat, NEW S, S \subseteq 0..N, NEW x \in S, \A y \in S : y <= x
    PROVE  Max(S) = x
<1>1. Max(S) \in S /\ \A y \in S : y <= Max(S)
  BY MaxOfBounded
<1>2. x \in 0..N /\ Max(S) \in 0..N /\ x <= Max(S) /\ Max(S) <= x
  BY <1>1
<1> QED
  BY <1>2

-----------------------------------------------------------------------------
(* Positions. *)

\* A position is a device and a seq it may sign.
LEMMA PosIs ==
    /\ \A d, n : <<d, n>> \in Pos <=> d \in Dev /\ n \in 1..MaxSeq[d]
    /\ \A p \in Pos : p = <<p[1], p[2]>> /\ p[1] \in Dev /\ p[2] \in 1..MaxSeq[p[1]]
  BY DEF Pos

\* Every device has at least one position.
LEMMA Bounds == \A d \in Dev : MaxSeq[d] \in Nat /\ MaxSeq[d] > 0
  BY ReplicaAssumption

-----------------------------------------------------------------------------
(* What a vault reads: hashes and roots. *)

\* The root of a chain that is one, at its end.
LEMMA EndIsSigned ==
    ASSUME NEW W, NEW d \in Dev, NEW root, ChainOK(W, d, root), root # <<>>
    PROVE  /\ Len(root) \in 1..MaxSeq[d] /\ Last(root) \in Replica
           /\ Last(root) \in Signed(W, d, Len(root))
<1>1. root \in Seq(Replica) /\ Len(root) \in Nat /\ Len(root) # 0
  BY EmptySeq DEF ChainOK
<1>2. Len(root) \in 1..Len(root)
  BY <1>1
<1> QED
  BY <1>1, <1>2, Bounds DEF ChainOK, Last

\* The hash a vault holds at a position is of an op signed there.
LEMMA HeldHashIs ==
    ASSUME NEW W, NEW s, Sound(W, s), NEW d \in Dev, NEW n \in Nat,
           HeldHash(s, d, n) # None
    PROVE  /\ n \in 1..MaxSeq[d] /\ HeldHash(s, d, n) \in Replica
           /\ HeldHash(s, d, n) \in Signed(W, d, n)
<1>1. CASE Holds(s, d, n)
  <2>1. <<d, n>> \in Pos /\ n \in 1..MaxSeq[d]
    BY <1>1, PosIs DEF Holds
  <2>2. s.rows[<<d, n>>].by \in Signed(W, d, n) /\ s.rows[<<d, n>>].by \in Replica \cup {None}
    BY <1>1, <2>1 DEF Sound, RowsOK, Holds, Vault
  <2> QED
    BY <1>1, <2>1, <2>2 DEF HeldHash, Holds
<1>2. CASE ~Holds(s, d, n)
  <2>1. n > 0 /\ Len(s.floor[d]) = n /\ HeldHash(s, d, n) = Last(s.floor[d])
    BY <1>2 DEF HeldHash
  <2>2. s.floor[d] # <<>> /\ ChainOK(W, d, s.floor[d])
    BY <2>1 DEF Sound, FloorOK
  <2> QED
    BY <2>1, <2>2, EndIsSigned
<1> QED
  BY <1>1, <1>2

\* A root is a chain, of the length asked for or empty.
LEMMA RootIs ==
    ASSUME NEW W, NEW s, Sound(W, s), NEW d \in Dev, NEW n \in Nat
    PROVE  /\ ChainOK(W, d, RootAt(s, d, n)) /\ RootAt(s, d, n) \in Seq(Replica)
           /\ Len(RootAt(s, d, n)) \in {0, n}
<1>0. ChainOK(W, d, <<>>) /\ Len(<<>>) = 0 /\ <<>> \in Seq(Replica)
  BY Bounds DEF ChainOK
<1>1. CASE Holds(s, d, n) /\ s.rows[<<d, n>>].root # <<>>
  BY <1>1, PosIs DEF Sound, RowsOK, RootAt, Holds, ChainOK
<1>2. CASE ~(Holds(s, d, n) /\ s.rows[<<d, n>>].root # <<>>) /\ Len(s.floor[d]) = n
  BY <1>2 DEF Sound, FloorOK, RootAt, ChainOK
<1>3. CASE ~(Holds(s, d, n) /\ s.rows[<<d, n>>].root # <<>>) /\ Len(s.floor[d]) # n
  BY <1>0, <1>3 DEF RootAt
<1> QED
  BY <1>1, <1>2, <1>3

\* A row within the prefix and above the floor is held and has its root.
LEMMA PrefixIsRooted ==
    ASSUME NEW W, NEW s, Sound(W, s), Kept(s), NEW d \in Dev, NEW n \in Nat,
           Len(s.floor[d]) < n, n <= s.cursor[d]
    PROVE  /\ <<d, n>> \in Pos /\ Holds(s, d, n) /\ s.rows[<<d, n>>].root # <<>>
           /\ RootAt(s, d, n) = s.rows[<<d, n>>].root /\ HasRoot(s, d, n)
           /\ HeldHash(s, d, n) = s.rows[<<d, n>>].by
<1>1. n \in 1..MaxSeq[d]
  <2>1. Len(s.floor[d]) \in Nat /\ s.cursor[d] <= MaxSeq[d] /\ s.cursor[d] \in Nat
    BY DEF Sound, Vault, Kept
  <2> QED
    BY <2>1, Bounds
<1>2. <<d, n>> \in Pos
  BY <1>1, PosIs
<1>3. s.rows[<<d, n>>].root # <<>>
  BY <1>2 DEF Kept
<1>4. s.rows[<<d, n>>].by # None /\ Len(s.rows[<<d, n>>].root) = n
  BY <1>2, <1>3 DEF Sound, RowsOK
<1> QED
  BY <1>2, <1>3, <1>4 DEF Holds, RootAt, HasRoot, HeldHash

\* A root that is held, at a position the floor has not reached, is a row's.
LEMMA NoRootAbove ==
    ASSUME NEW W, NEW s, Sound(W, s), Kept(s), NEW d \in Dev, NEW n \in Nat,
           Len(s.floor[d]) < n, s.cursor[d] < n
    PROVE  RootAt(s, d, n) = <<>> /\ ~HasRoot(s, d, n)
<1>1. Len(s.floor[d]) \in Nat /\ n > 0 /\ Len(s.floor[d]) # n
  BY DEF Sound, Vault
<1>2. ~(Holds(s, d, n) /\ s.rows[<<d, n>>].root # <<>>)
  BY DEF Holds, Kept
<1> QED
  BY <1>1, <1>2 DEF RootAt, HasRoot

-----------------------------------------------------------------------------
(***************************************************************************)
(* The fold of one device whose roots end at b, with every row from there  *)
(* to the cursor held.                                                     *)
(***************************************************************************)
OpenFrom(s, d, b) ==
    /\ b \in Nat /\ Len(s.floor[d]) <= b /\ b <= s.cursor[d]
    /\ s.cursor[d] <= MaxSeq[d]
    /\ b = Len(s.floor[d]) \/ (Holds(s, d, b) /\ s.rows[<<d, b>>].root # <<>>)
    /\ \A n \in (b + 1)..s.cursor[d] : Holds(s, d, n) /\ s.rows[<<d, n>>].root = <<>>

\* Where the fold resumes and where it ends.
LEMMA FoldEnds ==
    ASSUME NEW W, NEW s, Sound(W, s), NEW d \in Dev, NEW b, OpenFrom(s, d, b)
    PROVE  /\ Resume(s, d) = b /\ ChainEnd(s, d) = s.cursor[d]
           /\ Len(RootAt(s, d, b)) = b
<1>1. /\ b \in Nat /\ s.cursor[d] \in Nat /\ Len(s.floor[d]) \in Nat
      /\ MaxSeq[d] \in Nat /\ Len(s.floor[d]) <= b /\ b <= s.cursor[d]
  BY Bounds DEF Sound, Vault, OpenFrom
<1>2. Resume(s, d) = b
  <2> DEFINE S == Stored(s, d) \cup
                    {IF Len(s.floor[d]) <= s.cursor[d] THEN Len(s.floor[d]) ELSE 0}
  <2>1. S = Stored(s, d) \cup {Len(s.floor[d])}
    BY <1>1
  <2>2. S \subseteq 0..s.cursor[d]
    BY <1>1, <2>1 DEF Stored
  <2>3. \A y \in S : y <= b
    <3>1. SUFFICES ASSUME NEW y \in S PROVE y <= b
      OBVIOUS
    <3>2. CASE y \in Stored(s, d)
      <4>1. y \in 1..s.cursor[d] /\ Holds(s, d, y) /\ s.rows[<<d, y>>].root # <<>>
        BY <3>2 DEF Stored
      <4>2. y \notin (b + 1)..s.cursor[d]
        BY <4>1 DEF OpenFrom
      <4> QED
        BY <1>1, <4>1, <4>2
    <3> QED
      BY <1>1, <2>1, <3>2
  <2>4. b \in S
    <3>1. CASE b = Len(s.floor[d])
      BY <2>1, <3>1
    <3>2. CASE Holds(s, d, b) /\ s.rows[<<d, b>>].root # <<>>
      <4>1. b \in 1..s.cursor[d]
        BY <1>1, <3>2, PosIs DEF Holds
      <4> QED
        BY <2>1, <3>2, <4>1 DEF Stored
    <3> QED
      BY <3>1, <3>2 DEF OpenFrom
  <2>5. Max(S) = b
    <3> HIDE DEF S
    <3> QED
      BY <1>1, <2>2, <2>3, <2>4, MaxIs
  <2> QED
    BY <2>5 DEF Resume
<1>3. ChainEnd(s, d) = s.cursor[d]
  <2> DEFINE S == {n \in b..s.cursor[d] :
                     \A k \in (b + 1)..n : HeldHash(s, d, k) # None}
  <2>1. S \subseteq 0..s.cursor[d] /\ \A y \in S : y <= s.cursor[d]
    BY <1>1
  <2>2. \A k \in (b + 1)..s.cursor[d] : HeldHash(s, d, k) # None
    BY DEF OpenFrom, Holds, HeldHash
  <2>3. s.cursor[d] \in S
    BY <1>1, <2>2
  <2>4. Max(S) = s.cursor[d]
    <3> HIDE DEF S
    <3> QED
      BY <1>1, <2>1, <2>3, MaxIs
  <2> QED
    BY <1>2, <2>4 DEF ChainEnd
<1>4. Len(RootAt(s, d, b)) = b
  <2>1. CASE Holds(s, d, b) /\ s.rows[<<d, b>>].root # <<>>
    BY <2>1 DEF Sound, RowsOK, RootAt, Holds
  <2>2. CASE ~(Holds(s, d, b) /\ s.rows[<<d, b>>].root # <<>>)
    BY <2>2 DEF RootAt, OpenFrom
  <2> QED
    BY <2>1, <2>2
<1> QED
  BY <1>2, <1>3, <1>4

\* The root the fold computes is a chain that ends in the row at its end.
LEMMA ChainRootIs ==
    ASSUME NEW W, NEW s, Sound(W, s), NEW d \in Dev, NEW b, OpenFrom(s, d, b),
           NEW n \in (b + 1)..s.cursor[d]
    PROVE  /\ ChainOK(W, d, ChainRoot(s, d, n)) /\ Len(ChainRoot(s, d, n)) = n
           /\ Last(ChainRoot(s, d, n)) = s.rows[<<d, n>>].by
<1>1. /\ b \in Nat /\ n \in Nat /\ b < n /\ n <= s.cursor[d] /\ s.cursor[d] \in Nat
      /\ s.cursor[d] <= MaxSeq[d]
  BY DEF Sound, Vault, OpenFrom
<1>2. PICK A : A = RootAt(s, d, b)
  OBVIOUS
<1>3. PICK B : B = [i \in 1..(n - b) |-> HeldHash(s, d, b + i)]
  OBVIOUS
<1>4. ChainRoot(s, d, n) = A \o B
  BY <1>2, <1>3, FoldEnds DEF ChainRoot
<1>5. A \in Seq(Replica) /\ Len(A) = b /\ ChainOK(W, d, A)
  BY <1>1, <1>2, RootIs, FoldEnds
<1>6. \A k \in (b + 1)..n : /\ HeldHash(s, d, k) = s.rows[<<d, k>>].by
                            /\ HeldHash(s, d, k) \in Replica
                            /\ HeldHash(s, d, k) \in Signed(W, d, k)
  <2>1. SUFFICES ASSUME NEW k \in (b + 1)..n
                 PROVE  /\ HeldHash(s, d, k) = s.rows[<<d, k>>].by
                        /\ HeldHash(s, d, k) # None
    BY <1>1, HeldHashIs
  <2>2. k \in (b + 1)..s.cursor[d]
    BY <1>1
  <2> QED
    BY <2>2 DEF OpenFrom, Holds, HeldHash
<1>7. B \in Seq(Replica) /\ Len(B) = n - b
  <2>1. n - b \in Nat /\ \A i \in 1..(n - b) : b + i \in (b + 1)..n
    BY <1>1
  <2>2. B \in [1..(n - b) -> Replica]
    BY <1>3, <1>6, <2>1
  <2> QED
    BY <2>1, <2>2
<1>8. PICK R : R = A \o B
  OBVIOUS
<1>9. /\ R \in Seq(Replica) /\ Len(R) = n
      /\ \A i \in 1..n : R[i] = IF i <= b THEN A[i] ELSE B[i - b]
  <2>1. /\ A \o B \in Seq(Replica) /\ Len(A \o B) = Len(A) + Len(B)
        /\ \A i \in 1..(Len(A) + Len(B)) :
             (A \o B)[i] = IF i <= Len(A) THEN A[i] ELSE B[i - Len(A)]
    BY <1>5, <1>7, ConcatProperties
  <2>2. Len(A) + Len(B) = n
    BY <1>1, <1>5, <1>7
  <2> QED
    BY <1>5, <1>8, <2>1, <2>2
<1>10. \A i \in 1..n : R[i] \in Signed(W, d, i)
  <2>1. SUFFICES ASSUME NEW i \in 1..n PROVE R[i] \in Signed(W, d, i)
    OBVIOUS
  <2>2. CASE i <= b
    <3>1. i \in 1..Len(A) /\ R[i] = A[i]
      BY <1>1, <1>5, <1>9, <2>2
    <3> QED
      BY <1>5, <3>1 DEF ChainOK
  <2>3. CASE ~(i <= b)
    <3>1. i - b \in 1..(n - b) /\ b + (i - b) = i /\ i \in (b + 1)..n
      BY <1>1, <2>3
    <3>2. R[i] = HeldHash(s, d, i)
      BY <1>3, <1>9, <2>3, <3>1
    <3> QED
      BY <1>6, <3>1, <3>2
  <2> QED
    BY <2>2, <2>3
<1>11. R[n] = s.rows[<<d, n>>].by
  <2>1. n - b \in 1..(n - b) /\ b + (n - b) = n /\ n \in (b + 1)..n /\ n \in 1..n /\ ~(n <= b)
    BY <1>1
  <2>2. R[n] = HeldHash(s, d, n)
    BY <1>3, <1>9, <2>1
  <2> QED
    BY <1>6, <2>1, <2>2
<1>12. ChainRoot(s, d, n) = R /\ n <= MaxSeq[d]
  BY <1>1, <1>4, <1>8, Bounds
<1> QED
  BY <1>9, <1>10, <1>11, <1>12 DEF ChainOK, Last

-----------------------------------------------------------------------------
(* judge: only the divergence rows change, and only truthfully. *)

\* `judge` writes `chain_divergence` only.
LEMMA JudgeFields ==
    ASSUME NEW s \in Vault, NEW C,
           \A c \in C : c.dev \in Dev /\ c.peer \in Dev /\ c.root \in Seq(Replica)
    PROVE  /\ Judge(s, C) \in Vault
           /\ Judge(s, C).rows = s.rows /\ Judge(s, C).floor = s.floor
           /\ Judge(s, C).cursor = s.cursor /\ Judge(s, C).expect = s.expect
           /\ Judge(s, C).forks = s.forks /\ Judge(s, C).claims = s.claims
           /\ Judge(s, C).acks = s.acks /\ Judge(s, C).sent = s.sent
<1> DEFINE wrong == {c \in C : c.root # c.held}
           settles(c, x) == /\ x.dev = c.dev /\ x.peer = c.peer
                            /\ c \in wrong \/ x.seq <= Len(c.root)
           div == {x \in s.div : \A c \in C : ~settles(c, x)}
                     \cup {[dev |-> c.dev, peer |-> c.peer, seq |-> Len(c.root)] :
                             c \in wrong}
<1>1. Judge(s, C) = [s EXCEPT !.div = div]
  BY DEF Judge
<1>2. \A c \in wrong : [dev |-> c.dev, peer |-> c.peer, seq |-> Len(c.root)]
                          \in [dev : Dev, peer : Dev, seq : Nat]
  OBVIOUS
<1>3. div \subseteq [dev : Dev, peer : Dev, seq : Nat]
  <2>1. s.div \subseteq [dev : Dev, peer : Dev, seq : Nat]
    BY DEF Vault
  <2> HIDE DEF wrong
  <2> QED
    BY <1>2, <2>1
<1> HIDE DEF div
<1> QED
  BY <1>1, <1>3 DEF Vault

\* The rows after a judgement: new for what differs, kept or settled otherwise.
LEMMA JudgeDiv ==
    ASSUME NEW s \in Vault, NEW C
    PROVE  /\ \A x \in Judge(s, C).div :
                x \in s.div \/ \E c \in C : /\ c.root # c.held
                                            /\ x.dev = c.dev /\ x.seq = Len(c.root)
           /\ \A c \in C : c.root # c.held =>
                \E x \in Judge(s, C).div : x.dev = c.dev /\ x.peer = c.peer
           /\ \A x \in s.div :
                \/ \E y \in Judge(s, C).div : y.dev = x.dev /\ y.peer = x.peer
                \/ \E c \in C : c.root = c.held /\ c.dev = x.dev /\ c.peer = x.peer
<1> DEFINE wrong == {c \in C : c.root # c.held}
           settles(c, x) == /\ x.dev = c.dev /\ x.peer = c.peer
                            /\ c \in wrong \/ x.seq <= Len(c.root)
           row(c) == [dev |-> c.dev, peer |-> c.peer, seq |-> Len(c.root)]
           div == {x \in s.div : \A c \in C : ~settles(c, x)} \cup {row(c) : c \in wrong}
<1>1. Judge(s, C).div = div
  BY DEF Judge, Vault
<1>2. \A c \in wrong : /\ row(c) \in div
                       /\ row(c).dev = c.dev /\ row(c).peer = c.peer
  OBVIOUS
<1>3. \A x \in div : x \in s.div \/ \E c \in wrong : x = row(c)
  OBVIOUS
<1>4. ASSUME NEW x \in s.div
      PROVE  \/ \E y \in div : y.dev = x.dev /\ y.peer = x.peer
             \/ \E c \in C : c.root = c.held /\ c.dev = x.dev /\ c.peer = x.peer
  <2>1. CASE \A c \in C : ~settles(c, x)
    BY <1>4, <2>1
  <2>2. ASSUME NEW c \in C, settles(c, x)
        PROVE  \/ \E y \in div : y.dev = x.dev /\ y.peer = x.peer
               \/ \E e \in C : e.root = e.held /\ e.dev = x.dev /\ e.peer = x.peer
    <3>1. c.dev = x.dev /\ c.peer = x.peer
      BY <2>2
    <3>2. CASE c \in wrong
      BY <1>2, <3>1, <3>2
    <3>3. CASE c \notin wrong
      BY <2>2, <3>1, <3>3
    <3> QED
      BY <3>2, <3>3
  <2> QED
    BY <2>1, <2>2
<1>5. \A c \in wrong : row(c).dev = c.dev /\ row(c).seq = Len(c.root) /\ c.root # c.held /\ c \in C
  OBVIOUS
<1>6. \A c \in C : c.root # c.held => c \in wrong
  OBVIOUS
<1> HIDE DEF div, wrong, row
<1>7. \A x \in div : x \in s.div \/ \E c \in C : /\ c.root # c.held
                                                 /\ x.dev = c.dev /\ x.seq = Len(c.root)
  BY <1>3, <1>5
<1>8. \A c \in C : c.root # c.held => \E x \in div : x.dev = c.dev /\ x.peer = c.peer
  BY <1>2, <1>6
<1> QED
  BY <1>1, <1>4, <1>7, <1>8

\* Two chains of one device, of one length and not equal, part at a fork.
LEMMA PartAtAFork ==
    ASSUME NEW W, NEW d \in Dev, NEW u, NEW v, ChainOK(W, d, u), ChainOK(W, d, v),
           Len(u) = Len(v), u # v
    PROVE  \E n \in 1..Len(u) : \E a, b \in Signed(W, d, n) : a # b
<1>1. u \in Seq(Replica) /\ v \in Seq(Replica)
  BY DEF ChainOK
<1>2. PICK n \in 1..Len(u) : u[n] # v[n]
  BY <1>1
<1>3. u[n] \in Signed(W, d, n) /\ v[n] \in Signed(W, d, n)
  BY <1>2 DEF ChainOK
<1> QED
  BY <1>2, <1>3

\* Judging chains against chains of the same length records true rows only.
LEMMA JudgeSound ==
    ASSUME NEW W, NEW s, Sound(W, s), NEW C,
           \A c \in C : /\ c.dev \in Dev /\ c.peer \in Dev
                        /\ ChainOK(W, c.dev, c.root) /\ ChainOK(W, c.dev, c.held)
                        /\ Len(c.root) = Len(c.held)
    PROVE  Sound(W, Judge(s, C))
<1>0. s \in Vault /\ \A c \in C : c.root \in Seq(Replica)
  BY DEF Sound, ChainOK
<1>1. PICK t : t = Judge(s, C)
  OBVIOUS
<1>2. /\ t \in Vault /\ t.rows = s.rows /\ t.floor = s.floor /\ t.expect = s.expect
      /\ t.forks = s.forks /\ t.claims = s.claims
  BY <1>0, <1>1, JudgeFields
<1>3. DivOK(W, t)
  <2>1. SUFFICES ASSUME NEW x \in t.div
                 PROVE  \E n \in 1..x.seq : \E a, b \in Signed(W, x.dev, n) : a # b
    BY DEF DivOK
  <2>2. CASE x \in s.div
    BY <2>2 DEF Sound, DivOK
  <2>3. ASSUME NEW c \in C, c.root # c.held, x.dev = c.dev, x.seq = Len(c.root)
        PROVE  \E n \in 1..x.seq : \E a, b \in Signed(W, x.dev, n) : a # b
    BY <2>3, PartAtAFork
  <2> QED
    BY <1>0, <1>1, <2>2, <2>3, JudgeDiv
<1>4. /\ RowsOK(W, t) /\ FloorOK(W, t) /\ ClaimsOK(W, t) /\ ExpectOK(W, t)
      /\ ForksOK(W, t)
  BY <1>2 DEF Sound, RowsOK, FloorOK, ClaimsOK, ExpectOK, ForksOK
<1> QED
  BY <1>1, <1>2, <1>3, <1>4 DEF Sound

-----------------------------------------------------------------------------
(* fold_chain, of devices with every row up to the cursor held. *)

\* The fold writes roots only.
LEMMA ExtendedFields ==
    ASSUME NEW W, NEW s, Sound(W, s), NEW D \in SUBSET Dev, NEW b \in [D -> Nat],
           \A d \in D : OpenFrom(s, d, b[d])
    PROVE  /\ Extended(s, D) = [s EXCEPT !.rows = Extended(s, D).rows]
           /\ Extended(s, D).rows \in
                [Pos -> [by : Replica \cup {None}, root : Seq(Replica)]]
           /\ \A p \in Pos :
                IF p[1] \in D /\ b[p[1]] < p[2] /\ p[2] <= s.cursor[p[1]]
                THEN /\ Extended(s, D).rows[p].by = s.rows[p].by
                     /\ Extended(s, D).rows[p].root = ChainRoot(s, p[1], p[2])
                ELSE Extended(s, D).rows[p] = s.rows[p]
<1> DEFINE open == {p \in Pos : /\ p[1] \in D /\ p[2] <= s.cursor[p[1]]
                                /\ s.rows[p].by # None /\ s.rows[p].root = <<>>}
           folded == {p \in open : Resume(s, p[1]) < p[2] /\ p[2] <= ChainEnd(s, p[1])}
           rows == [p \in Pos |->
                      IF p \in folded
                      THEN [by |-> s.rows[p].by, root |-> ChainRoot(s, p[1], p[2])]
                      ELSE s.rows[p]]
<1>0. s \in Vault /\ s.rows \in [Pos -> [by : Replica \cup {None}, root : Seq(Replica)]]
  BY DEF Sound, Vault
<1>1. Extended(s, D) = [s EXCEPT !.rows = rows]
  BY DEF Extended
<1>2. Extended(s, D).rows = rows
  BY <1>0, <1>1 DEF Vault
<1>3. \A p \in Pos : p \in folded <=>
        p[1] \in D /\ b[p[1]] < p[2] /\ p[2] <= s.cursor[p[1]]
  <2>1. SUFFICES ASSUME NEW p \in Pos
                 PROVE  p \in folded <=>
                          p[1] \in D /\ b[p[1]] < p[2] /\ p[2] <= s.cursor[p[1]]
    OBVIOUS
  <2>2. p = <<p[1], p[2]>> /\ p[2] \in Nat
    BY PosIs
  <2>3. CASE p[1] \in D
    <3>1. Resume(s, p[1]) = b[p[1]] /\ ChainEnd(s, p[1]) = s.cursor[p[1]]
      BY <2>3, FoldEnds
    <3>2. b[p[1]] < p[2] /\ p[2] <= s.cursor[p[1]] =>
            s.rows[p].by # None /\ s.rows[p].root = <<>>
      <4>1. b[p[1]] \in Nat /\ s.cursor[p[1]] \in Nat
        BY <2>3, <1>0 DEF Vault
      <4>2. b[p[1]] < p[2] /\ p[2] <= s.cursor[p[1]] =>
              p[2] \in (b[p[1]] + 1)..s.cursor[p[1]]
        BY <2>2, <4>1
      <4>3. OpenFrom(s, p[1], b[p[1]])
        BY <2>3
      <4> QED
        BY <2>2, <4>2, <4>3 DEF OpenFrom, Holds
    <3> QED
      BY <2>3, <3>1, <3>2
  <2>4. CASE p[1] \notin D
    BY <2>4
  <2> QED
    BY <2>3, <2>4
<1>4. \A p \in Pos : p \in folded => ChainRoot(s, p[1], p[2]) \in Seq(Replica)
  <2>1. SUFFICES ASSUME NEW p \in Pos, p \in folded
                 PROVE  ChainRoot(s, p[1], p[2]) \in Seq(Replica)
    OBVIOUS
  <2>2. p[1] \in D /\ b[p[1]] < p[2] /\ p[2] <= s.cursor[p[1]]
    BY <1>3, <2>1
  <2>3. p[2] \in (b[p[1]] + 1)..s.cursor[p[1]] /\ p[1] \in Dev
    BY <1>0, <2>2, PosIs DEF Vault
  <2> QED
    BY <2>2, <2>3, ChainRootIs DEF ChainOK
<1> HIDE DEF folded
<1>5. rows \in [Pos -> [by : Replica \cup {None}, root : Seq(Replica)]]
  BY <1>0, <1>4
<1>6. \A p \in Pos : IF p \in folded
                     THEN /\ rows[p].by = s.rows[p].by
                          /\ rows[p].root = ChainRoot(s, p[1], p[2])
                     ELSE rows[p] = s.rows[p]
  OBVIOUS
<1> HIDE DEF rows
<1> QED
  BY <1>1, <1>2, <1>3, <1>5, <1>6

\* The rows above b[d] have got their roots; nothing else changed.
Rooted(s, t, D, b) ==
    /\ t.floor = s.floor /\ t.cursor = s.cursor /\ t.expect = s.expect
    /\ t.forks = s.forks /\ t.claims = s.claims /\ t.div = s.div
    /\ t.acks = s.acks /\ t.sent = s.sent
    /\ \A p \in Pos : t.rows[p].by = s.rows[p].by
    /\ \A p \in Pos :
         IF p[1] \in D /\ b[p[1]] < p[2] /\ p[2] <= s.cursor[p[1]]
         THEN t.rows[p].root # <<>> ELSE t.rows[p].root = s.rows[p].root

\* What the fold leaves: a root at every row from where it resumed to the cursor.
LEMMA ExtendedIs ==
    ASSUME NEW W, NEW s, Sound(W, s), NEW D \in SUBSET Dev, NEW b \in [D -> Nat],
           \A d \in D : OpenFrom(s, d, b[d])
    PROVE  /\ Sound(W, Extended(s, D)) /\ Rooted(s, Extended(s, D), D, b)
           /\ \A d \in D : OpenFrom(Extended(s, D), d, s.cursor[d])
<1>0. s \in Vault
  BY DEF Sound
<1>1. PICK t : t = Extended(s, D)
  OBVIOUS
<1>2. PICK rows : rows = t.rows
  OBVIOUS
<1>3. /\ t = [s EXCEPT !.rows = rows]
      /\ rows \in [Pos -> [by : Replica \cup {None}, root : Seq(Replica)]]
  BY <1>1, <1>2, ExtendedFields
<1>4. /\ t \in Vault /\ t.floor = s.floor /\ t.cursor = s.cursor
      /\ t.expect = s.expect /\ t.forks = s.forks /\ t.claims = s.claims
      /\ t.div = s.div /\ t.acks = s.acks /\ t.sent = s.sent
  BY <1>0, <1>3 DEF Vault
<1>5. ASSUME NEW p \in Pos, p[1] \in D, b[p[1]] < p[2], p[2] <= s.cursor[p[1]]
      PROVE  /\ t.rows[p].by = s.rows[p].by /\ s.rows[p].by # None
             /\ t.rows[p].root # <<>>
             /\ Len(t.rows[p].root) = p[2] /\ Last(t.rows[p].root) = s.rows[p].by
             /\ ChainOK(W, p[1], t.rows[p].root)
  <2>1. t.rows[p].by = s.rows[p].by /\ t.rows[p].root = ChainRoot(s, p[1], p[2])
    BY <1>1, <1>5, ExtendedFields
  <2>2. p[2] \in Nat /\ p[2] # 0 /\ p = <<p[1], p[2]>> /\ p[1] \in Dev
    BY PosIs
  <2>3. p[2] \in (b[p[1]] + 1)..s.cursor[p[1]] /\ OpenFrom(s, p[1], b[p[1]])
    <3>1. b[p[1]] \in Nat /\ s.cursor[p[1]] \in Nat
      BY <1>0, <1>5 DEF Vault
    <3> QED
      BY <1>5, <2>2, <3>1
  <2>4. /\ ChainOK(W, p[1], t.rows[p].root) /\ Len(t.rows[p].root) = p[2]
        /\ Last(t.rows[p].root) = s.rows[p].by
    BY <2>1, <2>2, <2>3, ChainRootIs
  <2>5. t.rows[p].root # <<>>
    BY <2>2, <2>4
  <2>6. s.rows[p].by # None
    BY <2>2, <2>3 DEF OpenFrom, Holds
  <2> QED
    BY <2>1, <2>4, <2>5, <2>6
<1>6. ASSUME NEW p \in Pos, ~(p[1] \in D /\ b[p[1]] < p[2] /\ p[2] <= s.cursor[p[1]])
      PROVE  t.rows[p] = s.rows[p]
  BY <1>1, <1>6, ExtendedFields
<1>7. Rooted(s, t, D, b)
  BY <1>4, <1>5, <1>6 DEF Rooted
<1>8. Sound(W, t)
  <2>1. RowsOK(W, t)
    <3>1. SUFFICES ASSUME NEW p \in Pos
                   PROVE  /\ t.rows[p].by # None => t.rows[p].by \in Signed(W, p[1], p[2])
                          /\ t.rows[p].root # <<>> =>
                               /\ t.rows[p].by # None
                               /\ Len(t.rows[p].root) = p[2]
                               /\ Last(t.rows[p].root) = t.rows[p].by
                               /\ ChainOK(W, p[1], t.rows[p].root)
      BY DEF RowsOK
    <3>2. /\ s.rows[p].by # None => s.rows[p].by \in Signed(W, p[1], p[2])
          /\ s.rows[p].root # <<>> =>
               /\ s.rows[p].by # None
               /\ Len(s.rows[p].root) = p[2]
               /\ Last(s.rows[p].root) = s.rows[p].by
               /\ ChainOK(W, p[1], s.rows[p].root)
      BY DEF Sound, RowsOK
    <3> QED
      BY <1>5, <1>6, <3>2
  <2>2. /\ FloorOK(W, t) /\ ClaimsOK(W, t) /\ ExpectOK(W, t) /\ ForksOK(W, t)
        /\ DivOK(W, t)
    BY <1>4 DEF Sound, FloorOK, ClaimsOK, ExpectOK, ForksOK, DivOK
  <2> QED
    BY <1>4, <2>1, <2>2 DEF Sound
<1>9. ASSUME NEW d \in D PROVE OpenFrom(t, d, s.cursor[d])
  <2>0. OpenFrom(s, d, b[d]) /\ d \in Dev /\ s.cursor[d] \in Nat /\ b[d] \in Nat
        /\ Len(s.floor[d]) \in Nat
    BY <1>0 DEF Vault
  <2>1. \A n \in (s.cursor[d] + 1)..s.cursor[d] : FALSE
    BY <2>0
  <2>2. CASE b[d] = s.cursor[d]
    <3>1. \/ s.cursor[d] = Len(s.floor[d])
          \/ Holds(s, d, s.cursor[d]) /\ s.rows[<<d, s.cursor[d]>>].root # <<>>
      BY <2>0, <2>2 DEF OpenFrom
    <3>2. <<d, s.cursor[d]>> \in Pos =>
            t.rows[<<d, s.cursor[d]>>] = s.rows[<<d, s.cursor[d]>>]
      BY <1>6, <2>0, <2>2
    <3> QED
      BY <1>4, <2>0, <2>1, <3>1, <3>2 DEF OpenFrom, Holds
  <2>3. CASE b[d] # s.cursor[d]
    <3>1. b[d] < s.cursor[d] /\ s.cursor[d] \in 1..MaxSeq[d]
      BY <2>0, <2>3, Bounds DEF OpenFrom
    <3>2. <<d, s.cursor[d]>> \in Pos
      BY <2>0, <3>1, PosIs
    <3>3. Holds(t, d, s.cursor[d]) /\ t.rows[<<d, s.cursor[d]>>].root # <<>>
      BY <1>5, <2>0, <3>1, <3>2 DEF Holds
    <3> QED
      BY <1>4, <2>0, <2>1, <3>3 DEF OpenFrom
  <2> QED
    BY <2>2, <2>3
<1> QED
  BY <1>1, <1>7, <1>8, <1>9

\* The claims the prefixes of D reached are taken out and judged.
LEMMA JudgeClaimsIs ==
    ASSUME NEW W, NEW s, Sound(W, s), NEW D \in SUBSET Dev,
           \A d \in D : OpenFrom(s, d, s.cursor[d]),
           NEW t, t = JudgeClaims(s, D)
    PROVE  /\ Sound(W, t)
           /\ t.rows = s.rows /\ t.floor = s.floor /\ t.cursor = s.cursor
           /\ t.expect = s.expect /\ t.forks = s.forks
           /\ t.acks = s.acks /\ t.sent = s.sent
           /\ t.claims = {c \in s.claims : c.dev \in D => Len(c.root) > s.cursor[c.dev]}
           /\ \A c \in s.claims : (c.dev \in D /\ Len(c.root) <= s.cursor[c.dev]) =>
                \/ \E x \in t.div : x.dev = c.dev /\ x.peer = c.peer
                \/ ~Differs(s, c.dev, c.root)
           /\ \A x \in s.div :
                \/ \E y \in t.div : y.dev = x.dev /\ y.peer = x.peer
                \/ \E c \in s.claims : /\ c.dev = x.dev /\ c.peer = x.peer
                                       /\ c.dev \in D /\ Len(c.root) <= s.cursor[c.dev]
                                       /\ ~Differs(s, c.dev, c.root)
<1>0. /\ s \in Vault /\ s.cursor \in [Dev -> Nat]
      /\ s.claims \in SUBSET [dev : Dev, peer : Dev, root : Seq(Replica)]
  BY DEF Sound, Vault
<1> DEFINE reached == {c \in s.claims : c.dev \in D /\ Len(c.root) <= ChainEnd(s, c.dev)}
           known == {c \in reached : HasRoot(s, c.dev, Len(c.root))}
           C == {Against(c, RootAt(s, c.dev, Len(c.root))) : c \in known}
           left == s.claims \ reached
           u == [s EXCEPT !.claims = left]
<1>1. t = Judge(u, C)
  BY DEF JudgeClaims
<1>2. reached = {c \in s.claims : c.dev \in D /\ Len(c.root) <= s.cursor[c.dev]}
  BY FoldEnds
<1>3. left = {c \in s.claims : c.dev \in D => Len(c.root) > s.cursor[c.dev]}
  <2>1. \A c \in s.claims : c.dev \in D =>
          (Len(c.root) > s.cursor[c.dev] <=> ~(Len(c.root) <= s.cursor[c.dev]))
    BY <1>0
  <2> HIDE DEF reached
  <2> QED
    BY <1>2, <2>1
<1>4. /\ u \in Vault /\ u.rows = s.rows /\ u.floor = s.floor /\ u.cursor = s.cursor
      /\ u.expect = s.expect /\ u.forks = s.forks /\ u.claims = left
      /\ u.acks = s.acks /\ u.sent = s.sent /\ u.div = s.div
  <2>1. left \in SUBSET [dev : Dev, peer : Dev, root : Seq(Replica)]
    BY <1>0
  <2> HIDE DEF left
  <2> QED
    BY <1>0, <2>1 DEF Vault
<1>5. left \subseteq s.claims
  OBVIOUS
<1>6. Sound(W, u)
  <2> HIDE DEF u, left
  <2>1. /\ RowsOK(W, u) /\ FloorOK(W, u) /\ ClaimsOK(W, u) /\ ExpectOK(W, u)
        /\ ForksOK(W, u) /\ DivOK(W, u)
    BY <1>4, <1>5 DEF Sound, RowsOK, FloorOK, ClaimsOK, ExpectOK, ForksOK, DivOK
  <2> QED
    BY <1>4, <2>1 DEF Sound
<1>7. \A c \in known : /\ c \in s.claims /\ c \in reached
                       /\ HasRoot(s, c.dev, Len(c.root))
                       /\ Against(c, RootAt(s, c.dev, Len(c.root))) \in C
  OBVIOUS
<1>8. \A e \in C : \E c \in known : e = Against(c, RootAt(s, c.dev, Len(c.root)))
  OBVIOUS
<1>9. \A c, h : /\ Against(c, h).dev = c.dev /\ Against(c, h).peer = c.peer
                /\ Against(c, h).root = c.root /\ Against(c, h).held = h
  BY DEF Against
<1>10. \A c \in reached : c \notin known => ~HasRoot(s, c.dev, Len(c.root))
  OBVIOUS
<1> HIDE DEF reached, known, C, left, u
<1>11. \A c \in C : /\ c.dev \in Dev /\ c.peer \in Dev
                    /\ ChainOK(W, c.dev, c.root) /\ ChainOK(W, c.dev, c.held)
                    /\ Len(c.root) = Len(c.held) /\ c.root \in Seq(Replica)
  <2>1. SUFFICES ASSUME NEW c \in known, NEW e, e = Against(c, RootAt(s, c.dev, Len(c.root)))
                 PROVE  /\ e.dev \in Dev /\ e.peer \in Dev
                        /\ ChainOK(W, e.dev, e.root) /\ ChainOK(W, e.dev, e.held)
                        /\ Len(e.root) = Len(e.held) /\ e.root \in Seq(Replica)
    BY <1>8
  <2>2. c.dev \in Dev /\ c.peer \in Dev /\ c.root \in Seq(Replica) /\ Len(c.root) \in Nat
    BY <1>0, <1>7
  <2>3. ChainOK(W, c.dev, c.root)
    BY <1>7 DEF Sound, ClaimsOK
  <2>4. ChainOK(W, c.dev, RootAt(s, c.dev, Len(c.root)))
    BY <2>2, RootIs
  <2>5. Len(RootAt(s, c.dev, Len(c.root))) = Len(c.root)
    BY <1>7 DEF HasRoot
  <2> QED
    BY <1>9, <2>1, <2>2, <2>3, <2>4, <2>5
<1>12. Sound(W, t)
  BY <1>1, <1>6, <1>11, JudgeSound
<1>13. /\ t.rows = s.rows /\ t.floor = s.floor /\ t.cursor = s.cursor
       /\ t.expect = s.expect /\ t.forks = s.forks /\ t.claims = left
       /\ t.acks = s.acks /\ t.sent = s.sent
  <2>1. \A c \in C : c.dev \in Dev /\ c.peer \in Dev /\ c.root \in Seq(Replica)
    BY <1>11
  <2> QED
    BY <1>1, <1>4, <2>1, JudgeFields
<1>14. ASSUME NEW c \in s.claims, c.dev \in D, Len(c.root) <= s.cursor[c.dev]
       PROVE  \/ \E x \in t.div : x.dev = c.dev /\ x.peer = c.peer
              \/ ~Differs(s, c.dev, c.root)
  <2>1. c \in reached
    BY <1>2, <1>14
  <2>2. CASE c \in known /\ RootAt(s, c.dev, Len(c.root)) # c.root
    BY <1>1, <1>4, <1>7, <1>9, <2>2, JudgeDiv
  <2>3. CASE c \notin known
    BY <1>10, <2>1, <2>3 DEF Differs
  <2>4. CASE RootAt(s, c.dev, Len(c.root)) = c.root
    BY <2>4 DEF Differs
  <2> QED
    BY <2>2, <2>3, <2>4
<1>15. ASSUME NEW x \in s.div
       PROVE  \/ \E y \in t.div : y.dev = x.dev /\ y.peer = x.peer
              \/ \E c \in s.claims : /\ c.dev = x.dev /\ c.peer = x.peer
                                     /\ c.dev \in D /\ Len(c.root) <= s.cursor[c.dev]
                                     /\ ~Differs(s, c.dev, c.root)
  <2>1. \/ \E y \in t.div : y.dev = x.dev /\ y.peer = x.peer
        \/ \E e \in C : e.root = e.held /\ e.dev = x.dev /\ e.peer = x.peer
    BY <1>1, <1>4, <1>15, JudgeDiv
  <2>2. ASSUME NEW c \in known, NEW e, e = Against(c, RootAt(s, c.dev, Len(c.root))),
               e.root = e.held, e.dev = x.dev, e.peer = x.peer
        PROVE  /\ c \in s.claims /\ c.dev = x.dev /\ c.peer = x.peer
               /\ c.dev \in D /\ Len(c.root) <= s.cursor[c.dev]
               /\ ~Differs(s, c.dev, c.root)
    BY <1>2, <1>7, <1>9, <2>2 DEF Differs
  <2> QED
    BY <1>8, <2>1, <2>2
<1> QED
  BY <1>3, <1>12, <1>13, <1>14, <1>15

\* Where roots and claims already end at the cursor, a fold changes nothing.
LEMMA FoldIdle ==
    ASSUME NEW W, NEW s, Sound(W, s), Kept(s), Low(s), NEW D \in SUBSET Dev
    PROVE  FoldChain(s, D) = s
<1>0. s \in Vault /\ s.cursor \in [Dev -> Nat]
  BY DEF Sound, Vault
<1>1. \A d \in D : OpenFrom(s, d, s.cursor[d])
  <2>1. SUFFICES ASSUME NEW d \in D PROVE OpenFrom(s, d, s.cursor[d])
    OBVIOUS
  <2>2. s.cursor[d] \in Nat /\ Len(s.floor[d]) \in Nat /\ Len(s.floor[d]) <= s.cursor[d]
        /\ s.cursor[d] <= MaxSeq[d]
    BY <1>0 DEF Vault, Low, Kept
  <2>3. \A n \in (s.cursor[d] + 1)..s.cursor[d] : FALSE
    BY <2>2
  <2>4. \/ s.cursor[d] = Len(s.floor[d])
        \/ Holds(s, d, s.cursor[d]) /\ s.rows[<<d, s.cursor[d]>>].root # <<>>
    BY <2>2, PrefixIsRooted
  <2> QED
    BY <2>2, <2>3, <2>4 DEF OpenFrom
<1>2. Extended(s, D) = s
  <2> DEFINE b == [d \in D |-> s.cursor[d]]
  <2>1. b \in [D -> Nat] /\ \A d \in D : OpenFrom(s, d, b[d])
    BY <1>0, <1>1
  <2>2. PICK t : t = Extended(s, D)
    OBVIOUS
  <2>3. \A p \in Pos : ~(p[1] \in D /\ b[p[1]] < p[2] /\ p[2] <= s.cursor[p[1]])
    BY <1>0, PosIs
  <2> HIDE DEF b
  <2>4. PICK rows : rows = t.rows
    OBVIOUS
  <2>5. /\ t = [s EXCEPT !.rows = rows]
        /\ rows \in [Pos -> [by : Replica \cup {None}, root : Seq(Replica)]]
        /\ \A p \in Pos : rows[p] = s.rows[p]
    BY <2>1, <2>2, <2>3, <2>4, ExtendedFields
  <2>6. s.rows \in [Pos -> [by : Replica \cup {None}, root : Seq(Replica)]]
    BY <1>0 DEF Vault
  <2>7. rows = s.rows
    BY <2>5, <2>6
  <2> QED
    BY <1>0, <2>2, <2>5, <2>7 DEF Vault
<1>3. JudgeClaims(s, D) = s
  <2> DEFINE reached == {c \in s.claims : c.dev \in D /\ Len(c.root) <= ChainEnd(s, c.dev)}
             known == {c \in reached : HasRoot(s, c.dev, Len(c.root))}
             C == {Against(c, RootAt(s, c.dev, Len(c.root))) : c \in known}
  <2>1. reached = {}
    <3>1. SUFFICES ASSUME NEW c \in s.claims, c.dev \in D,
                          Len(c.root) <= ChainEnd(s, c.dev)
                   PROVE  FALSE
      OBVIOUS
    <3>2. ChainEnd(s, c.dev) = s.cursor[c.dev] /\ s.cursor[c.dev] < Len(c.root)
      BY <1>1, <3>1, FoldEnds DEF Kept
    <3>3. s.cursor[c.dev] \in Nat /\ Len(c.root) \in Nat
      BY <1>0 DEF Vault
    <3> QED
      BY <3>1, <3>2, <3>3
  <2>2. C = {}
    BY <2>1
  <2>3. JudgeClaims(s, D) = Judge([s EXCEPT !.claims = s.claims \ reached], C)
    BY DEF JudgeClaims
  <2>4. [s EXCEPT !.claims = s.claims \ reached] = s
    BY <1>0, <2>1 DEF Vault
  <2>5. Judge(s, {}) = s
    <3>1. Judge(s, {}) = [s EXCEPT !.div = s.div]
      BY DEF Judge
    <3> QED
      BY <1>0, <3>1 DEF Vault
  <2> QED
    BY <2>2, <2>3, <2>4, <2>5
<1> QED
  BY <1>2, <1>3 DEF FoldChain

-----------------------------------------------------------------------------
(***************************************************************************)
(* What every change of a vault keeps: prefixes and floors only grow, a    *)
(* position that was taken stays so and gets no other op, and the roots    *)
(* below the prefix do not change while they can be read.                  *)
(***************************************************************************)
Grown(s, t) ==
    /\ \A d \in Dev : /\ s.cursor[d] <= t.cursor[d]
                      /\ Len(s.floor[d]) <= Len(t.floor[d])
    /\ \A p \in Pos : /\ Taken(s, p[1], p[2]) => Taken(t, p[1], p[2])
                      /\ (Taken(s, p[1], p[2]) /\ t.rows[p].by # None)
                           => t.rows[p].by = s.rows[p].by

Steady(s, t) ==
    \A d \in Dev, n \in Nat :
        (Reached(s, d, n) /\ HasRoot(t, d, n))
            => HasRoot(s, d, n) /\ RootAt(t, d, n) = RootAt(s, d, n)

\* A claim that was answered: by a row, or by the root that is held.
Settles(t, c) ==
    \/ \E x \in t.div : x.dev = c.dev /\ x.peer = c.peer
    \/ Reached(t, c.dev, Len(c.root)) /\ ~Differs(t, c.dev, c.root)

\* Rows and claims do not vanish without an answer.
Judged(s, t) ==
    /\ \A c \in s.claims : c \in t.claims \/ Settles(t, c)
    /\ \A x \in s.div :
         \/ \E y \in t.div : y.dev = x.dev /\ y.peer = x.peer
         \/ \E c \in s.claims : /\ c.dev = x.dev /\ c.peer = x.peer
                                /\ Reached(t, c.dev, Len(c.root))
                                /\ ~Differs(t, c.dev, c.root)

\* Where ops_run_end starts and ends.
From(s, d) == IF Len(s.floor[d]) <= s.cursor[d] THEN s.cursor[d] ELSE Len(s.floor[d])

\* The run of rows held from the floor or the cursor.
LEMMA RunEndIs ==
    ASSUME NEW W, NEW s, Sound(W, s), Kept(s), NEW d \in Dev
    PROVE  /\ From(s, d) \in Nat /\ RunEnd(s, d) \in Nat
           /\ From(s, d) <= RunEnd(s, d) /\ RunEnd(s, d) <= MaxSeq[d]
           /\ Len(s.floor[d]) <= From(s, d) /\ s.cursor[d] <= From(s, d)
           /\ \A k \in (From(s, d) + 1)..RunEnd(s, d) : Holds(s, d, k)
<1>1. /\ Len(s.floor[d]) \in Nat /\ s.cursor[d] \in Nat /\ MaxSeq[d] \in Nat
      /\ Len(s.floor[d]) <= MaxSeq[d] /\ s.cursor[d] <= MaxSeq[d]
  BY Bounds DEF Sound, Vault, FloorOK, ChainOK, Kept
<1>2. PICK b : b = From(s, d)
  OBVIOUS
<1>3. /\ b \in Nat /\ b <= MaxSeq[d] /\ Len(s.floor[d]) <= b /\ s.cursor[d] <= b
      /\ b \in {Len(s.floor[d]), s.cursor[d]}
  BY <1>1, <1>2 DEF From
<1>4. Max({Len(s.floor[d]), s.cursor[d]}) = b
  <2>1. /\ {Len(s.floor[d]), s.cursor[d]} \subseteq 0..MaxSeq[d]
        /\ \A y \in {Len(s.floor[d]), s.cursor[d]} : y <= b
    BY <1>1, <1>3
  <2> QED
    BY <1>1, <1>3, <2>1, MaxIs
<1> DEFINE S == {n \in b..MaxSeq[d] : \A k \in (b + 1)..n : Holds(s, d, k)}
<1>5. RunEnd(s, d) = Max(S)
  BY <1>4 DEF RunEnd
<1>6. S \subseteq 0..MaxSeq[d] /\ b \in S
  <2>1. \A k \in (b + 1)..b : FALSE
    BY <1>3
  <2> QED
    BY <1>1, <1>3, <2>1
<1>7. Max(S) \in S
  <2> HIDE DEF S
  <2>1. S # {}
    BY <1>6
  <2> QED
    BY <1>1, <1>6, <2>1, MaxOfBounded
<1> QED
  BY <1>1, <1>2, <1>3, <1>5, <1>7

\* upsert_sync_cursor, of devices among which are all whose floor has passed
\* the prefix.
LEMMA UpsertIs ==
    ASSUME NEW W, NEW s, Sound(W, s), Kept(s), NEW D \in SUBSET Dev,
           \A d \in Dev \ D : Len(s.floor[d]) <= s.cursor[d],
           NEW t, t = UpsertCursor(s, D)
    PROVE  /\ Sound(W, t) /\ Kept(t) /\ Low(t)
           /\ t.floor = s.floor /\ t.expect = s.expect /\ t.forks = s.forks
           /\ t.acks = s.acks /\ t.sent = s.sent
           /\ \A p \in Pos : t.rows[p].by = s.rows[p].by
           /\ t.claims \subseteq s.claims
           /\ Grown(s, t) /\ Steady(s, t) /\ Judged(s, t)
<1>0. /\ s \in Vault /\ s.cursor \in [Dev -> Nat] /\ s.floor \in [Dev -> Seq(Replica)]
      /\ s.claims \in SUBSET [dev : Dev, peer : Dev, root : Seq(Replica)]
  BY DEF Sound, Vault
<1>1. PICK cursor : cursor = [d \in Dev |-> IF d \in D THEN RunEnd(s, d) ELSE s.cursor[d]]
  OBVIOUS
<1>2. PICK u : u = [s EXCEPT !.cursor = cursor]
  OBVIOUS
<1>3. PICK v : v = Extended(u, D)
  OBVIOUS
<1>4. t = JudgeClaims(v, D)
  BY <1>1, <1>2, <1>3 DEF UpsertCursor, FoldChain
<1>5. cursor \in [Dev -> Nat]
  BY <1>0, <1>1, RunEndIs
<1>6. /\ u \in Vault /\ u.rows = s.rows /\ u.floor = s.floor /\ u.cursor = cursor
      /\ u.expect = s.expect /\ u.forks = s.forks /\ u.claims = s.claims
      /\ u.acks = s.acks /\ u.sent = s.sent /\ u.div = s.div
  BY <1>0, <1>2, <1>5 DEF Vault
<1>7. Sound(W, u)
  <2>1. /\ RowsOK(W, u) /\ FloorOK(W, u) /\ ClaimsOK(W, u) /\ ExpectOK(W, u)
        /\ ForksOK(W, u) /\ DivOK(W, u)
    BY <1>6 DEF Sound, RowsOK, FloorOK, ClaimsOK, ExpectOK, ForksOK, DivOK
  <2> QED
    BY <1>6, <2>1 DEF Sound
<1> DEFINE b == [d \in D |-> From(s, d)]
<1>8. b \in [D -> Nat] /\ \A d \in D : b[d] = From(s, d)
  BY RunEndIs
<1> HIDE DEF b
<1>9. \A d \in D : OpenFrom(u, d, b[d])
  <2>1. SUFFICES ASSUME NEW d \in D PROVE OpenFrom(u, d, From(s, d))
    BY <1>8
  <2>2. /\ From(s, d) \in Nat /\ From(s, d) <= cursor[d] /\ cursor[d] <= MaxSeq[d]
        /\ Len(s.floor[d]) <= From(s, d) /\ s.cursor[d] <= From(s, d)
        /\ \A k \in (From(s, d) + 1)..cursor[d] : Holds(s, d, k)
    BY <1>1, RunEndIs
  <2>3. \/ From(s, d) = Len(s.floor[d])
        \/ Holds(s, d, From(s, d)) /\ s.rows[<<d, From(s, d)>>].root # <<>>
    <3>1. CASE Len(s.floor[d]) < s.cursor[d]
      <4>1. From(s, d) = s.cursor[d] /\ s.cursor[d] \in Nat /\ s.cursor[d] <= s.cursor[d]
        BY <1>0, <3>1 DEF From
      <4> QED
        BY <3>1, <4>1, PrefixIsRooted
    <3>2. CASE ~(Len(s.floor[d]) < s.cursor[d])
      BY <1>0, <3>2 DEF From
    <3> QED
      BY <3>1, <3>2
  <2>4. \A k \in (From(s, d) + 1)..cursor[d] : s.rows[<<d, k>>].root = <<>>
    <3>1. SUFFICES ASSUME NEW k \in (From(s, d) + 1)..cursor[d]
                   PROVE  s.rows[<<d, k>>].root = <<>>
      OBVIOUS
    <3>2. <<d, k>> \in Pos
      BY <2>2 DEF Holds
    <3>3. Len(s.floor[d]) < k /\ s.cursor[d] < k
      BY <1>0, <1>5, <2>2
    <3> QED
      BY <3>2, <3>3 DEF Kept
  <2> QED
    BY <1>6, <2>2, <2>3, <2>4 DEF OpenFrom, Holds
<1>10. Sound(W, v) /\ Rooted(u, v, D, b) /\ \A d \in D : OpenFrom(v, d, v.cursor[d])
  <2>1. Sound(W, v) /\ Rooted(u, v, D, b) /\ \A d \in D : OpenFrom(v, d, u.cursor[d])
    BY <1>3, <1>7, <1>8, <1>9, ExtendedIs
  <2> QED
    BY <2>1 DEF Rooted
<1>11. /\ v.floor = s.floor /\ v.cursor = cursor /\ v.expect = s.expect
       /\ v.forks = s.forks /\ v.claims = s.claims /\ v.div = s.div
       /\ v.acks = s.acks /\ v.sent = s.sent
       /\ \A p \in Pos : v.rows[p].by = s.rows[p].by
       /\ \A p \in Pos :
            IF p[1] \in D /\ From(s, p[1]) < p[2] /\ p[2] <= cursor[p[1]]
            THEN v.rows[p].root # <<>> ELSE v.rows[p].root = s.rows[p].root
  BY <1>6, <1>8, <1>10 DEF Rooted
<1>12. /\ Sound(W, t) /\ t.rows = v.rows /\ t.floor = s.floor /\ t.cursor = cursor
       /\ t.expect = s.expect /\ t.forks = s.forks /\ t.acks = s.acks /\ t.sent = s.sent
       /\ t.claims = {c \in s.claims : c.dev \in D => Len(c.root) > cursor[c.dev]}
       /\ \A c \in s.claims : (c.dev \in D /\ Len(c.root) <= cursor[c.dev]) =>
            \/ \E x \in t.div : x.dev = c.dev /\ x.peer = c.peer
            \/ ~Differs(v, c.dev, c.root)
       /\ \A x \in s.div :
            \/ \E y \in t.div : y.dev = x.dev /\ y.peer = x.peer
            \/ \E c \in s.claims : /\ c.dev = x.dev /\ c.peer = x.peer
                                   /\ c.dev \in D /\ Len(c.root) <= cursor[c.dev]
                                   /\ ~Differs(v, c.dev, c.root)
  <2>1. /\ Sound(W, t) /\ t.rows = v.rows /\ t.floor = v.floor /\ t.cursor = v.cursor
        /\ t.expect = v.expect /\ t.forks = v.forks /\ t.acks = v.acks /\ t.sent = v.sent
        /\ t.claims = {c \in v.claims : c.dev \in D => Len(c.root) > v.cursor[c.dev]}
    BY <1>4, <1>10, JudgeClaimsIs
  <2>2. \A c \in v.claims : (c.dev \in D /\ Len(c.root) <= v.cursor[c.dev]) =>
          \/ \E x \in t.div : x.dev = c.dev /\ x.peer = c.peer
          \/ ~Differs(v, c.dev, c.root)
    BY <1>4, <1>10, JudgeClaimsIs
  <2>3. \A x \in v.div :
          \/ \E y \in t.div : y.dev = x.dev /\ y.peer = x.peer
          \/ \E c \in v.claims : /\ c.dev = x.dev /\ c.peer = x.peer
                                 /\ c.dev \in D /\ Len(c.root) <= v.cursor[c.dev]
                                 /\ ~Differs(v, c.dev, c.root)
    BY <1>4, <1>10, JudgeClaimsIs
  <2> QED
    BY <1>11, <2>1, <2>2, <2>3
<1>13. \A d \in Dev : /\ s.cursor[d] \in Nat /\ cursor[d] \in Nat
                      /\ Len(s.floor[d]) \in Nat /\ s.cursor[d] <= cursor[d]
                      /\ Len(s.floor[d]) <= cursor[d] /\ cursor[d] <= MaxSeq[d]
                      /\ d \in D => From(s, d) \in Nat /\ From(s, d) <= cursor[d]
                                    /\ s.cursor[d] <= From(s, d)
                                    /\ Len(s.floor[d]) <= From(s, d)
                      /\ d \notin D => cursor[d] = s.cursor[d]
  <2>1. SUFFICES ASSUME NEW d \in Dev
                 PROVE  /\ s.cursor[d] \in Nat /\ cursor[d] \in Nat
                        /\ Len(s.floor[d]) \in Nat /\ s.cursor[d] <= cursor[d]
                        /\ Len(s.floor[d]) <= cursor[d] /\ cursor[d] <= MaxSeq[d]
                        /\ d \in D => From(s, d) \in Nat /\ From(s, d) <= cursor[d]
                                      /\ s.cursor[d] <= From(s, d)
                                      /\ Len(s.floor[d]) <= From(s, d)
                        /\ d \notin D => cursor[d] = s.cursor[d]
    OBVIOUS
  <2>2. s.cursor[d] \in Nat /\ Len(s.floor[d]) \in Nat /\ s.cursor[d] <= MaxSeq[d]
        /\ MaxSeq[d] \in Nat
    BY <1>0, Bounds DEF Kept
  <2>3. CASE d \in D
    BY <1>1, <2>2, <2>3, RunEndIs
  <2>4. CASE d \notin D
    BY <1>1, <2>2, <2>4
  <2> QED
    BY <2>3, <2>4
<1>14. Low(t)
  BY <1>12, <1>13 DEF Low
<1>15. Kept(t)
  <2>1. ASSUME NEW p \in Pos, Len(s.floor[p[1]]) < p[2], p[2] <= cursor[p[1]]
        PROVE  v.rows[p].root # <<>>
    <3>1. p[1] \in Dev /\ p[2] \in Nat
      BY PosIs
    <3>2. CASE p[1] \in D /\ From(s, p[1]) < p[2]
      BY <1>11, <2>1, <3>2
    <3>3. CASE ~(p[1] \in D /\ From(s, p[1]) < p[2])
      <4>1. p[2] <= s.cursor[p[1]]
        BY <1>13, <2>1, <3>1, <3>3 DEF From
      <4>2. s.rows[p].root # <<>>
        BY <2>1, <4>1 DEF Kept
      <4> QED
        BY <1>11, <3>3, <4>2
    <3> QED
      BY <3>2, <3>3
  <2>2. ASSUME NEW p \in Pos, Len(s.floor[p[1]]) < p[2], cursor[p[1]] < p[2]
        PROVE  v.rows[p].root = <<>>
    <3>1. p[1] \in Dev /\ p[2] \in Nat
      BY PosIs
    <3>2. s.cursor[p[1]] < p[2] /\ ~(p[2] <= cursor[p[1]])
      BY <1>13, <2>2, <3>1
    <3> QED
      BY <1>11, <2>2, <3>2 DEF Kept
  <2>3. ASSUME NEW c \in t.claims
        PROVE  cursor[c.dev] < Len(c.root) /\ Len(s.floor[c.dev]) < Len(c.root)
    <3>1. c \in s.claims /\ (c.dev \in D => Len(c.root) > cursor[c.dev])
      BY <1>12, <2>3
    <3>2. c.dev \in Dev /\ Len(c.root) \in Nat
      BY <1>0, <3>1
    <3> QED
      BY <1>13, <3>1, <3>2 DEF Kept
  <2> QED
    BY <1>12, <1>13, <2>1, <2>2, <2>3 DEF Kept
<1>16. Steady(s, t)
  <2>1. SUFFICES ASSUME NEW d \in Dev, NEW n \in Nat, Reached(s, d, n), HasRoot(t, d, n)
                 PROVE  HasRoot(s, d, n) /\ RootAt(t, d, n) = RootAt(s, d, n)
    BY DEF Steady
  <2>2. ~(d \in D /\ From(s, d) < n)
    BY <1>13, <2>1 DEF Reached
  <2>3. <<d, n>> \in Pos => /\ t.rows[<<d, n>>].by = s.rows[<<d, n>>].by
                            /\ t.rows[<<d, n>>].root = s.rows[<<d, n>>].root
    BY <1>11, <1>12, <2>2
  <2>4. RootAt(t, d, n) = RootAt(s, d, n)
    BY <1>12, <2>3 DEF RootAt, Holds
  <2> QED
    BY <2>1, <2>4 DEF HasRoot
<1>17. Grown(s, t)
  BY <1>11, <1>12, <1>13, PosIs DEF Grown, Taken, Holds
<1>18. \A d, root : Differs(t, d, root) <=> Differs(v, d, root)
  BY <1>11, <1>12 DEF Differs, HasRoot, RootAt, Holds
<1>19. Judged(s, t)
  <2>1. ASSUME NEW c \in s.claims PROVE c \in t.claims \/ Settles(t, c)
    <3>1. CASE c.dev \in D /\ Len(c.root) <= cursor[c.dev]
      BY <1>12, <1>18, <2>1, <3>1 DEF Settles, Reached
    <3>2. CASE ~(c.dev \in D /\ Len(c.root) <= cursor[c.dev])
      <4>1. c.dev \in D => Len(c.root) > cursor[c.dev]
        BY <1>0, <1>13, <2>1, <3>2
      <4> QED
        BY <1>12, <2>1, <4>1
    <3> QED
      BY <3>1, <3>2
  <2>2. ASSUME NEW x \in s.div
        PROVE  \/ \E y \in t.div : y.dev = x.dev /\ y.peer = x.peer
               \/ \E c \in s.claims : /\ c.dev = x.dev /\ c.peer = x.peer
                                      /\ Reached(t, c.dev, Len(c.root))
                                      /\ ~Differs(t, c.dev, c.root)
    BY <1>12, <1>18, <2>2 DEF Reached
  <2> QED
    BY <2>1, <2>2 DEF Judged
<1> QED
  BY <1>11, <1>12, <1>14, <1>15, <1>16, <1>17, <1>19

-----------------------------------------------------------------------------
(* A row that enters the log, at a position that is neither held nor covered. *)

\* Only replicas sign.
LEMMA SignedByReplicas ==
    ASSUME NEW W, WireOK(W), NEW d, NEW n
    PROVE  Signed(W, d, n) \subseteq Replica
  BY DEF WireOK, OpOK, Signed

\* The row is new: nothing that was read before changes.
LEMMA InsertIs ==
    ASSUME NEW W, NEW s, Sound(W, s), Kept(s), Low(s), NEW d \in Dev, NEW n \in 1..MaxSeq[d],
           ~Taken(s, d, n), NEW h \in Replica, h \in Signed(W, d, n),
           NEW t, t = [s EXCEPT !.rows[<<d, n>>].by = h]
    PROVE  /\ Sound(W, t) /\ Kept(t) /\ Low(t)
           /\ t.floor = s.floor /\ t.cursor = s.cursor /\ t.expect = s.expect
           /\ t.forks = s.forks /\ t.claims = s.claims /\ t.div = s.div
           /\ t.acks = s.acks /\ t.sent = s.sent
           /\ t.rows[<<d, n>>].by = h
           /\ \A p \in Pos : p # <<d, n>> => t.rows[p] = s.rows[p]
           /\ Grown(s, t) /\ Steady(s, t)
<1>0. /\ s \in Vault /\ s.cursor \in [Dev -> Nat] /\ s.floor \in [Dev -> Seq(Replica)]
      /\ s.rows \in [Pos -> [by : Replica \cup {None}, root : Seq(Replica)]]
  BY DEF Sound, Vault
<1>1. <<d, n>> \in Pos /\ n \in Nat
  BY PosIs
<1>2. PICK rows : rows = [s.rows EXCEPT ![<<d, n>>].by = h]
  OBVIOUS
<1>3. /\ rows \in [Pos -> [by : Replica \cup {None}, root : Seq(Replica)]]
      /\ rows[<<d, n>>].by = h /\ rows[<<d, n>>].root = s.rows[<<d, n>>].root
      /\ \A p \in Pos : p # <<d, n>> => rows[p] = s.rows[p]
  BY <1>0, <1>1, <1>2
<1>4. t = [s EXCEPT !.rows = rows]
  BY <1>0, <1>2 DEF Vault
<1>5. /\ t \in Vault /\ t.rows = rows /\ t.floor = s.floor /\ t.cursor = s.cursor
      /\ t.expect = s.expect /\ t.forks = s.forks /\ t.claims = s.claims
      /\ t.div = s.div /\ t.acks = s.acks /\ t.sent = s.sent
  BY <1>0, <1>3, <1>4 DEF Vault
<1>6. s.rows[<<d, n>>].by = None /\ n > Len(s.floor[d])
  BY <1>0, <1>1 DEF Taken, Holds
<1>7. s.rows[<<d, n>>].root = <<>> /\ rows[<<d, n>>].root = <<>>
  BY <1>1, <1>3, <1>6 DEF Sound, RowsOK
<1>8. \A p \in Pos : rows[p].root = s.rows[p].root
  BY <1>3
<1>9. RowsOK(W, t)
  <2>1. SUFFICES ASSUME NEW p \in Pos
                 PROVE  /\ rows[p].by # None => rows[p].by \in Signed(W, p[1], p[2])
                        /\ rows[p].root # <<>> =>
                             /\ rows[p].by # None
                             /\ Len(rows[p].root) = p[2] /\ Last(rows[p].root) = rows[p].by
                             /\ ChainOK(W, p[1], rows[p].root)
    BY <1>5 DEF RowsOK
  <2>2. CASE p = <<d, n>>
    BY <1>3, <1>7, <2>2
  <2>3. CASE p # <<d, n>>
    <3>1. rows[p] = s.rows[p]
      BY <1>3, <2>3
    <3> QED
      BY <3>1 DEF Sound, RowsOK
  <2> QED
    BY <2>2, <2>3
<1>10. Sound(W, t)
  <2>1. /\ FloorOK(W, t) /\ ClaimsOK(W, t) /\ ExpectOK(W, t) /\ ForksOK(W, t) /\ DivOK(W, t)
    BY <1>5 DEF Sound, FloorOK, ClaimsOK, ExpectOK, ForksOK, DivOK
  <2> QED
    BY <1>5, <1>9, <2>1 DEF Sound
<1>11. Kept(t) /\ Low(t)
  BY <1>5, <1>8 DEF Kept, Low
<1>12. Grown(s, t)
  <2>1. \A e \in Dev : s.cursor[e] <= t.cursor[e] /\ Len(s.floor[e]) <= Len(t.floor[e])
    BY <1>0, <1>5
  <2>2. ASSUME NEW p \in Pos
        PROVE  /\ Taken(s, p[1], p[2]) => Taken(t, p[1], p[2])
               /\ (Taken(s, p[1], p[2]) /\ t.rows[p].by # None) => t.rows[p].by = s.rows[p].by
    <3>1. p = <<p[1], p[2]>>
      BY PosIs
    <3>2. CASE p = <<d, n>>
      BY <3>2
    <3>3. CASE p # <<d, n>>
      BY <1>3, <1>5, <3>1, <3>3 DEF Taken, Holds
    <3> QED
      BY <3>2, <3>3
  <2> QED
    BY <2>1, <2>2 DEF Grown
<1>13. Steady(s, t)
  <2>1. ASSUME NEW e \in Dev, NEW m \in Nat PROVE RootAt(t, e, m) = RootAt(s, e, m)
    <3>1. (Holds(t, e, m) /\ t.rows[<<e, m>>].root # <<>>) <=>
            (Holds(s, e, m) /\ s.rows[<<e, m>>].root # <<>>)
      BY <1>3, <1>5, <1>7 DEF Holds
    <3>2. <<e, m>> \in Pos => t.rows[<<e, m>>].root = s.rows[<<e, m>>].root
      BY <1>5, <1>8
    <3> QED
      BY <1>5, <3>1, <3>2 DEF RootAt, Holds
  <2> QED
    BY <2>1 DEF Steady, HasRoot
<1> QED
  BY <1>3, <1>5, <1>10, <1>11, <1>12, <1>13

-----------------------------------------------------------------------------
(* check_links. *)

\* What an op names was signed.
LEMMA NamesAreSigned ==
    ASSUME NEW W, WireOK(W), NEW o \in W, NEW x \in Names(o)
    PROVE  /\ x.dev \in Dev /\ x.seq \in Nat /\ x.by \in Replica
           /\ x.by \in Signed(W, x.dev, x.seq) /\ x.kind \in {"link", "head"}
<1>1. OpOK(W, o)
  BY DEF WireOK
<1>2. CASE x \in {[dev |-> o.dev, seq |-> o.seq - 1, by |-> h, kind |-> "link"] :
                    h \in {o.prev} \ {None}}
  <2>1. /\ o.prev # None /\ x.dev = o.dev /\ x.seq = o.seq - 1 /\ x.by = o.prev
        /\ x.kind = "link"
    BY <1>2
  <2>2. o.prev \in Signed(W, o.dev, o.seq - 1) /\ o.seq \in Nat /\ o.seq > 1 /\ o.dev \in Dev
    BY <1>1, <2>1 DEF OpOK
  <2> QED
    BY <2>1, <2>2, SignedByReplicas
<1>3. CASE x \in {[dev |-> h.dev, seq |-> h.seq, by |-> h.by, kind |-> "head"] : h \in o.heads}
  <2>1. PICK h \in o.heads : x.dev = h.dev /\ x.seq = h.seq /\ x.by = h.by /\ x.kind = "head"
    BY <1>3
  <2>2. h.dev \in Dev /\ h.seq \in Nat /\ h.by \in Signed(W, h.dev, h.seq)
    BY <1>1, <2>1 DEF OpOK
  <2> QED
    BY <2>1, <2>2, SignedByReplicas
<1> QED
  BY <1>2, <1>3 DEF Names

\* The rows of expectations that an op contradicts are true.
LEMMA ContradictedIsTrue ==
    ASSUME NEW W, NEW s, Sound(W, s), NEW d \in Dev, NEW n \in Nat, NEW h \in Replica,
           h \in Signed(W, d, n), NEW f \in Contradicted(s, d, n, h)
    PROVE  /\ f \in [dev : Dev, seq : Nat, kind : {"seq", "link", "head"},
                     held : Replica, other : Replica]
           /\ f.held # f.other
           /\ {f.held, f.other} \subseteq Signed(W, f.dev, f.seq)
<1>1. PICK x \in s.expect : /\ x.dev = d /\ x.seq = n /\ x.by # h
                            /\ f = ForkRow(d, n, NamerKind(x), h, x.by)
  BY DEF Contradicted, Named
<1>2. x.by \in Replica /\ x.by \in Signed(W, d, n)
  BY <1>1 DEF Sound, Vault, ExpectOK
<1>3. NamerKind(x) \in {"seq", "link", "head"}
  BY DEF NamerKind
<1> QED
  BY <1>1, <1>2, <1>3 DEF ForkRow

\* Each name leaves a true fork row or a true expectation, and the link is in order.
LEMMA CheckNamesIs ==
    ASSUME NEW W, WireOK(W), NEW s, Sound(W, s), NEW o \in W, NEW t, t = CheckNames(s, o)
    PROVE  /\ Sound(W, t)
           /\ t.rows = s.rows /\ t.floor = s.floor /\ t.cursor = s.cursor
           /\ t.claims = s.claims /\ t.div = s.div /\ t.acks = s.acks /\ t.sent = s.sent
           /\ s.forks \subseteq t.forks /\ s.expect \subseteq t.expect
           /\ o.prev # None => LinkOK(t, o)
<1>0. /\ s \in Vault
      /\ s.expect \subseteq [dev : Dev, seq : Nat, by : Replica, namer : Pos]
      /\ s.forks \subseteq [dev : Dev, seq : Nat, kind : {"seq", "link", "head"},
                            held : Replica, other : Replica]
  BY DEF Sound, Vault
<1> DEFINE wrong == {x \in Names(o) : HeldHash(s, x.dev, x.seq) \notin {None, x.by}}
           missing == {x \in Names(o) : /\ HeldHash(s, x.dev, x.seq) = None
                                        /\ x.seq >= Len(s.floor[x.dev])}
           row(x) == ForkRow(x.dev, x.seq, x.kind, HeldHash(s, x.dev, x.seq), x.by)
           name(x) == [dev |-> x.dev, seq |-> x.seq, by |-> x.by, namer |-> <<o.dev, o.seq>>]
           forks == s.forks \cup {row(x) : x \in wrong}
           expect == s.expect \cup {name(x) : x \in missing}
<1>1. t = [s EXCEPT !.forks = forks, !.expect = expect]
  BY DEF CheckNames
<1>2. \A x \in wrong : /\ row(x) \in [dev : Dev, seq : Nat, kind : {"seq", "link", "head"},
                                      held : Replica, other : Replica]
                       /\ row(x).held # row(x).other
                       /\ row(x).held \in Signed(W, row(x).dev, row(x).seq)
                       /\ row(x).other \in Signed(W, row(x).dev, row(x).seq)
                       /\ row(x) \in forks /\ row(x).dev = x.dev /\ row(x).seq = x.seq
  <2>1. SUFFICES ASSUME NEW x \in wrong
                 PROVE  /\ row(x) \in [dev : Dev, seq : Nat, kind : {"seq", "link", "head"},
                                       held : Replica, other : Replica]
                        /\ row(x).held # row(x).other
                        /\ row(x).held \in Signed(W, row(x).dev, row(x).seq)
                        /\ row(x).other \in Signed(W, row(x).dev, row(x).seq)
                        /\ row(x) \in forks /\ row(x).dev = x.dev /\ row(x).seq = x.seq
    OBVIOUS
  <2>2. x \in Names(o) /\ HeldHash(s, x.dev, x.seq) # None /\ HeldHash(s, x.dev, x.seq) # x.by
    OBVIOUS
  <2>3. /\ x.dev \in Dev /\ x.seq \in Nat /\ x.by \in Replica
        /\ x.by \in Signed(W, x.dev, x.seq) /\ x.kind \in {"link", "head"}
    BY <2>2, NamesAreSigned
  <2>4. /\ HeldHash(s, x.dev, x.seq) \in Replica
        /\ HeldHash(s, x.dev, x.seq) \in Signed(W, x.dev, x.seq)
    BY <2>2, <2>3, HeldHashIs
  <2> QED
    BY <2>2, <2>3, <2>4 DEF ForkRow
<1>3. \A x \in missing : /\ name(x) \in [dev : Dev, seq : Nat, by : Replica, namer : Pos]
                         /\ name(x).by \in Signed(W, name(x).dev, name(x).seq)
                         /\ name(x) \in expect
  <2>1. <<o.dev, o.seq>> \in Pos
    BY PosIs DEF WireOK, OpOK
  <2> QED
    BY <2>1, NamesAreSigned
<1>4. \A f \in forks : f \in s.forks \/ \E x \in wrong : f = row(x)
  OBVIOUS
<1>5. \A e \in expect : e \in s.expect \/ \E x \in missing : e = name(x)
  OBVIOUS
<1>6. s.forks \subseteq forks /\ s.expect \subseteq expect
  OBVIOUS
<1>7. \A x \in Names(o) :
        /\ HeldHash(s, x.dev, x.seq) \notin {None, x.by} =>
             \E f \in forks : f.dev = x.dev /\ f.seq = x.seq
        /\ (HeldHash(s, x.dev, x.seq) = None /\ x.seq >= Len(s.floor[x.dev])) =>
             \E e \in expect : /\ e.dev = x.dev /\ e.seq = x.seq /\ e.by = x.by
                               /\ e.namer = <<o.dev, o.seq>>
  <2>1. ASSUME NEW x \in Names(o), HeldHash(s, x.dev, x.seq) \notin {None, x.by}
        PROVE  \E f \in forks : f.dev = x.dev /\ f.seq = x.seq
    BY <1>2, <2>1
  <2>2. ASSUME NEW x \in Names(o), HeldHash(s, x.dev, x.seq) = None,
               x.seq >= Len(s.floor[x.dev])
        PROVE  \E e \in expect : /\ e.dev = x.dev /\ e.seq = x.seq /\ e.by = x.by
                                 /\ e.namer = <<o.dev, o.seq>>
    <3>1. name(x) \in expect /\ name(x).dev = x.dev /\ name(x).seq = x.seq
          /\ name(x).by = x.by /\ name(x).namer = <<o.dev, o.seq>>
      BY <2>2
    <3> QED
      BY <3>1
  <2> QED
    BY <2>1, <2>2
<1> HIDE DEF wrong, missing, row, name, forks, expect
<1>8. /\ forks \subseteq [dev : Dev, seq : Nat, kind : {"seq", "link", "head"},
                          held : Replica, other : Replica]
      /\ expect \subseteq [dev : Dev, seq : Nat, by : Replica, namer : Pos]
  BY <1>0, <1>2, <1>3, <1>4, <1>5
<1>9. /\ t \in Vault /\ t.rows = s.rows /\ t.floor = s.floor /\ t.cursor = s.cursor
      /\ t.expect = expect /\ t.forks = forks /\ t.claims = s.claims
      /\ t.div = s.div /\ t.acks = s.acks /\ t.sent = s.sent
  BY <1>0, <1>1, <1>8 DEF Vault
<1>10. ForksOK(W, t) /\ ExpectOK(W, t)
  BY <1>2, <1>3, <1>4, <1>5, <1>9 DEF Sound, ForksOK, ExpectOK
<1>11. Sound(W, t)
  <2>1. RowsOK(W, t) /\ FloorOK(W, t) /\ ClaimsOK(W, t) /\ DivOK(W, t)
    BY <1>9 DEF Sound, RowsOK, FloorOK, ClaimsOK, DivOK
  <2> QED
    BY <1>9, <1>10, <2>1 DEF Sound
<1>12. ASSUME o.prev # None PROVE LinkOK(t, o)
  <2>1. PICK m : m = o.seq - 1
    OBVIOUS
  <2>2. PICK x \in Names(o) : x.dev = o.dev /\ x.seq = m /\ x.by = o.prev
    <3>1. [dev |-> o.dev, seq |-> o.seq - 1, by |-> o.prev, kind |-> "link"] \in Names(o)
      BY <1>12 DEF Names
    <3> QED
      BY <2>1, <3>1
  <2>3. CASE Holds(s, o.dev, m)
    <3>1. HeldHash(s, o.dev, m) = s.rows[<<o.dev, m>>].by /\ Holds(t, o.dev, m)
          /\ HeldHash(s, o.dev, m) # None
      BY <1>9, <2>3 DEF HeldHash, Holds
    <3>2. \/ s.rows[<<o.dev, m>>].by = o.prev
          \/ \E f \in forks : f.dev = o.dev /\ f.seq = m
      BY <1>7, <2>2, <3>1
    <3> QED
      BY <1>9, <2>1, <3>1, <3>2 DEF LinkOK
  <2>4. CASE ~Holds(s, o.dev, m)
    <3>0. m \in Nat /\ m > 0 /\ Len(s.floor[o.dev]) \in Nat
      BY <1>0, <1>12, <2>1 DEF WireOK, OpOK, Vault
    <3>1. CASE m <= Len(s.floor[o.dev])
      BY <1>9, <2>1, <2>4, <3>1 DEF LinkOK, Holds
    <3>2. CASE ~(m <= Len(s.floor[o.dev]))
      <4>1. HeldHash(s, o.dev, m) = None /\ m >= Len(s.floor[o.dev])
        BY <2>4, <3>0, <3>2 DEF HeldHash
      <4>2. \E e \in expect : /\ e.dev = o.dev /\ e.seq = m /\ e.by = o.prev
                              /\ e.namer = <<o.dev, o.seq>>
        BY <1>7, <2>2, <4>1
      <4> QED
        BY <1>9, <2>1, <2>4, <4>2 DEF LinkOK, Holds
    <3> QED
      BY <3>1, <3>2
  <2> QED
    BY <2>3, <2>4
<1> QED
  BY <1>6, <1>9, <1>11, <1>12

\* The op at (o.dev, o.seq) is what was expected there, or a fork row says so.
LEMMA CheckLinksIs ==
    ASSUME NEW W, WireOK(W), NEW s, Sound(W, s), NEW o \in W, NEW t, t = CheckLinks(s, o)
    PROVE  /\ Sound(W, t)
           /\ t.rows = s.rows /\ t.floor = s.floor /\ t.cursor = s.cursor
           /\ t.claims = s.claims /\ t.div = s.div /\ t.acks = s.acks /\ t.sent = s.sent
           /\ s.forks \subseteq t.forks
           /\ o.prev # None => LinkOK(t, o)
           /\ \A x \in s.expect : x \in t.expect \/ (x.dev = o.dev /\ x.seq = o.seq)
           /\ \A x \in s.expect :
                (/\ x.dev = o.dev /\ x.seq = o.seq /\ x.by # o.by
                 /\ Holds(s, x.namer[1], x.namer[2]))
                => \E f \in t.forks : f.dev = o.dev /\ f.seq = o.seq
<1>0. /\ s \in Vault
      /\ s.expect \subseteq [dev : Dev, seq : Nat, by : Replica, namer : Pos]
      /\ s.forks \subseteq [dev : Dev, seq : Nat, kind : {"seq", "link", "head"},
                            held : Replica, other : Replica]
  BY DEF Sound, Vault
<1>1. PICK forks : forks = s.forks \cup Contradicted(s, o.dev, o.seq, o.by)
  OBVIOUS
<1>2. PICK expect : expect = s.expect \ Named(s, o.dev, o.seq)
  OBVIOUS
<1>3. PICK u : u = [s EXCEPT !.forks = forks, !.expect = expect]
  OBVIOUS
<1>4. t = CheckNames(u, o)
  BY <1>1, <1>2, <1>3 DEF CheckLinks
<1>5. /\ o.dev \in Dev /\ o.seq \in Nat /\ o.by \in Replica
      /\ o.by \in Signed(W, o.dev, o.seq)
  BY DEF WireOK, OpOK, Signed
<1>6. /\ forks \subseteq [dev : Dev, seq : Nat, kind : {"seq", "link", "head"},
                          held : Replica, other : Replica]
      /\ expect \subseteq s.expect
      /\ expect \subseteq [dev : Dev, seq : Nat, by : Replica, namer : Pos]
  BY <1>0, <1>1, <1>2, <1>5, ContradictedIsTrue
<1>7. /\ u \in Vault /\ u.rows = s.rows /\ u.floor = s.floor /\ u.cursor = s.cursor
      /\ u.expect = expect /\ u.forks = forks /\ u.claims = s.claims
      /\ u.div = s.div /\ u.acks = s.acks /\ u.sent = s.sent
  BY <1>0, <1>3, <1>6 DEF Vault
<1>8. Sound(W, u)
  <2>1. RowsOK(W, u) /\ FloorOK(W, u) /\ ClaimsOK(W, u) /\ DivOK(W, u) /\ ExpectOK(W, u)
    BY <1>6, <1>7 DEF Sound, RowsOK, FloorOK, ClaimsOK, DivOK, ExpectOK
  <2>2. ForksOK(W, u)
    BY <1>1, <1>5, <1>7, ContradictedIsTrue DEF Sound, ForksOK
  <2> QED
    BY <1>7, <2>1, <2>2 DEF Sound
<1>9. /\ Sound(W, t)
      /\ t.rows = u.rows /\ t.floor = u.floor /\ t.cursor = u.cursor
      /\ t.claims = u.claims /\ t.div = u.div /\ t.acks = u.acks /\ t.sent = u.sent
      /\ u.forks \subseteq t.forks /\ u.expect \subseteq t.expect
      /\ o.prev # None => LinkOK(t, o)
  BY <1>4, <1>8, CheckNamesIs
<1>10. ASSUME NEW x \in s.expect, x \notin t.expect
       PROVE  x.dev = o.dev /\ x.seq = o.seq
  BY <1>2, <1>7, <1>9, <1>10 DEF Named
<1>11. ASSUME NEW x \in s.expect, x.dev = o.dev, x.seq = o.seq, x.by # o.by,
              Holds(s, x.namer[1], x.namer[2])
       PROVE  \E f \in t.forks : f.dev = o.dev /\ f.seq = o.seq
  <2>1. ForkRow(o.dev, o.seq, NamerKind(x), o.by, x.by)
          \in Contradicted(s, o.dev, o.seq, o.by)
    BY <1>11 DEF Contradicted, Named
  <2>2. /\ ForkRow(o.dev, o.seq, NamerKind(x), o.by, x.by).dev = o.dev
        /\ ForkRow(o.dev, o.seq, NamerKind(x), o.by, x.by).seq = o.seq
    BY DEF ForkRow
  <2> QED
    BY <1>1, <1>7, <1>9, <2>1, <2>2
<1> QED
  BY <1>1, <1>7, <1>9, <1>10, <1>11

-----------------------------------------------------------------------------
(* reconcile. *)

\* What a digest with this root for d leaves.
Replies(t, peer, d, root) ==
    \/ \E x \in t.div : x.dev = d /\ x.peer = peer
    \/ \E c \in t.claims : c.dev = d /\ c.peer = peer
    \/ Reached(t, d, Len(root)) /\ ~Differs(t, d, root)

\* A digest is judged where it can be, else claimed, and what it settles is answered.
LEMMA ReconcileIs ==
    ASSUME NEW W, NEW s, Sound(W, s), Kept(s), Low(s), NEW peer \in Dev,
           NEW front, FrontOK(W, front), NEW t, t = Reconcile(s, peer, front)
    PROVE  /\ Sound(W, t) /\ Kept(t) /\ Low(t)
           /\ t.rows = s.rows /\ t.floor = s.floor /\ t.cursor = s.cursor
           /\ t.expect = s.expect /\ t.forks = s.forks /\ t.sent = s.sent
           /\ \A k \in Dev, d \in Dev :
                \/ t.acks[k][d] = s.acks[k][d]
                \/ k = peer /\ t.acks[k][d] = Len(front[d])
           /\ \A c \in t.claims : c \in s.claims \/ /\ c.peer = peer
                                                    /\ c.root = front[c.dev]
           /\ \A c \in s.claims : \E e \in t.claims : e.dev = c.dev /\ e.peer = c.peer
           /\ \A d \in Dev : front[d] # <<>> => Replies(t, peer, d, front[d])
           /\ \A x \in s.div :
                \/ \E y \in t.div : y.dev = x.dev /\ y.peer = x.peer
                \/ /\ x.peer = peer /\ front[x.dev] # <<>>
                   /\ Reached(t, x.dev, Len(front[x.dev]))
                   /\ ~Differs(t, x.dev, front[x.dev])
<1>0. /\ s \in Vault /\ s.cursor \in [Dev -> Nat]
      /\ s.claims \in SUBSET [dev : Dev, peer : Dev, root : Seq(Replica)]
      /\ s.acks \in [Dev -> [Dev -> Nat]]
      /\ s.div \in SUBSET [dev : Dev, peer : Dev, seq : Nat]
      /\ \A d \in Dev : front[d] \in Seq(Replica) /\ Len(front[d]) \in Nat
      /\ \A d \in Dev : ChainOK(W, d, front[d])
  <2>1. /\ s \in Vault /\ s.cursor \in [Dev -> Nat]
        /\ s.claims \in SUBSET [dev : Dev, peer : Dev, root : Seq(Replica)]
        /\ s.acks \in [Dev -> [Dev -> Nat]]
        /\ s.div \in SUBSET [dev : Dev, peer : Dev, seq : Nat]
    BY DEF Sound, Vault
  <2>2. front \in [Dev -> Seq(Replica)] /\ \A d \in Dev : ChainOK(W, d, front[d])
    BY DEF FrontOK
  <2> QED
    BY <2>1, <2>2
<1> DEFINE near == {d \in Dev : Len(front[d]) \in 1..s.cursor[d]}
           told == {c \in s.claims : c.peer = peer}
           far == {d \in Dev : /\ Len(front[d]) > s.cursor[d]
                               /\ \A c \in told : c.dev = d => Len(c.root) < Len(front[d])}
           known == {d \in near : HasRoot(s, d, Len(front[d]))}
           held(d) == Against(Claim(d, peer, front[d]), RootAt(s, d, Len(front[d])))
           C == {held(d) : d \in known}
           claims == {c \in s.claims : c.peer = peer => c.dev \notin far}
                        \cup {Claim(d, peer, front[d]) : d \in far}
           mine == [d \in Dev |-> Max({s.acks[peer][d], Len(front[d])})]
<1>1. FoldChain(s, {d \in near : ~HasRoot(s, d, Len(front[d]))}) = s
  BY FoldIdle
<1>2. t = [Judge(s, C) EXCEPT !.claims = {c \in @ : c.peer = peer => c.dev \notin far}
                                            \cup {Claim(d, peer, front[d]) : d \in far},
                              !.acks[peer] = [d \in Dev |-> Max({@[d], Len(front[d])})]]
  BY <1>1 DEF Reconcile
<1>3. \A d \in known : /\ d \in Dev /\ Len(front[d]) \in 1..s.cursor[d]
                       /\ HasRoot(s, d, Len(front[d])) /\ held(d) \in C
                       /\ held(d).dev = d /\ held(d).peer = peer
                       /\ held(d).root = front[d]
                       /\ held(d).held = RootAt(s, d, Len(front[d]))
  BY DEF Against, Claim
<1>4. \A e \in C : \E d \in known : e = held(d)
  OBVIOUS
<1>5. \A d \in far : /\ d \in Dev /\ s.cursor[d] < Len(front[d])
                     /\ Claim(d, peer, front[d]) \in claims
                     /\ Claim(d, peer, front[d]).dev = d
                     /\ Claim(d, peer, front[d]).peer = peer
                     /\ Claim(d, peer, front[d]).root = front[d]
                     /\ Claim(d, peer, front[d]) \in [dev : Dev, peer : Dev, root : Seq(Replica)]
  BY <1>0 DEF Claim
<1>6. \A c \in claims : c \in s.claims \/ \E d \in far : c = Claim(d, peer, front[d])
  OBVIOUS
<1>7. \A c \in s.claims : c \in claims \/ (c.peer = peer /\ c.dev \in far)
  OBVIOUS
<1>8. \A d \in Dev : \/ d \in near \/ d \in far \/ front[d] = <<>>
                     \/ \E c \in s.claims : c.peer = peer /\ c.dev = d /\ d \notin far
  <2>1. SUFFICES ASSUME NEW d \in Dev, front[d] # <<>>, d \notin near, d \notin far
                 PROVE  \E c \in s.claims : c.peer = peer /\ c.dev = d
    OBVIOUS
  <2>2. Len(front[d]) > 0 /\ s.cursor[d] \in Nat
    BY <1>0, <2>1
  <2>3. Len(front[d]) > s.cursor[d]
    BY <1>0, <2>1, <2>2
  <2> QED
    BY <2>1, <2>3
<1>9. \A d \in near : d \in known \/ ~HasRoot(s, d, Len(front[d]))
  OBVIOUS
<1>10. \A d \in near : Len(front[d]) <= s.cursor[d] /\ d \in Dev
  BY <1>0
<1> HIDE DEF near, far, known, C, held
<1>11. \A e \in C : /\ e.dev \in Dev /\ e.peer \in Dev
                    /\ ChainOK(W, e.dev, e.root) /\ ChainOK(W, e.dev, e.held)
                    /\ Len(e.root) = Len(e.held) /\ e.root \in Seq(Replica)
  <2>1. SUFFICES ASSUME NEW d \in known, NEW e, e = held(d)
                 PROVE  /\ e.dev \in Dev /\ e.peer \in Dev
                        /\ ChainOK(W, e.dev, e.root) /\ ChainOK(W, e.dev, e.held)
                        /\ Len(e.root) = Len(e.held) /\ e.root \in Seq(Replica)
    BY <1>4
  <2>2. e.dev = d /\ e.peer = peer /\ e.root = front[d] /\ d \in Dev
        /\ e.held = RootAt(s, d, Len(front[d])) /\ HasRoot(s, d, Len(front[d]))
    BY <1>3, <2>1
  <2>3. ChainOK(W, d, RootAt(s, d, Len(front[d])))
    BY <1>0, <2>2, RootIs
  <2> QED
    BY <1>0, <2>2, <2>3 DEF HasRoot
<1>12. PICK u : u = Judge(s, C)
  OBVIOUS
<1>13. s \in Vault
  BY <1>0
<1>14. Sound(W, u)
  BY <1>11, <1>12, JudgeSound
<1>15. /\ u \in Vault /\ u.rows = s.rows /\ u.floor = s.floor /\ u.cursor = s.cursor
       /\ u.expect = s.expect /\ u.forks = s.forks /\ u.claims = s.claims
       /\ u.acks = s.acks /\ u.sent = s.sent
  BY <1>0, <1>11, <1>12, JudgeFields
<1>16. claims \subseteq [dev : Dev, peer : Dev, root : Seq(Replica)]
  <2> HIDE DEF claims
  <2> QED
    BY <1>0, <1>5, <1>6
<1>17. \A d \in Dev : mine[d] \in Nat /\ mine[d] \in {s.acks[peer][d], Len(front[d])}
  <2>1. SUFFICES ASSUME NEW d \in Dev
                 PROVE  /\ Max({s.acks[peer][d], Len(front[d])}) \in
                             {s.acks[peer][d], Len(front[d])}
                        /\ Max({s.acks[peer][d], Len(front[d])}) \in Nat
    OBVIOUS
  <2>2. s.acks[peer][d] \in Nat /\ Len(front[d]) \in Nat
    BY <1>0
  <2>3. PICK N \in Nat : s.acks[peer][d] <= N /\ Len(front[d]) <= N
    <3>1. s.acks[peer][d] + Len(front[d]) \in Nat
      BY <2>2
    <3> QED
      BY <2>2, <3>1
  <2>4. {s.acks[peer][d], Len(front[d])} \subseteq 0..N
    BY <2>2, <2>3
  <2> QED
    BY <2>2, <2>4, MaxOfBounded
<1>18. mine \in [Dev -> Nat]
  BY <1>17
<1>19. t = [u EXCEPT !.claims = claims, !.acks = [s.acks EXCEPT ![peer] = mine]]
  BY <1>2, <1>12, <1>15 DEF Vault
<1> HIDE DEF claims, mine
<1>20. /\ t \in Vault /\ t.rows = s.rows /\ t.floor = s.floor /\ t.cursor = s.cursor
       /\ t.expect = s.expect /\ t.forks = s.forks /\ t.claims = claims
       /\ t.div = u.div /\ t.sent = s.sent /\ t.acks = [s.acks EXCEPT ![peer] = mine]
  <2>1. PICK acks : acks = [s.acks EXCEPT ![peer] = mine]
    OBVIOUS
  <2>2. acks \in [Dev -> [Dev -> Nat]]
    BY <1>0, <1>18, <2>1
  <2>3. t = [u EXCEPT !.claims = claims, !.acks = acks]
    BY <1>19, <2>1
  <2>4. u \in Vault /\ claims \in SUBSET [dev : Dev, peer : Dev, root : Seq(Replica)]
    BY <1>15, <1>16
  <2>5. t \in Vault
    BY <2>2, <2>3, <2>4 DEF Vault
  <2>6. /\ t.rows = u.rows /\ t.floor = u.floor /\ t.cursor = u.cursor
        /\ t.expect = u.expect /\ t.forks = u.forks /\ t.claims = claims
        /\ t.div = u.div /\ t.sent = u.sent /\ t.acks = acks
    BY <2>3, <2>4 DEF Vault
  <2> QED
    BY <1>15, <2>1, <2>5, <2>6
<1>21. \A k \in Dev, d \in Dev :
         \/ t.acks[k][d] = s.acks[k][d]
         \/ k = peer /\ t.acks[k][d] = Len(front[d])
  BY <1>0, <1>17, <1>20
<1>22. \A d, root : Differs(t, d, root) <=> Differs(s, d, root)
  BY <1>20 DEF Differs, HasRoot, RootAt, Holds
<1>23. \A c \in claims : c \in s.claims \/ /\ c.peer = peer /\ c.root = front[c.dev]
                                           /\ c.dev \in far
  BY <1>5, <1>6
<1>24. Sound(W, t)
  <2>1. RowsOK(W, t) /\ FloorOK(W, t) /\ DivOK(W, t) /\ ExpectOK(W, t) /\ ForksOK(W, t)
    BY <1>14, <1>15, <1>20 DEF Sound, RowsOK, FloorOK, DivOK, ExpectOK, ForksOK
  <2>2. ASSUME NEW c \in claims, c \notin s.claims
        PROVE  c.root # <<>> /\ ChainOK(W, c.dev, c.root)
    <3>1. c.root = front[c.dev] /\ c.dev \in Dev /\ s.cursor[c.dev] < Len(front[c.dev])
      BY <1>5, <1>23, <2>2
    <3>2. Len(front[c.dev]) # 0
      BY <1>0, <3>1
    <3> QED
      BY <1>0, <3>1, <3>2
  <2>3. ClaimsOK(W, t)
    BY <1>20, <2>2 DEF Sound, ClaimsOK
  <2> QED
    BY <1>20, <2>1, <2>3 DEF Sound
<1>25. Kept(t) /\ Low(t)
  <2>1. ASSUME NEW c \in claims
        PROVE  s.cursor[c.dev] < Len(c.root) /\ Len(s.floor[c.dev]) < Len(c.root)
    <3>1. CASE c \in s.claims
      BY <3>1 DEF Kept
    <3>2. CASE c \notin s.claims
      <4>1. c.root = front[c.dev] /\ c.dev \in Dev /\ s.cursor[c.dev] < Len(front[c.dev])
        BY <1>5, <1>23, <2>1, <3>2
      <4>2. Len(s.floor[c.dev]) <= s.cursor[c.dev] /\ Len(s.floor[c.dev]) \in Nat
        BY <4>1 DEF Low, Sound, Vault
      <4> QED
        BY <1>0, <4>1, <4>2
    <3> QED
      BY <3>1, <3>2
  <2> QED
    BY <1>20, <2>1 DEF Kept, Low
<1>26. ASSUME NEW d \in known, front[d] # RootAt(s, d, Len(front[d]))
       PROVE  \E x \in t.div : x.dev = d /\ x.peer = peer
  <2>1. /\ held(d) \in C /\ held(d).root # held(d).held
        /\ held(d).dev = d /\ held(d).peer = peer
    BY <1>3, <1>26
  <2>2. \A c \in C : c.root # c.held =>
          \E x \in u.div : x.dev = c.dev /\ x.peer = c.peer
    BY <1>12, <1>13, JudgeDiv
  <2> QED
    BY <1>20, <2>1, <2>2
<1>27. ASSUME NEW d \in Dev, front[d] # <<>>
       PROVE  \/ \E x \in t.div : x.dev = d /\ x.peer = peer
              \/ \E c \in t.claims : c.dev = d /\ c.peer = peer
              \/ Reached(t, d, Len(front[d])) /\ ~Differs(t, d, front[d])
  <2>1. CASE d \in near
    <3>1. Reached(t, d, Len(front[d]))
      BY <1>10, <1>20, <2>1 DEF Reached
    <3>2. CASE ~HasRoot(s, d, Len(front[d]))
      BY <1>22, <3>1, <3>2 DEF Differs
    <3>3. CASE front[d] = RootAt(s, d, Len(front[d]))
      BY <1>22, <3>1, <3>3 DEF Differs
    <3> QED
      BY <1>9, <1>26, <2>1, <3>2, <3>3
  <2>2. CASE d \in far
    BY <1>5, <1>20, <2>2
  <2>3. ASSUME NEW c \in s.claims, c.peer = peer, c.dev = d, d \notin far
        PROVE  \E e \in t.claims : e.dev = d /\ e.peer = peer
    BY <1>7, <1>20, <2>3
  <2> QED
    BY <1>8, <1>27, <2>1, <2>2, <2>3
<1>28. ASSUME NEW c \in s.claims
       PROVE  \E e \in t.claims : e.dev = c.dev /\ e.peer = c.peer
  BY <1>5, <1>7, <1>20
<1>29. ASSUME NEW x \in s.div
       PROVE  \/ \E y \in t.div : y.dev = x.dev /\ y.peer = x.peer
              \/ /\ x.peer = peer /\ front[x.dev] # <<>>
                 /\ Reached(t, x.dev, Len(front[x.dev]))
                 /\ ~Differs(t, x.dev, front[x.dev])
  <2>1. \/ \E y \in t.div : y.dev = x.dev /\ y.peer = x.peer
        \/ \E e \in C : e.root = e.held /\ e.dev = x.dev /\ e.peer = x.peer
    <3>1. \A z \in s.div :
            \/ \E y \in u.div : y.dev = z.dev /\ y.peer = z.peer
            \/ \E c \in C : c.root = c.held /\ c.dev = z.dev /\ c.peer = z.peer
      BY <1>12, <1>13, JudgeDiv
    <3> QED
      BY <1>20, <1>29, <3>1
  <2>2. ASSUME NEW d \in known, NEW e, e = held(d), e.root = e.held,
               e.dev = x.dev, e.peer = x.peer
        PROVE  /\ x.peer = peer /\ front[x.dev] # <<>>
               /\ Reached(t, x.dev, Len(front[x.dev]))
               /\ ~Differs(t, x.dev, front[x.dev])
    <3>1. /\ d = x.dev /\ x.peer = peer /\ Len(front[d]) \in 1..s.cursor[d]
          /\ front[d] = RootAt(s, d, Len(front[d])) /\ d \in Dev
      BY <1>3, <2>2
    <3>2. Len(front[d]) # 0 /\ Len(front[d]) <= s.cursor[d]
      BY <1>0, <3>1
    <3>3. front[d] # <<>> /\ Reached(t, d, Len(front[d]))
      BY <1>20, <3>2 DEF Reached
    <3> QED
      BY <1>22, <3>1, <3>3 DEF Differs
  <2> QED
    BY <1>4, <2>1, <2>2
<1>30. \A c \in t.claims : c \in s.claims \/ /\ c.peer = peer /\ c.root = front[c.dev]
  BY <1>20, <1>23
<1>31. \A d \in Dev : front[d] # <<>> => Replies(t, peer, d, front[d])
  BY <1>27 DEF Replies
<1> QED
  BY <1>20, <1>21, <1>24, <1>25, <1>28, <1>29, <1>30, <1>31

-----------------------------------------------------------------------------
(* Steps that follow one another, and what they do to a peer's digests. *)

\* Growth is transitive.
LEMMA GrownTrans ==
    ASSUME NEW s \in Vault, NEW u \in Vault, NEW t \in Vault, Grown(s, u), Grown(u, t)
    PROVE  Grown(s, t)
<1>1. ASSUME NEW d \in Dev
      PROVE  s.cursor[d] <= t.cursor[d] /\ Len(s.floor[d]) <= Len(t.floor[d])
  <2>1. \A v \in Vault : v.cursor \in [Dev -> Nat] /\ v.floor \in [Dev -> Seq(Replica)]
    BY DEF Vault
  <2>2. \A v \in Vault : v.cursor[d] \in Nat /\ Len(v.floor[d]) \in Nat
    BY <2>1
  <2>3. /\ s.cursor[d] <= u.cursor[d] /\ u.cursor[d] <= t.cursor[d]
        /\ Len(s.floor[d]) <= Len(u.floor[d]) /\ Len(u.floor[d]) <= Len(t.floor[d])
    BY DEF Grown
  <2>4. /\ s.cursor[d] \in Nat /\ u.cursor[d] \in Nat /\ t.cursor[d] \in Nat
        /\ Len(s.floor[d]) \in Nat /\ Len(u.floor[d]) \in Nat /\ Len(t.floor[d]) \in Nat
    BY <2>2
  <2>5. \A a, b, c \in Nat : (a <= b /\ b <= c) => a <= c
    OBVIOUS
  <2> QED
    BY <2>3, <2>4, <2>5, Zenon
<1>2. ASSUME NEW p \in Pos
      PROVE  /\ Taken(s, p[1], p[2]) => Taken(t, p[1], p[2])
             /\ (Taken(s, p[1], p[2]) /\ t.rows[p].by # None) => t.rows[p].by = s.rows[p].by
  BY DEF Grown
<1> QED
  BY <1>1, <1>2 DEF Grown

\* What a prefix or a floor reached stays reached.
LEMMA ReachedGrows ==
    ASSUME NEW s \in Vault, NEW t \in Vault, Grown(s, t), NEW d \in Dev, NEW n \in Nat,
           Reached(s, d, n)
    PROVE  Reached(t, d, n)
<1>1. /\ s.cursor[d] \in Nat /\ t.cursor[d] \in Nat
      /\ Len(s.floor[d]) \in Nat /\ Len(t.floor[d]) \in Nat
  BY DEF Vault
<1> QED
  BY <1>1 DEF Grown, Reached

\* What was stated and answered before is stated and answered after.
Answers(W, s, t) ==
    ClaimsTold(W, s) =>
        /\ ClaimsTold(W, t)
        /\ \A peer \in Dev, d \in Dev : Answered(W, s, peer, d) => Answered(W, t, peer, d)

\* A digest that was read stays read.
LEMMA StatedGrows ==
    ASSUME NEW W, WireOK(W), NEW s, NEW t, Grown(s, t), NEW peer, NEW d, NEW root,
           Stated(W, s, peer, d, root)
    PROVE  Stated(W, t, peer, d, root)
<1>1. PICK o \in W : /\ o.dev = peer /\ o.front # <<>> /\ Taken(s, peer, o.seq)
                     /\ o.front[1][d] = root
  BY DEF Stated
<1>2. <<o.dev, o.seq>> \in Pos
  BY PosIs DEF WireOK, OpOK
<1>3. Taken(t, peer, o.seq)
  BY <1>1, <1>2 DEF Grown
<1> QED
  BY <1>1, <1>3 DEF Stated

\* A digest that agreed, or can no longer be compared, still does.
LEMMA SteadyAnswers ==
    ASSUME NEW W, NEW s \in Vault, NEW t \in Vault, WireOK(W), Grown(s, t), Steady(s, t),
           NEW peer \in Dev, NEW d \in Dev, NEW root \in Seq(Replica),
           Stated(W, s, peer, d, root), root # <<>>, Reached(s, d, Len(root)),
           ~Differs(s, d, root)
    PROVE  Answered(W, t, peer, d)
<1>1. Stated(W, t, peer, d, root)
  BY StatedGrows
<1>2. Len(root) \in Nat
  OBVIOUS
<1>3. Reached(t, d, Len(root))
  BY <1>2, ReachedGrows
<1>4. ~Differs(t, d, root)
  BY <1>2 DEF Steady, Differs
<1> QED
  BY <1>1, <1>3, <1>4 DEF Answered

\* A change that keeps roots and settles claims keeps every answer.
LEMMA AnswersKept ==
    ASSUME NEW W, NEW s, NEW t, WireOK(W), Sound(W, s), t \in Vault, Grown(s, t), Steady(s, t),
           Judged(s, t), t.claims \subseteq s.claims
    PROVE  Answers(W, s, t)
<1>0. s \in Vault /\ s.claims \in SUBSET [dev : Dev, peer : Dev, root : Seq(Replica)]
  BY DEF Sound, Vault
<1>1. SUFFICES ASSUME ClaimsTold(W, s)
               PROVE  /\ ClaimsTold(W, t)
                      /\ \A peer \in Dev, d \in Dev :
                           Answered(W, s, peer, d) => Answered(W, t, peer, d)
  BY DEF Answers
<1>2. ClaimsTold(W, t)
  BY <1>1, StatedGrows DEF ClaimsTold
<1>3. ASSUME NEW c \in s.claims, Reached(t, c.dev, Len(c.root)), ~Differs(t, c.dev, c.root)
      PROVE  Answered(W, t, c.peer, c.dev)
  <2>1. c.root \in Seq(Replica) /\ c.root # <<>>
    BY <1>0 DEF Sound, ClaimsOK
  <2>2. Stated(W, t, c.peer, c.dev, c.root)
    BY <1>1, StatedGrows DEF ClaimsTold
  <2> QED
    BY <1>3, <2>1, <2>2 DEF Answered
<1>4. ASSUME NEW peer \in Dev, NEW d \in Dev, Answered(W, s, peer, d)
      PROVE  Answered(W, t, peer, d)
  <2>1. ASSUME NEW x \in s.div, x.dev = d, x.peer = peer
        PROVE  Answered(W, t, peer, d)
    <3>1. CASE \E y \in t.div : y.dev = x.dev /\ y.peer = x.peer
      BY <2>1, <3>1 DEF Answered
    <3>2. ASSUME NEW c \in s.claims, c.dev = x.dev, c.peer = x.peer,
                 Reached(t, c.dev, Len(c.root)), ~Differs(t, c.dev, c.root)
          PROVE  Answered(W, t, peer, d)
      BY <1>3, <2>1, <3>2
    <3> QED
      BY <2>1, <3>1, <3>2 DEF Judged
  <2>2. ASSUME NEW c \in s.claims, c.dev = d, c.peer = peer
        PROVE  Answered(W, t, peer, d)
    <3>1. CASE c \in t.claims
      BY <2>2, <3>1 DEF Answered
    <3>2. CASE \E x \in t.div : x.dev = c.dev /\ x.peer = c.peer
      BY <2>2, <3>2 DEF Answered
    <3>3. CASE Reached(t, c.dev, Len(c.root)) /\ ~Differs(t, c.dev, c.root)
      BY <1>3, <2>2, <3>3
    <3> QED
      BY <2>2, <3>1, <3>2, <3>3 DEF Judged, Settles
  <2>3. ASSUME NEW root \in Seq(Replica), Stated(W, s, peer, d, root), root # <<>>,
               Reached(s, d, Len(root)), ~Differs(s, d, root)
        PROVE  Answered(W, t, peer, d)
    BY <1>0, <2>3, SteadyAnswers
  <2> QED
    BY <1>4, <2>1, <2>2, <2>3 DEF Answered
<1> QED
  BY <1>2, <1>4

-----------------------------------------------------------------------------
(* apply_snapshot: raise_floor, settle_below_floor, upsert_sync_cursor. *)

\* The devices whose floor a record raises, and the floors it leaves.
Higher(s, front) == {d \in Dev : Len(s.floor[d]) < Len(front[d])}

RaisedFloor(s, front) ==
    [d \in Dev |-> IF d \in Higher(s, front) THEN front[d] ELSE s.floor[d]]

\* A floor that rises over claims and expectations answers them.
LEMMA SettledIs ==
    ASSUME NEW W, NEW s, Sound(W, s), Kept(s), Low(s), NEW front, FrontOK(W, front),
           NEW t, t = Settled([s EXCEPT !.floor = RaisedFloor(s, front)], Higher(s, front))
    PROVE  /\ Sound(W, t) /\ Kept(t)
           /\ t.rows = s.rows /\ t.cursor = s.cursor /\ t.floor = RaisedFloor(s, front)
           /\ t.acks = s.acks /\ t.sent = s.sent
           /\ s.forks \subseteq t.forks /\ t.claims \subseteq s.claims
           /\ \A x \in s.expect : x \in t.expect \/ x.seq <= Len(t.floor[x.dev])
           /\ Grown(s, t) /\ Steady(s, t) /\ Judged(s, t)
<1> PICK higher : higher = {d \in Dev : Len(s.floor[d]) < Len(front[d])}
  OBVIOUS
<1>a. higher = Higher(s, front)
  BY DEF Higher
<1> PICK floor : floor = [d \in Dev |-> IF d \in higher THEN front[d] ELSE s.floor[d]]
  OBVIOUS
<1>b. floor = RaisedFloor(s, front)
  BY <1>a DEF RaisedFloor
<1>0. /\ s \in Vault /\ s.cursor \in [Dev -> Nat] /\ s.floor \in [Dev -> Seq(Replica)]
      /\ s.expect \subseteq [dev : Dev, seq : Nat, by : Replica, namer : Pos]
      /\ s.forks \subseteq [dev : Dev, seq : Nat, kind : {"seq", "link", "head"},
                            held : Replica, other : Replica]
      /\ s.claims \subseteq [dev : Dev, peer : Dev, root : Seq(Replica)]
  BY DEF Sound, Vault
<1>1. front \in [Dev -> Seq(Replica)] /\ \A d \in Dev : ChainOK(W, d, front[d])
  BY DEF FrontOK
<1>2. /\ floor \in [Dev -> Seq(Replica)]
      /\ \A d \in Dev : /\ ChainOK(W, d, floor[d]) /\ Len(floor[d]) \in Nat
                        /\ Len(s.floor[d]) <= Len(floor[d])
                        /\ d \in higher => floor[d] # <<>> /\ Len(s.floor[d]) < Len(floor[d])
                        /\ d \notin higher => floor[d] = s.floor[d]
  <2>1. \A d \in Dev : floor[d] \in Seq(Replica) /\ ChainOK(W, d, floor[d])
    BY <1>0, <1>1 DEF Sound, FloorOK
  <2>2. \A d \in Dev : /\ Len(floor[d]) \in Nat /\ Len(s.floor[d]) \in Nat
    BY <1>0, <2>1
  <2>3. \A d \in higher : d \in Dev /\ floor[d] = front[d] /\ Len(s.floor[d]) < Len(floor[d])
    OBVIOUS
  <2>4. \A d \in higher : floor[d] # <<>>
    BY <1>0, <2>2, <2>3
  <2>5. \A d \in Dev : d \notin higher => floor[d] = s.floor[d]
    OBVIOUS
  <2>6. floor \in [Dev -> Seq(Replica)]
    BY <2>1
  <2> QED
    BY <2>1, <2>2, <2>3, <2>4, <2>5, <2>6
<1>3. higher \subseteq Dev
  OBVIOUS
<1>4. PICK u : u = [s EXCEPT !.floor = floor]
  OBVIOUS
<1>5. /\ u \in Vault /\ u.rows = s.rows /\ u.floor = floor /\ u.cursor = s.cursor
      /\ u.expect = s.expect /\ u.forks = s.forks /\ u.claims = s.claims
      /\ u.acks = s.acks /\ u.sent = s.sent /\ u.div = s.div
  BY <1>0, <1>2, <1>4 DEF Vault
<1>6. Sound(W, u)
  <2>1. /\ RowsOK(W, u) /\ ClaimsOK(W, u) /\ ExpectOK(W, u) /\ ForksOK(W, u) /\ DivOK(W, u)
    BY <1>5 DEF Sound, RowsOK, ClaimsOK, ExpectOK, ForksOK, DivOK
  <2>2. FloorOK(W, u)
    BY <1>2, <1>5 DEF FloorOK
  <2> QED
    BY <1>5, <2>1, <2>2 DEF Sound
<1> DEFINE named(d) == Contradicted(u, d, Len(u.floor[d]), Last(u.floor[d]))
           covered == {c \in u.claims : c.dev \in higher /\ Len(c.root) <= Len(u.floor[c.dev])}
           met == {c \in covered : Len(c.root) = Len(u.floor[c.dev])}
           forks == u.forks \cup UNION {named(d) : d \in higher}
           expect == {x \in u.expect : x.dev \in higher => x.seq > Len(u.floor[x.dev])}
           claims == u.claims \ covered
           C == {Against(c, u.floor[c.dev]) : c \in met}
           v == [u EXCEPT !.forks = forks, !.expect = expect, !.claims = claims]
<1>7. t = Judge(v, C)
  <2>1. t = Settled(u, higher)
    BY <1>4, <1>a, <1>b
  <2>2. Settled(u, higher) = Judge(v, C)
    BY DEF Settled
  <2> QED
    BY <2>1, <2>2
<1>8. \A d \in higher : \A f \in named(d) :
        /\ f \in [dev : Dev, seq : Nat, kind : {"seq", "link", "head"},
                  held : Replica, other : Replica]
        /\ f.held # f.other
        /\ {f.held, f.other} \subseteq Signed(W, f.dev, f.seq)
  <2>1. SUFFICES ASSUME NEW d \in higher, NEW f \in named(d)
                 PROVE  /\ f \in [dev : Dev, seq : Nat, kind : {"seq", "link", "head"},
                                  held : Replica, other : Replica]
                        /\ f.held # f.other
                        /\ {f.held, f.other} \subseteq Signed(W, f.dev, f.seq)
    OBVIOUS
  <2>2. /\ d \in Dev /\ Last(floor[d]) \in Replica
        /\ Last(floor[d]) \in Signed(W, d, Len(floor[d])) /\ Len(floor[d]) \in Nat
    BY <1>2, <1>3, EndIsSigned
  <2> QED
    BY <1>5, <1>6, <2>1, <2>2, ContradictedIsTrue
<1>9. /\ forks \subseteq [dev : Dev, seq : Nat, kind : {"seq", "link", "head"},
                          held : Replica, other : Replica]
      /\ \A f \in forks : f \in s.forks \/ \E d \in higher : f \in named(d)
      /\ s.forks \subseteq forks
  <2> HIDE DEF named
  <2> QED
    BY <1>0, <1>5, <1>8
<1>10. /\ expect \subseteq s.expect /\ claims \subseteq s.claims /\ covered \subseteq s.claims
       /\ \A x \in s.expect : x \in expect \/ (x.dev \in higher /\ x.seq <= Len(floor[x.dev]))
  <2>1. expect \subseteq s.expect /\ claims \subseteq s.claims /\ covered \subseteq s.claims
    BY <1>5
  <2>2. ASSUME NEW x \in s.expect
        PROVE  x \in expect \/ (x.dev \in higher /\ x.seq <= Len(floor[x.dev]))
    <3>1. x.dev \in Dev /\ x.seq \in Nat /\ Len(floor[x.dev]) \in Nat
      BY <1>0, <1>2
    <3> QED
      BY <1>5, <3>1
  <2> QED
    BY <2>1, <2>2
<1>11. /\ \A c \in s.claims :
            c \in claims \/ /\ c \in covered /\ c.dev \in higher /\ Len(c.root) <= Len(floor[c.dev])
       /\ \A c \in covered : Len(c.root) = Len(floor[c.dev]) => c \in met
       /\ \A c \in claims : c.dev \in higher => ~(Len(c.root) <= Len(floor[c.dev]))
  BY <1>5
<1>12. /\ \A c \in met : /\ c \in s.claims /\ c.dev \in higher
                         /\ Len(c.root) = Len(floor[c.dev])
                         /\ Against(c, floor[c.dev]) \in C
       /\ \A e \in C : \E c \in met : e = Against(c, floor[c.dev])
  BY <1>5
<1>13. \A c, h : /\ Against(c, h).dev = c.dev /\ Against(c, h).peer = c.peer
                 /\ Against(c, h).root = c.root /\ Against(c, h).held = h
  BY DEF Against
<1>14. /\ v \in Vault /\ v.rows = s.rows /\ v.floor = floor /\ v.cursor = s.cursor
       /\ v.expect = expect /\ v.forks = forks /\ v.claims = claims
       /\ v.acks = s.acks /\ v.sent = s.sent /\ v.div = s.div
  <2>1. /\ expect \subseteq [dev : Dev, seq : Nat, by : Replica, namer : Pos]
        /\ claims \subseteq [dev : Dev, peer : Dev, root : Seq(Replica)]
    BY <1>0, <1>10
  <2> HIDE DEF forks, expect, claims
  <2> QED
    BY <1>5, <1>9, <2>1 DEF Vault
<1> HIDE DEF named, covered, met, forks, expect, claims, C, v
<1>15. Sound(W, v)
  <2>1. /\ RowsOK(W, v) /\ ClaimsOK(W, v) /\ ExpectOK(W, v) /\ DivOK(W, v) /\ FloorOK(W, v)
    BY <1>5, <1>6, <1>10, <1>14 DEF Sound, RowsOK, ClaimsOK, ExpectOK, DivOK, FloorOK
  <2>2. ForksOK(W, v)
    BY <1>8, <1>9, <1>14 DEF Sound, ForksOK
  <2> QED
    BY <1>14, <2>1, <2>2 DEF Sound
<1>16. \A e \in C : /\ e.dev \in Dev /\ e.peer \in Dev
                    /\ ChainOK(W, e.dev, e.root) /\ ChainOK(W, e.dev, e.held)
                    /\ Len(e.root) = Len(e.held) /\ e.root \in Seq(Replica)
  <2>1. SUFFICES ASSUME NEW c \in met, NEW e, e = Against(c, floor[c.dev])
                 PROVE  /\ e.dev \in Dev /\ e.peer \in Dev
                        /\ ChainOK(W, e.dev, e.root) /\ ChainOK(W, e.dev, e.held)
                        /\ Len(e.root) = Len(e.held) /\ e.root \in Seq(Replica)
    BY <1>12
  <2>2. /\ c.dev \in Dev /\ c.peer \in Dev /\ ChainOK(W, c.dev, c.root)
        /\ c.root \in Seq(Replica) /\ Len(c.root) = Len(floor[c.dev])
    BY <1>0, <1>12 DEF Sound, ClaimsOK
  <2> QED
    BY <1>2, <1>13, <2>1, <2>2
<1>17. Sound(W, t)
  BY <1>7, <1>15, <1>16, JudgeSound
<1>18. /\ t \in Vault /\ t.rows = s.rows /\ t.floor = floor /\ t.cursor = s.cursor
       /\ t.expect = expect /\ t.forks = forks /\ t.claims = claims
       /\ t.acks = s.acks /\ t.sent = s.sent
  BY <1>7, <1>14, <1>16, JudgeFields
<1>19. Kept(t)
  <2>1. ASSUME NEW c \in claims
        PROVE  s.cursor[c.dev] < Len(c.root) /\ Len(floor[c.dev]) < Len(c.root)
    <3>1. /\ c \in s.claims /\ c.dev \in Dev /\ Len(c.root) \in Nat
          /\ s.cursor[c.dev] < Len(c.root) /\ Len(s.floor[c.dev]) < Len(c.root)
      BY <1>0, <1>10 DEF Kept
    <3> QED
      BY <1>2, <1>11, <3>1
  <2>2. ASSUME NEW p \in Pos, Len(floor[p[1]]) < p[2]
        PROVE  Len(s.floor[p[1]]) < p[2]
    <3>1. p[1] \in Dev /\ p[2] \in Nat /\ Len(s.floor[p[1]]) \in Nat
      BY <1>0, PosIs
    <3> QED
      BY <1>2, <2>2, <3>1
  <2> QED
    BY <1>18, <2>1, <2>2 DEF Kept
<1>20. Grown(s, t)
  <2>1. \A d \in Dev : s.cursor[d] <= t.cursor[d] /\ Len(s.floor[d]) <= Len(t.floor[d])
    <3>1. SUFFICES ASSUME NEW d \in Dev
                   PROVE  s.cursor[d] <= t.cursor[d] /\ Len(s.floor[d]) <= Len(t.floor[d])
      OBVIOUS
    <3>2. Len(s.floor[d]) <= Len(floor[d])
      BY <1>2
    <3>3. s.cursor[d] <= s.cursor[d]
      BY <1>0
    <3> QED
      BY <1>18, <3>2, <3>3
  <2>2. ASSUME NEW p \in Pos PROVE Taken(s, p[1], p[2]) => Taken(t, p[1], p[2])
    <3>1. p[1] \in Dev /\ p[2] \in Nat
      BY PosIs
    <3>2. /\ Len(s.floor[p[1]]) \in Nat /\ Len(floor[p[1]]) \in Nat
          /\ Len(s.floor[p[1]]) <= Len(floor[p[1]])
      BY <1>0, <1>2, <3>1
    <3>3. p[2] <= Len(s.floor[p[1]]) => p[2] <= Len(floor[p[1]])
      BY <3>1, <3>2
    <3>4. t.rows = s.rows /\ t.floor = floor
      BY <1>18
    <3> QED
      BY <3>3, <3>4 DEF Taken, Holds
  <2> QED
    BY <1>18, <2>1, <2>2 DEF Grown
<1>21. Steady(s, t)
  <2>1. SUFFICES ASSUME NEW d \in Dev, NEW n \in Nat, Reached(s, d, n), HasRoot(t, d, n)
                 PROVE  HasRoot(s, d, n) /\ RootAt(t, d, n) = RootAt(s, d, n)
    BY DEF Steady
  <2>2. n <= s.cursor[d] /\ Len(s.floor[d]) \in Nat /\ Len(floor[d]) \in Nat
        /\ Len(s.floor[d]) <= Len(floor[d])
    BY <1>0, <1>2, <2>1 DEF Reached, Low
  <2>3. CASE Holds(s, d, n) /\ s.rows[<<d, n>>].root # <<>>
    BY <1>18, <2>1, <2>3 DEF RootAt, Holds, HasRoot
  <2>4. CASE ~(Holds(s, d, n) /\ s.rows[<<d, n>>].root # <<>>)
    <3>1. ~(Len(s.floor[d]) < n)
      BY <2>2, <2>4, PrefixIsRooted
    <3>2. CASE Len(floor[d]) = n
      <4>1. floor[d] = s.floor[d]
        BY <1>2, <2>2, <3>1, <3>2
      <4> QED
        BY <1>18, <2>1, <4>1 DEF RootAt, Holds, HasRoot
    <3>3. CASE Len(floor[d]) # n
      <4>1. RootAt(t, d, n) = <<>>
        BY <1>18, <2>4, <3>3 DEF RootAt, Holds
      <4>2. n = 0
        BY <2>1, <4>1 DEF HasRoot
      <4>3. RootAt(s, d, n) \in Seq(Replica) /\ Len(RootAt(s, d, n)) \in {0, n}
        BY RootIs
      <4>4. RootAt(s, d, n) = <<>>
        BY <4>2, <4>3
      <4> QED
        BY <4>1, <4>2, <4>4 DEF HasRoot
    <3> QED
      BY <3>2, <3>3
  <2> QED
    BY <2>3, <2>4
<1>22. \A c \in s.claims : RootAt(t, c.dev, Len(c.root)) =
                             IF Len(floor[c.dev]) = Len(c.root) THEN floor[c.dev] ELSE <<>>
  <2>1. SUFFICES ASSUME NEW c \in s.claims
                 PROVE  ~(Holds(s, c.dev, Len(c.root)) /\
                            s.rows[<<c.dev, Len(c.root)>>].root # <<>>)
    BY <1>18 DEF RootAt, Holds
  <2>2. s.cursor[c.dev] < Len(c.root) /\ Len(s.floor[c.dev]) < Len(c.root)
    BY DEF Kept
  <2> QED
    BY <2>2 DEF Kept, Holds
<1>23. /\ \A e \in C : e.root # e.held =>
            \E x \in t.div : x.dev = e.dev /\ x.peer = e.peer
       /\ \A z \in s.div :
            \/ \E y \in t.div : y.dev = z.dev /\ y.peer = z.peer
            \/ \E e \in C : e.root = e.held /\ e.dev = z.dev /\ e.peer = z.peer
  <2>1. PICK w \in Vault : w = v
    BY <1>14
  <2>2. w.div = s.div /\ t = Judge(w, C)
    BY <1>7, <1>14, <2>1
  <2>3. \A e \in C : e.root # e.held =>
          \E x \in Judge(w, C).div : x.dev = e.dev /\ x.peer = e.peer
    BY JudgeDiv
  <2>4. \A z \in w.div :
          \/ \E y \in Judge(w, C).div : y.dev = z.dev /\ y.peer = z.peer
          \/ \E e \in C : e.root = e.held /\ e.dev = z.dev /\ e.peer = z.peer
    BY JudgeDiv
  <2> QED
    BY <2>2, <2>3, <2>4
<1>24. Judged(s, t)
  <2>1. ASSUME NEW c \in s.claims PROVE c \in t.claims \/ Settles(t, c)
    <3>1. CASE c \in claims
      BY <1>18, <3>1
    <3>2. CASE c \notin claims
      <4>1. c \in covered /\ c.dev \in higher /\ Len(c.root) <= Len(floor[c.dev])
        BY <1>11, <2>1, <3>2
      <4>2. Reached(t, c.dev, Len(c.root))
        BY <1>18, <4>1 DEF Reached
      <4>3. CASE c \in met /\ c.root # floor[c.dev]
        <5>1. /\ Against(c, floor[c.dev]) \in C
              /\ Against(c, floor[c.dev]).root # Against(c, floor[c.dev]).held
          BY <1>12, <1>13, <4>3
        <5>2. \E x \in t.div : /\ x.dev = Against(c, floor[c.dev]).dev
                               /\ x.peer = Against(c, floor[c.dev]).peer
          BY <1>23, <5>1
        <5>3. /\ Against(c, floor[c.dev]).dev = c.dev
              /\ Against(c, floor[c.dev]).peer = c.peer
          BY <1>13
        <5>4. \E x \in t.div : x.dev = c.dev /\ x.peer = c.peer
          BY <5>2, <5>3
        <5> QED
          BY <5>4 DEF Settles
      <4>4. CASE c.root = floor[c.dev]
        BY <1>22, <4>2, <4>4 DEF Settles, Differs
      <4>5. CASE c \notin met
        <5>1. Len(c.root) # Len(floor[c.dev])
          BY <1>11, <4>1, <4>5
        <5>2. RootAt(t, c.dev, Len(c.root)) = <<>>
          BY <1>22, <5>1
        <5>3. Len(c.root) # 0
          <6>1. c.root # <<>> /\ c.root \in Seq(Replica)
            BY <1>0 DEF Sound, ClaimsOK
          <6> QED
            BY <6>1
        <5> QED
          BY <4>2, <5>2, <5>3 DEF Settles, Differs, HasRoot
      <4> QED
        BY <4>3, <4>4, <4>5
    <3> QED
      BY <3>1, <3>2
  <2>2. ASSUME NEW x \in s.div
        PROVE  \/ \E y \in t.div : y.dev = x.dev /\ y.peer = x.peer
               \/ \E c \in s.claims : /\ c.dev = x.dev /\ c.peer = x.peer
                                      /\ Reached(t, c.dev, Len(c.root))
                                      /\ ~Differs(t, c.dev, c.root)
    <3>1. \/ \E y \in t.div : y.dev = x.dev /\ y.peer = x.peer
          \/ \E e \in C : e.root = e.held /\ e.dev = x.dev /\ e.peer = x.peer
      BY <1>23, <2>2
    <3>2. ASSUME NEW c \in met, NEW e, e = Against(c, floor[c.dev]), e.root = e.held,
                 e.dev = x.dev, e.peer = x.peer
          PROVE  /\ c \in s.claims /\ c.dev = x.dev /\ c.peer = x.peer
                 /\ Reached(t, c.dev, Len(c.root)) /\ ~Differs(t, c.dev, c.root)
      <4>1. /\ c.root = floor[c.dev] /\ c \in s.claims
            /\ c.dev = x.dev /\ c.peer = x.peer /\ c.dev \in Dev
        BY <1>0, <1>12, <1>13, <3>2
      <4>2. Len(c.root) <= Len(t.floor[c.dev])
        BY <1>2, <1>18, <4>1
      <4> QED
        BY <1>22, <4>1, <4>2 DEF Reached, Differs
    <3>3. ASSUME NEW e \in C, e.root = e.held, e.dev = x.dev, e.peer = x.peer
          PROVE  \E c \in s.claims : /\ c.dev = x.dev /\ c.peer = x.peer
                                     /\ Reached(t, c.dev, Len(c.root))
                                     /\ ~Differs(t, c.dev, c.root)
      <4>1. PICK c \in met : e = Against(c, floor[c.dev])
        BY <1>12, <3>3
      <4> QED
        BY <3>2, <3>3, <4>1
    <3> QED
      BY <3>1, <3>3
  <2> QED
    BY <2>1, <2>2 DEF Judged
<1> QED
  BY <1>9, <1>10, <1>17, <1>18, <1>19, <1>20, <1>21, <1>24, <1>b

-----------------------------------------------------------------------------
(***************************************************************************)
(* One step of a vault from s to t: it stays sound and kept, and a link or *)
(* a digest that was in order stays so.                                    *)
(***************************************************************************)
LinkStays(s, t, o) ==
    (o.prev # None /\ Holds(s, o.dev, o.seq) /\ LinkOK(s, o)) => LinkOK(t, o)

Moved(W, s, t) ==
    /\ Sound(W, t) /\ Kept(t) /\ Low(t)
    /\ Grown(s, t) /\ Answers(W, s, t)

\* A link stays in order where no op arrives at the predecessor's position.
LEMMA LinkTransfer ==
    ASSUME NEW s \in Vault, NEW t \in Vault, NEW o, NEW m, m = o.seq - 1,
           <<o.dev, m>> \in Pos, LinkOK(s, o), Grown(s, t), s.forks \subseteq t.forks,
           t.rows[<<o.dev, m>>].by \in {s.rows[<<o.dev, m>>].by, None},
           \A x \in s.expect : (x.dev = o.dev /\ x.seq = m) =>
                                 x \in t.expect \/ m <= Len(t.floor[o.dev])
    PROVE  LinkOK(t, o)
<1>1. o.dev \in Dev /\ m \in Nat
  BY PosIs
<1>2. /\ Len(s.floor[o.dev]) \in Nat /\ Len(t.floor[o.dev]) \in Nat
      /\ Len(s.floor[o.dev]) <= Len(t.floor[o.dev])
  <2>1. s.floor \in [Dev -> Seq(Replica)] /\ t.floor \in [Dev -> Seq(Replica)]
    BY DEF Vault
  <2>2. Len(s.floor[o.dev]) <= Len(t.floor[o.dev])
    BY <1>1 DEF Grown
  <2> QED
    BY <1>1, <2>1, <2>2
<1>3. CASE Holds(s, o.dev, m) /\ Holds(t, o.dev, m)
  BY <1>3 DEF LinkOK, Holds
<1>4. CASE Holds(s, o.dev, m) /\ ~Holds(t, o.dev, m)
  <2>1. Taken(t, o.dev, m)
    BY <1>4 DEF Grown, Taken
  <2>2. m <= Len(t.floor[o.dev])
    BY <1>4, <2>1 DEF Taken
  <2> QED
    BY <1>4, <2>2 DEF LinkOK
<1>5. CASE ~Holds(s, o.dev, m)
  <2>1. ~Holds(t, o.dev, m)
    BY <1>5 DEF Holds
  <2>2. CASE m <= Len(s.floor[o.dev])
    <3>1. m <= Len(t.floor[o.dev])
      BY <1>1, <1>2, <2>2
    <3> QED
      BY <2>1, <3>1 DEF LinkOK
  <2>3. CASE ~(m <= Len(s.floor[o.dev]))
    <3>1. PICK x \in s.expect : /\ x.dev = o.dev /\ x.seq = m /\ x.by = o.prev
                                /\ x.namer = <<o.dev, o.seq>>
      BY <1>5, <2>3 DEF LinkOK
    <3>2. x \in t.expect \/ m <= Len(t.floor[o.dev])
      BY <3>1
    <3> QED
      BY <2>1, <3>1, <3>2 DEF LinkOK
  <2> QED
    BY <2>2, <2>3
<1> QED
  BY <1>3, <1>4, <1>5

\* Where the predecessor is, for an op that names one.
LEMMA PredecessorIs ==
    ASSUME NEW W, WireOK(W), NEW o \in W, o.prev # None
    PROVE  /\ o.dev \in Dev /\ o.seq \in Nat /\ o.seq - 1 \in Nat
           /\ <<o.dev, o.seq>> \in Pos /\ <<o.dev, o.seq - 1>> \in Pos
<1>1. o.dev \in Dev /\ o.seq \in 1..MaxSeq[o.dev] /\ o.seq > 1
  BY DEF WireOK, OpOK
<1>2. MaxSeq[o.dev] \in Nat
  BY <1>1, Bounds
<1>3. o.seq \in Nat /\ o.seq - 1 \in 1..MaxSeq[o.dev]
  BY <1>1, <1>2
<1> QED
  BY <1>1, <1>3, PosIs

(***************************************************************************)
(* ApplySnapshot.                                                          *)
(***************************************************************************)
LEMMA RaiseToIs ==
    ASSUME NEW W, WireOK(W), NEW s, Sound(W, s), Kept(s), Low(s),
           NEW front, FrontOK(W, front), NEW t, t = RaiseTo(s, front)
    PROVE  /\ Moved(W, s, t) /\ t.acks = s.acks
           /\ \A p \in Pos : t.rows[p].by = s.rows[p].by
           /\ \A o \in W : LinkStays(s, t, o)
<1>1. PICK higher : higher = Higher(s, front)
  OBVIOUS
<1>2. PICK floor : floor = RaisedFloor(s, front)
  OBVIOUS
<1>3. PICK u : u = Settled([s EXCEPT !.floor = floor], higher)
  OBVIOUS
<1>4. PICK D : D = {d \in Dev : front[d] # <<>>}
  OBVIOUS
<1>5. t = UpsertCursor(u, D)
  BY <1>1, <1>2, <1>3, <1>4 DEF RaiseTo, Higher, RaisedFloor
<1>6. /\ Sound(W, u) /\ Kept(u)
      /\ u.rows = s.rows /\ u.cursor = s.cursor /\ u.floor = floor
      /\ u.acks = s.acks /\ u.sent = s.sent
      /\ s.forks \subseteq u.forks /\ u.claims \subseteq s.claims
      /\ \A x \in s.expect : x \in u.expect \/ x.seq <= Len(u.floor[x.dev])
      /\ Grown(s, u) /\ Steady(s, u) /\ Judged(s, u)
  BY <1>1, <1>2, <1>3, SettledIs
<1>7. \A d \in Dev \ D : Len(u.floor[d]) <= u.cursor[d]
  <2>1. SUFFICES ASSUME NEW d \in Dev, front[d] = <<>> PROVE Len(floor[d]) <= s.cursor[d]
    BY <1>4, <1>6
  <2>2. s.floor \in [Dev -> Seq(Replica)]
    BY DEF Sound, Vault
  <2>3. d \notin higher
    <3>1. Len(s.floor[d]) \in Nat /\ Len(front[d]) = 0
      BY <2>1, <2>2
    <3> QED
      BY <1>1, <3>1 DEF Higher
  <2> QED
    BY <1>1, <1>2, <2>3 DEF Low, RaisedFloor
<1>8. D \in SUBSET Dev
  BY <1>4
<1>9. /\ Sound(W, t) /\ Kept(t) /\ Low(t)
      /\ t.floor = u.floor /\ t.expect = u.expect /\ t.forks = u.forks
      /\ t.acks = u.acks /\ t.sent = u.sent
      /\ \A p \in Pos : t.rows[p].by = u.rows[p].by
      /\ t.claims \subseteq u.claims
      /\ Grown(u, t) /\ Steady(u, t) /\ Judged(u, t)
  BY <1>5, <1>6, <1>7, <1>8, UpsertIs
<1>10. s \in Vault /\ u \in Vault /\ t \in Vault
  BY <1>6, <1>9 DEF Sound
<1>11. Grown(s, t)
  BY <1>6, <1>9, <1>10, GrownTrans
<1>12. Answers(W, s, u) /\ Answers(W, u, t)
  BY <1>6, <1>9, <1>10, AnswersKept
<1>13. Answers(W, s, t)
  BY <1>12 DEF Answers
<1>14. \A p \in Pos : t.rows[p].by = s.rows[p].by
  BY <1>6, <1>9
<1>15. ASSUME NEW o \in W, o.prev # None, LinkOK(s, o) PROVE LinkOK(t, o)
  <2>1. <<o.dev, o.seq - 1>> \in Pos
    BY <1>15, PredecessorIs
  <2>2. t.rows[<<o.dev, o.seq - 1>>].by \in {s.rows[<<o.dev, o.seq - 1>>].by, None}
    BY <1>14, <2>1
  <2>3. s.forks \subseteq t.forks
    BY <1>6, <1>9
  <2>4. \A x \in s.expect : (x.dev = o.dev /\ x.seq = o.seq - 1) =>
          x \in t.expect \/ o.seq - 1 <= Len(t.floor[o.dev])
    BY <1>6, <1>9
  <2> QED
    BY <1>10, <1>11, <1>15, <2>1, <2>2, <2>3, <2>4, LinkTransfer
<1> QED
  BY <1>6, <1>9, <1>11, <1>13, <1>14, <1>15 DEF Moved, LinkStays

(***************************************************************************)
(* compact_stream: the floor is the root at the target, and the rows it    *)
(* covers go unless something waits for what they name.                    *)
(***************************************************************************)
Compacted(s, d, target) ==
    [s EXCEPT !.floor[d] = RootAt(s, d, target),
              !.rows = [p \in Pos |-> IF p \in Compactable(s, d, target)
                                      THEN NoRow ELSE @[p]]]

\* What remains is in order: the roots above the target, the claims and the links.
LEMMA CompactIs ==
    ASSUME NEW W, WireOK(W), NEW s, Sound(W, s), Kept(s), Low(s), NEW d \in Dev,
           NEW target \in Nat, Len(s.floor[d]) < target, target < s.cursor[d],
           NEW t, t = Compacted(s, d, target)
    PROVE  /\ Moved(W, s, t) /\ t.acks = s.acks
           /\ Len(t.floor[d]) = target
           /\ \A p \in Pos : t.rows[p].by \in {s.rows[p].by, None}
           /\ \A o \in W : LinkStays(s, t, o)
<1>0. /\ s \in Vault /\ s.cursor \in [Dev -> Nat] /\ s.floor \in [Dev -> Seq(Replica)]
      /\ s.rows \in [Pos -> [by : Replica \cup {None}, root : Seq(Replica)]]
      /\ s.claims \subseteq [dev : Dev, peer : Dev, root : Seq(Replica)]
  BY DEF Sound, Vault
<1>1. target <= s.cursor[d] /\ s.cursor[d] \in Nat
  BY <1>0
<1>2. PICK root : root = RootAt(s, d, target)
  OBVIOUS
<1>3. root \in Seq(Replica) /\ ChainOK(W, d, root) /\ Len(root) = target
  BY <1>1, <1>2, PrefixIsRooted, RootIs DEF HasRoot
<1>4. PICK gone : gone = Compactable(s, d, target)
  OBVIOUS
<1>5. gone \subseteq Pos /\ \A p \in gone : p[1] = d /\ p[2] <= target
  BY <1>4 DEF Compactable
<1>6. PICK floor : floor = [s.floor EXCEPT ![d] = root]
  OBVIOUS
<1>7. PICK rows : rows = [p \in Pos |-> IF p \in gone THEN NoRow ELSE s.rows[p]]
  OBVIOUS
<1>8. /\ floor \in [Dev -> Seq(Replica)] /\ floor[d] = root
      /\ \A e \in Dev : e # d => floor[e] = s.floor[e]
  BY <1>0, <1>3, <1>6
<1>9. /\ rows \in [Pos -> [by : Replica \cup {None}, root : Seq(Replica)]]
      /\ \A p \in Pos : \/ rows[p] = s.rows[p] /\ p \notin gone
                        \/ p \in gone /\ rows[p].by = None /\ rows[p].root = <<>>
  BY <1>0, <1>7 DEF NoRow
<1>10. t = [s EXCEPT !.floor = floor, !.rows = rows]
  BY <1>0, <1>2, <1>4, <1>6, <1>7 DEF Vault, Compacted
<1>11. /\ t \in Vault /\ t.rows = rows /\ t.floor = floor /\ t.cursor = s.cursor
       /\ t.expect = s.expect /\ t.forks = s.forks /\ t.claims = s.claims
       /\ t.acks = s.acks /\ t.sent = s.sent /\ t.div = s.div
  BY <1>0, <1>8, <1>9, <1>10 DEF Vault
<1>12. \A e \in Dev : /\ Len(s.floor[e]) \in Nat /\ Len(floor[e]) \in Nat
                      /\ Len(s.floor[e]) <= Len(floor[e]) /\ Len(floor[e]) <= s.cursor[e]
  <2>1. SUFFICES ASSUME NEW e \in Dev
                 PROVE  /\ Len(s.floor[e]) \in Nat /\ Len(floor[e]) \in Nat
                        /\ Len(s.floor[e]) <= Len(floor[e]) /\ Len(floor[e]) <= s.cursor[e]
    OBVIOUS
  <2>2. Len(s.floor[e]) \in Nat /\ Len(s.floor[e]) <= s.cursor[e]
    BY <1>0 DEF Low
  <2>3. CASE e = d
    BY <1>1, <1>3, <1>8, <2>2, <2>3
  <2>4. CASE e # d
    BY <1>8, <2>2, <2>4
  <2> QED
    BY <2>3, <2>4
<1>13. Sound(W, t)
  <2>1. RowsOK(W, t)
    <3>1. SUFFICES ASSUME NEW p \in Pos
                   PROVE  /\ rows[p].by # None => rows[p].by \in Signed(W, p[1], p[2])
                          /\ rows[p].root # <<>> =>
                               /\ rows[p].by # None
                               /\ Len(rows[p].root) = p[2] /\ Last(rows[p].root) = rows[p].by
                               /\ ChainOK(W, p[1], rows[p].root)
      BY <1>11 DEF RowsOK
    <3>2. CASE rows[p] = s.rows[p]
      BY <3>2 DEF Sound, RowsOK
    <3> QED
      BY <1>9, <3>2
  <2>2. FloorOK(W, t)
    BY <1>3, <1>8, <1>11 DEF Sound, FloorOK
  <2>3. /\ ClaimsOK(W, t) /\ ExpectOK(W, t) /\ ForksOK(W, t) /\ DivOK(W, t)
    BY <1>11 DEF Sound, ClaimsOK, ExpectOK, ForksOK, DivOK
  <2> QED
    BY <1>11, <2>1, <2>2, <2>3 DEF Sound
<1>14. Low(t)
  BY <1>11, <1>12 DEF Low
<1>15. Kept(t)
  <2>1. ASSUME NEW p \in Pos, Len(floor[p[1]]) < p[2]
        PROVE  rows[p] = s.rows[p] /\ Len(s.floor[p[1]]) < p[2]
    <3>1. p[1] \in Dev /\ p[2] \in Nat
      BY PosIs
    <3>2. Len(s.floor[p[1]]) < p[2]
      BY <1>12, <2>1, <3>1
    <3>3. p \notin gone
      BY <1>3, <1>5, <1>8, <2>1, <3>1
    <3> QED
      BY <1>9, <3>2, <3>3
  <2>2. ASSUME NEW c \in s.claims
        PROVE  s.cursor[c.dev] < Len(c.root) /\ Len(floor[c.dev]) < Len(c.root)
    <3>1. c.dev \in Dev /\ Len(c.root) \in Nat /\ s.cursor[c.dev] \in Nat
      BY <1>0
    <3>2. s.cursor[c.dev] < Len(c.root)
      BY DEF Kept
    <3> QED
      BY <1>12, <3>1, <3>2
  <2> QED
    BY <1>11, <2>1, <2>2 DEF Kept
<1>16. Grown(s, t)
  <2>1. ASSUME NEW e \in Dev
        PROVE  s.cursor[e] <= t.cursor[e] /\ Len(s.floor[e]) <= Len(t.floor[e])
    <3>1. s.cursor[e] <= s.cursor[e] /\ Len(s.floor[e]) <= Len(floor[e])
      BY <1>0, <1>12
    <3> QED
      BY <1>11, <3>1
  <2>2. ASSUME NEW p \in Pos
        PROVE  /\ Taken(s, p[1], p[2]) => Taken(t, p[1], p[2])
               /\ rows[p].by # None => rows[p].by = s.rows[p].by
    <3>1. p[1] \in Dev /\ p[2] \in Nat /\ p = <<p[1], p[2]>>
      BY PosIs
    <3>2. p[2] <= Len(s.floor[p[1]]) => p[2] <= Len(floor[p[1]])
      BY <1>12, <3>1
    <3>3. p \in gone => p[2] <= Len(floor[p[1]])
      BY <1>3, <1>5, <1>8
    <3>4. t.rows = rows /\ t.floor = floor
      BY <1>11
    <3>5. \/ rows[p] = s.rows[p] /\ p \notin gone
          \/ p \in gone /\ rows[p].by = None
      BY <1>9
    <3> QED
      BY <3>1, <3>2, <3>3, <3>4, <3>5 DEF Taken, Holds
  <2> QED
    BY <1>11, <2>1, <2>2 DEF Grown
<1>17. Steady(s, t)
  <2>1. SUFFICES ASSUME NEW e \in Dev, NEW n \in Nat, Reached(s, e, n), HasRoot(t, e, n)
                 PROVE  HasRoot(s, e, n) /\ RootAt(t, e, n) = RootAt(s, e, n)
    BY DEF Steady
  <2>2. CASE Holds(t, e, n) /\ t.rows[<<e, n>>].root # <<>>
    <3>1. <<e, n>> \in Pos /\ rows[<<e, n>>] = s.rows[<<e, n>>]
      BY <1>9, <1>11, <2>2 DEF Holds
    <3> QED
      BY <1>11, <2>1, <2>2, <3>1 DEF RootAt, Holds, HasRoot
  <2>3. CASE ~(Holds(t, e, n) /\ t.rows[<<e, n>>].root # <<>>) /\ Len(floor[e]) = n /\ e = d
    <3>1. n = target /\ RootAt(t, e, n) = root
      BY <1>3, <1>8, <1>11, <2>3 DEF RootAt
    <3> QED
      BY <1>2, <1>3, <2>3, <3>1 DEF HasRoot
  <2>4. CASE ~(Holds(t, e, n) /\ t.rows[<<e, n>>].root # <<>>) /\ Len(floor[e]) = n /\ e # d
    <3>1. RootAt(t, e, n) = s.floor[e] /\ Len(s.floor[e]) = n
      BY <1>8, <1>11, <2>4 DEF RootAt
    <3>2. ~(Holds(s, e, n) /\ s.rows[<<e, n>>].root # <<>>)
      <4>1. <<e, n>> \in Pos => <<e, n>> \notin gone
        BY <1>5, <2>4
      <4>2. <<e, n>> \in Pos => rows[<<e, n>>] = s.rows[<<e, n>>]
        BY <1>9, <4>1
      <4> QED
        BY <1>11, <2>4, <4>2 DEF Holds
    <3> QED
      BY <3>1, <3>2 DEF RootAt, HasRoot
  <2>5. CASE ~(Holds(t, e, n) /\ t.rows[<<e, n>>].root # <<>>) /\ Len(floor[e]) # n
    <3>1. RootAt(t, e, n) = <<>>
      BY <1>11, <2>5 DEF RootAt
    <3>2. n = 0
      BY <2>1, <3>1 DEF HasRoot
    <3>3. RootAt(s, e, n) \in Seq(Replica) /\ Len(RootAt(s, e, n)) \in {0, n}
      BY RootIs
    <3>4. RootAt(s, e, n) = <<>>
      BY <3>2, <3>3
    <3> QED
      BY <3>1, <3>2, <3>4 DEF HasRoot
  <2> QED
    BY <2>2, <2>3, <2>4, <2>5
<1>18. Answers(W, s, t)
  <2>1. Judged(s, t) /\ t.claims \subseteq s.claims
    BY <1>11 DEF Judged
  <2> QED
    BY <1>11, <1>16, <1>17, <2>1, AnswersKept
<1>19. \A p \in Pos : t.rows[p].by \in {s.rows[p].by, None}
  BY <1>9, <1>11
<1>20. ASSUME NEW o \in W, o.prev # None, LinkOK(s, o) PROVE LinkOK(t, o)
  <2>1. <<o.dev, o.seq - 1>> \in Pos
    BY <1>20, PredecessorIs
  <2>2. t.rows[<<o.dev, o.seq - 1>>].by \in {s.rows[<<o.dev, o.seq - 1>>].by, None}
    BY <1>19, <2>1
  <2>3. s.forks \subseteq t.forks /\ s.expect \subseteq t.expect
    BY <1>11
  <2> QED
    BY <1>0, <1>11, <1>16, <1>20, <2>1, <2>2, <2>3, LinkTransfer
<1> QED
  BY <1>3, <1>8, <1>11, <1>13, <1>14, <1>15, <1>16, <1>18, <1>19, <1>20 DEF Moved, LinkStays

-----------------------------------------------------------------------------
(***************************************************************************)
(* apply_remote_all: the op's row and its links, then its digest, then the *)
(* prefix of its device.                                                   *)
(***************************************************************************)
LEMMA LinkSame ==
    ASSUME NEW s, NEW t, NEW o, t.floor = s.floor, t.forks = s.forks, t.expect = s.expect,
           \A p \in Pos : t.rows[p].by = s.rows[p].by, LinkOK(s, o)
    PROVE  LinkOK(t, o)
<1>1. Holds(t, o.dev, o.seq - 1) <=> Holds(s, o.dev, o.seq - 1)
  BY DEF Holds
<1>2. Holds(s, o.dev, o.seq - 1) =>
        t.rows[<<o.dev, o.seq - 1>>].by = s.rows[<<o.dev, o.seq - 1>>].by
  BY DEF Holds
<1> QED
  BY <1>1, <1>2 DEF LinkOK

\* The row of the op at its position is the op's, and no other row changes.
OnlyRow(s, t, o) ==
    \A p \in Pos :
        \/ t.rows[p].by = s.rows[p].by
        \/ /\ p = <<o.dev, o.seq>> /\ ~Taken(s, o.dev, o.seq) /\ t.rows[p].by = o.by

\* The log after ops_insert and check_links.
Logged(s, o) == CheckLinks([s EXCEPT !.rows[<<o.dev, o.seq>>].by = o.by], o)

\* The row of a new op, and the links from it and to it.
LEMMA LoggedIs ==
    ASSUME NEW W, WireOK(W), NEW s, Sound(W, s), Kept(s), Low(s), NEW o \in W,
           ~Taken(s, o.dev, o.seq),
           NEW u, u = Logged(s, o)
    PROVE  /\ Sound(W, u) /\ Kept(u) /\ Low(u) /\ Grown(s, u) /\ Steady(s, u)
           /\ u.floor = s.floor /\ u.cursor = s.cursor /\ u.claims = s.claims
           /\ u.div = s.div /\ u.acks = s.acks /\ u.sent = s.sent
           /\ OnlyRow(s, u, o) /\ Taken(u, o.dev, o.seq)
           /\ o.prev # None => LinkOK(u, o)
           /\ \A q \in W : LinkStays(s, u, q)
<1>1. /\ o.dev \in Dev /\ o.seq \in 1..MaxSeq[o.dev] /\ o.by \in Replica
      /\ o.by \in Signed(W, o.dev, o.seq)
  BY DEF WireOK, OpOK, Signed
<1>2. PICK v : v = [s EXCEPT !.rows[<<o.dev, o.seq>>].by = o.by]
  OBVIOUS
<1>3. /\ Sound(W, v) /\ Kept(v) /\ Low(v) /\ Grown(s, v) /\ Steady(s, v)
  BY <1>1, <1>2, InsertIs, SMTT(30)
<1>4. /\ v.floor = s.floor /\ v.cursor = s.cursor /\ v.expect = s.expect
      /\ v.forks = s.forks /\ v.claims = s.claims /\ v.div = s.div
      /\ v.acks = s.acks /\ v.sent = s.sent
      /\ v.rows[<<o.dev, o.seq>>].by = o.by
      /\ \A p \in Pos : p # <<o.dev, o.seq>> => v.rows[p] = s.rows[p]
  <2>1. /\ v.floor = s.floor /\ v.cursor = s.cursor /\ v.expect = s.expect
        /\ v.forks = s.forks /\ v.claims = s.claims
    BY <1>1, <1>2, InsertIs
  <2>2. v.div = s.div /\ v.acks = s.acks /\ v.sent = s.sent
    BY <1>1, <1>2, InsertIs
  <2>3. v.rows[<<o.dev, o.seq>>].by = o.by
    <3>1. /\ s \in Vault
          /\ s.rows \in [Pos -> [by : Replica \cup {None}, root : Seq(Replica)]]
      BY DEF Sound, Vault
    <3>2. <<o.dev, o.seq>> \in Pos
      BY <1>1, PosIs
    <3>3. v.rows = [s.rows EXCEPT ![<<o.dev, o.seq>>].by = o.by]
      BY <1>2, <3>1 DEF Vault
    <3> QED
      BY <3>1, <3>2, <3>3
  <2>4. \A p \in Pos : p # <<o.dev, o.seq>> => v.rows[p] = s.rows[p]
    BY <1>1, <1>2, InsertIs
  <2> QED
    BY <2>1, <2>2, <2>3, <2>4
<1>5. u = CheckLinks(v, o)
  BY <1>2 DEF Logged
<1>6. /\ Sound(W, u)
      /\ u.rows = v.rows /\ u.floor = v.floor /\ u.cursor = v.cursor
      /\ u.claims = v.claims /\ u.div = v.div /\ u.acks = v.acks /\ u.sent = v.sent
      /\ v.forks \subseteq u.forks
      /\ o.prev # None => LinkOK(u, o)
  <2>1. Sound(W, u) /\ (o.prev # None => LinkOK(u, o))
    BY <1>3, <1>5, CheckLinksIs
  <2>2. v.forks \subseteq u.forks
    BY <1>3, <1>5, CheckLinksIs
  <2>3. u.rows = v.rows /\ u.floor = v.floor /\ u.cursor = v.cursor
    BY <1>3, <1>5, CheckLinksIs
  <2>4. u.claims = v.claims /\ u.div = v.div /\ u.acks = v.acks /\ u.sent = v.sent
    BY <1>3, <1>5, CheckLinksIs
  <2> QED
    BY <2>1, <2>3, <2>4, <2>2
<1>7. \A x \in v.expect : x \in u.expect \/ (x.dev = o.dev /\ x.seq = o.seq)
  BY <1>3, <1>5, CheckLinksIs
<1>8. \A x \in v.expect :
        (/\ x.dev = o.dev /\ x.seq = o.seq /\ x.by # o.by
         /\ Holds(v, x.namer[1], x.namer[2]))
        => \E f \in u.forks : f.dev = o.dev /\ f.seq = o.seq
  BY <1>3, <1>5, CheckLinksIs
<1>9. Kept(u)
  BY <1>3, <1>6 DEF Kept
<1>10. Low(u)
  BY <1>3, <1>6 DEF Low
<1>11. Grown(s, u)
  <2>1. \A p \in Pos : Taken(u, p[1], p[2]) <=> Taken(v, p[1], p[2])
    BY <1>6 DEF Taken, Holds
  <2> QED
    BY <1>3, <1>6, <2>1 DEF Grown
<1>12. Steady(s, u)
  BY <1>3, <1>6 DEF Steady, HasRoot, RootAt, Holds
<1>13. <<o.dev, o.seq>> \in Pos /\ None \notin Replica
  BY <1>1, PosIs, ReplicaAssumption
<1>14. /\ u.rows[<<o.dev, o.seq>>].by = o.by
       /\ \A p \in Pos : p # <<o.dev, o.seq>> => u.rows[p].by = s.rows[p].by
  BY <1>4, <1>6
<1>15. Taken(u, o.dev, o.seq) /\ OnlyRow(s, u, o)
  BY <1>1, <1>13, <1>14 DEF Taken, Holds, OnlyRow
<1>16. ASSUME NEW q \in W, q.prev # None, Holds(s, q.dev, q.seq), LinkOK(s, q)
       PROVE  LinkOK(u, q)
  <2>1. <<q.dev, q.seq - 1>> \in Pos /\ <<q.dev, q.seq>> \in Pos
    BY <1>16, PredecessorIs
  <2>2. s \in Vault /\ u \in Vault /\ s.forks \subseteq u.forks
    BY <1>4, <1>6 DEF Sound
  <2>3. CASE <<q.dev, q.seq - 1>> # <<o.dev, o.seq>>
    <3>1. u.rows[<<q.dev, q.seq - 1>>].by \in {s.rows[<<q.dev, q.seq - 1>>].by, None}
      BY <1>14, <2>1, <2>3
    <3>2. \A x \in s.expect : (x.dev = q.dev /\ x.seq = q.seq - 1) =>
            x \in u.expect \/ q.seq - 1 <= Len(u.floor[q.dev])
      BY <1>4, <1>7, <2>3
    <3> QED
      BY <1>11, <1>16, <2>1, <2>2, <3>1, <3>2, LinkTransfer
  <2>4. CASE <<q.dev, q.seq - 1>> = <<o.dev, o.seq>>
    <3>1. q.dev = o.dev /\ q.seq - 1 = o.seq
      BY <2>4
    <3>2. ~Holds(s, q.dev, q.seq - 1) /\ ~(q.seq - 1 <= Len(s.floor[q.dev]))
      BY <3>1 DEF Taken
    <3>3. PICK x \in s.expect : /\ x.dev = o.dev /\ x.seq = o.seq /\ x.by = q.prev
                                /\ x.namer = <<q.dev, q.seq>>
      BY <1>16, <3>1, <3>2 DEF LinkOK
    <3>4. Holds(v, x.namer[1], x.namer[2])
      <4>1. <<q.dev, q.seq>> # <<o.dev, o.seq>>
        BY <1>16 DEF Taken
      <4>2. v.rows[<<q.dev, q.seq>>] = s.rows[<<q.dev, q.seq>>]
        BY <1>4, <2>1, <4>1
      <4> QED
        BY <1>16, <2>1, <3>3, <4>2 DEF Holds
    <3>5. Holds(u, q.dev, q.seq - 1)
      BY <1>1, <1>13, <1>14, <3>1 DEF Holds
    <3>6. CASE q.prev = o.by
      BY <1>14, <3>1, <3>5, <3>6 DEF LinkOK
    <3>7. CASE q.prev # o.by
      <4>1. \E f \in u.forks : f.dev = o.dev /\ f.seq = o.seq
        BY <1>4, <1>8, <3>3, <3>4, <3>7
      <4> QED
        BY <3>1, <3>5, <4>1 DEF LinkOK
    <3> QED
      BY <3>6, <3>7
  <2> QED
    BY <2>3, <2>4
<1>17. \A q \in W : LinkStays(s, u, q)
  BY <1>16 DEF LinkStays
<1> QED
  BY <1>4, <1>6, <1>9, <1>10, <1>11, <1>12, <1>15, <1>17

\* reconcile, of the digest of an op that is in the log.
LEMMA ReadIs ==
    ASSUME NEW W, WireOK(W), NEW s, Sound(W, s), Kept(s), Low(s), NEW o \in W,
           Taken(s, o.dev, o.seq), o.front # <<>>,
           NEW t, t = Reconcile(s, o.dev, o.front[1])
    PROVE  /\ Sound(W, t) /\ Kept(t) /\ Low(t)
           /\ t.rows = s.rows /\ t.floor = s.floor /\ t.cursor = s.cursor
           /\ t.expect = s.expect /\ t.forks = s.forks
           /\ \A k \in Dev, d \in Dev :
                \/ t.acks[k][d] = s.acks[k][d]
                \/ k = o.dev /\ t.acks[k][d] = Len(o.front[1][d])
           /\ Answers(W, s, t)
           /\ \A d \in Dev : o.front[1][d] # <<>> => Answered(W, t, o.dev, d)
<1>1. PICK front : front = o.front[1]
  OBVIOUS
<1>2. o.dev \in Dev /\ FrontOK(W, front)
  BY <1>1 DEF WireOK, OpOK
<1>3. t = Reconcile(s, o.dev, front)
  BY <1>1
<1>4. /\ Sound(W, t) /\ Kept(t) /\ Low(t)
      /\ t.rows = s.rows /\ t.floor = s.floor /\ t.cursor = s.cursor
      /\ t.expect = s.expect /\ t.forks = s.forks
  BY <1>2, <1>3, ReconcileIs
<1>5. \A k \in Dev, d \in Dev : \/ t.acks[k][d] = s.acks[k][d]
                                \/ k = o.dev /\ t.acks[k][d] = Len(front[d])
  BY <1>2, <1>3, ReconcileIs
<1>6. /\ \A c \in t.claims : c \in s.claims \/ /\ c.peer = o.dev
                                               /\ c.root = front[c.dev]
      /\ \A c \in s.claims : \E e \in t.claims : e.dev = c.dev /\ e.peer = c.peer
  BY <1>2, <1>3, ReconcileIs
<1>7. \A d \in Dev : front[d] # <<>> => Replies(t, o.dev, d, front[d])
  BY <1>2, <1>3, ReconcileIs
<1>8. \A x \in s.div :
        \/ \E y \in t.div : y.dev = x.dev /\ y.peer = x.peer
        \/ /\ x.peer = o.dev /\ front[x.dev] # <<>>
           /\ Reached(t, x.dev, Len(front[x.dev]))
           /\ ~Differs(t, x.dev, front[x.dev])
  BY <1>2, <1>3, ReconcileIs
<1>9. /\ s \in Vault /\ t \in Vault
      /\ s.claims \in SUBSET [dev : Dev, peer : Dev, root : Seq(Replica)]
      /\ t.claims \in SUBSET [dev : Dev, peer : Dev, root : Seq(Replica)]
      /\ s.div \in SUBSET [dev : Dev, peer : Dev, seq : Nat]
  BY <1>4 DEF Sound, Vault
<1>10. Taken(t, o.dev, o.seq)
  BY <1>4 DEF Taken, Holds
<1>11. \A d \in Dev : Stated(W, t, o.dev, d, front[d]) /\ front[d] \in Seq(Replica)
  BY <1>1, <1>2, <1>10 DEF Stated, FrontOK
<1>12. ASSUME NEW d \in Dev, front[d] # <<>>, Reached(t, d, Len(front[d])),
              ~Differs(t, d, front[d])
       PROVE  Answered(W, t, o.dev, d)
  BY <1>11, <1>12 DEF Answered
<1>13. \A d \in Dev : front[d] # <<>> => Answered(W, t, o.dev, d)
  <2>1. SUFFICES ASSUME NEW d \in Dev, front[d] # <<>> PROVE Answered(W, t, o.dev, d)
    OBVIOUS
  <2>2. CASE \E x \in t.div : x.dev = d /\ x.peer = o.dev
    BY <2>2 DEF Answered
  <2>3. CASE \E c \in t.claims : c.dev = d /\ c.peer = o.dev
    BY <2>3 DEF Answered
  <2> QED
    BY <1>7, <1>12, <2>1, <2>2, <2>3 DEF Replies
<1>14. Grown(s, t)
  <2>1. /\ \A d \in Dev : s.cursor[d] \in Nat /\ Len(s.floor[d]) \in Nat
    <3>1. s.cursor \in [Dev -> Nat] /\ s.floor \in [Dev -> Seq(Replica)]
      BY <1>9 DEF Vault
    <3> QED
      BY <3>1
  <2>2. \A p \in Pos : Taken(t, p[1], p[2]) <=> Taken(s, p[1], p[2])
    BY <1>4 DEF Taken, Holds
  <2> QED
    BY <1>4, <2>1, <2>2 DEF Grown
<1>15. Steady(s, t)
  BY <1>4 DEF Steady, HasRoot, RootAt, Holds
<1>16. Answers(W, s, t)
  <2>1. SUFFICES ASSUME ClaimsTold(W, s)
                 PROVE  /\ ClaimsTold(W, t)
                        /\ \A peer \in Dev, d \in Dev :
                             Answered(W, s, peer, d) => Answered(W, t, peer, d)
    BY DEF Answers
  <2>2. ClaimsTold(W, t)
    <3>1. SUFFICES ASSUME NEW c \in t.claims PROVE Stated(W, t, c.peer, c.dev, c.root)
      BY DEF ClaimsTold
    <3>2. CASE c \in s.claims
      <4>1. Stated(W, s, c.peer, c.dev, c.root)
        BY <2>1, <3>2 DEF ClaimsTold
      <4> QED
        BY <1>14, <4>1, StatedGrows
    <3>3. CASE c.peer = o.dev /\ c.root = front[c.dev]
      BY <1>9, <1>11, <3>3
    <3> QED
      BY <1>6, <3>2, <3>3
  <2>3. ASSUME NEW peer \in Dev, NEW d \in Dev, Answered(W, s, peer, d)
        PROVE  Answered(W, t, peer, d)
    <3>1. ASSUME NEW x \in s.div, x.dev = d, x.peer = peer PROVE Answered(W, t, peer, d)
      <4>1. CASE \E y \in t.div : y.dev = x.dev /\ y.peer = x.peer
        BY <3>1, <4>1 DEF Answered
      <4>2. CASE /\ x.peer = o.dev /\ front[x.dev] # <<>>
                 /\ Reached(t, x.dev, Len(front[x.dev])) /\ ~Differs(t, x.dev, front[x.dev])
        BY <1>12, <3>1, <4>2
      <4> QED
        BY <1>8, <4>1, <4>2
    <3>2. ASSUME NEW c \in s.claims, c.dev = d, c.peer = peer PROVE Answered(W, t, peer, d)
      BY <1>6, <3>2 DEF Answered
    <3>3. ASSUME NEW root \in Seq(Replica), Stated(W, s, peer, d, root), root # <<>>,
                 Reached(s, d, Len(root)), ~Differs(s, d, root)
          PROVE  Answered(W, t, peer, d)
      BY <1>9, <1>14, <1>15, <3>3, SteadyAnswers
    <3> QED
      BY <2>3, <3>1, <3>2, <3>3 DEF Answered
  <2> QED
    BY <2>2, <2>3
<1> QED
  BY <1>1, <1>4, <1>5, <1>13, <1>16

\* An acknowledgement is the one held before or the one of the op's digest.
AcksFrom(s, t, o) ==
    \A k \in Dev, d \in Dev :
        \/ t.acks[k][d] = s.acks[k][d]
        \/ k = o.dev /\ o.front # <<>> /\ t.acks[k][d] = Len(o.front[1][d])

\* An op that is new here.
LEMMA NewOpIs ==
    ASSUME NEW W, WireOK(W), NEW s, Sound(W, s), Kept(s), Low(s), NEW o \in W,
           ~Taken(s, o.dev, o.seq), NEW t, t = Received(s, o)
    PROVE  /\ Moved(W, s, t) /\ OnlyRow(s, t, o) /\ AcksFrom(s, t, o)
           /\ o.prev # None => LinkOK(t, o)
           /\ \A q \in W : LinkStays(s, t, q)
           /\ (ClaimsTold(W, s) /\ o.front # <<>>) =>
                \A d \in Dev : o.front[1][d] # <<>> => Answered(W, t, o.dev, d)
<1>0. o.dev \in Dev /\ {o.dev} \in SUBSET Dev
  BY DEF WireOK, OpOK
<1>1. PICK u : u = Logged(s, o)
  OBVIOUS
<1>2. PICK v : v = IF o.front = <<>> THEN u ELSE Reconcile(u, o.dev, o.front[1])
  OBVIOUS
<1>3. t = UpsertCursor(v, {o.dev})
  BY <1>1, <1>2 DEF Received, Taken, Logged
<1>4. /\ Sound(W, u) /\ Kept(u) /\ Low(u) /\ Grown(s, u) /\ Steady(s, u)
      /\ u.acks = s.acks /\ Taken(u, o.dev, o.seq)
  BY <1>1, LoggedIs
<1>5. OnlyRow(s, u, o)
  BY <1>1, LoggedIs
<1>6. /\ o.prev # None => LinkOK(u, o)
      /\ \A q \in W : LinkStays(s, u, q)
  BY <1>1, LoggedIs
<1>7. Answers(W, s, u)
  <2>1. u.claims = s.claims /\ u.div = s.div /\ u \in Vault
    BY <1>1, <1>4, LoggedIs DEF Sound
  <2>2. Judged(s, u)
    BY <2>1 DEF Judged
  <2> QED
    BY <1>4, <2>1, <2>2, AnswersKept
<1>8. /\ Sound(W, v) /\ Kept(v) /\ Low(v)
      /\ v.rows = u.rows /\ v.floor = u.floor /\ v.cursor = u.cursor
      /\ v.expect = u.expect /\ v.forks = u.forks
  BY <1>2, <1>4, ReadIs
<1>9. AcksFrom(u, v, o)
  BY <1>2, <1>4, ReadIs DEF AcksFrom
<1>10. /\ Answers(W, u, v)
       /\ o.front # <<>> => \A d \in Dev : o.front[1][d] # <<>> => Answered(W, v, o.dev, d)
  <2>1. CASE o.front = <<>>
    BY <1>2, <2>1 DEF Answers
  <2>2. CASE o.front # <<>>
    BY <1>2, <1>4, <2>2, ReadIs
  <2> QED
    BY <2>1, <2>2
<1>11. \A d \in Dev \ {o.dev} : Len(v.floor[d]) <= v.cursor[d]
  BY <1>8 DEF Low
<1>12. /\ Sound(W, t) /\ Kept(t) /\ Low(t)
       /\ t.floor = v.floor /\ t.expect = v.expect /\ t.forks = v.forks
       /\ t.acks = v.acks
       /\ \A p \in Pos : t.rows[p].by = v.rows[p].by
       /\ t.claims \subseteq v.claims
       /\ Grown(v, t) /\ Steady(v, t) /\ Judged(v, t)
  BY <1>0, <1>3, <1>8, <1>11, UpsertIs
<1>13. s \in Vault /\ u \in Vault /\ v \in Vault /\ t \in Vault
  BY <1>4, <1>8, <1>12 DEF Sound
<1>14. Grown(s, t)
  <2>1. Grown(s, v)
    <3>1. \A p \in Pos : Taken(v, p[1], p[2]) <=> Taken(u, p[1], p[2])
      BY <1>8 DEF Taken, Holds
    <3> QED
      BY <1>4, <1>8, <3>1 DEF Grown
  <2> QED
    BY <1>12, <1>13, <2>1, GrownTrans
<1>15. Answers(W, v, t)
  BY <1>8, <1>12, <1>13, AnswersKept
<1>16. Answers(W, s, t)
  BY <1>7, <1>10, <1>15 DEF Answers
<1>17. OnlyRow(s, t, o)
  <2>1. \A p \in Pos : t.rows[p].by = u.rows[p].by
    BY <1>8, <1>12
  <2> QED
    BY <1>5, <2>1 DEF OnlyRow
<1>18. AcksFrom(s, t, o)
  BY <1>4, <1>9, <1>12 DEF AcksFrom
<1>19. ASSUME NEW q, LinkOK(u, q) PROVE LinkOK(t, q)
  <2>1. \A p \in Pos : t.rows[p].by = u.rows[p].by
    BY <1>8, <1>12
  <2>2. t.floor = u.floor /\ t.forks = u.forks /\ t.expect = u.expect
    BY <1>8, <1>12
  <2> QED
    BY <1>19, <2>1, <2>2, LinkSame
<1>20. /\ o.prev # None => LinkOK(t, o)
       /\ \A q \in W : LinkStays(s, t, q)
  BY <1>6, <1>19 DEF LinkStays
<1>21. ASSUME ClaimsTold(W, s), o.front # <<>>, NEW d \in Dev, o.front[1][d] # <<>>
       PROVE  Answered(W, t, o.dev, d)
  <2>1. ClaimsTold(W, v)
    BY <1>7, <1>10, <1>21 DEF Answers
  <2> QED
    BY <1>0, <1>10, <1>15, <1>21, <2>1 DEF Answers
<1> QED
  BY <1>12, <1>14, <1>16, <1>17, <1>18, <1>20, <1>21 DEF Moved

\* Another op at a position that is taken is a fork row at most.
LEMMA OldOpIs ==
    ASSUME NEW W, WireOK(W), NEW s, Sound(W, s), Kept(s), Low(s), NEW o \in W,
           Taken(s, o.dev, o.seq), NEW t, t = Received(s, o)
    PROVE  /\ Moved(W, s, t) /\ OnlyRow(s, t, o) /\ AcksFrom(s, t, o)
           /\ \A q \in W : LinkStays(s, t, q)
<1>1. /\ o.dev \in Dev /\ o.seq \in 1..MaxSeq[o.dev] /\ o.by \in Replica /\ o.seq \in Nat
      /\ o.by \in Signed(W, o.dev, o.seq)
  BY DEF WireOK, OpOK, Signed
<1>2. PICK held : held = HeldHash(s, o.dev, o.seq)
  OBVIOUS
<1>3. PICK forks : forks = s.forks \cup {ForkRow(o.dev, o.seq, "seq", held, o.by)}
  OBVIOUS
<1>4. \/ t = s
      \/ held \notin {None, o.by} /\ t = [s EXCEPT !.forks = forks]
  BY <1>2, <1>3 DEF Received, Taken
<1>5. /\ s \in Vault
      /\ s.forks \in SUBSET [dev : Dev, seq : Nat, kind : {"seq", "link", "head"},
                             held : Replica, other : Replica]
  BY DEF Sound, Vault
<1>6. held \notin {None, o.by} => held \in Replica /\ held \in Signed(W, o.dev, o.seq)
  BY <1>1, <1>2, HeldHashIs
<1>7. held \notin {None, o.by} =>
        /\ forks \in SUBSET [dev : Dev, seq : Nat, kind : {"seq", "link", "head"},
                             held : Replica, other : Replica]
        /\ \A x \in forks : x \in s.forks \/ /\ x.held # x.other
                                             /\ {x.held, x.other} \subseteq Signed(W, x.dev, x.seq)
  BY <1>1, <1>3, <1>5, <1>6 DEF ForkRow
<1>8. /\ t \in Vault /\ t.rows = s.rows /\ t.floor = s.floor /\ t.cursor = s.cursor
      /\ t.expect = s.expect /\ t.claims = s.claims /\ t.div = s.div
      /\ t.acks = s.acks /\ t.sent = s.sent
      /\ \/ t.forks = s.forks
         \/ held \notin {None, o.by} /\ t.forks = forks
  BY <1>4, <1>5, <1>7 DEF Vault
<1>9. s.forks \subseteq t.forks
  BY <1>3, <1>8
<1>10. Sound(W, t)
  <2>1. RowsOK(W, t) /\ FloorOK(W, t) /\ ClaimsOK(W, t) /\ ExpectOK(W, t) /\ DivOK(W, t)
    BY <1>8 DEF Sound, RowsOK, FloorOK, ClaimsOK, ExpectOK, DivOK
  <2>2. ForksOK(W, t)
    BY <1>7, <1>8 DEF Sound, ForksOK
  <2> QED
    BY <1>8, <2>1, <2>2 DEF Sound
<1>11. Kept(t) /\ Low(t)
  BY <1>8 DEF Kept, Low
<1>12. Grown(s, t)
  <2>1. \A d \in Dev : s.cursor[d] \in Nat /\ Len(s.floor[d]) \in Nat
    <3>1. s.cursor \in [Dev -> Nat] /\ s.floor \in [Dev -> Seq(Replica)]
      BY <1>5 DEF Vault
    <3> QED
      BY <3>1
  <2>2. \A p \in Pos : Taken(t, p[1], p[2]) <=> Taken(s, p[1], p[2])
    BY <1>8 DEF Taken, Holds
  <2> QED
    BY <1>8, <2>1, <2>2 DEF Grown
<1>13. Answers(W, s, t)
  <2>1. Steady(s, t)
    BY <1>8 DEF Steady, HasRoot, RootAt, Holds
  <2>2. Judged(s, t) /\ t.claims \subseteq s.claims
    BY <1>8 DEF Judged
  <2> QED
    BY <1>8, <1>12, <2>1, <2>2, AnswersKept
<1>14. OnlyRow(s, t, o) /\ AcksFrom(s, t, o)
  BY <1>8 DEF OnlyRow, AcksFrom
<1>15. ASSUME NEW q \in W, q.prev # None, LinkOK(s, q) PROVE LinkOK(t, q)
  <2>1. Holds(t, q.dev, q.seq - 1) <=> Holds(s, q.dev, q.seq - 1)
    BY <1>8 DEF Holds
  <2> QED
    BY <1>8, <1>9, <1>15, <2>1 DEF LinkOK
<1> QED
  BY <1>10, <1>11, <1>12, <1>13, <1>14, <1>15 DEF Moved, LinkStays

-----------------------------------------------------------------------------
(* More ops published: what was signed and stated stays so. *)

\* Signers.
LEMMA SignedGrows ==
    ASSUME NEW W, NEW X, W \subseteq X, NEW d, NEW n
    PROVE  Signed(W, d, n) \subseteq Signed(X, d, n)
  BY DEF Signed

\* Chains.
LEMMA ChainGrows ==
    ASSUME NEW W, NEW X, W \subseteq X, NEW d, NEW root, ChainOK(W, d, root)
    PROVE  ChainOK(X, d, root)
  BY SignedGrows DEF ChainOK

\* Frontiers.
LEMMA FrontGrows ==
    ASSUME NEW W, NEW X, W \subseteq X, NEW f, FrontOK(W, f)
    PROVE  FrontOK(X, f)
  BY ChainGrows DEF FrontOK

\* Ops.
LEMMA OpGrows ==
    ASSUME NEW W, NEW X, W \subseteq X, NEW o, OpOK(W, o)
    PROVE  OpOK(X, o)
<1>1. \A d, n : Signed(W, d, n) \subseteq Signed(X, d, n)
  BY SignedGrows
<1>2. \A f : FrontOK(W, f) => FrontOK(X, f)
  BY FrontGrows
<1> QED
  BY <1>1, <1>2 DEF OpOK

\* Vaults.
LEMMA SoundGrows ==
    ASSUME NEW W, NEW X, W \subseteq X, NEW s, Sound(W, s)
    PROVE  Sound(X, s)
<1>1. \A d, n : Signed(W, d, n) \subseteq Signed(X, d, n)
  BY SignedGrows
<1>2. \A d, root : ChainOK(W, d, root) => ChainOK(X, d, root)
  BY ChainGrows
<1>3. RowsOK(X, s)
  BY <1>1, <1>2 DEF Sound, RowsOK
<1>4. FloorOK(X, s) /\ ClaimsOK(X, s)
  BY <1>2 DEF Sound, FloorOK, ClaimsOK
<1>5. ExpectOK(X, s) /\ ForksOK(X, s)
  BY <1>1 DEF Sound, ExpectOK, ForksOK
<1>6. DivOK(X, s)
  BY <1>1 DEF Sound, DivOK
<1> QED
  BY <1>3, <1>4, <1>5, <1>6 DEF Sound

\* Answers.
LEMMA AnsweredGrows ==
    ASSUME NEW W, NEW X, W \subseteq X, NEW s
    PROVE  /\ ClaimsTold(W, s) => ClaimsTold(X, s)
           /\ \A peer, d : Answered(W, s, peer, d) => Answered(X, s, peer, d)
<1>1. \A peer, d, root : Stated(W, s, peer, d, root) => Stated(X, s, peer, d, root)
  BY DEF Stated
<1>2. ClaimsTold(W, s) => ClaimsTold(X, s)
  BY <1>1 DEF ClaimsTold
<1>3. \A peer, d : Answered(W, s, peer, d) => Answered(X, s, peer, d)
  BY <1>1, Zenon DEF Answered
<1> QED
  BY <1>2, <1>3

-----------------------------------------------------------------------------
(***************************************************************************)
(* ops_insert_at: an op of this vault, and its row.                        *)
(***************************************************************************)
NewOp(s, r, front) ==
    [dev |-> DevOf[r], seq |-> NextSeq(s, DevOf[r]), by |-> r,
     prev |-> IF NextSeq(s, DevOf[r]) > 1
              THEN HeldHash(s, DevOf[r], NextSeq(s, DevOf[r]) - 1) ELSE None,
     heads |-> {[dev |-> d, seq |-> s.cursor[d], by |-> HeldHash(s, d, s.cursor[d])] :
                  d \in Tips(s, DevOf[r])},
     front |-> front]

Listed(s, r) ==
    [s EXCEPT !.rows[<<DevOf[r], NextSeq(s, DevOf[r])>>].by = r,
              !.sent = [d \in Dev |-> IF d \in Tips(s, DevOf[r])
                                      THEN s.cursor[d] ELSE @[d]]]

\* The next seq is above all that is held or covered.
LEMMA NextSeqIs ==
    ASSUME NEW W, NEW s, Sound(W, s), NEW d \in Dev
    PROVE  NextSeq(s, d) \in Nat \ {0} /\ ~Taken(s, d, NextSeq(s, d))
<1> DEFINE held == {n \in 1..MaxSeq[d] : Holds(s, d, n)}
           S == {0, Len(s.floor[d])} \cup held
<1>1. MaxSeq[d] \in Nat /\ Len(s.floor[d]) \in 0..MaxSeq[d]
  <2>1. s.floor[d] \in Seq(Replica) /\ Len(s.floor[d]) <= MaxSeq[d]
    BY DEF Sound, FloorOK, ChainOK
  <2> QED
    BY <2>1, Bounds
<1>2. S \subseteq 0..MaxSeq[d] /\ 0 \in S /\ Len(s.floor[d]) \in S
  BY <1>1
<1>3. NextSeq(s, d) = Max(S) + 1
  BY DEF NextSeq
<1>4. \A n : Holds(s, d, n) => n \in S /\ n \in Nat
  BY PosIs DEF Holds
<1> HIDE DEF S
<1>5. Max(S) \in S /\ \A y \in S : y <= Max(S)
  <2>1. S # {}
    BY <1>2
  <2> QED
    BY <1>1, <1>2, <2>1, MaxOfBounded
<1>6. Max(S) \in Nat
  <2>1. Max(S) \in 0..MaxSeq[d]
    BY <1>2, <1>5
  <2> QED
    BY <1>1, <2>1
<1>7. NextSeq(s, d) \in Nat /\ NextSeq(s, d) > Max(S)
  BY <1>3, <1>6
<1>8. ~Holds(s, d, NextSeq(s, d))
  BY <1>4, <1>5, <1>6, <1>7
<1>9. ~(NextSeq(s, d) <= Len(s.floor[d]))
  BY <1>1, <1>2, <1>5, <1>6, <1>7
<1> QED
  BY <1>6, <1>7, <1>8, <1>9 DEF Taken

\* The entries of a digest or a snapshot record are chains.
LEMMA FrontierIs ==
    ASSUME NEW W, NEW s, Sound(W, s)
    PROVE  /\ FrontOK(W, Frontier(s))
           /\ \A d \in Dev : Len(Frontier(s)[d]) <= s.cursor[d]
<1>1. \A d \in Dev : s.cursor[d] \in Nat
  BY DEF Sound, Vault
<1>2. \A d \in Dev : /\ RootAt(s, d, s.cursor[d]) \in Seq(Replica)
                     /\ ChainOK(W, d, RootAt(s, d, s.cursor[d]))
                     /\ Len(RootAt(s, d, s.cursor[d])) \in {0, s.cursor[d]}
  BY <1>1, RootIs
<1>3. FrontOK(W, Frontier(s))
  BY <1>2 DEF FrontOK, Frontier
<1>4. \A d \in Dev : Len(RootAt(s, d, s.cursor[d])) <= s.cursor[d]
  BY <1>1, <1>2
<1> QED
  BY <1>3, <1>4 DEF Frontier

\* The op is in order with those published before it.
LEMMA SignedOpIs ==
    ASSUME NEW W, WireOK(W), NEW s, Sound(W, s), NEW r \in Replica,
           NextSeq(s, DevOf[r]) <= MaxSeq[DevOf[r]],
           NEW front, front = <<>> \/ front = <<Frontier(s)>>,
           NEW o, o = NewOp(s, r, front), NEW X, X = W \cup {o}
    PROVE  WireOK(X)
<1>1. DevOf[r] \in Dev
  BY ReplicaAssumption
<1>2. PICK n : n = NextSeq(s, DevOf[r])
  OBVIOUS
<1>3. n \in 1..MaxSeq[DevOf[r]] /\ n \in Nat
  <2>1. n \in Nat \ {0} /\ MaxSeq[DevOf[r]] \in Nat
    BY <1>1, <1>2, NextSeqIs, Bounds
  <2> QED
    BY <1>2, <2>1
<1>4. /\ o.dev = DevOf[r] /\ o.seq = n /\ o.by = r /\ o.front = front
      /\ o.prev = IF n > 1 THEN HeldHash(s, DevOf[r], n - 1) ELSE None
      /\ o.heads = {[dev |-> d, seq |-> s.cursor[d], by |-> HeldHash(s, d, s.cursor[d])] :
                      d \in Tips(s, DevOf[r])}
  BY <1>2 DEF NewOp
<1>5. o.prev # None => o.seq > 1 /\ o.prev \in Signed(W, o.dev, o.seq - 1)
  <2>1. SUFFICES ASSUME o.prev # None
                 PROVE  o.seq > 1 /\ o.prev \in Signed(W, o.dev, o.seq - 1)
    OBVIOUS
  <2>2. n > 1 /\ o.prev = HeldHash(s, DevOf[r], n - 1)
    BY <1>4, <2>1
  <2>3. n - 1 \in Nat
    BY <1>3, <2>2
  <2> QED
    BY <1>1, <1>4, <2>1, <2>2, <2>3, HeldHashIs
<1>6. \A h \in o.heads : /\ h.dev \in Dev /\ h.seq \in 1..MaxSeq[h.dev]
                         /\ h.by \in Signed(W, h.dev, h.seq)
  <2>1. SUFFICES ASSUME NEW h \in o.heads
                 PROVE  /\ h.dev \in Dev /\ h.seq \in 1..MaxSeq[h.dev]
                        /\ h.by \in Signed(W, h.dev, h.seq)
    OBVIOUS
  <2>2. PICK d \in Tips(s, DevOf[r]) :
          h = [dev |-> d, seq |-> s.cursor[d], by |-> HeldHash(s, d, s.cursor[d])]
    BY <1>4
  <2>3. d \in Dev /\ HeldHash(s, d, s.cursor[d]) # None
    BY DEF Tips
  <2>4. s.cursor[d] \in Nat
    BY <2>3 DEF Sound, Vault
  <2>5. /\ s.cursor[d] \in 1..MaxSeq[d]
        /\ HeldHash(s, d, s.cursor[d]) \in Signed(W, d, s.cursor[d])
    BY <2>3, <2>4, HeldHashIs
  <2> QED
    BY <2>2, <2>3, <2>5
<1>7. FrontOK(W, Frontier(s))
  BY FrontierIs
<1>8. o.front # <<>> => o.front = <<o.front[1]>> /\ FrontOK(W, o.front[1])
  BY <1>4, <1>7
<1>9. OpOK(W, o)
  BY <1>1, <1>3, <1>4, <1>5, <1>6, <1>8 DEF OpOK
<1>10. W \subseteq X
  OBVIOUS
<1>11. \A p \in X : OpOK(W, p)
  BY <1>9 DEF WireOK
<1> QED
  BY <1>10, <1>11, OpGrows DEF WireOK

\* The vault that signed it: its prefix grows by the new row.
LEMMA AppendIs ==
    ASSUME NEW W, WireOK(W), NEW s, Sound(W, s), Kept(s), Low(s), NEW r \in Replica,
           NextSeq(s, DevOf[r]) <= MaxSeq[DevOf[r]],
           NEW o \in W, o.dev = DevOf[r], o.seq = NextSeq(s, DevOf[r]), o.by = r,
           NEW t, t = UpsertCursor(Listed(s, r), {DevOf[r]})
    PROVE  /\ Moved(W, s, t) /\ OnlyRow(s, t, o) /\ t.acks = s.acks
           /\ Taken(t, o.dev, o.seq)
           /\ \A q \in W : q.dev # DevOf[r] => LinkStays(s, t, q)
<1>1. PICK d : d = DevOf[r]
  OBVIOUS
<1>2. PICK n : n = NextSeq(s, d)
  OBVIOUS
<1>3. d \in Dev /\ {d} \in SUBSET Dev /\ o.dev = d /\ o.seq = n /\ o.by = r
  BY <1>1, <1>2, ReplicaAssumption
<1>4. n \in 1..MaxSeq[d] /\ ~Taken(s, d, n)
  <2>1. n \in Nat \ {0} /\ MaxSeq[d] \in Nat /\ ~Taken(s, d, n)
    BY <1>2, <1>3, NextSeqIs, Bounds
  <2> QED
    BY <1>1, <1>2, <2>1
<1>5. r \in Signed(W, d, n) /\ <<d, n>> \in Pos /\ None \notin Replica
  BY <1>3, <1>4, PosIs, ReplicaAssumption DEF Signed
<1>6. PICK u : u = [s EXCEPT !.rows[<<d, n>>].by = r]
  OBVIOUS
<1>7. PICK sent : sent = [e \in Dev |-> IF e \in Tips(s, d) THEN s.cursor[e] ELSE s.sent[e]]
  OBVIOUS
<1>8. PICK v : v = [u EXCEPT !.sent = sent]
  OBVIOUS
<1>9. /\ s \in Vault /\ s.cursor \in [Dev -> Nat] /\ s.sent \in [Dev -> Nat]
      /\ s.rows \in [Pos -> [by : Replica \cup {None}, root : Seq(Replica)]]
  BY DEF Sound, Vault
<1>10. sent \in [Dev -> Nat]
  BY <1>7, <1>9
<1>11. t = UpsertCursor(v, {d})
  <2>1. Listed(s, r) = v
    BY <1>1, <1>2, <1>6, <1>7, <1>8, <1>9 DEF Listed, Vault
  <2> QED
    BY <1>1, <2>1
<1>12. Sound(W, u) /\ Kept(u) /\ Low(u) /\ Grown(s, u) /\ Steady(s, u)
  BY <1>3, <1>4, <1>5, <1>6, InsertIs
<1>13. /\ u.floor = s.floor /\ u.cursor = s.cursor /\ u.expect = s.expect
       /\ u.forks = s.forks /\ u.claims = s.claims
  BY <1>3, <1>4, <1>5, <1>6, InsertIs
<1>14. u.div = s.div /\ u.acks = s.acks
  BY <1>3, <1>4, <1>5, <1>6, InsertIs
<1>15. \A p \in Pos : p # <<d, n>> => u.rows[p] = s.rows[p]
  BY <1>3, <1>4, <1>5, <1>6, InsertIs
<1>16. u.rows[<<d, n>>].by = r
  <2>1. u.rows = [s.rows EXCEPT ![<<d, n>>].by = r]
    BY <1>6, <1>9 DEF Vault
  <2> QED
    BY <1>5, <1>9, <2>1
<1>17. u \in Vault
  BY <1>12 DEF Sound
<1>18. /\ v \in Vault /\ v.rows = u.rows /\ v.floor = u.floor /\ v.cursor = u.cursor
       /\ v.expect = u.expect /\ v.forks = u.forks /\ v.claims = u.claims
       /\ v.div = u.div /\ v.acks = u.acks
  BY <1>8, <1>10, <1>17 DEF Vault
<1>19. Sound(W, v)
  <2>1. RowsOK(W, v) /\ FloorOK(W, v) /\ ClaimsOK(W, v)
    BY <1>12, <1>18 DEF Sound, RowsOK, FloorOK, ClaimsOK
  <2>2. ExpectOK(W, v) /\ ForksOK(W, v) /\ DivOK(W, v)
    BY <1>12, <1>18 DEF Sound, ExpectOK, ForksOK, DivOK
  <2> QED
    BY <1>18, <2>1, <2>2 DEF Sound
<1>20. Kept(v)
  BY <1>12, <1>18 DEF Kept
<1>21. Grown(s, v)
  <2>1. \A p \in Pos : Taken(v, p[1], p[2]) <=> Taken(u, p[1], p[2])
    BY <1>18 DEF Taken, Holds
  <2> QED
    BY <1>12, <1>18, <2>1 DEF Grown
<1>22. Steady(s, v)
  BY <1>12, <1>18 DEF Steady, HasRoot, RootAt, Holds
<1>23. \A e \in Dev \ {d} : Len(v.floor[e]) <= v.cursor[e]
  BY <1>12, <1>18 DEF Low
<1>24. /\ Sound(W, t) /\ Kept(t) /\ Low(t)
       /\ t.floor = v.floor /\ t.expect = v.expect /\ t.forks = v.forks
       /\ t.acks = v.acks
       /\ \A p \in Pos : t.rows[p].by = v.rows[p].by
       /\ t.claims \subseteq v.claims
       /\ Grown(v, t) /\ Steady(v, t) /\ Judged(v, t)
  <2>1. Sound(W, t) /\ Kept(t) /\ Low(t) /\ Grown(v, t) /\ Steady(v, t) /\ Judged(v, t)
    BY <1>3, <1>11, <1>19, <1>20, <1>23, UpsertIs
  <2>2. t.floor = v.floor /\ t.expect = v.expect /\ t.forks = v.forks /\ t.acks = v.acks
    BY <1>3, <1>11, <1>19, <1>20, <1>23, UpsertIs
  <2>3. \A p \in Pos : t.rows[p].by = v.rows[p].by
    <3>1. SUFFICES ASSUME NEW p \in Pos PROVE t.rows[p].by = v.rows[p].by
      OBVIOUS
    <3> QED
      BY <1>3, <1>11, <1>19, <1>20, <1>23, UpsertIs
  <2>4. t.claims \subseteq v.claims
    BY <1>3, <1>11, <1>19, <1>20, <1>23, UpsertIs
  <2> QED
    BY <2>1, <2>2, <2>3, <2>4
<1>25. t \in Vault
  BY <1>24 DEF Sound
<1>26. Grown(s, t)
  BY <1>9, <1>18, <1>21, <1>24, <1>25, GrownTrans
<1>27. Answers(W, s, t)
  <2>1. Judged(s, v) /\ v.claims \subseteq s.claims
    BY <1>13, <1>14, <1>18 DEF Judged
  <2>2. Answers(W, s, v)
    BY <1>18, <1>21, <1>22, <2>1, AnswersKept
  <2>3. Answers(W, v, t)
    BY <1>19, <1>24, <1>25, AnswersKept
  <2> QED
    BY <2>2, <2>3 DEF Answers
<1>28. /\ t.rows[<<d, n>>].by = r
       /\ \A p \in Pos : p # <<d, n>> => t.rows[p].by = s.rows[p].by
  <2>1. \A p \in Pos : t.rows[p].by = u.rows[p].by
    BY <1>18, <1>24
  <2> QED
    BY <1>5, <1>15, <1>16, <2>1
<1>29. OnlyRow(s, t, o)
  BY <1>3, <1>4, <1>28 DEF OnlyRow
<1>30. Taken(t, o.dev, o.seq)
  BY <1>3, <1>5, <1>28 DEF Taken, Holds
<1>31. t.acks = s.acks
  BY <1>14, <1>18, <1>24
<1>32. ASSUME NEW q \in W, q.dev # d, q.prev # None, LinkOK(s, q) PROVE LinkOK(t, q)
  <2>1. <<q.dev, q.seq - 1>> \in Pos
    BY <1>32, PredecessorIs
  <2>2. t.rows[<<q.dev, q.seq - 1>>].by = s.rows[<<q.dev, q.seq - 1>>].by
    BY <1>28, <1>32, <2>1
  <2>3. Holds(t, q.dev, q.seq - 1) <=> Holds(s, q.dev, q.seq - 1)
    BY <2>1, <2>2 DEF Holds
  <2>4. t.floor = s.floor /\ t.expect = s.expect /\ t.forks = s.forks
    BY <1>13, <1>18, <1>24
  <2> QED
    BY <1>32, <2>2, <2>3, <2>4 DEF LinkOK
<1> QED
  BY <1>1, <1>24, <1>26, <1>27, <1>29, <1>30, <1>31, <1>32 DEF Moved, LinkStays

-----------------------------------------------------------------------------
(***************************************************************************)
(* A step: vault r becomes t, having logged the ops N.                     *)
(***************************************************************************)
VaultStep(r, t, N) ==
    /\ rep' = [rep EXCEPT ![r] = t]
    /\ WireOK(wire') /\ wire \subseteq wire' /\ N \subseteq wire'
    /\ \A f \in snaps' : FrontOK(wire', f)
    /\ Moved(wire', rep[r], t)
    /\ \A o \in wire' \ wire :
         /\ o.by = r /\ ~Taken(rep[r], o.dev, o.seq) /\ Taken(t, o.dev, o.seq)
         /\ o.front # <<>> => \A d \in Dev : Len(o.front[1][d]) <= rep[r].cursor[d]
    /\ \A o, p \in wire' \ wire : o = p
    /\ \A p \in Pos : \/ t.rows[p].by \in {rep[r].rows[p].by, None}
                      \/ \E o \in N : p = <<o.dev, o.seq>> /\ t.rows[p].by = o.by
    /\ \A q \in wire' : q.dev # DevOf[r] => LinkStays(rep[r], t, q)
    /\ \A o \in N : o.dev # DevOf[r] =>
         /\ o.prev # None => LinkOK(t, o)
         /\ o.front # <<>> =>
              \A d \in Dev : o.front[1][d] # <<>> => Answered(wire', t, o.dev, d)
    /\ \A k \in Dev, d \in Dev :
         \/ t.acks[k][d] = rep[r].acks[k][d]
         \/ \E o \in wire : /\ o.dev = k /\ o.front # <<>>
                            /\ t.acks[k][d] = Len(o.front[1][d])

\* Every vault grows.
LEMMA StepGrows ==
    ASSUME BaseInv, NEW r \in Replica, NEW t, NEW N, VaultStep(r, t, N)
    PROVE  /\ rep' = [q \in Replica |-> IF q = r THEN t ELSE rep[q]]
           /\ \A q \in Replica : /\ rep[q] \in Vault /\ rep'[q] \in Vault
                                 /\ Grown(rep[q], rep'[q])
<1>1. rep' = [q \in Replica |-> IF q = r THEN t ELSE rep[q]]
  <2>1. rep' = [rep EXCEPT ![r] = t] /\ rep = [q \in Replica |-> rep[q]]
    BY DEF VaultStep, BaseInv
  <2> QED
    BY <2>1, Zenon
<1>2. \A q \in Replica : rep[q] \in Vault
  BY DEF BaseInv, Sound
<1>3. t \in Vault /\ Grown(rep[r], t)
  BY DEF VaultStep, Moved, Sound
<1>4. ASSUME NEW s \in Vault PROVE Grown(s, s)
  <2>1. \A d \in Dev : s.cursor[d] \in Nat /\ Len(s.floor[d]) \in Nat
    <3>1. s.cursor \in [Dev -> Nat] /\ s.floor \in [Dev -> Seq(Replica)]
      BY DEF Vault
    <3> QED
      BY <3>1
  <2> QED
    BY <2>1 DEF Grown
<1>5. ASSUME NEW q \in Replica PROVE rep'[q] \in Vault /\ Grown(rep[q], rep'[q])
  <2>1. CASE q = r
    BY <1>1, <1>3, <2>1
  <2>2. CASE q # r
    BY <1>1, <1>2, <1>4, <2>2
  <2> QED
    BY <2>1, <2>2
<1> QED
  BY <1>1, <1>2, <1>5

\* Every vault stays sound, kept and low.
LEMMA StepBase ==
    ASSUME BaseInv, NEW r \in Replica, NEW t, NEW N, VaultStep(r, t, N)
    PROVE  BaseInv'
<1>1. rep' = [q \in Replica |-> IF q = r THEN t ELSE rep[q]]
  BY StepGrows
<1>2. WireOK(wire') /\ wire \subseteq wire' /\ \A f \in snaps' : FrontOK(wire', f)
  BY DEF VaultStep
<1>3. Sound(wire', t) /\ Kept(t) /\ Low(t)
  BY DEF VaultStep, Moved
<1>4. \A q \in Replica : Sound(wire, rep[q]) /\ Kept(rep[q]) /\ Low(rep[q])
  BY DEF BaseInv
<1>5. \A q \in Replica : Sound(wire', rep[q])
  BY <1>2, <1>4, SoundGrows
<1>6. \A q \in Replica : Sound(wire', rep'[q]) /\ Kept(rep'[q]) /\ Low(rep'[q])
  BY <1>1, <1>3, <1>4, <1>5
<1>7. rep' = [q \in Replica |-> rep'[q]]
  BY <1>1
<1> QED
  BY <1>2, <1>6, <1>7 DEF BaseInv

\* What a vault holds under the name of a new op's signer is another op's.
LEMMA NewIsUnheard ==
    ASSUME BaseInv, Counted, NEW r \in Replica, NEW t, NEW N, VaultStep(r, t, N),
           NEW o \in wire' \ wire, NEW d, NEW n, o.dev = d, o.seq = n
    PROVE  r \notin Signed(wire, d, n)
<1>1. SUFFICES ASSUME NEW p \in wire, p.dev = d, p.seq = n, p.by = r PROVE FALSE
  BY DEF Signed
<1>2. Taken(rep[r], d, n)
  BY <1>1 DEF Counted
<1>3. ~Taken(rep[r], d, n)
  BY DEF VaultStep
<1> QED
  BY <1>2, <1>3

\* Seqs are not signed twice by one vault, and acknowledgements are held.
LEMMA StepCounted ==
    ASSUME BaseInv, Counted, OnePer, Reported, Acked,
           NEW r \in Replica, NEW t, NEW N, VaultStep(r, t, N)
    PROVE  Counted' /\ OnePer' /\ Reported' /\ Acked'
<1>1. /\ rep' = [q \in Replica |-> IF q = r THEN t ELSE rep[q]]
      /\ \A q \in Replica : /\ rep[q] \in Vault /\ rep'[q] \in Vault
                            /\ Grown(rep[q], rep'[q])
  BY StepGrows
<1>2. /\ wire \subseteq wire' /\ WireOK(wire) /\ WireOK(wire')
  BY DEF BaseInv, VaultStep
<1>3. \A o \in wire' : /\ o.by \in Replica /\ <<o.dev, o.seq>> \in Pos /\ DevOf[o.by] = o.dev
                       /\ o.front # <<>> => \A d \in Dev : Len(o.front[1][d]) \in Nat
  <2>1. SUFFICES ASSUME NEW o \in wire'
                 PROVE  /\ o.by \in Replica /\ <<o.dev, o.seq>> \in Pos /\ DevOf[o.by] = o.dev
                        /\ o.front # <<>> => \A d \in Dev : Len(o.front[1][d]) \in Nat
    OBVIOUS
  <2>2. OpOK(wire', o)
    BY <1>2 DEF WireOK
  <2>3. o.by \in Replica /\ <<o.dev, o.seq>> \in Pos /\ DevOf[o.by] = o.dev
    BY <2>2, PosIs DEF OpOK
  <2>4. o.front # <<>> => o.front[1] \in [Dev -> Seq(Replica)]
    BY <2>2 DEF OpOK, FrontOK
  <2> QED
    BY <2>3, <2>4
<1>4. \A q \in Replica, d \in Dev : /\ rep[q].cursor[d] \in Nat /\ rep'[q].cursor[d] \in Nat
                                    /\ rep[q].cursor[d] <= rep'[q].cursor[d]
  <2>1. SUFFICES ASSUME NEW q \in Replica, NEW d \in Dev
                 PROVE  /\ rep[q].cursor[d] \in Nat /\ rep'[q].cursor[d] \in Nat
                        /\ rep[q].cursor[d] <= rep'[q].cursor[d]
    OBVIOUS
  <2>2. rep[q].cursor \in [Dev -> Nat] /\ rep'[q].cursor \in [Dev -> Nat]
    BY <1>1 DEF Vault
  <2>3. rep[q].cursor[d] <= rep'[q].cursor[d]
    BY <1>1 DEF Grown
  <2> QED
    BY <2>2, <2>3
<1>5. Counted'
  <2>1. SUFFICES ASSUME NEW o \in wire' PROVE Taken(rep'[o.by], o.dev, o.seq)
    BY DEF Counted
  <2>2. CASE o \in wire
    <3>1. Taken(rep[o.by], o.dev, o.seq)
      BY <2>2 DEF Counted
    <3>2. Grown(rep[o.by], rep'[o.by]) /\ <<o.dev, o.seq>> \in Pos
      BY <1>1, <1>3
    <3> QED
      BY <3>1, <3>2 DEF Grown
  <2>3. CASE o \notin wire
    <3>1. o.by = r /\ Taken(t, o.dev, o.seq)
      BY <2>3 DEF VaultStep
    <3> QED
      BY <1>1, <3>1
  <2> QED
    BY <2>2, <2>3
<1>6. OnePer'
  <2>1. SUFFICES ASSUME NEW o \in wire', NEW p \in wire', o.dev = p.dev, o.seq = p.seq,
                        o.by = p.by
                 PROVE  o = p
    BY DEF OnePer
  <2>2. CASE o \in wire /\ p \in wire
    BY <2>1, <2>2 DEF OnePer
  <2>3. CASE o \notin wire /\ p \notin wire
    BY <2>3 DEF VaultStep
  <2>4. ASSUME NEW x \in wire' \ wire, NEW y \in wire,
               x.dev = y.dev, x.seq = y.seq, x.by = y.by
        PROVE  FALSE
    <3>1. x.by = r
      BY DEF VaultStep
    <3>2. r \in Signed(wire, x.dev, x.seq)
      BY <2>4, <3>1 DEF Signed
    <3> QED
      BY <3>2, NewIsUnheard
  <2> QED
    BY <2>1, <2>2, <2>3, <2>4
<1>7. Reported'
  <2>1. SUFFICES ASSUME NEW o \in wire', o.front # <<>>, NEW d \in Dev
                 PROVE  Len(o.front[1][d]) <= rep'[o.by].cursor[d]
    BY DEF Reported
  <2>2. Len(o.front[1][d]) <= rep[o.by].cursor[d]
    <3>1. CASE o \in wire
      BY <2>1, <3>1 DEF Reported
    <3>2. CASE o \notin wire
      BY <2>1, <3>2 DEF VaultStep
    <3> QED
      BY <3>1, <3>2
  <2>3. Len(o.front[1][d]) \in Nat /\ o.by \in Replica
    BY <1>3, <2>1
  <2> QED
    BY <1>4, <2>2, <2>3
<1>8. Acked'
  <2>1. SUFFICES ASSUME NEW p \in Replica, NEW k \in Dev, NEW d \in Dev
                 PROVE  \E q \in Replica : DevOf[q] = k /\ rep'[p].acks[k][d] <= rep'[q].cursor[d]
    BY DEF Acked
  <2>2. rep'[p].acks[k][d] \in Nat
    <3>1. rep'[p].acks \in [Dev -> [Dev -> Nat]]
      BY <1>1 DEF Vault
    <3> QED
      BY <3>1
  <2>3. \E q \in Replica : DevOf[q] = k /\ rep'[p].acks[k][d] <= rep[q].cursor[d]
    <3>1. CASE rep'[p].acks[k][d] = rep[p].acks[k][d]
      BY <3>1 DEF Acked
    <3>2. CASE rep'[p].acks[k][d] # rep[p].acks[k][d]
      <4>1. p = r /\ rep'[p] = t
        BY <1>1, <3>2
      <4>2. PICK o \in wire : /\ o.dev = k /\ o.front # <<>>
                              /\ rep'[p].acks[k][d] = Len(o.front[1][d])
        BY <3>2, <4>1 DEF VaultStep
      <4>3. Len(o.front[1][d]) <= rep[o.by].cursor[d]
        BY <4>2 DEF Reported
      <4>4. o.by \in Replica /\ DevOf[o.by] = k
        BY <1>2, <1>3, <4>2
      <4> QED
        BY <4>2, <4>3, <4>4
    <3> QED
      BY <3>1, <3>2
  <2>4. PICK q \in Replica : DevOf[q] = k /\ rep'[p].acks[k][d] <= rep[q].cursor[d]
    BY <2>3
  <2>5. rep'[p].acks[k][d] <= rep'[q].cursor[d]
    BY <1>4, <2>2, <2>4
  <2> QED
    BY <2>4, <2>5
<1> QED
  BY <1>5, <1>6, <1>7, <1>8

\* An op held after the step was held before it, or was just logged.
LEMMA HeldBefore ==
    ASSUME BaseInv, Counted, OnePer', NEW r \in Replica, NEW t, NEW N, VaultStep(r, t, N),
           NEW q \in Replica, NEW o \in wire', o.dev # DevOf[q],
           Holds(rep'[q], o.dev, o.seq), rep'[q].rows[<<o.dev, o.seq>>].by = o.by
    PROVE  \/ /\ o \in wire /\ Holds(rep[q], o.dev, o.seq)
              /\ rep[q].rows[<<o.dev, o.seq>>].by = o.by
           \/ q = r /\ o \in N
<1>1. rep' = [p \in Replica |-> IF p = r THEN t ELSE rep[p]]
  BY StepGrows
<1>2. <<o.dev, o.seq>> \in Pos /\ o.by # None
  BY DEF Holds
<1>3. CASE rep'[q].rows[<<o.dev, o.seq>>].by = rep[q].rows[<<o.dev, o.seq>>].by
  <2>1. Holds(rep[q], o.dev, o.seq) /\ rep[q].rows[<<o.dev, o.seq>>].by = o.by
    BY <1>2, <1>3 DEF Holds
  <2>2. o.by \in Signed(wire, o.dev, o.seq)
    <3>1. <<o.dev, o.seq>>[1] = o.dev /\ <<o.dev, o.seq>>[2] = o.seq
      OBVIOUS
    <3>2. RowsOK(wire, rep[q])
      BY DEF BaseInv, Sound
    <3> QED
      BY <1>2, <2>1, <3>1, <3>2 DEF RowsOK
  <2>3. o \in wire
    <3>1. SUFFICES ASSUME o \in wire' \ wire PROVE FALSE
      OBVIOUS
    <3>2. o.by = r
      BY <3>1 DEF VaultStep
    <3> QED
      BY <2>2, <3>1, <3>2, NewIsUnheard
  <2> QED
    BY <2>1, <2>3
<1>4. CASE rep'[q].rows[<<o.dev, o.seq>>].by # rep[q].rows[<<o.dev, o.seq>>].by
  <2>1. q = r /\ rep'[q] = t
    BY <1>1, <1>4
  <2>2. PICK p \in N : /\ <<o.dev, o.seq>> = <<p.dev, p.seq>>
                       /\ t.rows[<<o.dev, o.seq>>].by = p.by
    <3>1. \/ t.rows[<<o.dev, o.seq>>].by \in {rep[r].rows[<<o.dev, o.seq>>].by, None}
          \/ \E p \in N : /\ <<o.dev, o.seq>> = <<p.dev, p.seq>>
                          /\ t.rows[<<o.dev, o.seq>>].by = p.by
      BY <1>2 DEF VaultStep
    <3> QED
      BY <1>2, <1>4, <2>1, <3>1
  <2>3. p \in wire' /\ p.dev = o.dev /\ p.seq = o.seq /\ p.by = o.by
    BY <2>1, <2>2 DEF VaultStep
  <2>4. p = o
    BY <2>3 DEF OnePer
  <2> QED
    BY <2>1, <2>2, <2>4
<1> QED
  BY <1>3, <1>4

\* Links stay in order.
LEMMA StepLinked ==
    ASSUME BaseInv, Counted, OnePer', Linked,
           NEW r \in Replica, NEW t, NEW N, VaultStep(r, t, N)
    PROVE  Linked'
<1>1. rep' = [p \in Replica |-> IF p = r THEN t ELSE rep[p]]
  BY StepGrows
<1>2. SUFFICES ASSUME NEW q \in Replica, NEW o \in wire', o.dev # DevOf[q], o.prev # None,
                      Holds(rep'[q], o.dev, o.seq),
                      rep'[q].rows[<<o.dev, o.seq>>].by = o.by
               PROVE  LinkOK(rep'[q], o)
  BY DEF Linked
<1>3. CASE /\ o \in wire /\ Holds(rep[q], o.dev, o.seq)
           /\ rep[q].rows[<<o.dev, o.seq>>].by = o.by
  <2>1. LinkOK(rep[q], o)
    BY <1>2, <1>3 DEF Linked
  <2>2. CASE q = r
    <3>1. LinkStays(rep[r], t, o)
      BY <1>2, <2>2 DEF VaultStep
    <3> QED
      BY <1>1, <1>2, <1>3, <2>1, <2>2, <3>1 DEF LinkStays
  <2>3. CASE q # r
    BY <1>1, <2>1, <2>3
  <2> QED
    BY <2>2, <2>3
<1>4. CASE q = r /\ o \in N
  BY <1>1, <1>2, <1>4 DEF VaultStep
<1> QED
  BY <1>2, <1>3, <1>4, HeldBefore

\* Digests stay answered.
LEMMA StepNoticed ==
    ASSUME BaseInv, Counted, OnePer', Noticed, \A r \in Replica : ClaimsTold(wire, rep[r]),
           NEW r \in Replica, NEW t, NEW N, VaultStep(r, t, N)
    PROVE  Noticed' /\ \A q \in Replica : ClaimsTold(wire', rep'[q])
<1>1. rep' = [p \in Replica |-> IF p = r THEN t ELSE rep[p]]
  BY StepGrows
<1>2. wire \subseteq wire' /\ Answers(wire', rep[r], t)
  BY DEF VaultStep, Moved
<1>3. \A q \in Replica : ClaimsTold(wire', rep[q])
  BY <1>2, AnsweredGrows
<1>4. /\ ClaimsTold(wire', t)
      /\ \A peer \in Dev, d \in Dev :
           Answered(wire', rep[r], peer, d) => Answered(wire', t, peer, d)
  BY <1>2, <1>3 DEF Answers
<1>5. \A q \in Replica : ClaimsTold(wire', rep'[q])
  BY <1>1, <1>3, <1>4
<1>6. ASSUME NEW q \in Replica, NEW peer \in Dev \ {DevOf[q]}, NEW d \in Dev,
             NEW o \in wire', o.dev = peer, o.front # <<>>, o.front[1][d] # <<>>,
             Holds(rep'[q], peer, o.seq), rep'[q].rows[<<peer, o.seq>>].by = o.by
      PROVE  Answered(wire', rep'[q], peer, d)
  <2>1. CASE /\ o \in wire /\ Holds(rep[q], o.dev, o.seq)
             /\ rep[q].rows[<<o.dev, o.seq>>].by = o.by
    <3>1. Answered(wire, rep[q], peer, d)
      BY <1>6, <2>1 DEF Noticed
    <3>2. Answered(wire', rep[q], peer, d)
      BY <1>2, <3>1, AnsweredGrows
    <3> QED
      BY <1>1, <1>4, <3>2
  <2>2. CASE q = r /\ o \in N
    BY <1>1, <1>6, <2>2 DEF VaultStep
  <2>3. /\ o.dev # DevOf[q] /\ Holds(rep'[q], o.dev, o.seq)
        /\ rep'[q].rows[<<o.dev, o.seq>>].by = o.by
    BY <1>6
  <2> QED
    BY <2>1, <2>2, <2>3, HeldBefore
<1>7. Noticed'
  BY <1>6 DEF Noticed
<1> QED
  BY <1>5, <1>7

\* So the invariant is kept.
LEMMA StepIs ==
    ASSUME ChainsInv, NEW r \in Replica, NEW t, NEW N, VaultStep(r, t, N)
    PROVE  ChainsInv'
<1>1. /\ BaseInv /\ Counted /\ OnePer /\ Reported /\ Acked /\ Linked /\ Noticed
      /\ \A q \in Replica : ClaimsTold(wire, rep[q])
  BY DEF ChainsInv
<1>2. BaseInv'
  BY <1>1, StepBase
<1>3. Counted' /\ OnePer' /\ Reported' /\ Acked'
  BY <1>1, StepCounted
<1>4. Linked'
  BY <1>1, <1>3, StepLinked
<1>5. Noticed' /\ \A q \in Replica : ClaimsTold(wire', rep'[q])
  BY <1>1, <1>3, StepNoticed
<1> QED
  BY <1>2, <1>3, <1>4, <1>5 DEF ChainsInv

-----------------------------------------------------------------------------
(* The actions. *)

\* Write and EmitDigest.
LEMMA AppendStep ==
    ASSUME ChainsInv, NEW r \in Replica, NEW front,
           front = <<>> \/ front = <<Frontier(rep[r])>>, Append1(r, front), snaps' = snaps
    PROVE  ChainsInv'
<1>1. PICK s : s = rep[r]
  OBVIOUS
<1>2. PICK o : o = NewOp(s, r, front)
  OBVIOUS
<1>3. PICK t : t = UpsertCursor(Listed(s, r), {DevOf[r]})
  OBVIOUS
<1>4. /\ NextSeq(s, DevOf[r]) <= MaxSeq[DevOf[r]]
      /\ rep' = [rep EXCEPT ![r] = t] /\ wire' = wire \cup {o}
  BY <1>1, <1>2, <1>3 DEF Append1, NewOp, Listed
<1>5. /\ BaseInv /\ WireOK(wire) /\ Sound(wire, s) /\ Kept(s) /\ Low(s)
  BY <1>1 DEF ChainsInv, BaseInv
<1>6. /\ o.dev = DevOf[r] /\ o.seq = NextSeq(s, DevOf[r]) /\ o.by = r /\ o.front = front
  BY <1>2 DEF NewOp
<1>7. front = <<>> \/ front = <<Frontier(s)>>
  BY <1>1
<1>8. WireOK(wire')
  BY <1>2, <1>4, <1>5, <1>7, SignedOpIs
<1>9. wire \subseteq wire' /\ o \in wire'
  BY <1>4
<1>10. Sound(wire', s)
  BY <1>5, <1>9, SoundGrows
<1>11. /\ Moved(wire', s, t) /\ OnlyRow(s, t, o) /\ t.acks = s.acks
       /\ Taken(t, o.dev, o.seq)
       /\ \A q \in wire' : q.dev # DevOf[r] => LinkStays(s, t, q)
  BY <1>3, <1>4, <1>5, <1>6, <1>8, <1>9, <1>10, AppendIs
<1>12. DevOf[r] \in Dev
  BY ReplicaAssumption
<1>13. ~Taken(s, o.dev, o.seq)
  BY <1>5, <1>6, <1>12, NextSeqIs
<1>14. o.front # <<>> => \A d \in Dev : Len(o.front[1][d]) <= s.cursor[d]
  <2>1. \A d \in Dev : Len(Frontier(s)[d]) <= s.cursor[d]
    BY <1>5, FrontierIs
  <2> QED
    BY <1>6, <1>7, <2>1
<1>15. \A f \in snaps' : FrontOK(wire', f)
  BY <1>5, <1>9, FrontGrows DEF BaseInv
<1>16. VaultStep(r, t, {o})
  <2>1. \A p \in wire' \ wire : p = o
    BY <1>4
  <2>2. \A p \in Pos : \/ t.rows[p].by \in {s.rows[p].by, None}
                       \/ \E q \in {o} : p = <<q.dev, q.seq>> /\ t.rows[p].by = q.by
    BY <1>11 DEF OnlyRow
  <2>3. \A q \in {o} : q.dev = DevOf[r]
    BY <1>6
  <2> QED
    BY <1>1, <1>4, <1>6, <1>8, <1>9, <1>11, <1>13, <1>14, <1>15, <2>1, <2>2, <2>3
    DEF VaultStep
<1> QED
  BY <1>16, StepIs

\* Deliver.
LEMMA DeliverStep ==
    ASSUME ChainsInv, NEW r \in Replica, NEW o \in wire, Deliver(r, o)
    PROVE  ChainsInv'
<1>1. PICK s : s = rep[r]
  OBVIOUS
<1>2. PICK t : t = Received(s, o)
  OBVIOUS
<1>3. /\ rep' = [rep EXCEPT ![r] = t] /\ wire' = wire /\ snaps' = snaps
  BY <1>1, <1>2 DEF Deliver
<1>4. /\ WireOK(wire) /\ Sound(wire, s) /\ Kept(s) /\ Low(s) /\ ClaimsTold(wire, s)
      /\ \A f \in snaps : FrontOK(wire, f)
  BY <1>1 DEF ChainsInv, BaseInv
<1>5. /\ Moved(wire, s, t) /\ OnlyRow(s, t, o) /\ AcksFrom(s, t, o)
      /\ \A q \in wire : LinkStays(s, t, q)
  <2>1. CASE Taken(s, o.dev, o.seq)
    BY <1>2, <1>4, <2>1, OldOpIs
  <2>2. CASE ~Taken(s, o.dev, o.seq)
    BY <1>2, <1>4, <2>2, NewOpIs
  <2> QED
    BY <2>1, <2>2
<1>6. PICK N : N = IF Taken(s, o.dev, o.seq) THEN {} ELSE {o}
  OBVIOUS
<1>7. \A q \in N : /\ q.prev # None => LinkOK(t, q)
                   /\ q.front # <<>> =>
                        \A d \in Dev : q.front[1][d] # <<>> => Answered(wire, t, q.dev, d)
  <2>1. CASE N = {}
    BY <2>1
  <2>2. CASE ~Taken(s, o.dev, o.seq)
    <3>1. /\ o.prev # None => LinkOK(t, o)
          /\ o.front # <<>> =>
               \A d \in Dev : o.front[1][d] # <<>> => Answered(wire, t, o.dev, d)
      BY <1>2, <1>4, <2>2, NewOpIs
    <3> QED
      BY <1>6, <2>2, <3>1
  <2> QED
    BY <1>6, <2>1, <2>2
<1>8. \A p \in Pos : \/ t.rows[p].by \in {s.rows[p].by, None}
                     \/ \E q \in N : p = <<q.dev, q.seq>> /\ t.rows[p].by = q.by
  BY <1>5, <1>6 DEF OnlyRow
<1>9. \A k \in Dev, d \in Dev :
        \/ t.acks[k][d] = s.acks[k][d]
        \/ \E q \in wire : /\ q.dev = k /\ q.front # <<>>
                           /\ t.acks[k][d] = Len(q.front[1][d])
  BY <1>5 DEF AcksFrom
<1>10. wire' \ wire = {} /\ N \subseteq wire
  BY <1>3, <1>6
<1>11. VaultStep(r, t, N)
  BY <1>1, <1>3, <1>4, <1>5, <1>7, <1>8, <1>9, <1>10 DEF VaultStep
<1> QED
  BY <1>11, StepIs

\* A step in which vault r logs nothing and hears nothing.
LEMMA QuietStep ==
    ASSUME ChainsInv, NEW r \in Replica, NEW t, rep' = [rep EXCEPT ![r] = t],
           wire' = wire, \A f \in snaps' : FrontOK(wire, f),
           Moved(wire, rep[r], t), t.acks = rep[r].acks,
           \A p \in Pos : t.rows[p].by \in {rep[r].rows[p].by, None},
           \A o \in wire : LinkStays(rep[r], t, o)
    PROVE  ChainsInv'
<1>1. WireOK(wire)
  BY DEF ChainsInv, BaseInv
<1>2. wire' \ wire = {}
  OBVIOUS
<1>3. VaultStep(r, t, {})
  BY <1>1, <1>2 DEF VaultStep
<1> QED
  BY <1>3, StepIs

\* What every known device acknowledged.
LEMMA AcknowledgedIs ==
    ASSUME NEW s \in Vault, NEW d \in Dev, NEW known \in SUBSET Dev
    PROVE  /\ Acknowledged(s, d, known) \in Nat
           /\ \A k \in known : Acknowledged(s, d, known) <= s.acks[k][d]
<1> DEFINE S == {s.cursor[d]} \cup {s.acks[k][d] : k \in known}
<1>1. s.cursor \in [Dev -> Nat] /\ s.acks \in [Dev -> [Dev -> Nat]]
  BY DEF Vault
<1>2. S \subseteq Nat /\ s.cursor[d] \in S /\ \A k \in known : s.acks[k][d] \in S
  BY <1>1
<1>3. Acknowledged(s, d, known) = Min(S)
  BY DEF Acknowledged
<1> HIDE DEF S
<1>4. Min(S) \in S /\ \A y \in S : Min(S) <= y
  BY <1>2, MinOfNaturals
<1> QED
  BY <1>2, <1>3, <1>4

\* compact_stream raises the floor to a target below the tip and below what
\* the known devices acknowledged.
LEMMA CompactStep ==
    ASSUME BaseInv, NEW r \in Replica, NEW d \in Dev,
           NEW known \in SUBSET (Dev \ {DevOf[r]}), Compact(r, d, known)
    PROVE  \E t : /\ rep' = [rep EXCEPT ![r] = t] /\ wire' = wire /\ snaps' = snaps
                  /\ Moved(wire, rep[r], t) /\ t.acks = rep[r].acks
                  /\ \A p \in Pos : t.rows[p].by \in {rep[r].rows[p].by, None}
                  /\ \A o \in wire : LinkStays(rep[r], t, o)
                  /\ Len(t.floor[d]) \in Nat
                  /\ \A k \in known : Len(t.floor[d]) <= rep[r].acks[k][d]
<1>1. PICK s : s = rep[r]
  OBVIOUS
<1>2. /\ WireOK(wire) /\ Sound(wire, s) /\ Kept(s) /\ Low(s) /\ s \in Vault
  BY <1>1 DEF BaseInv, Sound
<1>3. FoldChain(s, {d}) = s
  BY <1>2, FoldIdle
<1>4. PICK target \in (Len(s.floor[d]) + 1)..Acknowledged(s, d, known) :
        /\ target < s.cursor[d]
        /\ rep' = [rep EXCEPT ![r] = Compacted(s, d, target)]
        /\ wire' = wire /\ snaps' = snaps
  BY <1>1, <1>3 DEF Compact, Compacted
<1>5. PICK t : t = Compacted(s, d, target)
  OBVIOUS
<1>6. known \in SUBSET Dev
  OBVIOUS
<1>7. /\ Acknowledged(s, d, known) \in Nat
      /\ \A k \in known : Acknowledged(s, d, known) <= s.acks[k][d] /\ s.acks[k][d] \in Nat
  <2>1. s.acks \in [Dev -> [Dev -> Nat]]
    BY <1>2 DEF Vault
  <2> QED
    BY <1>2, <1>6, <2>1, AcknowledgedIs
<1>8. Len(s.floor[d]) \in Nat
  <2>1. s.floor \in [Dev -> Seq(Replica)]
    BY <1>2 DEF Vault
  <2> QED
    BY <2>1
<1>9. target \in Nat /\ Len(s.floor[d]) < target
      /\ \A k \in known : target <= s.acks[k][d]
  BY <1>4, <1>7, <1>8
<1>10. /\ Moved(wire, s, t) /\ t.acks = s.acks
       /\ Len(t.floor[d]) = target
       /\ \A p \in Pos : t.rows[p].by \in {s.rows[p].by, None}
       /\ \A o \in wire : LinkStays(s, t, o)
  BY <1>2, <1>4, <1>5, <1>9, CompactIs
<1>11. rep' = [rep EXCEPT ![r] = t] /\ wire' = wire /\ snaps' = snaps
  BY <1>4, <1>5
<1> QED
  BY <1>1, <1>9, <1>10, <1>11

\* WriteSnapshot.
LEMMA SnapshotStep ==
    ASSUME ChainsInv, NEW r \in Replica, WriteSnapshot(r)
    PROVE  ChainsInv'
<1>1. PICK s : s = rep[r]
  OBVIOUS
<1>2. /\ WireOK(wire) /\ Sound(wire, s) /\ Kept(s) /\ Low(s) /\ s \in Vault
      /\ \A f \in snaps : FrontOK(wire, f)
  BY <1>1 DEF ChainsInv, BaseInv, Sound
<1>3. rep' = rep /\ wire' = wire /\ snaps' = snaps \cup {Frontier(s)}
  BY <1>1 DEF WriteSnapshot
<1>4. \A f \in snaps' : FrontOK(wire', f)
  BY <1>2, <1>3, FrontierIs
<1> QED
  BY <1>3, <1>4 DEF ChainsInv, BaseInv, Counted, OnePer, Reported, Acked, Linked, Noticed

\* Every step keeps the invariant.
LEMMA NextChains ==
    ASSUME ChainsInv, [Next]_vars
    PROVE  ChainsInv'
<1>1. ASSUME NEW r \in Replica, Write(r) PROVE ChainsInv'
  BY <1>1, AppendStep DEF Write
<1>2. ASSUME NEW r \in Replica, EmitDigest(r) PROVE ChainsInv'
  BY <1>2, AppendStep DEF EmitDigest
<1>3. ASSUME NEW r \in Replica, NEW o \in wire, Deliver(r, o) PROVE ChainsInv'
  BY <1>3, DeliverStep
<1>4. ASSUME NEW r \in Replica, NEW d \in Dev, NEW known \in SUBSET (Dev \ {DevOf[r]}),
             Compact(r, d, known)
      PROVE  ChainsInv'
  <2>1. BaseInv /\ \A f \in snaps : FrontOK(wire, f)
    BY DEF ChainsInv, BaseInv
  <2>2. PICK t : /\ rep' = [rep EXCEPT ![r] = t] /\ wire' = wire /\ snaps' = snaps
                 /\ Moved(wire, rep[r], t) /\ t.acks = rep[r].acks
                 /\ \A p \in Pos : t.rows[p].by \in {rep[r].rows[p].by, None}
                 /\ \A o \in wire : LinkStays(rep[r], t, o)
    BY <1>4, <2>1, CompactStep
  <2> QED
    BY <2>1, <2>2, QuietStep
<1>5. ASSUME NEW r \in Replica, WriteSnapshot(r) PROVE ChainsInv'
  BY <1>5, SnapshotStep
<1>6. ASSUME NEW r \in Replica, NEW front \in snaps, ApplySnapshot(r, front)
      PROVE  ChainsInv'
  <2>1. /\ WireOK(wire) /\ Sound(wire, rep[r]) /\ Kept(rep[r]) /\ Low(rep[r])
        /\ \A f \in snaps : FrontOK(wire, f)
    BY DEF ChainsInv, BaseInv
  <2>2. PICK t : t = RaiseTo(rep[r], front)
    OBVIOUS
  <2>3. rep' = [rep EXCEPT ![r] = t] /\ wire' = wire /\ snaps' = snaps
    BY <1>6, <2>2 DEF ApplySnapshot
  <2>4. /\ Moved(wire, rep[r], t) /\ t.acks = rep[r].acks
        /\ \A p \in Pos : t.rows[p].by = rep[r].rows[p].by
        /\ \A o \in wire : LinkStays(rep[r], t, o)
    BY <2>1, <2>2, RaiseToIs
  <2> QED
    BY <2>1, <2>3, <2>4, QuietStep
<1>7. CASE UNCHANGED vars
  BY <1>7 DEF vars, ChainsInv, BaseInv, Counted, OnePer, Reported, Acked, Linked, Noticed
<1> QED
  BY <1>1, <1>2, <1>3, <1>4, <1>5, <1>6, <1>7 DEF Next

-----------------------------------------------------------------------------
(* The vaults at the start. *)

\* An empty vault.
LEMMA NewVaultIs ==
    ASSUME NEW W
    PROVE  Sound(W, NewVault) /\ Kept(NewVault) /\ Low(NewVault)
<1>1. PICK s : s = NewVault
  OBVIOUS
<1>2. /\ s.rows = [p \in Pos |-> NoRow] /\ s.floor = [d \in Dev |-> <<>>]
      /\ s.cursor = [d \in Dev |-> 0] /\ s.expect = {} /\ s.forks = {} /\ s.claims = {}
      /\ s.div = {} /\ s.acks = [p \in Dev |-> [d \in Dev |-> 0]]
      /\ s.sent = [d \in Dev |-> 0]
  BY <1>1 DEF NewVault
<1>3. s \in Vault
  <2>1. NoRow \in [by : Replica \cup {None}, root : Seq(Replica)]
    BY DEF NoRow
  <2>2. /\ [p \in Pos |-> NoRow] \in [Pos -> [by : Replica \cup {None}, root : Seq(Replica)]]
        /\ [d \in Dev |-> <<>>] \in [Dev -> Seq(Replica)]
        /\ [d \in Dev |-> 0] \in [Dev -> Nat]
        /\ [p \in Dev |-> [d \in Dev |-> 0]] \in [Dev -> [Dev -> Nat]]
    BY <2>1
  <2> QED
    BY <1>1, <2>2 DEF NewVault, Vault
<1>4. /\ \A p \in Pos : s.rows[p].by = None /\ s.rows[p].root = <<>>
      /\ \A d \in Dev : s.floor[d] = <<>> /\ s.cursor[d] = 0
  BY <1>2 DEF NoRow
<1>5. \A d \in Dev : ChainOK(W, d, <<>>)
  BY Bounds DEF ChainOK
<1>6. Sound(W, s)
  BY <1>2, <1>3, <1>4, <1>5
  DEF Sound, RowsOK, FloorOK, ClaimsOK, ExpectOK, ForksOK, DivOK
<1>7. Kept(s)
  <2>1. \A d \in Dev : s.cursor[d] <= MaxSeq[d]
    BY <1>4, Bounds
  <2>2. \A p \in Pos : p[1] \in Dev /\ p[2] \in Nat /\ p[2] > 0
    <3>1. SUFFICES ASSUME NEW p \in Pos PROVE p[1] \in Dev /\ p[2] \in Nat /\ p[2] > 0
      OBVIOUS
    <3>2. p[1] \in Dev /\ p[2] \in 1..MaxSeq[p[1]]
      BY PosIs
    <3> QED
      BY <3>2, Bounds
  <2>3. \A p \in Pos : ~(p[2] <= s.cursor[p[1]])
    BY <1>4, <2>2
  <2> QED
    BY <1>2, <1>4, <2>1, <2>3 DEF Kept
<1>8. Low(s)
  BY <1>4 DEF Low
<1> QED
  BY <1>1, <1>6, <1>7, <1>8

\* The vault that signed the first op of a device.
LEMMA AuthorIs ==
    ASSUME NEW r \in Start
    PROVE  /\ Author(DevOf[r]) \in Start /\ Author(DevOf[r]) \in Replica
           /\ DevOf[Author(DevOf[r])] = DevOf[r] /\ DevOf[r] \in Dev
  BY ReplicaAssumption DEF Author

\* A vault with the first op of its device.
LEMMA StartVaultIs ==
    ASSUME NEW W, NEW d \in Dev, NEW a \in Replica, a \in Signed(W, d, 1),
           NEW t, t = UpsertCursor([NewVault EXCEPT !.rows[<<d, 1>>].by = a], {d})
    PROVE  /\ Sound(W, t) /\ Kept(t) /\ Low(t)
           /\ t.claims = {} /\ t.acks = NewVault.acks /\ Taken(t, d, 1)
<1>1. PICK s : s = NewVault
  OBVIOUS
<1>2. Sound(W, s) /\ Kept(s) /\ Low(s)
  BY <1>1, NewVaultIs
<1>3. 1 \in 1..MaxSeq[d] /\ <<d, 1>> \in Pos
  BY Bounds, PosIs
<1>4. ~Taken(s, d, 1)
  <2>1. s.rows[<<d, 1>>].by = None /\ Len(s.floor[d]) = 0
    BY <1>1, <1>3 DEF NewVault, NoRow
  <2> QED
    BY <2>1 DEF Taken, Holds
<1>5. PICK u : u = [s EXCEPT !.rows[<<d, 1>>].by = a]
  OBVIOUS
<1>6. Sound(W, u) /\ Kept(u) /\ Low(u)
  BY <1>2, <1>3, <1>4, <1>5, InsertIs
<1>7. u.claims = s.claims /\ u.acks = s.acks
  BY <1>2, <1>3, <1>4, <1>5, InsertIs
<1>8. u.rows[<<d, 1>>].by = a
  <2>1. /\ s \in Vault /\ s.rows \in [Pos -> [by : Replica \cup {None}, root : Seq(Replica)]]
    BY <1>2 DEF Sound, Vault
  <2>2. u.rows = [s.rows EXCEPT ![<<d, 1>>].by = a]
    BY <1>5, <2>1 DEF Vault
  <2> QED
    BY <1>3, <2>1, <2>2
<1>9. t = UpsertCursor(u, {d})
  BY <1>1, <1>5
<1>10. {d} \in SUBSET Dev /\ \A e \in Dev \ {d} : Len(u.floor[e]) <= u.cursor[e]
  BY <1>6 DEF Low
<1>11. Sound(W, t) /\ Kept(t) /\ Low(t) /\ t.acks = u.acks
  BY <1>6, <1>9, <1>10, UpsertIs
<1>12. t.claims \subseteq u.claims
  BY <1>6, <1>9, <1>10, UpsertIs
<1>13. t.rows[<<d, 1>>].by = u.rows[<<d, 1>>].by
  BY <1>3, <1>6, <1>9, <1>10, UpsertIs
<1>14. s.claims = {}
  BY <1>1 DEF NewVault
<1>15. Taken(t, d, 1)
  BY <1>3, <1>8, <1>13, ReplicaAssumption DEF Taken, Holds
<1> QED
  BY <1>1, <1>7, <1>11, <1>12, <1>14, <1>15

\* The invariant holds at the start.
LEMMA InitChains == Init => ChainsInv
<1>1. SUFFICES ASSUME Init PROVE ChainsInv
  OBVIOUS
<1> DEFINE start(r) == UpsertCursor([NewVault EXCEPT
                         !.rows[<<DevOf[r], 1>>].by = Author(DevOf[r])], {DevOf[r]})
<1>2. /\ rep = [r \in Replica |-> IF r \in Start THEN start(r) ELSE NewVault]
      /\ wire = {FirstOp(Author(DevOf[r])) : r \in Start} /\ snaps = {}
  BY <1>1 DEF Init
<1> HIDE DEF start
<1>3. \A o \in wire : /\ o.by \in Start /\ o.by \in Replica /\ o = FirstOp(o.by)
                      /\ o.dev = DevOf[o.by] /\ o.seq = 1 /\ o.prev = None
                      /\ o.heads = {} /\ o.front = <<>> /\ o.dev \in Dev
  BY <1>2, AuthorIs, ReplicaAssumption DEF FirstOp
<1>4. WireOK(wire)
  <2>1. SUFFICES ASSUME NEW o \in wire PROVE OpOK(wire, o)
    BY DEF WireOK
  <2>2. 1 \in 1..MaxSeq[o.dev]
    BY <1>3, Bounds
  <2> QED
    BY <1>3, <2>2 DEF OpOK
<1>5. \A r \in Start : Author(DevOf[r]) \in Signed(wire, DevOf[r], 1)
  <2>1. SUFFICES ASSUME NEW r \in Start PROVE Author(DevOf[r]) \in Signed(wire, DevOf[r], 1)
    OBVIOUS
  <2>2. FirstOp(Author(DevOf[r])) \in wire
    BY <1>2
  <2>3. /\ FirstOp(Author(DevOf[r])).dev = DevOf[r] /\ FirstOp(Author(DevOf[r])).seq = 1
        /\ FirstOp(Author(DevOf[r])).by = Author(DevOf[r])
    BY AuthorIs DEF FirstOp
  <2> QED
    BY <2>2, <2>3 DEF Signed
<1>6. \A r \in Start : /\ Sound(wire, start(r)) /\ Kept(start(r)) /\ Low(start(r))
                       /\ start(r).claims = {} /\ start(r).acks = NewVault.acks
                       /\ Taken(start(r), DevOf[r], 1)
  BY <1>5, AuthorIs, StartVaultIs DEF start
<1>7. \A r \in Replica : /\ Sound(wire, rep[r]) /\ Kept(rep[r]) /\ Low(rep[r])
                         /\ rep[r].claims = {} /\ rep[r].acks = NewVault.acks
  <2>1. NewVault.claims = {}
    BY DEF NewVault
  <2> QED
    BY <1>2, <1>6, <2>1, NewVaultIs
<1>8. BaseInv
  <2>1. rep = [r \in Replica |-> rep[r]]
    BY <1>2
  <2> QED
    BY <1>2, <1>4, <1>7, <2>1 DEF BaseInv
<1>9. Counted
  <2>1. SUFFICES ASSUME NEW o \in wire PROVE Taken(rep[o.by], o.dev, o.seq)
    BY DEF Counted
  <2>2. rep[o.by] = start(o.by)
    BY <1>2, <1>3
  <2> QED
    BY <1>3, <1>6, <2>2
<1>10. OnePer
  BY <1>3 DEF OnePer
<1>11. Reported /\ Linked /\ Noticed
  BY <1>3 DEF Reported, Linked, Noticed
<1>12. Acked
  <2>1. SUFFICES ASSUME NEW r \in Replica, NEW k \in Dev, NEW d \in Dev
                 PROVE  \E q \in Replica : DevOf[q] = k /\ rep[r].acks[k][d] <= rep[q].cursor[d]
    BY DEF Acked
  <2>2. rep[r].acks[k][d] = 0
    BY <1>7 DEF NewVault
  <2>3. PICK q \in Replica : DevOf[q] = k
    BY DEF Dev
  <2>4. rep[q].cursor[d] \in Nat
    BY <1>7 DEF Sound, Vault
  <2> QED
    BY <2>2, <2>3, <2>4
<1>13. \A r \in Replica : ClaimsTold(wire, rep[r])
  BY <1>7 DEF ClaimsTold
<1> QED
  BY <1>8, <1>9, <1>10, <1>11, <1>12, <1>13 DEF ChainsInv

\* The inductive invariant, of which the theorems below are consequences.
LEMMA ChainsInvariant == Spec => []ChainsInv
<1>1. Init => ChainsInv
  BY InitChains
<1>2. ChainsInv /\ [Next]_vars => ChainsInv'
  BY NextChains
<1> QED
  BY <1>1, <1>2, PTL DEF Spec

-----------------------------------------------------------------------------
(***************************************************************************)
(* Evidence is never false: whatever was compacted, joined or delivered    *)
(* twice, a row of `fork_evidence` names two ops its device signed at that *)
(* position, and a row of `chain_divergence` lies at or above a position   *)
(* its device forked.                                                      *)
(***************************************************************************)
THEOREM EvidenceStaysTrue == Spec => []EvidenceIsTrue
<1>1. ChainsInv => EvidenceIsTrue
  <2>1. SUFFICES ASSUME ChainsInv, NEW r \in Replica
                 PROVE  /\ \A x \in rep[r].forks :
                             /\ x.held # x.other
                             /\ {x.held, x.other} \subseteq SignedAt(x.dev, x.seq)
                        /\ \A x \in rep[r].div : \E n \in 1..x.seq : Forked(x.dev, n)
    BY DEF EvidenceIsTrue
  <2>2. ForksOK(wire, rep[r]) /\ DivOK(wire, rep[r])
    BY <2>1 DEF ChainsInv, BaseInv, Sound
  <2>3. \A d, n : SignedAt(d, n) = Signed(wire, d, n)
    BY DEF SignedAt, Signed
  <2> QED
    BY <2>2, <2>3 DEF ForksOK, DivOK, Forked
<1> QED
  BY <1>1, ChainsInvariant, PTL

(***************************************************************************)
(* What the next op links and what a digest and a snapshot record state is *)
(* there: the hash and the root at the end of a prefix are held however    *)
(* much compact_stream removed or apply_snapshot covered below it, and the *)
(* root ends in that hash unless the device forked there.                  *)
(***************************************************************************)
THEOREM PrefixEndStaysKnown == Spec => []PrefixEndIsKnown
<1>1. ChainsInv => PrefixEndIsKnown
  <2>1. SUFFICES ASSUME ChainsInv, NEW r \in Replica, NEW d \in Dev, NEW s, s = rep[r],
                        NEW n, n = s.cursor[d], n > 0
                 PROVE  /\ HasRoot(s, d, n) /\ HeldHash(s, d, n) # None
                        /\ HeldHash(s, d, n) = Last(RootAt(s, d, n)) \/ Forked(d, n)
    BY DEF PrefixEndIsKnown
  <2>2. Sound(wire, s) /\ Kept(s) /\ Low(s)
    BY <2>1 DEF ChainsInv, BaseInv
  <2>3. n \in Nat /\ Len(s.floor[d]) \in Nat
    <3>1. s.cursor \in [Dev -> Nat] /\ s.floor \in [Dev -> Seq(Replica)]
      BY <2>2 DEF Sound, Vault
    <3> QED
      BY <2>1, <3>1
  <2>4. Len(s.floor[d]) <= n
    BY <2>1, <2>2 DEF Low
  <2>5. CASE Len(s.floor[d]) < n
    <3>1. /\ <<d, n>> \in Pos /\ s.rows[<<d, n>>].root # <<>>
          /\ RootAt(s, d, n) = s.rows[<<d, n>>].root /\ HasRoot(s, d, n)
          /\ HeldHash(s, d, n) = s.rows[<<d, n>>].by
      BY <2>1, <2>2, <2>3, <2>5, PrefixIsRooted
    <3>2. s.rows[<<d, n>>].by # None /\ Last(s.rows[<<d, n>>].root) = s.rows[<<d, n>>].by
      BY <2>2, <3>1 DEF Sound, RowsOK
    <3> QED
      BY <3>1, <3>2
  <2>6. CASE Len(s.floor[d]) = n
    <3>1. ChainOK(wire, d, s.floor[d]) /\ s.floor[d] # <<>>
      BY <2>1, <2>2, <2>6 DEF Sound, FloorOK
    <3>2. /\ Last(s.floor[d]) \in Replica /\ Last(s.floor[d]) \in Signed(wire, d, n)
      BY <2>6, <3>1, EndIsSigned
    <3>3. None \notin Replica
      BY ReplicaAssumption
    <3>4. CASE ~Holds(s, d, n)
      BY <2>1, <2>6, <3>2, <3>3, <3>4 DEF HeldHash, RootAt, HasRoot
    <3>5. CASE Holds(s, d, n) /\ s.rows[<<d, n>>].root # <<>>
      <4>1. <<d, n>> \in Pos /\ s.rows[<<d, n>>].by # None
        BY <3>5 DEF Holds
      <4>2. /\ Len(s.rows[<<d, n>>].root) = n
            /\ Last(s.rows[<<d, n>>].root) = s.rows[<<d, n>>].by
        BY <2>2, <3>5, <4>1 DEF Sound, RowsOK
      <4> QED
        BY <3>5, <4>1, <4>2 DEF HeldHash, RootAt, HasRoot
    <3>6. CASE Holds(s, d, n) /\ s.rows[<<d, n>>].root = <<>>
      <4>1. /\ RootAt(s, d, n) = s.floor[d] /\ HasRoot(s, d, n)
            /\ HeldHash(s, d, n) = s.rows[<<d, n>>].by
        BY <2>6, <3>6 DEF RootAt, HasRoot, HeldHash
      <4>2. HeldHash(s, d, n) # None
        BY <3>6, <4>1 DEF Holds
      <4>3. HeldHash(s, d, n) \in Signed(wire, d, n)
        BY <2>2, <2>3, <4>2, HeldHashIs
      <4>4. HeldHash(s, d, n) = Last(s.floor[d]) \/ Forked(d, n)
        BY <3>2, <4>3 DEF Forked, SignedAt, Signed
      <4> QED
        BY <4>1, <4>2, <4>4
    <3> QED
      BY <3>4, <3>5, <3>6
  <2> QED
    BY <2>3, <2>4, <2>5, <2>6
<1> QED
  BY <1>1, ChainsInvariant, PTL

(***************************************************************************)
(* compact_stream raises a floor only over what every device it knows of   *)
(* holds: some vault of that device has a prefix at least as long, though  *)
(* the acknowledgements in `peer_frontiers` are old and came in any order. *)
(***************************************************************************)
THEOREM FloorsAreHeld == Spec => FloorIsHeldByKnown
<1>1. ASSUME ChainsInv, NEW r \in Replica, NEW d \in Dev,
             NEW known \in SUBSET (Dev \ {DevOf[r]}), Compact(r, d, known), NEW k \in known
      PROVE  \E q \in Replica : DevOf[q] = k /\ rep[q].cursor[d] >= Len(rep'[r].floor[d])
  <2>1. BaseInv /\ Acked
    BY <1>1 DEF ChainsInv
  <2>2. PICK t : /\ rep' = [rep EXCEPT ![r] = t] /\ Len(t.floor[d]) \in Nat
                 /\ \A j \in known : Len(t.floor[d]) <= rep[r].acks[j][d]
    BY <1>1, <2>1, CompactStep
  <2>3. rep'[r] = t
    <3>1. rep = [q \in Replica |-> rep[q]]
      BY <2>1 DEF BaseInv
    <3> QED
      BY <2>2, <3>1
  <2>4. k \in Dev
    OBVIOUS
  <2>5. PICK q \in Replica : DevOf[q] = k /\ rep[r].acks[k][d] <= rep[q].cursor[d]
    BY <2>1, <2>4 DEF Acked
  <2>6. rep[q].cursor[d] \in Nat
    BY <2>1 DEF BaseInv, Sound, Vault
  <2>7. rep[r].acks[k][d] \in Nat
    <3>1. rep[r].acks \in [Dev -> [Dev -> Nat]]
      BY <2>1 DEF BaseInv, Sound, Vault
    <3> QED
      BY <2>4, <3>1
  <2>8. Len(t.floor[d]) <= rep[r].acks[k][d]
    BY <2>2
  <2>9. rep[q].cursor[d] >= Len(t.floor[d])
    BY <2>2, <2>5, <2>6, <2>7, <2>8
  <2> QED
    BY <2>3, <2>5, <2>9
<1>2. ChainsInv /\ [Next]_vars =>
        [\A r \in Replica, d \in Dev : rep'[r].floor[d] # rep[r].floor[d] =>
            \A known \in SUBSET (Dev \ {DevOf[r]}) : Compact(r, d, known) =>
                \A k \in known : \E q \in Replica :
                    DevOf[q] = k /\ rep[q].cursor[d] >= Len(rep'[r].floor[d])]_vars
  BY <1>1
<1> QED
  BY <1>2, ChainsInvariant, PTL DEF Spec, FloorIsHeldByKnown

(***************************************************************************)
(* ADR-0043 section 3, check_links: an op of a peer that names another     *)
(* predecessor than the one held beside it has left a fork row, in         *)
(* whatever order the two came and whatever was compacted in between.      *)
(***************************************************************************)
THEOREM BrokenLinksAreNoticed == Spec => []BrokenLinkIsNoticed
<1>1. ChainsInv => BrokenLinkIsNoticed
  BY DEF ChainsInv, Linked, LinkOK, BrokenLinkIsNoticed
<1> QED
  BY <1>1, ChainsInvariant, PTL

(***************************************************************************)
(* reconcile and fold_chain: where everything a peer's digests told of a   *)
(* device's chain can be compared and differs from the chain held here,    *)
(* there is a divergence row, whichever came first, the digest or the      *)
(* prefix, and however the claims that waited were replaced or reached.    *)
(***************************************************************************)
THEOREM DivergencesAreNoticed == Spec => []DivergenceIsNoticed
<1>1. ChainsInv => DivergenceIsNoticed
  <2>1. SUFFICES ASSUME ChainsInv, NEW r \in Replica, NEW peer \in Dev \ {DevOf[r]},
                        NEW d \in Dev
                 PROVE  LET s == rep[r]
                            stated == {o \in Told(s, peer) : o.front[1][d] # <<>>}
                        IN  (/\ \E o \in stated : /\ Holds(s, peer, o.seq)
                                                  /\ s.rows[<<peer, o.seq>>].by = o.by
                             /\ \A o \in stated : Differs(s, d, o.front[1][d]))
                            => \E x \in s.div : x.dev = d /\ x.peer = peer
    BY Zenon DEF DivergenceIsNoticed
  <2>2. PICK s : s = rep[r]
    OBVIOUS
  <2>3. PICK stated : stated = {o \in Told(s, peer) : o.front[1][d] # <<>>}
    OBVIOUS
  <2>4. SUFFICES ASSUME NEW o \in stated, Holds(s, peer, o.seq),
                        s.rows[<<peer, o.seq>>].by = o.by,
                        \A p \in stated : Differs(s, d, p.front[1][d])
                 PROVE  \E x \in s.div : x.dev = d /\ x.peer = peer
    BY <2>2, <2>3
  <2>5. o \in Told(s, peer) /\ o.front[1][d] # <<>>
    BY <2>3
  <2>6. \A p \in Told(s, peer) : p.front[1][d] # <<>> => Differs(s, d, p.front[1][d])
    BY <2>3, <2>4
  <2>7. /\ Sound(wire, s) /\ Kept(s) /\ Noticed /\ ClaimsTold(wire, s)
    BY <2>1, <2>2 DEF ChainsInv, BaseInv
  <2>8. Answered(wire, s, peer, d)
    BY <2>2, <2>4, <2>5, <2>7 DEF Noticed, Told
  <2>9. ASSUME NEW root, root # <<>>, Stated(wire, s, peer, d, root)
        PROVE  Differs(s, d, root)
    <3>1. PICK p \in wire : /\ p.dev = peer /\ p.front # <<>> /\ Taken(s, peer, p.seq)
                            /\ p.front[1][d] = root
      BY <2>9 DEF Stated
    <3>2. p \in Told(s, peer)
      BY <3>1 DEF Told, Taken
    <3> QED
      BY <2>6, <2>9, <3>1, <3>2
  <2>10. ASSUME NEW c \in s.claims, c.dev = d, c.peer = peer PROVE FALSE
    <3>1. c.root # <<>> /\ c.root \in Seq(Replica) /\ Len(c.root) \in Nat
      BY <2>7 DEF Sound, ClaimsOK, ChainOK
    <3>2. Differs(s, d, c.root)
      BY <2>7, <2>9, <2>10, <3>1 DEF ClaimsTold
    <3>3. s.cursor[d] < Len(c.root) /\ Len(s.floor[d]) < Len(c.root)
      BY <2>7, <2>10 DEF Kept
    <3>4. ~HasRoot(s, d, Len(c.root))
      BY <2>7, <3>1, <3>3, NoRootAbove
    <3> QED
      BY <3>2, <3>4 DEF Differs
  <2> QED
    BY <2>8, <2>9, <2>10 DEF Answered
<1> QED
  BY <1>1, ChainsInvariant, PTL
=============================================================================
