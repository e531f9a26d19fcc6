-------------------------- MODULE RevocationProofs --------------------------
(***************************************************************************)
(* For any devices, any cap and any number of ops: the ledger is a         *)
(* function of the ops applied, whom the register gates is on it, nobody   *)
(* frees itself, and read bounds stand.                                    *)
(*                                                                         *)
(* The second and the third are facts about every ledger                   *)
(* (OnlyRevokedAreGatedIn and NoneFreesItself below); the induction        *)
(* carries them to the vault, where the register was computed before the   *)
(* ledger was compacted.  It needs to know that a stored ledger has one    *)
(* row of each pair: then a pair has at most two rows when the fold reads  *)
(* it, one of which is the newest, and compaction takes no revoker away.   *)
(*                                                                         *)
(* That the ledger is a function of the ops is about rows that are gone:   *)
(* an author's evicted row must never be wanted again.  LedgerInv says so  *)
(* without ranks: what was evicted is older than all that stayed, and as   *)
(* many stayed as the cap allows.                                          *)
(***************************************************************************)
EXTENDS Revocation, TLAPS, FiniteSetTheorems, WellFoundedInduction

\* One row of each author and target.
OnePerPair(L) == \A x, y \in L : SamePair(x, y) => x = y

\* What every step preserves.
RevocationInv ==
    /\ ledger \subseteq Revoke
    /\ OnePerPair(ledger)
    /\ register = Register(ledger)
    /\ bounds \in [Device -> {"none", "own", "sponsor"}]
    /\ register \subseteq Bounded

-----------------------------------------------------------------------------
(* Facts about every ledger                                                *)

\* In any ledger, an author whose row refold_device_revocations skips is revoked.
LEMMA OnlyRevokedAreGatedIn ==
    ASSUME NEW L, NEW x \in L, Gated(L, x)
    PROVE  x.from \in Register(L)
<1>1. PICK r \in Kept(L, x.from) : r # x.target
  BY DEF Gated
<1>2. PICK y \in L : y.target = x.from /\ y.from # x.from /\ y.from = r
  BY <1>1 DEF Kept, Revokers
<1>3. Revokers(L, r) \subseteq {x.from}
  BY <1>1 DEF Kept
<1>4. ~Gated(L, y)
  BY <1>2, <1>3 DEF Gated, Kept
<1> QED
  BY <1>2, <1>4 DEF Register, Targets, Believed

\* Rows of other devices revoke d whatever rows of d's own are added to them.
LEMMA NoneFreesItself ==
    ASSUME NEW L, NEW d, d \in Register({x \in L : x.from # d})
    PROVE  d \in Register(L)
<1> DEFINE M == {x \in L : x.from # d}
<1>1. PICK y \in M : y.target = d /\ y.from # d /\ ~Gated(M, y)
  BY DEF Register, Targets, Believed
<1>2. ASSUME NEW q \in Kept(L, y.from), q # d
      PROVE  q \in Kept(M, y.from)
  <2>1. q \in Revokers(M, y.from)
    BY <1>2 DEF Kept, Revokers
  <2>2. Revokers(M, q) \subseteq {y.from}
    BY <1>2 DEF Kept, Revokers
  <2> QED
    BY <2>1, <2>2 DEF Kept
<1>3. ~Gated(L, y)
  BY <1>1, <1>2 DEF Gated
<1> QED
  BY <1>1, <1>3 DEF Register, Targets, Believed

\* Ledgers with the same pairs name the same revokers.
LEMMA SamePairsSameRegister ==
    ASSUME NEW L, NEW M,
           \A x \in L : \E y \in M : SamePair(x, y),
           \A y \in M : \E x \in L : SamePair(x, y)
    PROVE  Register(L) = Register(M) /\ Targets(L) = Targets(M)
<1>1. ASSUME NEW d PROVE Revokers(L, d) = Revokers(M, d)
  BY DEF Revokers, SamePair
<1>2. ASSUME NEW d PROVE Kept(L, d) = Kept(M, d)
  BY <1>1 DEF Kept
<1>3. ASSUME NEW x, NEW y, SamePair(x, y) PROVE Gated(L, x) <=> Gated(M, y)
  BY <1>2, <1>3 DEF Gated, SamePair
<1>4. Register(L) = Register(M)
  BY <1>3 DEF Register, Targets, Believed, SamePair
<1> QED
  BY <1>4 DEF Targets, SamePair

\* compact_device_revoke_ops, run after one op was added to a compacted ledger,
\* leaves the register and the targets as the fold saw them.
LEMMA CompactionKeepsPairs ==
    ASSUME NEW K, K \subseteq Revoke, OnePerPair(K),
           NEW x \in Revoke, NEW L, L \subseteq K \union {x}
    PROVE  /\ Compacted(L) \subseteq L
           /\ OnePerPair(Compacted(L))
           /\ Register(Compacted(L)) = Register(L)
           /\ Targets(Compacted(L)) = Targets(L)
           /\ \A y \in L : \E z \in Compacted(L) : SamePair(y, z)
<1> USE RevocationAssumption
<1>0. \A y \in L : y \in Revoke /\ y.at \in Nat /\ y = [at |-> y.at, from |-> y.from, target |-> y.target]
  BY DEF Revoke
<1>1. Compacted(L) \subseteq L
  BY DEF Compacted
<1>2. ASSUME NEW y \in Compacted(L), NEW z \in Compacted(L), SamePair(y, z)
      PROVE  y = z
  <2>1. y.at = z.at
    BY <1>0, <1>1, <1>2 DEF Compacted, SamePair
  <2> QED
    BY <1>0, <1>1, <1>2, <2>1 DEF SamePair
<1>3. ASSUME NEW y \in L
      PROVE  \E z \in Compacted(L) : SamePair(y, z)
  <2>1. CASE y \in Compacted(L)
    BY <2>1 DEF SamePair
  <2>2. CASE y \notin Compacted(L)
    <3>1. PICK z \in L : SamePair(y, z) /\ y.at < z.at
      BY <2>2 DEF Compacted
    <3>2. ASSUME NEW w \in L, SamePair(z, w), z.at < w.at
          PROVE  FALSE
      <4>1. y # z /\ y # w /\ z # w
        BY <1>0, <3>1, <3>2
      <4>2. SamePair(y, z) /\ SamePair(y, w) /\ SamePair(z, w)
        BY <3>1, <3>2 DEF SamePair
      <4> QED
        BY <4>1, <4>2 DEF OnePerPair, SamePair
    <3>3. z \in Compacted(L)
      BY <3>2 DEF Compacted
    <3> QED
      BY <3>1, <3>3
  <2> QED
    BY <2>1, <2>2
<1>4. \A z \in Compacted(L) : \E y \in L : SamePair(y, z)
  BY <1>1 DEF SamePair
<1>5. Register(L) = Register(Compacted(L)) /\ Targets(L) = Targets(Compacted(L))
  BY <1>3, <1>4, SamePairsSameRegister
<1> QED
  BY <1>1, <1>2, <1>3, <1>5 DEF OnePerPair

-----------------------------------------------------------------------------
(* The vault                                                               *)

\* Read bounds as BoundsStand states them of one step.
BoundsStandStep ==
    /\ register' \subseteq {d \in Device : bounds'[d] # "none"}
    /\ Bounded \intersect certs \subseteq {d \in Device : bounds'[d] # "none"}

\* apply_device_revoke keeps the invariant and every bound that bounds anything.
LEMMA ApplyKeepsInv ==
    ASSUME RevocationInv, NEW x \in Revoke, ApplyDeviceRevoke(x)
    PROVE  RevocationInv' /\ BoundsStandStep
<1>1. CASE x.from = x.target
  BY <1>1 DEF ApplyDeviceRevoke, RevocationInv, BoundsStandStep, Bounded, OnePerPair
<1>2. CASE x.from # x.target
  <2> DEFINE L == Capped(ledger \union {x})
             b == Bound(bounds, Register(L))
  <2>1. /\ ledger' = Compacted(L)
        /\ register' = Register(L)
        /\ bounds' = Released(b, Compacted(L))
    BY <1>2 DEF ApplyDeviceRevoke
  <2>2. L \subseteq ledger \union {x}
    BY DEF Capped
  <2> HIDE DEF L
  <2>3. /\ Compacted(L) \subseteq L
        /\ OnePerPair(Compacted(L))
        /\ Register(Compacted(L)) = Register(L)
        /\ Targets(Compacted(L)) = Targets(L)
    BY <2>2, CompactionKeepsPairs DEF RevocationInv
  <2>4. Register(L) \subseteq Targets(L) /\ Register(L) \subseteq Device
    BY <2>2 DEF Register, Targets, Believed, RevocationInv, Revoke
  <2>5. bounds' \in [Device -> {"none", "own", "sponsor"}]
    BY <2>1 DEF Released, Bound, RevocationInv
  <2>6. \A d \in Register(L) : bounds'[d] # "none"
    BY <2>1, <2>3, <2>4 DEF Released, Bound
  <2>7. \A d \in Device : d \in certs /\ bounds[d] # "none" => bounds'[d] # "none"
    BY <2>1 DEF Released, Bound
  <2>8. ledger' \subseteq Revoke
    BY <2>1, <2>2, <2>3 DEF RevocationInv
  <2>9. OnePerPair(ledger') /\ register' = Register(ledger')
    BY <2>1, <2>3
  <2>10. RevocationInv'
    BY <2>1, <2>4, <2>5, <2>6, <2>8, <2>9 DEF RevocationInv, Bounded, OnePerPair, SamePair, Register, Believed, Targets, Gated, Kept, Revokers
  <2> QED
    BY <2>1, <2>4, <2>6, <2>7, <2>10 DEF BoundsStandStep, Bounded
<1> QED
  BY <1>1, <1>2

LEMMA InitInv == Init => RevocationInv
  BY DEF Init, RevocationInv, OnePerPair, Register, Believed, Targets, Bounded

LEMMA StepInv ==
    ASSUME RevocationInv, [Next]_vars
    PROVE  RevocationInv' /\ (UNCHANGED vars \/ BoundsStandStep)
<1> DEFINE Kept3 == UNCHANGED <<ledger, register, bounds>>
<1>0. ASSUME Kept3 PROVE RevocationInv' /\ BoundsStandStep
  BY <1>0 DEF RevocationInv, BoundsStandStep, Bounded, OnePerPair, SamePair, Register, Believed, Targets, Gated, Kept, Revokers
<1>1. ASSUME NEW d \in Device, ApplyCert(d) PROVE RevocationInv' /\ BoundsStandStep
  BY <1>0, <1>1 DEF ApplyCert
<1>2. ASSUME NEW x \in Revoke, Deliver(x) PROVE RevocationInv' /\ BoundsStandStep
  BY <1>2, ApplyKeepsInv DEF Deliver
<1>3. ASSUME NEW t \in Device, NEW at \in 1..MaxStamp, RevokeDevice(t, at)
      PROVE  RevocationInv' /\ BoundsStandStep
  <2> DEFINE x == [at |-> at, from |-> Self, target |-> t]
  <2>1. x \in Revoke /\ ApplyDeviceRevoke(x)
    BY <1>3, RevocationAssumption DEF RevokeDevice, Revoke
  <2> QED
    BY <2>1, ApplyKeepsInv
<1>4. CASE Poke \/ Connect \/ Frame \/ Handled \/ Submit \/ CallFails \/ Drop
  BY <1>0, <1>4 DEF Poke, Connect, Frame, Handled, Submit, CallFails, Drop, vaultVars
<1>6. ASSUME NEW t \in Device, Ask(t) \/ Answer(t) PROVE RevocationInv' /\ BoundsStandStep
  BY <1>0, <1>6 DEF Ask, Answer, vaultVars
<1>5. CASE UNCHANGED vars
  BY <1>0, <1>5 DEF vars, vaultVars
<1> QED
  BY <1>1, <1>2, <1>3, <1>4, <1>5, <1>6 DEF Next

\* The induction: every reachable vault satisfies RevocationInv.
LEMMA VaultInv == Spec => []RevocationInv
<1>1. RevocationInv /\ [Next]_vars => RevocationInv'
  BY StepInv
<1> QED
  BY InitInv, <1>1, PTL DEF Spec

-----------------------------------------------------------------------------
(* Theorems                                                                *)

(***************************************************************************)
(* For any devices and any ops, a device whose revocations the fold        *)
(* disbelieves is on the register.                                         *)
(***************************************************************************)
THEOREM GatedDevicesAreRevoked == Spec => []OnlyRevokedAreGated
<1>1. RevocationInv => OnlyRevokedAreGated
  BY OnlyRevokedAreGatedIn DEF RevocationInv, OnlyRevokedAreGated
<1> QED
  BY VaultInv, <1>1, PTL

(***************************************************************************)
(* For any devices and any ops, a device that the others' rows revoke is   *)
(* on the register, whatever it wrote itself.                              *)
(***************************************************************************)
THEOREM OwnWordDoesNotFree == Spec => []NobodyFreesItself
<1>1. RevocationInv => NobodyFreesItself
  BY NoneFreesItself DEF RevocationInv, NobodyFreesItself
<1> QED
  BY VaultInv, <1>1, PTL

(***************************************************************************)
(* For any devices and any ops, a revoked device is read-bounded and a     *)
(* device with a cert keeps its bound through every step.                  *)
(***************************************************************************)
THEOREM ReadBoundsStand == Spec => BoundsStand
<1>1. RevocationInv /\ [Next]_vars => (UNCHANGED vars \/ BoundsStandStep)
  BY StepInv
<1>2. RevocationInv /\ [Next]_vars =>
          [/\ register' \subseteq {d \in Device : bounds'[d] # "none"}
           /\ Bounded \intersect certs \subseteq {d \in Device : bounds'[d] # "none"}]_vars
  BY <1>1 DEF BoundsStandStep
<1> QED
  BY VaultInv, <1>2, PTL DEF Spec, BoundsStand

-----------------------------------------------------------------------------
(* The ledger as a function of the ops                                     *)

\* The newest op of each author on each other device.
HeadsOf(S) == {x \in S : x.from # x.target /\ \A y \in S : SamePair(x, y) => ~Before(x, y)}

RowsOf(L, a) == {x \in L : x.from = a}

\* L holds of each author the TargetCap latest rows of H, or all there are.
Latest(L, H) ==
    /\ L \subseteq H /\ IsFiniteSet(L)
    /\ \A x \in L : \A y \in H : y.from = x.from /\ Before(x, y) => y \in L
    /\ \A a \in Device : Cardinality(RowsOf(L, a)) <= TargetCap
    /\ \A x \in H \ L : Cardinality(RowsOf(L, x.from)) = TargetCap

LedgerInv ==
    /\ applied \subseteq Revoke /\ IsFiniteSet(applied)
    /\ Latest(ledger, HeadsOf(applied))

\* The rows of x's author ranked above x in M.
Above(M, x) == {y \in M : y.from = x.from /\ Before(x, y)}

LEMMA RevokeFields ==
    ASSUME NEW x \in Revoke
    PROVE  x.at \in Nat /\ x.from \in Device /\ x.target \in Device /\ x.target \in Nat
<1>1. x.at \in Nat /\ x.from \in Device /\ x.target \in Device
  BY RevocationAssumption DEF Revoke
<1> QED
  BY <1>1, RevocationAssumption

\* Before orders the rows of one author, and those of a pair by their stamps.
LEMMA Ranked ==
    ASSUME NEW x \in Revoke, NEW y \in Revoke
    PROVE  /\ Before(x, y) => ~Before(y, x) /\ x # y
           /\ x.from = y.from /\ x # y => Before(x, y) \/ Before(y, x)
           /\ SamePair(x, y) => (Before(x, y) <=> x.at < y.at)
           /\ SamePair(x, y) => (~Before(x, y) <=> y.at <= x.at)
<1>0. /\ x = [at |-> x.at, from |-> x.from, target |-> x.target]
      /\ y = [at |-> y.at, from |-> y.from, target |-> y.target]
  BY DEF Revoke
<1>1. x.at \in Nat /\ x.target \in Nat /\ y.at \in Nat /\ y.target \in Nat
  BY RevokeFields
<1>2. Before(x, y) => ~Before(y, x) /\ x # y
  BY <1>1 DEF Before
<1>3. x.from = y.from /\ x # y => Before(x, y) \/ Before(y, x)
  BY <1>0, <1>1 DEF Before
<1>4. SamePair(x, y) => (Before(x, y) <=> x.at < y.at)
  BY <1>1 DEF Before, SamePair
<1> QED
  BY <1>1, <1>2, <1>3, <1>4

LEMMA RankedTransitively ==
    ASSUME NEW x \in Revoke, NEW y \in Revoke, NEW z \in Revoke,
           Before(x, y), Before(y, z)
    PROVE  Before(x, z)
<1>1. /\ x.at \in Nat /\ x.target \in Nat /\ y.at \in Nat /\ y.target \in Nat
      /\ z.at \in Nat /\ z.target \in Nat
  BY RevokeFields
<1> QED
  BY <1>1 DEF Before

\* The rows of a pair are compacted by that order.
LEMMA CompactedByRank ==
    ASSUME NEW L, L \subseteq Revoke
    PROVE  Compacted(L) = {x \in L : ~\E y \in L : SamePair(x, y) /\ Before(x, y)}
<1>1. \A x, y \in L : SamePair(x, y) => (Before(x, y) <=> x.at < y.at)
  BY Ranked
<1> QED
  BY <1>1 DEF Compacted

\* The two ways to say which rows stay: by rank, and by what is left out.
LEMMA LatestByRank ==
    ASSUME NEW H, H \subseteq Revoke, IsFiniteSet(H),
           NEW L, Latest(L, H)
    PROVE  L = {x \in H : Cardinality(Above(H, x)) < TargetCap}
<1> USE RevocationAssumption
<1>1. ASSUME NEW x \in L
      PROVE  x \in H /\ Cardinality(Above(H, x)) < TargetCap
  <2> DEFINE R == RowsOf(L, x.from)
  <2>1. x \in H /\ x \in Revoke /\ x.at \in Nat /\ x.from \in Device
    BY RevokeFields DEF Latest
  <2>2. IsFiniteSet(R) /\ Cardinality(R) \in Nat /\ Cardinality(R) <= TargetCap
    <3>1. R \in SUBSET L /\ IsFiniteSet(L)
      BY DEF RowsOf, Latest
    <3>2. IsFiniteSet(R)
      BY <3>1, FS_Subset
    <3> QED
      BY <2>1, <3>2, FS_CardinalityType DEF Latest
  <2>3. IsFiniteSet(R \ {x}) /\ Cardinality(R \ {x}) = Cardinality(R) - 1
    BY <2>2, FS_RemoveElement DEF RowsOf
  <2>4. Above(H, x) \subseteq R \ {x}
    <3>1. ~Before(x, x)
      BY <2>1, Ranked
    <3> QED
      BY <2>1, <3>1 DEF Latest, RowsOf, Above
  <2> HIDE DEF R
  <2>5. /\ Cardinality(Above(H, x)) <= Cardinality(R \ {x})
        /\ Cardinality(Above(H, x)) \in Nat
    BY <2>3, <2>4, FS_Subset, FS_CardinalityType
  <2> QED
    BY <2>1, <2>2, <2>3, <2>5
<1>2. ASSUME NEW x \in H, x \notin L
      PROVE  ~(Cardinality(Above(H, x)) < TargetCap)
  <2> DEFINE R == RowsOf(L, x.from)
  <2>1. x \in Revoke /\ x.at \in Nat /\ x.from \in Device
    BY RevokeFields
  <2>2. Cardinality(R) = TargetCap
    BY <1>2 DEF Latest
  <2>3. R \subseteq Above(H, x)
    <3>1. ASSUME NEW y \in R PROVE y \in H /\ y.from = x.from /\ Before(x, y)
      <4>1. y \in L /\ y \in H /\ y.from = x.from /\ y # x
        BY <1>2 DEF RowsOf, Latest
      <4>2. ~Before(y, x)
        BY <1>2, <4>1 DEF Latest
      <4> QED
        BY <4>1, <4>2, Ranked
    <3> QED
      BY <3>1 DEF Above
  <2>4. IsFiniteSet(Above(H, x))
    <3>1. Above(H, x) \in SUBSET H
      BY DEF Above
    <3> QED
      BY <3>1, FS_Subset
  <2> HIDE DEF R
  <2>5. Cardinality(R) <= Cardinality(Above(H, x)) /\ Cardinality(Above(H, x)) \in Nat
    BY <2>3, <2>4, FS_Subset, FS_CardinalityType
  <2> QED
    BY <2>2, <2>5
<1> QED
  BY <1>1, <1>2 DEF Latest

\* A set of numbers has a least one, of rows an earliest and a latest.
LEMMA LeastOf ==
    ASSUME NEW T, T \subseteq Nat, T # {}
    PROVE  \E t \in T : \A u \in T : t <= u
<1>1. IsWellFoundedOn(OpToRel(<, Nat), Nat)
  BY NatLessThanWellFounded
<1>2. PICK t \in T : \A u \in T : ~(<<u, t>> \in OpToRel(<, Nat))
  BY <1>1, WFMin
<1>3. ASSUME NEW u \in T PROVE t <= u
  <2>1. ~(<<u, t>> \in OpToRel(<, Nat)) /\ u \in Nat /\ t \in Nat
    BY <1>2
  <2>2. ~(u < t)
    BY <2>1 DEF OpToRel
  <2>3. u \in Nat /\ t \in Nat
    OBVIOUS
  <2> QED
    BY <2>2, <2>3
<1> QED
  BY <1>3

LEMMA EarliestRow ==
    ASSUME NEW R, R \subseteq Revoke, R # {}
    PROVE  \E m \in R : \A y \in R : ~Before(y, m)
<1> DEFINE T == {y.at : y \in R}
<1>1. \A y \in R : y.at \in Nat /\ y.target \in Nat
  BY RevokeFields, RevocationAssumption
<1>2. PICK t \in T : \A u \in T : t <= u
  <2>1. T \subseteq Nat /\ T # {}
    BY <1>1
  <2> QED
    BY <2>1, LeastOf
<1> DEFINE U == {y.target : y \in {z \in R : z.at = t}}
<1>3. PICK d \in U : \A u \in U : d <= u
  <2>1. U \subseteq Nat /\ U # {}
    BY <1>1, <1>2
  <2> QED
    BY <2>1, LeastOf
<1>4. PICK m \in R : m.at = t /\ m.target = d
  BY <1>3
<1>5. ASSUME NEW y \in R, Before(y, m) PROVE FALSE
  <2>1. t <= y.at
    BY <1>2
  <2>2. y.at = t => d <= y.target
    BY <1>3
  <2> QED
    BY <1>1, <1>4, <1>5, <2>1, <2>2 DEF Before
<1> QED
  BY <1>5

LEMMA LatestRow ==
    ASSUME NEW R, R \subseteq Revoke, R # {}
    PROVE  \E m \in R : \A y \in R : y.at <= m.at
<1> DEFINE T == {MaxStamp - y.at : y \in R}
<1>1. \A y \in R : y.at \in 1..MaxStamp
  BY DEF Revoke
<1>2. T \subseteq Nat /\ T # {}
  BY <1>1, RevocationAssumption
<1>3. PICK t \in T : \A u \in T : t <= u
  BY <1>2, LeastOf
<1>4. PICK m \in R : t = MaxStamp - m.at
  OBVIOUS
<1>5. ASSUME NEW y \in R PROVE y.at <= m.at
  <2>1. MaxStamp - m.at <= MaxStamp - y.at
    BY <1>3, <1>4
  <2> QED
    BY <1>1, <2>1, RevocationAssumption
<1> QED
  BY <1>5

\* cap_device_revoke_targets and compact_device_revoke_ops together keep the
\* heads of what they are given that rank below the cap.
LEMMA CapThenCompact ==
    ASSUME NEW K, K \subseteq Revoke, OnePerPair(K), NEW x \in Revoke
    PROVE  Compacted(Capped(K \union {x}))
             = {z \in Compacted(K \union {x}) :
                    Cardinality(Above(Compacted(K \union {x}), z)) < TargetCap}
<1> DEFINE L == K \union {x}
           M == Compacted(L)
<1>1. /\ M \subseteq L /\ L \subseteq Revoke
      /\ \A y, z \in M : SamePair(y, z) => y = z
      /\ \A y \in L : \E z \in M : SamePair(y, z)
  <2>1. L \subseteq K \union {x} /\ L \subseteq Revoke
    OBVIOUS
  <2> HIDE DEF L
  <2>2. /\ M \subseteq L /\ OnePerPair(M)
        /\ \A y \in L : \E z \in M : SamePair(y, z)
    BY <2>1, CompactionKeepsPairs
  <2> QED
    BY <2>1, <2>2 DEF OnePerPair
<1>2. \A y, z \in L : SamePair(y, z) /\ z \in M /\ y # z => Before(y, z)
  <2> SUFFICES ASSUME NEW y \in L, NEW z \in L, SamePair(y, z), z \in M, y # z
               PROVE  Before(y, z)
    OBVIOUS
  <2>1. y \in Revoke /\ z \in Revoke /\ y.from = z.from /\ SamePair(z, y)
    BY <1>1 DEF SamePair
  <2>2. ~Before(z, y)
    BY <1>1, <2>1, CompactedByRank
  <2> QED
    BY <2>1, <2>2, Ranked
<1>3. ASSUME NEW y \in L, NEW z \in M, SamePair(y, z)
      PROVE  RankedAbove(L, y) = Above(M, z)
  <2> DEFINE h == CHOOSE g \in M : SamePair(g, y)
  <2>1. SamePair(z, y)
    BY <1>3 DEF SamePair
  <2>2. h \in M /\ SamePair(h, y)
    BY <2>1
  <2>3. h = z
    BY <1>1, <1>3, <2>2 DEF SamePair
  <2>4. RankedAbove(L, y) = {g \in M : g.from = y.from /\ Before(h, g)}
    BY DEF RankedAbove
  <2> HIDE DEF h, M
  <2> QED
    BY <1>3, <2>3, <2>4 DEF Above, SamePair
<1>4. \A y \in L : SamePair(y, y)
  BY DEF SamePair
<1>5. ASSUME NEW z \in M, Cardinality(Above(M, z)) < TargetCap
      PROVE  z \in Compacted(Capped(L))
  <2>1. z \in Capped(L)
    BY <1>1, <1>3, <1>4, <1>5 DEF Capped
  <2> QED
    BY <2>1 DEF Compacted, Capped
<1>6. ASSUME NEW y \in Compacted(Capped(L))
      PROVE  y \in M /\ Cardinality(Above(M, y)) < TargetCap
  <2>1. y \in L /\ Cardinality(RankedAbove(L, y)) < TargetCap /\ y \in Capped(L)
    BY DEF Compacted, Capped
  <2>2. PICK z \in M : SamePair(y, z)
    BY <1>1, <2>1
  <2>3. z \in L /\ SamePair(z, z)
    BY <1>1, <1>4
  <2>4. Cardinality(RankedAbove(L, z)) < TargetCap
    <3>1. RankedAbove(L, y) = RankedAbove(L, z)
      BY <1>3, <2>1, <2>2, <2>3
    <3> QED
      BY <2>1, <3>1
  <2>5. z \in Capped(L)
    BY <2>3, <2>4 DEF Capped
  <2>6. y = z
    <3>1. Capped(L) \subseteq Revoke
      BY <1>1 DEF Capped
    <3>2. Compacted(Capped(L)) = {w \in Capped(L) : ~\E v \in Capped(L) : SamePair(w, v) /\ Before(w, v)}
      BY <3>1, CompactedByRank
    <3>3. y \in Compacted(Capped(L))
      OBVIOUS
    <3>4. ~Before(y, z)
      BY <2>2, <2>5, <3>2, <3>3
    <3> QED
      BY <1>2, <2>1, <2>2, <2>3, <3>4
  <2>7. RankedAbove(L, y) = Above(M, z)
    BY <1>3, <2>1, <2>2
  <2> QED
    BY <2>1, <2>2, <2>6, <2>7
<1> QED
  BY <1>5, <1>6

\* Adding an op to the ops: which rows are heads then.
LEMMA HeadsGrow ==
    ASSUME NEW S, S \subseteq Revoke, NEW x \in Revoke, x.from # x.target,
           x \notin S
    PROVE  /\ \A z \in HeadsOf(S \union {x}) :
                 \/ z = x
                 \/ z \in HeadsOf(S) /\ (SamePair(z, x) => Before(x, z))
           /\ \A z \in HeadsOf(S) : (SamePair(z, x) => Before(x, z)) => z \in HeadsOf(S \union {x})
           /\ \/ x \in HeadsOf(S \union {x})
              \/ \E z \in HeadsOf(S) : SamePair(z, x) /\ Before(x, z)
<1> DEFINE T == S \union {x}
<1>1. \A y \in T : y \in Revoke /\ y.at \in Nat
  BY RevokeFields
<1>2. \A y, z \in T : SamePair(y, z) => SamePair(z, y) /\ (Before(y, z) => ~Before(z, y))
                                         /\ (y # z => Before(y, z) \/ Before(z, y))
  BY <1>1, Ranked DEF SamePair
<1>3. ASSUME NEW z \in HeadsOf(T), z # x
      PROVE  z \in HeadsOf(S) /\ (SamePair(z, x) => Before(x, z))
  <2>1. z \in S /\ z.from # z.target /\ \A y \in T : SamePair(z, y) => ~Before(z, y)
    BY <1>3 DEF HeadsOf
  <2>2. z \in HeadsOf(S)
    BY <2>1 DEF HeadsOf
  <2>3. SamePair(z, x) => Before(x, z)
    BY <1>1, <1>2, <1>3, <2>1
  <2> QED
    BY <2>2, <2>3
<1>4. ASSUME NEW z \in HeadsOf(S), SamePair(z, x) => Before(x, z)
      PROVE  z \in HeadsOf(T)
  <2>1. z \in S /\ z.from # z.target /\ \A y \in S : SamePair(z, y) => ~Before(z, y)
    BY DEF HeadsOf
  <2>2. \A y \in T : SamePair(z, y) => ~Before(z, y)
    BY <1>2, <1>4, <2>1
  <2> QED
    BY <2>1, <2>2 DEF HeadsOf
<1>5. ASSUME x \notin HeadsOf(T)
      PROVE  \E z \in HeadsOf(S) : SamePair(z, x) /\ Before(x, z)
  <2>1. PICK y \in T : SamePair(x, y) /\ Before(x, y)
    BY <1>5 DEF HeadsOf
  <2> DEFINE P == {w \in S : SamePair(x, w)}
  <2>2. y \in P /\ P \subseteq Revoke
    <3>1. y # x
      BY <1>1, <2>1, Ranked
    <3> QED
      BY <1>1, <2>1, <3>1
  <2>3. PICK m \in P : \A w \in P : w.at <= m.at
    BY <2>2, LatestRow
  <2>4. m \in S /\ SamePair(x, m) /\ m.from # m.target
    BY <2>3 DEF SamePair
  <2>5. \A w \in S : SamePair(m, w) => ~Before(m, w)
    <3> SUFFICES ASSUME NEW w \in S, SamePair(m, w) PROVE ~Before(m, w)
      OBVIOUS
    <3>1. w.at <= m.at
      BY <2>3, <2>4 DEF SamePair
    <3> QED
      BY <1>1, <2>4, <3>1, Ranked
  <2>6. m \in HeadsOf(S)
    BY <2>4, <2>5 DEF HeadsOf
  <2>7. Before(x, m)
    <3>1. x.at < y.at /\ y.at <= m.at /\ x.at \in Nat /\ y.at \in Nat /\ m.at \in Nat
      BY <1>1, <2>1, <2>2, <2>3, <2>4, Ranked
    <3>2. x.at < m.at
      BY <3>1
    <3> QED
      BY <1>1, <2>4, <3>2, Ranked
  <2> QED
    BY <2>4, <2>6, <2>7 DEF SamePair
<1> QED
  BY <1>3, <1>4, <1>5

\* The ledger with one row more: the rows the fold's compaction leaves, of the
\* op's author and of the others.
LEMMA OneRowMore ==
    ASSUME NEW K, K \subseteq Revoke, IsFiniteSet(K), OnePerPair(K),
           NEW x \in Revoke, x \notin K
    PROVE  LET M == Compacted(K \union {x})
               R == RowsOf(K, x.from)
           IN  /\ \A a : a # x.from => RowsOf(M, a) = RowsOf(K, a)
               /\ \A z \in K : z \in M <=> ~(SamePair(z, x) /\ Before(z, x))
               /\ x \in M <=> ~\E z \in K : SamePair(z, x) /\ Before(x, z)
               /\ IsFiniteSet(M) /\ Cardinality(RowsOf(M, x.from)) \in Nat /\ Cardinality(R) \in Nat
               /\ x \notin M => M = K
               /\ x \in M /\ (\E y \in K : SamePair(y, x)) =>
                     Cardinality(RowsOf(M, x.from)) = Cardinality(R)
               /\ (\A y \in K : ~SamePair(y, x)) =>
                     M = K \union {x} /\ Cardinality(RowsOf(M, x.from)) = Cardinality(R) + 1
<1> DEFINE L == K \union {x}
           M == Compacted(L)
           R == RowsOf(K, x.from)
<1>1. L \subseteq Revoke /\ M = {y \in L : ~\E z \in L : SamePair(y, z) /\ Before(y, z)}
  BY CompactedByRank
<1>2. \A y, z \in L : SamePair(y, z) => SamePair(z, y) /\ (Before(y, z) => ~Before(z, y) /\ y # z)
                                         /\ (y # z => Before(y, z) \/ Before(z, y))
  BY <1>1, Ranked DEF SamePair
<1>3. \A z \in K : z \in M <=> ~(SamePair(z, x) /\ Before(z, x))
  <2> SUFFICES ASSUME NEW z \in K PROVE z \in M <=> ~(SamePair(z, x) /\ Before(z, x))
    OBVIOUS
  <2>1. \A y \in K : SamePair(z, y) => ~Before(z, y)
    BY <1>2 DEF OnePerPair
  <2> HIDE DEF M
  <2> QED
    BY <1>1, <2>1
<1>4. x \in M <=> ~\E z \in K : SamePair(z, x) /\ Before(x, z)
  <2>1. \A z \in L : SamePair(z, x) <=> SamePair(x, z)
    BY DEF SamePair
  <2>2. ~Before(x, x)
    BY Ranked
  <2> HIDE DEF M
  <2> QED
    BY <1>1, <2>1, <2>2
<1>5. M \subseteq L
  BY DEF Compacted
<1>6. \A a : a # x.from => RowsOf(M, a) = RowsOf(K, a)
  BY <1>3, <1>5 DEF RowsOf, SamePair
<1>7. IsFiniteSet(L) /\ IsFiniteSet(M) /\ IsFiniteSet(R) /\ IsFiniteSet(RowsOf(M, x.from))
  <2>1. IsFiniteSet(L)
    BY FS_AddElement
  <2>2. R \in SUBSET L /\ RowsOf(M, x.from) \in SUBSET L /\ M \in SUBSET L
    BY <1>5 DEF RowsOf
  <2> HIDE DEF L, M, R
  <2> QED
    BY <2>1, <2>2, FS_Subset
<1>8. Cardinality(R) \in Nat /\ Cardinality(RowsOf(M, x.from)) \in Nat
  BY <1>7, FS_CardinalityType
<1>9. ASSUME x \notin M PROVE M = K
  <2>1. PICK z \in K : SamePair(z, x) /\ Before(x, z)
    BY <1>4, <1>9
  <2>2. \A y \in K : SamePair(y, x) => y = z
    BY <2>1 DEF OnePerPair, SamePair
  <2>3. ASSUME NEW y \in K PROVE y \in M
    <3>1. CASE SamePair(y, x)
      <4>1. y = z
        BY <2>2, <3>1
      <4>2. ~Before(y, x)
        BY <1>2, <2>1, <4>1
      <4> QED
        BY <1>3, <4>2
    <3>2. CASE ~SamePair(y, x)
      BY <1>3, <3>2
    <3> QED
      BY <3>1, <3>2
  <2> QED
    BY <1>5, <1>9, <2>3
<1>10. ASSUME x \in M, NEW y \in K, SamePair(y, x)
       PROVE  Cardinality(RowsOf(M, x.from)) = Cardinality(R)
  <2>1. ~Before(x, y) /\ y # x
    BY <1>4, <1>10
  <2>2. Before(y, x)
    BY <1>2, <1>10, <2>1
  <2>3. \A z \in K : SamePair(z, x) => z = y
    BY <1>10 DEF OnePerPair, SamePair
  <2>4. y.from = x.from
    BY <1>10 DEF SamePair
  <2>5. RowsOf(M, x.from) = (R \ {y}) \union {x}
    BY <1>3, <1>5, <1>10, <2>2, <2>3 DEF RowsOf
  <2>6. y \in R /\ x \notin R \ {y}
    BY <2>4 DEF RowsOf
  <2> HIDE DEF M, R, L
  <2>7. IsFiniteSet(R \ {y}) /\ Cardinality(R \ {y}) = Cardinality(R) - 1
    BY <1>7, <2>6, FS_RemoveElement
  <2>8. Cardinality((R \ {y}) \union {x}) = Cardinality(R \ {y}) + 1
    BY <2>6, <2>7, FS_AddElement
  <2> QED
    BY <1>8, <2>5, <2>7, <2>8
<1>11. ASSUME \A y \in K : ~SamePair(y, x)
       PROVE  M = K \union {x} /\ Cardinality(RowsOf(M, x.from)) = Cardinality(R) + 1
  <2>1. M = L
    BY <1>3, <1>4, <1>5, <1>11
  <2>2. RowsOf(M, x.from) = R \union {x} /\ x \notin R
    BY <2>1 DEF RowsOf
  <2> HIDE DEF M, R
  <2>3. Cardinality(R \union {x}) = Cardinality(R) + 1
    BY <1>7, <2>2, FS_AddElement
  <2> QED
    BY <2>1, <2>2, <2>3
<1> QED
  BY <1>3, <1>4, <1>6, <1>7, <1>8, <1>9, <1>10, <1>11

\* Recording an op, capping and compacting leaves of each author the latest of
\* its heads: an op evicted earlier is older than every row that stayed, so it
\* can never be missed.
LEMMA ApplyKeepsLatest ==
    ASSUME NEW S, S \subseteq Revoke, NEW x \in Revoke, x.from # x.target, x \notin S,
           NEW K, Latest(K, HeadsOf(S))
    PROVE  Latest(Compacted(Capped(K \union {x})), HeadsOf(S \union {x}))
<1> DEFINE H == HeadsOf(S)
           G == HeadsOf(S \union {x})
           M == Compacted(K \union {x})
           N == Compacted(Capped(K \union {x}))
           a == x.from
           R == RowsOf(K, a)
<1> USE RevocationAssumption
<1>1. /\ H \subseteq S /\ K \subseteq H /\ IsFiniteSet(K)
      /\ K \subseteq Revoke /\ x \notin K /\ a \in Device
  BY RevokeFields DEF HeadsOf, Latest
<1>2. \A y \in S \union {x} : y \in Revoke /\ y.from \in Device
  BY RevokeFields
<1>3. OnePerPair(K)
  <2> SUFFICES ASSUME NEW y \in K, NEW z \in K, SamePair(y, z) PROVE y = z
    BY DEF OnePerPair
  <2>1. ~Before(z, y) /\ ~Before(y, z) /\ y \in S /\ z \in S
    BY <1>1 DEF HeadsOf, SamePair
  <2>2. y.from = z.from
    BY DEF SamePair
  <2> QED
    BY <1>2, <2>1, <2>2, Ranked
<1>4. /\ \A b : b # a => RowsOf(M, b) = RowsOf(K, b)
      /\ \A z \in K : z \in M <=> ~(SamePair(z, x) /\ Before(z, x))
      /\ x \in M <=> ~\E z \in K : SamePair(z, x) /\ Before(x, z)
      /\ IsFiniteSet(M) /\ Cardinality(RowsOf(M, a)) \in Nat /\ Cardinality(R) \in Nat
      /\ x \notin M => M = K
      /\ x \in M /\ (\E y \in K : SamePair(y, x)) => Cardinality(RowsOf(M, a)) = Cardinality(R)
      /\ (\A y \in K : ~SamePair(y, x)) =>
            M = K \union {x} /\ Cardinality(RowsOf(M, a)) = Cardinality(R) + 1
  BY <1>1, <1>3, OneRowMore
<1>5. N = {z \in M : Cardinality(Above(M, z)) < TargetCap}
  BY <1>1, <1>3, CapThenCompact
<1>6. /\ \A z \in G : z = x \/ (z \in H /\ (SamePair(z, x) => Before(x, z)))
      /\ \A z \in H : (SamePair(z, x) => Before(x, z)) => z \in G
      /\ x \in G \/ \E z \in H : SamePair(z, x) /\ Before(x, z)
  BY HeadsGrow
<1>7. /\ \A y \in K : \A z \in H : z.from = y.from /\ Before(y, z) => z \in K
      /\ \A b \in Device : Cardinality(RowsOf(K, b)) <= TargetCap
      /\ \A y \in H \ K : Cardinality(RowsOf(K, y.from)) = TargetCap
  BY DEF Latest
<1>8. M \subseteq K \union {x} /\ M \subseteq S \union {x}
  BY <1>1 DEF Compacted
<1>9. /\ \A y, z \in S \union {x} : y.from = z.from /\ y # z => Before(y, z) \/ Before(z, y)
      /\ \A y, z \in S \union {x} : Before(y, z) => ~Before(z, y) /\ y # z
  BY <1>2, Ranked
<1>24. \A y, z, w \in S \union {x} : Before(y, z) /\ Before(z, w) => Before(y, w)
  BY <1>2, RankedTransitively
<1>10. x \in G => \A z \in H : SamePair(z, x) => Before(z, x)
  <2> SUFFICES ASSUME x \in G, NEW z \in H, SamePair(z, x) PROVE Before(z, x)
    OBVIOUS
  <2>1. z \in S /\ SamePair(x, z) /\ z # x
    BY <1>1 DEF SamePair
  <2>2. ~Before(x, z)
    BY <2>1 DEF HeadsOf
  <2> QED
    BY <1>9, <2>1, <2>2 DEF SamePair
<1>11. x \in G => x \in M
  BY <1>1, <1>4, <1>9, <1>10
<1>12. \A z \in K : z \in M => z \in G
  <2> SUFFICES ASSUME NEW z \in K, z \in M PROVE z \in G
    OBVIOUS
  <2>1. SamePair(z, x) => Before(x, z)
    <3> SUFFICES ASSUME SamePair(z, x) PROVE Before(x, z)
      OBVIOUS
    <3>1. z \in S /\ z # x /\ z.from = x.from
      BY <1>1 DEF SamePair
    <3>2. ~Before(z, x)
      BY <1>4
    <3> QED
      BY <1>9, <3>1, <3>2
  <2> QED
    BY <1>1, <1>6, <2>1
<1>13. \A w \in G : w # x => w \in H /\ (w \in K => w \in M)
  <2> SUFFICES ASSUME NEW w \in G, w # x PROVE w \in H /\ (w \in K => w \in M)
    OBVIOUS
  <2>1. w \in H /\ w \in S /\ (SamePair(w, x) => Before(x, w))
    BY <1>1, <1>6
  <2> QED
    BY <1>4, <1>9, <2>1
<1> HIDE DEF H, G, M, N, R, a
<1> USE DEF a
\* A row of an author that has no more rows than the cap is kept.
<1>15. ASSUME NEW z \in M, Cardinality(RowsOf(M, z.from)) <= TargetCap
       PROVE  z \in N
  <2> DEFINE T == RowsOf(M, z.from)
  <2>1. IsFiniteSet(T) /\ Cardinality(T) \in Nat /\ z \in T
    <3>1. T \in SUBSET M /\ z \in T
      BY DEF RowsOf
    <3> QED
      BY <1>4, <3>1, FS_Subset, FS_CardinalityType
  <2>2. Above(M, z) \subseteq T \ {z}
    <3>1. ~Before(z, z)
      BY <1>8, <1>9
    <3> QED
      BY <3>1 DEF RowsOf, Above
  <2> HIDE DEF T
  <2>3. IsFiniteSet(T \ {z}) /\ Cardinality(T \ {z}) = Cardinality(T) - 1
    BY <2>1, FS_RemoveElement
  <2>4. Cardinality(Above(M, z)) <= Cardinality(T) - 1 /\ Cardinality(Above(M, z)) \in Nat
    BY <2>2, <2>3, FS_Subset, FS_CardinalityType
  <2> QED
    BY <1>5, <1>15, <2>1, <2>4 DEF T
<1>16. \A z \in M : z.from # a => z \in N
  <2> SUFFICES ASSUME NEW z \in M, z.from # a PROVE z \in N
    OBVIOUS
  <2>1. Cardinality(RowsOf(M, z.from)) <= TargetCap
    BY <1>2, <1>4, <1>7, <1>8
  <2> QED
    BY <1>15, <2>1
<1>17. N \subseteq M
  BY <1>5
<1>19. \A z \in H : z.from \in Device /\ z # x /\ z \in S
  BY <1>1, <1>2
<1>20. IsFiniteSet(N) /\ \A b \in Device : b # a => RowsOf(N, b) = RowsOf(K, b)
  <2>1. IsFiniteSet(N)
    BY <1>4, <1>17, FS_Subset
  <2>2. ASSUME NEW b \in Device, b # a PROVE RowsOf(N, b) = RowsOf(M, b)
    BY <1>16, <1>17, <2>2 DEF RowsOf
  <2> QED
    BY <1>4, <2>1, <2>2
<1>21. \A w \in G : w # x /\ w \notin N /\ w.from # a => Cardinality(RowsOf(N, w.from)) = TargetCap
  <2> SUFFICES ASSUME NEW w \in G, w # x, w \notin N, w.from # a
               PROVE  Cardinality(RowsOf(N, w.from)) = TargetCap
    OBVIOUS
  <2>1. w \in H /\ w \notin K /\ w.from \in Device
    BY <1>13, <1>16, <1>19
  <2> QED
    BY <1>7, <1>20, <2>1
\* Nothing is evicted.
<1>22. CASE Cardinality(RowsOf(M, a)) <= TargetCap
  <2>1. N = M
    BY <1>15, <1>16, <1>17, <1>22
  <2>2. x \in M => x \in G
    <3> SUFFICES ASSUME x \in M, NEW z \in H, SamePair(z, x), Before(x, z) PROVE FALSE
      BY <1>6
    <3>1. z \notin K /\ z.from = a
      BY <1>4 DEF SamePair
    <3>2. Cardinality(R) = TargetCap
      BY <1>7, <3>1 DEF R
    <3>3. \A y \in K : ~SamePair(y, x)
      <4> SUFFICES ASSUME NEW y \in K, SamePair(y, x) PROVE FALSE
        OBVIOUS
      <4>1. y.from = z.from /\ y.from = x.from /\ y \in S /\ y # x /\ ~Before(x, y)
        BY <1>1, <1>4, <1>19 DEF SamePair
      <4>2. Before(y, z)
        BY <1>9, <1>19, <1>24, <4>1
      <4> QED
        BY <1>7, <3>1, <4>1, <4>2
    <3>4. Cardinality(RowsOf(M, a)) = Cardinality(R) + 1
      BY <1>4, <3>3
    <3> QED
      BY <1>22, <3>2, <3>4
  <2>3. M \subseteq G
    BY <1>8, <1>12, <2>2
  <2>4. ASSUME NEW z \in M, NEW w \in G, w.from = z.from, Before(z, w)
        PROVE  w \in M
    <3>1. CASE w = x
      BY <1>11, <3>1
    <3>2. CASE w # x /\ z \in K
      BY <1>7, <1>13, <2>4, <3>2
    <3>3. CASE w # x /\ z = x
      <4>1. w \in H /\ w.from = a
        BY <1>13, <2>4, <3>3
      <4>2. CASE \E y \in K : SamePair(y, x)
        <5>1. PICK y \in K : SamePair(y, x)
          BY <4>2
        <5>2. y.from = w.from /\ y.from = x.from /\ ~Before(x, y) /\ y \in S /\ y # x /\ w \in S
          BY <1>1, <1>4, <1>19, <2>4, <3>3, <4>1, <5>1 DEF SamePair
        <5>3. Before(y, w)
          BY <1>9, <1>24, <2>4, <3>3, <5>2
        <5> QED
          BY <1>7, <1>13, <3>3, <4>1, <5>2, <5>3
      <4>3. CASE \A y \in K : ~SamePair(y, x)
        <5>1. Cardinality(R) + 1 <= TargetCap
          BY <1>4, <1>22, <4>3
        <5>2. Cardinality(R) # TargetCap
          BY <1>4, <5>1
        <5>3. w \in K
          BY <1>7, <4>1, <5>2 DEF R
        <5> QED
          BY <1>13, <3>3, <5>3
      <4> QED
        BY <4>2, <4>3
    <3> QED
      BY <1>8, <3>1, <3>2, <3>3
  <2>5. \A b \in Device : Cardinality(RowsOf(M, b)) <= TargetCap
    BY <1>4, <1>7, <1>22
  <2>6. ASSUME NEW w \in G, w \notin M
        PROVE  Cardinality(RowsOf(M, w.from)) = TargetCap
    <3>1. w # x /\ w \in H /\ w \notin K
      BY <1>11, <1>13, <2>6
    <3>2. CASE w.from # a
      BY <1>21, <2>1, <2>6, <3>1, <3>2
    <3>3. CASE w.from = a
      <4>1. Cardinality(R) = TargetCap
        BY <1>7, <3>1, <3>3 DEF R
      <4>2. CASE x \notin M
        BY <1>4, <3>3, <4>1, <4>2 DEF R
      <4>3. CASE x \in M
        BY <1>4, <1>22, <3>3, <4>1, <4>3
      <4> QED
        BY <4>2, <4>3
    <3> QED
      BY <3>2, <3>3
  <2>7. Latest(M, G)
    BY <1>4, <2>3, <2>4, <2>5, <2>6 DEF Latest
  <2> QED
    BY <2>1, <2>7 DEF N, G
\* The earliest row of the author is evicted.
<1>23. CASE ~(Cardinality(RowsOf(M, a)) <= TargetCap)
  <2> DEFINE T == RowsOf(M, a)
  <2>1. Cardinality(R) <= TargetCap
    BY <1>1, <1>7 DEF R
  <2>2. x \in M /\ \A y \in K : ~SamePair(y, x)
    BY <1>4, <1>23, <2>1 DEF R
  <2>3. M = K \union {x} /\ Cardinality(T) = TargetCap + 1 /\ Cardinality(R) = TargetCap
    BY <1>4, <1>23, <2>1, <2>2
  <2>4. x \in T /\ T \subseteq M /\ T \subseteq Revoke /\ IsFiniteSet(T)
    <3>1. x \in T /\ T \in SUBSET M /\ T \subseteq Revoke
      BY <1>1, <1>8, <2>2 DEF RowsOf
    <3> QED
      BY <1>4, <3>1, FS_Subset
  <2>5. PICK m \in T : \A y \in T : ~Before(y, m)
    BY <2>4, EarliestRow
  <2>6. /\ m \in M /\ m.from = a /\ m \in S \union {x}
        /\ \A y \in T : y \in M /\ y.from = a /\ y \in S \union {x}
    BY <1>8 DEF RowsOf
  <2>7. \A y \in M : y.from = a => y \in T
    BY DEF RowsOf
  <2>8. \A y \in T : y # m => Before(m, y)
    BY <1>9, <2>5, <2>6
  <2> HIDE DEF T
  <2>9. m \notin N
    <3>1. Above(M, m) = T \ {m}
      <4>1. ~Before(m, m)
        BY <1>9, <2>6
      <4> QED
        BY <2>6, <2>7, <2>8, <4>1 DEF Above
    <3>2. Cardinality(T \ {m}) = Cardinality(T) - 1
      BY <2>4, FS_RemoveElement
    <3> QED
      BY <1>5, <2>3, <3>1, <3>2
  <2>10. ASSUME NEW z \in T, z # m PROVE z \in N
    <3>1. Above(M, z) \subseteq (T \ {m}) \ {z}
      <4>1. Before(m, z) /\ z.from = a
        BY <2>6, <2>8, <2>10
      <4>2. ASSUME NEW y \in M, y.from = z.from, Before(z, y) PROVE y \in (T \ {m}) \ {z}
        BY <1>8, <1>9, <2>6, <2>7, <4>1, <4>2
      <4> QED
        BY <4>2 DEF Above
    <3>2. IsFiniteSet(T \ {m}) /\ Cardinality(T \ {m}) = Cardinality(T) - 1
      BY <2>4, FS_RemoveElement
    <3>3. IsFiniteSet((T \ {m}) \ {z}) /\ Cardinality((T \ {m}) \ {z}) = Cardinality(T \ {m}) - 1
      BY <2>10, <3>2, FS_RemoveElement
    <3>4. /\ Cardinality(Above(M, z)) <= Cardinality((T \ {m}) \ {z})
          /\ Cardinality(Above(M, z)) \in Nat
      BY <3>1, <3>3, FS_Subset, FS_CardinalityType
    <3> QED
      BY <1>5, <2>3, <2>6, <3>2, <3>3, <3>4
  <2>11. N = M \ {m}
    BY <1>16, <1>17, <2>7, <2>9, <2>10
  <2>12. \A z \in K : z \in G
    BY <1>12, <2>3
  <2>13. x # m => x \in G
    <3> SUFFICES ASSUME x # m, NEW h \in H, SamePair(h, x), Before(x, h) PROVE FALSE
      BY <1>6
    <3>1. m \in K /\ m.from = h.from /\ Before(m, x)
      BY <2>3, <2>4, <2>6, <2>8 DEF SamePair
    <3>2. Before(m, h)
      BY <1>19, <1>24, <2>6, <3>1
    <3> QED
      BY <1>7, <2>2, <3>1, <3>2
  <2>14. N \subseteq G
    BY <2>3, <2>11, <2>12, <2>13
  <2>15. ASSUME NEW z \in N, NEW w \in G, w.from = z.from, Before(z, w)
         PROVE  w \in N
    <3>1. z \in M /\ z # m /\ z \in S \union {x}
      BY <1>8, <2>11
    <3>2. w \in M
      <4>1. CASE w = x
        BY <2>2, <4>1
      <4>2. CASE w # x /\ z \in K
        BY <1>7, <1>13, <2>15, <4>2
      <4>3. CASE w # x /\ z = x
        <5>1. m \in K /\ m.from = w.from /\ Before(m, z) /\ w \in H
          BY <1>13, <2>3, <2>4, <2>6, <2>8, <2>15, <3>1, <4>3
        <5>2. Before(m, w)
          BY <1>19, <1>24, <2>6, <2>15, <3>1, <5>1
        <5> QED
          BY <1>7, <1>13, <4>3, <5>1, <5>2
      <4> QED
        BY <2>3, <3>1, <4>1, <4>2, <4>3
    <3>3. w # m
      <4> SUFFICES ASSUME w = m PROVE FALSE
        OBVIOUS
      <4>1. z \in T
        BY <2>6, <2>7, <2>15, <3>1
      <4> QED
        BY <2>5, <2>6, <2>15, <3>1, <4>1
    <3> QED
      BY <2>11, <3>2, <3>3
  <2>16. Cardinality(RowsOf(N, a)) = TargetCap
    <3>1. RowsOf(N, a) = T \ {m}
      BY <2>11 DEF RowsOf, T
    <3>2. Cardinality(T \ {m}) = Cardinality(T) - 1
      BY <2>4, FS_RemoveElement
    <3> QED
      BY <2>3, <3>1, <3>2
  <2>17. \A b \in Device : Cardinality(RowsOf(N, b)) <= TargetCap
    <3> SUFFICES ASSUME NEW b \in Device PROVE Cardinality(RowsOf(N, b)) <= TargetCap
      OBVIOUS
    <3>1. CASE b = a
      BY <2>16, <3>1
    <3>2. CASE b # a
      BY <1>7, <1>20, <3>2
    <3> QED
      BY <3>1, <3>2
  <2>18. \A w \in G \ N : Cardinality(RowsOf(N, w.from)) = TargetCap
    BY <1>21, <2>16
  <2>19. Latest(N, G)
    BY <1>20, <2>14, <2>15, <2>17, <2>18 DEF Latest
  <2> QED
    BY <2>19 DEF N, G
<1> QED
  BY <1>22, <1>23

\* A revocation that a device writes of itself changes nothing.
LEMMA SelfRevokeIsNoHead ==
    ASSUME NEW S, NEW x, x.from = x.target
    PROVE  HeadsOf(S \union {x}) = HeadsOf(S)
  BY DEF HeadsOf, SamePair

LEMMA ApplyKeepsLedgerInv ==
    ASSUME LedgerInv, NEW x \in Revoke, ApplyDeviceRevoke(x),
           applied' = applied \union {x}, x \notin applied
    PROVE  LedgerInv'
<1> USE DEF LedgerInv
<1>1. applied' \subseteq Revoke /\ IsFiniteSet(applied')
  BY FS_AddElement
<1>3. CASE x.from = x.target
  <2>1. ledger' = ledger /\ HeadsOf(applied') = HeadsOf(applied)
    BY <1>3, SelfRevokeIsNoHead DEF ApplyDeviceRevoke
  <2>2. Latest(ledger', HeadsOf(applied'))
    BY <2>1
  <2> QED
    BY <1>1, <2>2
<1>4. CASE x.from # x.target
  <2>1. ledger' = Compacted(Capped(ledger \union {x}))
    BY <1>4 DEF ApplyDeviceRevoke
  <2>2. Latest(Compacted(Capped(ledger \union {x})), HeadsOf(applied \union {x}))
    BY <1>4, ApplyKeepsLatest
  <2>3. Latest(ledger', HeadsOf(applied'))
    BY <2>1, <2>2
  <2> QED
    BY <1>1, <2>3
<1> QED
  BY <1>3, <1>4

LEMMA InitLedgerInv == Init => LedgerInv
<1> SUFFICES ASSUME Init PROVE LedgerInv
  OBVIOUS
<1>1. applied = {} /\ ledger = {}
  BY DEF Init
<1>2. IsFiniteSet({}) /\ Cardinality({}) = 0
  BY FS_EmptySet
<1>3. HeadsOf({}) = {} /\ \A a : RowsOf({}, a) = {}
  BY DEF HeadsOf, RowsOf
<1> QED
  BY <1>1, <1>2, <1>3, RevocationAssumption DEF LedgerInv, Latest

LEMMA StepLedgerInv == ASSUME LedgerInv, [Next]_vars PROVE LedgerInv'
<1>1. ASSUME UNCHANGED <<applied, ledger>> PROVE LedgerInv'
  BY <1>1 DEF LedgerInv
<1>2. ASSUME NEW d \in Device, ApplyCert(d) PROVE LedgerInv'
  BY <1>1, <1>2 DEF ApplyCert
<1>3. ASSUME NEW x \in Revoke, Deliver(x) PROVE LedgerInv'
  BY <1>3, ApplyKeepsLedgerInv DEF Deliver
<1>4. ASSUME NEW t \in Device, NEW at \in 1..MaxStamp, RevokeDevice(t, at)
      PROVE  LedgerInv'
  <2> DEFINE x == [at |-> at, from |-> Self, target |-> t]
  <2>1. /\ x \in Revoke /\ ApplyDeviceRevoke(x) /\ applied' = applied \union {x}
        /\ \A y \in applied : y.at < at
    BY <1>4, RevocationAssumption DEF RevokeDevice, Revoke
  <2>2. x \notin applied
    <3>1. \A y \in applied : y.at \in Nat
      BY RevokeFields DEF LedgerInv
    <3> QED
      BY <2>1, <3>1, RevocationAssumption
  <2> QED
    BY <2>1, <2>2, ApplyKeepsLedgerInv
<1>5. CASE Poke \/ Connect \/ Frame \/ Handled \/ Submit \/ CallFails \/ Drop
  BY <1>1, <1>5 DEF Poke, Connect, Frame, Handled, Submit, CallFails, Drop, vaultVars
<1>6. ASSUME NEW t \in Device, Ask(t) \/ Answer(t) PROVE LedgerInv'
  BY <1>1, <1>6 DEF Ask, Answer, vaultVars
<1>7. CASE UNCHANGED vars
  BY <1>1, <1>7 DEF vars, vaultVars
<1> QED
  BY <1>2, <1>3, <1>4, <1>5, <1>6, <1>7 DEF Next

(***************************************************************************)
(* For any devices, any cap and any ops: the ledger and the register that  *)
(* apply_device_revoke keeps by evicting and compacting after every op are *)
(* a function of the set of ops applied, so two vaults that applied the    *)
(* same ops, in whatever order, revoke the same devices.                   *)
(***************************************************************************)
THEOREM LedgerIgnoresOrder == Spec => []LedgerIsAFunctionOfTheOps
<1>1. LedgerInv /\ [Next]_vars => LedgerInv'
  BY StepLedgerInv
<1>2. ASSUME LedgerInv, RevocationInv PROVE LedgerIsAFunctionOfTheOps
  <2> DEFINE H == HeadsOf(applied)
  <2>1. H \in SUBSET applied
    BY DEF HeadsOf
  <2>2. H \subseteq Revoke /\ IsFiniteSet(H) /\ Latest(ledger, H)
    BY <1>2, <2>1, FS_Subset DEF LedgerInv
  <2>3. LedgerOf(applied) = {x \in H : Cardinality(Above(H, x)) < TargetCap}
    <3>1. \A x, y \in applied : SamePair(x, y) => (~Before(x, y) <=> y.at <= x.at)
      BY <1>2, Ranked DEF LedgerInv
    <3>2. H = {x \in applied : x.from # x.target /\ \A y \in applied : SamePair(x, y) => y.at <= x.at}
      BY <3>1 DEF HeadsOf
    <3> QED
      BY <3>2 DEF LedgerOf, Above
  <2> HIDE DEF H
  <2>4. ledger = LedgerOf(applied)
    BY <2>2, <2>3, LatestByRank
  <2> QED
    BY <1>2, <2>4 DEF RevocationInv, LedgerIsAFunctionOfTheOps
<1>3. LedgerInv /\ RevocationInv => LedgerIsAFunctionOfTheOps
  BY <1>2
<1> QED
  BY InitLedgerInv, VaultInv, <1>1, <1>3, PTL DEF Spec
=============================================================================
