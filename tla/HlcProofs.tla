----------------------------- MODULE HlcProofs ------------------------------
(***************************************************************************)
(* The clocks of any devices, with any bounds: stamps follow causality and *)
(* skew does not spread.                                                   *)
(*                                                                         *)
(* Neither is inductive alone.  A stamp is above what its device knows     *)
(* because the clock is, and the clock is after a restart because what a   *)
(* device knows is still in its log, or below a floor whose own stamp is   *)
(* no smaller (OwnOrder).  HlcInv says that, and the two results follow.   *)
(***************************************************************************)
EXTENDS Hlc, TLAPS

(***************************************************************************)
(* What makes both inductive: stamps rise along one device's ops, what a   *)
(* device knows is at or below its clock, every op it knows is still in    *)
(* its log or below a floor, and nothing else is there.                    *)
(***************************************************************************)
OwnOrder ==
    \A p, q \in ops : p.dev = q.dev /\ p.seq <= q.seq => Leq(p.hlc, q.hlc)

OwnKnown == \A q \in ops : q \in known[q.dev]

KnownBelowClock == \A d \in Device : \A q \in known[d] : Leq(q.hlc, clock[d])

KnownIsKept ==
    \A d \in Device : \A q \in known[d] : q \in log[d] \/ Covered(d, q)

KeptIsKnown == \A d \in Device : log[d] \cup floor[d] \subseteq known[d]

ClockSkew == \A d \in Device : clock[d].ms <= peak[d] + MaxDrift

HlcInv ==
    /\ TypeOK /\ OwnOrder /\ OwnKnown /\ KnownBelowClock
    /\ KnownIsKept /\ KeptIsKnown /\ ClockSkew
-----------------------------------------------------------------------------
(* The order of readings, and what moving a clock does. *)

LEMMA LeqTrans ==
    ASSUME NEW a \in Reading, NEW b \in Reading, NEW c \in Reading,
           Leq(a, b), Leq(b, c)
    PROVE  Leq(a, c)
BY HlcBoundAssumption DEF Reading, Leq, Lt

LEMMA LeqByParts ==
    ASSUME NEW a \in Reading, NEW b \in Reading,
           a.ms < b.ms \/ (a.ms = b.ms /\ a.lg <= b.lg)
    PROVE  Leq(a, b)
<1>1. a = [ms |-> a.ms, lg |-> a.lg] /\ b = [ms |-> b.ms, lg |-> b.lg]
  BY DEF Reading
<1>2. a.lg \in 0..MaxLogical /\ b.lg \in 0..MaxLogical
  BY DEF Reading
<1> QED
  BY <1>1, <1>2, HlcBoundAssumption DEF Leq, Lt

LEMMA UpBounded ==
    ASSUME NEW lg \in 0..MaxLogical
    PROVE  Up(lg) \in 0..MaxLogical /\ (lg < Up(lg) \/ (lg = MaxLogical /\ Up(lg) = lg))
BY HlcBoundAssumption DEF Up

(* A stamp is above the reading it was taken from, or ties at the limit. *)
LEMMA SendAdvances ==
    ASSUME NEW c \in Reading, NEW now \in Nat
    PROVE  /\ Send(c, now) \in Reading
           /\ Leq(c, Send(c, now))
           /\ Lt(c, Send(c, now)) \/ (c = Send(c, now) /\ c.lg = MaxLogical)
           /\ Send(c, now).ms = Larger(c.ms, now)
<1>1. c.ms \in Nat /\ c.lg \in 0..MaxLogical /\ c = [ms |-> c.ms, lg |-> c.lg]
  BY DEF Reading
<1>2. CASE now > c.ms
  BY <1>1, <1>2, HlcBoundAssumption DEF Reading, Send, Leq, Lt, Larger
<1>3. CASE ~(now > c.ms)
  BY <1>1, <1>3, UpBounded, HlcBoundAssumption DEF Reading, Send, Leq, Lt, Larger
<1> QED
  BY <1>2, <1>3

(* Receiving passes both readings. *)
LEMMA AbsorbAdvances ==
    ASSUME NEW c \in Reading, NEW r \in Reading, NEW now \in Nat
    PROVE  /\ Absorb(c, r, now) \in Reading
           /\ Leq(c, Absorb(c, r, now))
           /\ Leq(r, Absorb(c, r, now))
           /\ Absorb(c, r, now).ms = Larger(Larger(c.ms, r.ms), now)
<1> DEFINE ms == Larger(Larger(c.ms, r.ms), now)
<1>1. /\ c.ms \in Nat /\ c.lg \in 0..MaxLogical
      /\ r.ms \in Nat /\ r.lg \in 0..MaxLogical
  BY DEF Reading
<1>2. ms \in Nat /\ c.ms <= ms /\ r.ms <= ms
  BY <1>1 DEF Larger
<1>3. PICK lg \in 0..MaxLogical : /\ Absorb(c, r, now) = [ms |-> ms, lg |-> lg]
                                  /\ c.ms = ms => c.lg <= lg
                                  /\ r.ms = ms => r.lg <= lg
  <2>1. CASE ms = c.ms /\ ms = r.ms
    <3>1. Larger(c.lg, r.lg) \in 0..MaxLogical /\ c.lg <= Larger(c.lg, r.lg)
                                               /\ r.lg <= Larger(c.lg, r.lg)
      BY <1>1, HlcBoundAssumption DEF Larger
    <3>2. Absorb(c, r, now) = [ms |-> ms, lg |-> Up(Larger(c.lg, r.lg))]
      BY <2>1 DEF Absorb
    <3>3. /\ Up(Larger(c.lg, r.lg)) \in 0..MaxLogical
          /\ Larger(c.lg, r.lg) <= Up(Larger(c.lg, r.lg))
      BY <3>1, UpBounded, HlcBoundAssumption
    <3>4. c.lg <= Up(Larger(c.lg, r.lg)) /\ r.lg <= Up(Larger(c.lg, r.lg))
      BY <1>1, <3>1, <3>3, HlcBoundAssumption
    <3> QED
      BY <3>2, <3>3, <3>4
  <2>2. CASE ms = c.ms /\ ms # r.ms
    <3>1. Absorb(c, r, now) = [ms |-> ms, lg |-> Up(c.lg)]
      BY <2>2 DEF Absorb
    <3>2. Up(c.lg) \in 0..MaxLogical /\ c.lg <= Up(c.lg)
      BY <1>1, UpBounded, HlcBoundAssumption
    <3> QED
      BY <2>2, <3>1, <3>2
  <2>3. CASE ms # c.ms /\ ms = r.ms
    <3>1. Absorb(c, r, now) = [ms |-> ms, lg |-> Up(r.lg)]
      BY <2>3 DEF Absorb
    <3>2. Up(r.lg) \in 0..MaxLogical /\ r.lg <= Up(r.lg)
      BY <1>1, UpBounded, HlcBoundAssumption
    <3> QED
      BY <2>3, <3>1, <3>2
  <2>4. CASE ms # c.ms /\ ms # r.ms
    <3>1. Absorb(c, r, now) = [ms |-> ms, lg |-> 0]
      BY <2>4 DEF Absorb
    <3> QED
      BY <2>4, <3>1, HlcBoundAssumption
  <2> QED
    BY <2>1, <2>2, <2>3, <2>4
<1> HIDE DEF ms
<1> DEFINE a == [ms |-> ms, lg |-> lg]
<1>4. a \in Reading /\ a.ms = ms /\ a.lg = lg
  BY <1>2, <1>3 DEF Reading
<1> HIDE DEF a
<1>5. Leq(c, a)
  BY <1>1, <1>2, <1>3, <1>4, LeqByParts, HlcBoundAssumption
<1>6. Leq(r, a)
  BY <1>1, <1>2, <1>3, <1>4, LeqByParts, HlcBoundAssumption
<1>7. Absorb(c, r, now) = a
  BY <1>3 DEF a
<1> QED
  BY <1>4, <1>5, <1>6, <1>7 DEF ms

(* raise_floor loses no cover, when the new floors hold one seq a device. *)
LEMMA RaisedCovers ==
    ASSUME NEW fs \in SUBSET Op, NEW new \in SUBSET Op,
           \A o, p \in new : o.dev = p.dev => o.seq = p.seq,
           NEW g \in fs \cup new
    PROVE  \E f \in Raised(fs, new) : f.dev = g.dev /\ g.seq <= f.seq
<1>1. \A o \in fs \cup new : o.seq \in Nat
  BY DEF Op
<1>2. CASE \E o \in new : o.dev = g.dev /\ o.seq >= g.seq
  <2>1. PICK o \in new : o.dev = g.dev /\ o.seq >= g.seq
    BY <1>2
  <2>2. CASE o \in Raised(fs, new)
    BY <1>1, <2>1, <2>2
  <2>3. CASE o \notin Raised(fs, new)
    <3>1. PICK f \in fs : f.dev = o.dev /\ f.seq >= o.seq
      BY <2>3 DEF Raised
    <3>2. \A p \in new : p.dev = f.dev => ~(p.seq > f.seq)
      BY <1>1, <2>1, <3>1
    <3>3. f \in Raised(fs, new)
      BY <3>1, <3>2 DEF Raised
    <3> QED
      BY <1>1, <2>1, <3>1, <3>3
  <2> QED
    BY <2>2, <2>3
<1>3. CASE ~\E o \in new : o.dev = g.dev /\ o.seq >= g.seq
  <2>1. g \in fs
    BY <1>1, <1>3
  <2>2. g \in Raised(fs, new)
    BY <1>1, <1>3, <2>1 DEF Raised
  <2> QED
    BY <1>1, <2>2
<1> QED
  BY <1>2, <1>3

-----------------------------------------------------------------------------
(* What the invariant gives of one device. *)

LEMMA DeviceFacts ==
    ASSUME HlcInv, NEW d \in Device
    PROVE  /\ clock[d] \in Reading /\ peak[d] \in Nat
           /\ clock[d].ms \in Nat /\ clock[d].ms <= peak[d] + MaxDrift
           /\ known[d] \subseteq ops /\ log[d] \subseteq ops
           /\ floor[d] \subseteq ops
           /\ \A q \in ops : /\ q \in Op /\ q.dev \in Device /\ q.seq \in Nat
                             /\ q.hlc \in Reading /\ q.hlc.ms \in Nat
BY HlcBoundAssumption DEF HlcInv, TypeOK, ClockSkew, Op, Reading

(* A step that moves only d's clock, forwards and within the drift. *)
LEMMA ClockMoves ==
    ASSUME HlcInv, NEW d \in Device, NEW now \in 0..MaxTime, NEW c \in Reading,
           Leq(clock[d], c), c.ms <= Larger(peak[d], now) + MaxDrift,
           ReadsWall(d, now), clock' = [clock EXCEPT ![d] = c]
    PROVE  /\ peak' \in [Device -> 0..MaxTime] /\ clock' \in [Device -> Reading]
           /\ ClockSkew'
           /\ \A e \in Device : \A q \in known[e] : Leq(q.hlc, clock'[e])
<1>1. peak \in [Device -> 0..MaxTime] /\ clock \in [Device -> Reading]
  BY DEF HlcInv, TypeOK
<1>2. Larger(peak[d], now) \in 0..MaxTime
  BY <1>1, HlcBoundAssumption DEF Larger
<1>3. peak' = [peak EXCEPT ![d] = Larger(peak[d], now)]
  BY DEF ReadsWall
<1>4. ClockSkew'
  BY <1>1, <1>2, <1>3 DEF HlcInv, ClockSkew
<1>5. ASSUME NEW e \in Device, NEW q \in known[e]
      PROVE  Leq(q.hlc, clock'[e])
  <2>1. Leq(q.hlc, clock[e]) /\ q.hlc \in Reading /\ clock[e] \in Reading
    BY <1>5, DeviceFacts DEF HlcInv, KnownBelowClock
  <2>2. CASE e = d
    BY <1>1, <2>1, <2>2, LeqTrans
  <2>3. CASE e # d
    BY <1>1, <2>1, <2>3
  <2> QED
    BY <2>2, <2>3
<1> QED
  BY <1>1, <1>2, <1>3, <1>4, <1>5

(* Where the clock gate lets a stamp in, the moved clock meets ClockMoves. *)
LEMMA GatePasses ==
    ASSUME HlcInv, NEW d \in Device, NEW now \in 0..MaxTime, NEW r \in Reading,
           ~Drifts(r, now)
    PROVE  /\ Absorb(clock[d], r, now) \in Reading
           /\ Leq(clock[d], Absorb(clock[d], r, now))
           /\ Leq(r, Absorb(clock[d], r, now))
           /\ Absorb(clock[d], r, now).ms <= Larger(peak[d], now) + MaxDrift
<1>1. clock[d] \in Reading /\ now \in Nat /\ r.ms \in Nat
  BY HlcBoundAssumption, DeviceFacts DEF Reading
<1>2. r.ms <= now + MaxDrift
  BY <1>1, HlcBoundAssumption DEF Drifts
<1>3. Larger(Larger(clock[d].ms, r.ms), now) <= Larger(peak[d], now) + MaxDrift
  BY <1>1, <1>2, DeviceFacts, HlcBoundAssumption DEF Larger
<1> QED
  BY <1>1, <1>3, AbsorbAdvances

LEMMA SendPasses ==
    ASSUME HlcInv, NEW d \in Device, NEW now \in 0..MaxTime
    PROVE  /\ Send(clock[d], now) \in Reading
           /\ Leq(clock[d], Send(clock[d], now))
           /\ Send(clock[d], now).ms <= Larger(peak[d], now) + MaxDrift
<1>1. clock[d] \in Reading /\ now \in Nat
  BY HlcBoundAssumption, DeviceFacts
<1>2. Larger(clock[d].ms, now) <= Larger(peak[d], now) + MaxDrift
  BY <1>1, DeviceFacts, HlcBoundAssumption DEF Larger
<1> QED
  BY <1>1, <1>2, SendAdvances

-----------------------------------------------------------------------------
(* Each step keeps the invariant. *)

LEMMA InitHlcInv ==
    Init => HlcInv
BY HlcBoundAssumption
   DEF Init, HlcInv, TypeOK, OwnOrder, OwnKnown, KnownBelowClock, KnownIsKept,
       KeptIsKnown, ClockSkew, Zero, Reading

LEMMA EmitHlcInv ==
    ASSUME HlcInv, NEW d \in Device, NEW now \in 0..MaxTime, NEW n \in 1..MaxOps,
           Emit(d, n, now)
    PROVE  HlcInv'
<1> DEFINE c == Send(clock[d], now)
           op == [dev |-> d, seq |-> n, hlc |-> c]
<1>1. c \in Reading /\ Leq(clock[d], c) /\ c.ms <= Larger(peak[d], now) + MaxDrift
  BY SendPasses
<1>2. /\ clock' = [clock EXCEPT ![d] = c] /\ ReadsWall(d, now)
      /\ log' = [log EXCEPT ![d] = log[d] \cup {op}]
      /\ ops' = ops \cup {op} /\ floor' = floor
      /\ known' = [known EXCEPT ![d] = known[d] \cup {op}]
      /\ \A q \in ops : q.dev = d => q.seq < n
  BY DEF Emit
<1> HIDE DEF c
<1>3. op \in Op /\ op.dev = d /\ op.seq = n /\ op.hlc = c
  BY <1>1, HlcBoundAssumption DEF Op
<1> HIDE DEF op
<1>4. /\ peak' \in [Device -> 0..MaxTime] /\ clock' \in [Device -> Reading]
      /\ ClockSkew'
      /\ \A e \in Device : \A q \in known[e] : Leq(q.hlc, clock'[e])
  BY <1>1, <1>2, ClockMoves
<1>5. /\ ops \subseteq Op /\ log \in [Device -> SUBSET ops]
      /\ floor \in [Device -> SUBSET ops] /\ known \in [Device -> SUBSET ops]
      /\ clock \in [Device -> Reading]
  BY DEF HlcInv, TypeOK
<1>6. TypeOK'
  BY <1>2, <1>3, <1>4, <1>5 DEF TypeOK
<1>7. \A q \in ops : q.dev = d => q.seq < n /\ Leq(q.hlc, c)
  BY <1>2, <1>4, <1>5 DEF HlcInv, OwnKnown
<1>8. OwnOrder'
  <2>1. Leq(op.hlc, op.hlc)
    BY DEF Leq
  <2>2. \A q \in ops : q.seq \in Nat
    BY <1>5 DEF Op
  <2> QED
    BY <1>2, <1>3, <1>7, <2>1, <2>2, HlcBoundAssumption DEF HlcInv, OwnOrder
<1>9. OwnKnown'
  BY <1>2, <1>3, <1>5 DEF HlcInv, OwnKnown, Op
<1>10. KnownBelowClock'
  BY <1>2, <1>3, <1>4, <1>5 DEF KnownBelowClock, Leq
<1>11. KnownIsKept' /\ KeptIsKnown'
  BY <1>2, <1>5 DEF HlcInv, KnownIsKept, KeptIsKnown, Covered
<1> QED
  BY <1>4, <1>6, <1>8, <1>9, <1>10, <1>11 DEF HlcInv

(* A step that moves d's clock and adds nothing: a rollback. *)
LEMMA RollbackHlcInv ==
    ASSUME HlcInv, NEW d \in Device, NEW now \in 0..MaxTime, NEW c \in Reading,
           Leq(clock[d], c), c.ms <= Larger(peak[d], now) + MaxDrift,
           ReadsWall(d, now), clock' = [clock EXCEPT ![d] = c],
           UNCHANGED <<log, floor, ops, known>>
    PROVE  HlcInv'
<1>1. /\ peak' \in [Device -> 0..MaxTime] /\ clock' \in [Device -> Reading]
      /\ ClockSkew'
      /\ \A e \in Device : \A q \in known[e] : Leq(q.hlc, clock'[e])
  BY ClockMoves
<1>2. TypeOK' /\ OwnOrder' /\ OwnKnown'
  BY <1>1 DEF HlcInv, TypeOK, OwnOrder, OwnKnown
<1>3. KnownBelowClock'
  BY <1>1 DEF KnownBelowClock
<1>4. KnownIsKept' /\ KeptIsKnown'
  BY DEF HlcInv, KnownIsKept, KeptIsKnown, Covered
<1> QED
  BY <1>1, <1>2, <1>3, <1>4 DEF HlcInv

LEMMA DeliverHlcInv ==
    ASSUME HlcInv, NEW d \in Device, NEW now \in 0..MaxTime, NEW op \in ops,
           Deliver(d, op, now)
    PROVE  HlcInv'
<1> DEFINE c == Absorb(clock[d], op.hlc, now)
<1>1. op.hlc \in Reading
  BY DeviceFacts
<1>2. /\ c \in Reading /\ Leq(clock[d], c) /\ Leq(op.hlc, c)
      /\ c.ms <= Larger(peak[d], now) + MaxDrift
  BY <1>1, GatePasses DEF Deliver
<1>3. /\ clock' = [clock EXCEPT ![d] = c] /\ ReadsWall(d, now)
      /\ log' = [log EXCEPT ![d] = IF Covered(d, op) THEN log[d]
                                   ELSE log[d] \cup {op}]
      /\ ops' = ops /\ floor' = floor
      /\ known' = [known EXCEPT ![d] = known[d] \cup {op}]
  BY DEF Deliver
<1> HIDE DEF c
<1>4. /\ peak' \in [Device -> 0..MaxTime] /\ clock' \in [Device -> Reading]
      /\ ClockSkew'
      /\ \A e \in Device : \A q \in known[e] : Leq(q.hlc, clock'[e])
  BY <1>2, <1>3, ClockMoves
<1>5. /\ ops \subseteq Op /\ log \in [Device -> SUBSET ops]
      /\ floor \in [Device -> SUBSET ops] /\ known \in [Device -> SUBSET ops]
      /\ clock \in [Device -> Reading]
  BY DEF HlcInv, TypeOK
<1>6. TypeOK'
  BY <1>3, <1>4, <1>5 DEF TypeOK
<1>7. OwnOrder' /\ OwnKnown'
  BY <1>3, <1>5 DEF HlcInv, OwnOrder, OwnKnown, Op
<1>8. KnownBelowClock'
  BY <1>2, <1>3, <1>4, <1>5 DEF KnownBelowClock
<1>9. KnownIsKept' /\ KeptIsKnown'
  BY <1>3, <1>5 DEF HlcInv, KnownIsKept, KeptIsKnown, Covered
<1> QED
  BY <1>4, <1>6, <1>7, <1>8, <1>9 DEF HlcInv

(* prime_hlc: the greatest durable stamp is above everything known, for an *)
(* op dropped from the log is below a floor of its own device.             *)
LEMMA RestartHlcInv ==
    ASSUME HlcInv, NEW d \in Device, Restart(d)
    PROVE  HlcInv'
<1>1. PICK c \in Durable(d) : /\ \A r \in Durable(d) : Leq(r, c)
                              /\ clock' = [clock EXCEPT ![d] = c]
  BY DEF Restart
<1>2. UNCHANGED <<log, floor, ops, known, peak>>
  BY DEF Restart
<1>3. c = Zero \/ \E op \in known[d] : c = op.hlc
  BY <1>1 DEF Durable, HlcInv, KeptIsKnown
<1>4. Zero \in Reading /\ Zero.ms = 0
  BY HlcBoundAssumption DEF Zero, Reading
<1>5. c \in Reading /\ c.ms <= peak[d] + MaxDrift
  <2>1. CASE c = Zero
    BY <1>4, <2>1, DeviceFacts, HlcBoundAssumption
  <2>2. CASE \E op \in known[d] : c = op.hlc
    <3>1. c \in Reading /\ Leq(c, clock[d])
      BY <2>2, DeviceFacts DEF HlcInv, KnownBelowClock
    <3>2. c.ms \in Nat /\ c.ms <= clock[d].ms
      BY <3>1, DeviceFacts DEF Leq, Lt, Reading
    <3> QED
      BY <3>1, <3>2, DeviceFacts, HlcBoundAssumption
  <2> QED
    BY <1>3, <2>1, <2>2
<1>6. ASSUME NEW q \in known[d]
      PROVE  Leq(q.hlc, c)
  <2>1. CASE q \in log[d]
    BY <1>1, <2>1 DEF Durable
  <2>2. CASE Covered(d, q)
    <3>1. PICK f \in floor[d] : f.dev = q.dev /\ q.seq <= f.seq
      BY <2>2 DEF Covered
    <3>2. Leq(f.hlc, c)
      BY <1>1, <3>1 DEF Durable
    <3>3. /\ q \in ops /\ f \in ops /\ q.hlc \in Reading /\ f.hlc \in Reading
      BY <1>6, <3>1, DeviceFacts
    <3>4. Leq(q.hlc, f.hlc)
      BY <3>1, <3>3 DEF HlcInv, OwnOrder
    <3> QED
      BY <1>5, <3>2, <3>3, <3>4, LeqTrans
  <2> QED
    BY <1>6, <2>1, <2>2 DEF HlcInv, KnownIsKept
<1>7. clock \in [Device -> Reading]
  BY DEF HlcInv, TypeOK
<1>8. TypeOK' /\ OwnOrder' /\ OwnKnown'
  BY <1>1, <1>2, <1>5, <1>7 DEF HlcInv, TypeOK, OwnOrder, OwnKnown
<1>9. KnownBelowClock'
  BY <1>1, <1>2, <1>6, <1>7 DEF HlcInv, KnownBelowClock
<1>10. KnownIsKept' /\ KeptIsKnown'
  BY <1>2 DEF HlcInv, KnownIsKept, KeptIsKnown, Covered
<1>11. ClockSkew'
  BY <1>1, <1>2, <1>5, <1>7 DEF HlcInv, ClockSkew
<1> QED
  BY <1>8, <1>9, <1>10, <1>11 DEF HlcInv

LEMMA CompactHlcInv ==
    ASSUME HlcInv, NEW d \in Device, NEW target \in log[d],
           NEW dropped \in SUBSET log[d], Compact(d, target, dropped)
    PROVE  HlcInv'
<1>1. /\ floor' = [floor EXCEPT ![d] = Raised(floor[d], {target})]
      /\ log' = [log EXCEPT ![d] = log[d] \ dropped]
      /\ UNCHANGED <<clock, ops, known, peak>>
      /\ \A q \in dropped : q.dev = target.dev /\ q.seq <= target.seq
  BY DEF Compact
<1>2. /\ ops \subseteq Op /\ log \in [Device -> SUBSET ops]
      /\ floor \in [Device -> SUBSET ops] /\ known \in [Device -> SUBSET ops]
  BY DEF HlcInv, TypeOK
<1>3. floor[d] \in SUBSET Op /\ {target} \in SUBSET Op /\ target \in ops
  BY <1>2
<1>4. Raised(floor[d], {target}) \subseteq floor[d] \cup {target}
  BY DEF Raised
<1>5. TypeOK'
  BY <1>1, <1>2, <1>3, <1>4 DEF HlcInv, TypeOK
<1>6. OwnOrder' /\ OwnKnown' /\ KnownBelowClock' /\ ClockSkew'
  BY <1>1 DEF HlcInv, OwnOrder, OwnKnown, KnownBelowClock, ClockSkew
<1>7. \A g \in floor[d] \cup {target} :
        \E f \in Raised(floor[d], {target}) : f.dev = g.dev /\ g.seq <= f.seq
  BY <1>3, RaisedCovers
<1>8. KnownIsKept'
  <2> SUFFICES ASSUME NEW e \in Device, NEW q \in known[e]
               PROVE  q \in log'[e] \/ \E f \in floor'[e] : f.dev = q.dev
                                                           /\ q.seq <= f.seq
    BY <1>1 DEF KnownIsKept, Covered
  <2>1. CASE e # d
    BY <1>1, <1>2, <2>1 DEF HlcInv, KnownIsKept, Covered
  <2>2. CASE e = d
    <3>1. q \in log'[d] \/ \E g \in floor[d] \cup {target} : g.dev = q.dev
                                                            /\ q.seq <= g.seq
      BY <1>1, <1>2, <2>2 DEF HlcInv, KnownIsKept, Covered
    <3>2. ASSUME NEW g \in floor[d] \cup {target}, g.dev = q.dev, q.seq <= g.seq
          PROVE  \E f \in floor'[d] : f.dev = q.dev /\ q.seq <= f.seq
      <4>1. PICK f \in Raised(floor[d], {target}) : f.dev = g.dev /\ g.seq <= f.seq
        BY <1>7, <3>2
      <4>2. q.seq \in Nat /\ g.seq \in Nat /\ f.seq \in Nat
        <5>1. q \in Op /\ g \in Op /\ f \in Op
          BY <1>2, <1>3, <1>4, <3>2, <4>1
        <5> QED
          BY <5>1 DEF Op
      <4> QED
        BY <1>1, <1>2, <3>2, <4>1, <4>2
    <3> QED
      BY <2>2, <3>1, <3>2
  <2> QED
    BY <2>1, <2>2
<1>9. KeptIsKnown'
  BY <1>1, <1>2, <1>4 DEF HlcInv, KeptIsKnown
<1> QED
  BY <1>5, <1>6, <1>8, <1>9 DEF HlcInv

LEMMA JoinHlcInv ==
    ASSUME HlcInv, NEW d \in Device, NEW e \in Device, NEW now \in 0..MaxTime,
           JoinSnapshot(d, e, now)
    PROVE  HlcInv'
<1> DEFINE F == Frontier(e)
           joined == {q \in ops : \E o \in F : o.dev = q.dev /\ q.seq <= o.seq}
<1>1. PICK m \in F : /\ \A o \in F : Leq(o.hlc, m.hlc)
                     /\ ~Drifts(m.hlc, now)
                     /\ clock' = [clock EXCEPT ![d] = Absorb(clock[d], m.hlc, now)]
  BY DEF JoinSnapshot
<1>2. /\ ReadsWall(d, now)
      /\ floor' = [floor EXCEPT ![d] = Raised(floor[d], F)]
      /\ known' = [known EXCEPT ![d] = known[d] \cup joined]
      /\ UNCHANGED <<log, ops>>
  BY DEF JoinSnapshot
<1>3. /\ ops \subseteq Op /\ log \in [Device -> SUBSET ops]
      /\ floor \in [Device -> SUBSET ops] /\ known \in [Device -> SUBSET ops]
      /\ clock \in [Device -> Reading]
  BY DEF HlcInv, TypeOK
<1>4. F \subseteq ops /\ \A o, p \in F : o.dev = p.dev => o.seq = p.seq
  <2>1. F \subseteq log[e] \cup floor[e]
    BY DEF Frontier
  <2>2. F \subseteq ops
    BY <1>3, <2>1
  <2>3. \A o \in F : o.seq \in Nat
    BY <1>3, <2>2 DEF Op
  <2>4. \A o, p \in F : o.dev = p.dev => ~(p.seq > o.seq) /\ ~(o.seq > p.seq)
    BY DEF Frontier
  <2> HIDE DEF F
  <2> QED
    BY <2>2, <2>3, <2>4
<1> HIDE DEF F
<1> DEFINE c == Absorb(clock[d], m.hlc, now)
<1>5. m.hlc \in Reading /\ \A o \in F : o.hlc \in Reading
  BY <1>3, <1>4 DEF Op
<1>6. /\ c \in Reading /\ Leq(clock[d], c) /\ Leq(m.hlc, c)
      /\ c.ms <= Larger(peak[d], now) + MaxDrift
  BY <1>1, <1>5, GatePasses
<1> HIDE DEF c
<1>7. clock' = [clock EXCEPT ![d] = c]
  BY <1>1 DEF c
<1>8. /\ peak' \in [Device -> 0..MaxTime] /\ clock' \in [Device -> Reading]
      /\ ClockSkew'
      /\ \A x \in Device : \A q \in known[x] : Leq(q.hlc, clock'[x])
  BY <1>2, <1>6, <1>7, ClockMoves
<1>9. Raised(floor[d], F) \subseteq floor[d] \cup F
  BY DEF Raised
<1>10. TypeOK'
  BY <1>2, <1>3, <1>4, <1>8, <1>9 DEF TypeOK
<1>11. OwnOrder' /\ OwnKnown'
  BY <1>2, <1>3 DEF HlcInv, OwnOrder, OwnKnown, Op
<1>12. ASSUME NEW q \in joined
       PROVE  Leq(q.hlc, c)
  <2>1. PICK o \in F : o.dev = q.dev /\ q.seq <= o.seq
    BY <1>12
  <2>2. q \in ops /\ o \in ops /\ q.hlc \in Reading /\ o.hlc \in Reading
    BY <1>3, <1>4, <1>12 DEF Op
  <2>3. Leq(q.hlc, o.hlc)
    BY <2>1, <2>2 DEF HlcInv, OwnOrder
  <2>4. Leq(q.hlc, m.hlc)
    BY <1>1, <1>5, <2>2, <2>3, LeqTrans
  <2> QED
    BY <1>5, <1>6, <2>2, <2>4, LeqTrans
<1>13. KnownBelowClock'
  BY <1>2, <1>3, <1>7, <1>8, <1>12 DEF KnownBelowClock
<1>14. \A g \in floor[d] \cup F :
         \E f \in Raised(floor[d], F) : f.dev = g.dev /\ g.seq <= f.seq
  <2>1. floor[d] \in SUBSET Op /\ F \in SUBSET Op
    BY <1>3, <1>4
  <2> QED
    BY <1>4, <2>1, RaisedCovers
<1>15. KnownIsKept'
  <2> SUFFICES ASSUME NEW x \in Device, NEW q \in known'[x]
               PROVE  q \in log'[x] \/ \E f \in floor'[x] : f.dev = q.dev
                                                           /\ q.seq <= f.seq
    BY DEF KnownIsKept, Covered
  <2>1. CASE x # d
    BY <1>2, <1>3, <2>1 DEF HlcInv, KnownIsKept, Covered
  <2>2. CASE x = d
    <3>1. q \in log'[d] \/ \E g \in floor[d] \cup F : g.dev = q.dev
                                                     /\ q.seq <= g.seq
      BY <1>2, <1>3, <2>2 DEF HlcInv, KnownIsKept, Covered
    <3>2. ASSUME NEW g \in floor[d] \cup F, g.dev = q.dev, q.seq <= g.seq
          PROVE  \E f \in floor'[d] : f.dev = q.dev /\ q.seq <= f.seq
      <4>1. PICK f \in Raised(floor[d], F) : f.dev = g.dev /\ g.seq <= f.seq
        BY <1>14, <3>2
      <4>2. q \in ops
        BY <1>2, <1>3, <2>2
      <4>3. q \in Op /\ g \in Op /\ f \in Op
        BY <1>3, <1>4, <1>9, <3>2, <4>1, <4>2
      <4>4. q.seq \in Nat /\ g.seq \in Nat /\ f.seq \in Nat
        BY <4>3 DEF Op
      <4> QED
        BY <1>2, <1>3, <3>2, <4>1, <4>4
    <3> QED
      BY <2>2, <3>1, <3>2
  <2> QED
    BY <2>1, <2>2
<1>16. KeptIsKnown'
  <2>1. F \subseteq joined
    BY <1>3, <1>4 DEF Op
  <2> HIDE DEF joined
  <2> QED
    BY <1>2, <1>3, <1>9, <2>1 DEF HlcInv, KeptIsKnown
<1> QED
  BY <1>8, <1>10, <1>11, <1>13, <1>15, <1>16 DEF HlcInv

LEMMA NextHlcInv ==
    ASSUME HlcInv, [Next]_vars
    PROVE  HlcInv'
<1>1. CASE UNCHANGED vars
  BY <1>1 DEF vars, HlcInv, TypeOK, OwnOrder, OwnKnown, KnownBelowClock,
              KnownIsKept, KeptIsKnown, ClockSkew, Covered
<1>2. ASSUME NEW d \in Device, NEW now \in 0..MaxTime, NEW n \in 1..MaxOps,
             Emit(d, n, now)
      PROVE  HlcInv'
  BY <1>2, EmitHlcInv
<1>3. ASSUME NEW d \in Device, NEW now \in 0..MaxTime, EmitFails(d, now)
      PROVE  HlcInv'
  BY <1>3, SendPasses, RollbackHlcInv DEF EmitFails
<1>4. ASSUME NEW d \in Device, NEW now \in 0..MaxTime, NEW op \in ops,
             Deliver(d, op, now)
      PROVE  HlcInv'
  BY <1>4, DeliverHlcInv
<1>5. ASSUME NEW d \in Device, NEW now \in 0..MaxTime, NEW op \in ops,
             DeliverFails(d, op, now)
      PROVE  HlcInv'
  <2>1. op.hlc \in Reading
    BY <1>5, DeviceFacts
  <2> QED
    BY <1>5, <2>1, GatePasses, RollbackHlcInv DEF DeliverFails
<1>6. ASSUME NEW d \in Device, NEW now \in 0..MaxTime, NEW e \in Device,
             JoinSnapshot(d, e, now)
      PROVE  HlcInv'
  BY <1>6, JoinHlcInv
<1>7. ASSUME NEW d \in Device, Restart(d)
      PROVE  HlcInv'
  BY <1>7, RestartHlcInv
<1>8. ASSUME NEW d \in Device, NEW target \in log[d],
             NEW dropped \in SUBSET log[d], Compact(d, target, dropped)
      PROVE  HlcInv'
  BY <1>8, CompactHlcInv
<1> QED
  BY <1>1, <1>2, <1>3, <1>4, <1>5, <1>6, <1>7, <1>8 DEF Next

LEMMA HlcInvHolds ==
    Spec => []HlcInv
<1>1. HlcInv /\ [Next]_vars => HlcInv'
  BY NextHlcInv
<1> QED
  BY <1>1, InitHlcInv, PTL DEF Spec

-----------------------------------------------------------------------------
(***************************************************************************)
(* An op a device emits is stamped above every op it knew (MonotonicHlc    *)
(* and prime_hlc): SendAdvances over KnownBelowClock, for only Emit adds   *)
(* an op.                                                                  *)
(***************************************************************************)
THEOREM StampsNeverFallBehind ==
    Spec => StampsFollowCausality
<1> DEFINE A == \A op \in ops' \ ops : \A q \in known[op.dev] :
                  Lt(q.hlc, op.hlc) \/ (q.hlc = op.hlc /\ op.hlc.lg = MaxLogical)
<1>1. ASSUME HlcInv, [Next]_vars
      PROVE  A
  <2>1. CASE ops' = ops
    BY <2>1
  <2>2. ASSUME NEW d \in Device, NEW now \in 0..MaxTime, NEW n \in 1..MaxOps,
               Emit(d, n, now)
        PROVE  A
    <3> DEFINE c == Send(clock[d], now)
    <3>1. \A op \in ops' \ ops : op.dev = d /\ op.hlc = c
      BY <2>2 DEF Emit
    <3>2. clock[d] \in Reading /\ now \in Nat
      BY <1>1, DeviceFacts, HlcBoundAssumption
    <3>3. c \in Reading /\ (Lt(clock[d], c) \/ (clock[d] = c /\ c.lg = MaxLogical))
      BY <3>2, SendAdvances
    <3> HIDE DEF c
    <3>4. ASSUME NEW q \in known[d]
          PROVE  Lt(q.hlc, c) \/ (q.hlc = c /\ c.lg = MaxLogical)
      <4>1. q.hlc \in Reading /\ Leq(q.hlc, clock[d])
        BY <1>1, <3>4, DeviceFacts DEF HlcInv, KnownBelowClock
      <4> QED
        BY <3>2, <3>3, <4>1, HlcBoundAssumption DEF Leq, Lt, Reading
    <3> QED
      BY <3>1, <3>4
  <2> QED
    BY <1>1, <2>1, <2>2, ZenonT(40)
       DEF Next, vars, EmitFails, Deliver, DeliverFails, JoinSnapshot, Restart,
           Compact
<1>2. HlcInv /\ [Next]_vars => [A]_vars
  BY <1>1
<1> HIDE DEF A
<1>3. Spec => [][A]_vars
  BY <1>2, HlcInvHolds, PTL DEF Spec
<1> QED
  BY <1>3 DEF StampsFollowCausality, A

(***************************************************************************)
(* A fast clock does not spread (Hlc::receive's drift gate): ClockSkew,    *)
(* and the stamps of a device's own ops, which its clock has passed.       *)
(***************************************************************************)
THEOREM FastClocksDoNotSpread ==
    Spec => []SkewIsBounded
<1>1. ASSUME HlcInv
      PROVE  SkewIsBounded
  <2> SUFFICES ASSUME NEW d \in Device, NEW op \in ops, op.dev = d
               PROVE  op.hlc.ms <= peak[d] + MaxDrift
    BY <1>1, DeviceFacts DEF SkewIsBounded
  <2>1. Leq(op.hlc, clock[d])
    BY <1>1 DEF HlcInv, OwnKnown, KnownBelowClock
  <2>2. op.hlc.ms \in Nat /\ op.hlc.ms <= clock[d].ms
    BY <1>1, <2>1, DeviceFacts DEF Leq, Lt
  <2> QED
    BY <1>1, <2>2, DeviceFacts, HlcBoundAssumption
<1> QED
  BY <1>1, HlcInvHolds, PTL

=============================================================================
