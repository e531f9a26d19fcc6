-------------------------------- MODULE Hlc ---------------------------------
(***************************************************************************)
(* The hybrid logical clock of every device, crates/sunrise-cbor/src/      *)
(* hlc.rs, and how a vault keeps it: `MonotonicHlc` (config.rs) holds the  *)
(* reading in memory only, and `Engine::prime_hlc` restores it at open     *)
(* from the stamps in the op log and on the compaction floors.             *)
(*                                                                         *)
(* A reading is the pair (ms, lg) compared in that order; `lg` is a u32    *)
(* that saturates at MaxLogical.  A wall clock may stand still and may be  *)
(* set back, so `now`, what Clock::now_ms returns to a call, is any time.  *)
(* Devices emit ops, absorb each other's, fail after the clock moved,      *)
(* compact their logs, join snapshot records and restart.                  *)
(***************************************************************************)
EXTENDS Naturals, FiniteSets

CONSTANTS Device,
          MaxTime,     \* bound on wall clock readings
          MaxDrift,    \* MAX_DRIFT_MS
          MaxLogical,  \* u32::MAX
          MaxOps       \* bound on the ops of all devices

ASSUME HlcBoundAssumption == /\ MaxTime \in Nat /\ MaxDrift \in Nat
                             /\ MaxLogical \in Nat /\ MaxOps \in Nat

VARIABLES clock,  \* clock[d]: MonotonicHlc's state, lost in a restart
          log,    \* log[d]: the ops in d's op log
          floor,  \* floor[d]: its compaction_floor rows, as the op at each
          ops,    \* history: every op committed by its writer
          known,  \* history: known[d]: the ops d committed, applied or joined
          peak    \* history: peak[d]: the latest time d's wall clock showed

vars == <<clock, log, floor, ops, known, peak>>

Reading == [ms : Nat, lg : 0..MaxLogical]

Zero == [ms |-> 0, lg |-> 0]

Op == [dev : Device, seq : Nat, hlc : Reading]

\* Hlc's derived Ord.
Lt(a, b) == a.ms < b.ms \/ (a.ms = b.ms /\ a.lg < b.lg)
Leq(a, b) == a = b \/ Lt(a, b)

Larger(m, n) == IF m > n THEN m ELSE n

\* saturating_add(1) on the logical counter.
Up(lg) == IF lg < MaxLogical THEN lg + 1 ELSE MaxLogical

\* Hlc::send.
Send(c, now) == IF now > c.ms THEN [ms |-> now, lg |-> 0]
                ELSE [ms |-> c.ms, lg |-> Up(c.lg)]

\* Mutant of Drifts: nothing is too far ahead.
NeverDrifts(r, now) == FALSE

\* Hlc::receive's refusal.
Drifts(r, now) == r.ms > now + MaxDrift

\* Hlc::receive: max(local, received, now) + 1.
Absorb(c, r, now) ==
    LET ms == Larger(Larger(c.ms, r.ms), now)
    IN  [ms |-> ms,
         lg |-> CASE ms = c.ms /\ ms = r.ms -> Up(Larger(c.lg, r.lg))
                  [] ms = c.ms /\ ms # r.ms -> Up(c.lg)
                  [] ms # c.ms /\ ms = r.ms -> Up(r.lg)
                  [] OTHER                  -> 0]

\* Mutant of Durable: the floors are not read.
DurableInLog(d) == {op.hlc : op \in log[d]} \cup {Zero}

\* The stamps prime_hlc reads, and the zero reading it starts from.
Durable(d) == {op.hlc : op \in log[d] \cup floor[d]} \cup {Zero}

Covered(d, op) == \E f \in floor[d] : f.dev = op.dev /\ op.seq <= f.seq

\* d's cursor for op's device has reached op: its prefix is held or covered
\* (upsert_sync_cursor).
Reached(d, op) ==
    \A q \in ops : q.dev = op.dev /\ q.seq <= op.seq => q \in log[d] \/ Covered(d, q)

-----------------------------------------------------------------------------
\* d reads its wall clock.
ReadsWall(d, now) == peak' = [peak EXCEPT ![d] = Larger(@, now)]

\* A command stamps an op with `send`, at the device's next seq, and commits.
Emit(d, n, now) ==
    /\ Cardinality(ops) < MaxOps
    /\ \A op \in ops : op.dev = d => op.seq < n
    /\ n = 1 \/ \E op \in ops : op.dev = d /\ op.seq = n - 1
    /\ ReadsWall(d, now)
    /\ LET c == Send(clock[d], now)
           op == [dev |-> d, seq |-> n, hlc |-> c]
       IN  /\ clock' = [clock EXCEPT ![d] = c]
           /\ log' = [log EXCEPT ![d] = @ \cup {op}]
           /\ ops' = ops \cup {op}
           /\ known' = [known EXCEPT ![d] = @ \cup {op}]
    /\ UNCHANGED floor

\* The transaction rolls back after the stamp was taken.
EmitFails(d, now) ==
    /\ ReadsWall(d, now)
    /\ clock' = [clock EXCEPT ![d] = Send(@, now)]
    /\ UNCHANGED <<log, floor, ops, known>>

\* apply_remote_all and park_op_as: the clock gate, then the log.  The gate
\* comes first, so a duplicate moves the clock too; a refused op leaves no
\* trace.
Deliver(d, op, now) ==
    /\ ~Drifts(op.hlc, now)
    /\ ReadsWall(d, now)
    /\ clock' = [clock EXCEPT ![d] = Absorb(@, op.hlc, now)]
    /\ log' = [log EXCEPT ![d] = IF Covered(d, op) THEN @ ELSE @ \cup {op}]
    /\ known' = [known EXCEPT ![d] = @ \cup {op}]
    /\ UNCHANGED <<floor, ops>>

DeliverFails(d, op, now) ==
    /\ ~Drifts(op.hlc, now)
    /\ ReadsWall(d, now)
    /\ clock' = [clock EXCEPT ![d] = Absorb(@, op.hlc, now)]
    /\ UNCHANGED <<log, floor, ops, known>>

\* The process ends, and the vault is opened again: prime_hlc over the zero
\* reading of a new MonotonicHlc.
Restart(d) ==
    /\ \E c \in Durable(d) : /\ \A r \in Durable(d) : Leq(r, c)
                             /\ clock' = [clock EXCEPT ![d] = c]
    /\ UNCHANGED <<log, floor, ops, known, peak>>

\* raise_floor: one row a device, and a floor never falls.
Raised(fs, new) ==
    {f \in fs : ~\E o \in new : o.dev = f.dev /\ o.seq > f.seq}
        \cup {o \in new : ~\E f \in fs : f.dev = o.dev /\ f.seq >= o.seq}

\* compact_stream: a floor rises to an op strictly below its device's cursor
\* (which, by age and acknowledgement, is left open), and ops at or below it
\* are deleted (which, by kind, is left open).
Compact(d, target, dropped) ==
    /\ target \in log[d] /\ ~Covered(d, target)
    /\ \E tip \in log[d] : /\ tip.dev = target.dev /\ tip.seq > target.seq
                           /\ Reached(d, tip)
    /\ dropped \subseteq {op \in log[d] : /\ op.dev = target.dev
                                          /\ op.seq <= target.seq}
    /\ floor' = [floor EXCEPT ![d] = Raised(@, {target})]
    /\ log' = [log EXCEPT ![d] = @ \ dropped]
    /\ UNCHANGED <<clock, ops, known, peak>>

\* snapshot_record writes none while an op is held above its device's cursor.
NoneAbove(d) == \A op \in log[d] : Reached(d, op)

\* The frontier of d's record: the last op of each device.
Frontier(d) ==
    LET held == log[d] \cup floor[d]
    IN  {o \in held : ~\E p \in held : p.dev = o.dev /\ p.seq > o.seq}

\* apply_snapshot of a record e wrote, if it adds anything: the clock gate on
\* the greatest stamp of its frontier, then the floors.  The retained ops in
\* between go through the receive path, each in a transaction of its own:
\* they are Deliver steps before this one.  A record refused after the gate
\* moved the clock is a DeliverFails of the greatest stamp's op.
JoinSnapshot(d, e, now) ==
    /\ NoneAbove(e)
    /\ \E o \in Frontier(e) : ~Reached(d, o)
    /\ \E m \in Frontier(e) :
         /\ \A o \in Frontier(e) : Leq(o.hlc, m.hlc)
         /\ ~Drifts(m.hlc, now)
         /\ clock' = [clock EXCEPT ![d] = Absorb(@, m.hlc, now)]
    /\ ReadsWall(d, now)
    /\ floor' = [floor EXCEPT ![d] = Raised(@, Frontier(e))]
    /\ known' = [known EXCEPT ![d] = @ \cup
                   {q \in ops : \E o \in Frontier(e) :
                                   o.dev = q.dev /\ q.seq <= o.seq}]
    /\ UNCHANGED <<log, ops>>

-----------------------------------------------------------------------------
Init ==
    /\ clock = [d \in Device |-> Zero]
    /\ log = [d \in Device |-> {}]
    /\ floor = [d \in Device |-> {}]
    /\ ops = {}
    /\ known = [d \in Device |-> {}]
    /\ peak = [d \in Device |-> 0]

Next ==
    \E d \in Device :
        \/ \E now \in 0..MaxTime :
              \/ \E n \in 1..MaxOps : Emit(d, n, now)
              \/ EmitFails(d, now)
              \/ \E op \in ops : Deliver(d, op, now) \/ DeliverFails(d, op, now)
              \/ \E e \in Device : JoinSnapshot(d, e, now)
        \/ Restart(d)
        \/ \E target \in log[d], dropped \in SUBSET log[d] :
              Compact(d, target, dropped)

Spec == Init /\ [][Next]_vars

-----------------------------------------------------------------------------
(***************************************************************************)
(* The types: a counter stays within its width (saturating_add), and what  *)
(* a device holds or knows was committed by its writer.                    *)
(***************************************************************************)
TypeOK ==
    /\ peak \in [Device -> 0..MaxTime]
    /\ clock \in [Device -> Reading]
    /\ ops \subseteq Op
    /\ log \in [Device -> SUBSET ops]
    /\ floor \in [Device -> SUBSET ops]
    /\ known \in [Device -> SUBSET ops]

(***************************************************************************)
(* hlc.rs's two invariants, and config.rs "Why restoring it is not         *)
(* optional": an op a device emits is stamped above every op it ever       *)
(* committed, applied or joined, through restarts, wall clocks set back,   *)
(* compaction and snapshots.  With a saturated counter it may tie, and is  *)
(* never below.                                                            *)
(***************************************************************************)
StampsFollowCausality ==
    [][\A op \in ops' \ ops : \A q \in known[op.dev] :
         Lt(q.hlc, op.hlc) \/ (q.hlc = op.hlc /\ op.hlc.lg = MaxLogical)]_vars

(***************************************************************************)
(* Hlc::receive: a fast clock does not spread.  No device's reading, and   *)
(* so no stamp it emits, is ever more than MAX_DRIFT_MS past the latest    *)
(* time its own wall clock showed, through any chain of peers.             *)
(***************************************************************************)
SkewIsBounded ==
    \A d \in Device :
        /\ clock[d].ms <= peak[d] + MaxDrift
        /\ \A op \in ops : op.dev = d => op.hlc.ms <= peak[d] + MaxDrift
=============================================================================
