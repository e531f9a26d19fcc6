------------------------------ MODULE RelayLog ------------------------------
(***************************************************************************)
(* The relay's durable log of one channel (one account's one stream),      *)
(* crates/sunrise-server/src/relay_log: what `relay_append` stores, what   *)
(* retention deletes and remembers, and what `relay_replay_after` answers  *)
(* a subscriber's cursors with.                                            *)
(*                                                                         *)
(* An op is named by its cleartext routing head (device, seq), the only    *)
(* part of it the relay reads.  A frame is a set of ops: the size of a     *)
(* frame is the number of its ops, and the order inside it decides         *)
(* nothing here.  Ops whose head does not parse are left out: no client    *)
(* seals one.                                                              *)
(***************************************************************************)
EXTENDS Naturals, FiniteSets, FiniteSetsExt

CONSTANTS Device,      \* the devices of the account
          MaxSeq,      \* bound on the ops of one device
          MaxBytes,    \* DurableCaps.max_bytes, in ops
          MaxAppends   \* bound on the frames stored in a behaviour

ASSUME RelayDeviceAssumption == IsFiniteSet(Device)
ASSUME RelayBoundAssumption ==
    MaxSeq \in Nat /\ MaxBytes \in Nat /\ MaxAppends \in Nat

VARIABLES frames,   \* relay_frames with their relay_batches rows
          lastId,   \* the last relay_frames.id given out
          evicted,  \* relay_evicted: device -> evicted_through
          stored    \* history: every op ever durably appended

relayVars == <<frames, lastId, evicted, stored>>

Op == [dev : Device, seq : 1..MaxSeq]

Batch == (SUBSET Op) \ {{}}

Cursors == [Device -> 0..MaxSeq]

SeqsOf(ops, d) == {op.seq : op \in {op \in ops : op.dev = d}}

\* Mutant of Duplicate: keyed on the sender's batch number.
DuplicateByNumber(ops, batchId) == \E f \in frames : f.batch = batchId

\* The dedup key is the content of the whole batch, never its batch_id.  A
\* batch row dies with its frame, so an evicted batch is fresh again.
Duplicate(ops, batchId) == \E f \in frames : f.ops = ops

-----------------------------------------------------------------------------
(* Retention: evict, run inside the append's transaction. *)

\* What the frames no older than f hold, f's own bytes included.
BytesFrom(F, f) ==
    MapThenSumSet(LAMBDA g : Cardinality(g.ops), {g \in F : g.id >= f.id})

\* The size bound drops the oldest frame while the rest is over budget, and
\* never the newest.
OverBudget(F) == {f \in F : /\ \E g \in F : g.id > f.id
                            /\ BytesFrom(F, f) > MaxBytes}

\* Mutant of EvictedThrough: the watermark of the last frame deleted stays.
EvictedThroughLast(d, doomed) ==
    LET seqs == SeqsOf(UNION {f.ops : f \in doomed}, d)
    IN  IF seqs = {} THEN evicted[d] ELSE Max(seqs)

\* relay_evicted after the deletion: MAX over the deleted frames' heads.
EvictedThrough(d, doomed) ==
    Max({evicted[d]} \cup SeqsOf(UNION {f.ops : f \in doomed}, d))

\* The age bound, by the server's wall clock, may take any older frame.
Retain(new, expired) ==
    LET F == frames \cup {new}
        doomed == expired \cup OverBudget(F)
    IN  /\ frames' = F \ doomed
        /\ evicted' = [d \in Device |-> EvictedThrough(d, doomed)]

-----------------------------------------------------------------------------
(***************************************************************************)
(* relay_append: nothing for a batch the channel holds (Duplicate), else   *)
(* the frame, its heads, its batch row and the eviction, in one            *)
(* transaction (Fresh).                                                    *)
(***************************************************************************)
AppendFresh(ops, batchId, expired) ==
    /\ ~Duplicate(ops, batchId)
    /\ lastId < MaxAppends
    /\ lastId' = lastId + 1
    /\ Retain([id |-> lastId + 1, ops |-> ops, batch |-> batchId], expired)
    /\ stored' = stored \cup ops

AppendDuplicate(ops, batchId) ==
    /\ Duplicate(ops, batchId)
    /\ UNCHANGED relayVars

\* Mutant of Covered: one head at or below its cursor is enough.
CoveredBySome(ops, c) == \E op \in ops : op.seq <= c[op.dev]

\* covered: every head of the frame is at or below the cursor of its device.
Covered(ops, c) == \A op \in ops : op.seq <= c[op.dev]

\* relay_replay_after from the cursors c: the frames, and the devices whose
\* gap is reported.
Replay(c) == {f \in frames : ~Covered(f.ops, c)}

Gaps(c) == {d \in Device : c[d] < evicted[d]}

-----------------------------------------------------------------------------
RelayInit ==
    /\ frames = {}
    /\ lastId = 0
    /\ evicted = [d \in Device |-> 0]
    /\ stored = {}

-----------------------------------------------------------------------------
Frame == [id : 1..MaxAppends, ops : Batch, batch : Nat]

(***************************************************************************)
(* The types of the relay's tables; a frame's id is its own and no greater *)
(* than the last one given out (relay_append).                             *)
(***************************************************************************)
RelayTypeOK ==
    /\ frames \subseteq Frame
    /\ lastId \in 0..MaxAppends
    /\ \A f, g \in frames : f.id = g.id => f = g
    /\ \A f \in frames : f.id <= lastId
    /\ evicted \in Cursors
    /\ stored \subseteq Op

\* An op the relay accepted is on disk or below its device's watermark.
Accounted ==
    \A op \in stored : \/ \E f \in frames : op \in f.ops
                       \/ op.seq <= evicted[op.dev]

(***************************************************************************)
(* relay_log/mod.rs: a subscriber is never told it is caught up while ops  *)
(* are missing.  Whatever cursors it names, every op the relay ever acked  *)
(* is at or below its cursor, in the replay, or its device's gap is        *)
(* reported, across any evictions and any re-sends in other partitions.    *)
(***************************************************************************)
ReplayIsComplete ==
    \A c \in Cursors : \A op \in stored :
        \/ op.seq <= c[op.dev]
        \/ \E f \in Replay(c) : op \in f.ops
        \/ op.dev \in Gaps(c)

(***************************************************************************)
(* append.rs: a watermark never falls, and what it passed stays passed: a  *)
(* subscriber that was told of a gap is told of it again until its cursor  *)
(* passes it, and an op leaves the disk only below the watermark.          *)
(***************************************************************************)
LossIsRemembered ==
    [][/\ \A d \in Device : evicted[d] <= evicted'[d]
       /\ \A f \in frames : \A op \in f.ops :
            \/ \E g \in frames' : op \in g.ops
            \/ op.seq <= evicted'[op.dev]]_relayVars
=============================================================================
