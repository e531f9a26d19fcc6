# TLA+ verification of Sunrise's merge, sync and trust core

Sunrise is a local-first task manager. Every device of an account keeps the whole
vault in SQLite, commands append encrypted ops to a log and fold them into merge
tables, and a relay that cannot read the ops stores and forwards them. What a user
trusts is therefore spread over devices that never agree on a clock, write without
seeing each other, and exchange ops in any order through a server that forgets old
ones. These modules model that core, check it with TLC on small instances, and prove
every safety property of it with TLAPS for every value of the constants.

Paths below are relative to `src/crates/`.

## 1. The system

### Parts, their state and their operations

| Part | Source | State | Operations | What makes it correct |
| --- | --- | --- | --- | --- |
| Version order of an entity | `sunrise-core/src/engine/merge/versions.rs` | versions (op, parents), a frontier per version, the heads | `admit_version`, `recompute` for late arrivals | stored frontiers and heads are those of the set of versions applied, and the order is causality |
| Per-field merge | `engine/merge/{mod,register,state,project}.rs`, `engine/write.rs` | register members, OR-set adds and removes, counter base and deltas, map entries, the legacy floor, create/head stamps | `append_and_fold` (local), `merge_op` (both), `project`, `prune_below_floor` | equal op sets give equal rows; no write vanishes without one that saw it; nothing pruned comes back |
| Rebuild | `engine/rebuild.rs` | none of its own | refold the log in stamp order | leaves every projection table as it was |
| Hybrid logical clock | `sunrise-cbor/src/hlc.rs`, `config.rs`, `engine/mod.rs` | one reading, in memory | `send`, `observe`, `prime` at open | stamps follow causality through restarts, rollbacks, compaction; a fast clock does not spread |
| Compaction, snapshots | `engine/{compaction,snapshot}.rs`, `snapshot_sync.rs` | a floor per (stream, device); the record the relay pins | `compact_stream`, `snapshot_record`, `apply_snapshot` | what is deleted was acknowledged or is in the record |
| Relay durable log | `sunrise-server/src/relay_log/` | frames, their per-device heads, batch hashes, eviction watermarks | `relay_append`, `evict`, `relay_replay_after` | no answer hides an op that was accepted |
| Relay hub, event streams | `relay.rs`, `api/sync/{publish,stream,cursors}.rs` | broadcast channels, open streams | publish, subscribe, replay then live | nothing falls between replay and live frames |
| Sync driver | `sunrise-core/src/sync_driver.rs` and `sync_driver/` | a session: in-flight batches, deadlines, what was caught up, the reported state | connect, drain, ack, retransmit, resync, recover from a gap, end | acked means stored; everything is delivered; `Live` is not claimed over a known loss |
| SSE transport | `sunrise-sync/src/sse/` | a queue of replies, a stream, its resume id | `send_frame`, `recv_frame` | replies before events; a Subscribe forgets the resume id |
| Receive pipeline | `engine/{sync,park}.rs` | the op log, deferred and parked ops, cursors | `apply_remote_all`, defer, park, drain, replay at open | each op is folded once; a cursor never passes a hole |
| Op groups | `engine/groups.rs` | a row per member, held or applied | fold all or nothing, complete after a join | what is folded depends on the ops present, not on their order |
| Op chains | `engine/chain.rs` | a hash and a root per row, expectations, fork rows, claims | check links, fold the chain, publish and judge digests | evidence is true, and a divergence is noticed |
| Revocation | `engine/revocation.rs`, `relay_intents.rs` | the ledger of revoke ops, the register, read bounds, intents | `revoke_device`, `apply_device_revoke`, refold, cap, release, drain | every order of arrival judges alike; a bound stays; the relay is told |
| Key epochs | `engine/oplog.rs`, `engine/sync.rs`, `keychain/` | stream keys, recorded recipients | mint, seal, absorb, backfill on a cert, pair | no device is left without a key of an epoch |
| Credential | `sunrise-sync/src/credential.rs`, `sync_driver.rs`, server `api/sync/` | a token and its version, a watch, the relay's session row | set, read, mark, refresh in band, recheck | no renewal is lost; a revoked device is cut off |
| Identity, pairing slots, blobs, rate limits, account deletion | `engine/identity*.rs`, `sunrise-pairing`, `blob_*`, server `api/` | chains, slots, chunks and ledger rows | per service | section 6 |

PROJECT.json lists every part with its status, those out of scope too (user
interfaces, bindings, telemetry, encodings, SQLite itself).

### How they interact

A command builds a `Patch` from what it reads (`write.rs`), stamps it with `send`,
and one transaction logs it, folds it and puts it in the outbox. The driver's pump
reads the outbox, posts batches, and keeps them in flight until the relay acks. The
relay appends a batch (evicting in the same transaction), fans it out to the live
receivers of open streams, and acks. A stream takes its receiver first, then reads
the durable log from the cursors the device subscribed with, sends the gap, the
replay and `CaughtUp`, and forwards. The receiving driver passes each op to
`apply_remote_all`: the clock gate, the log, the fold, the cursor. When the relay
reports a gap the driver joins the snapshot record a compactor pinned, and subscribes
again.

Control ops (certs, key envelopes, revocations) travel in the vault-meta stream through
the same pipeline. A key that arrives drains the ops that waited for it; a cert that
arrives makes each device seal to the new one the epochs it may be missing; a revocation
bounds its target's reads, rotates the keys without it, and queues an intent that the
driver delivers to the relay when it is woken or starts a session.

### What is hard

Ops of one device arrive out of order and after ops that name them as parents, so
stored frontiers must be corrected. Wall clocks stand still and are set back, while
the clock's reading is lost in a restart and the ops that carried it may be compacted
away. Batch numbers restart with every session and a re-read outbox cuts the same ops
into other batches. The relay evicts while it appends. A stream opens while a batch is
published. A broadcast receiver that lags loses frames silently. Recovery from a gap
happens in a session that may already be `Live`. Ops wait for keys in a buffer that
evicts, for builds that are not released, and for members of their group that a snapshot
may bring. Two vaults sign under one device id after a restore. Devices revoke each
other, and their ops arrive in any order. A token is replaced between being read and
being marked as read. PROJECT.json, "hazards", lists these
at their lines.

## 2. Modules

| Module | What it is |
| --- | --- |
| `Stamps` | `Stamp` as the pair (hlc, device) and its order; the greatest and least of a set |
| `VersionDag` | EXTENDS Stamps. `versions.rs`: frontiers, `Precedes`, admission on time and late |
| `EntityMerge` | EXTENDS VersionDag. One entity on every device: the ops commands write, the fold, the projection; actions `Create`, `Edit`, `Receive` |
| `EntityMergeProps` | the properties, stated without the incremental machinery |
| `MCEntityMerge` | the edits of the instances |
| `EntityMergeProofs` | proofs about the merge: fields, the version order, registers, convergence, rebuild, causality |
| `RelayLog` | the relay's durable log of one stream: `AppendFresh` and `AppendDuplicate`, the parts of OpSync's actions that write it; `Replay` and `Gaps` as functions of cursors |
| `OpSync` | EXTENDS RelayLog. Drivers, transports, streams and the relay's publish, for one stream of a vault |
| `OpSyncProps` | its properties, and the refinement mapping to OpDelivery |
| `OpSyncProofs` | proofs about the relay's log, then about acks, streams and reported losses, and of the refinement |
| `OpDelivery` | what sync promises an app, in four actions without relay, session or stream |
| `Hlc` | the clocks of all devices with restarts, rollbacks, compaction and snapshot joins |
| `HlcProofs` | proofs about the clocks |
| `OpGroups`, `MCOpGroups` | groups over several streams on several replicas, with compaction, snapshots and rebuilds |
| `OpGroupsProofs` | proofs about groups |
| `Receive`, `MCReceive` | one replica's receive pipeline against a relay that re-sends above the cursors |
| `ReceiveProofs` | proofs about cursors and the log |
| `OpChains`, `MCOpChains` | op chains, fork evidence, digests and floors in one stream |
| `OpChainsProofs` | proofs about links, digests, evidence and floors |
| `Credential` | one device's token from the app to the relay's session row |
| `RevocationFold` | which devices a set of revoke ops revokes |
| `Revocation` | EXTENDS RevocationFold. One vault's revocation ledger, register, bounds and intents, and the driver that drains them |
| `RevocationProofs` | proofs about the ledger, the register and the bounds |
| `KeyEpochs` | EXTENDS RevocationFold. The keys of one stream on all devices of an account |
| `AccessProofs` | EXTENDS KeyEpochs, Credential. Proofs about what a device needs to take part: keys and a credential |

Abstract specifications: `OpDelivery` for the whole of sync, which OpSync implements
(`DeliverySpec`: the log of each device is `held`, the outbox `unacked`, what the relay
ever accepted `durable`); `Reach`, `Past` and `FieldsFollow`, which define the merge as
functions of sets of ops; `ReplayIsComplete`, what the relay's answer promises without
frames or heads; `LedgerOf`, the revocation ledger as a function of the ops.

### Correspondence with the code

**EntityMerge.** `rep[d]` is a device's merge tables for the entity: `versions` with
`frontier` and `heads` (merge_versions, merge_frontiers), `members` (merge_registers
and merge_conflicts, winner and losers together), `adds`, `removes`, `deltas`, `base`,
`entries`, and the Meta row (`legacy`, `create`, `head`, `patched`). An action is one
transaction: `AppendAndFold` logs, advances the clock and folds with `MergeOp`. `MergeOp`
keeps the code's order: the floor rises and prunes, the version is admitted, registers
are refiltered when the admission refined the order, then the op's own writes are
offered. A `Patch`'s parents are the heads its writer held; one that would change nothing is
not written, unless it forces a register as a defer does with the plan (`Forced`), and a
full-state op is written whatever it says. `Receive` is the fold of
`apply_remote_all`, with its idempotence gate. The stamp's stream and seq components
are left out: an entity's ops are in one stream, and a device's hlc is never reused.
A pass over rows in stamp order (`recompute`, the refold of a rebuild) is a recursive
function on the stamps: what the pass leaves at a stamp, from what it left below it.
Values are small naturals, 0 for a write of *absent*.

**RelayLog.** `frames` carry the set of ops rather than bytes and heads; a head is the
greatest seq of a device in the frame. `Duplicate` is the hash of the batch's sealed
ops, never its batch number. The budget counts ops. The age bound may take any
older frames (`expired`), since a server's clock may jump; `Expires` says whether it does,
and an instance about liveness turns it off.

**OpSync.** `sess[d]` is the stack of `session`; it disappears with it (`EndSession`),
and only the outbox, the log and the floors survive. `up` holds requests on their way,
marked when their session is gone: such a request may still be stored, and its ack goes
nowhere. `stream[d]` is an event stream with its live receiver `rx` and the events not
yet read; what a replay sends is in the order of the frames' ids (`InIdOrder`, the query's
ORDER BY). The pump's biased select is in the guards: replies, then events, then a
submit, then a timer. `told`, `excused`, `faults` and `pins` are history variables.

**Hlc.** `now` is whatever `Clock::now_ms` returns to the call, any time in either
direction. `EmitFails` and `DeliverFails` are transactions that roll back after the
clock moved. `Restart` is `prime_hlc` over the log and the floors.

**OpGroups.** `rep[r].row` is pending_groups (held, applied, or none), `log` the ops
table, `folded` what the merge tables have of it, `pruned` what compaction let go of.
A local group is one batch (`Write`); `Deliver` is one received op with `TryComplete`;
`ApplySnapshot` replays the record's retained ops, joins the state of ONE stream and runs
`CompleteReadyGroups`; `Rebuild` clears and refolds in stamp order what is not compacted.
`InStampOrder` is such a pass over ops, and `ApplyHeld` the update of the held rows of
groups that are complete. `GroupAssumption` says what `append_and_fold_group` makes sure
of: a group is written in one commit and states the number of its members.

**Receive.** `ApplyRemote` is the transaction of one op: refuse an unknown signer, defer
what has no key, park what this build cannot read, otherwise log and fold, advance the
cursor. A cert op vouches for its own signer only where a key of its epoch is held and this
build reads it. `sound` says of an op that its fold accepts it: one that decodes and is
refused is not logged on arrival, and if it was parked by an older build it stays parked,
stamped with the build that refused it (`ReplayRefused`; `refused` is history). Draining after a key deletes the rows of the epoch and applies them one
transaction each (`Drain`, `DrainOne`), with `Reopen` (a crash, or a newer build)
possible between any two. `Pick` and `ForReplay` are the queries over deferred_ops and
parked_ops, by the rank of a row in the order they ask for.
`ReplayFails` is a parked op that storage fails on at open.

**OpChains.** The hash of an op is the vault that signed it and its position; a root is
the sequence of those up to a position. `Deliver` does what receipt does: `CheckLinks`
against what is held or expected, fork rows, `FoldChain` with the claims that its growth
makes decidable. `EmitDigest` publishes the frontier, `Reconcile` judges one. The code
goes through the devices of a digest or a record one after the other, each time in the
rows of that device only, so the operators take the set of the devices. `Writers`,
`Reporters` and `Compactors` are the vaults in which each kind of work comes up.
`Acknowledged` is the floor that the known devices' digests allow.

**Credential.** `phase` is where the connect loop is. `Read`, the dial and `Mark` are
separate steps, so `Set` falls between them. `presented` is the credential the relay was
last shown, `consumed` and `reported` are history. The relay's row has its own deadline,
extended by an accepted refresh; every POST is authorised by the bearer the transport was
built with. `busy` is `live_loop` between taking a frame and the client taking the event
(`Frame`, `Handed`), in which nothing rechecks the device; `Revoke` is every route by which
the relay's row of the device is revoked.

**Revocation.** The vault is one of the account's; ops of the others arrive in any order
(`Deliver`), since some wait for keys. `ApplyDeviceRevoke` keeps the code's order: record,
cap, refold, bound, compact, release. Stamps are numbers the sender chooses, so two of its
ops may share one. `Adopted` are the bounds that came with the pairing. The driver is in the
model as far as the intents go: `session` is down, up or reading a frame, `wake` the permit
of `submit_notified`, `due` what is left of a drain's snapshot, `sending` the call it awaits.
A drain starts with a session (`Connect`) or on a wake (`Submit`), asks the vault again before
each call (`Ask`) and clears the intent when the relay has answered (`Answer`); local commands
go on meanwhile, so a revocation may be unwound under a call. Remote ops are applied only
while a frame is read.

**KeyEpochs.** A key is (epoch, minter). A transaction's control ops are one entry of
the device's log; a peer's entries are applied in order, those of different peers in any
order. Each device has a ledger of the revocations it applied and bounds what the fold
believes revoked, so a revocation may be disbelieved, be unwound by a later one, or be of
one's own revoker; a device that calls itself revoked does not rotate, though it may revoke. `Firsts` lets the cache's order choose which key of an epoch comes first.

### Abstractions that matter

- One entity (EntityMerge), one stream of one account (RelayLog, OpSync). Streams
  share a session's resync timer and its `Live` condition, nothing else.
- Time: deadlines may pass whenever the pump has nothing to read. `MIN_RESYNC_GAP` is
  the guard that the last stream opened was read before the next resync. Loss evidence
  only brings the resync forward, so it is not a variable.
- A Subscribe and the opening of its stream are one step on the device; taking the
  receiver and reading the log stay two steps of the relay. The driver never resumes a
  stream by `Last-Event-ID`: every stream it opens follows a Subscribe, which clears
  the id (`sse/session.rs:131`), so `after_id` is 0 in `Replay`.
- The durable append (`StoreFresh`) and the fan-out with its ack (`PublishStored`) are
  two steps; a relay restart between them leaves a batch stored and not fanned out.
- The driver is generic over `Transport`. The SSE transport awaits each POST, so a lost
  ack ends its session; the retransmit of an unanswered batch is what other transports
  meet, and the model allows both.
- A snapshot record is its frontier. Its retained ops go through the receive path and
  are `Deliver` steps in Hlc.
- Encryption, signatures and wire formats are left out: an op that does not decode or
  verify is `RecvDamaged`, which applies nothing.
- Each module of the receive path models one concern over all arrival orders: Hlc the
  clock gate, EntityMerge the fold, Receive what happens to an op that cannot be folded
  yet, OpGroups and OpChains their tables. They meet at `apply_remote_all_unchecked`,
  one transaction per op, which each of them takes as atomic.
- KeyEpochs: the control ops are readable on arrival. That they may have to wait for a
  key of their own stream is Receive's subject (an op that `gives` a key).
- Revocation is one stream's ledger of one vault. A revoked device's relay session is
  Credential's subject. The ledgers of KeyEpochs have no stamps and no cap: which rows an
  author keeps is Revocation's subject.
- OpChains keeps an expectation per namer. `chain_expected` has one row per position and hash
  (`0034_op_chain.sql`), with the first namer, so the table may name fewer ops than the model
  protects; the hash expected and whether it is met are the same. `MAX_CHAIN_HEADS`
  (`chain.rs:194`), which spreads the links to many peers over several ops, is left out: an
  op of the model names every tip that is due.

## 3. Runs

| Run | Instance | Shows |
| --- | --- | --- |
| `merge_registers` | 3 devices, 2 write; 3 ops; a status field with a terminal value and a tombstone, written by users and the routine engine; 365 thousand states | `OrderExact`, `OrderIsCausality`, `RegistersExact`, `Convergence`, `RebuildIdentity`, `DominantWriteStands` over Patches and full-state ops |
| `merge_fields` | 2 devices, 4 ops; OR-set, map, counter, a register that is forced; 701 thousand | `FieldsExact`, `ObservedRemove`, `DeadAddsStayDead` |
| `sync_safe` | 2 devices, 1 writes 2 ops; a budget of one op and expiry by age, 3 appends, streams that lag behind one frame, one fault (a lost batch, a dropped session, a damaged frame, a relay restart or a close), one pinned record; 2.1 million | `ReplayIsComplete` for all cursors, `LossIsRemembered`, `AckedIsStored`, `StreamAccounts`, `KnownLossSurfaces`, and the refinement `DeliverySpec` |
| `sync_live` | the same without eviction and records; 395 thousand; under `FairSpec` | `EventualDelivery`, `SettlesLive` |
| `hlc` | 2 devices, times 0..2, drift 1, counter width 1, 3 ops; 329 thousand | `StampsFollowCausality`, `SkewIsBounded` |
| `groups` | 2 replicas, a group of two over two streams between lone ops, a third op that overfills it; one snapshot, one rebuild; 64 thousand | `FunctionOfOpsPresent`, `HeldIsLogged`, `RebuildIdentity` |
| `part_group` | the same | a violation: `NoPartOfAGroupShows`, which a document states, does not hold (section 5, item 5) |
| `receive` | 7 ops in 4 chains, one of them damaged and one a cert under a key that is still to come, a buffer of one, 2 builds, 4 restarts; 6.7 thousand; under `FairSpec` | `CursorIsAPrefix`, `LoggedIsFoldedOrParked`, `EverythingArrives` |
| `chains` | 3 vaults, two of them under one device id, one of which compacts and writes a record; 5 ops, 2 digests; 277 thousand | `EvidenceIsTrue`, `DivergenceIsNoticed`, `BrokenLinkIsNoticed`, `PrefixEndIsKnown`, `FloorIsHeldByKnown` |
| `credential` | 2 renewals, 2 faults; 134 thousand; under `FairSpec` | `NothingSwallowed`, `RenewalArrives`, `RevokedIsCutOff` |
| `revocation` | 4 devices, one of them bounded by the sponsor; 3 revoke ops with 2 stamps, so that ties come up, a cap of one target; 186 thousand; under `FairSpec` | `LedgerIsAFunctionOfTheOps`, `OnlyRevokedAreGated`, `NobodyFreesItself`, `BoundsStand`, `BelievedIsReported` |
| `key_epochs` | 2 devices and a joiner, 3 keys, two revocations; 1.8 million | `RecordsAreTrue`, `NoPermanentHole` |

That no write is lost silently follows from `RegistersExact` and `OrderIsCausality`: a
write that is no longer kept is below the floor or in the causal past of one that is.

Each property of a passing run has a mutant: an operator beside the original that makes
a plausible mistake (a high-water cursor, dedup by batch number alone, a missing
refilter, a clock primed from the log only) and breaks the property.

**Why the bounds are enough to be interesting.** A late arrival needs two ops of one
device and a third that names one of them: 3 ops, and a third device for an order
neither writer sees. A floor that prunes, an add, its remove and a late add need 4 ops.
A re-partitioned re-send needs 2 ops and 2 sessions, hence a fault; evicting one
partition and not the other needs 3 appends. A saturated counter needs
width 1; a drift that could compound needs two
receives over a drift of 1. Half of a group through a snapshot needs two streams; an
eviction that hides an op needs two ops of one epoch in a buffer of one. A fork needs a
vault and a copy of it taken before its first op, which both write; digests that are
judged one way and replaced or outdated need two of a third vault; a floor above the fork
that a record carries, a second op on one side. A chain of
revocations that ends with the vault's own author needs 4 devices and 3 ops. A rotation
that a joiner misses needs one before and one after its pairing, and a second minter of
the same epoch; a mutual or a disbelieved revocation needs two of them. Devices are numbers because stamps compare them, so symmetry
does not apply to the merge; the other models are small enough without it.

**Deadlock** is not checked: ops, faults and appends are bounded, and a system in which
all ops are delivered really rests. Rest in the right state is what `SettlesLive` states.

**Fairness** (`FairSpec`). Weak fairness of `Connect` (the reconnect backoff always
fires), of the pump, of the relay's request handlers and stream tasks (tokio runs a
ready task) and of the resync timer. Strong fairness of `Retransmit`: one timer turn
resends every overdue batch before it resyncs, so resyncs cannot starve a batch forever
although each disables it. In Receive: weak fairness of the call's own steps, and strong
fairness of the re-send of an op above the cursor, which EventualDelivery establishes
for the sync that carries it (a crash may cut off one re-send, not every one). In
Credential: weak fairness of the driver's loop, and of the relay's recheck tick where the
stream has nothing to hand on. The select is biased towards frames and handing one on has no
time limit, so nothing is assumed of `Handed`, and `RevokedIsCutOff` excepts behaviours in
which the stream is busy again and again or for ever. In Revocation: weak fairness of the
reconnect, of the end of a frame, of taking a wake and of a drain's next step (each call has
a deadline), and strong fairness of asking and answering about the one device followed: a
relay that is reached again and again answers once. A drain has no other trigger than a
session and a wake, and both may be kept away, so `BelievedIsReported` excepts a session that
goes on without either and frames that come for ever. Nothing is assumed
of users (`Renew`, `Write`) or of faults,
of which there are finitely many.

## 4. Proofs

For any set of devices (finite for the relay), any edits and any bounds.

**`FieldsAreExact`, `DeadAddsStay`, `RemovesAreObserved`** (EntityMergeProofs). The
invariant is `FieldsFollow` of each replica, with `Sealed`: ops have distinct stamps, none
above its writer's clock, and replicas hold only sealed ops. It is needed because folding
an op is exact only if its stamp is new. `MergeFollows` shows one fold keeps
`FieldsFollow`, part by part, from `GreatestOfUnion` and `LeastOfUnion`; one lemma per
action shows that it folds a fresh op. The action property then needs only
`MergeKeepsDead`. `ObservedRemove` adds two parts about history: what a writer had seen was
sealed (`SeenIsSealed`), so no later op can enter it, and a remove names just the adds its
writer had applied and still held live, the others being removed or below its floor already
(`RemovesWhatItSaw`).

**`OrderIsExact`, `RegistersAreExact`, `ReplicasConverge`, `RebuildIsIdentity`**
(EntityMergeProofs). A replica's rows are one function of the versions applied
(`StateExact`): the frontier of a version has, for each device, the latest of its versions
that is reached along edges, the heads are the versions nothing reaches, and a register
keeps the writes that no other supersedes. A version that comes on time finds final
frontiers below it. For a late one the proof shows that every frontier in place is at most
the true one, and that the pass from there gives exactly it. After a refinement of the
order, filtering again a register that was exact under the coarser one is enough, because
a write that was dropped stays dropped and some kept write dominates it. Convergence and
the rebuild identity follow: two replicas with equal versions satisfy the same equations,
and the refold is a replica of its own that applied the same versions. The recursive
functions exist because the function that answers directly is exhibited and satisfies
their equation, and uniqueness is shown at the least stamp at which two solutions differ.

**`OrderIsCausal`, `DominantStands`** (EntityMergeProofs). `MergeInv` adds to `StateExact`
what a writer knew (`Causal`): all it had applied is below its op's stamp, its parents and
its own earlier ops are among that, and from a Patch's parents everything else of it is
reached. The last part is what makes the heads sufficient as parents.

**`ReplayNeverHidesALoss`, `EvictionIsRemembered`** (OpSyncProofs). Both are of
OpSync's specification, in which drivers decide what is appended. The invariant is
`RelayTypeOK /\ Accounted`: an accepted op is in a frame or at or below its device's
watermark. A frame leaves only through `Retain`, whose watermark is at least each of its
seqs; a frame that `covered` skips is below the cursors in all its ops.

**`AcksAreHonest`, `SyncImplementsDelivery`** (OpSyncProofs). `DeliveryInv` is about the way
up. `AckedIsStored` alone is not inductive: an ack carries only a batch number, and numbers
start over with each session. `Numbered` says that the batches in flight have numbers of
this session, one set of ops per number, and that an acked one is stored; `Requested`, that
a request that can still be answered is the batch of its number; `Written` and
`Streamed`, that what is stored, pinned, held or on a stream was committed by its author.
The refinement is step by step from it: `Write` is OpDelivery's `Commit`, `StoreFresh` its
`Store`, `RecvOps` and the joining of a record its `Learn`, `RecvAck` its `Acked`, and
everything else (sessions, streams, retransmits, faults, a relay restart) a stutter.

**`NothingFallsBetween`, `LossIsNeverSilent`** (OpSyncProofs). `StreamInv` adds the way
down. `Behind`: a stream that has yet to read the log asks from cursors the device still
has. `Reports`: a gap that a device was told of, or has on its way, is within the relay's
watermarks. `Accounts` and `Surfaces` are the two properties, the second of a session that is
still catching up too, since that is where a `Live` one comes from.
Taking the receiver before reading the log is what makes `ReadLog` establish `Accounts`
(from `ReplayNeverHidesALoss`) while a handler between its store and its fan-out is
accounted for by `posting`.

**`CursorsAreHonest`, `NothingLoggedIsForgotten`** (ReceiveProofs). The second says that the
log is the ops folded once and the ops parked, and that a marker of the running build is of
an op that build cannot read or has refused. `ReceiveInv` has both properties and what they
lack: no marker is stamped with a build that has not run (`StampedBefore`, else an upgrade
would make one current unread), and a log has an end (`LogEnds`). That the queries return every row once
is `RankIsOnto`: ranks are an injection into an interval of the same size.

**`ShownIsAFunction`, `HeldStaysLogged`, `RebuildChangesNothing`** (OpGroupsProofs).
`GroupsInv` says of each vault which rows there are and what they stand for: a member has a
row exactly when it is present, an applied one is folded and a held one logged, no complete
group has a held member, and an incomplete one shows only what a snapshot brought (`joined`).
The theorem states the two inclusions: what may show is folded, and what is folded and was not
joined may show. Of all
vaults it says that a group which is not written yet is present nowhere, since a write
folds its members at once. The ops that a snapshot retained and the log of a rebuild are
taken one by one; `Absorbed` states in one expression what such a run leaves, and
`ReceivedAll` and `RefoldedAll` show it by induction on the stamps. A rebuild starts from
the folded ops that left the log, which is why `pruned` matters: a member whose version row
is gone must keep its group row.

**`EvidenceStaysTrue`, `PrefixEndStaysKnown`, `FloorsAreHeld`, `BrokenLinksAreNoticed`,
`DivergencesAreNoticed`** (OpChainsProofs). `ChainsInv` begins with each vault by itself:
every hash and root it holds was signed (`Sound`), roots end exactly at the prefix and
claims lie above it (`Kept`), no floor passes its prefix (`Low`). From these a fold has
nothing to do but where the cursor moves (`FoldIdle`), which is what makes the other
callers of `fold_chain` harmless. `Counted` and `OnePer` say that a vault has what it
signed, so it signs no seq twice; `Reported` and `Acked`, that no acknowledgement is beyond
the prefix of the vault it came from, which is `FloorsAreHeld`. For the last two theorems,
`LinkOK`: a link with both ends here agrees or has a fork row, one with a missing end is
expected, and what is expected protects its namer from compaction; `Answered`: what a peer
stated has a divergence row, or a claim that waits, or one of its digests agreed or can no
longer be compared. The functions of `chain.rs` are taken one by one: `Grown`, `Steady` and
`Judged` say what each keeps, and they compose.

**`StampsNeverFallBehind`, `FastClocksDoNotSpread`** (HlcProofs). The invariant `HlcInv`:
own ops are ordered by seq and stamp and known to their device; everything known is
below the clock (`KnownBelowClock`); everything known is in the log, or at or below a
floor whose stamp is at least its own (`KnownIsKept`), which is what makes `Restart`
restore enough; what is kept is known; and the clock is within the drift of its own
device's latest wall clock. Tie at a saturated counter is the one exception the theorem
states.

**`NoRenewalIsSwallowed`** (AccessProofs). `NothingSwallowed` speaks of a session that
is live or closed for good, and is decided earlier. `CredentialInv` carries through the
dial that an unmarked version is pending (`NothingUnseen`), that an attempt with nothing
pending carries the token of now (`AttemptIsCurrent`), that a queued refresh is of now or
there is something newer to look at (`QueuedIsCurrent`), and that a consumed renewal not
yet reported is the marked one (`MarkedIsConsumed`, `ReportedOrMarked`).

**`LedgerIgnoresOrder`, `GatedDevicesAreRevoked`, `OwnWordDoesNotFree`,
`ReadBoundsStand`** (RevocationProofs). The second and the third are lemmas about any
ledger. They are carried to the vault by `RevocationInv`: the stored ledger has one row per
author and target, the register is the register of that ledger, and it is bounded. The
first part is needed because the code computes the register before it compacts the ledger,
and only with at most two rows of a pair does compaction leave every revoker in place. The
first theorem is about rows that are gone. `LedgerInv` says `Latest`: a head of the ops
applied that the ledger lacks is older than all of its author's rows that stayed, and as
many stayed as the cap allows. Older is `Before`, by stamp and then by target, which ranks the
heads of an author without a tie although its stamps may be equal. So a late op can never make an evicted row wanted again, and
that is the same set as the ranks of `LedgerOf` choose.

**`RecipientsWereSealed`, `NobodyIsLeftOut`** (AccessProofs). For the first: a record
enters the table with the envelope it is about, or from an envelope in a peer's log, and
logs only grow; the invariant adds that the logs are sequences. For the second it is enough
to follow the minter of each key, which never loses it (`Origins`): it has sealed the
key's epoch, or knows of a seal, to every device whose cert it has and whom it does not
bound (`MintersSeal`). The other parts of `HoleInv` say that a device's first entry is its
cert and that what was read of a peer was absorbed, so that in a quiet state the minter has
sealed to everybody it does not bound. Nothing is needed of who is bounded, or why: the
theorem is about the devices that nobody bounds, however revocations were believed, disbelieved
and unwound. The same is not true of every
holder of a key, which may know a device that the minter does not.

The assumptions are those the modules name: devices are naturals (Stamps, Revocation) or a
finite set (RelayLog), writers are devices, edits are edit records, ops of Receive and of
OpGroups have distinct places in the stamp order and distinct seqs in a chain, those of
OpGroups are finitely many and a group is one commit, each vault of OpChains signs under one
device, of which MaxSeq admits an op, caps are positive, and bounds are naturals. Bounds are
parameters, so no theorem depends on how large they are.

**Only model-checked** are the liveness properties (`EventualDelivery`, `SettlesLive`,
`EverythingArrives`, `RenewalArrives`, `RevokedIsCutOff`, `BelievedIsReported`): they rest
on fairness and ENABLED, which the prover does not handle. Each of the other properties of
the runs is stated by a theorem.

## 5. Where code and documents disagree

Met while modelling. In each case the models follow the code. Item 5 has a run that refutes
the document's sentence (`part_group`); for the others the runs check what does hold.

1. `engine/merge/mod.rs:53` says a rising floor deletes the removes that named pruned
   adds. `prune_below_floor` (`merge/state.rs:384`) keeps them, and says why: deleting
   one would make the remove set depend on arrival order.
2. `sync_driver.rs:1303` takes ops between a cursor and the reported watermark to be
   gone. The watermark (`relay_log/append.rs:183`) is the greatest seq of any deleted
   frame, and a re-partitioned re-send is a frame of its own: [1] is evicted while [1,2]
   stays, and the replay that follows the gap delivers op 1.
3. `sunrise-sync/src/state.rs:42` says a client never answers `Live` when the relay has
   said otherwise. A session that is `Live` stays so when `recover_gaps`
   (`snapshot_sync.rs:237`) joins a record pinned below the watermark just reported,
   until the answer to its next Subscribe. `KnownLossSurfaces` states what does hold.
4. `state.rs:47` and `sync_driver.rs:1281` say unavailable relay storage stops the
   driver. The code is retryable (`is_terminal`, `sync_driver.rs:334`), and the driver
   reconnects; `SettlesLive` relies on it.
5. `docs/05-sync/crdt-design.md:318` says "no replica ever shows part of a group". A
   snapshot is of one stream, and `join_stream_state` (`merge/snapshot.rs:981`) folds that
   stream's member while the other stream's member may not have arrived. `write.rs:562` says
   the same of a commit. `NoPartOfAGroupShows` is the sentence, and TLC finds the join that
   violates it; `FunctionOfOpsPresent` states what does hold, about everything that was not
   joined.
6. `engine/chain.rs:95` says a wanted position is one this replica does not hold. Only
   receipt and a rising floor settle an expectation; `ops_insert_at` (`oplog.rs:110`) does
   not, so a restored vault that writes at a position it was told of keeps wanting it.
7. `docs/06-server/auth.md:64` says clients renew "without dropping the event stream". An
   accepted refresh moves the relay's deadline, but the SSE transport keeps the bearer it
   was built with (`sse/mod.rs:114`), so the first request after that bearer expires is
   refused and the session ends. `RenewalArrives` shows the driver comes back.
8. `keychain/pairing.rs:122` says that where two devices minted one epoch "the other still
   reaches a joiner through the `key_envelope` op". Recipients are recorded per stream and
   epoch (`oplog.rs:518`) and a backfill seals the first key only, so with keys k1 and k2
   of one epoch a joiner that was given k1 gets no k2, nor does a device whose cert the
   minter of k2 had not applied but which holds k1's envelope. Ops sealed under k2 stay
   deferred there. `NoPermanentHole` is therefore about epochs.
9. `api/sync/stream.rs:40` speaks of a slow stream being dropped, while `recv_first` skips
   what a lagging receiver lost and goes on. `StreamAccounts` excuses that loss until the
   next Subscribe, and `EventualDelivery` shows the resync repairs it.
10. `engine/chain.rs:724` clears a divergence when a digest agrees at or above it, "because
    roots chain and two replicas that agree at `n` agree at every seq below it". The roots
    do, but the rows are kept per peer device and seq, not per replica and chain: a joined
    record replaces the root held here where this replica's prefix is shorter than the
    record's, and a device id may be two vaults. A digest that agrees with what is held now
    then clears what an earlier one showed. `DivergenceIsNoticed` is therefore about a peer
    all of whose digests differ; the fork rows stay.
11. `api/sync/stream.rs:527` says "Revoking a device has to end the stream it already holds".
    The recheck that does it is the last arm of a biased select (`:484`), behind the frames
    (`:448`), and `tx.send(event).await` (`:469`) waits for the client without a limit. A
    revoked device whose peers keep publishing, or which stops reading, is not rechecked
    meanwhile. `RevokedIsCutOff` states what holds with that exception.
12. `relay_intents.rs:180` says `"queued" here always means "will be sent"`, and
    `sync_driver.rs:892` calls the reconnect backoff the retry schedule. A drain runs when a
    session starts and on a submit wake only. A call that failed, or an intent that a remote
    op made owed again, waits in a session that goes on until a local command wakes the
    driver, and `sync_driver.rs:1084` calls a long-lived session the ordinary case.
    `BelievedIsReported` states what holds with that exception.
13. `config.rs:165` says that after priming two ops of one device may still share a stamp
    across a restart, when the log's greatest stamp is its own and the wall clock has not
    moved. `prime` restores that stamp and `send` then counts up from it, so there is no such
    tie: `StampsFollowCausality` allows one only at a saturated counter
    (`sunrise-cbor/src/hlc.rs:101`).

## 6. Plan, and what is not modelled

Done: the merge of an entity, the relay's log, the sync of one stream and its refinement
of OpDelivery, the clock, groups, the receive pipeline, chains and digests, the
credential, revocation, key epochs; 34 theorems in eight modules, one for each safety
property that a run checks.

Next, in this order:

1. **Identity**: the chain of transitions, `admit_sibling` and the roster, with the
   rotation's two-step sealing of the vault-meta key.
2. **Joins**: the join of one entity's registers from a snapshot, and which versions
   `prune.rs` lets go.
3. **Services**: pairing slots, blob upload and its ledger, the token buckets of rate
   limits, account deletion with its drain, fractional task order, key bundles.

Not modelled, and why:

- User interfaces, bindings, the CLI, generated strings, build tools and fixtures: about
  two thirds of the repository's lines. They hold no state that several actors share;
  what they call is modelled.
- Conversions: CBOR, wire frames, HTTP signatures, patch validation, ids. The repository
  tests them against vectors.
- Cryptography: an op that does not open or verify is an outcome here, not a computation.
- Queries, search, review and export: reads of the projection.
- SQLite: a transaction is one step, and a failed one leaves no trace but the clock.
- Within modelled parts: the vault-meta key and copies of keys sealed to the identity,
  `MAX_EPOCH_LEAP`, which key a device writes under, the reason shown for a revocation,
  the election of a compactor, the in-memory ring of the relay's hub, connection limits,
  delays of the backoff, the operating system's file lock on a vault.

The map therefore covers a small share of all lines in the repository, and most of the
protocol logic of `engine/`, `sync_driver`, `sunrise-sync` and the relay's sync path.

## 7. Running

```
tlc -workers 2 -config MCRegisters.cfg MCEntityMerge
tlc -workers 2 -config MCSyncLive.cfg OpSyncProps
tlc -workers 2 -config MCRevocation.cfg Revocation
tlapm RevocationProofs.tla
```

PROJECT.json names the module and the configuration of every run.
