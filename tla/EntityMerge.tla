---------------------------- MODULE EntityMerge -----------------------------
(***************************************************************************)
(* The per-field merge of one entity, crates/sunrise-core/src/engine/merge *)
(* (ADR-0044, ADR-0065), on every device of a vault.  Devices write        *)
(* `Patch` ops and legacy full-state ops, the ops reach the other devices  *)
(* in any order and at any distance from each other, and each device folds *)
(* an op into the entity's merge state in the transaction that logs it.    *)
(* A device may at any time rebuild its state from its log (Rebuilt).      *)
(*                                                                         *)
(* The entity has registers (Field, each of a conflict class), one OR-set  *)
(* (Element), one map (Key) and one counter.  Values are naturals, 0 for a *)
(* write of *absent*.                                                      *)
(***************************************************************************)
EXTENDS VersionDag

CONSTANTS Writer,     \* the devices that write; the others only receive
          Field,      \* the entity's registers
          ClassOf,    \* [Field -> {"plain", "state", "tombstone"}]
          Terminal,   \* the values TERMINAL_STATES holds
          Element,    \* candidate elements of the OR-set
          Key,        \* keys of the map
          Edits,      \* the edits commands may make, see EditRecord
          Forced,     \* registers a command writes whatever they hold
          MaxVal,     \* bound on register and map values
          MaxOps      \* bound on the ops written in a behaviour

Absent == 0
True == 1
False == 2

Value == 0..MaxVal

EditRecord ==
    [kind : {"set"}, field : Field, val : Value \ {Absent},
     origin : {"user", "generated"}]
    \cup [kind : {"add", "remove"}, elem : Element]
    \cup [kind : {"inc"}]
    \cup [kind : {"put"}, key : Key, val : Value]

ASSUME WriterAssumption == Writer \subseteq Device
ASSUME ClassAssumption ==
    ClassOf \in [Field -> {"plain", "state", "tombstone"}]
ASSUME BoundAssumption == MaxVal \in Nat \ {0} /\ MaxOps \in Nat
ASSUME EditAssumption == Edits \subseteq EditRecord /\ Terminal \subseteq Value

VARIABLES ops,    \* every op any device has sealed
          rep,    \* rep[d]: the merge tables of device d for the entity
          clock,  \* clock[d]: the greatest reading d has stamped or observed
          seen    \* history: the versions an op's writer had applied

vars == <<ops, rep, clock, seen>>

-----------------------------------------------------------------------------
(***************************************************************************)
(* The ops.  A Patch writes the fields it names (`sets`, over a subset of  *)
(* Field); a legacy op writes every field, the whole set, map and counter. *)
(***************************************************************************)
Partial(S, T) == UNION {[D -> T] : D \in SUBSET S}

Op == [at : Stamp, legacy : BOOLEAN, create : BOOLEAN,
       origin : {"user", "generated"}, parents : SUBSET Stamp,
       sets : Partial(Field, Value), base : Nat,
       adds : SUBSET Element, removes : SUBSET (Element \X Stamp),
       inc : {0, 1}, puts : Partial(Key, Value)]

Member == [at : Stamp, val : Value, origin : {"user", "generated"}]

MapEntry == [at : OptStamp, val : Value]

\* The rows a device holds for an entity it has no op of.
EmptyState ==
    [versions |-> {}, frontier |-> <<>>, heads |-> {},
     legacy |-> NoStamp, create |-> NoStamp, head |-> NoStamp, patched |-> 0,
     members |-> [f \in Field |-> {}], base |-> 0,
     adds |-> {}, removes |-> {}, deltas |-> {},
     entries |-> [k \in Key |-> [at |-> NoStamp, val |-> Absent]]]

-----------------------------------------------------------------------------
(* The register fold, merge/register.rs. *)

\* rank: origin, then the class rule, then the stamp.
ClassKey(class, m) == \/ class = "state" /\ m.val \in Terminal
                      \/ class = "tombstone" /\ m.val = True

\* Mutant of Outranks: the class rule is left out.
OutranksWithoutClass(class, m, n) ==
    LET user(x) == x.origin # "generated"
    IN  \/ user(m) /\ ~user(n)
        \/ user(m) = user(n) /\ Below(n.at, m.at)

Outranks(class, m, n) ==
    LET user(x) == x.origin # "generated"
        key(x)  == ClassKey(class, x)
    IN  \/ user(m) /\ ~user(n)
        \/ user(m) = user(n) /\ key(m) /\ ~key(n)
        \/ user(m) = user(n) /\ key(m) = key(n) /\ Below(n.at, m.at)

Winner(class, ms) == CHOOSE m \in ms : \A n \in ms \ {m} : Outranks(class, m, n)

\* Mutant of Offer: a write that arrives below the floor is kept.
OfferBelowFloor(F, floor, ms, m) ==
    IF \E n \in ms : n.at = m.at \/ Precedes(F, m.at, n.at) THEN ms
    ELSE {n \in ms : ~Precedes(F, n.at, m.at)} \cup {m}

\* Registers::offer of the write m to a register that keeps ms.
Offer(F, floor, ms, m) ==
    IF \/ Below(m.at, floor)
       \/ \E n \in ms : n.at = m.at \/ Precedes(F, m.at, n.at)
    THEN ms
    ELSE {n \in ms : ~Precedes(F, n.at, m.at)} \cup {m}

\* Registers::raise_floor, Registers::refilter.
RaiseFloor(ms, floor) == {m \in ms : ~Below(m.at, floor)}

Refilter(F, ms) == {m \in ms : ~\E n \in ms : Precedes(F, m.at, n.at)}

-----------------------------------------------------------------------------
(***************************************************************************)
(* The fold of one op, field type by field type: merge/mod.rs fold_patch   *)
(* and fold_legacy over merge/state.rs.  A full-state op is read as a      *)
(* write to everything; one stamped above the legacy floor raises it, and  *)
(* what the new floor makes unreadable is pruned (prune_below_floor) but   *)
(* for the removes, before the op's own writes are folded.                 *)
(***************************************************************************)
Raises(s, op) == op.legacy /\ (s.legacy = NoStamp \/ Below(s.legacy, op.at))

\* Mutant of FoldedFloor: the last full-state op to arrive is the floor.
FoldedFloorLast(s, op) == IF op.legacy THEN op.at ELSE s.legacy

FoldedFloor(s, op) == IF Raises(s, op) THEN op.at ELSE s.legacy

\* Meta::note_create: a create, or any full-state op.
FoldedCreate(s, op) == IF op.create \/ op.legacy THEN Earlier(s.create, op.at)
                       ELSE s.create

FoldedPatched(s, op) == IF ~op.legacy /\ s.patched < op.at.hlc THEN op.at.hlc
                        ELSE s.patched

\* Mutant of FoldedRegister: the registers are not filtered again after a
\* late admission refined the order.
FoldedRegisterUnfiltered(s, a, op, f) ==
    LET pruned == IF Raises(s, op) THEN RaiseFloor(s.members[f], op.at)
                  ELSE s.members[f]
    IN  IF f \in DOMAIN op.sets
        THEN Offer(a.frontier, FoldedFloor(s, op), pruned,
                   [at |-> op.at, val |-> op.sets[f], origin |-> op.origin])
        ELSE pruned

\* The register f over the order the admission a left: filtered again if the
\* order was refined, pruned by a raised floor, then offered op's write.
FoldedRegister(s, a, op, f) ==
    LET kept   == IF a.refined THEN Refilter(a.frontier, s.members[f])
                  ELSE s.members[f]
        pruned == IF Raises(s, op) THEN RaiseFloor(kept, op.at) ELSE kept
    IN  IF f \in DOMAIN op.sets
        THEN Offer(a.frontier, FoldedFloor(s, op), pruned,
                   [at |-> op.at, val |-> op.sets[f], origin |-> op.origin])
        ELSE pruned

\* The counter's register is written by full-state ops only, and the floor
\* drops every one but the greatest: what it keeps is that op's base.
FoldedBase(s, op) == IF Raises(s, op) THEN op.base ELSE s.base

\* add_element under op's own tag, unless op is below the floor.
FoldedAdds(s, op) ==
    {x \in s.adds : Raises(s, op) => ~Below(x[2], op.at)}
        \cup IF Below(op.at, FoldedFloor(s, op)) THEN {} ELSE op.adds \X {op.at}

\* add_delta, unless op is at or below the floor.
FoldedDeltas(s, op) ==
    {x \in s.deltas : Raises(s, op) => ~AtMost(x, op.at)}
        \cup IF op.inc = 1 /\ ~AtMost(op.at, s.legacy) THEN {op.at} ELSE {}

\* Mutant of FoldedEntry: the last write to arrive stays.
FoldedEntryLast(s, op, k) ==
    IF k \in DOMAIN op.puts THEN [at |-> op.at, val |-> op.puts[k]]
    ELSE s.entries[k]

\* write_map_entry: the greater stamp stays.
FoldedEntry(s, op, k) ==
    IF k \in DOMAIN op.puts /\ Below(s.entries[k].at, op.at)
    THEN [at |-> op.at, val |-> op.puts[k]]
    ELSE s.entries[k]

(***************************************************************************)
(* merge_op_inner: admit the version, load the registers, fold, flush.     *)
(* The row written is the value of Projection on the state this leaves.    *)
(***************************************************************************)
MergeOp(s, op) ==
    LET a == AdmitVersion(s.versions, s.frontier, s.heads, op)
    IN  [versions |-> s.versions \cup {op},
         frontier |-> a.frontier,
         heads    |-> a.heads,
         legacy   |-> FoldedFloor(s, op),
         create   |-> FoldedCreate(s, op),
         head     |-> Later(s.head, op.at),
         patched  |-> FoldedPatched(s, op),
         members  |-> [f \in Field |-> FoldedRegister(s, a, op, f)],
         base     |-> FoldedBase(s, op),
         adds     |-> FoldedAdds(s, op),
         removes  |-> s.removes \cup op.removes,
         deltas   |-> FoldedDeltas(s, op),
         entries  |-> [k \in Key |-> FoldedEntry(s, op, k)]]

\* What rebuild_in leaves: the tables cleared, then the log refolded in stamp
\* order.  It is no action of Next: RebuildIdentity says that it changes
\* nothing in any state a device can be in.
Rebuilt(s) ==
    LET log == Stamps(s.versions)
        before(at) == Greatest({a \in log : Below(a, at)})
        upto[at \in log] ==
            MergeOp(IF before(at) = NoStamp THEN EmptyState ELSE upto[before(at)],
                    VersionAt(s.versions, at))
    IN  IF log = {} THEN EmptyState ELSE upto[Greatest(log)]

-----------------------------------------------------------------------------
(* The projection, merge/project.rs `project`. *)

Created(s) == s.create # NoStamp

Superseded(s, at) == Below(at, s.legacy)

RegisterValue(s, f) ==
    IF s.members[f] = {} THEN Absent
    ELSE LET w == Winner(ClassOf[f], s.members[f])
         IN  IF Superseded(s, w.at) THEN Absent ELSE w.val

\* Mutant of LiveAdds: a remove hides every add of its element, not only the
\* tags it names.
LiveAddsByElement(s) ==
    {a \in s.adds : /\ ~Superseded(s, a[2])
                    /\ ~\E r \in s.removes : r[1] = a[1]}

LiveAdds(s) == {a \in s.adds \ s.removes : ~Superseded(s, a[2])}

Elements(s) == {a[1] : a \in LiveAdds(s)}

Counter(s) == s.base + Cardinality({d \in s.deltas : ~AtMost(d, s.legacy)})

MapValue(s, k) ==
    IF Superseded(s, s.entries[k].at) THEN Absent ELSE s.entries[k].val

Projection(s) ==
    [regs |-> [f \in Field |-> RegisterValue(s, f)], elems |-> Elements(s),
     count |-> Counter(s), map |-> [k \in Key |-> MapValue(s, k)]]

-----------------------------------------------------------------------------
(* Writing, engine/write.rs. *)

\* observed_tags: the tags of e's adds that no remove names.
ObservedTags(s, e) == {a \in s.adds \ s.removes : a[1] = e}

\* What a field no write has reached reads as (field_default).
ReadField(s, f) ==
    LET v == RegisterValue(s, f)
    IN  IF v = Absent /\ ClassOf[f] = "tombstone" THEN False ELSE v

\* diff: an edit that changes nothing the replica projects writes nothing.
Changes(s, e) ==
    CASE e.kind = "set"    -> ReadField(s, e.field) # e.val
      [] e.kind = "add"    -> e.elem \notin Elements(s)
      [] e.kind = "remove" -> ObservedTags(s, e.elem) # {}
      [] e.kind = "inc"    -> TRUE
      [] e.kind = "put"    -> MapValue(s, e.key) # e.val

\* Mutant of PatchOf: the Patch names no parents.
PatchOfWithoutParents(s, at, create, e) ==
    [at |-> at, legacy |-> FALSE, create |-> create,
     origin  |-> IF e.kind = "set" THEN e.origin ELSE "user",
     parents |-> {},
     sets    |-> IF e.kind = "set" THEN e.field :> e.val ELSE <<>>,
     base    |-> 0,
     adds    |-> IF e.kind = "add" THEN {e.elem} ELSE {},
     removes |-> IF e.kind = "remove" THEN ObservedTags(s, e.elem) ELSE {},
     inc     |-> IF e.kind = "inc" THEN 1 ELSE 0,
     puts    |-> IF e.kind = "put" THEN e.key :> e.val ELSE <<>>]

\* PatchBuilder::build: the edit over the heads found.
PatchOf(s, at, create, e) ==
    [at |-> at, legacy |-> FALSE, create |-> create,
     origin  |-> IF e.kind = "set" THEN e.origin ELSE "user",
     parents |-> s.heads,
     sets    |-> IF e.kind = "set" THEN e.field :> e.val ELSE <<>>,
     base    |-> 0,
     adds    |-> IF e.kind = "add" THEN {e.elem} ELSE {},
     removes |-> IF e.kind = "remove" THEN ObservedTags(s, e.elem) ELSE {},
     inc     |-> IF e.kind = "inc" THEN 1 ELSE 0,
     puts    |-> IF e.kind = "put" THEN e.key :> e.val ELSE <<>>]

\* A full-state op: the entity as the writer projects it, with the edit made.
\* It names no parents, and a map carries only the keys that hold a value.
LegacyOf(s, at, create, e) ==
    LET held == [k \in Key |-> IF e.kind = "put" /\ e.key = k
                               THEN e.val ELSE MapValue(s, k)]
    IN  [at |-> at, legacy |-> TRUE, create |-> create,
         origin  |-> IF create /\ e.kind = "set" THEN e.origin ELSE "user",
         parents |-> {},
         sets    |-> [f \in Field |-> IF e.kind = "set" /\ e.field = f
                                      THEN e.val ELSE RegisterValue(s, f)],
         base    |-> Counter(s) + IF e.kind = "inc" THEN 1 ELSE 0,
         adds    |-> CASE e.kind = "add"    -> Elements(s) \cup {e.elem}
                       [] e.kind = "remove" -> Elements(s) \ {e.elem}
                       [] OTHER             -> Elements(s),
         removes |-> {}, inc |-> 0,
         puts    |-> [k \in {k \in Key : held[k] # Absent} |-> held[k]]]

\* append_and_fold: stamp, log and fold, in one transaction.
AppendAndFold(d, op) ==
    /\ ops' = ops \cup {op}
    /\ rep' = [rep EXCEPT ![d] = MergeOp(@, op)]
    /\ clock' = [clock EXCEPT ![d] = op.at.hlc]
    /\ seen' = [a \in DOMAIN seen \cup {op.at} |->
                   IF a = op.at THEN Stamps(rep[d].versions) ELSE seen[a]]

(***************************************************************************)
(* A device creates an entity it does not project: a new one, which only   *)
(* its creator knows of, or a routine's occurrence, whose id every device  *)
(* derives alike and whose create is a generated write.                    *)
(***************************************************************************)
Create(d, h, e, legacy) ==
    /\ Cardinality(ops) < MaxOps
    /\ clock[d] < h
    /\ ~Created(rep[d])
    /\ e.kind = "set"
    /\ e.origin = "generated" \/ ops = {}
    /\ LET at == [hlc |-> h, dev |-> d]
       IN  AppendAndFold(d, IF legacy THEN LegacyOf(rep[d], at, TRUE, e)
                            ELSE PatchOf(rep[d], at, TRUE, e))

\* A full-state op is written whatever it says; a Patch that would change
\* nothing is not, unless it forces a register (a defer, the task's plan).
Edit(d, h, e, legacy) ==
    /\ Cardinality(ops) < MaxOps
    /\ clock[d] < h
    /\ Created(rep[d])
    /\ legacy \/ Changes(rep[d], e) \/ (e.kind = "set" /\ e.field \in Forced)
    /\ LET at == [hlc |-> h, dev |-> d]
       IN  AppendAndFold(d, IF legacy THEN LegacyOf(rep[d], at, FALSE, e)
                            ELSE PatchOf(rep[d], at, FALSE, e))

\* apply_remote_all of an op past the idempotence gate.
Receive(d, op) ==
    /\ op \notin rep[d].versions
    /\ clock' = [clock EXCEPT ![d] = IF @ < op.at.hlc THEN op.at.hlc ELSE @]
    /\ rep' = [rep EXCEPT ![d] = MergeOp(@, op)]
    /\ UNCHANGED <<ops, seen>>

Init ==
    /\ ops = {}
    /\ rep = [d \in Device |-> EmptyState]
    /\ clock = [d \in Device |-> 0]
    /\ seen = <<>>

Next ==
    \/ \E d \in Writer, h \in 1..MaxHlc, e \in Edits, legacy \in BOOLEAN :
          Create(d, h, e, legacy) \/ Edit(d, h, e, legacy)
    \/ \E d \in Device, op \in ops : Receive(d, op)

Spec == Init /\ [][Next]_vars
=============================================================================
