------------------------------ MODULE OpGroups ------------------------------
(***************************************************************************)
(* Groups: a commit of several entity ops, applied whole or not at all,    *)
(* crates/sunrise-core/src/engine/groups.rs, with the three things that    *)
(* act on the rows of `pending_groups` besides it: compaction              *)
(* (compaction.rs), a snapshot join (snapshot.rs) and the projection       *)
(* rebuild (rebuild.rs).                                                   *)
(*                                                                         *)
(* What an op writes is abstracted to the fact that it has been folded:    *)
(* EntityMerge shows that folds commute and that joining state equals      *)
(* folding the ops it came from.  Every op opens, decodes and carries a    *)
(* kind this build knows; the module Receive has the others.               *)
(***************************************************************************)
EXTENDS Naturals, FiniteSets, FiniteSetsExt

CONSTANTS Replica,    \* the replicas of the vault modelled here
          Ops,        \* the ops of the vault, see OpsAssumption
          NoGroup,    \* the group of an op that is in none
          SizeOf,     \* SizeOf[g]: the size every member of group g names
          MaxSnaps,   \* bound on the snapshot records written
          MaxRebuilds \* bound on the projection rebuilds

Group == DOMAIN SizeOf
Chain == {<<o.stream, o.dev>> : o \in Ops}
Members(g) == {o \in Ops : o.group = g}
ChainOf(o) == <<o.stream, o.dev>>

\* The ops one commit of device r appends.
Batch(r, n) == {o \in Ops : o.dev = r /\ o.batch = n}

ASSUME OpsAssumption ==
    /\ IsFiniteSet(Ops) /\ NoGroup \notin Group
    /\ \A o \in Ops : /\ o.seq \in Nat \ {0} /\ o.at \in Nat
                      /\ o.batch \in Nat /\ o.group \in Group \cup {NoGroup}
    /\ \A o, p \in Ops : o.at = p.at => o = p
    /\ \A o, p \in Ops : (ChainOf(o) = ChainOf(p) /\ o.seq = p.seq) => o = p
    /\ \A g \in Group : SizeOf[g] \in Nat /\ SizeOf[g] >= 2

\* append_and_fold_group: a group of a device modelled here is one commit of
\* that device, and names the number of its members.
ASSUME GroupAssumption ==
    \A o \in Ops : (o.dev \in Replica /\ o.group # NoGroup) =>
        /\ SizeOf[o.group] =
               Cardinality(Members(o.group) \cap Batch(o.dev, o.batch))
        /\ \A p \in Members(o.group) :
               p.dev \in Replica => p \in Batch(o.dev, o.batch)

VARIABLES rep,       \* rep[r]: the vault of replica r, see EmptyVault
          published, \* the ops the relay can deliver
          snaps,     \* the snapshot records written
          rebuilds   \* history: how many rebuilds ran

vars == <<rep, published, snaps, rebuilds>>

(***************************************************************************)
(* One vault.  `log` is the `ops` table; `row` the `pending_groups` table: *)
(* "held" is applied = 0; `folded` the ops whose effect the merge state    *)
(* holds; `pruned` those of them whose version row is gone; `floor` the    *)
(* `compaction_floor` table; `joined` is history: what came folded in a    *)
(* snapshot.                                                               *)
(***************************************************************************)
EmptyVault == [log |-> {}, row |-> [o \in Ops |-> "none"], folded |-> {},
               pruned |-> {}, floor |-> [c \in Chain |-> 0], joined |-> {}]

\* What Step leaves of v when it takes the ops S one by one in stamp order.
Latest(S) == CHOOSE o \in S : \A p \in S : p.at <= o.at

InStampOrder(Step(_, _), v, S) ==
    LET before(o) == {p \in S : p.at < o.at}
        upto[o \in S] ==
            Step(IF before(o) = {} THEN v ELSE upto[Latest(before(o))], o)
    IN  IF S = {} THEN v ELSE upto[Latest(S)]

Covered(v, o) == o.seq <= v.floor[ChainOf(o)]

\* The run upsert_sync_cursor finds above the floor.
Cursor(v, c) ==
    LET held == {o.seq : o \in {p \in v.log : ChainOf(p) = c}}
        runs == {n \in held : \A k \in (v.floor[c] + 1)..n : k \in held}
    IN  Max({v.floor[c]} \cup runs)

\* INSERT OR IGNORE INTO pending_groups.
Record(v, o, applied) ==
    IF v.row[o] = "none"
    THEN [v EXCEPT !.row[o] = IF applied THEN "applied" ELSE "held"]
    ELSE v

Present(v, g) == {o \in Members(g) : v.row[o] # "none"}
HeldOf(v, g) == {o \in Members(g) : v.row[o] = "held"}

\* Fold every held member of the groups G of which `size` are present.  Folds
\* commute, so the stamp order the code folds in leaves no trace here, and no
\* two groups share a row, so neither does the order of the groups.
ApplyHeld(v, G) ==
    LET done == {o \in Ops : /\ o.group \in G /\ v.row[o] = "held"
                             /\ Cardinality(Present(v, o.group)) >= SizeOf[o.group]}
    IN  [v EXCEPT !.folded = @ \cup done,
                  !.row = [o \in Ops |-> IF o \in done THEN "applied" ELSE @[o]]]

TryComplete(v, g) == ApplyHeld(v, {g})

FoldReceived(v, o) ==
    IF o.group = NoGroup
    THEN [v EXCEPT !.folded = @ \cup {o}]
    ELSE TryComplete(Record(v, o, FALSE), o.group)

\* apply_remote_all for an op that opens: a covered position and one the
\* log holds are duplicates.
Receive(v, o) ==
    IF o \in v.log \/ Covered(v, o) THEN v
    ELSE FoldReceived([v EXCEPT !.log = @ \cup {o}], o)

CompleteReadyGroups(v) ==
    ApplyHeld(v, {g \in Group : HeldOf(v, g) # {}})

\* join_stream_state: the effects S join, and each member the state names is
\* recorded as present and applied.
JoinState(v, S, named) ==
    [v EXCEPT !.folded = @ \cup S,
              !.row = [o \in Ops |-> IF o \in named /\ o.group # NoGroup
                                        /\ @[o] = "none"
                                     THEN "applied" ELSE @[o]]]

(***************************************************************************)
(* append_and_fold_group: the members are logged, recorded applied and     *)
(* folded in one transaction.  A lone op is append_and_fold.               *)
(***************************************************************************)
Write(r, n) ==
    /\ Batch(r, n) # {} /\ Batch(r, n) \cap rep[r].log = {}
    /\ \A o \in Batch(r, n) : ~Covered(rep[r], o)
    /\ \A p \in Ops : (p.dev = r /\ p.batch < n) => p \in published
    /\ LET logged == [rep[r] EXCEPT !.log = @ \cup Batch(r, n)]
       IN  rep' = [rep EXCEPT ![r] = JoinState(logged, Batch(r, n), Batch(r, n))]
    /\ published' = published \cup Batch(r, n)
    /\ UNCHANGED <<snaps, rebuilds>>

Deliver(r, o) ==
    /\ o \in published
    /\ rep' = [rep EXCEPT ![r] = Receive(@, o)]
    /\ UNCHANGED <<published, snaps, rebuilds>>

\* Mutant of Deletable: compaction does not look at pending_groups.
DeletableHeld(v, c, target) ==
    {o \in v.log : ChainOf(o) = c /\ o.seq <= target}

Deletable(v, c, target) ==
    {o \in v.log : /\ ChainOf(o) = c /\ o.seq <= target
                   /\ v.row[o] # "held"}

\* compact_stream for one prefix, strictly below this replica's own tip.  How
\* far the acknowledgements let it go is the module OpChains' concern.
Compact(r, c) ==
    \E target \in (rep[r].floor[c] + 1)..(Cursor(rep[r], c) - 1) :
        /\ rep' = [rep EXCEPT ![r].floor[c] = target,
                              ![r].log = @ \ Deletable(rep[r], c, target)]
        /\ UNCHANGED <<published, snaps, rebuilds>>

\* prune_versions, of a version whose op is below its floor and gone from
\* the log.  Which of those are passed is not modelled: any may be.
Prune(r, o) ==
    /\ o \in rep[r].folded \ (rep[r].log \cup rep[r].pruned)
    /\ Covered(rep[r], o)
    /\ rep' = [rep EXCEPT ![r].pruned = @ \cup {o}]
    /\ UNCHANGED <<published, snaps, rebuilds>>

(***************************************************************************)
(* snapshot_record: refused while an op is held above its prefix.  The     *)
(* record carries the effects of the stream's ops, naming the members      *)
(* whose versions were pruned, its frontier, and the held members as ops   *)
(* (`retained`).                                                           *)
(***************************************************************************)
OfStream(S, s) == {o \in S : o.stream = s}

WriteSnapshot(r, s) ==
    /\ Cardinality(snaps) < MaxSnaps
    /\ \A o \in OfStream(rep[r].log, s) : o.seq <= Cursor(rep[r], ChainOf(o))
    /\ LET front == [c \in Chain |-> IF c[1] = s THEN Cursor(rep[r], c) ELSE 0]
       IN  /\ \E c \in Chain : front[c] > 0
           /\ snaps' = snaps \cup
                {[stream   |-> s, front |-> front,
                  state    |-> OfStream(rep[r].folded, s),
                  retained |-> {o \in OfStream(rep[r].log, s) :
                                  rep[r].row[o] = "held"}]}
    /\ UNCHANGED <<rep, published, rebuilds>>

\* apply_snapshot once it is known to add something: the retained ops through
\* the receive path, then, in one transaction, the state, the floors and the
\* groups they completed.
Joined(v, rec) ==
    LET received == InStampOrder(Receive, v, rec.retained)
    IN  [JoinState(received, rec.state, rec.state) EXCEPT
            !.floor = [c \in Chain |-> Max({@[c], rec.front[c]})],
            !.joined = @ \cup rec.state]

\* Mutant of JoinSnapshot: nothing completes the groups a join made ready.
JoinSnapshotIdle(v, rec) == Joined(v, rec)

JoinSnapshot(v, rec) == CompleteReadyGroups(Joined(v, rec))

ApplySnapshot(r, rec) ==
    /\ \E c \in Chain : Cursor(rep[r], c) < rec.front[c]
    /\ rep' = [rep EXCEPT ![r] = JoinSnapshot(@, rec)]
    /\ UNCHANGED <<published, snaps, rebuilds>>

\* dump_compacted_base: what ops at or below a floor wrote.
CompactedBase(v) == {o \in v.folded : Covered(v, o)}

\* Mutant of Cleared: every group row is cleared.
ClearedAll(v) == [v EXCEPT !.folded = {}, !.row = [o \in Ops |-> "none"]]

\* `clear`: the projection, and the group rows whose ops the log still holds.
Cleared(v) ==
    [v EXCEPT !.folded = {},
              !.row = [o \in Ops |-> IF o \in v.log THEN "none" ELSE @[o]]]

\* rebuild_in: the base joins the cleared state and the log refolds over it.
\* The base names a member by its version, so not one that was pruned.
Rebuilt(v) ==
    LET base == CompactedBase(v)
    IN  InStampOrder(FoldReceived, JoinState(Cleared(v), base, base \ v.pruned),
                     v.log)

Rebuild(r) ==
    /\ rebuilds < MaxRebuilds
    /\ rep' = [rep EXCEPT ![r] = Rebuilt(@)]
    /\ rebuilds' = rebuilds + 1
    /\ UNCHANGED <<published, snaps>>

\* An op of a device that is not a replica here names a group only after
\* the group was written: its id was drawn at random.
Foreign(o) ==
    /\ o.dev \notin Replica
    /\ o.group # NoGroup =>
          \A p \in Members(o.group) : p.dev \in Replica => p \in published
    /\ published' = published \cup {o}
    /\ UNCHANGED <<rep, snaps, rebuilds>>

Init ==
    /\ rep = [r \in Replica |-> EmptyVault]
    /\ published = {} /\ snaps = {} /\ rebuilds = 0

Next ==
    \/ \E o \in Ops : Foreign(o)
    \/ \E r \in Replica :
        \/ \E n \in {o.batch : o \in Ops} : Write(r, n)
        \/ \E o \in published : Deliver(r, o)
        \/ \E c \in Chain : Compact(r, c)
        \/ \E o \in Ops : Prune(r, o)
        \/ \E s \in {o.stream : o \in Ops} : WriteSnapshot(r, s)
        \/ \E rec \in snaps : ApplySnapshot(r, rec)
        \/ Rebuild(r)

Spec == Init /\ [][Next]_vars

-----------------------------------------------------------------------------
\* D8 of groups.rs: of the ops present, those in no group and the members of
\* a group of which `size` are present, counting those below a floor.
OpsPresent(v) == v.log \cup v.joined \cup CompactedBase(v)

MayShow(v) ==
    {o \in OpsPresent(v) :
        o.group # NoGroup =>
            Cardinality(Members(o.group) \cap OpsPresent(v)) >= SizeOf[o.group]}

(***************************************************************************)
(* D8: what a replica folds is one function of the ops present, whatever   *)
(* the order they came in and whether as ops, in a snapshot or both: no op *)
(* folded outside a snapshot is folded early, and none is still held once  *)
(* its group is whole, whatever completed it.                              *)
(***************************************************************************)
FunctionOfOpsPresent ==
    \A r \in Replica :
        /\ MayShow(rep[r]) \subseteq rep[r].folded
        /\ rep[r].folded \ rep[r].joined \subseteq MayShow(rep[r])

(***************************************************************************)
(* crdt-design.md, Groups: "So no replica ever shows part of a group, and  *)
(* what it shows is still a function of the ops it holds."  Everything     *)
(* folded is alone or of a group of which `size` members are present.      *)
(***************************************************************************)
NoPartOfAGroupShows ==
    \A r \in Replica : rep[r].folded \subseteq MayShow(rep[r])

(***************************************************************************)
(* try_complete opens every held member from the log and fails the whole   *)
(* delivery if it is gone: compaction, a snapshot join and a rebuild leave *)
(* each held member logged, and unfolded unless a snapshot brought it.     *)
(***************************************************************************)
HeldIsLogged ==
    \A r \in Replica, o \in Ops :
        rep[r].row[o] = "held" =>
            o \in rep[r].log /\ (o \in rep[r].folded => o \in rep[r].joined)

(***************************************************************************)
(* rebuild.rs: a rebuild lands on the projection the receive path built,   *)
(* though part of a group may be below a floor and gone from the log.      *)
(***************************************************************************)
RebuildIdentity ==
    [][\A r \in Replica : Rebuild(r) => rep'[r].folded = rep[r].folded]_vars
=============================================================================
