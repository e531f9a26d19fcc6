-------------------------- MODULE EntityMergeProps --------------------------
(***************************************************************************)
(* What the merge promises, stated without its incremental machinery: as   *)
(* functions of the set of ops a replica has applied, and of what the      *)
(* writer of each op had seen when it wrote it.                            *)
(***************************************************************************)
EXTENDS EntityMerge

-----------------------------------------------------------------------------
(* The version order. *)

\* What each element reaches along the edges D: D is a function from elements
\* to sets of them that has no cycle.
Closure(D) ==
    LET r[a \in DOMAIN D] == D[a] \cup UNION {r[b] : b \in D[a]}
    IN  r

\* versions.rs module docs: a version reaches the smaller-stamped parents it
\* names and every earlier version of its device, and what they reach.
Direct(vs) ==
    [a \in Stamps(vs) |->
        {b \in Stamps(vs) : /\ Below(b, a)
                            /\ \/ a.dev = b.dev
                               \/ \E v \in vs : v.at = a /\ b \in v.parents}]

Reach(vs) == Closure(Direct(vs))

(***************************************************************************)
(* versions.rs: "after each admission the stored frontiers and heads are   *)
(* exactly those of the versions applied, whatever order they came in".    *)
(* Every stored frontier decides the order as reachability among the       *)
(* applied versions does, and the heads are the versions nothing descends  *)
(* from.                                                                   *)
(***************************************************************************)
OrderExact ==
    \A d \in Device :
        LET s == rep[d]
            reach == Reach(s.versions)
        IN  /\ \A a, b \in Stamps(s.versions) :
                  Precedes(s.frontier, a, b) <=> a \in reach[b]
            /\ s.heads = {a \in Stamps(s.versions) :
                             \A b \in Stamps(s.versions) : a \notin reach[b]}

\* The causal past of each op: what its writer had applied, and the past of
\* that.  A device's op is in the past of its next one, so a writer that
\* applied the second out of order has the first in its past.
Past == Closure(seen)

(***************************************************************************)
(* The stored order is causality as the writers had it: a version precedes *)
(* an op only if it is in the op's causal past, and, once a replica holds  *)
(* all that the writer of a Patch had applied, everything that writer had  *)
(* applied precedes the Patch.                                             *)
(***************************************************************************)
OrderIsCausality ==
    LET past == Past
    IN  \A d \in Device :
          LET s == rep[d]
          IN  \A a \in Stamps(s.versions), v \in s.versions :
                /\ Precedes(s.frontier, a, v.at) => a \in past[v.at]
                /\ (/\ ~v.legacy
                    /\ seen[v.at] \subseteq Stamps(s.versions)
                    /\ a \in seen[v.at]) => Precedes(s.frontier, a, v.at)

-----------------------------------------------------------------------------
(* The registers. *)

Floor(vs) == Greatest(Stamps({v \in vs : v.legacy}))

Writes(vs, f) ==
    {[at |-> v.at, val |-> v.sets[f], origin |-> v.origin] :
        v \in {v \in vs : f \in DOMAIN v.sets}}

(***************************************************************************)
(* register.rs, "the fold, as a function of the versions applied": each    *)
(* register keeps exactly the writes at or above the legacy floor that no  *)
(* other such write descends from.                                         *)
(***************************************************************************)
RegistersExact ==
    \A d \in Device, f \in Field :
        LET vs == rep[d].versions
            reach == Reach(vs)
            candidates == {m \in Writes(vs, f) : ~Below(m.at, Floor(vs))}
        IN  rep[d].members[f] =
              {m \in candidates : \A n \in candidates : m.at \notin reach[n.at]}

(***************************************************************************)
(* ADR-0065 section 3, the conflict classes: a write of the class's        *)
(* dominant value (a terminal state, a delete) by a user stands against    *)
(* every write of the field that does not have it in its causal past,      *)
(* whatever the stamps, unless a full-state op rewrote the entity above    *)
(* it; and a generated write never beats a user write outside its past.    *)
(***************************************************************************)
DominantWriteStands ==
    LET past == Past
    IN \A d \in Device, f \in Field :
        LET s == rep[d]
            live == {m \in Writes(s.versions, f) : ~Below(m.at, s.legacy)}
            unseen(m) == \A n \in live : m.at \notin past[n.at]
        IN  /\ (\E m \in live : /\ m.origin = "user" /\ unseen(m)
                                /\ ClassKey(ClassOf[f], m))
                  => ClassKey(ClassOf[f], [val |-> RegisterValue(s, f)])
            /\ (\E m \in live : m.origin = "user" /\ unseen(m))
                  => Winner(ClassOf[f], s.members[f]).origin = "user"

-----------------------------------------------------------------------------
(* The OR-set, the counter, the map and the bookkeeping. *)

\* Every other part of a state s, as a function of the ops applied to it.
FieldsFollow(s) ==
    LET vs == s.versions
    IN  /\ IsGreatest(s.legacy, Stamps({v \in vs : v.legacy}))
        /\ IsLeast(s.create, Stamps({v \in vs : v.create \/ v.legacy}))
        /\ IsGreatest(s.head, Stamps(vs))
        /\ \A v \in vs : v.legacy \/ v.at.hlc <= s.patched
        /\ s.patched = 0 \/ \E v \in vs : ~v.legacy /\ v.at.hlc = s.patched
        /\ s.adds = UNION {v.adds \X {v.at} :
                             v \in {v \in vs : ~Below(v.at, s.legacy)}}
        /\ s.removes = UNION {v.removes : v \in vs}
        /\ s.deltas = Stamps({v \in vs : /\ ~v.legacy /\ v.inc = 1
                                         /\ ~AtMost(v.at, s.legacy)})
        /\ IF s.legacy = NoStamp THEN s.base = 0
           ELSE \A v \in vs : v.at = s.legacy => s.base = v.base
        /\ \A k \in Key :
             LET ws == {v \in vs : k \in DOMAIN v.puts}
             IN  /\ IsGreatest(s.entries[k].at, Stamps(ws))
                 /\ s.entries[k].at = NoStamp => s.entries[k].val = Absent
                 /\ \A v \in ws : v.at = s.entries[k].at
                                     => s.entries[k].val = v.puts[k]

(***************************************************************************)
(* The field state is one function of the ops a replica applied, whatever  *)
(* order they came in: the legacy floor is the greatest full-state stamp,  *)
(* the create and head stamps are the least and the greatest, `patched` is *)
(* the greatest reading of a Patch, the adds are those at or above the     *)
(* floor, every remove is kept, the deltas are those above the floor and   *)
(* the base the one its op carried, and each map key holds its greatest    *)
(* write (fold_legacy, fold_patch, prune_below_floor).                     *)
(***************************************************************************)
FieldsExact == \A d \in Device : FieldsFollow(rep[d])

(***************************************************************************)
(* An add survives every remove whose writer had not applied it, and a     *)
(* remove takes effect: on a replica that holds all that its writer had    *)
(* applied, no add of the element it had applied is live.                  *)
(***************************************************************************)
ObservedRemove ==
    \A d \in Device :
        LET s == rep[d]
        IN  \A v \in s.versions, e \in Element :
              LET removals == {w \in s.versions : \E r \in w.removes : r[1] = e}
              IN  e \in v.adds =>
                    /\ (/\ ~Below(v.at, s.legacy)
                        /\ \A w \in removals : v.at \notin seen[w.at])
                          => e \in Elements(s)
                    /\ (\E w \in removals :
                            /\ v.at \in seen[w.at]
                            /\ seen[w.at] \subseteq Stamps(s.versions))
                          => <<e, v.at>> \notin LiveAdds(s)

\* What one step may not undo, from the state s to t.
StaysDead(s, t) ==
    /\ \A v \in s.versions : \A e \in v.adds :
          <<e, v.at>> \notin LiveAdds(s) => <<e, v.at>> \notin LiveAdds(t)
    /\ AtMost(s.legacy, t.legacy)
    /\ s.removes \subseteq t.removes

(***************************************************************************)
(* state.rs prune_below_floor: "Nothing deleted here can be read again".   *)
(* An add a replica has applied and that is no longer live never becomes   *)
(* live again, and the floor and the removes never shrink.                 *)
(***************************************************************************)
DeadAddsStayDead == [][\A d \in Device : StaysDead(rep[d], rep'[d])]_vars

-----------------------------------------------------------------------------
(* The whole state. *)

(***************************************************************************)
(* Strong eventual consistency: two replicas that have applied the same    *)
(* ops hold the same rows, and so project the same entity.                 *)
(***************************************************************************)
Convergence ==
    \A d, e \in Device :
        rep[d].versions = rep[e].versions => rep[d] = rep[e]

(***************************************************************************)
(* rebuild.rs, the rebuild identity: a rebuild run in any state leaves     *)
(* every projection table as it was.                                       *)
(***************************************************************************)
RebuildIdentity == \A d \in Device : Rebuilt(rep[d]) = rep[d]
=============================================================================
