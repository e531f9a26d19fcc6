----------------------------- MODULE VersionDag -----------------------------
(***************************************************************************)
(* The version order of one entity, crates/sunrise-core/src/engine/merge/  *)
(* versions.rs: what `admit_version` stores for a version that arrives,    *)
(* and what `recompute` makes of the rows when it arrived late.            *)
(*                                                                         *)
(* A version here is any record with fields `at` (its stamp) and           *)
(* `parents` (the stamps of the versions it names; {} for a full-state op, *)
(* which has no `parents` key).  The rows of `entity_frontier` are a       *)
(* function from the stamps of the applied versions to frontiers, and a    *)
(* frontier is total over Device with NoStamp for a missing row.           *)
(***************************************************************************)
EXTENDS Stamps, TLC

Stamps(vs) == {v.at : v \in vs}

VersionAt(vs, at) == CHOOSE v \in vs : v.at = at

\* The rows F with the frontier f stored at the stamp.
WithRow(F, at, f) == [a \in DOMAIN F \cup {at} |-> IF a = at THEN f ELSE F[a]]

SelfOnly(at) == [d \in Device |-> IF d = at.dev THEN at ELSE NoStamp]

\* join: device by device, the greater stamp.
Join(f, g) == [d \in Device |-> Later(f[d], g[d])]

JoinAll(f, gs) == [d \in Device |-> Greatest({f[d]} \cup {g[d] : g \in gs})]

\* reached_by: whether the version stamped a precedes one whose frontier is f.
ReachedBy(a, f) == AtMost(a, f[a.dev])

\* precedes, and register.rs Frontiers::precedes.
Precedes(F, a, b) == a # b /\ ReachedBy(a, F[b])

\* previous_of_device (D2): the same device's greatest stamp below at.
PreviousOfDevice(vs, at) ==
    Greatest({s \in Stamps(vs) : s.dev = at.dev /\ Below(s, at)})

\* The versions v draws its frontier from: the applied parents whose stamp is
\* smaller (D3), and its device's previous version (D2).
Edges(vs, v) ==
    {p \in v.parents \cap Stamps(vs) : Below(p, v.at)}
        \cup ({PreviousOfDevice(vs, v.at)} \ {NoStamp})

\* Mutant of ArrivedLate: forgets that a later op of the device was admitted
\* without its edge to this one.
ArrivedLateByNameOnly(vs, v) ==
    \E w \in vs : Below(v.at, w.at) /\ v.at \in w.parents

\* arrived_late: a version with a greater stamp, of the same device or naming
\* v, was computed without it.
ArrivedLate(vs, v) ==
    \E w \in vs : /\ Below(v.at, w.at)
                  /\ w.at.dev = v.at.dev \/ v.at \in w.parents

FrontierOf(F, vs, v) ==
    JoinAll(SelfOnly(v.at), {F[p] : p \in Edges(vs, v)})

(***************************************************************************)
(* recompute: one pass in stamp order, each frontier starting from the one *)
(* stored (none for the version just inserted).  Every edge goes to a      *)
(* smaller stamp, so what the pass reads along it is final: the rows it    *)
(* leaves are those that satisfy this recursion.  Then the heads: each     *)
(* device's latest version, unless another device's latest reaches it.     *)
(***************************************************************************)
Recompute(vs, stored) ==
    LET base(at) == IF at \in DOMAIN stored THEN stored[at] ELSE SelfOnly(at)
        F[at \in Stamps(vs)] ==
            Join(base(at), FrontierOf(F, vs, VersionAt(vs, at)))
    IN  F

RecomputedHeads(vs, F) ==
    LET latest == {s \in Stamps(vs) :
                      ~\E t \in Stamps(vs) : t.dev = s.dev /\ Below(s, t)}
    IN  {c \in latest : ~\E d \in latest : d # c /\ ReachedBy(c, F[d])}

\* Mutant of AdmitOnTime: the heads it reaches stay heads.
AdmitOnTimeKeepingHeads(vs, F, heads, v) ==
    [frontier |-> WithRow(F, v.at, FrontierOf(F, vs, v)),
     heads    |-> heads \cup {v.at},
     refined  |-> FALSE]

(***************************************************************************)
(* admit_version on the rows (vs, F, heads), for a version not among them. *)
(* On time, every version v reaches is applied and its frontier final: v   *)
(* becomes a head and the heads it reaches stop being heads.               *)
(***************************************************************************)
AdmitOnTime(vs, F, heads, v) ==
    LET f == FrontierOf(F, vs, v)
    IN  [frontier |-> WithRow(F, v.at, f),
         heads    |-> {h \in heads : ~ReachedBy(h, f)} \cup {v.at},
         refined  |-> FALSE]

AdmitLate(vs, F, v) ==
    LET G == Recompute(vs \cup {v}, F)
    IN  [frontier |-> G,
         heads    |-> RecomputedHeads(vs \cup {v}, G),
         refined  |-> TRUE]

AdmitVersion(vs, F, heads, v) ==
    IF ArrivedLate(vs, v) THEN AdmitLate(vs, F, v)
    ELSE AdmitOnTime(vs, F, heads, v)
=============================================================================
