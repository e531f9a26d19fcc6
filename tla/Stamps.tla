------------------------------- MODULE Stamps -------------------------------
(***************************************************************************)
(* The merge's comparison key, crates/sunrise-core/src/engine/merge/mod.rs *)
(* `Stamp`: (hlc, device, seq, stream), compared in that order.            *)
(*                                                                         *)
(* Device ids are 16-byte strings compared bytewise; only their order      *)
(* matters, so they are naturals here.  An Hlc reading, itself the pair    *)
(* (physical_ms, logical) compared lexicographically, is one natural: the  *)
(* module Hlc models the pair and shows that a device's own readings       *)
(* strictly increase below the saturation of the counter.  Under that, a   *)
(* device's ops are told apart by their reading alone, and one entity's    *)
(* ops are sealed under one stream, so `seq` and `stream` decide no        *)
(* comparison and are left out; an OpRef (stream, device, seq) names the   *)
(* same op as its stamp and is represented by it.                          *)
(***************************************************************************)
EXTENDS Naturals, FiniteSets

CONSTANTS Device,   \* the replicas of one vault; ids ordered as naturals
          MaxHlc    \* bound on clock readings

ASSUME DeviceAssumption == Device \subseteq Nat
ASSUME MaxHlcAssumption == MaxHlc \in Nat

Stamp == [hlc : 1..MaxHlc, dev : Device]

\* `None` for an Option<Stamp>: below every stamp, so that `at < l` and
\* `at <= l` are false of it, as is_some_and makes them.
NoStamp == [hlc |-> 0, dev |-> 0]

OptStamp == Stamp \cup {NoStamp}

\* Stamp's derived Ord.
Below(a, b) == \/ a.hlc < b.hlc
               \/ a.hlc = b.hlc /\ a.dev < b.dev

AtMost(a, b) == a = b \/ Below(a, b)

Later(a, b) == IF Below(a, b) THEN b ELSE a

\* Option<Stamp>::map_or(at, |c| c.min(at)).
Earlier(c, at) == IF c = NoStamp \/ Below(at, c) THEN at ELSE c

\* The greatest stamp of a set, NoStamp of none.
Greatest(S) == IF S = {} THEN NoStamp
               ELSE CHOOSE a \in S : \A b \in S : AtMost(b, a)

\* m is the greatest (least) stamp of S, NoStamp when S is empty.
IsGreatest(m, S) == \/ S = {} /\ m = NoStamp
                    \/ m \in S /\ \A b \in S : AtMost(b, m)

IsLeast(m, S) == \/ S = {} /\ m = NoStamp
                 \/ m \in S /\ \A b \in S : AtMost(m, b)
=============================================================================
