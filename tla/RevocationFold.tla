--------------------------- MODULE RevocationFold ---------------------------
(***************************************************************************)
(* Which devices a set of revoke ops revokes: refold_device_revocations of *)
(* engine/revocation.rs.  A row names its author (from) and the device it  *)
(* revokes (target); the fold asks nothing else of it.                     *)
(***************************************************************************)

Revokers(L, d) == {x.from : x \in {y \in L : y.target = d /\ y.from # d}}

\* Mutant of Kept: no revoker is discounted.
KeptAll(L, d) == Revokers(L, d)

\* A revoker of d counts unless somebody other than d has revoked it.
Kept(L, d) == {s \in Revokers(L, d) : Revokers(L, s) \subseteq {d}}

\* Mutant of Gated: without the exception for a pair that revoke each other.
GatedByAnyone(L, x) == Kept(L, x.from) # {}

\* A row is not believed while its author has a kept revoker other than its target.
Gated(L, x) == \E r \in Kept(L, x.from) : r # x.target

Believed(L) == {x \in L : x.from # x.target /\ ~Gated(L, x)}

Targets(L) == {x.target : x \in L}

\* refold_device_revocations: a device is revoked by a row that is believed.
\* Which of several such rows supplies the reason shown is left out.
Register(L) == Targets(Believed(L))
=============================================================================
