----------------------------- MODULE Revocation -----------------------------
(***************************************************************************)
(* One vault's view of which devices the account has revoked: the ledger   *)
(* of device_revoke ops, the register derived from it, the read bounds, and *)
(* the intents that tell the relay (engine/revocation.rs, relay_intents.rs).*)
(*                                                                         *)
(* Ops of other devices reach the vault in any order: a device is reached  *)
(* by several relay frames, some ops wait for a key, some for the cert of  *)
(* their signer.  The ledger is therefore meant to be a function of the    *)
(* ops received, the read bounds are meant only to grow, and an intent has *)
(* to survive a revocation that is disbelieved for a while.                *)
(*                                                                         *)
(* The relay is told by the sync driver.  It drains the intents when a     *)
(* session starts and when a local command woke it, and at no other time;  *)
(* each call of a drain awaits the relay, while local commands go on.      *)
(*                                                                         *)
(* The key rotation a revocation runs is module KeyEpochs' subject; the    *)
(* rotation of the account identity is not modelled.                       *)
(***************************************************************************)
EXTENDS Naturals, FiniteSets, RevocationFold

CONSTANTS Device,       \* device ids; numbers, because ties go by id order
          Self,         \* the device that owns the vault
          Adopted,      \* devices the sponsor of the pairing had bounded
          Lost,         \* the device whose report to the relay is followed
          TargetCap,    \* REVOKE_TARGETS_PER_SENDER
          MaxStamp,     \* bound on the stamps of revoke ops
          MaxOps        \* bound on the revoke ops received or written

ASSUME RevocationAssumption ==
    /\ Device \subseteq Nat
    /\ Self \in Device
    /\ Adopted \subseteq Device \ {Self}
    /\ Lost \in Device \ {Self}
    /\ TargetCap \in Nat \ {0}
    /\ MaxStamp \in Nat
    /\ MaxOps \in Nat

VARIABLES applied,      \* the revoke ops applied, a history of the log
          ledger,       \* device_revoke_ops
          register,     \* device_revocations: the devices called revoked
          bounds,       \* device_read_bounds: "none", or who bounded it
          certs,        \* devices: the ids with a cert here
          intents,      \* relay_revocation_intents
          answered,     \* the devices the relay has answered a revocation of
          session,      \* the driver: "down", "up", or "recv", reading a frame
          wake,         \* the permit of submit_notified
          due,          \* a drain's snapshot of the intents, what is left of it
          sending       \* the revocations a drain awaits the relay for, at most one

vaultVars == <<applied, ledger, register, bounds, certs>>
driverVars == <<session, wake, due, sending>>
vars == <<vaultVars, intents, answered, driverVars>>

-----------------------------------------------------------------------------
(* The ledger and what is derived from it                                  *)

\* A row of the ledger: a revoke op's stamp, its author and the device it names.
Revoke == [at : 1..MaxStamp, from : Device, target : Device]

\* The order in which an author's targets are ranked: by stamp, then by id.
Before(x, y) == x.at < y.at \/ (x.at = y.at /\ x.target < y.target)

SamePair(x, y) == x.from = y.from /\ x.target = y.target

\* compact_device_revoke_ops: the newest row of each author and target.
Compacted(L) == {x \in L : ~\E y \in L : SamePair(x, y) /\ x.at < y.at}

\* The rows a capped ledger ranks above x: heads of other pairs of its author.
RankedAbove(L, x) ==
    LET Heads == Compacted(L)
        head  == CHOOSE h \in Heads : SamePair(h, x)
    IN  {h \in Heads : h.from = x.from /\ Before(head, h)}

\* cap_device_revoke_targets: an author keeps the pairs with the latest heads.
Capped(L) == {x \in L : Cardinality(RankedAbove(L, x)) < TargetCap}

Bounded == {d \in Device : bounds[d] # "none"}

-----------------------------------------------------------------------------
(* Applying a revoke op                                                    *)

\* The upsert of the fold: a bound of the register's is this vault's own.
Bound(b, R) == [d \in Device |-> IF d \in R THEN "own" ELSE b[d]]

\* Mutant of Released: without the test for a cert.
ReleasedCertified(b, L) ==
    [d \in Device |-> IF b[d] = "own" /\ d \notin Targets(L) THEN "none" ELSE b[d]]

\* release_orphan_read_bounds: own bounds of ids with no cert and no row.
Released(b, L) ==
    [d \in Device |-> IF b[d] = "own" /\ d \notin certs /\ d \notin Targets(L)
                      THEN "none" ELSE b[d]]

\* Mutant of ApplyDeviceRevoke: the op is judged as it arrives, and the rows
\* believed before are left alone.
ApplyDeviceRevokeOnArrival(x) ==
    IF x.from = x.target
    THEN UNCHANGED <<ledger, register, bounds>>
    ELSE LET L == Capped(ledger \union {x})
             R == IF x \in Believed(L) THEN register \union {x.target} ELSE register
         IN  /\ ledger' = Compacted(L)
             /\ register' = R
             /\ bounds' = Released(Bound(bounds, R), Compacted(L))

\* apply_device_revoke: record, cap, refold, compact, release.
ApplyDeviceRevoke(x) ==
    IF x.from = x.target
    THEN UNCHANGED <<ledger, register, bounds>>
    ELSE LET L == Capped(ledger \union {x})
         IN  /\ ledger' = Compacted(L)
             /\ register' = Register(L)
             /\ bounds' = Released(Bound(bounds, Register(L)), Compacted(L))

-----------------------------------------------------------------------------
(* Actions                                                                 *)

\* A new account's vault knows only itself; one that was paired starts with
\* the bounds of its sponsor (adopt_sponsor_read_bounds).
Init ==
    /\ applied = {}
    /\ ledger = {}
    /\ register = {}
    /\ bounds = [d \in Device |-> IF d \in Adopted THEN "sponsor" ELSE "none"]
    /\ certs = {Self}
    /\ intents = {}
    /\ answered = {}
    /\ session = "down"
    /\ wake = FALSE
    /\ due = {}
    /\ sending = {}

\* OWED_RELAY_REVOCATIONS_SQL
Owed == intents \intersect register

\* The driver awaits the drain: it reads no frame and starts no other drain.
Draining == due # {} \/ sending # {}

\* A device's cert is applied from a frame; certs never leave the table.
ApplyCert(d) ==
    /\ session = "recv"
    /\ d \notin certs
    /\ certs' = certs \union {d}
    /\ UNCHANGED <<applied, ledger, register, bounds, intents, answered, driverVars>>

\* A revoke op of another device is applied from a frame.  Its signer has to be
\* known; its stamp is the sender's to choose, and two of its ops may share one.
Deliver(x) ==
    /\ session = "recv"
    /\ Cardinality(applied) < MaxOps
    /\ x.from \in certs \ {Self}
    /\ x \notin applied
    /\ applied' = applied \union {x}
    /\ ApplyDeviceRevoke(x)
    /\ UNCHANGED <<certs, intents, answered, driverVars>>

\* revoke_device: the vault's clock is above every stamp it has applied, the
\* relay is to be told of a revocation that is believed, and the driver is woken.
RevokeDevice(t, at) ==
    /\ Cardinality(applied) < MaxOps
    /\ t \in certs \ {Self}
    /\ \A x \in applied : x.at < at
    /\ LET x == [at |-> at, from |-> Self, target |-> t]
       IN  /\ applied' = applied \union {x}
           /\ ApplyDeviceRevoke(x)
    /\ intents' = IF t \in register' THEN intents \union {t} ELSE intents
    /\ wake' = TRUE
    /\ UNCHANGED <<certs, answered, session, due, sending>>

\* poke_submit of any other local command, or of a remote op that left rows
\* in the outbox.
Poke ==
    /\ wake' = TRUE
    /\ UNCHANGED <<vaultVars, intents, answered, session, due, sending>>

\* run_session starts: the intents are drained before the first frame is read.
Connect ==
    /\ session = "down"
    /\ session' = "up"
    /\ due' = Owed
    /\ UNCHANGED <<vaultVars, intents, answered, wake, sending>>

\* recv_frame is ready: it goes before the wake in the pump's biased select.
Frame ==
    /\ session = "up" /\ ~Draining
    /\ session' = "recv"
    /\ UNCHANGED <<vaultVars, intents, answered, wake, due, sending>>

\* The frame is applied and the pump turns.
Handled ==
    /\ session = "recv"
    /\ session' = "up"
    /\ UNCHANGED <<vaultVars, intents, answered, wake, due, sending>>

\* SessionEvent::Submit: the wake is taken and the intents are drained.
Submit ==
    /\ session = "up" /\ ~Draining
    /\ wake
    /\ wake' = FALSE
    /\ due' = Owed
    /\ UNCHANGED <<vaultVars, intents, answered, session, sending>>

\* A drain comes to t: the snapshot may be stale, so the vault is asked again.
Ask(t) ==
    /\ sending = {}
    /\ t \in due
    /\ due' = due \ {t}
    /\ sending' = {t} \intersect Owed
    /\ UNCHANGED <<vaultVars, intents, answered, session, wake>>

\* Mutant of Answer: the intents that are not owed are dropped with it.
AnswerDroppingOthers(t) ==
    /\ t \in sending
    /\ sending' = {}
    /\ answered' = answered \union {t}
    /\ intents' = Owed \ {t}
    /\ UNCHANGED <<vaultVars, session, wake, due>>

\* The relay answers, having dropped the device or not knowing it, and the
\* intent is cleared, though a local command may have unwound it meanwhile.
Answer(t) ==
    /\ t \in sending
    /\ sending' = {}
    /\ answered' = answered \union {t}
    /\ intents' = intents \ {t}
    /\ UNCHANGED <<vaultVars, session, wake, due>>

\* The call fails: note_relay_revocation_attempt, and the drain goes on.
CallFails ==
    /\ sending # {}
    /\ sending' = {}
    /\ UNCHANGED <<vaultVars, intents, answered, session, wake, due>>

\* The session ends, or the process does and takes the permit with it.  The
\* relay may have acted on a call whose answer is lost with the drain.
Drop ==
    /\ session # "down"
    /\ session' = "down"
    /\ due' = {}
    /\ sending' = {}
    /\ wake' \in {wake, FALSE}
    /\ answered' \in {answered, answered \union sending}
    /\ UNCHANGED <<vaultVars, intents>>

Next ==
    \/ \E d \in Device : ApplyCert(d)
    \/ \E x \in Revoke : Deliver(x)
    \/ \E t \in Device, at \in 1..MaxStamp : RevokeDevice(t, at)
    \/ Poke
    \/ Connect
    \/ Frame
    \/ Handled
    \/ Submit
    \/ \E t \in Device : Ask(t)
    \/ \E t \in Device : Answer(t)
    \/ CallFails
    \/ Drop

Spec == Init /\ [][Next]_vars

\* The drain goes on: every call to the relay has a deadline (HEAD_TIMEOUT).
DrainOn == CallFails \/ \E t \in Device : Ask(t) \/ Answer(t)

\* The driver reconnects, turns its pump and runs its drains; a relay asked
\* again and again about Lost, in sessions that do not all end first, answers.
FairSpec ==
    /\ Spec
    /\ WF_vars(Connect) /\ WF_vars(Handled) /\ WF_vars(Submit) /\ WF_vars(DrainOn)
    /\ SF_vars(Ask(Lost)) /\ SF_vars(Answer(Lost))

-----------------------------------------------------------------------------
(* Properties                                                              *)

\* What the ledger holds of a set of ops, stated over the whole set: of each
\* author, the newest op on each of the TargetCap targets it named last.
LedgerOf(S) ==
    LET Heads == {x \in S : x.from # x.target /\ \A y \in S : SamePair(x, y) => y.at <= x.at}
    IN  {x \in Heads : Cardinality({y \in Heads : y.from = x.from /\ Before(x, y)}) < TargetCap}

(***************************************************************************)
(* Two vaults that applied the same revoke ops agree on who is revoked:    *)
(* the ledger and the register, kept one op at a time with eviction and    *)
(* compaction in between, are what the whole set of ops applied defines,   *)
(* whatever order apply_device_revoke met them in.                         *)
(***************************************************************************)
LedgerIsAFunctionOfTheOps ==
    /\ ledger = LedgerOf(applied)
    /\ register = Register(LedgerOf(applied))

(***************************************************************************)
(* A device whose revocations refold_device_revocations disbelieves is     *)
(* itself on the register: nobody loses the right to revoke by the word of *)
(* devices that are not believed.                                          *)
(***************************************************************************)
OnlyRevokedAreGated ==
    \A x \in ledger : Gated(ledger, x) => x.from \in register

(***************************************************************************)
(* No device takes itself off the register by what it writes: if the rows  *)
(* of the others revoke it, so does the ledger with its own rows, the ones *)
(* against its revokers included (the discount and the exception for       *)
(* mutual revocations in refold_device_revocations).                       *)
(***************************************************************************)
NobodyFreesItself ==
    \A d \in Device :
        d \in Register({x \in ledger : x.from # d}) => d \in register

(***************************************************************************)
(* A revoked device is read-bounded, so no key is sealed to it, and a      *)
(* device with a cert never loses its bound, though the register may take  *)
(* its revocation back and the cap may take the row that named it.         *)
(***************************************************************************)
BoundsStand ==
    [][/\ register' \subseteq {d \in Device : bounds'[d] # "none"}
       /\ Bounded \intersect certs \subseteq {d \in Device : bounds'[d] # "none"}]_vars

\* A session that goes on without a wake and without a drain.
Quiet == session # "down" /\ ~wake /\ ~Draining

(***************************************************************************)
(* A revocation of Lost by this vault, believed when made, is answered by  *)
(* the relay if the register goes on believing it, even when it was        *)
(* disbelieved in between and drained around (relay_intents::drain). Three *)
(* things can keep it from the relay for ever: a register that turns       *)
(* against it again and again, a session without an end in which nothing   *)
(* wakes the driver, and frames that never leave the wake a turn.          *)
(***************************************************************************)
BelievedIsReported ==
    [](Lost \in intents => \/ <>(Lost \in answered)
                           \/ []<>(Lost \notin register)
                           \/ <>[]Quiet
                           \/ []<>(session = "recv"))
=============================================================================
