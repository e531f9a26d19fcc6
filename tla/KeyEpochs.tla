----------------------------- MODULE KeyEpochs ------------------------------
(***************************************************************************)
(* How the key of one stream reaches the devices of an account: epochs     *)
(* minted by rotations and revocations, key envelopes sealed to the        *)
(* devices known at the time, the backfill that each device runs when it   *)
(* learns of a new one, and the table of recipients by which devices avoid *)
(* sealing twice (engine/oplog.rs, engine/sync.rs, keychain/).             *)
(*                                                                         *)
(* Two devices may mint one epoch at once, so a key is its epoch and its   *)
(* minter.  Only the device that created the account holds the identity's  *)
(* secret and can admit others.  The control ops of one transaction travel *)
(* together; those of one device are applied in order, those of several    *)
(* devices in any order.  Whom a device calls revoked is the fold of the   *)
(* revoke ops it has applied (RevocationFold); the cap and the compaction  *)
(* of its ledger are module Revocation's.                                  *)
(*                                                                         *)
(* Left out: the copy of a key that is sealed to the identity, which is    *)
(* for recovery; the key of the vault-meta stream, under which the control *)
(* ops travel (they are taken as readable); the rotation of the identity;  *)
(* the refusal of an epoch MAX_EPOCH_LEAP above a device's own; and which  *)
(* of its keys a device writes under.                                      *)
(***************************************************************************)
EXTENDS Naturals, SequencesExt, RevocationFold

CONSTANTS Device,
          Founder,      \* the device that created the account
          Initial,      \* the devices paired before the model starts
          Rotators,     \* the devices whose users rotate keys or revoke
          MaxMints,     \* bound on the keys in the account
          MaxRevokes    \* bound on the revocations

ASSUME KeyEpochsAssumption ==
    /\ Founder \in Initial
    /\ Initial \union Rotators \subseteq Device
    /\ {MaxMints, MaxRevokes} \subseteq Nat

VARIABLES members,      \* the devices that have a vault
          log,          \* what each device has published, by transaction
          read,         \* how many entries of each peer a device has applied
          keys,         \* stream_keys: the keys each device holds
          recipients,   \* key_envelope_recipients: epoch and device
          certs,        \* devices: the certs each device has applied
          ledger,       \* device_revoke_ops: the revocations each device applied
          bounded       \* device_read_bounds

vars == <<members, log, read, keys, recipients, certs, ledger, bounded>>

Key(e, d) == [epoch |-> e, by |-> d]

\* The envelope that seals key k to device d.
Seal(d, k) == [to |-> d, key |-> k]

\* A row of a ledger: the author of a revoke op and the device it names.
Row(d, t) == [from |-> d, target |-> t]

\* The control ops of a transaction: a cert or not, the devices it revokes and
\* the envelopes, in this order.
Entry(cert, revokes, seals) == [cert |-> cert, revokes |-> revokes, seals |-> seals]

-----------------------------------------------------------------------------
(* The parts of the handlers                                               *)

EpochsOf(K) == {k.epoch : k \in K}

\* max_epoch_tx
MaxEpoch(K) == Max(EpochsOf(K) \union {0})

\* One key of each epoch held.  The cache lists an epoch's keys in the order
\* they came, and after a restart in the order of an unordered query.
Firsts(K) == {F \in SUBSET K : /\ EpochsOf(F) = EpochsOf(K)
                               /\ \A j, k \in F : j.epoch = k.epoch => j = k}

Minted == UNION {keys[d] : d \in Device}

\* The revoke ops in the logs.
Revocations ==
    UNION {{<<d, i>> : i \in {j \in 1..Len(log[d]) : log[d][j].revokes # {}}} : d \in Device}

\* Mutant of Backfill: one device is chosen to seal keys to the new one.
BackfillByFounder(d, e) ==
    IF e = d \/ e \in bounded[d] \/ d # Founder
    THEN {{}}
    ELSE {{Seal(e, k) : k \in F} : F \in Firsts({k \in keys[d] : <<k.epoch, e>> \notin recipients[d]})}

\* backfill_key_envelopes: for a new device that is not bounded, the first key
\* of each epoch held that it is not recorded to have been sealed.
Backfill(d, e) ==
    IF e = d \/ e \in bounded[d]
    THEN {{}}
    ELSE {{Seal(e, k) : k \in F} : F \in Firsts({k \in keys[d] : <<k.epoch, e>> \notin recipients[d]})}

\* record_envelope_recipient
Recorded(seals) == {<<s.key.epoch, s.to>> : s \in seals}

\* Mutant of Publish: the recipients recorded are all devices known,
\* the bounded ones included.
PublishToAll(d, x, seen) ==
    /\ log' = [log EXCEPT ![d] = IF x = Entry(FALSE, {}, {}) THEN @ ELSE Append(@, x)]
    /\ recipients' = [recipients EXCEPT ![d] = @ \union seen \union
                         (EpochsOf({s.key : s \in x.seals}) \X (certs[d] \ {d}))]

\* A device's entry, with the recipients it records itself and those it saw.
Publish(d, x, seen) ==
    /\ log' = [log EXCEPT ![d] = IF x = Entry(FALSE, {}, {}) THEN @ ELSE Append(@, x)]
    /\ recipients' = [recipients EXCEPT ![d] = @ \union seen \union Recorded(x.seals)]

\* mint_epoch, then emit_key_envelopes to the known devices that are not bounded.
Mint(d, bound, revokes) ==
    LET k == Key(MaxEpoch(keys[d]) + 1, d)
    IN  /\ Cardinality(Minted) < MaxMints
        /\ keys' = [keys EXCEPT ![d] = @ \union {k}]
        /\ Publish(d, Entry(FALSE, revokes, {Seal(r, k) : r \in certs[d] \ (bound \union {d})}), {})

-----------------------------------------------------------------------------
(* Actions                                                                 *)

\* An account whose initial devices hold the first epoch, all their ops applied.
Init ==
    LET k      == Key(1, Founder)
        others == Initial \ {Founder}
        seals  == {Seal(r, k) : r \in others}
    IN  /\ members = Initial
        /\ log = [d \in Device |->
                     CASE d = Founder -> <<Entry(TRUE, {}, {}), Entry(FALSE, {}, seals)>>
                       [] d \in others -> <<Entry(TRUE, {}, {})>>
                       [] OTHER -> <<>>]
        /\ read = [d \in Device |-> [e \in Device |->
                     IF d \in Initial THEN Len(log[e]) ELSE 0]]
        /\ keys = [d \in Device |-> IF d \in Initial THEN {k} ELSE {}]
        /\ recipients = [d \in Device |-> IF d \in Initial THEN Recorded(seals) ELSE {}]
        /\ certs = [d \in Device |-> IF d \in Initial THEN Initial ELSE {}]
        /\ ledger = [d \in Device |-> {}]
        /\ bounded = [d \in Device |-> {}]

\* issue_pairing_grant and the joiner's create: one key of each epoch the
\* founder holds, its read bounds, and the joiner's own cert.
Pair(d) ==
    /\ d \notin members
    /\ members' = members \union {d}
    /\ \E F \in Firsts(keys[Founder]) : keys' = [keys EXCEPT ![d] = F]
    /\ bounded' = [bounded EXCEPT ![d] = bounded[Founder]]
    /\ certs' = [certs EXCEPT ![d] = {d}]
    /\ UNCHANGED <<log, read, recipients, ledger>>

\* A vault whose cert is published; before that it neither syncs nor takes
\* commands.
Opened(d) == log[d] # <<>>

\* publish_device_cert, once, when the vault is opened.
PublishDeviceCert(d) ==
    /\ d \in members
    /\ ~Opened(d)
    /\ Publish(d, Entry(TRUE, {}, {}), {})
    /\ UNCHANGED <<members, read, keys, certs, ledger, bounded>>

\* rotate_stream_key: refused on a device that calls itself revoked.
RotateStreamKey(d) ==
    /\ d \in Rotators
    /\ Opened(d)
    /\ d \notin Register(ledger[d])
    /\ Mint(d, bounded[d], {})
    /\ UNCHANGED <<members, read, certs, ledger, bounded>>

\* revoke_device: the op is folded first, then the stream is rotated without the
\* devices now bounded, if the register believes the op.  A revoked device may
\* try, and is believed about its own revoker.
RevokeDevice(d, t) ==
    LET L == ledger[d] \union {Row(d, t)}
        b == bounded[d] \union Register(L)
    IN  /\ d \in Rotators
        /\ Opened(d)
        /\ t \in certs[d] \ {d}
        /\ Cardinality(Revocations) < MaxRevokes
        /\ ledger' = [ledger EXCEPT ![d] = L]
        /\ bounded' = [bounded EXCEPT ![d] = b]
        /\ \/ t \in Register(L) /\ Mint(d, b, {t})
           \/ /\ t \notin Register(L)
              /\ Publish(d, Entry(FALSE, {t}, {}), {})
              /\ UNCHANGED keys
        /\ UNCHANGED <<members, read, certs>>

\* The recipients a device records of a peer's envelopes: itself, and others
\* unless the peer is bounded.
Seen(d, b, e, x) == Recorded({s \in x.seals : s.to = d \/ e \notin b})

\* apply_control_op, for the next entry of a peer: a revocation enters the
\* ledger and the devices the fold then believes revoked are bounded, keys
\* sealed to this device are absorbed, a cert is stored and backfilled.
Apply(d, e) ==
    LET x == log[e][read[d][e] + 1]
        L == ledger[d] \union {Row(e, t) : t \in x.revokes}
        b == bounded[d] \union Register(L)
    IN  /\ Opened(d)
        /\ e # d
        /\ read[d][e] < Len(log[e])
        /\ read' = [read EXCEPT ![d][e] = @ + 1]
        /\ ledger' = [ledger EXCEPT ![d] = L]
        /\ bounded' = [bounded EXCEPT ![d] = b]
        /\ keys' = [keys EXCEPT ![d] = @ \union {s.key : s \in {y \in x.seals : y.to = d}}]
        /\ certs' = [certs EXCEPT ![d] = IF x.cert THEN @ \union {e} ELSE @]
        /\ \E seals \in IF x.cert THEN Backfill(d, e) ELSE {{}} :
              Publish(d, Entry(FALSE, {}, seals), Seen(d, b, e, x))
        /\ UNCHANGED members

Next ==
    \E d \in Device :
        \/ Pair(d)
        \/ PublishDeviceCert(d)
        \/ RotateStreamKey(d)
        \/ \E t \in Device : RevokeDevice(d, t)
        \/ \E e \in Device : Apply(d, e)

Spec == Init /\ [][Next]_vars

-----------------------------------------------------------------------------
(* Properties                                                              *)

\* An envelope of the epoch for the device exists.
Sealed(e, d) ==
    \E f \in Device : \E x \in Range(log[f]) : \E s \in x.seals : s.to = d /\ s.key.epoch = e

(***************************************************************************)
(* A device skips an epoch in backfill_key_envelopes because it recorded   *)
(* that the new device has been sealed one.  The record is never wrong: an *)
(* envelope of the epoch for that device exists.                           *)
(***************************************************************************)
RecordsAreTrue ==
    \A d \in Device : \A r \in recipients[d] : Sealed(r[1], r[2])

\* Every device has published its cert and applied every op there is.
Quiet == \A d \in members : Opened(d) /\ \A e \in Device \ {d} : read[d][e] = Len(log[e])

(***************************************************************************)
(* No device is left with a permanent hole: once every op has reached      *)
(* every device, a device that no device bounds holds a key of every       *)
(* epoch, whether the rotation fell before its pairing, between its        *)
(* pairing and its cert, or while its cert was on its way to the minter,   *)
(* and whoever tried to revoke it without being believed                   *)
(* (backfill_key_envelopes seals every epoch held, on every device that    *)
(* applies the cert, unless one is recorded to have been sealed).          *)
(***************************************************************************)
NoPermanentHole ==
    Quiet => \A d \in members : (\A m \in members : d \notin bounded[m]) =>
                EpochsOf(Minted) \subseteq EpochsOf(keys[d])
=============================================================================
