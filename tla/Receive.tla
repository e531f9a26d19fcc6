------------------------------- MODULE Receive -------------------------------
(***************************************************************************)
(* The receive pipeline of one replica, crates/sunrise-core/src/engine/    *)
(* sync.rs `apply_remote_all` with park.rs: an envelope whose signer is    *)
(* unknown, whose payload is damaged or whose clock is ahead is refused,   *)
(* one whose key has not arrived waits in the bounded buffer               *)
(* `deferred_ops`, one this build cannot read is logged and parked, and    *)
(* the rest are logged and folded.  A key that arrives drains the buffer   *)
(* in transactions of their own; an open replays what is parked.           *)
(*                                                                         *)
(* The relay is external here: it re-sends what lies above the cursors it  *)
(* was given (OpSync), and may send anything else again, in any order.     *)
(***************************************************************************)
EXTENDS Naturals, Sequences, SequencesExt, FiniteSets, FiniteSetsExt

CONSTANTS Ops,          \* the ops on the relay: see OpsAssumption
          Builds,       \* 1..Builds: the doc_schema_v this replica may run
          FirstKeys,    \* the epochs whose keys pairing handed over
          FirstCerts,   \* the devices whose certs the replica starts with
          PerEpochCap,  \* DEFERRED_PER_EPOCH_CAP
          TotalCap,     \* DEFERRED_TOTAL_CAP
          MaxRestarts   \* bound on crashes and upgrades

Chain == {<<o.stream, o.dev>> : o \in Ops}
ChainOf(o) == <<o.stream, o.dev>>

\* `epoch` seals the op, `needs` is the first build that reads it, `gives` the
\* epoch a key envelope opens (0: none), `cert` marks a DeviceCertPublish, `at`
\* is the place of its (hlc, device_id, seq) in their order; one that is not
\* `sound` is refused by every build that reads it.
ASSUME OpsAssumption ==
    /\ \A o \in Ops : /\ o.seq \in Nat \ {0} /\ o.needs \in 1..Builds
                      /\ o.gives \in Nat /\ o.cert \in BOOLEAN
                      /\ o.at \in Nat /\ o.sound \in BOOLEAN
    /\ \A o, p \in Ops : o.at = p.at => o = p
    /\ \A o, p \in Ops : (ChainOf(o) = ChainOf(p) /\ o.seq = p.seq) => o = p
    /\ Builds \in Nat \ {0}
    /\ PerEpochCap \in Nat \ {0} /\ TotalCap \in Nat \ {0}

VARIABLES log,      \* the `ops` table
          parked,   \* parked[o]: the build a `parked_ops` row names, 0: no row
          refused,  \* the parked rows whose reason is ReplayRefused
          folds,    \* history: how often each op was folded
          keys,     \* the epochs the keychain holds a key for
          certs,    \* the devices whose certs are admitted
          deferred, \* the `deferred_ops` table, oldest first
          cursor,   \* the `sync_cursors` table
          build,    \* the DOC_SCHEMA_V running
          work,     \* what this call still has to do after its transaction
          restarts  \* history

vars == <<log, parked, refused, folds, keys, certs, deferred, cursor, build,
          work, restarts>>

IsParked(o) == parked[o] # 0
Readable(o) == o.needs <= build

\* Mutant of RunEnd: the highest op seen.
RunEndHighWater(L, c) == Max({0} \cup {o.seq : o \in {p \in L : ChainOf(p) = c}})

\* upsert_sync_cursor: the contiguous run of the chain's log.
RunEnd(L, c) ==
    LET held == {o.seq : o \in {p \in L : ChainOf(p) = c}}
    IN  Max({0} \cup {n \in held : 1..n \subseteq held})

Advance(L, o) == cursor' = [cursor EXCEPT ![ChainOf(o)] = RunEnd(L, ChainOf(o))]

\* The elements of s at the positions I, in their order.
Pick(s, I) ==
    [k \in 1..Cardinality(I) |->
        s[CHOOSE i \in I : Cardinality({j \in I : j <= i}) = k]]

Newest(s, n) == IF Len(s) <= n THEN s ELSE SubSeq(s, Len(s) - n + 1, Len(s))

\* Evict the oldest of one epoch beyond the cap.
CapEpoch(s, e) ==
    LET ofEpoch == {i \in DOMAIN s : s[i].epoch = e}
        kept == Range(Newest(Pick(s, ofEpoch), PerEpochCap))
    IN  Pick(s, {i \in DOMAIN s : s[i].epoch # e \/ s[i] \in kept})

(***************************************************************************)
(* apply_remote_all, one disjunct per way through it.  `rest` is what the  *)
(* caller still has to do.                                                 *)
(***************************************************************************)
\* self_authenticating_signer: a cert op names its own signer, once it opens.
KnownSigner(o) ==
    o.dev \in certs \/ (o.cert /\ o.epoch \in keys /\ Readable(o))

\* An unknown signer, a damaged payload, or the clock gate, which can shut out
\* any op for a while: nothing is written.
Refuse(o, rest) ==
    /\ work' = rest
    /\ UNCHANGED <<log, parked, refused, folds, keys, certs, deferred, cursor>>

\* Mutant of Defer: the op is counted as received.
DeferCounted(o, rest) ==
    /\ KnownSigner(o) /\ o.epoch \notin keys
    /\ LET held == IF o \in Range(deferred) THEN deferred
                                            ELSE Append(deferred, o)
       IN  deferred' = Newest(CapEpoch(held, o.epoch), TotalCap)
    /\ Advance(log \cup {o}, o)
    /\ work' = rest
    /\ UNCHANGED <<log, parked, refused, folds, keys, certs>>

Defer(o, rest) ==
    /\ KnownSigner(o) /\ o.epoch \notin keys
    /\ LET held == IF o \in Range(deferred) THEN deferred
                                            ELSE Append(deferred, o)
       IN  deferred' = Newest(CapEpoch(held, o.epoch), TotalCap)
    /\ work' = rest
    /\ UNCHANGED <<log, parked, refused, folds, keys, certs, cursor>>

\* Mutant of Park: a second delivery releases the marker unread.
ParkAgain(o, rest) ==
    /\ KnownSigner(o) /\ o.epoch \in keys /\ ~Readable(o)
    /\ log' = log \cup {o}
    /\ parked' = [parked EXCEPT ![o] = IF o \in log THEN 0 ELSE build]
    /\ Advance(log', o)
    /\ refused' = refused \ {o}
    /\ work' = rest
    /\ UNCHANGED <<folds, keys, certs, deferred>>

Park(o, rest) ==
    /\ KnownSigner(o) /\ o.epoch \in keys /\ ~Readable(o)
    /\ log' = log \cup {o}
    /\ parked' = [parked EXCEPT ![o] = IF o \in log THEN @ ELSE build]
    /\ Advance(log', o)
    /\ refused' = refused \ {o}
    /\ work' = rest
    /\ UNCHANGED <<folds, keys, certs, deferred>>

Duplicate(o, rest) ==
    /\ KnownSigner(o) /\ o.epoch \in keys /\ Readable(o)
    /\ o \in log /\ ~IsParked(o)
    /\ work' = rest
    /\ UNCHANGED <<log, parked, refused, folds, keys, certs, deferred, cursor>>

\* Logged for the first time, or released by `unpark`.  An absorbed key
\* drains the buffer after the transaction.
Apply(o, rest) ==
    /\ KnownSigner(o) /\ o.epoch \in keys /\ Readable(o) /\ o.sound
    /\ o \notin log \/ IsParked(o)
    /\ log' = log \cup {o}
    /\ parked' = [parked EXCEPT ![o] = 0]
    /\ refused' = refused \ {o}
    /\ folds' = [folds EXCEPT ![o] = @ + 1]
    /\ keys' = keys \cup ({o.gives} \ {0})
    /\ certs' = IF o.cert THEN certs \cup {o.dev} ELSE certs
    /\ Advance(log', o)
    /\ work' = IF o.gives = 0 THEN rest
               ELSE <<[task |-> "drain", epoch |-> o.gives]>> \o rest
    /\ UNCHANGED deferred

ApplyRemote(o, rest) ==
    \/ Refuse(o, rest) \/ Defer(o, rest) \/ Park(o, rest)
    \/ Duplicate(o, rest) \/ Apply(o, rest)

\* A frame from the relay.  The engine is behind one lock, so nothing
\* arrives while a call still has work to do.
Deliver(o) ==
    /\ work = <<>>
    /\ ApplyRemote(o, <<>>)
    /\ UNCHANGED <<build, restarts>>

(***************************************************************************)
(* drain_deferred: the rows of the epoch are read, what outlived its TTL   *)
(* is deleted, then the epoch's rows are, and only then are they applied   *)
(* one by one; an error of one is dropped with it.                         *)
(***************************************************************************)
Drain ==
    /\ work # <<>> /\ Head(work).task = "drain"
    /\ LET e == Head(work).epoch
           rows == Pick(deferred, {i \in DOMAIN deferred :
                                     deferred[i].epoch = e})
       IN  /\ \E old \in 0..Len(deferred) :
                deferred' = Pick(deferred, {i \in (old + 1)..Len(deferred) :
                                              deferred[i].epoch # e})
           /\ work' = [i \in DOMAIN rows |-> [task |-> "apply", op |-> rows[i]]]
                      \o Tail(work)
    /\ UNCHANGED <<log, parked, refused, folds, keys, certs, cursor, build,
                   restarts>>

DrainOne ==
    /\ work # <<>> /\ Head(work).task = "apply"
    /\ ApplyRemote(Head(work).op, Tail(work))
    /\ UNCHANGED <<build, restarts>>

(***************************************************************************)
(* Replaying one parked op at open: applied; or still unread, or read and  *)
(* refused, and restamped with this build; or left as it was when storage  *)
(* fails.                                                                  *)
(***************************************************************************)
Restamped(o) == [parked EXCEPT ![o] = IF @ = 0 THEN 0 ELSE build]

StillUnread(o, rest) ==
    /\ KnownSigner(o) /\ o.epoch \in keys /\ ~Readable(o)
    /\ parked' = Restamped(o) /\ refused' = refused \ {o}
    /\ work' = rest
    /\ UNCHANGED <<log, folds, keys, certs, deferred, cursor>>

ReplayRefused(o, rest) ==
    /\ parked' = Restamped(o)
    /\ refused' = IF IsParked(o) THEN refused \cup {o} ELSE refused
    /\ work' = rest
    /\ UNCHANGED <<log, folds, keys, certs, deferred, cursor>>

ReplayOne ==
    /\ work # <<>> /\ Head(work).task = "replay"
    /\ LET o == Head(work).op
       IN  \/ Apply(o, Tail(work)) \/ Duplicate(o, Tail(work))
           \/ StillUnread(o, Tail(work)) \/ ReplayRefused(o, Tail(work))
    /\ UNCHANGED <<build, restarts>>

\* Mutant of ReplayFails: the retry is used up.
ReplayFailsSpent ==
    /\ work # <<>> /\ Head(work).task = "replay"
    /\ parked' = Restamped(Head(work).op)
    /\ work' = Tail(work)
    /\ UNCHANGED <<log, refused, folds, keys, certs, deferred, cursor, build,
                   restarts>>

ReplayFails ==
    /\ work # <<>> /\ Head(work).task = "replay"
    /\ work' = Tail(work)
    /\ UNCHANGED <<log, parked, refused, folds, keys, certs, deferred, cursor,
                   build, restarts>>

\* parked_for_replay: the rows another build stamped, in stamp order.
ForReplay(b) ==
    LET rows == {o \in Ops : parked[o] \notin {0, b}}
    IN  [k \in 1..Cardinality(rows) |->
            CHOOSE o \in rows : Cardinality({p \in rows : p.at <= o.at}) = k]

\* The process ends, wherever it is, and this or a newer build opens the vault.
Reopen(b) ==
    /\ restarts < MaxRestarts /\ b >= build
    /\ build' = b /\ restarts' = restarts + 1
    /\ LET rows == ForReplay(b)
       IN  work' = [i \in DOMAIN rows |-> [task |-> "replay", op |-> rows[i]]]
    /\ UNCHANGED <<log, parked, refused, folds, keys, certs, deferred, cursor>>

Init ==
    /\ log = {} /\ parked = [o \in Ops |-> 0] /\ refused = {}
    /\ folds = [o \in Ops |-> 0]
    /\ keys = FirstKeys /\ certs = FirstCerts
    /\ deferred = <<>> /\ cursor = [c \in Chain |-> 0]
    /\ build = 1 /\ work = <<>> /\ restarts = 0

Local == Drain \/ DrainOne \/ ReplayOne \/ ReplayFails

Next ==
    \/ \E o \in Ops : Deliver(o)
    \/ Local
    \/ \E b \in 1..Builds : Reopen(b)

Spec == Init /\ [][Next]_vars

-----------------------------------------------------------------------------
\* The relay's promise: while the engine is free, what is above the cursor
\* keeps coming, and no clock is ahead for ever.  Every row is replayed at an
\* open.
Resend(o) == o.seq > cursor[ChainOf(o)] /\ Deliver(o)

FairSpec ==
    /\ Spec
    /\ WF_vars(Local)
    /\ \A o \in Ops : SF_vars(Resend(o))

(***************************************************************************)
(* The cursor is the promise "I have everything through n": no op at or    *)
(* below it is missing from the log, so none that waits in the buffer, was *)
(* evicted from it, expired in it or was lost in a crash while it drained  *)
(* is one the relay will not send again.                                   *)
(***************************************************************************)
CursorIsAPrefix ==
    \A o \in Ops : o.seq <= cursor[ChainOf(o)] => o \in log

(***************************************************************************)
(* A logged op is one the duplicate gate turns away for ever, so its       *)
(* effect must be in already, exactly once, or its parked marker must be   *)
(* there to bring it in.  A marker stamped with the running build is not   *)
(* retried under it, so that build must be one that cannot read the op, or *)
(* the row must say that it read and refused it (park.rs ReplayRefused): a *)
(* storage failure during a replay may not use up the retry.               *)
(***************************************************************************)
LoggedIsFoldedOrParked ==
    \A o \in Ops :
        /\ folds[o] <= 1
        /\ o \in log <=> (folds[o] = 1 \/ IsParked(o))
        /\ ~(folds[o] = 1 /\ IsParked(o))
        /\ parked[o] = build => ~Readable(o) \/ o \in refused

(***************************************************************************)
(* Every op on the relay that is not damaged enters the log, though the    *)
(* buffer is smaller than what waits for one key, a cert is refused until  *)
(* its key has come, and a crash can empty the buffer half way through a   *)
(* drain.                                                                  *)
(***************************************************************************)
EverythingArrives == <>({o \in Ops : o.sound} \subseteq log)
=============================================================================
