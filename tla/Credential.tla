----------------------------- MODULE Credential -----------------------------
(***************************************************************************)
(* The sync credential of one device, from the app that renews it to the   *)
(* relay that ends sessions on it: `TokenSource` and `TokenWatch`,         *)
(* crates/sunrise-sync/src/credential.rs; the connect loop, the parking    *)
(* and the renewal arm of crates/sunrise-core/src/sync_driver.rs; the      *)
(* bearer of the SSE transport; and the relay's session deadline, refresh  *)
(* and device recheck, crates/sunrise-server/src/api/sync.                 *)
(*                                                                         *)
(* A write is named by its version.  Other threads write at any moment,    *)
(* also between a read of the token and the mark that it was read.         *)
(***************************************************************************)
EXTENDS Naturals

CONSTANTS MaxVer,     \* bound on the credentials written
          MaxFaults   \* bound on lost connections and collected sessions

ASSUME CredentialAssumption == MaxVer \in Nat /\ MaxFaults \in Nat

Version == 0..MaxVer
None == MaxVer + 1

VARIABLES ver,       \* TokenSource's version
          cleared,   \* the versions whose write cleared the token
          expired,   \* the versions whose token has expired
          pending,   \* whether the driver's TokenWatch has an unseen change
          phase,     \* where `run` and `session` are
          carried,   \* the version the attempt read: the transport's bearer
          marked,    \* marked_at_connect
          queue,     \* the version in a queued 0x12 RefreshToken, or None
          neg,       \* whether this session agreed SrvTokenRefresh
          deadline,  \* the version the relay's session row expires with
          row,       \* whether the relay has that session row
          stream,    \* "open", the code it was closed with, or "none"
          busy,      \* whether the stream's task has a frame to hand on, or
                     \*   waits for the client to make room for one
          revoked,   \* whether the relay's device row is revoked
          faults,
          presented, \* history: the version the relay was last shown
          consumed,  \* history: the last change taken from the watch
          reported   \* history: the last change reported in the log

credentialVars ==
    <<ver, cleared, expired, pending, phase, carried, marked, queue, neg, deadline,
      row, stream, busy, revoked, faults, presented, consumed, reported>>

tokenVars == <<ver, cleared, expired, revoked>>
watchVars == <<pending, carried, marked, consumed, reported>>
relayVars == <<neg, deadline, row, stream, busy>>

CloseCodes == {"AUTH_TOKEN_EXPIRED", "AUTH_DEVICE_REVOKED",
               "RELAY_STORAGE_UNAVAILABLE"}

Fault == faults < MaxFaults /\ faults' = faults + 1

\* The relay's verifier, on a bearer or on a refresh body.
Verifies(v) == v \notin cleared \cup expired

\* `Signed`: the bearer of every request of the session, and its device.
Authorised == Verifies(carried) /\ ~revoked

-----------------------------------------------------------------------------
(* The app: TokenSource::set, under its lock. *)

Set(clear) ==
    /\ ver < MaxVer
    /\ ver' = ver + 1
    /\ cleared' = IF clear THEN cleared \cup {ver + 1} ELSE cleared
    /\ pending' = TRUE
    /\ UNCHANGED <<expired, revoked, phase, carried, marked, queue, relayVars,
                   faults, presented, consumed, reported>>

Expire(v) ==
    /\ v <= ver /\ expired' = expired \cup {v}
    /\ UNCHANGED <<ver, cleared, revoked, watchVars, phase, queue, relayVars,
                   faults, presented>>

\* revoke_device of the relay's store, for another device or the operator.
Revoke ==
    /\ ~revoked /\ revoked' = TRUE
    /\ UNCHANGED <<ver, cleared, expired, watchVars, phase, queue, relayVars,
                   faults, presented>>

-----------------------------------------------------------------------------
(* The driver: connecting. *)

Read ==
    /\ phase = "read"
    /\ carried' = ver
    /\ phase' = "mark"
    /\ UNCHANGED <<tokenVars, pending, marked, queue, relayVars, faults,
                   presented, consumed, reported>>

\* Mutant of Mark: whatever the handle has not seen is taken as carried.
MarkAll ==
    /\ phase = "mark"
    /\ phase' = "dial"
    /\ pending' = FALSE
    /\ marked' = IF pending THEN carried ELSE marked
    /\ consumed' = IF pending THEN carried ELSE consumed
    /\ UNCHANGED <<tokenVars, carried, queue, relayVars, faults, presented,
                   reported>>

\* mark_renewals_current, TokenWatch::mark_carried: the change is consumed
\* when it is the one the attempt carries, and left pending otherwise.
Mark ==
    /\ phase = "mark"
    /\ phase' = "dial"
    /\ IF ver = carried
       THEN /\ pending' = FALSE
            /\ marked' = IF pending THEN carried ELSE marked
            /\ consumed' = IF pending THEN carried ELSE consumed
       ELSE /\ pending' = TRUE
            /\ UNCHANGED <<marked, consumed>>
    /\ UNCHANGED <<tokenVars, carried, queue, relayVars, faults, presented,
                   reported>>

\* POST /sync/session answered; the events stream opens.
HandshakeOk ==
    /\ phase = "dial" /\ Authorised
    /\ phase' = "live"
    /\ neg' \in BOOLEAN
    /\ deadline' = carried /\ row' = TRUE /\ stream' = "open" /\ busy' = FALSE
    /\ presented' = carried
    /\ reported' = IF marked = None THEN reported ELSE marked
    /\ marked' = None
    /\ UNCHANGED <<tokenVars, pending, carried, consumed, queue, faults>>

\* The session is over: the transport is dropped with what was queued.
EndSession(next) ==
    /\ phase' = next
    /\ queue' = None /\ stream' = "none" /\ busy' = FALSE
    /\ UNCHANGED <<neg, deadline>>

\* A refusal is never terminal (is_terminal): back off and connect again.
HandshakeRefused ==
    /\ phase = "dial" /\ ~Authorised
    /\ EndSession("read")
    /\ presented' = carried
    /\ UNCHANGED <<tokenVars, watchVars, row, faults>>

LinkFails ==
    /\ phase \in {"dial", "live"}
    /\ Fault
    /\ EndSession("read")
    /\ UNCHANGED <<tokenVars, watchVars, row, presented>>

-----------------------------------------------------------------------------
(* The driver: the pump. *)

\* SessionEvent::CredentialRenewed: changed() has consumed the change; the
\* token is read again below.
Renewed ==
    /\ phase = "live" /\ queue = None /\ pending
    /\ pending' = FALSE /\ consumed' = ver
    /\ phase' = "renewing"
    /\ UNCHANGED <<tokenVars, carried, marked, reported, queue, relayVars,
                   faults, presented>>

\* on_credential_renewed, encode_refresh_token.
QueueRefresh ==
    /\ phase = "renewing"
    /\ phase' = "live"
    /\ IF neg /\ ver \in cleared THEN UNCHANGED <<queue, reported>>
       ELSE /\ queue' = IF neg THEN ver ELSE None
            /\ reported' = consumed
    /\ UNCHANGED <<tokenVars, pending, carried, marked, consumed, relayVars,
                   faults, presented>>

\* POST /sync/session/refresh: the request's own bearer, the session row, and
\* then the token in the body.
RefreshAccepted == Authorised /\ row /\ deadline \notin expired
                   /\ Verifies(queue)

SendRefresh ==
    /\ phase = "live" /\ queue # None
    /\ presented' = queue
    /\ IF RefreshAccepted
       THEN /\ deadline' = queue /\ queue' = None
            /\ UNCHANGED <<phase, neg, row, stream, busy>>
       ELSE /\ EndSession("read")
            /\ row' = (row /\ deadline \notin expired)
    /\ UNCHANGED <<tokenVars, watchVars, faults>>

\* Any other request of the session (ops, subscribe, blobs) that is refused.
PostRefused ==
    /\ phase = "live" /\ queue = None
    /\ ~(Authorised /\ row /\ deadline \notin expired)
    /\ EndSession("read")
    /\ row' = (row /\ deadline \notin expired)
    /\ UNCHANGED <<tokenVars, watchVars, faults, presented>>

\* Mutant of RecvClosed: a parked driver watches from now on.
RecvClosedWatchesAnew ==
    /\ phase = "live" /\ queue = None
    /\ stream \in CloseCodes
    /\ EndSession(IF stream = "AUTH_DEVICE_REVOKED" THEN "stopped" ELSE "read")
    /\ pending' = (pending /\ stream # "AUTH_DEVICE_REVOKED")
    /\ UNCHANGED <<tokenVars, carried, marked, consumed, reported, row, faults,
                   presented>>

\* handle_frame, Close: a code that is not retryable parks the driver.
RecvClosed ==
    /\ phase = "live" /\ queue = None
    /\ stream \in CloseCodes
    /\ EndSession(IF stream = "AUTH_DEVICE_REVOKED" THEN "stopped" ELSE "read")
    /\ UNCHANGED <<tokenVars, watchVars, row, faults, presented>>

\* park_until_renewed.
Unpark ==
    /\ phase = "stopped" /\ pending
    /\ pending' = FALSE /\ consumed' = ver /\ marked' = ver
    /\ phase' = "read"
    /\ UNCHANGED <<tokenVars, carried, reported, queue, relayVars, faults,
                   presented>>

\* Every wait of `run` ends at once on a shutdown.
Shutdown ==
    /\ phase # "done"
    /\ EndSession("done")
    /\ UNCHANGED <<tokenVars, watchVars, row, faults, presented>>

-----------------------------------------------------------------------------
(***************************************************************************)
(* The relay.  live_loop's select is biased: a frame that a peer published *)
(* is handed on before the tick is looked at, and handing it on waits for  *)
(* the client without a limit.                                             *)
(***************************************************************************)

Frame ==
    /\ stream = "open" /\ ~busy
    /\ busy' = TRUE
    /\ UNCHANGED <<tokenVars, watchVars, phase, queue, neg, deadline, row,
                   stream, faults, presented>>

Handed ==
    /\ stream = "open" /\ busy
    /\ busy' = FALSE
    /\ UNCHANGED <<tokenVars, watchVars, phase, queue, neg, deadline, row,
                   stream, faults, presented>>

\* Mutant of Recheck: the tick reads the session and not the device.
RecheckSession ==
    /\ stream = "open" /\ ~busy
    /\ ~row \/ deadline \in expired
    /\ stream' = "AUTH_TOKEN_EXPIRED"
    /\ row' = FALSE
    /\ UNCHANGED <<tokenVars, watchVars, phase, queue, neg, deadline, busy,
                   faults, presented>>

\* live_loop's tick and device_recheck, when they find something.
Recheck ==
    /\ stream = "open" /\ ~busy
    /\ ~row \/ deadline \in expired \/ revoked
    /\ stream' = IF ~row \/ deadline \in expired THEN "AUTH_TOKEN_EXPIRED"
                 ELSE "AUTH_DEVICE_REVOKED"
    /\ row' = FALSE
    /\ UNCHANGED <<tokenVars, watchVars, phase, queue, neg, deadline, busy,
                   faults, presented>>

\* The tick cannot read the session or the device: a close the client retries.
RecheckFails ==
    /\ stream = "open" /\ ~busy
    /\ Fault
    /\ stream' = "RELAY_STORAGE_UNAVAILABLE"
    /\ UNCHANGED <<tokenVars, watchVars, phase, queue, neg, deadline, row, busy,
                   presented>>

\* SessionBackend::collect: a row not touched for IDLE_TTL_MS.
Collect ==
    /\ row /\ Fault
    /\ row' = FALSE
    /\ UNCHANGED <<tokenVars, watchVars, phase, queue, neg, deadline, stream,
                   busy, presented>>

-----------------------------------------------------------------------------
CredentialInit ==
    /\ ver = 0 /\ cleared \in SUBSET {0} /\ expired = {} /\ revoked = FALSE
    /\ pending = FALSE /\ phase = "read" /\ carried = 0 /\ marked = None
    /\ queue = None /\ neg = FALSE /\ deadline = 0 /\ row = FALSE
    /\ stream = "none" /\ busy = FALSE /\ faults = 0
    /\ presented = None /\ consumed = 0 /\ reported = 0

Driver ==
    \/ Read \/ Mark \/ HandshakeOk \/ HandshakeRefused \/ Renewed
    \/ QueueRefresh \/ SendRefresh \/ RecvClosed \/ Unpark

CredentialNext ==
    \/ Driver \/ PostRefused \/ LinkFails \/ Shutdown
    \/ Frame \/ Handed \/ Recheck \/ RecheckFails \/ Collect
    \/ \E clear \in BOOLEAN : Set(clear)
    \/ \E v \in Version : Expire(v)
    \/ Revoke

CredentialSpec == CredentialInit /\ [][CredentialNext]_credentialVars

\* `run` is a task of its own, and the relay's stream task ticks when it has
\* nothing to hand on.  Nothing makes peers pause or the client read.
FairSpec == CredentialSpec /\ WF_credentialVars(Driver) /\ WF_credentialVars(Recheck)

-----------------------------------------------------------------------------
(***************************************************************************)
(* No renewal is swallowed (#273): wherever the driver has nothing left to *)
(* look at, the relay was shown the credential of now, though it may have  *)
(* been written between the read and the mark, during the dial, or while   *)
(* an earlier renewal was on its way.  A relay that did not negotiate the  *)
(* refresh is shown it by the next connect instead.  And a renewal that    *)
(* mark_renewals_current consumed is reported once a session is live,      *)
(* though the attempt that consumed it never reached the relay and the one *)
(* that did had nothing of its own.                                        *)
(***************************************************************************)
NothingSwallowed ==
    /\ (phase \in {"live", "stopped"} /\ ~pending /\ queue = None /\ neg)
         => presented = ver \/ ver \in cleared
    /\ (phase = "live" /\ ~pending /\ consumed # reported)
         => consumed \in cleared \/ ver \in cleared

(***************************************************************************)
(* A new credential is in the end shown to the relay or replaced, also by  *)
(* a driver that was parked or about to be, unless it is shut down.  A     *)
(* session that cannot be renewed in band leaves it to the next connect,   *)
(* and one closed for good then waits for another write.                   *)
(***************************************************************************)
RenewalArrives ==
    \A v \in Version :
        (ver = v /\ v \notin cleared)
            ~> \/ presented = v \/ ver > v \/ phase = "done"
               \/ phase \in {"live", "stopped"} /\ ~neg

(***************************************************************************)
(* stream.rs device_recheck: the relay stops serving a revoked device, by  *)
(* closing the stream it holds and opening it no other, unless frames for  *)
(* it, or its not reading them, keep the stream's task from the tick for   *)
(* ever.                                                                   *)
(***************************************************************************)
RevokedIsCutOff == (revoked ~> [](stream # "open")) \/ []<>busy
=============================================================================
