------------------------------- MODULE OpSync -------------------------------
(***************************************************************************)
(* One stream of a vault, synced by its devices through the relay.         *)
(*                                                                         *)
(* The device's half is the sync driver, crates/sunrise-core/src/          *)
(* sync_driver.rs: a session subscribes with the device's cursors, drains  *)
(* the persistent outbox in batches, applies what arrives, retransmits     *)
(* what is not acked, re-subscribes on a timer, and reports a SyncState.   *)
(* The relay's half is crates/sunrise-server/src/api/sync: `publish.rs`    *)
(* appends a batch to the durable log (RelayLog), fans it out to the open  *)
(* streams and acks; `stream.rs` opens an event stream by taking its live  *)
(* receiver, reading the durable log from the cursors, and forwarding.     *)
(*                                                                         *)
(* Time is abstracted: a deadline may pass whenever the pump has nothing   *)
(* to read.  What the link, the relay or the user may do wrong is bounded  *)
(* by MaxFaults.                                                           *)
(***************************************************************************)
EXTENDS RelayLog, Sequences, SequencesExt

CONSTANTS Writer,      \* the devices that write
          Codes,       \* the codes a relay may close a stream with
          Retryable,   \* those codes.toml marks `retryable`
          MaxFaults,   \* bound on what goes wrong in a behaviour
          MaxPins,     \* bound on the snapshot records published
          MaxRetries,  \* Backoff::canonical's max_retries
          Capacity,    \* CHANNEL_CAPACITY, and STREAM_BUFFER's share of it
          Expires      \* whether a frame may outlive DurableCaps.max_age

ASSUME OpSyncAssumption ==
    /\ Writer \subseteq Device /\ Retryable \subseteq Codes
    /\ MaxFaults \in Nat /\ MaxPins \in Nat /\ MaxRetries \in Nat
    /\ Capacity \in Nat \ {0} /\ Expires \in BOOLEAN

VARIABLES log,     \* log[d]: the ops in d's op log
          floor,   \* floor[d]: the floors d joined from snapshot records
          outbox,  \* outbox[d]: the unacked outbox rows, as seqs
          st,      \* st[d]: the SyncState d's driver reports
          sess,    \* sess[d]: what `session` keeps on its stack
          stream,  \* stream[d]: the event stream d's session has open
          up,      \* the batches sent and not yet read by the relay
          posting, \* the requests whose batch is stored and not yet fanned out
          pin,     \* the frontier of the snapshot record the relay pins
          pins,    \* history: how many records were published
          faults,  \* history: how many faults happened
          told,    \* history: told[d][e]: the watermark of e the relay has
                   \*   reported to d's session as a gap
          excused  \* history: excused[d]: an event of d's stream was lost or
                   \*   damaged since the stream read the log

driverVars == <<log, floor, outbox, st, sess>>
vars == <<relayVars, driverVars, stream, up, posting, pin, pins, faults, told,
          excused>>

SyncState == {"Disconnected", "CatchingUp", "Live", "Degraded", "Stopped"}
Connected == {"CatchingUp", "Live", "Degraded"}

Zero == [d \in Device |-> 0]

Held(d, op) == op \in log[d] \/ op.seq <= floor[d][op.dev]

\* Mutant of CursorOf: the high-water mark the cursor used to be.
CursorOfHighWater(d) ==
    [e \in Device |-> Max({floor[d][e]} \cup SeqsOf(log[d], e))]

\* upsert_sync_cursor: the end of the contiguous run of held seqs.
CursorOf(d) ==
    [e \in Device |->
        Max({0} \cup {n \in 1..MaxSeq : \A k \in 1..n :
                                          Held(d, [dev |-> e, seq |-> k])})]

Own(d, seqs) == {[dev |-> d, seq |-> n] : n \in seqs}

NoSession == [batches |-> 0, inflight |-> {}, acks |-> {},
              submit |-> FALSE, caughtUp |-> FALSE,
              applied |-> FALSE, failed |-> FALSE, deferred |-> FALSE]

NoStream == [stage |-> "none", cursors |-> Zero, rx |-> <<>>, events |-> <<>>]

\* POST /sync/subscribe: it replaces the session's set, and the transport
\* drops the stream it had open, with its events, and opens one with GET
\* /sync/events on its next read.  The relay takes the stream's live receiver
\* first (subscribe_live) and reads the durable log after that (ReadLog).
Subscribed(cursors) == [NoStream EXCEPT !.stage = "opened",
                                        !.cursors = cursors]

Fault == faults < MaxFaults /\ faults' = faults + 1

-----------------------------------------------------------------------------
(* The driver: opening and ending a session. *)

InflightSeqs(s) == UNION {b.seqs : b \in s.inflight}

\* A batch on its way, and whether the session that sent it is still there.
Message(d, b) ==
    [dev |-> d, batch |-> b.id, ops |-> Own(d, b.seqs), live |-> TRUE]

\* build_outbox_frames: one batch of everything unacked and not in flight.
NewBatch(d, s) ==
    LET seqs == outbox[d] \ InflightSeqs(s)
    IN  IF seqs = {} THEN {}
        ELSE {[id |-> s.batches + 1, seqs |-> seqs, tries |-> 0]}

\* A new session numbers its batches from one.
Fresh(d) == [NoSession EXCEPT !.submit = sess[d].submit]

WithBatch(s, new) == [s EXCEPT !.inflight = @ \cup new,
                               !.batches = @ + Cardinality(new)]

\* run, session: handshake, Subscribe, the first outbox drain.
Connect(d) ==
    /\ st[d] = "Disconnected"
    /\ LET new == NewBatch(d, Fresh(d))
       IN  /\ sess' = [sess EXCEPT ![d] = WithBatch(Fresh(d), new)]
           /\ up' = up \cup {Message(d, b) : b \in new}
    /\ st' = [st EXCEPT ![d] = "CatchingUp"]
    /\ stream' = [stream EXCEPT ![d] = Subscribed(CursorOf(d))]
    /\ told' = [told EXCEPT ![d] = Zero]
    /\ excused' = [excused EXCEPT ![d] = FALSE]
    /\ UNCHANGED <<relayVars, log, floor, outbox, pin, pins, faults, posting>>

\* Mutant of IsTerminal: any close parks the driver.
AnyCloseIsTerminal(code) == TRUE

\* SessionEnd::is_terminal, state_after.
IsTerminal(code) == code \notin Retryable

\* The session that posted these requests is gone; they may still arrive.
Orphaned(requests, devs) ==
    {IF m.dev \in devs THEN [m EXCEPT !.live = FALSE] ELSE m : m \in requests}

\* The stack of `session` is gone: nothing in flight, no stream, no acks.
EndSession(d, state) ==
    /\ st' = [st EXCEPT ![d] = state]
    /\ sess' = [sess EXCEPT ![d] = Fresh(d)]
    /\ stream' = [stream EXCEPT ![d] = NoStream]
    /\ up' = Orphaned(up, {d})
    /\ posting' = Orphaned(posting, {d})

\* The transport drops, or the app restarts.
DropSession(d) ==
    /\ st[d] \in Connected
    /\ Fault
    /\ EndSession(d, "Disconnected")
    /\ UNCHANGED <<relayVars, log, floor, outbox, pin, pins, told, excused>>

\* The relay restarts: its sessions, streams and requests are gone, a request
\* between its append and its fan-out too.
RelayRestart ==
    /\ \E d \in Device : st[d] \in Connected
    /\ Fault
    /\ st' = [d \in Device |-> IF st[d] \in Connected THEN "Disconnected"
                              ELSE st[d]]
    /\ sess' = [d \in Device |-> Fresh(d)]
    /\ stream' = [d \in Device |-> NoStream]
    /\ up' = Orphaned(up, Device)
    /\ posting' = {}
    /\ UNCHANGED <<relayVars, log, floor, outbox, pin, pins, told, excused>>

\* park_until_renewed: only a new credential leaves Stopped.
Renew(d) ==
    /\ st[d] = "Stopped"
    /\ st' = [st EXCEPT ![d] = "Disconnected"]
    /\ UNCHANGED <<relayVars, log, floor, outbox, sess, stream, up, pin, pins,
                   faults, told, excused, posting>>

-----------------------------------------------------------------------------
(* The driver: the pump. *)

\* The pump's select is biased: a frame that has arrived is read before a
\* submit is looked at, and a submit before a deadline.
RecvReady(d) == sess[d].acks # {} \/ stream[d].events # <<>>

TimerTurn(d) == st[d] \in Connected /\ ~RecvReady(d) /\ ~sess[d].submit

\* maybe_live, after every frame.
MaybeLive(state, caughtUp, unacked) ==
    IF state = "CatchingUp" /\ caughtUp /\ unacked = {} THEN "Live" ELSE state

\* A command commits: the op and its outbox row in one transaction, then the
\* pump is poked.
Write(d) ==
    LET n == Cardinality({op \in log[d] : op.dev = d}) + 1
    IN  /\ n <= MaxSeq
        /\ log' = [log EXCEPT ![d] = @ \cup {[dev |-> d, seq |-> n]}]
        /\ outbox' = [outbox EXCEPT ![d] = @ \cup {n}]
        /\ sess' = [sess EXCEPT ![d].submit = TRUE]
        /\ UNCHANGED <<relayVars, floor, st, stream, up, pin, pins, faults,
                       told, excused, posting>>

\* SessionEvent::Submit.
Drain(d) ==
    /\ st[d] \in Connected /\ ~RecvReady(d)
    /\ sess[d].submit
    /\ LET new == NewBatch(d, sess[d])
       IN  /\ sess' = [sess EXCEPT ![d] = [WithBatch(@, new) EXCEPT
                                             !.submit = FALSE]]
           /\ up' = up \cup {Message(d, b) : b \in new}
    /\ UNCHANGED <<relayVars, log, floor, outbox, st, stream, pin, pins,
                   faults, told, excused, posting>>

\* A batch is overdue when it or its ack was lost, or the relay is slow.
Overdue(d, b) ==
    IF Message(d, b) \in up \cup posting THEN Fault ELSE UNCHANGED faults

\* SessionEvent::Timer, retransmit_due: the same frame again, until the
\* policy is exhausted and the session is given up.
Retransmit(d) ==
    /\ TimerTurn(d)
    /\ \E b \in sess[d].inflight :
         /\ Overdue(d, b)
         /\ IF b.tries < MaxRetries
            THEN /\ sess' = [sess EXCEPT ![d].inflight =
                               (@ \ {b}) \cup {[b EXCEPT !.tries = @ + 1]}]
                 /\ up' = up \cup {Message(d, b)}
                 /\ UNCHANGED <<st, stream, posting>>
            ELSE EndSession(d, "Disconnected")
    /\ UNCHANGED <<relayVars, log, floor, outbox, pin, pins, told, excused>>

\* SessionEvent::Timer, resync_due: Subscribe again from the cursors of now.
\* MIN_RESYNC_GAP apart, so that the stream the last one opened was read.
Resync(d) ==
    /\ TimerTurn(d)
    /\ stream[d].stage = "live"
    /\ stream' = [stream EXCEPT ![d] = Subscribed(CursorOf(d))]
    /\ UNCHANGED <<relayVars, driverVars, up, pin, pins, faults, told,
                   excused, posting>>

\* compact_op_log and snapshot_sync::publish, on the same tick and on going Live,
\* once a day at most: the compactor writes and pins a record at its frontier,
\* which states it only if no op is held above a prefix.
PublishSnapshot(d) ==
    /\ TimerTurn(d) \/ st[d] = "Live"
    /\ pins < MaxPins /\ pin # CursorOf(d)
    /\ \A op \in log[d] : op.seq <= CursorOf(d)[op.dev]
    /\ pin' = CursorOf(d)
    /\ pins' = pins + 1
    /\ UNCHANGED <<relayVars, driverVars, stream, up, faults, told, excused,
                   posting>>

\* Mutant of RecvAck: an ack is taken for everything in flight.
RecvAckOfAll(d) ==
    /\ st[d] \in Connected
    /\ \E id \in sess[d].acks :
         LET s == sess[d]
             done == s.inflight
             left == outbox[d] \ UNION {b.seqs : b \in done}
         IN  /\ sess' = [sess EXCEPT ![d].acks = @ \ {id},
                                     ![d].inflight = @ \ done]
             /\ outbox' = [outbox EXCEPT ![d] = left]
             /\ st' = [st EXCEPT ![d] = MaybeLive(@, s.caughtUp, left)]
    /\ UNCHANGED <<relayVars, log, floor, stream, up, pin, pins, faults, told,
                   excused, posting>>

\* handle_frame, Ack: the rows of the batch are acked; an ack of a batch no
\* longer in flight is dropped.
RecvAck(d) ==
    /\ st[d] \in Connected
    /\ \E id \in sess[d].acks :
         LET s == sess[d]
             done == {b \in s.inflight : b.id = id}
             left == outbox[d] \ UNION {b.seqs : b \in done}
         IN  /\ sess' = [sess EXCEPT ![d].acks = @ \ {id},
                                     ![d].inflight = @ \ done]
             /\ outbox' = [outbox EXCEPT ![d] = left]
             /\ st' = [st EXCEPT ![d] = MaybeLive(@, s.caughtUp, left)]
    /\ UNCHANGED <<relayVars, log, floor, stream, up, pin, pins, faults, told,
                   excused, posting>>

\* The transport hands over its queued replies before it reads the stream.
NextEvent(d, kind) ==
    /\ st[d] \in Connected
    /\ sess[d].acks = {}
    /\ stream[d].events # <<>>
    /\ Head(stream[d].events).kind = kind

Consume(d) == stream' = [stream EXCEPT ![d].events = Tail(@)]

\* handle_frame, OpBatch: apply_remote_all of each op, idempotent.
RecvOps(d) ==
    /\ NextEvent(d, "ops")
    /\ Consume(d)
    /\ log' = [log EXCEPT ![d] = @ \cup Head(stream[d].events).ops]
    /\ st' = [st EXCEPT ![d] = MaybeLive(@, sess[d].caughtUp, outbox[d])]
    /\ UNCHANGED <<relayVars, floor, outbox, sess, up, pin, pins, faults, told,
                   excused, posting>>

\* handle_frame, StreamUpdate.
RecvCaughtUp(d) ==
    /\ NextEvent(d, "caughtUp")
    /\ Consume(d)
    /\ sess' = [sess EXCEPT ![d].caughtUp = TRUE]
    /\ st' = [st EXCEPT ![d] = MaybeLive(@, TRUE, outbox[d])]
    /\ UNCHANGED <<relayVars, log, floor, outbox, up, pin, pins, faults, told,
                   excused, posting>>

\* An event that does not decode, or whose ops fail their integrity checks:
\* nothing is applied.  It is evidence of loss, which only brings the resync
\* forward.
RecvDamaged(d) ==
    /\ \E kind \in {"ops", "gap", "caughtUp"} : NextEvent(d, kind)
    /\ Fault
    /\ Consume(d)
    /\ excused' = [excused EXCEPT ![d] = TRUE]
    /\ UNCHANGED <<relayVars, driverVars, up, pin, pins, told, posting>>

\* handle_frame, Close.
RecvClosed(d) ==
    /\ NextEvent(d, "closed")
    /\ EndSession(d, IF IsTerminal(Head(stream[d].events).code)
                     THEN "Stopped" ELSE "Disconnected")
    /\ UNCHANGED <<relayVars, log, floor, outbox, pin, pins, faults, told,
                   excused>>

-----------------------------------------------------------------------------
(***************************************************************************)
(* on_error and recover_gaps: a gap is caught up from the stream's pinned  *)
(* snapshot record, once a session, or latches Degraded.  The outcome is   *)
(* Failed when a record was applied already, when none is pinned, or when  *)
(* the one pinned adds nothing; Deferred when it cannot be fetched.        *)
(***************************************************************************)
Reported(d) ==
    told' = [told EXCEPT ![d] =
               [e \in Device |-> Max({@[e], Head(stream[d].events).through[e]})]]

RecordAdds(d) == \E e \in Device : pin[e] > CursorOf(d)[e]

\* Mutant of RecvGapFails: the gap is logged and nothing latches.
RecvGapFailsSilently(d) ==
    /\ NextEvent(d, "gap")
    /\ sess[d].applied \/ sess[d].failed \/ ~RecordAdds(d)
    /\ Consume(d) /\ Reported(d)
    /\ sess' = [sess EXCEPT ![d].failed = TRUE]
    /\ UNCHANGED <<relayVars, log, floor, outbox, st, up, pin, pins, faults,
                   excused, posting>>

RecvGapFails(d) ==
    /\ NextEvent(d, "gap")
    /\ sess[d].applied \/ sess[d].failed \/ ~RecordAdds(d)
    /\ Consume(d) /\ Reported(d)
    /\ sess' = [sess EXCEPT ![d].failed = TRUE]
    /\ st' = [st EXCEPT ![d] = "Degraded"]
    /\ UNCHANGED <<relayVars, log, floor, outbox, up, pin, pins, faults,
                   excused, posting>>

RecvGapDeferred(d) ==
    /\ NextEvent(d, "gap")
    /\ ~sess[d].applied /\ ~sess[d].failed
    /\ Fault
    /\ Consume(d) /\ Reported(d)
    /\ sess' = [sess EXCEPT ![d].deferred = TRUE]
    /\ st' = [st EXCEPT ![d] = "Degraded"]
    /\ UNCHANGED <<relayVars, log, floor, outbox, up, pin, pins, excused,
                   posting>>

\* The record is joined, the floors rise, Degraded is lifted, and the session
\* subscribes again from the cursors the record set.
RecvGapApplied(d) ==
    /\ NextEvent(d, "gap")
    /\ ~sess[d].applied /\ ~sess[d].failed /\ RecordAdds(d)
    /\ Reported(d)
    /\ UNCHANGED <<relayVars, log, outbox, up, pin, pins, faults, excused,
                   posting>>
    /\ floor' = [floor EXCEPT ![d] =
                   [e \in Device |-> Max({@[e], pin[e]})]]
    /\ sess' = [sess EXCEPT ![d].applied = TRUE, ![d].deferred = FALSE]
    /\ LET state == IF st[d] = "Degraded" THEN "CatchingUp" ELSE st[d]
       IN  st' = [st EXCEPT ![d] =
                    MaybeLive(state, sess[d].caughtUp, outbox[d])]
    /\ stream' = [stream EXCEPT ![d] = Subscribed(CursorOf(d)')]

-----------------------------------------------------------------------------
(* The relay. *)

\* RelayHub::publish into the live receivers: a full one loses its oldest
\* frame (RecvError::Lagged), and its stream goes on without it.
Listening(d) == stream[d].stage \in {"opened", "live"}

FanOut(m) ==
    LET full(d) == Len(stream[d].rx) = Capacity
        sent == [ops |-> m.ops, from |-> m.dev, live |-> m.live]
        pushed(d) == Append(IF full(d) THEN Tail(stream[d].rx)
                            ELSE stream[d].rx, sent)
    IN  /\ stream' = [d \in Device |->
              IF Listening(d) THEN [stream[d] EXCEPT !.rx = pushed(d)]
              ELSE stream[d]]
        /\ excused' = [d \in Device |-> \/ excused[d]
                                        \/ Listening(d) /\ full(d)]

\* The reply reaches the session that posted the batch, if it is still there.
Ack(m) ==
    sess' = IF m.live
            THEN [sess EXCEPT ![m.dev].acks = @ \cup {m.batch}]
            ELSE sess

\* send_pending hands its frames over in order, and a link keeps that order
\* within a session, which posts a batch once the last one was answered.  A
\* request may arrive after its session is gone.
Arrives(m) ==
    /\ m \in up
    /\ \A n \in up :
         n.dev = m.dev /\ n.live = m.live => m.batch <= n.batch
    /\ ~\E n \in posting : n.dev = m.dev /\ n.live /\ m.live
    /\ up' = up \ {m}

(***************************************************************************)
(* publish.rs ops: durable first, then the fan-out of a fresh batch, then  *)
(* the ack.  Requests run on the relay's threads, so that a stream may     *)
(* open, read or close, and a re-send be answered, between the append and  *)
(* the fan-out.                                                            *)
(***************************************************************************)
StoreFresh(m) ==
    /\ Arrives(m)
    /\ \E expired \in SUBSET frames :
         (expired # {} => Expires) /\ AppendFresh(m.ops, m.batch, expired)
    /\ posting' = posting \cup {m}
    /\ UNCHANGED <<driverVars, stream, pin, pins, faults, told, excused>>

PublishStored(m) ==
    /\ m \in posting
    /\ posting' = posting \ {m}
    /\ FanOut(m)
    /\ Ack(m)
    /\ UNCHANGED <<relayVars, log, floor, outbox, st, up, pin, pins, faults,
                   told>>

PublishDuplicate(m) ==
    /\ Arrives(m)
    /\ AppendDuplicate(m.ops, m.batch)
    /\ Ack(m)
    /\ UNCHANGED <<log, floor, outbox, st, stream, pin, pins, faults, told,
                   excused, posting>>

\* The request is lost, or refused because storage failed: nothing is acked.
LoseMessage(m) ==
    /\ m \in up
    /\ Fault
    /\ up' = up \ {m}
    /\ UNCHANGED <<relayVars, driverVars, stream, pin, pins, told, excused,
                   posting>>

OpsEvent(ops) == [kind |-> "ops", ops |-> ops]

\* ORDER BY relay_frames.id.
InIdOrder(F) ==
    [k \in 1..Cardinality(F) |->
        CHOOSE f \in F : Cardinality({g \in F : g.id <= f.id}) = k]

\* What the read sends: the gap, then the replay in id order, then CaughtUp.
ReplayEvents(c) ==
    LET gap == IF Gaps(c) = {} THEN <<>>
               ELSE <<[kind |-> "gap",
                       through |-> [d \in Device |->
                           IF d \in Gaps(c) THEN evicted[d] ELSE 0]]>>
        replay == InIdOrder(Replay(c))
    IN  gap \o [i \in DOMAIN replay |-> OpsEvent(replay[i].ops)]
            \o <<[kind |-> "caughtUp"]>>

\* spawn_stream, after its receiver is taken: the durable log is read.
ReadLog(d) ==
    /\ stream[d].stage = "opened"
    /\ stream' = [stream EXCEPT ![d].stage = "live",
                                ![d].events = ReplayEvents(stream[d].cursors)]
    /\ excused' = [excused EXCEPT ![d] = FALSE]
    /\ UNCHANGED <<relayVars, driverVars, up, pin, pins, faults, told,
                   posting>>

\* live_loop: a frame from a receiver to the event buffer, unless it is the
\* session's own; a full buffer holds the loop up.
Forward(d) ==
    /\ stream[d].stage = "live"
    /\ stream[d].rx # <<>>
    /\ Len(stream[d].events) < Capacity
    /\ LET f == Head(stream[d].rx)
           own == f.from = d /\ f.live
       IN  stream' = [stream EXCEPT
             ![d].rx = Tail(@),
             ![d].events = IF own THEN @ ELSE Append(@, OpsEvent(f.ops))]
    /\ UNCHANGED <<relayVars, driverVars, up, pin, pins, faults, told,
                   excused, posting>>

\* A stream the relay ends: a failed read of the log instead of a replay
\* (never followed by CaughtUp), or, once live, any of its closes.
CloseStream(d, code) ==
    /\ Fault
    /\ \/ stream[d].stage = "opened" /\ code = "RELAY_STORAGE_UNAVAILABLE"
       \/ stream[d].stage = "live"
    /\ stream' = [stream EXCEPT
         ![d].stage = "ended", ![d].rx = <<>>,
         ![d].events = Append(@, [kind |-> "closed", code |-> code])]
    /\ UNCHANGED <<relayVars, driverVars, up, pin, pins, told, excused,
                   posting>>

-----------------------------------------------------------------------------
Init ==
    /\ RelayInit
    /\ log = [d \in Device |-> {}]
    /\ floor = [d \in Device |-> Zero]
    /\ outbox = [d \in Device |-> {}]
    /\ st = [d \in Device |-> "Disconnected"]
    /\ sess = [d \in Device |-> NoSession]
    /\ stream = [d \in Device |-> NoStream]
    /\ up = {} /\ posting = {} /\ pin = Zero /\ pins = 0 /\ faults = 0
    /\ told = [d \in Device |-> Zero]
    /\ excused = [d \in Device |-> FALSE]

Pump(d) ==
    \/ Drain(d) \/ RecvAck(d) \/ RecvOps(d) \/ RecvCaughtUp(d)
    \/ RecvClosed(d) \/ RecvGapFails(d) \/ RecvGapApplied(d)

Relay ==
    \/ \E m \in up : StoreFresh(m) \/ PublishDuplicate(m)
    \/ \E m \in posting : PublishStored(m)
    \/ \E d \in Device : ReadLog(d) \/ Forward(d)

Faulty ==
    \/ \E d \in Device : DropSession(d) \/ RecvDamaged(d) \/ RecvGapDeferred(d)
    \/ \E d \in Device, code \in Codes : CloseStream(d, code)
    \/ \E m \in up : LoseMessage(m)
    \/ RelayRestart

Next ==
    \/ \E d \in Writer : Write(d)
    \/ \E d \in Device : Connect(d) \/ Renew(d) \/ Pump(d) \/ Retransmit(d)
                          \/ Resync(d) \/ PublishSnapshot(d)
    \/ Relay
    \/ Faulty

(***************************************************************************)
(* The driver's pump and the relay's tasks keep running, and the reconnect *)
(* backoff, the retransmit deadlines and the resync timer come due.        *)
(* One turn of the timer resends every overdue batch before it resyncs, so *)
(* a batch stays overdue over no endless run of resyncs: that is the       *)
(* strong fairness of Retransmit.  Nothing makes the user renew a          *)
(* credential, and nothing makes a fault.                                  *)
(***************************************************************************)
Fairness ==
    /\ \A d \in Device :
         /\ WF_vars(Connect(d)) /\ WF_vars(Pump(d)) /\ SF_vars(Retransmit(d))
         /\ WF_vars(Resync(d)) /\ WF_vars(ReadLog(d)) /\ WF_vars(Forward(d))
    /\ WF_vars(\E m \in up : StoreFresh(m) \/ PublishDuplicate(m))
    /\ WF_vars(\E m \in posting : PublishStored(m))

Spec == Init /\ [][Next]_vars

FairSpec == Spec /\ Fairness
=============================================================================
