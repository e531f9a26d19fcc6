---------------------------- MODULE OpSyncProps -----------------------------
(***************************************************************************)
(* What the driver and the relay promise together: no acked op is lost, no *)
(* device is left with a hole nobody told it of, a state of Live is not    *)
(* claimed over a loss that was, and every op reaches every device.        *)
(***************************************************************************)
EXTENDS OpSync

InEvents(d, op) == \E i \in 1..Len(stream[d].events) :
                      LET e == stream[d].events[i]
                      IN  \/ e.kind = "ops" /\ op \in e.ops
                          \/ e.kind = "gap" /\ op.seq <= e.through[op.dev]

InReceiver(d, op) ==
    \E i \in 1..Len(stream[d].rx) : op \in stream[d].rx[i].ops

(***************************************************************************)
(* publish.rs: "acking an op the server has not committed would promise a  *)
(* durability that does not exist".  An op that left its author's outbox   *)
(* was stored by the relay, through lost acks, re-sends in other batches   *)
(* and batch numbers that start over in every session.                     *)
(***************************************************************************)
AckedIsStored ==
    \A d \in Device : \A op \in log[d] :
        op.dev = d /\ op.seq \notin outbox[d] => op \in stored

(***************************************************************************)
(* stream.rs spawn_stream: nothing falls between the replay and the live   *)
(* frames.  Of everything the relay ever stored, an open stream's device   *)
(* holds it, or it is on its way, or the device was told of a gap over it, *)
(* unless an event was lost (a lagging receiver, a damaged frame), which   *)
(* the next Subscribe repairs.                                             *)
(***************************************************************************)
StreamAccounts ==
    \A d \in Device : \A op \in stored :
        stream[d].stage = "live" =>
            \/ Held(d, op) \/ InEvents(d, op) \/ InReceiver(d, op)
            \/ \E m \in posting : op \in m.ops
            \/ op.seq <= told[d][op.dev]
            \/ excused[d]

(***************************************************************************)
(* on_error, recover_gaps: a gap the relay reported ends in Degraded or in *)
(* a joined record.  A session that is still below a watermark it was told *)
(* of does not stay Live, it has a new answer of the relay under way.      *)
(***************************************************************************)
KnownLossSurfaces ==
    \A d \in Device :
        (st[d] = "Live" /\ \E e \in Device : CursorOf(d)[e] < told[d][e])
            => \/ stream[d].stage = "opened"
               \/ \E i \in 1..Len(stream[d].events) :
                     stream[d].events[i].kind \in {"gap", "closed"}
               \/ excused[d]

(***************************************************************************)
(* Every op a device commits is in the end held by every device, through   *)
(* lost and delayed batches, dropped sessions, closes, lagging streams,    *)
(* damaged frames and a relay restart: since a device commits finitely     *)
(* many, time and again nobody misses any.                                 *)
(***************************************************************************)
EventualDelivery ==
    []<>(\A d, w \in Device : \A op \in log[w] : Held(d, op))

(***************************************************************************)
(* Once faults and writes stop, every driver comes to rest Live with an    *)
(* empty outbox.                                                           *)
(***************************************************************************)
SettlesLive == <>[](\A d \in Device : st[d] = "Live" /\ outbox[d] = {})

(***************************************************************************)
(* The driver, the transport, the relay's log and its streams implement    *)
(* OpDelivery: every step of theirs is one of its steps or none.  A row    *)
(* leaves the outbox only for an op on the relay's disk, and what a replay *)
(* a live frame or a joined record brings a device is what some device     *)
(* committed.                                                              *)
(***************************************************************************)
Delivery == INSTANCE OpDelivery WITH
    held    <- [d \in Device |-> {op \in Op : Held(d, op)}],
    unacked <- [d \in Device |-> Own(d, outbox[d])],
    durable <- stored

DeliverySpec == Delivery!Spec
=============================================================================
