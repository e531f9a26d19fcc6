----------------------------- MODULE OpDelivery -----------------------------
(***************************************************************************)
(* What sync promises an app, with no relay, session or stream in sight    *)
(* (docs/05-sync: the outbox is durable, the relay is a log): a device's   *)
(* ops are numbered from one, its own copy of each stays unacked until the *)
(* relay has it on disk, and every other copy of an op is one its author   *)
(* committed.  Nothing held is ever dropped.                               *)
(***************************************************************************)
EXTENDS Naturals, FiniteSets

CONSTANTS Device, Op

VARIABLES held,     \* held[d]: the ops device d holds
          unacked,  \* unacked[d]: its own ops it still has to deliver
          durable   \* the ops the relay stored

vars == <<held, unacked, durable>>

Committed == UNION {held[d] : d \in Device}

Init ==
    /\ held = [d \in Device |-> {}]
    /\ unacked = [d \in Device |-> {}]
    /\ durable = {}

Commit(d) ==
    LET n == Cardinality({op \in held[d] : op.dev = d}) + 1
        new == {op \in Op : op.dev = d /\ op.seq = n}
    IN  /\ new # {}
        /\ held' = [held EXCEPT ![d] = @ \cup new]
        /\ unacked' = [unacked EXCEPT ![d] = @ \cup new]
        /\ UNCHANGED durable

Store(d) ==
    /\ \E ops \in SUBSET {op \in held[d] : op.dev = d} :
          durable' = durable \cup ops
    /\ UNCHANGED <<held, unacked>>

Acked(d) ==
    /\ \E ops \in SUBSET (unacked[d] \cap durable) :
          unacked' = [unacked EXCEPT ![d] = @ \ ops]
    /\ UNCHANGED <<held, durable>>

Learn(d) ==
    /\ \E ops \in SUBSET Committed : held' = [held EXCEPT ![d] = @ \cup ops]
    /\ UNCHANGED <<unacked, durable>>

Next == \E d \in Device : Commit(d) \/ Store(d) \/ Acked(d) \/ Learn(d)

Spec == Init /\ [][Next]_vars
=============================================================================
