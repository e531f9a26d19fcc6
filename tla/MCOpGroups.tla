----------------------------- MODULE MCOpGroups -----------------------------
(***************************************************************************)
(* Device 1 writes a group of two over two streams, "s" and "t", between   *)
(* lone ops in each, so that a floor can pass either member and a snapshot *)
(* of one stream can carry half of it.  A third op, of a device that is    *)
(* not a replica here, overfills the group (D8).                           *)
(***************************************************************************)
EXTENDS OpGroups

Op(stream, dev, seq, at, batch, group) ==
    [stream |-> stream, dev |-> dev, seq |-> seq, at |-> at, batch |-> batch,
     group |-> group]

MCOps == {Op("s", 1, 1, 1, 1, "g"), Op("t", 1, 1, 2, 1, "g"),
          Op("s", 1, 2, 3, 2, NoGroup), Op("t", 1, 2, 4, 3, NoGroup),
          Op("s", 3, 1, 5, 1, "g")}

MCSizeOf == [g \in {"g"} |-> 2]
=============================================================================
