------------------------------ MODULE MCReceive ------------------------------
(***************************************************************************)
(* A meta stream "m" with the key envelope of epoch 2 and the cert of      *)
(* device 2, which is sealed under that epoch, and a stream "s" whose      *)
(* later ops are sealed under epoch 2: two wait for one key in a buffer of *)
(* one, one of them needs a newer build, one that does is damaged, and one *)
(* is signed by the device whose cert is still to come.                    *)
(***************************************************************************)
EXTENDS Receive

Op(stream, dev, seq, at, epoch, needs, gives, cert, sound) ==
    [stream |-> stream, dev |-> dev, seq |-> seq, at |-> at, epoch |-> epoch,
     needs |-> needs, gives |-> gives, cert |-> cert, sound |-> sound]

MCOps == {Op("m", 1, 1, 1, 1, 1, 2, FALSE, TRUE),
          Op("m", 2, 1, 2, 2, 1, 0, TRUE, TRUE),
          Op("s", 1, 1, 3, 1, 2, 0, FALSE, TRUE),
          Op("s", 1, 2, 4, 2, 1, 0, FALSE, TRUE),
          Op("s", 1, 3, 5, 2, 2, 0, FALSE, TRUE),
          Op("s", 1, 4, 6, 1, 2, 0, FALSE, FALSE),
          Op("s", 2, 1, 7, 2, 1, 0, FALSE, TRUE)}
=============================================================================
