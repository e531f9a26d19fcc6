----------------------------- MODULE MCOpChains -----------------------------
(***************************************************************************)
(* Device 1 is one vault; device 2 is two: "f" and a copy "g" of it taken  *)
(* before its first op.                                                    *)
(***************************************************************************)
EXTENDS OpChains

MCDevOf == [r \in {"a", "f", "g"} |-> IF r = "a" THEN 1 ELSE 2]
MCMaxSeq == [d \in {1, 2} |-> 2]
=============================================================================
