--------------------------- MODULE MCEntityMerge ----------------------------
(***************************************************************************)
(* Instances of EntityMerge for TLC.  Each run names its own set of edits, *)
(* so that one instance stays small and between them every field type,     *)
(* conflict class and origin is written concurrently.                      *)
(***************************************************************************)
EXTENDS EntityMergeProps

MCClassOf == [f \in Field |-> CASE f = "state"   -> "state"
                                [] f = "deleted" -> "tombstone"
                                [] OTHER         -> "plain"]

Set(f, v, o) == [kind |-> "set", field |-> f, val |-> v, origin |-> o]

\* A status register (2 is terminal), written by people and by the routine
\* engine, and the tombstone.
RegisterEdits == {Set("state", 1, "user"), Set("state", 2, "user"),
                  Set("state", 1, "generated"), Set("deleted", 1, "user")}

\* The OR-set, the counter and the map beside one register.
FieldEdits == {Set("plan", 1, "user"), [kind |-> "add", elem |-> "x"],
               [kind |-> "remove", elem |-> "x"], [kind |-> "inc"],
               [kind |-> "put", key |-> "k", val |-> 1]}

=============================================================================
