------------------------- MODULE ObservationInputs -------------------------
(***************************************************************************)
(* What a client of the telemetry store is promised about the `input`      *)
(* column of an observation, whatever codec the row is stored in: the text *)
(* last written under an id is the text a reader gets, until the row is    *)
(* overwritten or deleted.  Garbage collection and re-encoding jobs are    *)
(* invisible at this level.                                                *)
(***************************************************************************)
CONSTANTS
  Ids,      \* observation ids of one project
  Inputs,   \* the texts an observation can carry
  NoInput   \* what reading an id with no row returns

VARIABLE value   \* value[id]: the text a reader of id gets

TypeOK == value \in [Ids -> Inputs \cup {NoInput}]

Init == value = [id \in Ids |-> NoInput]

Put(id, text) == value' = [value EXCEPT ![id] = text]

Remove(S) == value' = [id \in Ids |-> IF id \in S THEN NoInput ELSE value[id]]

Next ==
  \/ \E id \in Ids, text \in Inputs : Put(id, text)
  \/ \E S \in SUBSET Ids : Remove(S)

Spec == Init /\ [][Next]_value
=============================================================================
