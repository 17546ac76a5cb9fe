----------------------------- MODULE MCMetadata -----------------------------
(***************************************************************************)
(* Instances of Prompts and DatasetItems, both of the metadata database.   *)
(***************************************************************************)
EXTENDS Prompts, DatasetItems

MCContents == {{}, {"n1", "n2"}}

(* The first request creates a prompt that refers to others, those of the    *)
(* other client do not; which name, type and client it has does not matter. *)
FirstCreates ==
  \A c \in Clients : Busy(c) =>
    /\ sent = 1 => /\ c = "c1" /\ req[c].op = "create"
                   /\ req[c].name \in {"n1", Unset} /\ req[c].type \in {"text", Unset}
    /\ sent = 1 /\ Awaits(c, "create", "newest") => req[c].refs # {}
    /\ c = "c2" => req[c].refs = {}

(* Run items are added before time passes.                                  *)
EarlyRuns == instant > 0 => runs = {} /\ runItems = {}
=============================================================================
