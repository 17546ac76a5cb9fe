------------------------- MODULE MCSqliteConnection -------------------------
(* Instances of SqliteConnection for TLC. *)
EXTENDS SqliteConnection

MCKinds == [o \in Ops |->
  CASE o = "w" -> "write" [] o = "r" -> "snapshot" [] o = "q" -> "run"
    [] o = "s" -> "stream" [] o = "e" -> "exec"]
=============================================================================
