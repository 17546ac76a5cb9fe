---------------------------- MODULE MCIoCasPool ----------------------------
(***************************************************************************)
(* An instance of IoCasPool for TLC: texts of no chunk, of one, and of two *)
(* that share the first.                                                   *)
(***************************************************************************)
EXTENDS IoCasPool

MCIds == 1..3
MCHashes == 1..2

MCInputs == {{}, {1}, {1, 2}}

MCFragileIds == {2}
MCFragileHashes == {1}
=============================================================================
