------------------------- MODULE MCIoCasMigration -------------------------
(***************************************************************************)
(* Two instances in one: a single runner over two rows, one of which may   *)
(* be damaged, in batches of two and through two passes; and two runners   *)
(* of opposite jobs over one row, with a round of the collector.           *)
(***************************************************************************)
EXTENDS IoCasMigration, TLC

VARIABLE instance

MCIds == 1..2
MCFragileIds == {2}
MCOneHash == {1}
MCOneInput == {{}, {1}}

MCTwoJobs == "r1" :> "backfill" @@ "r2" :> "expand"

OneRunner == run["r2"] = Off /\ epoch = 0 /\ phase = "idle"
OneRow ==
  /\ codec[2] = "none" /\ rotten = {}
  /\ \A r \in Runners : run[r].pass < 2 /\ run[r].cursor < 2
MCInit == MigrationInit /\ instance \in {"one runner", "one row"}
MCNext ==
  /\ MigrationNext
  /\ IF instance = "one runner" THEN OneRunner' ELSE OneRow'
  /\ UNCHANGED instance
MCSpec == MCInit /\ [][MCNext]_<<allVars, instance>>
=============================================================================
