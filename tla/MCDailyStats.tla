---------------------------- MODULE MCDailyStats ----------------------------
(***************************************************************************)
(* The safety instance of DailyStats for TLC; MCMaintenance has the live   *)
(* one.                                                                    *)
(***************************************************************************)
EXTENDS DailyStats, TLC

MCDays == 1..2
MCFragile == {1}
MCSecondDay == {2}

MCCoversOne == "stats" :> {"o"} @@ "models" :> {"o"}

\* After a restart of the server the other process is done.
OneTrouble == restarts = 0 \/ \A w \in Foreign : work[w] = Idle
=============================================================================
