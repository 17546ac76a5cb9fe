-------------------------- MODULE MCSessionSearch --------------------------
(***************************************************************************)
(* Instances of SessionSearch for TLC.                                     *)
(***************************************************************************)
EXTENDS SessionSearch, TLC

CONSTANTS i1, i2   \* two workers

MCTrace == {1}
MCObservation == {2}
MCOneText == {{}, {1}}
MCOneChunk == {1}
MCNothing == {}

(* A worker restarts, or a source fails, only while no source has changed    *)
(* twice.                                                                   *)
FewTroubles ==
  (restarts > 0 \/ \E i \in Indexers : worker[i].pc = "failed" \/ \E s \in Sources : retry[s] # "now")
    => \A s \in Sources : revision[s] < 2

(* A server whose rows are all older than its index: what is queued is a    *)
(* page of the history, nobody writes.                                      *)
HistorySpec == Init /\ [][\E i \in Indexers : IndexerStep(i)]_vars

MCIndexerSymmetry == Permutations({i1, i2})
=============================================================================
