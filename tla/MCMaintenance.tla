--------------------------- MODULE MCMaintenance ---------------------------
(***************************************************************************)
(* The work of the server in the background: the loop of the daily rollups,*)
(* the jobs of retention and of the collector of all projects, and an      *)
(* indexer of the session search.  They share nothing that matters to any  *)
(* of them, so each behaviour is one of the three and the others rest:     *)
(* part says which.                                                        *)
(***************************************************************************)
EXTENDS DailyStats, CasGcJob, TLC

VARIABLES
  part,
  rows, text, damaged, sourceRevision, queued, retry, occurrences, version, texts, index, history,
  worker, workerRestarts
searchVars == <<rows, text, damaged, sourceRevision, queued, retry, occurrences, version, texts,
                index, history, worker, workerRestarts>>

(* One trace that may fail, one observation whose bytes may decay.          *)
Search == INSTANCE SessionSearch WITH
  Traces <- {1}, Observations <- {2}, Chunks <- {1, 2}, Texts <- {{}, {1}, {1, 2}},
  TooLarge <- {{1, 2}}, Indexers <- {"i1"}, BackfillPage <- 1, DirtyPage <- 2,
  FragileSources <- {1}, DecayingSources <- {2}, MaxRevision <- 1, MaxRestarts <- 1,
  revision <- sourceRevision, backfill <- history, restarts <- workerRestarts

MCDays == 1..2
MCFragile == {1}
MCCoversRow == "all" :> {"o"}
MCProjects == 1..2
MCFirst == {1}

allVars == <<vars, jobVars, searchVars, part>>

NothingToIndex == Search!Init /\ rows = {}
NothingToDo == JobInit /\ rooted = {}
NothingToCount == Init /\ dayOf = [r \in Rows |-> 0] /\ \A r, s \in Rows : value[r] = value[s]

(* In the part of the jobs all projects have rows.                          *)
MCInit ==
  \/ part = "days" /\ Init /\ NothingToDo /\ NothingToIndex
  \/ part = "jobs" /\ NothingToCount /\ JobInit /\ rooted = Projects /\ NothingToIndex
  \/ part = "search" /\ NothingToCount /\ NothingToDo /\ Search!Init

\* At most two of the bounded troubles in a behaviour.
Troubles == bounds.errors + bounds.boots + Cardinality(invalid) + Cardinality(stuck)
MaxTroubles == 2

DaysNext == part = "days" /\ Next /\ UNCHANGED <<jobVars, searchVars, part>>
JobsNext == /\ part = "jobs" /\ JobNext /\ Troubles' <= MaxTroubles
            /\ UNCHANGED <<vars, searchVars, part>>
SearchNext == part = "search" /\ Search!Next /\ UNCHANGED <<vars, jobVars, part>>

\* Nobody has to start the server.
StaysDown == part = "jobs" /\ server = "down" /\ UNCHANGED allVars

MCSpec ==
  /\ MCInit
  /\ [][DaysNext \/ JobsNext \/ SearchNext \/ StaysDown]_allVars
  /\ WF_vars(part = "days" /\ LoopStep) /\ SF_vars(part = "days" /\ LoopDay)
  /\ \A w \in Workers : WF_vars(part = "days" /\ DayStep(w))
  /\ JobFairness
  /\ WF_searchVars(part = "search" /\ Search!IndexerStep("i1"))
  /\ \A s \in 1..2 : WF_searchVars(part = "search" /\ Search!Due(s))

\* The history of sources is indexed in the end (see SessionSearch).
HistoryIndexed == part = "search" => Search!HistoryIndexed
=============================================================================
