----------------------------- MODULE MCReadPath -----------------------------
(***************************************************************************)
(* What the server keeps in memory: its reads, and its job queue.  The two *)
(* share nothing, so each behaviour is one of them and the other one rests:*)
(* half says which.                                                        *)
(*                                                                         *)
(* ReadPath: requests for one key, and one for another; an entry leaves no *)
(* room for a second, and a worker for two queries.                        *)
(*                                                                         *)
(* InMemoryQueue: a job that is delayed, retried and takes two of three    *)
(* bytes, one that fails at once, and one that is retried at once and not  *)
(* kept.                                                                   *)
(***************************************************************************)
EXTENDS ReadPath, InMemoryQueue, TLC

CONSTANTS Other, MaxEntered, j1, j2, j3

VARIABLE half

MCKeyOf == [r \in Requests |-> IF r = Other THEN "k2" ELSE "k1"]
MCBytesOf == [r \in Requests |-> IF r = Other THEN 2 ELSE 1]
MCBytesOfBody == [k \in Keys |-> IF k = "k2" THEN 2 ELSE 1]

(* At most MaxEntered of the requests arrive; those for the same key come   *)
(* in the order of their names, which loses no behaviour.                   *)
Entered == {r \in Requests : doing[r] # "new"}
First == <<"r1", "r2", "r3">>
Small ==
  /\ Cardinality(Entered) <= MaxEntered
  /\ \A i \in 1..2 : First[i + 1] \in Entered => First[i] \in Entered

MCSizeOf == (j1 :> 2) @@ (j2 :> 1) @@ (j3 :> 1)
MCAttempts == (j1 :> 2) @@ (j2 :> 1) @@ (j3 :> 2)
MCDelayed == [j \in Jobs |-> j = j1]
MCBackoff == [j \in Jobs |-> j # j3]
MCKeepFailed == (j1 :> 2) @@ (j2 :> 1) @@ (j3 :> 0)

MCInit == ReadInit /\ QueueInit /\ half \in {"reads", "queue"}
MCNext ==
  /\ \/ half = "reads" /\ ReadNext /\ Small' /\ UNCHANGED queueVars
     \/ half = "queue" /\ QueueNext /\ UNCHANGED readVars
  /\ UNCHANGED half
MCSpec ==
  /\ MCInit /\ [][MCNext]_<<readVars, queueVars, half>>
  /\ WF_readVars(half = "reads" /\ Handlers)
  /\ \A s \in Slots : WF_readVars(half = "reads" /\ Comeback(s))
  /\ QueueFairness
=============================================================================
