----------------------------- MODULE MCGateway -----------------------------
(***************************************************************************)
(* The two halves of the gateway, each from an initial state of its own:   *)
(* the requests, and the upstream calls they make.                         *)
(*                                                                         *)
(* At most two of three requests get in: two with a key that has every     *)
(* limit, under a reset or a restart, or one of them and one with a key    *)
(* that has no limit.  A third can find the gateway busy.  Of the two      *)
(* providers only one ever fails; the calls do not wait for each other.    *)
(***************************************************************************)
EXTENDS Gateway, ProviderRouter

CONSTANTS Other, Sound

VARIABLE half

MCKeyOf == [r \in Requests |-> IF r = Other THEN "k2" ELSE "k1"]
OnlyFirst == [k \in Keys |-> IF k = "k1" THEN 1 ELSE 0]

Entered == {r \in Requests : stage[r] # "new" /\ answer[r] # "busy"}
Small ==
  /\ Cardinality(Entered) <= 2
  /\ Other \in Entered => restarts = 0 /\ dues = [k \in Keys |-> 0]
  /\ dues["k2"] = 0 /\ (restarts = 0 \/ dues["k1"] = 0)
Reliable == failures[Sound] = 0 /\ status[Sound] = "healthy"

MCInit == Init /\ RouterInit /\ half \in {"requests", "calls"}
MCNext ==
  /\ \/ half = "requests" /\ Next /\ Small' /\ UNCHANGED routerVars
     \/ half = "calls" /\ RouterNext /\ Reliable' /\ UNCHANGED vars
  /\ UNCHANGED half
MCSpec == MCInit /\ [][MCNext]_<<vars, routerVars, half>> /\ Fairness
=============================================================================
