------------------------------ MODULE FifoLock ------------------------------
(***************************************************************************)
(* What the connection's gate promises: a lock that is handed over in the  *)
(* order of arrival, whose waiters may leave before their turn.  arrival   *)
(* holds a number for each client that waits; only their order matters.    *)
(***************************************************************************)
EXTENDS Naturals

CONSTANT Clients

VARIABLES
  arrival,   \* the number under which a client waits, 0 when it does not
  holders    \* the clients that hold the lock

lockVars == <<arrival, holders>>

Waiting == {c \in Clients : arrival[c] # 0}

Init ==
  /\ arrival = [c \in Clients |-> 0]
  /\ holders = {}

(* A client joins the line behind everybody else. *)
Arrive(c) ==
  /\ c \notin Waiting \cup holders
  /\ arrival' = [arrival EXCEPT ![c] = arrival'[c]]
  /\ \A d \in Clients : arrival[d] < arrival'[c]
  /\ UNCHANGED holders

(* The first of the line gets the free lock. *)
Enter(c) ==
  /\ holders = {}
  /\ c \in Waiting
  /\ \A d \in Waiting : arrival[c] <= arrival[d]
  /\ holders' = {c}
  /\ arrival' = [arrival EXCEPT ![c] = 0]

Leave(c) ==
  /\ c \in Waiting
  /\ arrival' = [arrival EXCEPT ![c] = 0]
  /\ UNCHANGED holders

Exit(c) ==
  /\ c \in holders
  /\ holders' = holders \ {c}
  /\ UNCHANGED arrival

Next == \E c \in Clients : Arrive(c) \/ Enter(c) \/ Leave(c) \/ Exit(c)

Spec == Init /\ [][Next]_lockVars
=============================================================================
