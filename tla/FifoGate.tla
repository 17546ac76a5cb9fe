------------------------------ MODULE FifoGate ------------------------------
(***************************************************************************)
(* FifoGate: the chain of promises that serializes every native call of a  *)
(* connection.  acquire() replaces the tail by a new promise and waits for *)
(* the one before it; release() resolves its own.  Promises are numbered   *)
(* in the order they are chained: tail of them exist and, because each is  *)
(* resolved only after the one before it, those up to served are resolved. *)
(* An aborted acquire() rejects its caller at once, but its promise stays  *)
(* in the chain and is resolved when its turn comes.                       *)
(*                                                                         *)
(* Clients are the parties that acquire, the closing connection included;  *)
(* a client has one place in the chain at a time.                          *)
(***************************************************************************)
EXTENDS Naturals

CONSTANT Clients

VARIABLES
  tail,       \* number of promises chained so far
  served,     \* number of them that are resolved
  ticket,     \* the number of a client's promise, 0 when it has none
  holding,    \* clients whose acquire() has resolved, not released yet
  withdrawn   \* clients whose acquire() was aborted before its turn

gateVars == <<tail, served, ticket, holding, withdrawn>>

GateTypeOK ==
  /\ tail \in Nat /\ served \in Nat
  /\ ticket \in [Clients -> Nat]
  /\ holding \in SUBSET Clients
  /\ withdrawn \in SUBSET Clients

GateInit ==
  /\ tail = 0 /\ served = 0
  /\ ticket = [c \in Clients |-> 0]
  /\ holding = {} /\ withdrawn = {}

(* Faulty variant of Withdraw: the aborted caller resolves its promise at once. *)
WithdrawReleases(c) ==
  /\ ticket[c] # 0 /\ c \notin holding \cup withdrawn
  /\ served' = served + 1
  /\ ticket' = [ticket EXCEPT ![c] = 0]
  /\ UNCHANGED <<tail, holding, withdrawn>>

(* Faulty variant of Acquire: the tail is not replaced, so that the next one  *)
(* to arrive waits for the same promise.                                      *)
AcquireKeepsTail(c) ==
  /\ ticket[c] = 0
  /\ ticket' = [ticket EXCEPT ![c] = tail + 1]
  /\ UNCHANGED <<tail, served, holding, withdrawn>>

-----------------------------------------------------------------------------
Acquire(c) ==
  /\ ticket[c] = 0
  /\ tail' = tail + 1
  /\ ticket' = [ticket EXCEPT ![c] = tail + 1]
  /\ UNCHANGED <<served, holding, withdrawn>>

Withdraw(c) ==
  /\ ticket[c] # 0 /\ c \notin holding \cup withdrawn
  /\ withdrawn' = withdrawn \cup {c}
  /\ UNCHANGED <<tail, served, ticket, holding>>

(* The promise before a client's own is resolved. *)
MyTurn(c) == ticket[c] = served + 1

Grant(c) ==
  /\ MyTurn(c) /\ c \notin holding \cup withdrawn
  /\ holding' = holding \cup {c}
  /\ UNCHANGED <<tail, served, ticket, withdrawn>>

PassOn(c) ==
  /\ MyTurn(c) /\ c \in withdrawn
  /\ served' = served + 1
  /\ ticket' = [ticket EXCEPT ![c] = 0]
  /\ withdrawn' = withdrawn \ {c}
  /\ UNCHANGED <<tail, holding>>

Release(c) ==
  /\ c \in holding
  /\ served' = served + 1
  /\ ticket' = [ticket EXCEPT ![c] = 0]
  /\ holding' = holding \ {c}
  /\ UNCHANGED <<tail, withdrawn>>

-----------------------------------------------------------------------------
(* At most one client holds the gate, and it is the one whose turn it is. *)
MutualExclusion == \A c \in holding : MyTurn(c)

(* Every promise that is not resolved belongs to one client, so no turn is   *)
(* lost and none is taken twice.                                             *)
NoTurnLost ==
  /\ served <= tail
  /\ \A n \in (served + 1)..tail : \E c \in Clients : ticket[c] = n
  /\ \A c \in Clients : ticket[c] # 0 => ticket[c] \in (served + 1)..tail
  /\ \A c, d \in Clients : ticket[c] # 0 /\ ticket[c] = ticket[d] => c = d

GateInv ==
  /\ GateTypeOK
  /\ MutualExclusion
  /\ NoTurnLost
  /\ holding \cap withdrawn = {}
  /\ \A c \in holding \cup withdrawn : ticket[c] # 0

(* The gate seen as a lock: who withdrew has left the line. *)
Arrival ==
  [c \in Clients |-> IF c \in holding \cup withdrawn THEN 0 ELSE ticket[c]]

Lock == INSTANCE FifoLock WITH arrival <- Arrival, holders <- holding
=============================================================================
