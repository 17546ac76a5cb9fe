--------------------------- MODULE SqliteReadPool ---------------------------
(***************************************************************************)
(* The pool of read-only workers.  Queries wait in one queue that is       *)
(* bounded in number and in bytes; a slot sends one query at a time to its *)
(* worker thread, which cannot be interrupted: a query that is cancelled   *)
(* or times out takes its worker down with it, and the slot starts another *)
(* thread once that one has exited.                                        *)
(*                                                                         *)
(* A thread has a mailbox and a reply on the way to the main thread.  What *)
(* a query computes is left out but for whose rows it returns.  A throw of *)
(* postMessage retires the slot, as WorkerError does.  Left out: the delay *)
(* before a restart and a Worker that cannot be constructed, which only    *)
(* sets the timer again.                                                   *)
(***************************************************************************)
EXTENDS Lists

CONSTANTS
  Queries, BytesOf, Nobody,
  Size,                        \* the slots are 1..Size
  MaxPending, MaxPendingBytes

Slots == 1..Size

ASSUME PoolAssumption ==
  /\ Size \in Nat \ {0} /\ MaxPending \in Nat \ {0} /\ MaxPendingBytes \in Nat
  /\ BytesOf \in [Queries -> Nat] /\ Nobody \notin Queries

VARIABLES
  state,         \* of a slot: starting, idle, busy, stopping, stopped
  request,       \* of a slot
  restarting,    \* the slots whose restart timer is set
  threads,       \* of a slot: worker threads that have not exited
  ready,         \* the thread of the slot can take messages
  mailbox,       \* queries posted to the thread of a slot
  reply,         \* what the thread of a slot has posted
  requests,      \* the queries of the pool, oldest first
  pendingBytes,
  closed,
  outcome,       \* of a query: none, rows, error, resource or abort
  rowsOf         \* whose rows it was given

slotVars == <<state, request, restarting, threads, ready, mailbox, reply>>
poolVars == <<slotVars, requests, pendingBytes, closed, outcome, rowsOf>>

Outcomes == {"rows", "error", "resource", "abort"}

-----------------------------------------------------------------------------
(* dispatch: the oldest queries no slot has go to the idle slots in order.  *)
(* st and req are the slots and q the requests as the handler leaves them.  *)
Waiting(req, q) == Selected(q, {x \in Queries : \A s \in Slots : req[s] # x})
Rank(st, s) == Cardinality({t \in 1..s : st[t] = "idle"})
Given(st, req, q, s) ==
  IF st[s] = "idle" /\ Rank(st, s) <= Len(Waiting(req, q))
  THEN Waiting(req, q)[Rank(st, s)] ELSE Nobody

Dispatch(st, req, q, box) ==
  LET gets(s) == Given(st, req, q, s) IN
  /\ state' = [s \in Slots |-> IF gets(s) # Nobody THEN "busy" ELSE st[s]]
  /\ request' = [s \in Slots |-> IF gets(s) # Nobody THEN gets(s) ELSE req[s]]
  /\ mailbox' = [s \in Slots |-> IF gets(s) # Nobody THEN Append(box[s], gets(s)) ELSE box[s]]

NoDispatch(st, req) == state' = st /\ request' = req /\ UNCHANGED mailbox

(* settle: once, for a query the pool still has.                            *)
Settle(x, how, rows) ==
  /\ requests' = Without(requests, x)
  /\ pendingBytes' = pendingBytes - BytesOf[x]
  /\ outcome' = [outcome EXCEPT ![x] = how]
  /\ rowsOf' = [rowsOf EXCEPT ![x] = rows]

SettleNone == UNCHANGED <<requests, pendingBytes, outcome, rowsOf>>

SettleOf(s, how) == IF request[s] = Nobody THEN SettleNone ELSE Settle(request[s], how, Nobody)

-----------------------------------------------------------------------------
Admits(x) ==
  /\ ~closed /\ Len(requests) < MaxPending
  /\ pendingBytes + BytesOf[x] <= MaxPendingBytes

Submit(x) ==
  /\ outcome[x] = "none" /\ x \notin Range(requests)
  /\ IF Admits(x)
     THEN /\ requests' = Append(requests, x)
          /\ pendingBytes' = pendingBytes + BytesOf[x]
          /\ Dispatch(state, request, requests', mailbox)
          /\ UNCHANGED outcome
     ELSE /\ outcome' = [outcome EXCEPT ![x] = "resource"]
          /\ UNCHANGED <<requests, pendingBytes, state, request, mailbox>>
  /\ UNCHANGED <<restarting, threads, ready, reply, closed, rowsOf>>

(* Faulty variant: the slot is free before its thread has exited.           *)
FreeAtOnce(s) == [state EXCEPT ![s] = "idle"]

(* retire: the thread is told to terminate, which takes a while.            *)
Retired(s) == [state EXCEPT ![s] = "stopping"]
Freed(s) == [request EXCEPT ![s] = Nobody]

(* The timer of a query, or its signal.                                     *)
Cancel(x, how) ==
  /\ x \in Range(requests)
  /\ Settle(x, how, Nobody)
  /\ IF \E s \in Slots : request[s] = x
     THEN LET s == CHOOSE s \in Slots : request[s] = x
          IN Dispatch(Retired(s), Freed(s), requests', mailbox)
     ELSE Dispatch(state, request, requests', mailbox)
  /\ UNCHANGED <<restarting, threads, ready, reply, closed>>

(* The thread reports an error, or has not started in time.                 *)
WorkerError(s) ==
  /\ state[s] \in {"starting", "idle", "busy"}
  /\ NoDispatch(Retired(s), Freed(s))
  /\ SettleOf(s, "resource")
  /\ UNCHANGED <<restarting, threads, ready, reply, closed>>

-----------------------------------------------------------------------------
(* The thread.                                                              *)
Ready(s) ==
  /\ threads[s] > 0 /\ ~ready[s] /\ state[s] = "starting"
  /\ ready' = [ready EXCEPT ![s] = TRUE]
  /\ Dispatch([state EXCEPT ![s] = "idle"], request, requests, mailbox)
  /\ SettleNone /\ UNCHANGED <<restarting, threads, reply, closed>>

Answer(s, how) ==
  /\ ready[s] /\ mailbox[s] # <<>> /\ reply[s] = <<>>
  /\ reply' = [reply EXCEPT ![s] = <<Head(mailbox[s]), how>>]
  /\ mailbox' = [mailbox EXCEPT ![s] = Tail(@)]
  /\ SettleNone /\ UNCHANGED <<state, request, restarting, threads, ready, closed>>

(* The handler drops the answer of a slot that is stopping, and one that is *)
(* not for the request of the slot.                                         *)
Receive(s) ==
  /\ reply[s] # <<>>
  /\ reply' = [reply EXCEPT ![s] = <<>>]
  /\ LET x == reply[s][1] how == reply[s][2] IN
     IF state[s] = "stopping" \/ closed \/ request[s] # x
     THEN SettleNone /\ UNCHANGED <<state, request, mailbox>>
     ELSE /\ Settle(x, how, IF how = "rows" THEN x ELSE Nobody)
          /\ Dispatch([state EXCEPT ![s] = "idle"], Freed(s), requests', mailbox)
  /\ UNCHANGED <<restarting, threads, ready, closed>>

(* The thread exits, told to or not.                                        *)
Exit(s) ==
  /\ threads[s] > 0
  /\ threads' = [threads EXCEPT ![s] = @ - 1]
  /\ ready' = [ready EXCEPT ![s] = FALSE]
  /\ reply' = [reply EXCEPT ![s] = <<>>]
  /\ mailbox' = [mailbox EXCEPT ![s] = <<>>]
  /\ SettleOf(s, "resource")
  /\ request' = Freed(s)
  /\ state' = [state EXCEPT ![s] = "stopped"]
  /\ restarting' = IF closed THEN restarting ELSE restarting \cup {s}
  /\ UNCHANGED closed

Start(s) ==
  /\ s \in restarting /\ ~closed
  /\ restarting' = restarting \ {s}
  /\ state' = [state EXCEPT ![s] = "starting"]
  /\ threads' = [threads EXCEPT ![s] = @ + 1]
  /\ SettleNone /\ UNCHANGED <<request, ready, mailbox, reply, closed>>

Close ==
  /\ ~closed
  /\ closed' = TRUE
  /\ requests' = <<>> /\ pendingBytes' = 0
  /\ outcome' = [x \in Queries |-> IF x \in Range(requests) THEN "resource" ELSE outcome[x]]
  /\ state' = [s \in Slots |-> "stopping"]
  /\ request' = [s \in Slots |-> Nobody]
  /\ restarting' = {}
  /\ UNCHANGED <<threads, ready, mailbox, reply, rowsOf>>

PoolInit ==
  /\ state = [s \in Slots |-> "starting"] /\ request = [s \in Slots |-> Nobody]
  /\ restarting = {} /\ threads = [s \in Slots |-> 1] /\ ready = [s \in Slots |-> FALSE]
  /\ mailbox = [s \in Slots |-> <<>>] /\ reply = [s \in Slots |-> <<>>]
  /\ requests = <<>> /\ pendingBytes = 0 /\ closed = FALSE
  /\ outcome = [x \in Queries |-> "none"] /\ rowsOf = [x \in Queries |-> Nobody]

(* What happens without a caller.                                           *)
PoolStep ==
  \/ \E x \in Queries : \E how \in {"resource", "abort"} : Cancel(x, how)
  \/ \E s \in Slots :
       \/ WorkerError(s) \/ Ready(s) \/ Receive(s) \/ Exit(s) \/ Start(s)
       \/ \E how \in {"rows", "error", "resource"} : Answer(s, how)

PoolNext == PoolStep \/ Close \/ \E x \in Queries : Submit(x)
PoolSpec == PoolInit /\ [][PoolNext]_poolVars

-----------------------------------------------------------------------------
PoolTypeOK ==
  /\ state \in [Slots -> {"starting", "idle", "busy", "stopping", "stopped"}]
  /\ request \in [Slots -> Queries \cup {Nobody}]
  /\ restarting \subseteq Slots /\ threads \in [Slots -> Nat] /\ ready \in [Slots -> BOOLEAN]
  /\ mailbox \in [Slots -> Seq(Queries)]
  /\ requests \in Seq(Queries) /\ pendingBytes \in Nat /\ closed \in BOOLEAN
  /\ outcome \in [Queries -> Outcomes \cup {"none"}]
  /\ rowsOf \in [Queries -> Queries \cup {Nobody}]

(* The bounds hold and count what is there: the queue has every query once, *)
(* every query of a slot, and none that was answered; its bytes are theirs. *)
QueueExact ==
  /\ Len(requests) <= MaxPending /\ pendingBytes <= MaxPendingBytes
  /\ IsInjective(requests)
  /\ pendingBytes = Total(BytesOf, requests)
  /\ \A x \in Range(requests) : outcome[x] = "none"
  /\ \A s \in Slots : state[s] = "busy" <=> request[s] # Nobody
  /\ \A s \in Slots : request[s] # Nobody => request[s] \in Range(requests)
  /\ \A s, t \in Slots : s # t /\ request[s] # Nobody => request[s] # request[t]
  /\ closed => requests = <<>>

(* Nobody gets the rows of another query, however late an answer comes.     *)
OwnRows == \A x \in Queries : rowsOf[x] = (IF outcome[x] = "rows" THEN x ELSE Nobody)

(* One thread per slot, one query per thread; a thread that has work nobody *)
(* waits for is being stopped; an idle slot leaves no query waiting.        *)
WorkersBounded ==
  /\ \A s \in Slots :
       /\ threads[s] <= 1
       /\ Len(mailbox[s]) + (IF reply[s] = <<>> THEN 0 ELSE 1) <= 1
       /\ mailbox[s] # <<>> => request[s] = Head(mailbox[s]) \/ state[s] = "stopping"
       /\ state[s] = "idle" => Waiting(request, requests) = <<>>
       /\ state[s] = "stopped" /\ ~closed => s \in restarting

(* Queue, slots and threads together.                                       *)
ReadPoolInv == PoolTypeOK /\ QueueExact /\ WorkersBounded /\ OwnRows
=============================================================================
