-------------------------- MODULE SqliteConnection --------------------------
(***************************************************************************)
(* One Database of the bun:sqlite engine: a single native connection that  *)
(* every request of the process shares, opened by the first of them and    *)
(* closed by close().  Requests are asynchronous; the state they check can *)
(* change at each await, and the gate (FifoGate) decides who may touch the *)
(* native handle.  A transaction keeps the gate from BEGIN to COMMIT and   *)
(* gives its callback a handle with a gate of its own, the lane below.     *)
(*                                                                         *)
(* A step is what runs between two awaits.  A request of kind              *)
(*   "exec"      makes one native call under the gate,                     *)
(*   "run"       compiles its statement, lets go of the gate, asks again,  *)
(*   "stream"    compiles, asks again and keeps the gate while its         *)
(*               consumer takes rows; it is not tracked as pending,        *)
(*   "write"     is a transaction (transactionAsync),                      *)
(*   "snapshot"  is a read transaction whose caller may abort it; what it  *)
(*               reads leaves no trace and is left out.                    *)
(* Statements insert one row each, which tells who wrote it: <<t, w>> for  *)
(* statement w of transaction t, else the request and its kind.            *)
(* Any native call may fail.  The retries of BUSY happen under the gate    *)
(* and end in success or failure within their budget.                      *)
(***************************************************************************)
EXTENDS FifoGate, Sequences

CONSTANTS
  Closer,     \* the client that stands for close()
  KindOf,     \* the kind of each request
  Statements  \* the statements a transaction may send to its handle

Ops == Clients \ {Closer}
Kinds == {"exec", "run", "stream", "write", "snapshot"}

ASSUME CloserAssumption == Closer \in Clients
ASSUME KindAssumption == KindOf \in [Ops -> Kinds]

Writers == {o \in Ops : KindOf[o] = "write"}
Transactions == {o \in Ops : KindOf[o] \in {"write", "snapshot"}}
Tracked == {o \in Ops : KindOf[o] # "stream"}

VARIABLES
  state,      \* ConnectionState
  connect,    \* connectPromise: "none", "pending", "opened" or "failed"
  closing,    \* how far performClose has come
  stopped,    \* streams whose iteration close() has asked to stop
  native,     \* the native handle: open, inTransaction, rows not committed
  table,      \* the rows committed to the database
  phase,      \* where each request is
  outcome,    \* how its promise was settled
  scope,      \* {t}: accepted in the scope of transaction t, {} outside any
  aborted,    \* snapshots whose signal is aborted
  lane,       \* statements accepted by a transaction's handle, in order
  work,       \* what became of each statement of a transaction
  failure     \* the first error of a transaction: a statement's or another

conn == <<state, connect, closing, stopped>>
db == <<native, table>>
calls == <<phase, outcome, scope, aborted>>
txs == <<lane, work, failure>>
vars == <<gateVars, conn, db, calls, txs>>

States == {"new", "connecting", "open", "closing", "closed", "failed"}
CloseSteps == {"none", "connecting", "draining", "queued", "closed"}
Phases == {"idle", "opening", "queued", "inside", "prepared", "requeued",
           "executing", "running", "settling", "done"}
Outcomes == {"none", "ok", "failed", "refused", "cancelled"}
Rows == Ops \X (Kinds \cup Statements)

OwnRow(o) == <<o, KindOf[o]>>

ConnectionTypeOK ==
  /\ GateTypeOK
  /\ state \in States
  /\ connect \in {"none", "pending", "opened", "failed"}
  /\ closing \in CloseSteps
  /\ stopped \in SUBSET Ops
  /\ native \in [open : BOOLEAN, inTx : BOOLEAN, staged : SUBSET Rows]
  /\ table \in SUBSET Rows
  /\ phase \in [Ops -> Phases]
  /\ outcome \in [Ops -> Outcomes]
  /\ scope \in [Ops -> SUBSET Transactions]
  /\ aborted \in SUBSET Ops
  /\ lane \in [Writers -> Seq(Statements)]
  /\ work \in [Writers ->
                [Statements -> {"idle", "accepted", "done", "caught", "failed"}]]
  /\ failure \in [Transactions -> {"none", "error", "statement"}]

Closed == [open |-> FALSE, inTx |-> FALSE, staged |-> {}]

Init ==
  /\ GateInit
  /\ state = "new" /\ connect = "none" /\ closing = "none" /\ stopped = {}
  /\ native = Closed /\ table = {}
  /\ phase = [o \in Ops |-> "idle"]
  /\ outcome = [o \in Ops |-> "none"]
  /\ scope = [o \in Ops |-> {}]
  /\ aborted = {}
  /\ lane = [t \in Writers |-> <<>>]
  /\ work = [t \in Writers |-> [w \in Statements |-> "idle"]]
  /\ failure = [t \in Transactions |-> "none"]

(* assertUsable: a closing, closed or failed connection refuses. *)
Usable == state \notin {"closing", "closed", "failed"}

(* The promise of request o is settled; goto moves it on instead. *)
Settle(o, how) ==
  /\ phase' = [phase EXCEPT ![o] = "done"]
  /\ outcome' = [outcome EXCEPT ![o] = how]

Goto(o, to) ==
  /\ phase' = [phase EXCEPT ![o] = to]
  /\ UNCHANGED outcome

(* The native call of a statement that inserts row: outside a transaction it *)
(* commits by itself, inside one it waits for the COMMIT.                    *)
Insert(row) ==
  IF native.inTx
  THEN /\ native' = [native EXCEPT !.staged = native.staged \cup {row}]
       /\ UNCHANGED table
  ELSE /\ table' = table \cup {row}
       /\ UNCHANGED native

-----------------------------------------------------------------------------
(* Faulty variants of definitions below, slips this code could make.           *)

(* close() waits for the pending requests but not for the gate. *)
DrainedClosesAtOnce ==
  /\ closing = "draining"
  /\ \A o \in Tracked : phase[o] \in {"idle", "done"}
  /\ state' = "closed" /\ closing' = "closed"
  /\ native' = Closed
  /\ UNCHANGED <<gateVars, connect, stopped, table, calls, txs>>

(* close() leaves the iterations alone. *)
ConnectedWithoutStopping ==
  /\ closing = "connecting" /\ connect # "pending"
  /\ closing' = "draining"
  /\ UNCHANGED <<gateVars, state, connect, stopped, db, calls, txs>>

(* A ROLLBACK that fails is ignored. *)
TaintIgnored == UNCHANGED state

-----------------------------------------------------------------------------
(* A request is called, by a task that runs in the scope s. *)

Accept(o, s) ==
  /\ phase[o] = "idle" /\ Usable /\ s = {}
  /\ Goto(o, "opening")
  /\ scope' = [scope EXCEPT ![o] = s]
  /\ connect' = IF connect = "none" THEN "pending" ELSE connect
  /\ state' = IF connect = "none" THEN "connecting" ELSE state
  /\ UNCHANGED <<gateVars, closing, stopped, db, aborted, txs>>

Refuse(o, s) ==
  /\ phase[o] = "idle" /\ ~(Usable /\ s = {})
  /\ Settle(o, "refused")
  /\ UNCHANGED <<gateVars, conn, db, scope, aborted, txs>>

(* Callbacks and the tasks they left behind carry the scope. *)
Scopes ==
  {{}} \cup {{t} : t \in {u \in Transactions :
                         phase[u] \in {"running", "settling"} \/ outcome[u] = "ok"}}

-----------------------------------------------------------------------------
(* connect(): whatever close() has made of the state meanwhile, it is set. *)

Connected ==
  /\ connect = "pending"
  /\ connect' = "opened" /\ state' = "open"
  /\ native' = [Closed EXCEPT !.open = TRUE]
  /\ UNCHANGED <<gateVars, closing, stopped, table, calls, txs>>

ConnectFailed ==
  /\ connect = "pending"
  /\ connect' = "failed" /\ state' = "failed"
  /\ UNCHANGED <<gateVars, closing, stopped, db, calls, txs>>

(* A request learns that the connection is there and lines up. *)
LineUp(o) ==
  /\ phase[o] = "opening" /\ connect = "opened" /\ o \notin aborted
  /\ Acquire(o)
  /\ Goto(o, "queued")
  /\ UNCHANGED <<conn, db, scope, aborted, txs>>

LineUpFails(o) ==
  /\ phase[o] = "opening"
  /\ \/ connect = "failed" /\ Settle(o, "failed")
     \/ connect = "opened" /\ o \in aborted /\ Settle(o, "cancelled")
  /\ UNCHANGED <<gateVars, conn, db, scope, aborted, txs>>

-----------------------------------------------------------------------------
(* The gate. *)

Turn(c) == Grant(c) /\ UNCHANGED <<conn, db, calls, txs>>
TurnPassesOn(c) == PassOn(c) /\ UNCHANGED <<conn, db, calls, txs>>

(* The owner of the gate looks again whether it may go on. *)
Enter(o) ==
  /\ o \in holding /\ Usable
  /\ \/ phase[o] = "queued" /\ Goto(o, "inside")
     \/ phase[o] = "requeued" /\ KindOf[o] = "run" /\ Goto(o, "executing")
     \/ phase[o] = "requeued" /\ KindOf[o] = "stream" /\ Goto(o, "running")
  /\ UNCHANGED <<gateVars, conn, db, scope, aborted, txs>>

TurnedAway(o) ==
  /\ o \in holding /\ ~Usable /\ phase[o] \in {"queued", "requeued"}
  /\ Release(o)
  /\ Settle(o, "refused")
  /\ UNCHANGED <<conn, db, scope, aborted, txs>>

-----------------------------------------------------------------------------
(* Statements of the parent connection. *)

Prepare(o) ==
  /\ phase[o] = "inside" /\ KindOf[o] \in {"run", "stream"}
  /\ Release(o)
  /\ (native.open /\ Goto(o, "prepared")) \/ Settle(o, "failed")
  /\ UNCHANGED <<conn, db, scope, aborted, txs>>

LineUpAgain(o) ==
  /\ phase[o] = "prepared" /\ Usable
  /\ Acquire(o)
  /\ Goto(o, "requeued")
  /\ UNCHANGED <<conn, db, scope, aborted, txs>>

RefusedAgain(o) ==
  /\ phase[o] = "prepared" /\ ~Usable
  /\ Settle(o, "refused")
  /\ UNCHANGED <<gateVars, conn, db, scope, aborted, txs>>

Execute(o) ==
  /\ \/ phase[o] = "inside" /\ KindOf[o] = "exec"
     \/ phase[o] = "executing"
  /\ Release(o)
  /\ \/ native.open /\ Insert(OwnRow(o)) /\ Settle(o, "ok")
     \/ Settle(o, "failed") /\ UNCHANGED db
  /\ UNCHANGED <<conn, scope, aborted, txs>>

Streaming(o) == KindOf[o] = "stream" /\ phase[o] = "running"

(* The consumer took the last row, or leaves early. *)
StreamEnds(o) ==
  /\ Streaming(o)
  /\ Release(o)
  /\ Settle(o, "ok")
  /\ UNCHANGED <<conn, db, scope, aborted, txs>>

StreamStopped(o) ==
  /\ Streaming(o) /\ o \in stopped
  /\ Release(o)
  /\ Settle(o, "cancelled")
  /\ UNCHANGED <<conn, db, scope, aborted, txs>>

-----------------------------------------------------------------------------
(* Transactions. *)

Begin(t) ==
  /\ phase[t] = "inside" /\ t \in Transactions \ aborted
  /\ native.open /\ ~native.inTx
  /\ native' = [native EXCEPT !.inTx = TRUE]
  /\ Goto(t, "running")
  /\ UNCHANGED <<gateVars, conn, table, scope, aborted, txs>>

(* Aborted, or WAL or BEGIN failed: nothing has begun, nothing is undone. *)
BeginFails(t) ==
  /\ phase[t] = "inside" /\ t \in Transactions
  /\ Release(t)
  /\ Settle(t, IF t \in aborted THEN "cancelled" ELSE "failed")
  /\ failure' = [failure EXCEPT ![t] = "error"]
  /\ UNCHANGED <<conn, db, scope, aborted, lane, work>>

(* The callback, or a task it started, sends a statement to the handle,     *)
(* which takes statements until the transaction is disposed of.             *)
HandleCall(t, w) ==
  /\ work[t][w] = "idle" /\ phase[t] \in {"running", "settling"}
  /\ lane' = [lane EXCEPT ![t] = Append(lane[t], w)]
  /\ work' = [work EXCEPT ![t] = [work[t] EXCEPT ![w] = "accepted"]]
  /\ UNCHANGED <<gateVars, conn, db, calls, failure>>

(* The first statement of the lane runs.  An error is "caught" when the     *)
(* running callback waits for the statement and deals with it.              *)
HandleRuns(t) ==
  /\ lane[t] # <<>>
  /\ lane' = [lane EXCEPT ![t] = Tail(lane[t])]
  /\ LET w == Head(lane[t])
         Became(how) == work' = [work EXCEPT ![t] = [work[t] EXCEPT ![w] = how]]
     IN  \/ Became("done") /\ Insert(<<t, w>>)
         \/ Became("failed") /\ UNCHANGED db
         \/ phase[t] = "running" /\ Became("caught") /\ UNCHANGED db
  /\ UNCHANGED <<gateVars, conn, calls, failure>>

(* The callback waits for the requests it made on the parent connection. *)
NestedSettled(t) == \A o \in Ops : scope[o] = {t} => phase[o] = "done"

CallbackResolves(t) ==
  /\ t \in Transactions /\ phase[t] = "running"
  /\ t \notin aborted /\ NestedSettled(t)
  /\ Goto(t, "settling")
  /\ UNCHANGED <<gateVars, conn, db, scope, aborted, txs>>

(* It throws, or the abort signal wins the race against it. *)
CallbackFails(t) ==
  /\ t \in Transactions /\ phase[t] = "running"
  /\ t \in aborted \/ NestedSettled(t)
  /\ Goto(t, "settling")
  /\ failure' = [failure EXCEPT ![t] = "error"]
  /\ UNCHANGED <<gateVars, conn, db, scope, aborted, lane, work>>

(* registry.takeFailure: some statement of the handle was rejected. *)
Poisoned(t) == t \in Writers /\ \E w \in Statements : work[t][w] \in {"caught", "failed"}

(* settle() has drained the lane; the transaction ends and is disposed of. *)
Drained(t) == t \in Transactions /\ phase[t] = "settling"
              /\ (t \in Writers => lane[t] = <<>>)

Commit(t) ==
  /\ Drained(t) /\ failure[t] = "none" /\ ~Poisoned(t)
  /\ table' = table \cup native.staged
  /\ native' = [Closed EXCEPT !.open = native.open]
  /\ Release(t)
  /\ Settle(t, IF t \in aborted THEN "cancelled" ELSE "ok")
  /\ UNCHANGED <<conn, scope, aborted, txs>>

(* A transaction that cannot be rolled back stays open on the connection. *)
Taint == state' = "failed"

RollBack ==
  \/ /\ native' = [Closed EXCEPT !.open = native.open]
     /\ UNCHANGED state
  \/ Taint /\ UNCHANGED native

(* An earlier error, or COMMIT fails. *)
Undo(t) ==
  /\ Drained(t)
  /\ failure' = [failure EXCEPT ![t] =
                   IF failure[t] # "none" THEN failure[t]
                   ELSE IF Poisoned(t) THEN "statement" ELSE "error"]
  /\ RollBack
  /\ Release(t)
  /\ Settle(t, IF t \in aborted THEN "cancelled" ELSE "failed")
  /\ UNCHANGED <<connect, closing, stopped, table, scope, aborted, lane, work>>

(* The caller's signal or the deadline of a snapshot.  A waiter gives up its *)
(* turn; a later step looks at the signal, a running callback loses the race. *)
AbortWaiting(o) ==
  /\ KindOf[o] = "snapshot" /\ phase[o] = "queued" /\ o \notin holding
  /\ aborted' = aborted \cup {o}
  /\ Withdraw(o)
  /\ Settle(o, "cancelled")
  /\ UNCHANGED <<conn, db, scope, txs>>

AbortSignalled(o) ==
  /\ KindOf[o] = "snapshot" /\ o \notin aborted
  /\ phase[o] \in {"opening", "inside", "running", "settling"} \/ o \in holding
  /\ aborted' = aborted \cup {o}
  /\ UNCHANGED <<gateVars, conn, db, phase, outcome, scope, txs>>

-----------------------------------------------------------------------------
(* close() *)

Close ==
  /\ closing = "none"
  /\ IF state = "new"
     THEN state' = "closed" /\ closing' = "closed"
     ELSE state' = "closing" /\ closing' = "connecting"
  /\ UNCHANGED <<gateVars, connect, stopped, db, calls, txs>>

(* The connection attempt is over: iterations of known statements must end. *)
CloseStops ==
  /\ closing = "connecting" /\ connect # "pending"
  /\ closing' = "draining"
  /\ stopped' = {o \in Ops : KindOf[o] = "stream"
                              /\ phase[o] \in {"prepared", "requeued", "running"}}
  /\ UNCHANGED <<gateVars, state, connect, db, calls, txs>>

CloseDrains ==
  /\ closing = "draining"
  /\ \A o \in Tracked : phase[o] \in {"idle", "done"}
  /\ Acquire(Closer)
  /\ closing' = "queued"
  /\ UNCHANGED <<state, connect, stopped, db, calls, txs>>

CloseFinishes ==
  /\ closing = "queued" /\ Closer \in holding
  /\ Release(Closer)
  /\ native' = Closed
  /\ state' = "closed" /\ closing' = "closed"
  /\ UNCHANGED <<connect, stopped, table, calls, txs>>

-----------------------------------------------------------------------------
(* What runs by itself once it can: continuations, callbacks, close(). *)
RequestStep(o) ==
  \/ LineUp(o) \/ LineUpFails(o)
  \/ Enter(o) \/ TurnedAway(o)
  \/ Prepare(o) \/ LineUpAgain(o) \/ RefusedAgain(o) \/ Execute(o)
  \/ StreamStopped(o)

TransactionStep(t) ==
  \/ Begin(t) \/ BeginFails(t)
  \/ CallbackResolves(t) \/ CallbackFails(t)
  \/ Commit(t) \/ Undo(t)

CloseStep == CloseStops \/ CloseDrains \/ CloseFinishes

Progress ==
  \/ Connected \/ ConnectFailed
  \/ \E c \in Clients : Turn(c) \/ TurnPassesOn(c)
  \/ \E o \in Ops : RequestStep(o)
  \/ \E t \in Transactions : TransactionStep(t)
  \/ \E t \in Writers : HandleRuns(t)
  \/ CloseStep

(* What callers do when they like. *)
Callers ==
  \/ \E o \in Ops, s \in Scopes : Accept(o, s) \/ Refuse(o, s)
  \/ \E t \in Writers, w \in Statements : HandleCall(t, w)
  \/ \E o \in Ops : StreamEnds(o) \/ AbortWaiting(o) \/ AbortSignalled(o)
  \/ Close

(* Every request is answered and the connection is closed. *)
Quiet ==
  /\ closing = "closed" /\ \A o \in Ops : phase[o] = "done"
  /\ UNCHANGED vars

Next == Progress \/ Callers \/ Quiet

Spec == Init /\ [][Next]_vars

(* The event loop does not stop while a continuation is ready, a connection  *)
(* attempt ends, and callbacks return (a snapshot's has a deadline).         *)
FairSpec == Spec /\ WF_vars(Progress)

-----------------------------------------------------------------------------
Inside == {"inside", "executing", "running", "settling"}

(* Who is at work on the native handle owns the gate and finds the handle     *)
(* open: close() cannot pull it away between a check and the call after it.   *)
SafeHandle ==
  \A o \in Ops : phase[o] \in Inside => o \in holding /\ native.open

(* A request that was answered has taken effect and one that was rejected has *)
(* none, whatever else the connection did meanwhile: no statement of one      *)
(* caller ends up in the transaction of another, nothing is half committed.   *)
AnswersAreTrue ==
  /\ \A o \in Ops : KindOf[o] \in {"exec", "run"} =>
       (OwnRow(o) \in table <=> outcome[o] = "ok")
  /\ \A t \in Writers, w \in Statements :
       <<t, w>> \in table <=> outcome[t] = "ok" /\ work[t][w] = "done"

(* The gate hands the connection over in order of arrival, aborted waiters    *)
(* dropping out (FifoLock).                                                   *)
LockSpec == Lock!Spec

(* close() ends, although the consumers of streams may never come back: every *)
(* accepted request is answered first, none waits for a gate that its own     *)
(* transaction holds, and no turn is lost to an abort.  It is promised unless *)
(* a connection attempt has reopened the state behind close()'s back.         *)
CloseEnds == (closing = "draining" /\ state = "closing") ~> (closing = "closed")

-----------------------------------------------------------------------------
(* What holds in every reachable state and makes SafeHandle and AnswersAreTrue *)
(* inductive.                                                                  *)

AtGate == {"queued", "requeued"} \cup Inside
InTransaction(t) == t \in Transactions /\ phase[t] \in {"running", "settling"}

(* A place in the chain belongs to a request that waits or works, or to one  *)
(* that gave up.                                                             *)
PlacesInv ==
  /\ \A o \in Ops : ticket[o] # 0 <=> (o \in withdrawn \/ phase[o] \in AtGate)
  /\ \A o \in Ops : o \in withdrawn => phase[o] = "done"
  /\ \A o \in Ops : phase[o] = "done" <=> outcome[o] # "none"
  /\ ticket[Closer] # 0 => closing = "queued"

(* How the state, the attempt to connect, close() and the handle go together. *)
LifeInv ==
  /\ state = "new" => connect = "none"
  /\ connect = "none" =>
       /\ native = Closed
       /\ <<state, closing>> \in {<<"new", "none">>, <<"closed", "closed">>}
       /\ \A o \in Ops : phase[o] \in {"idle", "done"}
  /\ \A o \in Ops : phase[o] \in AtGate \cup {"prepared"} => connect = "opened"
  /\ connect = "pending" => native = Closed /\ closing \in {"none", "connecting"}
  /\ connect = "opened" => (native.open <=> closing # "closed")
  /\ closing = "closed" => state = "closed" /\ native = Closed

(* Whose transaction is open, and which rows wait for its COMMIT: a request  *)
(* that passed the check under the gate finds none, unless it is its own.    *)
TransactionInv ==
  /\ \A t \in Ops : InTransaction(t) => native.inTx
  /\ native.inTx => ~Usable \/ \E t \in Ops : InTransaction(t)
  /\ \A o \in Ops : phase[o] \in Inside => InTransaction(o) \/ ~native.inTx
  /\ ~native.inTx => native.staged = {}
  /\ \A t \in Ops : InTransaction(t) =>
       native.staged = {r \in Writers \X Statements :
                          r[1] = t /\ work[t][r[2]] = "done"}

(* The statements of a handle: those of the lane are accepted, once each,     *)
(* and there are none before BEGIN and no new ones after the transaction.     *)
LaneInv ==
  \A t \in Writers :
    /\ ~InTransaction(t) => lane[t] = <<>>
    /\ ~InTransaction(t) /\ phase[t] # "done" => \A w \in Statements : work[t][w] = "idle"
    /\ \A i \in 1..Len(lane[t]) : work[t][lane[t][i]] = "accepted"
    /\ \A i, j \in 1..Len(lane[t]) : lane[t][i] = lane[t][j] => i = j

(* Each phase belongs to some kinds of requests, the signal to one. *)
KindInv ==
  /\ \A o \in aborted : KindOf[o] = "snapshot"
  /\ \A o \in Ops :
       /\ phase[o] \in {"prepared", "requeued"} => KindOf[o] \in {"run", "stream"}
       /\ phase[o] = "executing" => KindOf[o] = "run"
       /\ phase[o] = "running" => o \in Transactions \/ KindOf[o] = "stream"
       /\ phase[o] = "settling" => o \in Transactions

ConnectionInv ==
  /\ ConnectionTypeOK /\ GateInv
  /\ PlacesInv /\ LifeInv /\ TransactionInv /\ LaneInv /\ KindInv
  /\ SafeHandle /\ AnswersAreTrue

(* docs/sqlite-engine.md, section 6: an error of a statement that the         *)
(* callback has dealt with does not fail its transaction.                     *)
HandledErrorsForgiven ==
  \A t \in Writers :
    failure[t] = "statement" => \E w \in Statements : work[t][w] = "failed"
=============================================================================
