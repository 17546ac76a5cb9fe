----------------------- MODULE SqliteConnectionProofs -----------------------
(***************************************************************************)
(* Proofs about SqliteConnection: the gate is a fair lock, and the native  *)
(* handle and the answers of requests are safe whatever requests there are.*)
(***************************************************************************)
EXTENDS SqliteConnection, TLAPS

(* What a step may do to the gate: one of its operations, by one client. *)
GateStep ==
  \/ \E c \in Clients : Acquire(c) \/ Withdraw(c) \/ Grant(c) \/ PassOn(c) \/ Release(c)
  \/ UNCHANGED gateVars

LEMMA GateKept == GateInv /\ GateStep => GateInv'
<1> SUFFICES ASSUME GateInv, GateStep PROVE GateInv'
  OBVIOUS
<1> USE DEF GateInv, GateTypeOK, MutualExclusion, NoTurnLost, MyTurn
<1>1. ASSUME NEW c \in Clients, Acquire(c) PROVE GateInv'
  BY <1>1 DEF Acquire
<1>2. ASSUME NEW c \in Clients, Withdraw(c) PROVE GateInv'
  BY <1>2 DEF Withdraw
<1>3. ASSUME NEW c \in Clients, Grant(c) PROVE GateInv'
  BY <1>3 DEF Grant
<1>4. ASSUME NEW c \in Clients, PassOn(c) PROVE GateInv'
  BY <1>4 DEF PassOn
<1>5. ASSUME NEW c \in Clients, Release(c) PROVE GateInv'
  BY <1>5 DEF Release
<1>6. CASE UNCHANGED gateVars
  BY <1>6 DEF gateVars
<1>7. QED
  BY <1>1, <1>2, <1>3, <1>4, <1>5, <1>6 DEF GateStep

LEMMA LockKept == GateInv /\ GateStep => [Lock!Next]_(Lock!lockVars)
<1> SUFFICES ASSUME GateInv, GateStep PROVE [Lock!Next]_(Lock!lockVars)
  OBVIOUS
<1> USE DEF GateInv, GateTypeOK, MutualExclusion, NoTurnLost, MyTurn
<1>1. ASSUME NEW c \in Clients, Acquire(c) PROVE Lock!Arrive(c)
  <2>1. /\ c \notin holding \cup withdrawn /\ UNCHANGED <<holding, withdrawn>>
        /\ ticket' = [ticket EXCEPT ![c] = tail + 1] /\ ticket[c] = 0
    BY <1>1 DEF Acquire
  <2>2. Arrival' = [Arrival EXCEPT ![c] = tail + 1] /\ Arrival[c] = 0
    BY <2>1 DEF Arrival
  <2>3. Arrival'[c] = tail + 1
    BY <2>2 DEF Arrival
  <2>4. ASSUME NEW d \in Clients PROVE Arrival[d] < tail + 1
    BY DEF Arrival
  <2>5. QED
    BY <2>1, <2>2, <2>3, <2>4 DEF Lock!Arrive, Lock!Waiting
<1>2. ASSUME NEW c \in Clients, Withdraw(c) PROVE Lock!Leave(c)
  <2>1. Arrival' = [Arrival EXCEPT ![c] = 0] /\ Arrival[c] # 0
    BY <1>2 DEF Withdraw, Arrival
  <2>2. UNCHANGED holding
    BY <1>2 DEF Withdraw
  <2>3. QED
    BY <2>1, <2>2 DEF Lock!Leave, Lock!Waiting
<1>3. ASSUME NEW c \in Clients, Grant(c) PROVE Lock!Enter(c)
  <2>1. Arrival' = [Arrival EXCEPT ![c] = 0] /\ Arrival[c] = served + 1
    BY <1>3 DEF Grant, Arrival
  <2>2. holding = {} /\ holding' = {c}
    BY <1>3 DEF Grant
  <2>3. ASSUME NEW d \in Clients, Arrival[d] # 0 PROVE served + 1 <= Arrival[d]
    BY <2>3 DEF Arrival
  <2>4. QED
    BY <2>1, <2>2, <2>3 DEF Lock!Enter, Lock!Waiting
<1>4. ASSUME NEW c \in Clients, PassOn(c) PROVE UNCHANGED Lock!lockVars
  BY <1>4 DEF PassOn, Arrival, Lock!lockVars
<1>5. ASSUME NEW c \in Clients, Release(c) PROVE Lock!Exit(c)
  BY <1>5 DEF Release, Arrival, Lock!Exit
<1>6. CASE UNCHANGED gateVars
  BY <1>6 DEF gateVars, Arrival, Lock!lockVars
<1>7. QED
  BY <1>1, <1>2, <1>3, <1>4, <1>5, <1>6 DEF GateStep, Lock!Next

-----------------------------------------------------------------------------

USE CloserAssumption, KindAssumption

(* Every step of the connection does at most one operation of the gate. *)
LEMMA NextIsGateStep == [Next]_vars => GateStep
<1> SUFFICES ASSUME [Next]_vars PROVE GateStep
  OBVIOUS
<1> USE DEF Ops, Transactions, Writers, GateStep
<1>1. ASSUME NEW o \in Ops, RequestStep(o) PROVE GateStep
  BY <1>1 DEF RequestStep, LineUp, LineUpFails, Enter, TurnedAway, Prepare, LineUpAgain,
     RefusedAgain, Execute, StreamStopped
<1>2. ASSUME NEW t \in Transactions, TransactionStep(t) PROVE GateStep
  BY <1>2 DEF TransactionStep, Begin, BeginFails, CallbackResolves, CallbackFails, Commit, Undo
<1>3. ASSUME NEW t \in Writers, HandleRuns(t) PROVE GateStep
  BY <1>3 DEF HandleRuns
<1>4. CASE CloseStep
  BY <1>4 DEF CloseStep, CloseStops, CloseDrains, CloseFinishes
<1>5. ASSUME NEW c \in Clients, Turn(c) \/ TurnPassesOn(c) PROVE GateStep
  BY <1>5 DEF Turn, TurnPassesOn
<1>6. CASE Connected \/ ConnectFailed
  BY <1>6 DEF Connected, ConnectFailed
<1>7. CASE Progress
  BY <1>1, <1>2, <1>3, <1>4, <1>5, <1>6, <1>7 DEF Progress
<1>8. CASE Callers
  BY <1>8 DEF Callers, Accept, Refuse, HandleCall, StreamEnds, AbortWaiting,
       AbortSignalled, Close
<1>9. CASE Quiet \/ UNCHANGED vars
  BY <1>9 DEF Quiet, vars
<1>10. QED
  BY <1>7, <1>8, <1>9 DEF Next

(* What stands first in the lane of a transaction. *)
LEMMA LaneFront ==
  ASSUME ConnectionInv, NEW t \in Writers, lane[t] # <<>>
  PROVE  /\ InTransaction(t) /\ outcome[t] = "none"
         /\ Head(lane[t]) \in Statements /\ work[t][Head(lane[t])] = "accepted"
         /\ Tail(lane[t]) \in Seq(Statements)
<1>1. lane[t] \in Seq(Statements)
  BY DEF ConnectionInv, ConnectionTypeOK
<1>2. 1 \in 1..Len(lane[t]) /\ Head(lane[t]) = lane[t][1]
  BY <1>1
<1>3. InTransaction(t) /\ work[t][lane[t][1]] = "accepted"
  BY <1>2 DEF ConnectionInv, LaneInv
<1>4. outcome[t] = "none"
  BY <1>3 DEF ConnectionInv, PlacesInv, InTransaction, Writers
<1>5. QED
  BY <1>1, <1>2, <1>3, <1>4

(* Every step keeps the variables of the connection in their types. *)
LEMMA TypeKept == ConnectionInv /\ [Next]_vars => ConnectionTypeOK'
<1> SUFFICES ASSUME ConnectionInv, [Next]_vars PROVE ConnectionTypeOK'
  OBVIOUS
<1> USE DEF conn, db, calls, txs, gateVars, Settle, Goto, Acquire, Withdraw, Grant,
     PassOn, Release, ConnectionInv, ConnectionTypeOK, GateInv, GateTypeOK, Ops,
     Transactions, Writers, Tracked, Kinds, Insert, RollBack, Taint, Closed, States,
     CloseSteps, Phases, Outcomes, Rows, OwnRow, Scopes
<1>1. ASSUME NEW o \in Ops, NEW s \in Scopes, Accept(o, s) PROVE ConnectionTypeOK'
  BY <1>1 DEF Accept
<1>2. ASSUME NEW o \in Ops, NEW s \in Scopes, Refuse(o, s) PROVE ConnectionTypeOK'
  BY <1>2 DEF Refuse
<1>3. CASE Connected \/ ConnectFailed
  BY <1>3 DEF Connected, ConnectFailed
<1>4. ASSUME NEW o \in Ops, LineUp(o) PROVE ConnectionTypeOK'
  BY <1>4 DEF LineUp
<1>5. ASSUME NEW o \in Ops, LineUpFails(o) PROVE ConnectionTypeOK'
  <2>1. CASE connect = "failed" /\ Settle(o, "failed")
    BY <1>5, <2>1 DEF LineUpFails
  <2>2. CASE connect = "opened" /\ o \in aborted /\ Settle(o, "cancelled")
    BY <1>5, <2>2 DEF LineUpFails
  <2>3. QED
    BY <1>5, <2>1, <2>2 DEF LineUpFails
<1>6. ASSUME NEW c \in Clients, Turn(c) \/ TurnPassesOn(c) PROVE ConnectionTypeOK'
  BY <1>6 DEF Turn, TurnPassesOn
<1>7. ASSUME NEW o \in Ops, Enter(o) PROVE ConnectionTypeOK'
  BY <1>7 DEF Enter
<1>8. ASSUME NEW o \in Ops, TurnedAway(o) PROVE ConnectionTypeOK'
  BY <1>8 DEF TurnedAway
<1>9. ASSUME NEW o \in Ops, Prepare(o) PROVE ConnectionTypeOK'
  <2>1. CASE native.open /\ Goto(o, "prepared")
    BY <1>9, <2>1 DEF Prepare
  <2>2. CASE Settle(o, "failed")
    BY <1>9, <2>2 DEF Prepare
  <2>3. QED
    BY <1>9, <2>1, <2>2 DEF Prepare
<1>10. ASSUME NEW o \in Ops, LineUpAgain(o) PROVE ConnectionTypeOK'
  BY <1>10 DEF LineUpAgain
<1>11. ASSUME NEW o \in Ops, RefusedAgain(o) PROVE ConnectionTypeOK'
  BY <1>11 DEF RefusedAgain
<1>12. ASSUME NEW o \in Ops, Execute(o) PROVE ConnectionTypeOK'
  <2>1. CASE native.open /\ Insert(OwnRow(o)) /\ Settle(o, "ok")
    <3>1. CASE native.inTx
      BY <1>12, <2>1, <3>1 DEF Execute
    <3>2. CASE ~native.inTx
      BY <1>12, <2>1, <3>2 DEF Execute
    <3>3. QED
      BY <3>1, <3>2
  <2>2. CASE Settle(o, "failed") /\ UNCHANGED db
    BY <1>12, <2>2 DEF Execute
  <2>3. QED
    BY <1>12, <2>1, <2>2 DEF Execute
<1>13. ASSUME NEW o \in Ops, StreamEnds(o) PROVE ConnectionTypeOK'
  BY <1>13 DEF StreamEnds
<1>14. ASSUME NEW o \in Ops, StreamStopped(o) PROVE ConnectionTypeOK'
  BY <1>14 DEF StreamStopped
<1>15. ASSUME NEW t \in Transactions, Begin(t) PROVE ConnectionTypeOK'
  BY <1>15 DEF Begin
<1>16. ASSUME NEW t \in Transactions, BeginFails(t) PROVE ConnectionTypeOK'
  BY <1>16 DEF BeginFails
<1>17. ASSUME NEW t \in Writers, NEW w \in Statements, HandleCall(t, w) PROVE ConnectionTypeOK'
  BY <1>17 DEF HandleCall
<1>18. ASSUME NEW t \in Writers, HandleRuns(t) PROVE ConnectionTypeOK'
  <2> DEFINE w == Head(lane[t])
             Became(how) == work' = [work EXCEPT ![t] = [work[t] EXCEPT ![w] = how]]
  <2>1. w \in Statements /\ Tail(lane[t]) \in Seq(Statements)
    BY <1>18, LaneFront DEF HandleRuns
  <2>2. CASE Became("done") /\ Insert(<<t, w>>)
    <3>1. CASE native.inTx
      BY <1>18, <2>1, <2>2, <3>1 DEF HandleRuns
    <3>2. CASE ~native.inTx
      BY <1>18, <2>1, <2>2, <3>2 DEF HandleRuns
    <3>3. QED
      BY <3>1, <3>2
  <2>3. CASE \E how \in {"failed", "caught"} : Became(how) /\ UNCHANGED db
    BY <1>18, <2>1, <2>3 DEF HandleRuns
  <2>4. QED
    BY <1>18, <2>2, <2>3 DEF HandleRuns
<1>19. ASSUME NEW t \in Transactions, CallbackResolves(t) PROVE ConnectionTypeOK'
  BY <1>19 DEF CallbackResolves
<1>20. ASSUME NEW t \in Transactions, CallbackFails(t) PROVE ConnectionTypeOK'
  BY <1>20 DEF CallbackFails
<1>21. ASSUME NEW t \in Transactions, Commit(t) PROVE ConnectionTypeOK'
  <2>1. native' = [open |-> native.open, inTx |-> FALSE, staged |-> {}]
    BY <1>21 DEF Commit
  <2>2. table' \in SUBSET Rows
    BY <1>21 DEF Commit
  <2>3. phase' \in [Ops -> Phases] /\ outcome' \in [Ops -> Outcomes]
    BY <1>21 DEF Commit
  <2>4. GateTypeOK' /\ UNCHANGED <<conn, scope, aborted, txs>>
    BY <1>21 DEF Commit
  <2>5. QED
    BY <2>1, <2>2, <2>3, <2>4
<1>22. ASSUME NEW t \in Transactions, Undo(t) PROVE ConnectionTypeOK'
  <2>1. CASE native' = [Closed EXCEPT !.open = native.open] /\ UNCHANGED state
    <3>1. native' = [open |-> native.open, inTx |-> FALSE, staged |-> {}]
      BY <2>1
    <3>2. failure' \in [Transactions -> {"none", "error", "statement"}]
      BY <1>22 DEF Undo
    <3>3. phase' \in [Ops -> Phases] /\ outcome' \in [Ops -> Outcomes]
      BY <1>22 DEF Undo
    <3>4. GateTypeOK' /\ UNCHANGED <<connect, closing, stopped, table, scope, aborted,
         lane, work>>
      BY <1>22 DEF Undo
    <3>5. QED
      BY <2>1, <3>1, <3>2, <3>3, <3>4
  <2>2. CASE Taint /\ UNCHANGED native
    BY <1>22, <2>2 DEF Undo
  <2>3. QED
    BY <1>22, <2>1, <2>2 DEF Undo
<1>23. ASSUME NEW o \in Ops, AbortWaiting(o) PROVE ConnectionTypeOK'
  BY <1>23 DEF AbortWaiting
<1>24. ASSUME NEW o \in Ops, AbortSignalled(o) PROVE ConnectionTypeOK'
  BY <1>24 DEF AbortSignalled
<1>25. CASE Close
  BY <1>25 DEF Close
<1>26. CASE CloseStops
  BY <1>26 DEF CloseStops
<1>27. CASE CloseDrains
  BY <1>27 DEF CloseDrains
<1>28. CASE CloseFinishes
  BY <1>28 DEF CloseFinishes
<1>29. CASE UNCHANGED vars
  BY <1>29 DEF vars
<1> HIDE DEF conn, db, calls, txs, gateVars, Settle, Goto, Acquire, Withdraw, Grant,
     PassOn, Release, ConnectionInv, ConnectionTypeOK, GateInv, GateTypeOK, Ops,
     Transactions, Writers, Tracked, Kinds, Insert, RollBack, Taint, Closed, States,
     CloseSteps, Phases, Outcomes, Rows, OwnRow, Scopes
<1>30. QED
  BY <1>1, <1>2, <1>3, <1>4, <1>5, <1>6, <1>7, <1>8, <1>9, <1>10, <1>11, <1>12, <1>13,
       <1>14, <1>15, <1>16, <1>17, <1>18, <1>19, <1>20, <1>21, <1>22, <1>23, <1>24, <1>25,
       <1>26, <1>27, <1>28, <1>29 DEF Next, Progress, Callers, RequestStep,
       TransactionStep, CloseStep, Quiet

(* Every step keeps the places in the chain with the requests they belong to. *)
LEMMA PlacesKept == ConnectionInv /\ [Next]_vars => PlacesInv'
<1> SUFFICES ASSUME ConnectionInv, [Next]_vars PROVE PlacesInv'
  OBVIOUS
<1> USE DEF conn, db, calls, txs, gateVars, Settle, Goto, Acquire, Withdraw, Grant,
     PassOn, Release, ConnectionInv, ConnectionTypeOK, GateInv, GateTypeOK, Ops,
     Transactions, Writers, Tracked, Kinds, PlacesInv, KindInv, AtGate, Inside,
     SafeHandle, MutualExclusion, NoTurnLost, MyTurn, Drained, Streaming
<1>1. ASSUME NEW o \in Ops, NEW s \in Scopes, Accept(o, s) PROVE PlacesInv'
  BY <1>1 DEF Accept
<1>2. ASSUME NEW o \in Ops, NEW s \in Scopes, Refuse(o, s) PROVE PlacesInv'
  BY <1>2 DEF Refuse
<1>3. CASE Connected \/ ConnectFailed
  BY <1>3 DEF Connected, ConnectFailed
<1>4. ASSUME NEW o \in Ops, LineUp(o) PROVE PlacesInv'
  BY <1>4 DEF LineUp
<1>5. ASSUME NEW o \in Ops, LineUpFails(o) PROVE PlacesInv'
  <2>1. CASE connect = "failed" /\ Settle(o, "failed")
    BY <1>5, <2>1 DEF LineUpFails
  <2>2. CASE connect = "opened" /\ o \in aborted /\ Settle(o, "cancelled")
    BY <1>5, <2>2 DEF LineUpFails
  <2>3. QED
    BY <1>5, <2>1, <2>2 DEF LineUpFails
<1>6. ASSUME NEW c \in Clients, Turn(c) \/ TurnPassesOn(c) PROVE PlacesInv'
  BY <1>6 DEF Turn, TurnPassesOn
<1>7. ASSUME NEW o \in Ops, Enter(o) PROVE PlacesInv'
  BY <1>7 DEF Enter
<1>8. ASSUME NEW o \in Ops, TurnedAway(o) PROVE PlacesInv'
  BY <1>8 DEF TurnedAway
<1>9. ASSUME NEW o \in Ops, Prepare(o) PROVE PlacesInv'
  BY <1>9 DEF Prepare
<1>10. ASSUME NEW o \in Ops, LineUpAgain(o) PROVE PlacesInv'
  BY <1>10 DEF LineUpAgain
<1>11. ASSUME NEW o \in Ops, RefusedAgain(o) PROVE PlacesInv'
  BY <1>11 DEF RefusedAgain
<1>12. ASSUME NEW o \in Ops, Execute(o) PROVE PlacesInv'
  <2>1. CASE native.open /\ Insert(OwnRow(o)) /\ Settle(o, "ok")
    <3>1. CASE native.inTx
      BY <1>12, <2>1, <3>1 DEF Execute
    <3>2. CASE ~native.inTx
      BY <1>12, <2>1, <3>2 DEF Execute
    <3>3. QED
      BY <3>1, <3>2
  <2>2. CASE Settle(o, "failed") /\ UNCHANGED db
    BY <1>12, <2>2 DEF Execute
  <2>3. QED
    BY <1>12, <2>1, <2>2 DEF Execute
<1>13. ASSUME NEW o \in Ops, StreamEnds(o) PROVE PlacesInv'
  BY <1>13 DEF StreamEnds
<1>14. ASSUME NEW o \in Ops, StreamStopped(o) PROVE PlacesInv'
  BY <1>14 DEF StreamStopped
<1>15. ASSUME NEW t \in Transactions, Begin(t) PROVE PlacesInv'
  BY <1>15 DEF Begin
<1>16. ASSUME NEW t \in Transactions, BeginFails(t) PROVE PlacesInv'
  BY <1>16 DEF BeginFails
<1>17. ASSUME NEW t \in Writers, NEW w \in Statements, HandleCall(t, w) PROVE PlacesInv'
  BY <1>17 DEF HandleCall
<1>18. ASSUME NEW t \in Writers, HandleRuns(t) PROVE PlacesInv'
  BY <1>18 DEF HandleRuns
<1>19. ASSUME NEW t \in Transactions, CallbackResolves(t) \/ CallbackFails(t) PROVE PlacesInv'
  BY <1>19 DEF CallbackResolves, CallbackFails
<1>20. ASSUME NEW t \in Transactions, Commit(t) PROVE PlacesInv'
  BY <1>20 DEF Commit
<1>21. ASSUME NEW t \in Transactions, Undo(t) PROVE PlacesInv'
  BY <1>21 DEF Undo
<1>22. ASSUME NEW o \in Ops, AbortWaiting(o) \/ AbortSignalled(o) PROVE PlacesInv'
  BY <1>22 DEF AbortWaiting, AbortSignalled
<1>23. CASE Close
  BY <1>23 DEF Close
<1>24. CASE CloseStops \/ CloseDrains \/ CloseFinishes
  BY <1>24 DEF CloseStops, CloseDrains, CloseFinishes
<1>25. CASE UNCHANGED vars
  BY <1>25 DEF vars
<1> HIDE DEF conn, db, calls, txs, gateVars, Settle, Goto, Acquire, Withdraw, Grant,
     PassOn, Release, ConnectionInv, ConnectionTypeOK, GateInv, GateTypeOK, Ops,
     Transactions, Writers, Tracked, Kinds, PlacesInv, KindInv, AtGate, Inside,
     SafeHandle, MutualExclusion, NoTurnLost, MyTurn, Drained, Streaming
<1>26. QED
  BY <1>1, <1>2, <1>3, <1>4, <1>5, <1>6, <1>7, <1>8, <1>9, <1>10, <1>11, <1>12, <1>13,
       <1>14, <1>15, <1>16, <1>17, <1>18, <1>19, <1>20, <1>21, <1>22, <1>23, <1>24,
       <1>25 DEF Next, Progress, Callers, RequestStep, TransactionStep, CloseStep, Quiet

(* Every step keeps state, connection attempt, close() and native handle      *)
(* consistent: connect() may reopen the state, never the closed handle.       *)
LEMMA LifeKept == ConnectionInv /\ [Next]_vars => LifeInv'
<1> SUFFICES ASSUME ConnectionInv, [Next]_vars PROVE LifeInv'
  OBVIOUS
<1> USE DEF conn, db, calls, txs, gateVars, Settle, Goto, ConnectionInv, ConnectionTypeOK,
     GateInv, GateTypeOK, Ops, Transactions, Writers, Tracked, Kinds, LifeInv, AtGate,
     Inside, Closed, Insert, RollBack, Taint, Drained, Streaming, Usable, CloseSteps,
     States, Phases, LaneInv, TransactionInv, InTransaction
<1>1. ASSUME NEW o \in Ops, NEW s \in Scopes, Accept(o, s) PROVE LifeInv'
  BY <1>1 DEF Accept
<1>2. ASSUME NEW o \in Ops, NEW s \in Scopes, Refuse(o, s) PROVE LifeInv'
  BY <1>2 DEF Refuse
<1>3. CASE Connected \/ ConnectFailed
  BY <1>3 DEF Connected, ConnectFailed
<1>4. ASSUME NEW o \in Ops, LineUp(o) \/ LineUpAgain(o) PROVE LifeInv'
  BY <1>4 DEF LineUp, LineUpAgain
<1>5. ASSUME NEW o \in Ops, LineUpFails(o) PROVE LifeInv'
  BY <1>5 DEF LineUpFails
<1>6. ASSUME NEW c \in Clients, Turn(c) \/ TurnPassesOn(c) PROVE LifeInv'
  BY <1>6 DEF Turn, TurnPassesOn
<1>7. ASSUME NEW o \in Ops, Enter(o) PROVE LifeInv'
  BY <1>7 DEF Enter
<1>8. ASSUME NEW o \in Ops, TurnedAway(o) \/ RefusedAgain(o) PROVE LifeInv'
  BY <1>8 DEF TurnedAway, RefusedAgain
<1>9. ASSUME NEW o \in Ops, Prepare(o) PROVE LifeInv'
  BY <1>9 DEF Prepare
<1>10. ASSUME NEW o \in Ops, Execute(o) PROVE LifeInv'
  BY <1>10 DEF Execute
<1>11. ASSUME NEW o \in Ops, StreamEnds(o) \/ StreamStopped(o) PROVE LifeInv'
  BY <1>11 DEF StreamEnds, StreamStopped
<1>12. ASSUME NEW t \in Transactions, Begin(t) PROVE LifeInv'
  BY <1>12 DEF Begin
<1>13. ASSUME NEW t \in Transactions, BeginFails(t) PROVE LifeInv'
  BY <1>13 DEF BeginFails
<1>14. ASSUME NEW t \in Writers, NEW w \in Statements, HandleCall(t, w) PROVE LifeInv'
  BY <1>14 DEF HandleCall
<1>15. ASSUME NEW t \in Writers, HandleRuns(t) PROVE LifeInv'
  <2> DEFINE w == Head(lane[t])
             Became(how) == work' = [work EXCEPT ![t] = [work[t] EXCEPT ![w] = how]]
  <2>1. w \in Statements /\ Tail(lane[t]) \in Seq(Statements)
    BY <1>15, LaneFront DEF HandleRuns
  <2>2. CASE Became("done") /\ Insert(<<t, w>>)
    <3>1. CASE native.inTx
      <4>1. native' = [native EXCEPT !.staged = native.staged \cup {<<t, w>>}]
        BY <2>2, <3>1
      <4>2. UNCHANGED <<gateVars, conn, table, calls>>
        BY <1>15, <2>2, <3>1 DEF HandleRuns
      <4>3. native'.open = native.open
        BY <4>1
      <4>4. QED
        BY <1>15, LaneFront, <2>1, <2>2, <3>1, <4>1, <4>2, <4>3 DEF HandleRuns
    <3>2. CASE ~native.inTx
      BY <1>15, <2>1, <2>2, <3>2 DEF HandleRuns
    <3>3. QED
      BY <3>1, <3>2
  <2>3. CASE \E how \in {"failed", "caught"} : Became(how) /\ UNCHANGED db
    BY <1>15, <2>1, <2>3 DEF HandleRuns
  <2>4. QED
    BY <1>15, <2>2, <2>3 DEF HandleRuns
<1>16. ASSUME NEW t \in Transactions, CallbackResolves(t) \/ CallbackFails(t) PROVE LifeInv'
  BY <1>16 DEF CallbackResolves, CallbackFails
<1>17. ASSUME NEW t \in Transactions, Commit(t) PROVE LifeInv'
  BY <1>17 DEF Commit
<1>18. ASSUME NEW t \in Transactions, Undo(t) PROVE LifeInv'
  <2>1. CASE native' = [Closed EXCEPT !.open = native.open] /\ UNCHANGED state
    BY <1>18, <2>1 DEF Undo
  <2>2. CASE Taint /\ UNCHANGED native
    BY <1>18, <2>2 DEF Undo
  <2>3. QED
    BY <1>18, <2>1, <2>2 DEF Undo
<1>19. ASSUME NEW o \in Ops, AbortWaiting(o) \/ AbortSignalled(o) PROVE LifeInv'
  BY <1>19 DEF AbortWaiting, AbortSignalled
<1>20. CASE Close
  <2>1. CASE state = "new"
    BY <1>20, <2>1 DEF Close
  <2>2. CASE state # "new"
    BY <1>20, <2>2 DEF Close
  <2>3. QED
    BY <2>1, <2>2
<1>21. CASE CloseStops \/ CloseDrains \/ CloseFinishes
  BY <1>21 DEF CloseStops, CloseDrains, CloseFinishes
<1>22. CASE UNCHANGED vars
  BY <1>22 DEF vars
<1> HIDE DEF conn, db, calls, txs, gateVars, Settle, Goto, ConnectionInv,
     ConnectionTypeOK, GateInv, GateTypeOK, Ops, Transactions, Writers, Tracked, Kinds,
     LifeInv, AtGate, Inside, Closed, Insert, RollBack, Taint, Drained, Streaming, Usable,
     CloseSteps, States, Phases, LaneInv, TransactionInv, InTransaction
<1>23. QED
  BY <1>1, <1>2, <1>3, <1>4, <1>5, <1>6, <1>7, <1>8, <1>9, <1>10, <1>11, <1>12, <1>13,
       <1>14, <1>15, <1>16, <1>17, <1>18, <1>19, <1>20, <1>21, <1>22 DEF Next, Progress,
       Callers, RequestStep, TransactionStep, CloseStep, Quiet

(* Every step keeps the open transaction with the one request that began it. *)
LEMMA TransactionKept == ConnectionInv /\ [Next]_vars => TransactionInv'
<1> SUFFICES ASSUME ConnectionInv, [Next]_vars PROVE TransactionInv'
  OBVIOUS
<1> USE DEF conn, db, calls, txs, gateVars, Settle, Goto, Acquire, Withdraw, Grant,
     PassOn, Release, ConnectionInv, ConnectionTypeOK, GateInv, GateTypeOK, Ops,
     Transactions, Writers, Tracked, Kinds, TransactionInv, InTransaction, Inside, Closed,
     Insert, RollBack, Taint, Drained, Streaming, Usable, PlacesInv, LifeInv, LaneInv,
     KindInv, SafeHandle, AtGate, MutualExclusion, NoTurnLost, MyTurn
<1>1. ASSUME NEW o \in Ops, NEW s \in Scopes, Accept(o, s) \/ Refuse(o, s) PROVE TransactionInv'
  BY <1>1 DEF Accept, Refuse
<1>2. CASE Connected
  BY <1>2 DEF Connected
<1>3. CASE ConnectFailed
  BY <1>3 DEF ConnectFailed
<1>4. ASSUME NEW o \in Ops, LineUp(o) \/ LineUpAgain(o) PROVE TransactionInv'
  BY <1>4 DEF LineUp, LineUpAgain
<1>5. ASSUME NEW o \in Ops, LineUpFails(o) PROVE TransactionInv'
  BY <1>5 DEF LineUpFails
<1>6. ASSUME NEW c \in Clients, Turn(c) \/ TurnPassesOn(c) PROVE TransactionInv'
  BY <1>6 DEF Turn, TurnPassesOn
<1>7. ASSUME NEW o \in Ops, Enter(o) PROVE TransactionInv'
  BY <1>7 DEF Enter
<1>8. ASSUME NEW o \in Ops, TurnedAway(o) \/ RefusedAgain(o) PROVE TransactionInv'
  BY <1>8 DEF TurnedAway, RefusedAgain
<1>9. ASSUME NEW o \in Ops, Prepare(o) PROVE TransactionInv'
  BY <1>9 DEF Prepare
<1>10. ASSUME NEW o \in Ops, Execute(o) PROVE TransactionInv'
  BY <1>10 DEF Execute
<1>11. ASSUME NEW o \in Ops, StreamEnds(o) \/ StreamStopped(o) PROVE TransactionInv'
  BY <1>11 DEF StreamEnds, StreamStopped
<1>12. ASSUME NEW t \in Transactions, Begin(t) PROVE TransactionInv'
  <2>1. {r \in Writers \X Statements : r[1] = t /\ work[t][r[2]] = "done"} = {}
    <3>1. t \in Writers => \A w \in Statements : work[t][w] = "idle"
      BY <1>12 DEF Begin
    <3> HIDE DEF Writers
    <3>2. QED
      BY <3>1
  <2>2. native' = [open |-> TRUE, inTx |-> TRUE, staged |-> {}]
    BY <1>12 DEF Begin
  <2>3. \A u \in Ops : InTransaction(u)' <=> u = t
    BY <1>12 DEF Begin
  <2>4. QED
    BY <1>12, <2>1, <2>2, <2>3 DEF Begin
<1>13. ASSUME NEW t \in Transactions, BeginFails(t) PROVE TransactionInv'
  BY <1>13 DEF BeginFails
<1>14. ASSUME NEW t \in Writers, NEW w \in Statements, HandleCall(t, w) PROVE TransactionInv'
  BY <1>14 DEF HandleCall
<1>15. ASSUME NEW t \in Writers, HandleRuns(t) PROVE TransactionInv'
  <2> DEFINE w == Head(lane[t])
             Became(how) == work' = [work EXCEPT ![t] = [work[t] EXCEPT ![w] = how]]
  <2>1. w \in Statements /\ Tail(lane[t]) \in Seq(Statements)
    BY <1>15, LaneFront DEF HandleRuns
  <2>2. CASE Became("done") /\ Insert(<<t, w>>)
    <3>1. CASE native.inTx
      <4>1. native' = [native EXCEPT !.staged = native.staged \cup {<<t, w>>}]
        BY <2>2, <3>1
      <4>2. UNCHANGED <<gateVars, conn, table, calls>>
        BY <1>15, <2>2, <3>1 DEF HandleRuns
      <4>3. native'.open = native.open
        BY <4>1
      <4>4. QED
        BY <1>15, LaneFront, <2>1, <2>2, <3>1, <4>1, <4>2, <4>3 DEF HandleRuns
    <3>2. CASE ~native.inTx
      BY <1>15, <2>1, <2>2, <3>2 DEF HandleRuns
    <3>3. QED
      BY <3>1, <3>2
  <2>3. CASE \E how \in {"failed", "caught"} : Became(how) /\ UNCHANGED db
    <3>1. work[t][w] = "accepted"
      BY <1>15, LaneFront DEF HandleRuns
    <3>2. \A u \in Writers, v \in Statements : work'[u][v] = "done" <=> work[u][v] = "done"
      BY <2>1, <2>3, <3>1
    <3>3. UNCHANGED <<phase, outcome, native, table, holding, state>>
      BY <1>15, <2>3 DEF HandleRuns
    <3>4. QED
      BY <3>2, <3>3
  <2>4. QED
    BY <1>15, <2>2, <2>3 DEF HandleRuns
<1>16. ASSUME NEW t \in Transactions,
     CallbackResolves(t) \/ CallbackFails(t) PROVE TransactionInv'
  BY <1>16 DEF CallbackResolves, CallbackFails
<1>17. ASSUME NEW t \in Transactions, Commit(t) PROVE TransactionInv'
  BY <1>17 DEF Commit
<1>18. ASSUME NEW t \in Transactions, Undo(t) PROVE TransactionInv'
  <2>1. CASE native' = [Closed EXCEPT !.open = native.open] /\ UNCHANGED state
    BY <1>18, <2>1 DEF Undo
  <2>2. CASE Taint /\ UNCHANGED native
    BY <1>18, <2>2 DEF Undo
  <2>3. QED
    BY <1>18, <2>1, <2>2 DEF Undo
<1>19. ASSUME NEW o \in Ops, AbortWaiting(o) \/ AbortSignalled(o) PROVE TransactionInv'
  BY <1>19 DEF AbortWaiting, AbortSignalled
<1>20. CASE Close
  BY <1>20 DEF Close
<1>21. CASE CloseStops \/ CloseDrains \/ CloseFinishes
  BY <1>21 DEF CloseStops, CloseDrains, CloseFinishes
<1>22. CASE UNCHANGED vars
  BY <1>22 DEF vars
<1> HIDE DEF conn, db, calls, txs, gateVars, Settle, Goto, Acquire, Withdraw, Grant,
     PassOn, Release, ConnectionInv, ConnectionTypeOK, GateInv, GateTypeOK, Ops,
     Transactions, Writers, Tracked, Kinds, TransactionInv, InTransaction, Inside, Closed,
     Insert, RollBack, Taint, Drained, Streaming, Usable, PlacesInv, LifeInv, LaneInv,
     KindInv, SafeHandle, AtGate, MutualExclusion, NoTurnLost, MyTurn
<1>23. QED
  BY <1>1, <1>2, <1>3, <1>4, <1>5, <1>6, <1>7, <1>8, <1>9, <1>10, <1>11, <1>12, <1>13,
       <1>14, <1>15, <1>16, <1>17, <1>18, <1>19, <1>20, <1>21, <1>22 DEF Next, Progress,
       Callers, RequestStep, TransactionStep, CloseStep, Quiet

(* Every step keeps the lanes of the handles. *)
LEMMA LaneKept == ConnectionInv /\ [Next]_vars => LaneInv'
<1> SUFFICES ASSUME ConnectionInv, [Next]_vars PROVE LaneInv'
  OBVIOUS
<1> USE DEF conn, db, calls, txs, gateVars, Settle, Goto, ConnectionInv, ConnectionTypeOK,
     GateInv, GateTypeOK, Ops, Transactions, Writers, Tracked, Kinds, LaneInv,
     InTransaction, Drained, Streaming, KindInv
<1>1. ASSUME NEW o \in Ops, NEW s \in Scopes, Accept(o, s) PROVE LaneInv'
  BY <1>1 DEF Accept
<1>2. ASSUME NEW o \in Ops, NEW s \in Scopes, Refuse(o, s) PROVE LaneInv'
  BY <1>2 DEF Refuse
<1>3. CASE Connected \/ ConnectFailed
  BY <1>3 DEF Connected, ConnectFailed
<1>4. ASSUME NEW o \in Ops, LineUp(o) PROVE LaneInv'
  BY <1>4 DEF LineUp
<1>5. ASSUME NEW o \in Ops, LineUpFails(o) PROVE LaneInv'
  <2>1. CASE connect = "failed" /\ Settle(o, "failed")
    BY <1>5, <2>1 DEF LineUpFails
  <2>2. CASE connect = "opened" /\ o \in aborted /\ Settle(o, "cancelled")
    BY <1>5, <2>2 DEF LineUpFails
  <2>3. QED
    BY <1>5, <2>1, <2>2 DEF LineUpFails
<1>6. ASSUME NEW c \in Clients, Turn(c) \/ TurnPassesOn(c) PROVE LaneInv'
  BY <1>6 DEF Turn, TurnPassesOn
<1>7. ASSUME NEW o \in Ops, Enter(o) PROVE LaneInv'
  <2>1. CASE phase[o] = "queued" /\ Goto(o, "inside")
    BY <1>7, <2>1 DEF Enter
  <2>2. CASE phase[o] = "requeued" /\ KindOf[o] = "run" /\ Goto(o, "executing")
    BY <1>7, <2>2 DEF Enter
  <2>3. CASE phase[o] = "requeued" /\ KindOf[o] = "stream" /\ Goto(o, "running")
    BY <1>7, <2>3 DEF Enter
  <2>4. QED
    BY <1>7, <2>1, <2>2, <2>3 DEF Enter
<1>8. ASSUME NEW o \in Ops, TurnedAway(o) \/ RefusedAgain(o) PROVE LaneInv'
  BY <1>8 DEF TurnedAway, RefusedAgain
<1>9. ASSUME NEW o \in Ops, Prepare(o) PROVE LaneInv'
  <2>1. CASE native.open /\ Goto(o, "prepared")
    BY <1>9, <2>1 DEF Prepare
  <2>2. CASE Settle(o, "failed")
    BY <1>9, <2>2 DEF Prepare
  <2>3. QED
    BY <1>9, <2>1, <2>2 DEF Prepare
<1>10. ASSUME NEW o \in Ops, LineUpAgain(o) PROVE LaneInv'
  BY <1>10 DEF LineUpAgain
<1>11. ASSUME NEW o \in Ops, Execute(o) PROVE LaneInv'
  <2>1. CASE native.open /\ Insert(OwnRow(o)) /\ Settle(o, "ok")
    <3>1. CASE native.inTx
      BY <1>11, <2>1, <3>1 DEF Execute
    <3>2. CASE ~native.inTx
      BY <1>11, <2>1, <3>2 DEF Execute
    <3>3. QED
      BY <3>1, <3>2
  <2>2. CASE Settle(o, "failed") /\ UNCHANGED db
    BY <1>11, <2>2 DEF Execute
  <2>3. QED
    BY <1>11, <2>1, <2>2 DEF Execute
<1>12. ASSUME NEW o \in Ops, StreamEnds(o) PROVE LaneInv'
  BY <1>12 DEF StreamEnds
<1>13. ASSUME NEW o \in Ops, StreamStopped(o) PROVE LaneInv'
  BY <1>13 DEF StreamStopped
<1>14. ASSUME NEW t \in Transactions, Begin(t) PROVE LaneInv'
  BY <1>14 DEF Begin
<1>15. ASSUME NEW t \in Transactions, BeginFails(t) PROVE LaneInv'
  BY <1>15 DEF BeginFails
<1>16. ASSUME NEW t \in Writers, NEW w \in Statements, HandleCall(t, w) PROVE LaneInv'
  BY <1>16 DEF HandleCall
<1>17. ASSUME NEW t \in Writers, HandleRuns(t) PROVE LaneInv'
  BY <1>17 DEF HandleRuns
<1>18. ASSUME NEW t \in Transactions, CallbackResolves(t) \/ CallbackFails(t) PROVE LaneInv'
  BY <1>18 DEF CallbackResolves, CallbackFails
<1>19. ASSUME NEW t \in Transactions, Commit(t) PROVE LaneInv'
  BY <1>19 DEF Commit
<1>20. ASSUME NEW t \in Transactions, Undo(t) PROVE LaneInv'
  BY <1>20 DEF Undo
<1>21. ASSUME NEW o \in Ops, AbortWaiting(o) \/ AbortSignalled(o) PROVE LaneInv'
  BY <1>21 DEF AbortWaiting, AbortSignalled
<1>22. CASE Close
  BY <1>22 DEF Close
<1>23. CASE CloseStops \/ CloseDrains \/ CloseFinishes
  BY <1>23 DEF CloseStops, CloseDrains, CloseFinishes
<1>24. CASE UNCHANGED vars
  BY <1>24 DEF vars
<1> HIDE DEF conn, db, calls, txs, gateVars, Settle, Goto, ConnectionInv,
     ConnectionTypeOK, GateInv, GateTypeOK, Ops, Transactions, Writers, Tracked, Kinds,
     LaneInv, InTransaction, Drained, Streaming, KindInv
<1>25. QED
  BY <1>1, <1>2, <1>3, <1>4, <1>5, <1>6, <1>7, <1>8, <1>9, <1>10, <1>11, <1>12, <1>13,
       <1>14, <1>15, <1>16, <1>17, <1>18, <1>19, <1>20, <1>21, <1>22, <1>23,
       <1>24 DEF Next, Progress, Callers, RequestStep, TransactionStep, CloseStep, Quiet

(* Every step keeps each request in the phases of its kind. *)
LEMMA KindKept == ConnectionInv /\ [Next]_vars => KindInv'
<1> SUFFICES ASSUME ConnectionInv, [Next]_vars PROVE KindInv'
  OBVIOUS
<1> USE DEF conn, db, calls, txs, gateVars, Settle, Goto, ConnectionInv, ConnectionTypeOK,
     GateInv, GateTypeOK, Ops, Transactions, Writers, Tracked, Kinds, KindInv, Drained,
     Streaming
<1>1. ASSUME NEW o \in Ops, NEW s \in Scopes, Accept(o, s) \/ Refuse(o, s) PROVE KindInv'
  BY <1>1 DEF Accept, Refuse
<1>2. CASE Connected \/ ConnectFailed
  BY <1>2 DEF Connected, ConnectFailed
<1>3. ASSUME NEW o \in Ops, LineUp(o) \/ LineUpAgain(o) PROVE KindInv'
  BY <1>3 DEF LineUp, LineUpAgain
<1>4. ASSUME NEW o \in Ops, LineUpFails(o) PROVE KindInv'
  BY <1>4 DEF LineUpFails
<1>5. ASSUME NEW c \in Clients, Turn(c) \/ TurnPassesOn(c) PROVE KindInv'
  BY <1>5 DEF Turn, TurnPassesOn
<1>6. ASSUME NEW o \in Ops, Enter(o) PROVE KindInv'
  BY <1>6 DEF Enter
<1>7. ASSUME NEW o \in Ops, TurnedAway(o) \/ RefusedAgain(o) PROVE KindInv'
  BY <1>7 DEF TurnedAway, RefusedAgain
<1>8. ASSUME NEW o \in Ops, Prepare(o) PROVE KindInv'
  BY <1>8 DEF Prepare
<1>9. ASSUME NEW o \in Ops, Execute(o) PROVE KindInv'
  BY <1>9 DEF Execute
<1>10. ASSUME NEW o \in Ops, StreamEnds(o) \/ StreamStopped(o) PROVE KindInv'
  BY <1>10 DEF StreamEnds, StreamStopped
<1>11. ASSUME NEW t \in Transactions, Begin(t) PROVE KindInv'
  BY <1>11 DEF Begin
<1>12. ASSUME NEW t \in Transactions, BeginFails(t) PROVE KindInv'
  BY <1>12 DEF BeginFails
<1>13. ASSUME NEW t \in Writers, NEW w \in Statements, HandleCall(t, w) PROVE KindInv'
  BY <1>13 DEF HandleCall
<1>14. ASSUME NEW t \in Writers, HandleRuns(t) PROVE KindInv'
  BY <1>14 DEF HandleRuns
<1>15. ASSUME NEW t \in Transactions, CallbackResolves(t) \/ CallbackFails(t) PROVE KindInv'
  BY <1>15 DEF CallbackResolves, CallbackFails
<1>16. ASSUME NEW t \in Transactions, Commit(t) PROVE KindInv'
  BY <1>16 DEF Commit
<1>17. ASSUME NEW t \in Transactions, Undo(t) PROVE KindInv'
  BY <1>17 DEF Undo
<1>18. ASSUME NEW o \in Ops, AbortWaiting(o) \/ AbortSignalled(o) PROVE KindInv'
  BY <1>18 DEF AbortWaiting, AbortSignalled
<1>19. CASE Close
  BY <1>19 DEF Close
<1>20. CASE CloseStops \/ CloseDrains \/ CloseFinishes
  BY <1>20 DEF CloseStops, CloseDrains, CloseFinishes
<1>21. CASE UNCHANGED vars
  BY <1>21 DEF vars
<1> HIDE DEF conn, db, calls, txs, gateVars, Settle, Goto, ConnectionInv,
     ConnectionTypeOK, GateInv, GateTypeOK, Ops, Transactions, Writers, Tracked, Kinds,
     KindInv, Drained, Streaming
<1>22. QED
  BY <1>1, <1>2, <1>3, <1>4, <1>5, <1>6, <1>7, <1>8, <1>9, <1>10, <1>11, <1>12, <1>13,
       <1>14, <1>15, <1>16, <1>17, <1>18, <1>19, <1>20, <1>21 DEF Next, Progress, Callers,
       RequestStep, TransactionStep, CloseStep, Quiet

(* No step lets a request touch the native handle without the gate. *)
LEMMA HandleKept == ConnectionInv /\ [Next]_vars => SafeHandle'
<1> SUFFICES ASSUME ConnectionInv, [Next]_vars PROVE SafeHandle'
  OBVIOUS
<1> USE DEF conn, db, calls, txs, gateVars, Settle, Goto, Acquire, Withdraw, Grant,
     PassOn, Release, ConnectionInv, ConnectionTypeOK, GateInv, GateTypeOK, Ops,
     Transactions, Writers, Tracked, Kinds, SafeHandle, Inside, PlacesInv, LifeInv,
     AtGate, KindInv, MutualExclusion, NoTurnLost, MyTurn, Drained, Streaming, Closed,
     RollBack, Taint, Insert, Usable, LaneInv, InTransaction
<1>1. ASSUME NEW o \in Ops, NEW s \in Scopes, Accept(o, s) \/ Refuse(o, s) PROVE SafeHandle'
  BY <1>1 DEF Accept, Refuse
<1>2. CASE Connected \/ ConnectFailed
  BY <1>2 DEF Connected, ConnectFailed
<1>3. ASSUME NEW o \in Ops, LineUp(o) \/ LineUpAgain(o) PROVE SafeHandle'
  BY <1>3 DEF LineUp, LineUpAgain
<1>4. ASSUME NEW o \in Ops, LineUpFails(o) PROVE SafeHandle'
  BY <1>4 DEF LineUpFails
<1>5. ASSUME NEW c \in Clients, Turn(c) \/ TurnPassesOn(c) PROVE SafeHandle'
  BY <1>5 DEF Turn, TurnPassesOn
<1>6. ASSUME NEW o \in Ops, Enter(o) PROVE SafeHandle'
  <2>1. CASE phase[o] = "queued" /\ Goto(o, "inside")
    BY <1>6, <2>1 DEF Enter
  <2>2. CASE phase[o] = "requeued" /\ KindOf[o] = "run" /\ Goto(o, "executing")
    BY <1>6, <2>2 DEF Enter
  <2>3. CASE phase[o] = "requeued" /\ KindOf[o] = "stream" /\ Goto(o, "running")
    BY <1>6, <2>3 DEF Enter
  <2>4. QED
    BY <1>6, <2>1, <2>2, <2>3 DEF Enter
<1>7. ASSUME NEW o \in Ops, TurnedAway(o) \/ RefusedAgain(o) PROVE SafeHandle'
  BY <1>7 DEF TurnedAway, RefusedAgain
<1>8. ASSUME NEW o \in Ops, Prepare(o) PROVE SafeHandle'
  BY <1>8 DEF Prepare
<1>9. ASSUME NEW o \in Ops, Execute(o) PROVE SafeHandle'
  BY <1>9 DEF Execute
<1>10. ASSUME NEW o \in Ops, StreamEnds(o) PROVE SafeHandle'
  BY <1>10 DEF StreamEnds
<1>11. ASSUME NEW o \in Ops, StreamStopped(o) PROVE SafeHandle'
  BY <1>11 DEF StreamStopped
<1>12. ASSUME NEW t \in Transactions, Begin(t) PROVE SafeHandle'
  BY <1>12 DEF Begin
<1>13. ASSUME NEW t \in Transactions, BeginFails(t) PROVE SafeHandle'
  BY <1>13 DEF BeginFails
<1>14. ASSUME NEW t \in Writers, NEW w \in Statements, HandleCall(t, w) PROVE SafeHandle'
  BY <1>14 DEF HandleCall
<1>15. ASSUME NEW t \in Writers, HandleRuns(t) PROVE SafeHandle'
  <2> DEFINE w == Head(lane[t])
             Became(how) == work' = [work EXCEPT ![t] = [work[t] EXCEPT ![w] = how]]
  <2>1. w \in Statements /\ Tail(lane[t]) \in Seq(Statements)
    BY <1>15, LaneFront DEF HandleRuns
  <2>2. CASE Became("done") /\ Insert(<<t, w>>)
    <3>1. CASE native.inTx
      <4>1. native' = [native EXCEPT !.staged = native.staged \cup {<<t, w>>}]
        BY <2>2, <3>1
      <4>2. UNCHANGED <<gateVars, conn, table, calls>>
        BY <1>15, <2>2, <3>1 DEF HandleRuns
      <4>3. native'.open = native.open
        BY <4>1
      <4>4. QED
        BY <1>15, LaneFront, <2>1, <2>2, <3>1, <4>1, <4>2, <4>3 DEF HandleRuns
    <3>2. CASE ~native.inTx
      BY <1>15, <2>1, <2>2, <3>2 DEF HandleRuns
    <3>3. QED
      BY <3>1, <3>2
  <2>3. CASE \E how \in {"failed", "caught"} : Became(how) /\ UNCHANGED db
    BY <1>15, <2>1, <2>3 DEF HandleRuns
  <2>4. QED
    BY <1>15, <2>2, <2>3 DEF HandleRuns
<1>16. ASSUME NEW t \in Transactions, CallbackResolves(t) \/ CallbackFails(t) PROVE SafeHandle'
  BY <1>16 DEF CallbackResolves, CallbackFails
<1>17. ASSUME NEW t \in Transactions, Commit(t) PROVE SafeHandle'
  BY <1>17 DEF Commit
<1>18. ASSUME NEW t \in Transactions, Undo(t) PROVE SafeHandle'
  BY <1>18 DEF Undo
<1>19. ASSUME NEW o \in Ops, AbortWaiting(o) \/ AbortSignalled(o) PROVE SafeHandle'
  BY <1>19 DEF AbortWaiting, AbortSignalled
<1>20. CASE Close
  BY <1>20 DEF Close
<1>21. CASE CloseStops \/ CloseDrains \/ CloseFinishes
  BY <1>21 DEF CloseStops, CloseDrains, CloseFinishes
<1>22. CASE UNCHANGED vars
  BY <1>22 DEF vars
<1> HIDE DEF conn, db, calls, txs, gateVars, Settle, Goto, Acquire, Withdraw, Grant,
     PassOn, Release, ConnectionInv, ConnectionTypeOK, GateInv, GateTypeOK, Ops,
     Transactions, Writers, Tracked, Kinds, SafeHandle, Inside, PlacesInv, LifeInv,
     AtGate, KindInv, MutualExclusion, NoTurnLost, MyTurn, Drained, Streaming, Closed,
     RollBack, Taint, Insert, Usable, LaneInv, InTransaction
<1>23. QED
  BY <1>1, <1>2, <1>3, <1>4, <1>5, <1>6, <1>7, <1>8, <1>9, <1>10, <1>11, <1>12, <1>13,
       <1>14, <1>15, <1>16, <1>17, <1>18, <1>19, <1>20, <1>21, <1>22 DEF Next, Progress,
       Callers, RequestStep, TransactionStep, CloseStep, Quiet

(* No step makes an answer untrue. *)
LEMMA AnswersKept == ConnectionInv /\ [Next]_vars => AnswersAreTrue'
<1> SUFFICES ASSUME ConnectionInv, [Next]_vars PROVE AnswersAreTrue'
  OBVIOUS
<1> USE DEF conn, db, calls, txs, gateVars, Settle, Goto, ConnectionInv, ConnectionTypeOK,
     GateInv, GateTypeOK, Ops, Transactions, Writers, Tracked, Kinds, AnswersAreTrue,
     OwnRow, Insert, TransactionInv, InTransaction, Inside, PlacesInv, LaneInv, KindInv,
     Poisoned, Drained, Streaming, Closed, RollBack, Taint, Kinds
<1>1. ASSUME NEW o \in Ops, NEW s \in Scopes, Accept(o, s) \/ Refuse(o, s) PROVE AnswersAreTrue'
  BY <1>1 DEF Accept, Refuse
<1>2. CASE Connected \/ ConnectFailed
  BY <1>2 DEF Connected, ConnectFailed
<1>3. ASSUME NEW o \in Ops, LineUp(o) \/ LineUpAgain(o) PROVE AnswersAreTrue'
  BY <1>3 DEF LineUp, LineUpAgain
<1>4. ASSUME NEW o \in Ops, LineUpFails(o) PROVE AnswersAreTrue'
  <2>1. CASE connect = "failed" /\ Settle(o, "failed")
    BY <1>4, <2>1 DEF LineUpFails
  <2>2. CASE connect = "opened" /\ o \in aborted /\ Settle(o, "cancelled")
    BY <1>4, <2>2 DEF LineUpFails
  <2>3. QED
    BY <1>4, <2>1, <2>2 DEF LineUpFails
<1>5. ASSUME NEW c \in Clients, Turn(c) \/ TurnPassesOn(c) PROVE AnswersAreTrue'
  BY <1>5 DEF Turn, TurnPassesOn
<1>6. ASSUME NEW o \in Ops, Enter(o) PROVE AnswersAreTrue'
  BY <1>6 DEF Enter
<1>7. ASSUME NEW o \in Ops, TurnedAway(o) \/ RefusedAgain(o) PROVE AnswersAreTrue'
  BY <1>7 DEF TurnedAway, RefusedAgain
<1>8. ASSUME NEW o \in Ops, Prepare(o) PROVE AnswersAreTrue'
  <2>1. CASE native.open /\ Goto(o, "prepared")
    BY <1>8, <2>1 DEF Prepare
  <2>2. CASE Settle(o, "failed")
    BY <1>8, <2>2 DEF Prepare
  <2>3. QED
    BY <1>8, <2>1, <2>2 DEF Prepare
<1>9. ASSUME NEW o \in Ops, Execute(o) PROVE AnswersAreTrue'
  <2>1. CASE native.open /\ Insert(OwnRow(o)) /\ Settle(o, "ok")
    <3>1. CASE native.inTx
      BY <1>9, <2>1, <3>1 DEF Execute
    <3>2. CASE ~native.inTx
      BY <1>9, <2>1, <3>2 DEF Execute
    <3>3. QED
      BY <3>1, <3>2
  <2>2. CASE Settle(o, "failed") /\ UNCHANGED db
    BY <1>9, <2>2 DEF Execute
  <2>3. QED
    BY <1>9, <2>1, <2>2 DEF Execute
<1>10. ASSUME NEW o \in Ops, StreamEnds(o) \/ StreamStopped(o) PROVE AnswersAreTrue'
  BY <1>10 DEF StreamEnds, StreamStopped
<1>11. ASSUME NEW t \in Transactions, Begin(t) PROVE AnswersAreTrue'
  BY <1>11 DEF Begin
<1>12. ASSUME NEW t \in Transactions, BeginFails(t) PROVE AnswersAreTrue'
  BY <1>12 DEF BeginFails
<1>13. ASSUME NEW t \in Writers, NEW w \in Statements, HandleCall(t, w) PROVE AnswersAreTrue'
  BY <1>13 DEF HandleCall
<1>14. ASSUME NEW t \in Writers, HandleRuns(t) PROVE AnswersAreTrue'
  <2> DEFINE w == Head(lane[t])
             Became(how) == work' = [work EXCEPT ![t] = [work[t] EXCEPT ![w] = how]]
  <2>1. w \in Statements /\ Tail(lane[t]) \in Seq(Statements)
    BY <1>14, LaneFront DEF HandleRuns
  <2>2. CASE Became("done") /\ Insert(<<t, w>>)
    <3>1. CASE native.inTx
      <4>1. UNCHANGED <<table, outcome>>
        BY <1>14, <2>2, <3>1 DEF HandleRuns
      <4>2. outcome[t] = "none"
        BY <1>14, LaneFront DEF HandleRuns
      <4>3. \A u \in Writers, v \in Statements : u # t => work'[u][v] = work[u][v]
        BY <2>2
      <4> HIDE DEF ConnectionTypeOK, TransactionInv, PlacesInv, LaneInv, KindInv
      <4>4. QED
        BY <4>1, <4>2, <4>3
    <3>2. CASE ~native.inTx
      BY <1>14, <2>1, <2>2, <3>2 DEF HandleRuns
    <3>3. QED
      BY <3>1, <3>2
  <2>3. CASE \E how \in {"failed", "caught"} : Became(how) /\ UNCHANGED db
    <3>1. work[t][w] = "accepted"
      BY <1>14, LaneFront DEF HandleRuns
    <3>2. \A u \in Writers, v \in Statements : work'[u][v] = "done" <=> work[u][v] = "done"
      BY <2>1, <2>3, <3>1
    <3>3. UNCHANGED <<phase, outcome, native, table, holding, state>>
      BY <1>14, <2>3 DEF HandleRuns
    <3>4. QED
      BY <3>2, <3>3
  <2>4. QED
    BY <1>14, <2>2, <2>3 DEF HandleRuns
<1>15. ASSUME NEW t \in Transactions,
     CallbackResolves(t) \/ CallbackFails(t) PROVE AnswersAreTrue'
  BY <1>15 DEF CallbackResolves, CallbackFails
<1>16. ASSUME NEW t \in Transactions, Commit(t) PROVE AnswersAreTrue'
  <2>1. t \in Writers => t \notin aborted
    OBVIOUS
  <2>2. native.staged = {r \in Writers \X Statements : r[1] = t /\ work[t][r[2]] = "done"}
    BY <1>16 DEF Commit
  <2>3. /\ table' = table \cup native.staged /\ UNCHANGED work
        /\ outcome' = [outcome EXCEPT ![t] = IF t \in aborted THEN "cancelled" ELSE "ok"]
        /\ outcome[t] = "none"
    BY <1>16 DEF Commit
  <2>4. ASSUME NEW o \in Ops, KindOf[o] \in {"exec", "run"}
        PROVE OwnRow(o) \in table' <=> outcome'[o] = "ok"
    BY <2>2, <2>3, <2>4
  <2>5. ASSUME NEW u \in Writers, NEW w \in Statements
        PROVE <<u, w>> \in table' <=> outcome'[u] = "ok" /\ work'[u][w] = "done"
    <3>1. CASE u = t
      BY <2>1, <2>2, <2>3, <3>1
    <3>2. CASE u # t
      BY <2>2, <2>3, <3>2
    <3>3. QED
      BY <3>1, <3>2
  <2>6. QED
    BY <2>4, <2>5
<1>17. ASSUME NEW t \in Transactions, Undo(t) PROVE AnswersAreTrue'
  BY <1>17 DEF Undo
<1>18. ASSUME NEW o \in Ops, AbortWaiting(o) \/ AbortSignalled(o) PROVE AnswersAreTrue'
  BY <1>18 DEF AbortWaiting, AbortSignalled
<1>19. CASE Close
  BY <1>19 DEF Close
<1>20. CASE CloseStops \/ CloseDrains \/ CloseFinishes
  BY <1>20 DEF CloseStops, CloseDrains, CloseFinishes
<1>21. CASE UNCHANGED vars
  BY <1>21 DEF vars
<1> HIDE DEF conn, db, calls, txs, gateVars, Settle, Goto, ConnectionInv,
     ConnectionTypeOK, GateInv, GateTypeOK, Ops, Transactions, Writers, Tracked, Kinds,
     AnswersAreTrue, OwnRow, Insert, TransactionInv, InTransaction, Inside, PlacesInv,
     LaneInv, KindInv, Poisoned, Drained, Streaming, Closed, RollBack, Taint, Kinds
<1>22. QED
  BY <1>1, <1>2, <1>3, <1>4, <1>5, <1>6, <1>7, <1>8, <1>9, <1>10, <1>11, <1>12, <1>13,
       <1>14, <1>15, <1>16, <1>17, <1>18, <1>19, <1>20, <1>21 DEF Next, Progress, Callers,
       RequestStep, TransactionStep, CloseStep, Quiet

-----------------------------------------------------------------------------
LEMMA InitEstablishes == Init => ConnectionInv
<1> SUFFICES ASSUME Init PROVE ConnectionInv
  OBVIOUS
<1> USE DEF Init, GateInit
<1>1. ConnectionTypeOK
  BY DEF ConnectionTypeOK, GateTypeOK, States, CloseSteps, Phases, Outcomes, Rows, Closed,
     Ops, Transactions, Writers
<1>2. GateInv
  BY DEF GateInv, GateTypeOK, MutualExclusion, NoTurnLost
<1>3. PlacesInv /\ LifeInv
  BY DEF PlacesInv, LifeInv, AtGate, Inside, Ops
<1>4. TransactionInv /\ LaneInv /\ KindInv
  BY DEF TransactionInv, LaneInv, KindInv, InTransaction, Inside, Closed, Ops,
       Transactions, Writers
<1>5. SafeHandle /\ AnswersAreTrue
  BY DEF SafeHandle, AnswersAreTrue, Inside, Ops, Writers
<1>6. QED
  BY <1>1, <1>2, <1>3, <1>4, <1>5 DEF ConnectionInv

LEMMA ConnectionInvKept == ConnectionInv /\ [Next]_vars => ConnectionInv'
<1> SUFFICES ASSUME ConnectionInv, [Next]_vars PROVE ConnectionInv'
  OBVIOUS
<1>1. GateInv'
  BY NextIsGateStep, GateKept DEF ConnectionInv
<1>2. QED
  BY <1>1, TypeKept, PlacesKept, LifeKept, TransactionKept, LaneKept, KindKept, HandleKept,
     AnswersKept DEF ConnectionInv

(* The inductive invariant of the connection, for any set of requests of any  *)
(* kinds: FifoGate's chain, PendingOperations, the transaction's handle and   *)
(* the states that connect() and close() write fit together at every await.   *)
THEOREM ConnectionInvariance == Spec => []ConnectionInv
<1>1. QED
  BY InitEstablishes, ConnectionInvKept, PTL DEF Spec

(* No request touches the native handle without owning the gate or after     *)
(* close() (sqlite.ts, assertUsable after acquire and performClose).          *)
THEOREM HandleIsSafe == Spec => []SafeHandle
<1>1. ConnectionInv => SafeHandle
  BY DEF ConnectionInv
<1>2. QED
  BY <1>1, ConnectionInvariance, PTL

(* A resolved request has taken effect, a rejected one has none, and the rows *)
(* of a transaction are committed together or not at all.                     *)
THEOREM AnswersHold == Spec => []AnswersAreTrue
<1>1. ConnectionInv => AnswersAreTrue
  BY DEF ConnectionInv
<1>2. QED
  BY <1>1, ConnectionInvariance, PTL

(* FifoGate implements FifoLock: the connection is handed over one client at  *)
(* a time in order of arrival, and an aborted waiter only leaves the line.    *)
THEOREM GateIsFifoLock == Spec => LockSpec
<1>1. Init => Lock!Init
  BY DEF Init, GateInit, Lock!Init, Arrival
<1>2. ConnectionInv /\ [Next]_vars => [Lock!Next]_(Lock!lockVars)
  BY NextIsGateStep, LockKept DEF ConnectionInv
<1>3. QED
  BY <1>1, <1>2, ConnectionInvariance, PTL DEF Spec, LockSpec, Lock!Spec
=============================================================================
