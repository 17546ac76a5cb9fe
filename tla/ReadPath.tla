------------------------------ MODULE ReadPath ------------------------------
(***************************************************************************)
(* A cached read of the server: ResponseCache over SqliteReadPool.  The    *)
(* handler that computes a response runs one query of the pool, on behalf  *)
(* of the request; the request is also the name of the query.  The query   *)
(* has the signal of the client: when the client leaves, it is cancelled.  *)
(* A query that ran into a limit (overload, timeout, too many rows, no     *)
(* worker) is recorded for the request, whatever the handler makes of it.  *)
(***************************************************************************)
EXTENDS ResponseCache, SqliteReadPool

ASSUME ReadPathAssumption == Requests \subseteq Queries

readVars == <<cacheVars, poolVars>>

(* Faulty variant: what a repository makes of a failed query is believed.   *)
Believed(r) == FALSE

(* recordTelemetryQueryError and throwIfTelemetryQueryFailed.               *)
QueryFailed(r) == outcome[r] = "resource"
Left(r) == outcome[r] = "abort"

(* What a handler can make of the outcome of its query.                     *)
Responses(r) ==
  IF outcome[r] = "rows" THEN {Response("rows", r)}
  ELSE {Response("fallback", r), Response("failure", r)}

Begin(r) == (Own(r) \/ ComputeAlone(r)) /\ Submit(r)

Idle(r) == Hit(r) \/ Join(r) \/ TurnAway(r) \/ GiveUp(r)

(* The end of the owner, or of one that computes alone.  A client may have  *)
(* left after the query; then nothing is shared either.                     *)
End(r) ==
  /\ outcome[r] # "none"
  /\ IF QueryFailed(r) \/ Left(r)
     THEN ShareNothing(r, Refusal("error")) \/ AnswerAlone(r, Refusal("error"))
     ELSE \E response \in Responses(r) :
            Share(r, response) \/ ShareNothing(r, response) \/ AnswerAlone(r, response)

(* The timer of a query.                                                    *)
TimesOut(r) == Cancel(r, "resource") /\ UNCHANGED cacheVars

ReadInit == CacheInit /\ PoolInit

ReadNext ==
  \/ \E r \in Requests : Begin(r)
  \/ (\E r \in Requests : Idle(r) \/ End(r)) /\ UNCHANGED poolVars
  \/ (Sweep \/ \E k \in Keys : Expire(k)) /\ UNCHANGED poolVars
  \/ (PoolStep \/ Close) /\ UNCHANGED cacheVars

ReadSpec == ReadInit /\ [][ReadNext]_readVars

(* Queries have a deadline, and the event loop goes on with the handlers of *)
(* the requests that are there.  No worker is assumed to answer.            *)
Handlers == \E r \in Requests :
  \/ ComputeAlone(r) /\ Submit(r)
  \/ End(r) /\ UNCHANGED poolVars
  \/ TimesOut(r)

(* A thread that was told to terminate exits, and the restart timer fires.  *)
Comeback(s) == (Start(s) \/ (state[s] = "stopping" /\ Exit(s))) /\ UNCHANGED cacheVars

ReadFairSpec ==
  ReadSpec /\ WF_readVars(Handlers) /\ \A s \in Slots : WF_readVars(Comeback(s))

-----------------------------------------------------------------------------
(* What is shared was computed for the same key, with the rows of its own   *)
(* query, by a request in which no query ran into a limit and whose client  *)
(* was there: a fallback is never taken for the data.                       *)
SharedIsTrue ==
  /\ \A k \in Range(cache) : KeyOf[content[k].by] = k /\ outcome[content[k].by] # "resource"
  /\ \A r \in Requests : got[r].is \in Kinds =>
       /\ KeyOf[got[r].by] = KeyOf[r]
       /\ outcome[got[r].by] \in {"rows", "error"}
       /\ got[r].is = "rows" => rowsOf[got[r].by] = got[r].by

(* Whatever becomes of the request that computes, of the queries and of the *)
(* workers, every request is answered; and a slot that lost its worker gets *)
(* another, while the pool is open.                                         *)
EveryoneAnswered ==
  /\ \A r \in Requests : doing[r] # "new" ~> doing[r] = "done"
  /\ \A s \in Slots : state[s] \in {"stopping", "stopped"} ~> state[s] = "starting" \/ closed
=============================================================================
