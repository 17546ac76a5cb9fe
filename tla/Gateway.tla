------------------------------ MODULE Gateway ------------------------------
(***************************************************************************)
(* One request through the gateway, and many at a time: the limit on       *)
(* active requests, the read of the key's row, the write probe, the hooks  *)
(* (parallel-limiter, rate-limiter, budget-limiter, logger), the upstream  *)
(* call, the transaction that records the spend, the end of the hooks and  *)
(* of the body; beside them the pass that resets budgets, administrators   *)
(* and a restart of the process.                                           *)
(*                                                                         *)
(* The steps of a request are the stretches between its awaits.  What the  *)
(* upstream call does is ProviderRouter; here it returns a response or a   *)
(* stream, or fails.  Every request costs one unit.                        *)
(*                                                                         *)
(* Left out: the token counter of the rate limiter (nothing reads it), the *)
(* models and the isEnabled column of a key (nothing reads them), bodies   *)
(* above the byte limit, budgets that are deleted or whose period is       *)
(* invalid, the budgets of providers (nothing adds to their spend).        *)
(***************************************************************************)
EXTENDS Integers, FiniteSets

CONSTANTS
  Requests, Keys, KeyOf,                   \* the key a request presents
  MaxActive,                               \* GATEWAY_MAX_ACTIVE_REQUESTS
  MaxParallel, RpmLimit, MaxBudget,        \* columns of a key; 0: no limit
  MaxReports,                              \* MAX_CONCURRENT_REPORTS
  MaxDues, MaxRestarts                     \* bounds of the model

ASSUME RequestsAssumption == KeyOf \in [Requests -> Keys] /\ IsFiniteSet(Requests)
ASSUME LimitsAssumption ==
  /\ MaxActive \in Nat \ {0} /\ MaxReports \in Nat
  /\ MaxParallel \in [Keys -> Nat] /\ RpmLimit \in [Keys -> Nat] /\ MaxBudget \in [Keys -> Nat]
ASSUME BoundsAssumption == MaxDues \in Nat /\ MaxRestarts \in Nat

VARIABLES
  stage,      \* what a request awaits
  place,      \* its place among the active: none, held, reading (its body) or free
  gone,       \* its client has disconnected
  answer,     \* what it was answered
  seen,       \* the spend in the row of the key it has read
  acquired,   \* the hooks that let it pass
  verdict,    \* open, how its hooks were completed, or lost with the process
  active,     \* the counter of the limiter
  probe,      \* the requests that share the probe in flight
  slots,      \* `acquired` of parallel-limiter: the requests that hold a slot
  inFlight,   \* the counter of parallel-limiter
  rpm,        \* the requests of a key in the current window
  reports,    \* activeReports of the logger
  spend, daily, log,      \* ApiKey.spend, DailySpend.spend, the rows of SpendLog
  due, pass, found,       \* resetAt has come; the reset pass, and what it read
  dues, resets, wiped,    \* history: times due, resets, the spend they wiped
  restarts

reqVars == <<stage, place, gone, answer, seen, acquired, verdict>>
memVars == <<active, probe, slots, inFlight, rpm, reports>>
spendVars == <<spend, daily, log>>
resetVars == <<due, pass, found, dues, resets, wiped>>
vars == <<reqVars, memVars, spendVars, resetVars, restarts>>

Hooks == {"parallel", "rate", "budget", "logger"}
Stages == {"new", "auth", "probe", "parallel", "rate", "budget", "route", "stream", "charge",
           "charged", "end"}
Answers == {"none", "busy", "refused", "limited", "unaccounted", "failed", "ok"}
OfKey(k) == {r \in Requests : KeyOf[r] = k}

Limited(limit, value) == limit > 0 /\ value >= limit

-----------------------------------------------------------------------------
(* How a handler ends.                                                      *)

(* Faulty variant: the slot is returned by requests that were never given   *)
(* one.                                                                     *)
SettleAlways(r, how) ==
  /\ verdict' = [verdict EXCEPT ![r] = how]
  /\ slots' = slots \ {r}
  /\ inFlight' = [inFlight EXCEPT ![KeyOf[r]] = IF @ <= 1 THEN 0 ELSE @ - 1]
  /\ UNCHANGED reports

(* HookRegistry.settle and what the hooks that were acquired do then: the   *)
(* slot is returned by decrement, the logger reports if admitReport lets it.*)
Settle(r, how) ==
  IF verdict[r] # "open" THEN UNCHANGED <<verdict, slots, inFlight, reports>>
  ELSE
    /\ verdict' = [verdict EXCEPT ![r] = how]
    /\ IF "parallel" \in acquired[r] /\ r \in slots
       THEN /\ slots' = slots \ {r}
            /\ inFlight' = [inFlight EXCEPT ![KeyOf[r]] = IF @ <= 1 THEN 0 ELSE @ - 1]
       ELSE UNCHANGED <<slots, inFlight>>
    /\ reports' = IF "logger" \in acquired[r] /\ reports < MaxReports
                  THEN reports + 1 ELSE reports

(* The request leaves the limiter; released makes it once.                  *)
Release(r) ==
  /\ place' = [place EXCEPT ![r] = "free"]
  /\ active' = active - 1

(* Faulty variant: a response that comes when the client has gone is        *)
(* dropped, body and place.                                                 *)
RespondToClient(r, a) ==
  /\ stage' = [stage EXCEPT ![r] = "end"]
  /\ answer' = [answer EXCEPT ![r] = IF gone[r] THEN @ ELSE a]
  /\ IF place[r] # "held" \/ gone[r] THEN UNCHANGED <<place, active>>
     ELSE place' = [place EXCEPT ![r] = "reading"] /\ UNCHANGED active

(* The handler is over.  A response goes through the limiter, which reads   *)
(* its body on behalf of the client, or cancels it when the client has gone;*)
(* the body of a stream is read already.                                    *)
Respond(r, a) ==
  /\ stage' = [stage EXCEPT ![r] = "end"]
  /\ answer' = [answer EXCEPT ![r] = IF gone[r] THEN @ ELSE a]
  /\ IF place[r] # "held" THEN UNCHANGED <<place, active>>
     ELSE IF gone[r] THEN Release(r)
     ELSE place' = [place EXCEPT ![r] = "reading"] /\ UNCHANGED active

Go(r, s) == stage' = [stage EXCEPT ![r] = s] /\ UNCHANGED <<answer, place, active>>

-----------------------------------------------------------------------------
(* Admission.                                                               *)

Arrive(r) ==
  /\ stage[r] = "new"
  /\ IF active >= MaxActive
     THEN /\ stage' = [stage EXCEPT ![r] = "end"]
          /\ answer' = [answer EXCEPT ![r] = "busy"]
          /\ UNCHANGED <<place, active>>
     ELSE /\ stage' = [stage EXCEPT ![r] = "auth"]
          /\ place' = [place EXCEPT ![r] = "held"]
          /\ active' = active + 1
          /\ UNCHANGED answer
  /\ UNCHANGED <<gone, seen, acquired, verdict, probe, slots, inFlight, rpm, reports,
                 spendVars, resetVars, restarts>>

(* Bad credentials, a body that does not parse, a client that has gone.     *)
Refuse(r) ==
  /\ stage[r] = "auth"
  /\ Respond(r, "refused")
  /\ UNCHANGED <<gone, seen, acquired, verdict, probe, slots, inFlight, rpm, reports,
                 spendVars, resetVars, restarts>>

(* unifiedAuth reads the row of the key; the handler joins the probe in     *)
(* flight or starts one.                                                    *)
Authenticate(r) ==
  /\ stage[r] = "auth" /\ ~gone[r]
  /\ seen' = [seen EXCEPT ![r] = spend[KeyOf[r]]]
  /\ probe' = probe \cup {r}
  /\ Go(r, "probe")
  /\ UNCHANGED <<gone, acquired, verdict, slots, inFlight, rpm, reports, spendVars, resetVars,
                 restarts>>

(* The probe ends for all who share it; none of them has a hook to undo.    *)
ProbeEnds ==
  /\ probe # {}
  /\ probe' = {}
  /\ \/ /\ stage' = [r \in Requests |-> IF r \in probe THEN "parallel" ELSE stage[r]]
        /\ UNCHANGED <<place, answer, active>>
     \/ /\ stage' = [r \in Requests |-> IF r \in probe THEN "end" ELSE stage[r]]
        /\ answer' = [r \in Requests |-> IF r \in probe /\ ~gone[r] THEN "unaccounted" ELSE answer[r]]
        /\ place' = [r \in Requests |-> IF r \notin probe THEN place[r]
                                        ELSE IF gone[r] THEN "free" ELSE "reading"]
        /\ active' = active - Cardinality({r \in probe : gone[r]})
  /\ UNCHANGED <<gone, seen, acquired, verdict, slots, inFlight, rpm, reports, spendVars,
                 resetVars, restarts>>

-----------------------------------------------------------------------------
(* runPreCall: one hook at a time; the first that rejects ends it, and the  *)
(* hooks before it are told of the failure.                                 *)
Pass(r, hooks, s) ==
  /\ acquired' = [acquired EXCEPT ![r] = @ \cup hooks]
  /\ Go(r, s)
  /\ UNCHANGED <<verdict, reports>>

Reject(r) ==
  /\ Settle(r, "failure")
  /\ Respond(r, "limited")
  /\ UNCHANGED acquired

ParallelLimiter(r) ==
  /\ stage[r] = "parallel"
  /\ LET k == KeyOf[r] IN
     IF Limited(MaxParallel[k], inFlight[k]) THEN Reject(r)
     ELSE /\ Pass(r, {"parallel"}, "rate")
          /\ IF MaxParallel[k] > 0
             THEN /\ inFlight' = [inFlight EXCEPT ![k] = @ + 1]
                  /\ slots' = slots \cup {r}
             ELSE UNCHANGED <<inFlight, slots>>
  /\ UNCHANGED <<gone, seen, probe, rpm, spendVars, resetVars, restarts>>

RateLimiter(r) ==
  /\ stage[r] = "rate"
  /\ LET k == KeyOf[r] IN
     IF Limited(RpmLimit[k], rpm[k]) THEN Reject(r) /\ UNCHANGED rpm
     ELSE /\ Pass(r, {"rate"}, "budget")
          /\ rpm' = IF RpmLimit[k] > 0 THEN [rpm EXCEPT ![k] = @ + 1] ELSE rpm
          /\ UNCHANGED <<inFlight, slots>>
  /\ UNCHANGED <<gone, seen, probe, spendVars, resetVars, restarts>>

BudgetLimiter(r) ==
  /\ stage[r] = "budget"
  /\ IF Limited(MaxBudget[KeyOf[r]], seen[r]) THEN Reject(r)
     ELSE Pass(r, {"budget", "logger"}, "route") /\ UNCHANGED <<inFlight, slots>>
  /\ UNCHANGED <<gone, seen, probe, rpm, spendVars, resetVars, restarts>>

-----------------------------------------------------------------------------
(* The upstream call and the accounting.                                    *)

(* No deployment, all of them failed, an error the client made, an abort;   *)
(* or the arguments of a tool call that do not parse.                       *)
RouteFails(r) ==
  /\ stage[r] = "route"
  /\ Settle(r, "failure")
  /\ Respond(r, "failed")
  /\ UNCHANGED <<gone, seen, acquired, probe, rpm, spendVars, resetVars, restarts>>

(* A whole response: its spend is recorded before it is sent.               *)
RouteReturns(r) ==
  /\ stage[r] = "route" /\ ~gone[r]
  /\ Go(r, "charge")
  /\ UNCHANGED <<gone, seen, acquired, verdict, probe, slots, inFlight, rpm, reports,
                 spendVars, resetVars, restarts>>

(* A stream: the response is returned, and runStream goes on by itself.     *)
RouteStreams(r) ==
  /\ stage[r] = "route" /\ ~gone[r]
  /\ stage' = [stage EXCEPT ![r] = "stream"]
  /\ place' = [place EXCEPT ![r] = "reading"]
  /\ UNCHANGED <<gone, answer, seen, acquired, verdict, active, probe, slots, inFlight, rpm,
                 reports, spendVars, resetVars, restarts>>

StreamEnds(r) ==
  /\ stage[r] = "stream"
  /\ Go(r, "charge")
  /\ UNCHANGED <<gone, seen, acquired, verdict, probe, slots, inFlight, rpm, reports,
                 spendVars, resetVars, restarts>>

(* The provider breaks off or times out, or a write finds the client gone.  *)
StreamBreaks(r) ==
  /\ stage[r] = "stream"
  /\ Settle(r, "failure")
  /\ Respond(r, "failed")
  /\ UNCHANGED <<gone, seen, acquired, probe, rpm, spendVars, resetVars, restarts>>

(* Faulty variants: the new spend is computed from the row that was read    *)
(* before the call, and a spend that cannot be recorded is passed over.     *)
ChargedAsSeen(old, r) == [old EXCEPT ![KeyOf[r]] = seen[r] + 1]

CommitIgnored(r) ==
  /\ stage[r] = "charge"
  /\ Settle(r, "success")
  /\ Respond(r, "ok")
  /\ UNCHANGED <<gone, seen, acquired, probe, rpm, spendVars, resetVars, restarts>>

(* recordSpend: the log, the daily row and the key in one transaction.      *)
Charged(old, r) == [old EXCEPT ![KeyOf[r]] = @ + 1]

Commit(r) ==
  /\ stage[r] = "charge"
  /\ log' = [log EXCEPT ![r] = @ + 1]
  /\ daily' = Charged(daily, r)
  /\ spend' = Charged(spend, r)
  /\ Go(r, "charged")
  /\ UNCHANGED <<gone, seen, acquired, verdict, probe, slots, inFlight, rpm, reports,
                 resetVars, restarts>>

CommitFails(r) ==
  /\ stage[r] = "charge"
  /\ Settle(r, "failure")
  /\ Respond(r, "unaccounted")
  /\ UNCHANGED <<gone, seen, acquired, probe, rpm, spendVars, resetVars, restarts>>

(* The last event of a stream is written before the success is reported: a  *)
(* client that has gone makes it a failure.                                 *)
Finish(r) ==
  /\ stage[r] = "charged"
  /\ Settle(r, IF gone[r] /\ place[r] # "held" THEN "failure" ELSE "success")
  /\ Respond(r, "ok")
  /\ UNCHANGED <<gone, seen, acquired, probe, rpm, spendVars, resetVars, restarts>>

-----------------------------------------------------------------------------
(* Clients, timers, administrators, a restart.                              *)

(* The body has been read to its end.                                       *)
BodyEnds(r) ==
  /\ stage[r] = "end" /\ place[r] = "reading"
  /\ Release(r)
  /\ UNCHANGED <<stage, gone, answer, seen, acquired, verdict, probe, slots, inFlight, rpm,
                 reports, spendVars, resetVars, restarts>>

(* The abort cancels the body where there is one; a handler that still runs *)
(* keeps its place until it answers.                                        *)
Disconnect(r) ==
  /\ place[r] \in {"held", "reading"} /\ ~gone[r]
  /\ gone' = [gone EXCEPT ![r] = TRUE]
  /\ IF place[r] = "reading" THEN Release(r) ELSE UNCHANGED <<place, active>>
  /\ UNCHANGED <<stage, answer, seen, acquired, verdict, probe, slots, inFlight, rpm, reports,
                 spendVars, resetVars, restarts>>

ReportEnds ==
  /\ reports > 0
  /\ reports' = reports - 1
  /\ UNCHANGED <<reqVars, active, probe, slots, inFlight, rpm, spendVars, resetVars, restarts>>

(* A minute has passed since the window of the key began.                   *)
WindowEnds(k) ==
  /\ rpm[k] > 0
  /\ rpm' = [rpm EXCEPT ![k] = 0]
  /\ UNCHANGED <<reqVars, active, probe, slots, inFlight, reports, spendVars, resetVars, restarts>>

(* The reset date of the key's budget comes; an administrator moves it.     *)
ComesDue(k) ==
  /\ ~due[k] /\ dues[k] < MaxDues
  /\ due' = [due EXCEPT ![k] = TRUE]
  /\ dues' = [dues EXCEPT ![k] = @ + 1]
  /\ UNCHANGED <<reqVars, memVars, spendVars, pass, found, resets, wiped, restarts>>

Reschedule(k) ==
  /\ due[k]
  /\ due' = [due EXCEPT ![k] = FALSE]
  /\ UNCHANGED <<reqVars, memVars, spendVars, pass, found, dues, resets, wiped, restarts>>

(* The timer starts a pass unless one is active; it reads the budgets.      *)
StartPass ==
  /\ pass = "idle"
  /\ pass' = "running"
  /\ found' = {k \in Keys : due[k]}
  /\ UNCHANGED <<reqVars, memVars, spendVars, due, dues, resets, wiped, restarts>>

(* One transaction clears the spend and moves the date, whatever the budget *)
(* has become since it was read.                                            *)
ResetBudget(k) ==
  /\ k \in found
  /\ found' = found \ {k}
  /\ spend' = [spend EXCEPT ![k] = 0]
  /\ due' = [due EXCEPT ![k] = FALSE]
  /\ resets' = [resets EXCEPT ![k] = @ + 1]
  /\ wiped' = [wiped EXCEPT ![k] = @ + spend[k]]
  /\ UNCHANGED <<reqVars, memVars, daily, log, pass, dues, restarts>>

(* All are done, or a transaction failed and took the pass with it.         *)
EndPass ==
  /\ pass = "running"
  /\ pass' = "idle"
  /\ found' = {}
  /\ UNCHANGED <<reqVars, memVars, spendVars, due, dues, resets, wiped, restarts>>

Restart ==
  /\ restarts < MaxRestarts
  /\ restarts' = restarts + 1
  /\ stage' = [r \in Requests |-> IF stage[r] = "new" THEN "new" ELSE "end"]
  /\ gone' = [r \in Requests |-> gone[r] \/ place[r] \in {"held", "reading"}]
  /\ place' = [r \in Requests |-> IF place[r] \in {"held", "reading"} THEN "free" ELSE place[r]]
  /\ active' = 0 /\ probe' = {} /\ slots' = {} /\ reports' = 0
  /\ inFlight' = [k \in Keys |-> 0] /\ rpm' = [k \in Keys |-> 0]
  /\ pass' = "idle" /\ found' = {}
  /\ verdict' = [r \in Requests |-> IF verdict[r] = "open" /\ stage[r] # "new"
                                    THEN "lost" ELSE verdict[r]]
  /\ UNCHANGED <<answer, seen, acquired, spendVars, due, dues, resets, wiped>>

Init ==
  /\ stage = [r \in Requests |-> "new"] /\ place = [r \in Requests |-> "none"]
  /\ gone = [r \in Requests |-> FALSE] /\ answer = [r \in Requests |-> "none"]
  /\ seen = [r \in Requests |-> 0] /\ acquired = [r \in Requests |-> {}]
  /\ verdict = [r \in Requests |-> "open"]
  /\ active = 0 /\ probe = {} /\ slots = {} /\ reports = 0
  /\ inFlight = [k \in Keys |-> 0] /\ rpm = [k \in Keys |-> 0]
  /\ spend = [k \in Keys |-> 0] /\ daily = [k \in Keys |-> 0] /\ log = [r \in Requests |-> 0]
  /\ due = [k \in Keys |-> FALSE] /\ pass = "idle" /\ found = {}
  /\ dues = [k \in Keys |-> 0] /\ resets = [k \in Keys |-> 0] /\ wiped = [k \in Keys |-> 0]
  /\ restarts = 0

(* What a handler does next.                                                *)
Step(r) ==
  \/ Refuse(r) \/ Authenticate(r)
  \/ ParallelLimiter(r) \/ RateLimiter(r) \/ BudgetLimiter(r)
  \/ RouteFails(r) \/ RouteReturns(r) \/ RouteStreams(r) \/ StreamEnds(r) \/ StreamBreaks(r)
  \/ Commit(r) \/ CommitFails(r) \/ Finish(r)

Next ==
  \/ \E r \in Requests : Arrive(r) \/ Step(r) \/ BodyEnds(r) \/ Disconnect(r)
  \/ ProbeEnds \/ ReportEnds
  \/ \E k \in Keys : WindowEnds(k) \/ ComesDue(k) \/ Reschedule(k) \/ ResetBudget(k)
  \/ StartPass \/ EndPass \/ Restart

Spec == Init /\ [][Next]_vars

(* The event loop goes on with the handlers: the upstream calls have        *)
(* deadlines, the probe and the transactions end, and a client reads its    *)
(* body or closes the connection.                                           *)
Handlers == ProbeEnds \/ \E r \in Requests : Step(r) \/ BodyEnds(r)

Fairness == WF_vars(Handlers)

FairSpec == Spec /\ Fairness

-----------------------------------------------------------------------------
TypeOK ==
  /\ stage \in [Requests -> Stages]
  /\ place \in [Requests -> {"none", "held", "reading", "free"}]
  /\ gone \in [Requests -> BOOLEAN] /\ answer \in [Requests -> Answers]
  /\ seen \in [Requests -> Nat] /\ acquired \in [Requests -> SUBSET Hooks]
  /\ verdict \in [Requests -> {"open", "success", "failure", "lost"}]
  /\ active \in Nat /\ probe \subseteq Requests /\ slots \subseteq Requests
  /\ inFlight \in [Keys -> Nat] /\ rpm \in [Keys -> Nat] /\ reports \in Nat
  /\ spend \in [Keys -> Nat] /\ daily \in [Keys -> Nat] /\ log \in [Requests -> Nat]
  /\ due \in [Keys -> BOOLEAN] /\ pass \in {"idle", "running"} /\ found \subseteq Keys
  /\ dues \in [Keys -> Nat] /\ resets \in [Keys -> Nat] /\ wiped \in [Keys -> Nat]
  /\ restarts \in Nat

Working == {"rate", "budget", "route", "stream", "charge", "charged"}
Answered(r) == stage[r] = "end"
Active == {r \in Requests : place[r] \in {"held", "reading"}}

(* Capacity never leaks and is never given twice, however requests are      *)
(* rejected, aborted or completed: the counter of a key is the number of    *)
(* its requests between parallel-limiter and the end of their hooks, the    *)
(* counter of the limiter is the number of requests that hold a place, and  *)
(* neither passes its limit.                                                *)
CapacityExact ==
  /\ TypeOK
  /\ \A k \in Keys :
       /\ inFlight[k] = Cardinality(slots \cap OfKey(k))
       /\ MaxParallel[k] > 0 => inFlight[k] <= MaxParallel[k]
  /\ slots = {r \in Requests : stage[r] \in Working /\ MaxParallel[KeyOf[r]] > 0}
  /\ active = Cardinality(Active) /\ active <= MaxActive
  /\ \A r \in Requests : Answered(r) /\ gone[r] => place[r] = "free"

(* What a client is told is what was recorded: an answer that reports a     *)
(* success was charged exactly once, an answer that reports a failure or a  *)
(* rejection was not charged at all, and the hooks are told the same.       *)
AnswersAreTrue ==
  \A r \in Requests :
    /\ log[r] <= 1
    /\ answer[r] = "ok" => log[r] = 1
    /\ answer[r] \notin {"none", "ok"} => log[r] = 0
    /\ verdict[r] = "success" => log[r] = 1
    /\ verdict[r] = "failure" /\ ~gone[r] => log[r] = 0
    /\ Answered(r) /\ verdict[r] = "open" => acquired[r] = {}
    /\ Answered(r) /\ ~gone[r] => answer[r] # "none"

(* The three records of a charge agree: the daily row of a key has what the *)
(* log has, and its spend is what was charged since it was last reset.      *)
LogAgrees ==
  \A k \in Keys :
    /\ daily[k] = Cardinality({r \in OfKey(k) : log[r] = 1})
    /\ daily[k] = wiped[k] + spend[k]

(* A request that read a spend at or above the budget of its key is never   *)
(* charged; only requests that read it before can take the spend further.   *)
BudgetHolds ==
  \A r \in Requests :
    LET budget == MaxBudget[KeyOf[r]] IN log[r] > 0 /\ budget > 0 => seen[r] < budget

(* A budget is reset at most once for each time it comes due.               *)
ResetOncePerPeriod == \A k \in Keys : resets[k] + (IF due[k] THEN 1 ELSE 0) <= dues[k]

(* The accounts of a key agree, its spend was taken away from it at most as *)
(* often as its periods ended, and whoever found its budget spent, with     *)
(* charges and resets of others at any time, has added nothing to it.       *)
AccountsAgree == LogAgrees /\ ResetOncePerPeriod /\ BudgetHolds

(* Requests that read the row in time can overshoot the budget together, but*)
(* not without end: there are never more of them than places and slots, the *)
(* slots being those of streams that go on when their client has left.      *)
OvershootBounded ==
  \A k \in Keys : MaxBudget[k] > 0 /\ MaxParallel[k] > 0 =>
    spend[k] < MaxBudget[k] + MaxActive + MaxParallel[k]

(* However the requests interleave, the handlers come to an end, and with   *)
(* them every place and every slot comes back.                              *)
CapacityReturns == <>[](Active = {} /\ slots = {} /\ probe = {})
=============================================================================
