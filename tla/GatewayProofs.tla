--------------------------- MODULE GatewayProofs ---------------------------
(***************************************************************************)
(* Capacity, answers, accounts and budgets of the gateway, for any         *)
(* requests, keys and limits; and the failures its router acts on, for any *)
(* calls and providers.                                                    *)
(***************************************************************************)
EXTENDS Gateway, ProviderRouter, FiniteSetTheorems, TLAPS

Held == {"auth", "probe", "parallel", "rate", "budget", "route"}

\* The place of a request and the presence of its client, by its stage.
PlaceInv ==
  \A r \in Requests :
    /\ stage[r] = "new" => place[r] = "none"
    /\ stage[r] \in Held => place[r] = "held"
    /\ stage[r] = "stream" => place[r] \in {"reading", "free"}
    /\ stage[r] \in {"charge", "charged"} => place[r] # "none"
    /\ place[r] = "held" => stage[r] # "end"
    /\ place[r] = "reading" => ~gone[r]
    /\ place[r] = "none" => ~gone[r]
    /\ place[r] = "free" => stage[r] = "end" \/ gone[r]
    /\ stage[r] = "probe" <=> r \in probe

\* The hooks of a request, by its stage.
HookInv ==
  \A r \in Requests :
    /\ stage[r] # "end" => verdict[r] = "open" /\ answer[r] = "none"
    /\ stage[r] \in {"new", "auth", "probe", "parallel"} => acquired[r] = {}
    /\ stage[r] \in Working => "parallel" \in acquired[r]
    /\ Answered(r) /\ verdict[r] = "open" => acquired[r] = {}
    /\ r \in slots <=> stage[r] \in Working /\ MaxParallel[KeyOf[r]] > 0

\* What is recorded of a request, by its stage.
ChargeInv ==
  \A r \in Requests :
    /\ stage[r] = "charged" => log[r] = 1
    /\ stage[r] \notin {"charged", "end"} => log[r] = 0
    /\ stage[r] \in {"route", "stream", "charge", "charged"} =>
         ~ Limited(MaxBudget[KeyOf[r]], seen[r])

Counts ==
  /\ \A k \in Keys : inFlight[k] = Cardinality(slots \cap OfKey(k))
  /\ \A k \in Keys : MaxParallel[k] > 0 => inFlight[k] <= MaxParallel[k]
  /\ active = Cardinality(Active) /\ active <= MaxActive

\* A reset is due for each budget the pass has found, or has been paid for.
DueInv ==
  /\ pass = "idle" => found = {}
  /\ \A k \in Keys : resets[k] + (IF due[k] \/ k \in found THEN 1 ELSE 0) <= dues[k]

IInv ==
  /\ TypeOK /\ PlaceInv /\ HookInv /\ ChargeInv /\ Counts /\ AnswersAreTrue /\ LogAgrees
  /\ BudgetHolds /\ DueInv

Logged(k) == {r \in OfKey(k) : log[r] = 1}
SlotsOf(k) == slots \cap OfKey(k)

(***************************************************************************)
(* What is counted.                                                        *)
(***************************************************************************)
LEMMA CountedFinite ==
  /\ IsFiniteSet(Active) /\ IsFiniteSet(Requests)
  /\ \A k \in Keys : IsFiniteSet(Logged(k)) /\ IsFiniteSet(OfKey(k))
<1>1. IsFiniteSet(Requests)
  BY RequestsAssumption
<1>2. Active \subseteq Requests /\ \A k \in Keys : Logged(k) \subseteq Requests /\ OfKey(k) \subseteq Requests
  BY DEF Active, Logged, OfKey
<1> QED BY <1>1, <1>2, FS_Subset

LEMMA AccountsForm ==
  /\ LogAgrees <=>
       \A k \in Keys : daily[k] = Cardinality(Logged(k)) /\ daily[k] = wiped[k] + spend[k]
  /\ LogAgrees' <=>
       \A k \in Keys : daily'[k] = Cardinality(Logged(k)') /\ daily'[k] = wiped'[k] + spend'[k]
BY DEF LogAgrees, Logged

\* The slots of each key are what its counter says, and within its limit.
Slotted ==
  \A k \in Keys : /\ inFlight[k] = Cardinality(SlotsOf(k))
                  /\ MaxParallel[k] > 0 => inFlight[k] <= MaxParallel[k]

LEMMA CountsForm ==
  /\ Counts <=> Slotted /\ active = Cardinality(Active) /\ active <= MaxActive
  /\ Counts' <=> Slotted' /\ active' = Cardinality(Active)' /\ active' <= MaxActive
BY DEF Counts, Slotted, SlotsOf

LEMMA AccountsSame ==
  ASSUME LogAgrees, log' = log, daily' = daily,
         \A k \in Keys : wiped'[k] + spend'[k] = wiped[k] + spend[k]
  PROVE  LogAgrees'
<1>1. \A k \in Keys : Logged(k)' = Logged(k)
  BY DEF Logged, OfKey
<1> QED BY <1>1, AccountsForm

LEMMA ActiveSame ==
  ASSUME Counts, active' = active,
         \A r \in Requests : place'[r] \in {"held", "reading"} <=> place[r] \in {"held", "reading"}
  PROVE  active' = Cardinality(Active)' /\ active' <= MaxActive
<1>1. Active' = Active
  BY DEF Active
<1> QED BY <1>1 DEF Counts

LEMMA ActiveOut ==
  ASSUME TypeOK, Counts, NEW r \in Requests, place[r] \in {"held", "reading"},
         place' = [place EXCEPT ![r] = "free"], active' = active - 1
  PROVE  active' \in Nat /\ active' = Cardinality(Active)' /\ active' <= MaxActive
<1>1. r \in Active /\ Active' = Active \ {r}
  BY DEF Active, TypeOK
<1>2. Cardinality(Active') = Cardinality(Active) - 1 /\ IsFiniteSet(Active')
  BY <1>1, CountedFinite, FS_RemoveElement
<1>3. Cardinality(Active') \in Nat
  BY <1>2, FS_CardinalityType
<1> QED BY <1>2, <1>3, LimitsAssumption DEF Counts, TypeOK

LEMMA SlotsSame ==
  ASSUME Slotted, inFlight' = inFlight, slots' = slots
  PROVE  Slotted'
<1>1. \A k \in Keys : SlotsOf(k)' = SlotsOf(k)
  BY DEF SlotsOf, OfKey
<1> QED BY <1>1 DEF Slotted

(***************************************************************************)
(* Initially.                                                              *)
(***************************************************************************)
LEMMA InitIInv == Init => IInv
<1> SUFFICES ASSUME Init PROVE IInv
  OBVIOUS
<1>1. TypeOK /\ PlaceInv /\ HookInv /\ ChargeInv
  BY RequestsAssumption, LimitsAssumption
  DEF Init, TypeOK, Stages, Answers, PlaceInv, Held, HookInv, Working, Answered, ChargeInv
<1>2. Counts
  <2>1. Active = {} /\ \A k \in Keys : slots \cap OfKey(k) = {}
    BY DEF Init, Active
  <2> QED BY <2>1, FS_EmptySet, LimitsAssumption DEF Init, Counts
<1>3. AnswersAreTrue /\ BudgetHolds /\ DueInv
  BY LimitsAssumption DEF Init, AnswersAreTrue, Answered, BudgetHolds, DueInv
<1>4. LogAgrees
  <2>1. \A k \in Keys : Logged(k) = {}
    BY DEF Init, OfKey, Logged
  <2> QED BY <2>1, FS_EmptySet, AccountsForm DEF Init
<1> QED BY <1>1, <1>2, <1>3, <1>4 DEF IInv

(***************************************************************************)
(* How a request ends.                                                     *)
(***************************************************************************)
LEMMA SettleCounts ==
  ASSUME TypeOK, HookInv, Counts, NEW r \in Requests, stage[r] # "end",
         NEW how \in {"success", "failure"}, Settle(r, how)
  PROVE  /\ verdict' = [verdict EXCEPT ![r] = how] /\ reports' \in Nat
         /\ slots' = slots \ {r} /\ inFlight' \in [Keys -> Nat] /\ Slotted'
<1> DEFINE key == KeyOf[r]
<1>1. verdict[r] = "open" /\ key \in Keys
  BY RequestsAssumption DEF HookInv
<1>2. verdict' = [verdict EXCEPT ![r] = how] /\ reports' \in Nat
  BY <1>1 DEF Settle, TypeOK
<1>3. CASE r \notin slots
  <2>1. inFlight' = inFlight /\ slots' = slots
    BY <1>1, <1>3 DEF Settle
  <2> QED BY <1>2, <1>3, <2>1, SlotsSame, CountsForm DEF TypeOK
<1>4. CASE r \in slots
  <2>1. /\ slots' = slots \ {r}
        /\ inFlight' = [inFlight EXCEPT ![key] = IF @ <= 1 THEN 0 ELSE @ - 1]
    BY <1>1, <1>4 DEF Settle, HookInv
  <2>2. IsFiniteSet(SlotsOf(key))
    BY <1>1, CountedFinite, FS_Intersection DEF SlotsOf
  <2>3. SlotsOf(key)' = SlotsOf(key) \ {r} /\ r \in SlotsOf(key)
    BY <1>4, <2>1 DEF OfKey, SlotsOf
  <2>4. Cardinality(SlotsOf(key)') = Cardinality(SlotsOf(key)) - 1
        /\ IsFiniteSet(SlotsOf(key)')
    BY <2>2, <2>3, FS_RemoveElement
  <2>5. Cardinality(SlotsOf(key)') \in Nat /\ inFlight[key] = Cardinality(SlotsOf(key))
    BY <1>1, <2>4, FS_CardinalityType, CountsForm DEF Slotted
  <2>6. inFlight[key] \in Nat /\ inFlight[key] - 1 \in Nat
    BY <1>1, <2>4, <2>5 DEF TypeOK
  <2>7. inFlight' = [inFlight EXCEPT ![key] = inFlight[key] - 1]
    <3>1. (IF inFlight[key] <= 1 THEN 0 ELSE inFlight[key] - 1) = inFlight[key] - 1
      BY <2>6
    <3> QED BY <2>1, <3>1, Zenon
  <2>8. inFlight' \in [Keys -> Nat]
    BY <1>1, <2>6, <2>7 DEF TypeOK
  <2>9. Slotted'
    <3> SUFFICES ASSUME NEW k \in Keys
                 PROVE  /\ inFlight'[k] = Cardinality(SlotsOf(k)')
                        /\ MaxParallel[k] > 0 => inFlight'[k] <= MaxParallel[k]
      BY DEF Slotted
    <3>1. /\ inFlight[k] = Cardinality(SlotsOf(k))
          /\ MaxParallel[k] > 0 => inFlight[k] <= MaxParallel[k]
      BY CountsForm DEF Slotted
    <3>2. CASE k = key
      <4>1. inFlight'[k] = inFlight[k] - 1
        BY <2>7, <3>2 DEF TypeOK
      <4> QED BY <2>4, <2>5, <2>6, <3>1, <3>2, <4>1, LimitsAssumption
    <3>3. CASE k # key
      <4>1. inFlight'[k] = inFlight[k]
        BY <2>7, <3>3 DEF TypeOK
      <4>2. SlotsOf(k)' = SlotsOf(k)
        BY <2>1, <3>3 DEF OfKey, SlotsOf
      <4> QED BY <3>1, <4>1, <4>2
    <3> QED BY <3>2, <3>3
  <2> QED BY <1>2, <2>1, <2>8, <2>9
<1> QED BY <1>3, <1>4

LEMMA RespondCounts ==
  ASSUME TypeOK, PlaceInv, Counts, NEW r \in Requests, stage[r] \notin {"new", "end"},
         NEW a \in Answers, Respond(r, a), gone' = gone
  PROVE  /\ stage' = [stage EXCEPT ![r] = "end"]
         /\ answer' = [answer EXCEPT ![r] = IF gone[r] THEN @ ELSE a]
         /\ \E q \in {"reading", "free"} :
              place' = [place EXCEPT ![r] = q] /\ (q = "free" <=> gone[r])
         /\ active' \in Nat /\ active' = Cardinality(Active)' /\ active' <= MaxActive
<1>1. /\ stage' = [stage EXCEPT ![r] = "end"]
      /\ answer' = [answer EXCEPT ![r] = IF gone[r] THEN @ ELSE a]
  BY DEF Respond
<1>2. place[r] \in {"held", "reading", "free"}
  BY DEF PlaceInv, Held, TypeOK, Stages
<1>3. CASE place[r] # "held"
  <2>1. place' = place /\ active' = active
    BY <1>3 DEF Respond
  <2>2. place' = [place EXCEPT ![r] = place[r]] /\ (place[r] = "free" <=> gone[r])
    BY <1>2, <1>3, <2>1 DEF PlaceInv, TypeOK
  <2> QED BY <1>1, <1>2, <1>3, <2>1, <2>2, ActiveSame DEF TypeOK
<1>4. CASE place[r] = "held" /\ gone[r]
  <2>1. place' = [place EXCEPT ![r] = "free"] /\ active' = active - 1
    BY <1>4 DEF Respond, Release
  <2> QED BY <1>1, <1>4, <2>1, ActiveOut
<1>5. CASE place[r] = "held" /\ ~gone[r]
  <2>1. place' = [place EXCEPT ![r] = "reading"] /\ active' = active
    BY <1>5 DEF Respond
  <2>2. \A x \in Requests : place'[x] \in {"held", "reading"} <=> place[x] \in {"held", "reading"}
    BY <1>5, <2>1 DEF TypeOK
  <2> QED BY <1>1, <1>5, <2>1, <2>2, ActiveSame DEF TypeOK
<1> QED BY <1>3, <1>4, <1>5

\* A request that has its hooks is told how it ended.
LEMMA Ends ==
  ASSUME IInv, NEW r \in Requests, stage[r] \in Working \cup {"parallel"},
         NEW how \in {"success", "failure"}, NEW a \in {"limited", "failed", "unaccounted", "ok"},
         Settle(r, how), Respond(r, a),
         UNCHANGED <<gone, seen, acquired, probe, rpm, spendVars, resetVars, restarts>>,
         a = "ok" <=> stage[r] = "charged",
         how = "success" => stage[r] = "charged",
         how = "failure" /\ stage[r] = "charged" => gone[r]
  PROVE  IInv'
<1> USE DEF IInv
<1>1. /\ verdict' = [verdict EXCEPT ![r] = how] /\ reports' \in Nat
      /\ slots' = slots \ {r} /\ inFlight' \in [Keys -> Nat] /\ Slotted'
  BY SettleCounts DEF Working
<1>2. /\ stage' = [stage EXCEPT ![r] = "end"]
      /\ answer' = [answer EXCEPT ![r] = IF gone[r] THEN @ ELSE a]
      /\ \E q \in {"reading", "free"} :
           place' = [place EXCEPT ![r] = q] /\ (q = "free" <=> gone[r])
      /\ active' \in Nat /\ active' = Cardinality(Active)' /\ active' <= MaxActive
  BY RespondCounts DEF Working, Answers
<1>3. /\ gone' = gone /\ seen' = seen /\ acquired' = acquired /\ probe' = probe /\ rpm' = rpm
      /\ spend' = spend /\ daily' = daily /\ log' = log /\ restarts' = restarts
      /\ due' = due /\ pass' = pass /\ found' = found /\ dues' = dues /\ resets' = resets
      /\ wiped' = wiped
  BY DEF spendVars, resetVars
<1>4. TypeOK'
  BY <1>1, <1>2, <1>3 DEF TypeOK, Stages, Answers
<1>5. PlaceInv'
  BY <1>2, <1>3 DEF PlaceInv, Held, Working, TypeOK
<1>6. HookInv'
  BY <1>1, <1>2, <1>3 DEF HookInv, Working, Answered, TypeOK
<1>7. ChargeInv'
  BY <1>2, <1>3 DEF ChargeInv, Limited, TypeOK
<1>8. Counts'
  BY <1>1, <1>2, CountsForm
<1>9. AnswersAreTrue'
  BY <1>1, <1>2, <1>3 DEF AnswersAreTrue, Answered, HookInv, ChargeInv, Working, TypeOK
<1>10. LogAgrees' /\ BudgetHolds' /\ DueInv'
  BY <1>3, AccountsSame DEF BudgetHolds, DueInv
<1> QED BY <1>4, <1>5, <1>6, <1>7, <1>8, <1>9, <1>10

(***************************************************************************)
(* How a request goes on.                                                  *)
(***************************************************************************)
\* A request that moves, with its place and its slot as they are.
LEMMA Moves ==
  ASSUME IInv, NEW r \in Requests, NEW s \in Stages,
         <<stage[r], s>> \in {<<"auth", "probe">>, <<"rate", "budget">>, <<"budget", "route">>,
                              <<"route", "charge">>, <<"stream", "charge">>},
         stage' = [stage EXCEPT ![r] = s],
         seen[r]' = seen[r] \/ s = "probe", \A x \in Requests : x # r => seen'[x] = seen[x],
         seen' \in [Requests -> Nat],
         acquired' \in [Requests -> SUBSET Hooks],
         \A x \in Requests : acquired'[x] = acquired[x] \/ (x = r /\ s \in Working),
         acquired[r] \subseteq acquired'[r],
         s = "route" => ~ Limited(MaxBudget[KeyOf[r]], seen[r]),
         probe' = IF s = "probe" THEN probe \cup {r} ELSE probe,
         rpm' \in [Keys -> Nat],
         UNCHANGED <<place, gone, answer, verdict, active, slots, inFlight, reports, spendVars,
                     resetVars, restarts>>
  PROVE  IInv'
<1> USE DEF IInv
<1>1. /\ gone' = gone /\ place' = place /\ answer' = answer /\ verdict' = verdict
      /\ active' = active /\ slots' = slots /\ inFlight' = inFlight /\ reports' = reports
      /\ spend' = spend /\ daily' = daily /\ log' = log /\ restarts' = restarts
      /\ due' = due /\ pass' = pass /\ found' = found /\ dues' = dues /\ resets' = resets
      /\ wiped' = wiped
  BY DEF spendVars, resetVars
<1>2. TypeOK'
  BY <1>1 DEF TypeOK
<1>3. PlaceInv'
  BY <1>1 DEF PlaceInv, Held, TypeOK
<1>4. HookInv'
  BY <1>1 DEF HookInv, Working, Answered, TypeOK
<1>5. ChargeInv'
  BY <1>1 DEF ChargeInv, Limited, TypeOK
<1>6. Counts'
  BY <1>1, ActiveSame, SlotsSame, CountsForm
<1>7. AnswersAreTrue'
  BY <1>1 DEF AnswersAreTrue, Answered, HookInv, TypeOK
<1>8. LogAgrees'
  BY <1>1, AccountsSame
<1>9. BudgetHolds'
  BY <1>1 DEF BudgetHolds, ChargeInv, TypeOK
<1>10. DueInv'
  BY <1>1 DEF DueInv
<1> QED BY <1>2, <1>3, <1>4, <1>5, <1>6, <1>7, <1>8, <1>9, <1>10

LEMMA AuthenticateStep ==
  ASSUME IInv, NEW r \in Requests, Authenticate(r)
  PROVE  IInv'
<1>1. seen' = [seen EXCEPT ![r] = spend[KeyOf[r]]] /\ stage[r] = "auth"
      /\ stage' = [stage EXCEPT ![r] = "probe"] /\ probe' = probe \cup {r}
  BY DEF Authenticate, Go
<1>2. UNCHANGED <<place, gone, answer, acquired, verdict, active, slots, inFlight, rpm, reports,
                  spendVars, resetVars, restarts>>
  BY DEF Authenticate, Go
<1>3. TypeOK /\ spend[KeyOf[r]] \in Nat
  BY RequestsAssumption DEF IInv, TypeOK
<1>4. seen' \in [Requests -> Nat] /\ \A x \in Requests : x # r => seen'[x] = seen[x]
  BY <1>1, <1>3 DEF TypeOK
<1> QED BY <1>1, <1>2, <1>3, <1>4, Moves DEF TypeOK, Stages, Hooks

LEMMA RouteReturnsStep ==
  ASSUME IInv, NEW r \in Requests, RouteReturns(r) \/ StreamEnds(r)
  PROVE  IInv'
<1>1. stage[r] \in {"route", "stream"} /\ stage' = [stage EXCEPT ![r] = "charge"]
  BY DEF RouteReturns, StreamEnds, Go
<1>2. UNCHANGED <<place, gone, answer, seen, acquired, verdict, active, probe, slots, inFlight, rpm,
                  reports, spendVars, resetVars, restarts>>
  BY DEF RouteReturns, StreamEnds, Go
<1> QED BY <1>1, <1>2, Moves DEF IInv, TypeOK, Stages

LEMMA RateLimiterStep ==
  ASSUME IInv, NEW r \in Requests, RateLimiter(r)
  PROVE  IInv'
<1> DEFINE key == KeyOf[r]
<1>1. stage[r] = "rate" /\ UNCHANGED <<gone, seen, probe, spendVars, resetVars, restarts>>
  BY DEF RateLimiter
<1>2. CASE Limited(RpmLimit[key], rpm[key])
  BY <1>1, <1>2, Ends DEF RateLimiter, Reject, Working
<1>3. CASE ~ Limited(RpmLimit[key], rpm[key])
  <2>1. /\ stage' = [stage EXCEPT ![r] = "budget"]
        /\ acquired' = [acquired EXCEPT ![r] = acquired[r] \cup {"rate"}]
        /\ rpm' = IF RpmLimit[key] > 0 THEN [rpm EXCEPT ![key] = rpm[key] + 1] ELSE rpm
        /\ UNCHANGED <<place, answer, active, verdict, reports, inFlight, slots>>
    BY <1>3 DEF RateLimiter, Pass, Go
  <2>2. TypeOK /\ key \in Keys
    BY RequestsAssumption DEF IInv
  <2>3. rpm' \in [Keys -> Nat] /\ acquired' \in [Requests -> SUBSET Hooks]
    BY <2>1, <2>2 DEF TypeOK, Hooks
  <2>4. /\ \A x \in Requests : acquired'[x] = acquired[x] \/ x = r
        /\ acquired[r] \subseteq acquired'[r]
    BY <2>1, <2>2 DEF TypeOK
  <2> QED BY <1>1, <2>1, <2>2, <2>3, <2>4, Moves DEF TypeOK, Stages, Working
<1> QED BY <1>2, <1>3

LEMMA BudgetLimiterStep ==
  ASSUME IInv, NEW r \in Requests, BudgetLimiter(r)
  PROVE  IInv'
<1>1. stage[r] = "budget" /\ UNCHANGED <<gone, seen, probe, rpm, spendVars, resetVars, restarts>>
  BY DEF BudgetLimiter
<1>2. CASE Limited(MaxBudget[KeyOf[r]], seen[r])
  BY <1>1, <1>2, Ends DEF BudgetLimiter, Reject, Working
<1>3. CASE ~ Limited(MaxBudget[KeyOf[r]], seen[r])
  <2>1. /\ stage' = [stage EXCEPT ![r] = "route"]
        /\ acquired' = [acquired EXCEPT ![r] = acquired[r] \cup {"budget", "logger"}]
        /\ UNCHANGED <<place, answer, active, verdict, reports, inFlight, slots>>
    BY <1>3 DEF BudgetLimiter, Pass, Go
  <2>2. TypeOK
    BY DEF IInv
  <2>3. acquired' \in [Requests -> SUBSET Hooks]
    BY <2>1, <2>2 DEF TypeOK, Hooks
  <2>4. /\ \A x \in Requests : acquired'[x] = acquired[x] \/ x = r
        /\ acquired[r] \subseteq acquired'[r]
    BY <2>1, <2>2 DEF TypeOK
  <2> QED BY <1>1, <1>3, <2>1, <2>2, <2>3, <2>4, Moves DEF TypeOK, Stages, Working
<1> QED BY <1>2, <1>3

LEMMA ArriveStep ==
  ASSUME IInv, NEW r \in Requests, Arrive(r)
  PROVE  IInv'
<1> USE DEF IInv
<1>1. /\ gone' = gone /\ seen' = seen /\ acquired' = acquired /\ verdict' = verdict
      /\ probe' = probe /\ slots' = slots /\ inFlight' = inFlight /\ rpm' = rpm
      /\ reports' = reports /\ spend' = spend /\ daily' = daily /\ log' = log
      /\ restarts' = restarts /\ due' = due /\ pass' = pass /\ found' = found
      /\ dues' = dues /\ resets' = resets /\ wiped' = wiped /\ stage[r] = "new"
  BY DEF Arrive, spendVars, resetVars
<1>2. Slotted' /\ LogAgrees' /\ BudgetHolds' /\ DueInv'
  BY <1>1, SlotsSame, CountsForm, AccountsSame DEF BudgetHolds, DueInv
<1>3. CASE active >= MaxActive
  <2>1. /\ stage' = [stage EXCEPT ![r] = "end"] /\ answer' = [answer EXCEPT ![r] = "busy"]
        /\ place' = place /\ active' = active
    BY <1>3 DEF Arrive
  <2>2. TypeOK'
    BY <1>1, <2>1 DEF TypeOK, Stages, Answers
  <2>3. PlaceInv' /\ HookInv' /\ ChargeInv'
    BY <1>1, <2>1 DEF PlaceInv, Held, HookInv, Working, Answered, ChargeInv, Limited, TypeOK
  <2>4. Counts'
    BY <1>2, <2>1, ActiveSame, CountsForm
  <2>5. AnswersAreTrue'
    BY <1>1, <2>1 DEF AnswersAreTrue, Answered, HookInv, ChargeInv, TypeOK
  <2> QED BY <1>2, <2>2, <2>3, <2>4, <2>5
<1>4. CASE ~ (active >= MaxActive)
  <2>1. /\ stage' = [stage EXCEPT ![r] = "auth"] /\ place' = [place EXCEPT ![r] = "held"]
        /\ active' = active + 1 /\ answer' = answer
    BY <1>4 DEF Arrive
  <2>2. TypeOK'
    BY <1>1, <2>1 DEF TypeOK, Stages
  <2>3. PlaceInv' /\ HookInv' /\ ChargeInv'
    BY <1>1, <2>1 DEF PlaceInv, Held, HookInv, Working, Answered, ChargeInv, Limited, TypeOK
  <2>4. Counts'
    <3>1. place[r] = "none"
      BY <1>1 DEF PlaceInv
    <3>2. r \notin Active /\ Active' = Active \cup {r}
      BY <2>1, <3>1 DEF Active, TypeOK
    <3>3. Cardinality(Active') = Cardinality(Active) + 1
      BY <3>2, CountedFinite, FS_AddElement
    <3>4. active = Cardinality(Active)
      BY CountsForm
    <3> QED BY <1>2, <1>4, <2>1, <3>3, <3>4, LimitsAssumption, CountsForm DEF TypeOK
  <2>5. AnswersAreTrue'
    BY <1>1, <2>1 DEF AnswersAreTrue, Answered, HookInv, ChargeInv, TypeOK
  <2> QED BY <1>2, <2>2, <2>3, <2>4, <2>5
<1> QED BY <1>3, <1>4

LEMMA RefuseStep ==
  ASSUME IInv, NEW r \in Requests, Refuse(r)
  PROVE  IInv'
<1> USE DEF IInv
<1>1. /\ gone' = gone /\ seen' = seen /\ acquired' = acquired /\ verdict' = verdict
      /\ probe' = probe /\ slots' = slots /\ inFlight' = inFlight /\ rpm' = rpm
      /\ reports' = reports /\ spend' = spend /\ daily' = daily /\ log' = log
      /\ restarts' = restarts /\ due' = due /\ pass' = pass /\ found' = found
      /\ dues' = dues /\ resets' = resets /\ wiped' = wiped /\ stage[r] = "auth"
      /\ Respond(r, "refused")
  BY DEF Refuse, spendVars, resetVars
<1>2. /\ stage' = [stage EXCEPT ![r] = "end"]
      /\ answer' = [answer EXCEPT ![r] = IF gone[r] THEN @ ELSE "refused"]
      /\ \E q \in {"reading", "free"} :
           place' = [place EXCEPT ![r] = q] /\ (q = "free" <=> gone[r])
      /\ active' \in Nat /\ active' = Cardinality(Active)' /\ active' <= MaxActive
  BY <1>1, RespondCounts DEF Answers
<1>3. TypeOK'
  BY <1>1, <1>2 DEF TypeOK, Stages, Answers
<1>4. PlaceInv'
  BY <1>1, <1>2 DEF PlaceInv, Held, TypeOK
<1>5. HookInv'
  BY <1>1, <1>2 DEF HookInv, Working, Answered, TypeOK
<1>6. ChargeInv'
  BY <1>1, <1>2 DEF ChargeInv, Limited, TypeOK
<1>7. Counts'
  BY <1>1, <1>2, SlotsSame, CountsForm
<1>8. AnswersAreTrue'
  BY <1>1, <1>2 DEF AnswersAreTrue, Answered, HookInv, ChargeInv, TypeOK
<1>9. LogAgrees' /\ BudgetHolds' /\ DueInv'
  BY <1>1, AccountsSame DEF BudgetHolds, DueInv
<1> QED BY <1>3, <1>4, <1>5, <1>6, <1>7, <1>8, <1>9

LEMMA ProbeEndsStep ==
  ASSUME IInv, ProbeEnds
  PROVE  IInv'
<1> USE DEF IInv
<1>1. /\ gone' = gone /\ seen' = seen /\ acquired' = acquired /\ verdict' = verdict
      /\ probe' = {} /\ slots' = slots /\ inFlight' = inFlight /\ rpm' = rpm
      /\ reports' = reports /\ spend' = spend /\ daily' = daily /\ log' = log
      /\ restarts' = restarts /\ due' = due /\ pass' = pass /\ found' = found
      /\ dues' = dues /\ resets' = resets /\ wiped' = wiped
  BY DEF ProbeEnds, spendVars, resetVars
<1>2. Slotted' /\ LogAgrees' /\ BudgetHolds' /\ DueInv'
  BY <1>1, SlotsSame, CountsForm, AccountsSame DEF BudgetHolds, DueInv
<1>3. CASE /\ stage' = [r \in Requests |-> IF r \in probe THEN "parallel" ELSE stage[r]]
           /\ UNCHANGED <<place, answer, active>>
  <2>1. TypeOK'
    BY <1>1, <1>3 DEF TypeOK, Stages
  <2>2. PlaceInv' /\ HookInv' /\ ChargeInv'
    BY <1>1, <1>3 DEF PlaceInv, Held, HookInv, Working, Answered, ChargeInv, Limited, TypeOK
  <2>3. Counts'
    BY <1>2, <1>3, ActiveSame, CountsForm
  <2>4. AnswersAreTrue'
    BY <1>1, <1>3 DEF AnswersAreTrue, Answered, HookInv, ChargeInv, TypeOK
  <2> QED BY <1>2, <2>1, <2>2, <2>3, <2>4
<1>4. CASE
  /\ stage' = [r \in Requests |-> IF r \in probe THEN "end" ELSE stage[r]]
  /\ answer' = [r \in Requests |-> IF r \in probe /\ ~gone[r] THEN "unaccounted" ELSE answer[r]]
  /\ place' = [r \in Requests |-> IF r \notin probe THEN place[r]
                                  ELSE IF gone[r] THEN "free" ELSE "reading"]
  /\ active' = active - Cardinality({r \in probe : gone[r]})
  <2> DEFINE Left == {r \in probe : gone[r]}
  <2>1. \A r \in probe : stage[r] = "probe" /\ place[r] = "held"
    BY DEF PlaceInv, Held, TypeOK
  <2>2. Left \subseteq Active /\ Active' = Active \ Left
    BY <1>4, <2>1 DEF Active, TypeOK
  <2>3. IsFiniteSet(Left) /\ Cardinality(Active') = Cardinality(Active) - Cardinality(Left)
        /\ IsFiniteSet(Active')
    <3>1. IsFiniteSet(Left) /\ Active \cap Left = Left
      BY <2>2, CountedFinite, FS_Subset
    <3> QED BY <2>2, <3>1, CountedFinite, FS_Difference
  <2>4. Cardinality(Left) \in Nat /\ Cardinality(Active') \in Nat
    BY <2>3, FS_CardinalityType
  <2>5. active' \in Nat /\ Counts'
    <3>1. active = Cardinality(Active) /\ active <= MaxActive /\ active' = active - Cardinality(Left)
      BY <1>4, CountsForm
    <3> HIDE DEF Left
    <3>2. active' = Cardinality(Active') /\ active' <= MaxActive
      BY <2>3, <2>4, <3>1, LimitsAssumption DEF TypeOK
    <3> QED BY <1>2, <2>4, <3>2, CountsForm
  <2>6. TypeOK'
    BY <1>1, <1>4, <2>5 DEF TypeOK, Stages, Answers
  <2>7. PlaceInv'
    BY <1>1, <1>4, <2>1 DEF PlaceInv, Held, TypeOK
  <2>8. HookInv' /\ ChargeInv'
    BY <1>1, <1>4, <2>1 DEF HookInv, Working, Answered, ChargeInv, Limited, TypeOK
  <2>9. AnswersAreTrue'
    BY <1>1, <1>4, <2>1 DEF AnswersAreTrue, Answered, HookInv, ChargeInv, TypeOK
  <2> QED BY <1>2, <2>5, <2>6, <2>7, <2>8, <2>9
<1> QED BY <1>3, <1>4 DEF ProbeEnds

LEMMA ParallelLimiterStep ==
  ASSUME IInv, NEW r \in Requests, ParallelLimiter(r)
  PROVE  IInv'
<1> USE DEF IInv
<1> DEFINE key == KeyOf[r]
<1>1. stage[r] = "parallel" /\ UNCHANGED <<gone, seen, probe, rpm, spendVars, resetVars, restarts>>
  BY DEF ParallelLimiter
<1>2. CASE Limited(MaxParallel[key], inFlight[key])
  BY <1>1, <1>2, Ends DEF ParallelLimiter, Reject
<1>3. CASE ~ Limited(MaxParallel[key], inFlight[key])
  <2>1. /\ stage' = [stage EXCEPT ![r] = "rate"]
        /\ acquired' = [acquired EXCEPT ![r] = acquired[r] \cup {"parallel"}]
        /\ answer' = answer /\ place' = place /\ active' = active
        /\ verdict' = verdict /\ reports' = reports
        /\ IF MaxParallel[key] > 0
           THEN inFlight' = [inFlight EXCEPT ![key] = inFlight[key] + 1] /\ slots' = slots \cup {r}
           ELSE inFlight' = inFlight /\ slots' = slots
    BY <1>3 DEF ParallelLimiter, Pass, Go
  <2>2. /\ gone' = gone /\ seen' = seen /\ probe' = probe /\ rpm' = rpm /\ spend' = spend
        /\ daily' = daily /\ log' = log /\ restarts' = restarts /\ due' = due /\ pass' = pass
        /\ found' = found /\ dues' = dues /\ resets' = resets /\ wiped' = wiped
    BY <1>1 DEF spendVars, resetVars
  <2>3. key \in Keys /\ MaxParallel[key] \in Nat /\ inFlight[key] \in Nat
    BY RequestsAssumption, LimitsAssumption DEF TypeOK
  <2>4. inFlight' \in [Keys -> Nat] /\ Slotted'
    <3>1. CASE MaxParallel[key] > 0
      <4>1. inFlight' = [inFlight EXCEPT ![key] = inFlight[key] + 1] /\ slots' = slots \cup {r}
        BY <2>1, <3>1
      <4>2. inFlight' \in [Keys -> Nat]
        BY <2>3, <4>1 DEF TypeOK
      <4>3. r \notin slots
        BY <1>1 DEF HookInv, Working
      <4>4. SlotsOf(key)' = SlotsOf(key) \cup {r} /\ r \notin SlotsOf(key)
        BY <4>1, <4>3 DEF OfKey, SlotsOf
      <4>5. IsFiniteSet(SlotsOf(key))
        BY <2>3, CountedFinite, FS_Intersection DEF SlotsOf
      <4>6. Cardinality(SlotsOf(key)') = Cardinality(SlotsOf(key)) + 1
        BY <4>4, <4>5, FS_AddElement
      <4>7. SUFFICES ASSUME NEW k \in Keys
                     PROVE  /\ inFlight'[k] = Cardinality(SlotsOf(k)')
                            /\ MaxParallel[k] > 0 => inFlight'[k] <= MaxParallel[k]
        BY <4>2 DEF Slotted
      <4>8. /\ inFlight[k] = Cardinality(SlotsOf(k))
            /\ MaxParallel[k] > 0 => inFlight[k] <= MaxParallel[k]
        BY CountsForm DEF Slotted
      <4>9. CASE k = key
        <5>1. inFlight'[k] = inFlight[k] + 1
          BY <4>1, <4>9 DEF TypeOK
        <5>2. inFlight[k] < MaxParallel[k]
          BY <1>3, <2>3, <3>1, <4>9 DEF Limited
        <5>3. inFlight'[k] <= MaxParallel[k]
          BY <2>3, <4>9, <5>1, <5>2
        <5> QED BY <4>6, <4>8, <4>9, <5>1, <5>3
      <4>10. CASE k # key
        <5>1. inFlight'[k] = inFlight[k]
          BY <4>1, <4>10 DEF TypeOK
        <5>2. SlotsOf(k)' = SlotsOf(k)
          BY <4>1, <4>10 DEF OfKey, SlotsOf
        <5> QED BY <4>8, <5>1, <5>2
      <4> QED BY <4>9, <4>10
    <3>2. CASE ~ (MaxParallel[key] > 0)
      BY <2>1, <3>2, SlotsSame, CountsForm DEF TypeOK
    <3> QED BY <3>1, <3>2
  <2>5. TypeOK'
    BY <2>1, <2>2, <2>4 DEF TypeOK, Stages, Hooks
  <2>6. PlaceInv' /\ ChargeInv'
    BY <1>1, <2>1, <2>2 DEF PlaceInv, Held, ChargeInv, Limited, TypeOK
  <2>7. HookInv'
    BY <1>1, <2>1 DEF HookInv, Working, Answered, TypeOK
  <2>8. Counts'
    BY <2>1, <2>4, ActiveSame, CountsForm
  <2>9. AnswersAreTrue'
    BY <1>1, <2>1, <2>2 DEF AnswersAreTrue, Answered, HookInv, TypeOK
  <2>10. LogAgrees' /\ BudgetHolds' /\ DueInv'
    BY <2>2, AccountsSame DEF BudgetHolds, DueInv
  <2> QED BY <2>5, <2>6, <2>7, <2>8, <2>9, <2>10
<1> QED BY <1>2, <1>3

LEMMA RouteStreamsStep ==
  ASSUME IInv, NEW r \in Requests, RouteStreams(r)
  PROVE  IInv'
<1> USE DEF IInv
<1>1. /\ gone' = gone /\ seen' = seen /\ acquired' = acquired /\ verdict' = verdict
      /\ probe' = probe /\ slots' = slots /\ inFlight' = inFlight /\ rpm' = rpm
      /\ reports' = reports /\ spend' = spend /\ daily' = daily /\ log' = log
      /\ restarts' = restarts /\ due' = due /\ pass' = pass /\ found' = found
      /\ dues' = dues /\ resets' = resets /\ wiped' = wiped /\ answer' = answer
      /\ active' = active /\ stage[r] = "route" /\ ~gone[r]
      /\ stage' = [stage EXCEPT ![r] = "stream"] /\ place' = [place EXCEPT ![r] = "reading"]
  BY DEF RouteStreams, spendVars, resetVars
<1>2. TypeOK'
  BY <1>1 DEF TypeOK, Stages
<1>3. place[r] = "held"
  BY <1>1 DEF PlaceInv, Held
<1>4. PlaceInv' /\ ChargeInv'
  BY <1>1, <1>3 DEF PlaceInv, Held, ChargeInv, Limited, TypeOK
<1>5. HookInv'
  BY <1>1 DEF HookInv, Working, Answered, TypeOK
<1>6. Counts'
  <2>1. \A x \in Requests : place'[x] \in {"held", "reading"} <=> place[x] \in {"held", "reading"}
    BY <1>1, <1>3 DEF TypeOK
  <2> QED BY <1>1, <2>1, ActiveSame, SlotsSame, CountsForm
<1>7. AnswersAreTrue'
  BY <1>1 DEF AnswersAreTrue, Answered, HookInv, TypeOK
<1>8. LogAgrees' /\ BudgetHolds' /\ DueInv'
  BY <1>1, AccountsSame DEF BudgetHolds, DueInv
<1> QED BY <1>2, <1>4, <1>5, <1>6, <1>7, <1>8

LEMMA CommitStep ==
  ASSUME IInv, NEW r \in Requests, Commit(r)
  PROVE  IInv'
<1> USE DEF IInv
<1> DEFINE key == KeyOf[r]
<1>1. /\ gone' = gone /\ seen' = seen /\ acquired' = acquired /\ verdict' = verdict
      /\ probe' = probe /\ slots' = slots /\ inFlight' = inFlight /\ rpm' = rpm
      /\ reports' = reports /\ restarts' = restarts /\ due' = due /\ pass' = pass
      /\ found' = found /\ dues' = dues /\ resets' = resets /\ wiped' = wiped
      /\ answer' = answer /\ active' = active /\ place' = place /\ stage[r] = "charge"
      /\ stage' = [stage EXCEPT ![r] = "charged"] /\ log' = [log EXCEPT ![r] = log[r] + 1]
      /\ daily' = [daily EXCEPT ![key] = daily[key] + 1]
      /\ spend' = [spend EXCEPT ![key] = spend[key] + 1]
  BY DEF Commit, Charged, Go, resetVars
<1>2. key \in Keys /\ log[r] = 0
  BY <1>1, RequestsAssumption DEF ChargeInv
<1>3. TypeOK'
  BY <1>1, <1>2 DEF TypeOK, Stages
<1>4. PlaceInv' /\ HookInv'
  BY <1>1 DEF PlaceInv, Held, HookInv, Working, Answered, TypeOK
<1>5. ChargeInv'
  BY <1>1, <1>2 DEF ChargeInv, Limited, TypeOK
<1>6. Counts'
  BY <1>1, ActiveSame, SlotsSame, CountsForm
<1>7. AnswersAreTrue'
  BY <1>1, <1>2 DEF AnswersAreTrue, Answered, HookInv, TypeOK
<1>8. BudgetHolds'
  <2> SUFFICES ASSUME NEW x \in Requests, log'[x] > 0, MaxBudget[KeyOf[x]] > 0
               PROVE  seen[x] < MaxBudget[KeyOf[x]]
    BY <1>1 DEF BudgetHolds
  <2>1. CASE x = r
    <3>1. MaxBudget[key] \in Nat /\ seen[r] \in Nat /\ ~ Limited(MaxBudget[key], seen[r])
      BY <1>1, <1>2, LimitsAssumption DEF ChargeInv, TypeOK
    <3> QED BY <2>1, <3>1 DEF Limited
  <2>2. CASE x # r
    BY <1>1, <2>2 DEF BudgetHolds, TypeOK
  <2> QED BY <2>1, <2>2
<1>9. DueInv'
  BY <1>1 DEF DueInv
<1>10. LogAgrees'
  <2>1. Logged(key)' = Logged(key) \cup {r} /\ r \notin Logged(key)
    BY <1>1, <1>2 DEF Logged, OfKey, TypeOK
  <2>2. Cardinality(Logged(key)') = Cardinality(Logged(key)) + 1
    BY <1>2, <2>1, CountedFinite, FS_AddElement
  <2>3. SUFFICES ASSUME NEW k \in Keys
                 PROVE  daily'[k] = Cardinality(Logged(k)') /\ daily'[k] = wiped'[k] + spend'[k]
    BY AccountsForm
  <2>4. daily[k] = Cardinality(Logged(k)) /\ daily[k] = wiped[k] + spend[k]
        /\ wiped[k] \in Nat /\ spend[k] \in Nat
    BY AccountsForm DEF TypeOK
  <2>5. CASE k = key
    <3>1. daily'[k] = daily[k] + 1 /\ spend'[k] = spend[k] + 1 /\ wiped'[k] = wiped[k]
      BY <1>1, <2>5 DEF TypeOK
    <3>2. Cardinality(Logged(k)') = Cardinality(Logged(k)) + 1
      BY <2>2, <2>5
    <3>3. daily'[k] = wiped'[k] + spend'[k]
      BY <2>4, <3>1
    <3>4. daily'[k] = Cardinality(Logged(k)')
      BY <2>4, <3>1, <3>2
    <3> QED BY <3>3, <3>4
  <2>6. CASE k # key
    <3>1. daily'[k] = daily[k] /\ spend'[k] = spend[k] /\ wiped'[k] = wiped[k]
      BY <1>1, <2>6 DEF TypeOK
    <3>2. Logged(k)' = Logged(k)
      BY <1>1, <2>6 DEF Logged, OfKey, TypeOK
    <3> QED BY <2>4, <3>1, <3>2
  <2> QED BY <2>5, <2>6
<1> QED BY <1>3, <1>4, <1>5, <1>6, <1>7, <1>8, <1>9, <1>10

(***************************************************************************)
(* Clients, timers, administrators, a restart.                             *)
(***************************************************************************)
LEMMA BodyEndsStep ==
  ASSUME IInv, NEW r \in Requests, BodyEnds(r) \/ Disconnect(r)
  PROVE  IInv'
<1> USE DEF IInv
<1>1. /\ stage' = stage /\ answer' = answer /\ seen' = seen /\ acquired' = acquired
      /\ verdict' = verdict /\ probe' = probe /\ slots' = slots /\ inFlight' = inFlight
      /\ rpm' = rpm /\ reports' = reports /\ spend' = spend /\ daily' = daily /\ log' = log
      /\ restarts' = restarts /\ due' = due /\ pass' = pass /\ found' = found
      /\ dues' = dues /\ resets' = resets /\ wiped' = wiped
  BY DEF BodyEnds, Disconnect, spendVars, resetVars
<1>2. Slotted' /\ LogAgrees' /\ BudgetHolds' /\ DueInv' /\ ChargeInv'
  BY <1>1, SlotsSame, CountsForm, AccountsSame DEF BudgetHolds, DueInv, ChargeInv, Limited
<1>3. HookInv'
  BY <1>1 DEF HookInv, Working, Answered
<1>4. /\ gone' = gone \/ gone' = [gone EXCEPT ![r] = TRUE]
      /\ place[r] \in {"held", "reading"}
      /\ \/ place' = [place EXCEPT ![r] = "free"] /\ active' = active - 1 /\ place[r] = "reading"
         \/ place' = place /\ active' = active /\ gone' # gone /\ place[r] = "held"
      /\ gone' = gone => stage[r] = "end"
  BY DEF BodyEnds, Disconnect, Release, TypeOK
<1>5. gone' \in [Requests -> BOOLEAN] /\ \A x \in Requests : gone[x] => gone'[x]
  BY <1>4 DEF TypeOK
<1>6. AnswersAreTrue'
  BY <1>1, <1>5 DEF AnswersAreTrue, Answered
<1>7. CASE place' = [place EXCEPT ![r] = "free"] /\ active' = active - 1 /\ place[r] = "reading"
  <2>1. active' \in Nat /\ Counts'
    BY <1>2, <1>7, ActiveOut, CountsForm
  <2>2. TypeOK'
    BY <1>1, <1>5, <1>7, <2>1 DEF TypeOK
  <2>3. PlaceInv'
    <3>1. CASE gone' = gone
      BY <1>1, <1>4, <1>7, <3>1 DEF PlaceInv, Held, TypeOK
    <3>2. CASE gone' = [gone EXCEPT ![r] = TRUE]
      BY <1>1, <1>7, <3>2 DEF PlaceInv, Held, TypeOK
    <3> QED BY <1>4, <3>1, <3>2
  <2> QED BY <1>2, <1>3, <1>6, <2>1, <2>2, <2>3
<1>8. CASE place' = place /\ active' = active /\ gone' # gone /\ place[r] = "held"
  <2>1. Counts'
    BY <1>2, <1>8, ActiveSame, CountsForm
  <2>2. TypeOK'
    BY <1>1, <1>5, <1>8 DEF TypeOK
  <2>3. PlaceInv'
    BY <1>1, <1>4, <1>8 DEF PlaceInv, Held, TypeOK
  <2> QED BY <1>2, <1>3, <1>6, <2>1, <2>2, <2>3
<1> QED BY <1>4, <1>7, <1>8

\* A step that leaves requests, slots and accounts alone.
LEMMA Quiet ==
  ASSUME IInv, UNCHANGED <<reqVars, active, probe, slots, inFlight, daily, log>>,
         \A k \in Keys : wiped'[k] + spend'[k] = wiped[k] + spend[k],
         rpm' \in [Keys -> Nat], reports' \in Nat, spend' \in [Keys -> Nat],
         due' \in [Keys -> BOOLEAN], pass' \in {"idle", "running"}, found' \subseteq Keys,
         dues' \in [Keys -> Nat], resets' \in [Keys -> Nat], wiped' \in [Keys -> Nat],
         restarts' = restarts, DueInv'
  PROVE  IInv'
<1> USE DEF IInv
<1>1. /\ stage' = stage /\ place' = place /\ gone' = gone /\ answer' = answer /\ seen' = seen
      /\ acquired' = acquired /\ verdict' = verdict /\ active' = active /\ probe' = probe
      /\ slots' = slots /\ inFlight' = inFlight /\ daily' = daily /\ log' = log
  BY DEF reqVars
<1>2. TypeOK'
  BY <1>1 DEF TypeOK
<1>3. PlaceInv' /\ HookInv' /\ ChargeInv'
  BY <1>1 DEF PlaceInv, Held, HookInv, Working, Answered, ChargeInv, Limited
<1>4. Counts'
  BY <1>1, ActiveSame, SlotsSame, CountsForm
<1>5. AnswersAreTrue' /\ BudgetHolds'
  BY <1>1 DEF AnswersAreTrue, Answered, BudgetHolds
<1>6. LogAgrees'
  BY <1>1, AccountsSame
<1> QED BY <1>2, <1>3, <1>4, <1>5, <1>6

LEMMA TimersStep ==
  ASSUME IInv, ReportEnds \/ \E k \in Keys : WindowEnds(k)
  PROVE  IInv'
<1>1. /\ UNCHANGED <<reqVars, active, probe, slots, inFlight, daily, log>>
      /\ spend' = spend /\ due' = due /\ pass' = pass /\ found' = found /\ dues' = dues
      /\ resets' = resets /\ wiped' = wiped /\ restarts' = restarts
  BY DEF ReportEnds, WindowEnds, spendVars, resetVars
<1>2. rpm' \in [Keys -> Nat] /\ reports' \in Nat
  BY DEF ReportEnds, WindowEnds, IInv, TypeOK
<1>3. DueInv'
  BY <1>1 DEF IInv, DueInv
<1> QED BY <1>1, <1>2, <1>3, Quiet DEF IInv, TypeOK

LEMMA DatesStep ==
  ASSUME IInv, NEW k \in Keys, ComesDue(k) \/ Reschedule(k)
  PROVE  IInv'
<1>1. /\ UNCHANGED <<reqVars, active, probe, slots, inFlight, daily, log>>
      /\ spend' = spend /\ rpm' = rpm /\ reports' = reports /\ pass' = pass /\ found' = found
      /\ resets' = resets /\ wiped' = wiped /\ restarts' = restarts
  BY DEF ComesDue, Reschedule, memVars, spendVars
<1>2. due' \in [Keys -> BOOLEAN] /\ dues' \in [Keys -> Nat] /\ DueInv'
  <2>1. CASE ComesDue(k)
    <3>1. due' = [due EXCEPT ![k] = TRUE] /\ dues' = [dues EXCEPT ![k] = dues[k] + 1]
      BY <2>1 DEF ComesDue
    <3>2. due' \in [Keys -> BOOLEAN] /\ dues' \in [Keys -> Nat]
      BY <3>1 DEF IInv, TypeOK
    <3>3. DueInv'
      BY <1>1, <3>1 DEF IInv, DueInv, TypeOK
    <3> QED BY <3>2, <3>3
  <2>2. CASE Reschedule(k)
    <3>1. due' = [due EXCEPT ![k] = FALSE] /\ dues' = dues
      BY <2>2 DEF Reschedule
    <3>2. due' \in [Keys -> BOOLEAN] /\ dues' \in [Keys -> Nat]
      BY <3>1 DEF IInv, TypeOK
    <3>3. DueInv'
      BY <1>1, <3>1 DEF IInv, DueInv, TypeOK
    <3> QED BY <3>2, <3>3
  <2> QED BY <2>1, <2>2
<1> QED BY <1>1, <1>2, Quiet DEF IInv, TypeOK

LEMMA PassStep ==
  ASSUME IInv, StartPass \/ EndPass
  PROVE  IInv'
<1>1. /\ UNCHANGED <<reqVars, active, probe, slots, inFlight, daily, log>>
      /\ spend' = spend /\ rpm' = rpm /\ reports' = reports /\ due' = due
      /\ dues' = dues /\ resets' = resets /\ wiped' = wiped /\ restarts' = restarts
  BY DEF StartPass, EndPass, memVars, spendVars
<1>2. /\ pass' \in {"idle", "running"}
      /\ pass' = "idle" => found' = {}
      /\ found' \subseteq {k \in Keys : due[k]}
  BY DEF StartPass, EndPass
<1>3. DueInv'
  BY <1>1, <1>2 DEF IInv, DueInv, TypeOK
<1> QED BY <1>1, <1>2, <1>3, Quiet DEF IInv, TypeOK

LEMMA ResetBudgetStep ==
  ASSUME IInv, NEW k \in Keys, ResetBudget(k)
  PROVE  IInv'
<1>1. /\ UNCHANGED <<reqVars, active, probe, slots, inFlight, daily, log>>
      /\ rpm' = rpm /\ reports' = reports /\ pass' = pass /\ dues' = dues /\ restarts' = restarts
      /\ found' = found \ {k} /\ k \in found
      /\ spend' = [spend EXCEPT ![k] = 0] /\ due' = [due EXCEPT ![k] = FALSE]
      /\ resets' = [resets EXCEPT ![k] = resets[k] + 1]
      /\ wiped' = [wiped EXCEPT ![k] = wiped[k] + spend[k]]
  BY DEF ResetBudget, memVars
<1>2. /\ spend' \in [Keys -> Nat] /\ due' \in [Keys -> BOOLEAN] /\ found' \subseteq Keys
      /\ resets' \in [Keys -> Nat] /\ wiped' \in [Keys -> Nat]
  BY <1>1 DEF IInv, TypeOK
<1>3. \A x \in Keys : wiped'[x] + spend'[x] = wiped[x] + spend[x]
  BY <1>1 DEF IInv, TypeOK
<1>4. DueInv'
  BY <1>1 DEF IInv, DueInv, TypeOK
<1> QED BY <1>1, <1>2, <1>3, <1>4, Quiet DEF IInv, TypeOK

LEMMA RestartStep ==
  ASSUME IInv, Restart
  PROVE  IInv'
<1> USE DEF IInv
<1>1. /\ answer' = answer /\ seen' = seen /\ acquired' = acquired /\ spend' = spend
      /\ daily' = daily /\ log' = log /\ due' = due /\ dues' = dues /\ resets' = resets
      /\ wiped' = wiped /\ active' = 0 /\ probe' = {} /\ slots' = {} /\ reports' = 0
      /\ inFlight' = [k \in Keys |-> 0] /\ rpm' = [k \in Keys |-> 0]
      /\ pass' = "idle" /\ found' = {} /\ restarts' = restarts + 1
  BY DEF Restart, spendVars
<1>2. /\ stage' = [r \in Requests |-> IF stage[r] = "new" THEN "new" ELSE "end"]
      /\ gone' = [r \in Requests |-> gone[r] \/ place[r] \in {"held", "reading"}]
      /\ place' = [r \in Requests |-> IF place[r] \in {"held", "reading"} THEN "free" ELSE place[r]]
      /\ verdict' = [r \in Requests |-> IF verdict[r] = "open" /\ stage[r] # "new"
                                        THEN "lost" ELSE verdict[r]]
  BY DEF Restart
<1>3. TypeOK'
  BY <1>1, <1>2 DEF TypeOK, Stages
<1>4. PlaceInv'
  BY <1>1, <1>2 DEF PlaceInv, Held, TypeOK
<1>5. HookInv' /\ ChargeInv'
  BY <1>1, <1>2 DEF HookInv, Working, Answered, ChargeInv, TypeOK
<1>6. Counts'
  <2>1. Active' = {} /\ \A k \in Keys : SlotsOf(k)' = {}
    BY <1>1, <1>2 DEF Active, SlotsOf
  <2> QED BY <1>1, <2>1, FS_EmptySet, LimitsAssumption, CountsForm DEF Slotted
<1>7. AnswersAreTrue'
  <2> SUFFICES ASSUME NEW r \in Requests
               PROVE  /\ verdict'[r] = "success" => log[r] = 1
                      /\ verdict'[r] = "failure" /\ ~ gone'[r] => log[r] = 0
                      /\ stage'[r] = "end" /\ verdict'[r] = "open" => acquired[r] = {}
                      /\ stage'[r] = "end" /\ ~ gone'[r] => answer[r] # "none"
    BY <1>1 DEF AnswersAreTrue, Answered
  <2>1. /\ stage'[r] = (IF stage[r] = "new" THEN "new" ELSE "end")
        /\ gone'[r] = (gone[r] \/ place[r] \in {"held", "reading"})
        /\ verdict'[r] = IF verdict[r] = "open" /\ stage[r] # "new" THEN "lost" ELSE verdict[r]
    BY <1>2
  <2>2. stage'[r] = "end" /\ ~ gone'[r] => answer[r] # "none"
    BY <2>1 DEF AnswersAreTrue, Answered, PlaceInv, Held, TypeOK, Stages
  <2> QED BY <2>1, <2>2 DEF AnswersAreTrue, HookInv
<1>8. LogAgrees' /\ BudgetHolds' /\ DueInv'
  BY <1>1, AccountsSame DEF BudgetHolds, DueInv, TypeOK
<1> QED BY <1>3, <1>4, <1>5, <1>6, <1>7, <1>8

(***************************************************************************)
(* Every step, and what follows.                                           *)
(***************************************************************************)
LEMMA StepIInv ==
  ASSUME IInv, [Next]_vars
  PROVE  IInv'
<1>1. CASE \E r \in Requests : Arrive(r) \/ Step(r) \/ BodyEnds(r) \/ Disconnect(r)
  <2>1. PICK r \in Requests : Arrive(r) \/ Step(r) \/ BodyEnds(r) \/ Disconnect(r)
    BY <1>1
  <2>2. CASE Arrive(r)
    BY <2>2, ArriveStep
  <2>3. CASE Step(r)
    <3>1. CASE Refuse(r)
      BY <3>1, RefuseStep
    <3>2. CASE Authenticate(r)
      BY <3>2, AuthenticateStep
    <3>3. CASE ParallelLimiter(r)
      BY <3>3, ParallelLimiterStep
    <3>4. CASE RateLimiter(r)
      BY <3>4, RateLimiterStep
    <3>5. CASE BudgetLimiter(r)
      BY <3>5, BudgetLimiterStep
    <3>6. CASE RouteFails(r)
      BY <3>6, Ends DEF RouteFails, Working
    <3>7. CASE RouteReturns(r) \/ StreamEnds(r)
      BY <3>7, RouteReturnsStep
    <3>8. CASE RouteStreams(r)
      BY <3>8, RouteStreamsStep
    <3>9. CASE StreamBreaks(r)
      BY <3>9, Ends DEF StreamBreaks, Working
    <3>10. CASE Commit(r)
      BY <3>10, CommitStep
    <3>11. CASE CommitFails(r)
      BY <3>11, Ends DEF CommitFails, Working
    <3>12. CASE Finish(r)
      BY <3>12, Ends DEF Finish, Working
    <3> QED BY <2>3, <3>1, <3>2, <3>3, <3>4, <3>5, <3>6, <3>7, <3>8, <3>9, <3>10, <3>11, <3>12
               DEF Step
  <2>4. CASE BodyEnds(r) \/ Disconnect(r)
    BY <2>4, BodyEndsStep
  <2> QED BY <2>1, <2>2, <2>3, <2>4
<1>2. CASE ProbeEnds
  BY <1>2, ProbeEndsStep
<1>3. CASE ReportEnds \/ \E k \in Keys : WindowEnds(k)
  BY <1>3, TimersStep
<1>4. CASE \E k \in Keys : ComesDue(k) \/ Reschedule(k)
  BY <1>4, DatesStep
<1>5. CASE \E k \in Keys : ResetBudget(k)
  BY <1>5, ResetBudgetStep
<1>6. CASE StartPass \/ EndPass
  BY <1>6, PassStep
<1>7. CASE Restart
  BY <1>7, RestartStep
<1>8. CASE UNCHANGED vars
  <2>1. /\ UNCHANGED <<reqVars, active, probe, slots, inFlight, daily, log>>
        /\ spend' = spend /\ rpm' = rpm /\ reports' = reports /\ due' = due /\ pass' = pass
        /\ found' = found /\ dues' = dues /\ resets' = resets /\ wiped' = wiped
        /\ restarts' = restarts
    BY <1>8 DEF vars, memVars, spendVars, resetVars
  <2>2. DueInv'
    BY <2>1 DEF IInv, DueInv
  <2> QED BY <2>1, <2>2, Quiet DEF IInv, TypeOK
<1> QED BY <1>1, <1>2, <1>3, <1>4, <1>5, <1>6, <1>7, <1>8 DEF Next

LEMMA Invariance == Spec => []IInv
<1>1. IInv /\ [Next]_vars => IInv'
  BY StepIInv
<1> QED BY InitIInv, <1>1, PTL DEF Spec

\* Neither the places of the gateway nor the slots of a key leak or are given
\* twice, whatever rejects, aborts, fails or completes a request, through
\* disconnections and restarts; and no limit is passed.
THEOREM CapacityIsExact == Spec => []CapacityExact
<1>1. IInv => CapacityExact
  <2> SUFFICES ASSUME IInv PROVE CapacityExact
    OBVIOUS
  <2>1. slots = {r \in Requests : stage[r] \in Working /\ MaxParallel[KeyOf[r]] > 0}
    BY DEF IInv, HookInv, TypeOK
  <2>2. \A r \in Requests : Answered(r) /\ gone[r] => place[r] = "free"
    BY DEF IInv, PlaceInv, TypeOK, Answered
  <2> QED BY <2>1, <2>2 DEF IInv, Counts, CapacityExact
<1> QED BY Invariance, <1>1, PTL

\* What clients and hooks are told of a request is what was recorded of it.
THEOREM AnswersStayTrue == Spec => []AnswersAreTrue
<1>1. IInv => AnswersAreTrue
  BY DEF IInv
<1> QED BY Invariance, <1>1, PTL

\* The spend log, the daily rows and the spend of the keys agree after every
\* transaction, whichever requests and resets it runs among; and however passes,
\* failures, administrators and restarts interleave, a budget is reset at most
\* once for each time it comes due, and nobody who read a spent budget is charged.
THEOREM AccountsStayInAgreement == Spec => []AccountsAgree
<1>1. IInv => ResetOncePerPeriod
  <2> SUFFICES ASSUME IInv, NEW k \in Keys
               PROVE  resets[k] + (IF due[k] THEN 1 ELSE 0) <= dues[k]
    BY DEF ResetOncePerPeriod
  <2>1. /\ resets[k] + (IF due[k] \/ k \in found THEN 1 ELSE 0) <= dues[k]
        /\ resets[k] \in Nat /\ dues[k] \in Nat
    BY DEF IInv, DueInv, TypeOK
  <2> QED BY <2>1
<1>2. IInv => AccountsAgree
  BY <1>1 DEF IInv, AccountsAgree
<1> QED BY Invariance, <1>2, PTL

(***************************************************************************)
(* How far a budget can be overshot.                                       *)
(***************************************************************************)
Uncharged == {"probe", "parallel", "rate", "budget", "route", "stream", "charge"}

\* The requests that may still be charged, having read the row in time.
Early(k) == {r \in OfKey(k) : stage[r] \in Uncharged /\ seen[r] < MaxBudget[k]}

\* Once the budget is spent, no request joins those that read it before.
OvershootInv ==
  \A k \in Keys : MaxBudget[k] > 0 /\ MaxParallel[k] > 0 /\ MaxBudget[k] <= spend[k] =>
    spend[k] + Cardinality(Early(k)) < MaxBudget[k] + MaxActive + MaxParallel[k]

\* Each of them has a place, or the slot of a stream.
LEMMA EarlyBounded ==
  ASSUME IInv, NEW k \in Keys, MaxParallel[k] > 0
  PROVE  IsFiniteSet(Early(k)) /\ Cardinality(Early(k)) <= MaxActive + MaxParallel[k]
<1>1. Early(k) \subseteq Active \cup SlotsOf(k)
  <2> SUFFICES ASSUME NEW r \in Early(k) PROVE r \in Active \/ r \in SlotsOf(k)
    OBVIOUS
  <2>1. r \in Requests /\ KeyOf[r] = k /\ stage[r] \in Uncharged
    BY DEF Early, OfKey
  <2>2. CASE stage[r] \in Held
    BY <2>1, <2>2 DEF IInv, PlaceInv, Active
  <2>3. CASE stage[r] \in {"stream", "charge"}
    BY <2>1, <2>3 DEF IInv, HookInv, Working, SlotsOf, OfKey
  <2> QED BY <2>1, <2>2, <2>3 DEF Uncharged, Held
<1>2. /\ IsFiniteSet(Active) /\ IsFiniteSet(SlotsOf(k))
      /\ Cardinality(Active) \in Nat /\ Cardinality(SlotsOf(k)) \in Nat
  <2>1. Active \subseteq Requests /\ SlotsOf(k) \subseteq Requests
    BY DEF Active, SlotsOf, OfKey
  <2> QED BY <2>1, FS_Subset, FS_CardinalityType, RequestsAssumption
<1>3. Cardinality(Active) <= MaxActive /\ Cardinality(SlotsOf(k)) <= MaxParallel[k]
  BY DEF IInv, Counts, SlotsOf
<1>4. /\ IsFiniteSet(Active \cup SlotsOf(k))
      /\ Cardinality(Active \cup SlotsOf(k)) <= Cardinality(Active) + Cardinality(SlotsOf(k))
  <2>1. IsFiniteSet(Active \cap SlotsOf(k))
    BY <1>2, FS_Intersection
  <2>2. Cardinality(Active \cap SlotsOf(k)) \in Nat
    BY <2>1, FS_CardinalityType
  <2>3. /\ IsFiniteSet(Active \cup SlotsOf(k))
        /\ Cardinality(Active \cup SlotsOf(k)) =
             Cardinality(Active) + Cardinality(SlotsOf(k)) - Cardinality(Active \cap SlotsOf(k))
    BY <1>2, FS_Union
  <2> QED BY <1>2, <2>2, <2>3
<1>5. IsFiniteSet(Early(k)) /\ Cardinality(Early(k)) <= Cardinality(Active \cup SlotsOf(k))
  BY <1>1, <1>4, FS_Subset
<1>6. /\ Cardinality(Early(k)) \in Nat /\ Cardinality(Active \cup SlotsOf(k)) \in Nat
      /\ MaxActive \in Nat /\ MaxParallel[k] \in Nat
  BY <1>4, <1>5, FS_CardinalityType, LimitsAssumption
<1> QED BY <1>2, <1>3, <1>4, <1>5, <1>6

\* What a step does to the spend of a key and to the requests that read it in time.
Spares(k) ==
  /\ spend'[k] = spend[k] \/ spend'[k] = 0
  /\ MaxBudget[k] <= spend[k] => Early(k)' \subseteq Early(k)
Charges(r, k) ==
  /\ r \in Early(k) /\ Early(k)' = Early(k) \ {r}
  /\ spend'[k] = spend[k] + 1

\* A step in which nobody goes from before the probe to after it.
LEMMA SparesStep ==
  ASSUME NEW k \in Keys, spend'[k] = spend[k] \/ spend'[k] = 0, seen' = seen,
         \A r \in Requests : stage'[r] \in Uncharged => stage[r] \in Uncharged
  PROVE  Spares(k)
BY DEF Spares, Early, OfKey

LEMMA CommitCharges ==
  ASSUME IInv, NEW k \in Keys, NEW r \in Requests, Commit(r)
  PROVE  Spares(k) \/ MaxBudget[k] = 0 \/ Charges(r, k)
<1>1. stage \in [Requests -> Stages] /\ spend \in [Keys -> Nat] /\ MaxBudget \in [Keys -> Nat]
      /\ seen \in [Requests -> Nat] /\ KeyOf[r] \in Keys
  BY RequestsAssumption, LimitsAssumption DEF IInv, TypeOK
<1>2. /\ stage[r] = "charge" /\ stage' = [stage EXCEPT ![r] = "charged"] /\ seen' = seen
      /\ spend' = [spend EXCEPT ![KeyOf[r]] = @ + 1]
  BY DEF Commit, Go, Charged
<1>3. stage'[r] = "charged" /\ \A x \in Requests \ {r} : stage'[x] = stage[x]
  BY <1>1, <1>2
<1>4. CASE KeyOf[r] # k
  <2>1. spend'[k] = spend[k]
    BY <1>1, <1>2, <1>4
  <2> QED BY <1>2, <1>3, <2>1, SparesStep DEF Uncharged
<1>5. CASE KeyOf[r] = k /\ MaxBudget[k] > 0
  <2>1. seen[r] < MaxBudget[k]
    BY <1>1, <1>2, <1>5 DEF IInv, ChargeInv, Limited
  <2>2. r \in Early(k)
    BY <1>2, <1>5, <2>1 DEF Early, OfKey, Uncharged
  <2>3. Early(k)' = Early(k) \ {r}
    BY <1>2, <1>3 DEF Early, OfKey, Uncharged
  <2>4. spend'[k] = spend[k] + 1
    BY <1>1, <1>2, <1>5
  <2> QED BY <2>2, <2>3, <2>4 DEF Charges
<1> QED BY <1>1, <1>4, <1>5

LEMMA AuthenticateSpares ==
  ASSUME IInv, NEW k \in Keys, NEW r \in Requests, Authenticate(r)
  PROVE  Spares(k)
<1>1. stage \in [Requests -> Stages] /\ seen \in [Requests -> Nat] /\ KeyOf[r] \in Keys
      /\ spend[k] \in Nat /\ MaxBudget[k] \in Nat
  BY RequestsAssumption, LimitsAssumption DEF IInv, TypeOK
<1>2. /\ stage' = [stage EXCEPT ![r] = "probe"] /\ seen' = [seen EXCEPT ![r] = spend[KeyOf[r]]]
      /\ spend' = spend
  BY DEF Authenticate, Go, spendVars
<1>3. /\ seen'[r] = spend[KeyOf[r]]
      /\ \A x \in Requests \ {r} : stage'[x] = stage[x] /\ seen'[x] = seen[x]
  BY <1>1, <1>2
<1>4. ASSUME MaxBudget[k] <= spend[k], NEW x \in Early(k)'
      PROVE  x \in Early(k)
  <2>1. x \in Requests /\ KeyOf[x] = k /\ stage'[x] \in Uncharged /\ seen'[x] < MaxBudget[k]
    BY <1>4 DEF Early, OfKey
  <2>2. x # r
    BY <1>1, <1>3, <1>4, <2>1
  <2> QED BY <1>3, <2>1, <2>2 DEF Early, OfKey
<1> QED BY <1>2, <1>4 DEF Spares

LEMMA RequestSpares ==
  ASSUME IInv, NEW k \in Keys, NEW r \in Requests,
         Arrive(r) \/ BodyEnds(r) \/ Disconnect(r) \/ (Step(r) /\ ~ Authenticate(r) /\ ~ Commit(r))
  PROVE  Spares(k)
<1>1. stage \in [Requests -> Stages]
  BY DEF IInv, TypeOK
<1>2. CASE Arrive(r) \/ BodyEnds(r) \/ Disconnect(r)
  <2>1. seen' = seen /\ spend' = spend
    BY <1>2 DEF Arrive, BodyEnds, Disconnect, spendVars
  <2>2. \/ stage' = stage \/ stage' = [stage EXCEPT ![r] = "end"]
        \/ stage' = [stage EXCEPT ![r] = "auth"]
    BY <1>2 DEF Arrive, BodyEnds, Disconnect
  <2>3. \A x \in Requests : stage'[x] \in Uncharged => stage[x] \in Uncharged
    BY <1>1, <2>2 DEF Uncharged
  <2> QED BY <2>1, <2>3, SparesStep
<1>3. CASE \/ Refuse(r) \/ RouteFails(r) \/ StreamBreaks(r) \/ CommitFails(r) \/ Finish(r)
  <2>1. seen' = seen /\ spend' = spend /\ stage' = [stage EXCEPT ![r] = "end"]
    BY <1>3 DEF Refuse, RouteFails, StreamBreaks, CommitFails, Finish, Respond, spendVars
  <2>2. \A x \in Requests : stage'[x] \in Uncharged => stage[x] \in Uncharged
    BY <1>1, <2>1 DEF Uncharged
  <2> QED BY <2>1, <2>2, SparesStep
<1>4. CASE \/ ParallelLimiter(r) \/ RateLimiter(r) \/ BudgetLimiter(r)
           \/ RouteReturns(r) \/ RouteStreams(r) \/ StreamEnds(r)
  <2>1. seen' = seen /\ spend' = spend /\ stage[r] \in Uncharged
    BY <1>4 DEF ParallelLimiter, RateLimiter, BudgetLimiter, RouteReturns, RouteStreams, StreamEnds,
       spendVars, Uncharged
  <2>2. \E t \in Stages : stage' = [stage EXCEPT ![r] = t]
    BY <1>4 DEF ParallelLimiter, RateLimiter, BudgetLimiter, RouteReturns, RouteStreams, StreamEnds,
       Pass, Reject, Respond, Go, Stages
  <2>3. \A x \in Requests : stage'[x] \in Uncharged => stage[x] \in Uncharged
    BY <1>1, <2>1, <2>2
  <2> QED BY <2>1, <2>3, SparesStep
<1> QED BY <1>2, <1>3, <1>4 DEF Step

LEMMA OthersSpare ==
  ASSUME IInv, NEW k \in Keys,
         \/ ProbeEnds \/ ReportEnds \/ StartPass \/ EndPass \/ Restart \/ UNCHANGED vars
         \/ \E x \in Keys : WindowEnds(x) \/ ComesDue(x) \/ Reschedule(x) \/ ResetBudget(x)
  PROVE  Spares(k)
<1>1. stage \in [Requests -> Stages] /\ spend \in [Keys -> Nat]
  BY DEF IInv, TypeOK
<1>2. CASE ProbeEnds
  <2>1. seen' = seen /\ spend' = spend
    BY <1>2 DEF ProbeEnds, spendVars
  <2>2. \A r \in Requests : r \in probe => stage[r] \in Uncharged
    BY DEF IInv, PlaceInv, Uncharged
  <2>3. \A r \in Requests : r \notin probe => stage'[r] = stage[r]
    BY <1>2 DEF ProbeEnds
  <2> QED BY <2>1, <2>2, <2>3, SparesStep
<1>3. CASE Restart
  <2>1. seen' = seen /\ spend' = spend /\ \A r \in Requests : stage'[r] \in {"new", "end"}
    BY <1>3 DEF Restart, spendVars
  <2> QED BY <2>1, SparesStep DEF Uncharged
<1>4. CASE \/ ReportEnds \/ StartPass \/ EndPass \/ UNCHANGED vars
           \/ \E x \in Keys : WindowEnds(x) \/ ComesDue(x) \/ Reschedule(x)
  <2>1. seen' = seen /\ spend' = spend /\ stage' = stage
    BY <1>4 DEF ReportEnds, StartPass, EndPass, WindowEnds, ComesDue, Reschedule, vars, reqVars,
       spendVars
  <2> QED BY <2>1, SparesStep
<1>5. CASE \E x \in Keys : ResetBudget(x)
  <2>1. PICK x \in Keys : ResetBudget(x)
    BY <1>5
  <2>2. seen' = seen /\ stage' = stage /\ spend' = [spend EXCEPT ![x] = 0]
    BY <2>1 DEF ResetBudget, reqVars
  <2>3. spend'[k] = spend[k] \/ spend'[k] = 0
    BY <1>1, <2>2
  <2> QED BY <2>2, <2>3, SparesStep
<1> QED BY <1>2, <1>3, <1>4, <1>5

LEMMA OvershootStep ==
  ASSUME IInv, OvershootInv, [Next]_vars
  PROVE  OvershootInv'
<1> SUFFICES ASSUME NEW k \in Keys, MaxBudget[k] > 0, MaxParallel[k] > 0,
                    MaxBudget[k] <= spend'[k]
             PROVE  spend'[k] + Cardinality(Early(k)') < MaxBudget[k] + MaxActive + MaxParallel[k]
  BY DEF OvershootInv
<1>1. /\ IsFiniteSet(Early(k)) /\ Cardinality(Early(k)) \in Nat
      /\ Cardinality(Early(k)) <= MaxActive + MaxParallel[k]
  BY EarlyBounded, FS_CardinalityType
<1>2. /\ spend[k] \in Nat /\ MaxBudget[k] \in Nat /\ MaxActive \in Nat /\ MaxParallel[k] \in Nat
  BY LimitsAssumption DEF IInv, TypeOK
<1>3. Spares(k) \/ \E r \in Requests : Charges(r, k)
  <2>1. ASSUME NEW r \in Requests, Arrive(r) \/ Step(r) \/ BodyEnds(r) \/ Disconnect(r)
        PROVE  Spares(k) \/ Charges(r, k)
    BY <1>2, <2>1, RequestSpares, AuthenticateSpares, CommitCharges
  <2> QED BY <2>1, OthersSpare DEF Next
<1>4. CASE Spares(k)
  <2>1. spend'[k] = spend[k] /\ Early(k)' \subseteq Early(k)
    BY <1>2, <1>4 DEF Spares
  <2>2. Cardinality(Early(k)') \in Nat /\ Cardinality(Early(k)') <= Cardinality(Early(k))
    BY <1>1, <2>1, FS_Subset, FS_CardinalityType
  <2>3. spend[k] + Cardinality(Early(k)) < MaxBudget[k] + MaxActive + MaxParallel[k]
    BY <2>1 DEF OvershootInv
  <2> QED BY <1>1, <1>2, <2>1, <2>2, <2>3
<1>5. ASSUME NEW r \in Requests, Charges(r, k)
      PROVE  spend'[k] + Cardinality(Early(k)') < MaxBudget[k] + MaxActive + MaxParallel[k]
  <2>1. spend'[k] = spend[k] + 1 /\ Cardinality(Early(k)') = Cardinality(Early(k)) - 1
    BY <1>1, <1>5, FS_RemoveElement DEF Charges
  <2>2. CASE MaxBudget[k] <= spend[k]
    <3>1. spend[k] + Cardinality(Early(k)) < MaxBudget[k] + MaxActive + MaxParallel[k]
      BY <2>2 DEF OvershootInv
    <3> QED BY <1>1, <1>2, <2>1, <3>1
  <2>3. CASE spend[k] < MaxBudget[k]
    BY <1>1, <1>2, <2>1, <2>3
  <2> QED BY <1>2, <2>2, <2>3
<1> QED BY <1>3, <1>4, <1>5

\* The requests that read a budget before it was spent can overshoot it together, but by
\* fewer than there are places and slots, whatever streams, leaves, fails or is reset.
THEOREM OvershootIsBounded == Spec => []OvershootBounded
<1>1. Init => OvershootInv
  <2> SUFFICES ASSUME Init, NEW k \in Keys, MaxBudget[k] > 0 PROVE ~ (MaxBudget[k] <= spend[k])
    BY DEF OvershootInv
  <2>1. spend[k] = 0 /\ MaxBudget[k] \in Nat
    BY LimitsAssumption DEF Init
  <2> QED BY <2>1
<1>2. IInv /\ IInv' /\ OvershootInv /\ [Next]_vars => OvershootInv'
  BY OvershootStep
<1>3. IInv /\ OvershootInv => OvershootBounded
  <2> SUFFICES ASSUME IInv, OvershootInv, NEW k \in Keys, MaxBudget[k] > 0, MaxParallel[k] > 0
               PROVE  spend[k] < MaxBudget[k] + MaxActive + MaxParallel[k]
    BY DEF OvershootBounded
  <2>1. Cardinality(Early(k)) \in Nat
    BY EarlyBounded, FS_CardinalityType
  <2>2. spend[k] \in Nat /\ MaxBudget[k] \in Nat /\ MaxActive \in Nat /\ MaxParallel[k] \in Nat
    BY LimitsAssumption DEF IInv, TypeOK
  <2> QED BY <2>1, <2>2 DEF OvershootInv
<1> QED BY <1>1, <1>2, <1>3, Invariance, PTL DEF Spec

(***************************************************************************)
(* The router.                                                             *)
(***************************************************************************)
Acted(p) == failures[p] < Threshold + Cardinality(Marking(p)) + missed[p]

LEMMA MarkingFinite ==
  ASSUME NEW p \in Providers
  PROVE  /\ IsFiniteSet(Marking(p)) /\ Cardinality(Marking(p)) \in Nat
         /\ IsFiniteSet(Marking(p)') /\ Cardinality(Marking(p)') \in Nat
<1>1. Marking(p) \subseteq Calls /\ Marking(p)' \subseteq Calls
  BY DEF Marking
<1> QED BY <1>1, FS_Subset, FS_CardinalityType, RouterAssumption

\* A call that moves takes itself out of those that mark a provider, or adds itself.
LEMMA MarkingMoves ==
  ASSUME upstream \in [Calls -> Upstream], NEW c \in Calls, NEW d, NEW p \in Providers,
         upstream' = [upstream EXCEPT ![c] = d]
  PROVE  /\ Cardinality(Marking(p)) <= Cardinality(Marking(p)') + 1
         /\ c \notin Marking(p) => Cardinality(Marking(p)) <= Cardinality(Marking(p)')
         /\ c \in Marking(p)' => Cardinality(Marking(p)) <= Cardinality(Marking(p)')
         /\ c \in Marking(p)' /\ c \notin Marking(p) =>
              Cardinality(Marking(p)') = Cardinality(Marking(p)) + 1
<1> DEFINE others == Marking(p) \ {c}
<1>1. others = Marking(p)' \ {c}
  BY DEF Marking, Does
<1>2. /\ IsFiniteSet(others) /\ Cardinality(others) \in Nat
      /\ Cardinality(others) = IF c \in Marking(p) THEN Cardinality(Marking(p)) - 1
                                                   ELSE Cardinality(Marking(p))
  BY MarkingFinite, FS_RemoveElement, FS_CardinalityType
<1>3. Cardinality(Marking(p)' \ {c}) = IF c \in Marking(p)' THEN Cardinality(Marking(p)') - 1
                                                            ELSE Cardinality(Marking(p)')
  BY MarkingFinite, FS_RemoveElement
<1>4. Cardinality(Marking(p)' \ {c}) = Cardinality(others)
  BY <1>1
<1>5. Cardinality(Marking(p)) \in Nat /\ Cardinality(Marking(p)') \in Nat
  BY MarkingFinite
<1> HIDE DEF others
<1> QED BY <1>2, <1>3, <1>4, <1>5

\* What a call does with one provider leaves the others as they are.
LEMMA CallStep ==
  ASSUME FailuresActedOn, NEW c \in Calls, NEW p \in Providers, NEW d \in Upstream,
         upstream' = [upstream EXCEPT ![c] = d],
         \A q \in Providers \ {p} : \A m \in Marks : ~ Does(c, m, q),
         \A q \in Providers \ {p} : failures'[q] = failures[q] /\ missed'[q] = missed[q],
         failures' \in [Providers -> Nat], missed' \in [Providers -> Nat],
         status' \in [Providers -> {"healthy", "cooldown", "disabled"}],
         over' \in [Providers -> BOOLEAN], left' \in [Calls -> SUBSET Providers],
         Acted(p)'
  PROVE  FailuresActedOn'
<1>1. upstream \in [Calls -> Upstream]
  BY DEF FailuresActedOn, RouterTypeOK
<1>2. RouterTypeOK'
  BY <1>1 DEF RouterTypeOK, Upstream, Doing, Marks, Resting
<1>3. ASSUME NEW q \in Providers, q # p
      PROVE  failures'[q] < Threshold + Cardinality(Marking(q)') + missed'[q]
  <2>1. c \notin Marking(q)
    BY <1>3 DEF Marking
  <2>2. Cardinality(Marking(q)) <= Cardinality(Marking(q)')
    BY <1>1, <2>1, MarkingMoves
  <2>3. failures[q] < Threshold + Cardinality(Marking(q)) + missed[q]
    BY DEF FailuresActedOn
  <2>4. failures[q] \in Nat /\ missed[q] \in Nat
    BY DEF FailuresActedOn, RouterTypeOK
  <2> QED BY <1>3, <2>2, <2>3, <2>4, MarkingFinite, RouterAssumption
<1> QED BY <1>2, <1>3 DEF FailuresActedOn, Acted

\* A call that waits for its provider or for nothing marks none.
LEMMA NotMarking ==
  ASSUME NEW c \in Calls, NEW p \in Providers, NEW q \in Providers, NEW m \in Marks
  PROVE  /\ upstream[c] = Resting => ~ Does(c, m, q)
         /\ Does(c, "calling", p) => ~ Does(c, m, q)
         /\ p # q => \A n \in Marks : Does(c, n, p) => ~ Does(c, m, q)
BY DEF Does, Doing, Marks, Resting

LEMMA UpstreamValues ==
  /\ Resting \in Upstream
  /\ \A p \in Providers : \A what \in {"calling"} \cup Marks : Doing(what, p) \in Upstream
BY DEF Upstream

\* A step that leaves the calls, and does not raise a count.
LEMMA IdleStep ==
  ASSUME FailuresActedOn, upstream' = upstream,
         \A p \in Providers : \/ failures'[p] = failures[p] /\ missed'[p] = missed[p]
                              \/ failures'[p] = 0,
         failures' \in [Providers -> Nat], missed' \in [Providers -> Nat],
         status' \in [Providers -> {"healthy", "cooldown", "disabled"}],
         over' \in [Providers -> BOOLEAN], left' \in [Calls -> SUBSET Providers]
  PROVE  FailuresActedOn'
<1>1. RouterTypeOK'
  BY DEF FailuresActedOn, RouterTypeOK
<1>2. \A p \in Providers : Marking(p)' = Marking(p)
  BY DEF Marking, Does
<1>3. ASSUME NEW p \in Providers
      PROVE  failures'[p] < Threshold + Cardinality(Marking(p)') + missed'[p]
  <2>1. missed'[p] \in Nat
    OBVIOUS
  <2> QED BY <1>2, <2>1, MarkingFinite, RouterAssumption DEF FailuresActedOn
<1> QED BY <1>1, <1>3 DEF FailuresActedOn

LEMMA AnswerStep ==
  ASSUME FailuresActedOn, NEW c \in Calls, NEW p \in Providers,
         Succeeds(c, p) \/ Aborts(c, p) \/ Call(c, p)
  PROVE  FailuresActedOn'
<1>1. RouterTypeOK
  BY DEF FailuresActedOn
<1>2. status' = status /\ over' = over /\ left' \in [Calls -> SUBSET Providers]
  BY <1>1 DEF Succeeds, Aborts, Call, Leave, RouterTypeOK
<1>3. upstream' = [upstream EXCEPT ![c] = Resting] \/ upstream' = [upstream EXCEPT ![c] = Doing("calling", p)]
  BY DEF Succeeds, Aborts, Call, Leave
<1>4. \A q \in Providers : \A m \in Marks : ~ Does(c, m, q)
  BY NotMarking DEF Succeeds, Aborts, Call
<1>5. CASE Succeeds(c, p)
  <2>1. failures' = [failures EXCEPT ![p] = 0] /\ missed' = [missed EXCEPT ![p] = 0]
    BY <1>5 DEF Succeeds, Clear
  <2>2. /\ failures' \in [Providers -> Nat] /\ missed' \in [Providers -> Nat] /\ failures'[p] = 0
        /\ \A q \in Providers \ {p} : failures'[q] = failures[q] /\ missed'[q] = missed[q]
    BY <1>1, <2>1 DEF RouterTypeOK
  <2>3. Acted(p)'
    BY <2>2, MarkingFinite, RouterAssumption DEF Acted
  <2> QED BY <1>1, <1>2, <1>3, <1>4, <2>2, <2>3, CallStep, UpstreamValues DEF RouterTypeOK
<1>6. CASE Aborts(c, p) \/ Call(c, p)
  <2>1. failures' = failures /\ missed' = missed
    BY <1>6 DEF Aborts, Call
  <2>2. Acted(p)'
    <3>1. c \notin Marking(p)
      BY <1>4 DEF Marking
    <3>2. Cardinality(Marking(p)) <= Cardinality(Marking(p)')
      BY <1>1, <1>3, <3>1, MarkingMoves DEF RouterTypeOK
    <3>3. failures[p] < Threshold + Cardinality(Marking(p)) + missed[p]
      BY DEF FailuresActedOn
    <3> QED BY <1>1, <2>1, <3>2, <3>3, MarkingFinite, RouterAssumption DEF Acted, RouterTypeOK
  <2> QED BY <1>1, <1>2, <1>3, <1>4, <2>1, <2>2, CallStep, UpstreamValues DEF RouterTypeOK
<1> QED BY <1>5, <1>6

LEMMA FailureStep ==
  ASSUME FailuresActedOn, NEW c \in Calls, NEW p \in Providers, NEW last \in BOOLEAN,
         Fails(c, p, last)
  PROVE  FailuresActedOn'
<1>1. RouterTypeOK /\ failures[p] \in Nat
  BY DEF FailuresActedOn, RouterTypeOK
<1>2. /\ status' = status /\ over' = over /\ missed' = missed
      /\ failures' = [failures EXCEPT ![p] = failures[p] + 1]
  BY DEF Fails
<1>3. /\ failures' \in [Providers -> Nat] /\ failures'[p] = failures[p] + 1
      /\ \A q \in Providers \ {p} : failures'[q] = failures[q]
  BY <1>1, <1>2 DEF RouterTypeOK
<1>4. \A q \in Providers : \A m \in Marks : ~ Does(c, m, q)
  BY NotMarking DEF Fails
<1>5. CASE MustMark(failures'[p])
  <2>1. PICK m \in {"marking", "markingLast"} : upstream' = [upstream EXCEPT ![c] = Doing(m, p)]
    BY <1>5 DEF Fails
  <2>2. left' = left
    BY <1>5 DEF Fails
  <2>3. upstream'[c] = Doing(m, p)
    BY <1>1, <2>1 DEF RouterTypeOK
  <2>4. Acted(p)'
    <3>1. c \in Marking(p)' /\ c \notin Marking(p)
      BY <1>4, <2>3 DEF Marking, Marks, Does
    <3>2. Cardinality(Marking(p)') = Cardinality(Marking(p)) + 1
      BY <1>1, <2>1, <3>1, MarkingMoves DEF RouterTypeOK
    <3>3. failures[p] < Threshold + Cardinality(Marking(p)) + missed[p]
      BY DEF FailuresActedOn
    <3> QED BY <1>1, <1>2, <1>3, <3>2, <3>3, MarkingFinite, RouterAssumption DEF Acted, RouterTypeOK
  <2>5. Doing(m, p) \in Upstream
    BY UpstreamValues DEF Marks
  <2> QED BY <1>1, <1>2, <1>3, <1>4, <2>1, <2>2, <2>4, <2>5, CallStep DEF RouterTypeOK
<1>6. CASE ~ MustMark(failures'[p])
  <2>1. upstream' = [upstream EXCEPT ![c] = Resting] /\ left' \in [Calls -> SUBSET Providers]
    BY <1>1, <1>6 DEF Fails, Leave, RouterTypeOK
  <2>2. Acted(p)'
    <3>1. failures'[p] < Threshold /\ missed'[p] \in Nat /\ failures'[p] \in Nat
      BY <1>1, <1>2, <1>3, <1>6, RouterAssumption DEF MustMark, RouterTypeOK
    <3> QED BY <3>1, MarkingFinite, RouterAssumption DEF Acted
  <2> QED BY <1>1, <1>2, <1>3, <1>4, <2>1, <2>2, CallStep, UpstreamValues DEF RouterTypeOK
<1> QED BY <1>5, <1>6

LEMMA MarkStep ==
  ASSUME FailuresActedOn, NEW c \in Calls, NEW p \in Providers, NEW last \in BOOLEAN,
         Mark(c, p, last) \/ Forget(c, p, last) \/ MarkFails(c, p, last)
  PROVE  FailuresActedOn'
<1>1. RouterTypeOK
  BY DEF FailuresActedOn
<1>2. PICK n \in Marks : Does(c, n, p)
  BY DEF Mark, Forget, MarkFails, Marks
<1>3. \A q \in Providers \ {p} : \A m \in Marks : ~ Does(c, m, q)
  BY <1>2, NotMarking
<1>4. CASE Mark(c, p, last)
  <2>1. /\ status' = [status EXCEPT ![p] = "cooldown"] /\ over' = [over EXCEPT ![p] = FALSE]
        /\ failures' = failures /\ missed' = missed /\ left' = left
    BY <1>4 DEF Mark
  <2>2. PICK m \in {"marked", "markedLast"} : upstream' = [upstream EXCEPT ![c] = Doing(m, p)]
    BY <1>4 DEF Mark
  <2>3. upstream'[c] = Doing(m, p)
    BY <1>1, <2>2 DEF RouterTypeOK
  <2>4. Acted(p)'
    <3>1. c \in Marking(p)'
      BY <2>3 DEF Marking, Marks, Does
    <3>2. Cardinality(Marking(p)) <= Cardinality(Marking(p)')
      BY <1>1, <2>2, <3>1, MarkingMoves DEF RouterTypeOK
    <3>3. failures[p] < Threshold + Cardinality(Marking(p)) + missed[p]
      BY DEF FailuresActedOn
    <3> QED BY <1>1, <2>1, <3>2, <3>3, MarkingFinite, RouterAssumption DEF Acted, RouterTypeOK
  <2>5. Doing(m, p) \in Upstream
    BY UpstreamValues DEF Marks
  <2>6. /\ status' \in [Providers -> {"healthy", "cooldown", "disabled"}]
        /\ over' \in [Providers -> BOOLEAN]
    BY <1>1, <2>1 DEF RouterTypeOK
  <2> QED BY <1>1, <1>3, <2>1, <2>2, <2>4, <2>5, <2>6, CallStep DEF RouterTypeOK
<1>5. CASE Forget(c, p, last) \/ MarkFails(c, p, last)
  <2>1. status' = status /\ over' = over
    BY <1>5 DEF Forget, MarkFails
  <2>2. upstream' = [upstream EXCEPT ![c] = Resting] /\ left' \in [Calls -> SUBSET Providers]
    BY <1>1, <1>5 DEF Forget, MarkFails, GoOn, Leave, RouterTypeOK
  <2>3. \/ failures' = [failures EXCEPT ![p] = 0] /\ missed' = [missed EXCEPT ![p] = 0]
        \/ failures' = failures /\ missed' = [missed EXCEPT ![p] = missed[p] + 1]
    BY <1>5 DEF Forget, MarkFails, Clear
  <2>4. /\ failures' \in [Providers -> Nat] /\ missed' \in [Providers -> Nat]
        /\ \A q \in Providers \ {p} : failures'[q] = failures[q] /\ missed'[q] = missed[q]
        /\ \/ failures'[p] = 0
           \/ failures'[p] = failures[p] /\ missed'[p] = missed[p] + 1
    <3>1. CASE failures' = [failures EXCEPT ![p] = 0] /\ missed' = [missed EXCEPT ![p] = 0]
      BY <1>1, <3>1 DEF RouterTypeOK
    <3>2. CASE failures' = failures /\ missed' = [missed EXCEPT ![p] = missed[p] + 1]
      BY <1>1, <3>2 DEF RouterTypeOK
    <3> QED BY <2>3, <3>1, <3>2
  <2>5. Acted(p)'
    <3>1. Cardinality(Marking(p)) <= Cardinality(Marking(p)') + 1
      BY <1>1, <2>2, MarkingMoves DEF RouterTypeOK
    <3>2. failures[p] < Threshold + Cardinality(Marking(p)) + missed[p]
      BY DEF FailuresActedOn
    <3>3. failures[p] \in Nat /\ missed[p] \in Nat /\ missed'[p] \in Nat
      BY <1>1, <2>4 DEF RouterTypeOK
    <3> QED BY <2>4, <3>1, <3>2, <3>3, MarkingFinite, RouterAssumption DEF Acted
  <2> QED BY <1>1, <1>3, <2>1, <2>2, <2>4, <2>5, CallStep, UpstreamValues DEF RouterTypeOK
<1> QED BY <1>4, <1>5

LEMMA RouterStep ==
  ASSUME FailuresActedOn, [RouterNext]_routerVars
  PROVE  FailuresActedOn'
<1>1. RouterTypeOK
  BY DEF FailuresActedOn
<1>2. ASSUME NEW c \in Calls, NEW p \in Providers,
             \/ Call(c, p) \/ Succeeds(c, p) \/ Aborts(c, p)
             \/ \E last \in BOOLEAN :
                  Fails(c, p, last) \/ Mark(c, p, last) \/ Forget(c, p, last) \/ MarkFails(c, p, last)
      PROVE  FailuresActedOn'
  BY <1>2, AnswerStep, FailureStep, MarkStep
<1>3. ASSUME NEW c \in Calls, Resolve(c)
      PROVE  FailuresActedOn'
  <2>1. upstream' = upstream /\ failures' = failures /\ missed' = missed /\ status' = status
        /\ over' = over /\ left' \in [Calls -> SUBSET Providers]
    BY <1>1, <1>3 DEF Resolve, RouterTypeOK
  <2> QED BY <1>1, <2>1, IdleStep DEF RouterTypeOK
<1>4. ASSUME NEW p \in Providers,
             \/ CooldownEnds(p) \/ RecoverCooldowns
             \/ \E s \in {"healthy", "disabled"} : SetStatus(p, s)
      PROVE  FailuresActedOn'
  <2>1. upstream' = upstream /\ failures' = failures /\ missed' = missed /\ left' = left
    BY <1>4 DEF CooldownEnds, RecoverCooldowns, SetStatus
  <2>2. /\ status' \in [Providers -> {"healthy", "cooldown", "disabled"}]
        /\ over' \in [Providers -> BOOLEAN]
    BY <1>1, <1>4 DEF CooldownEnds, RecoverCooldowns, SetStatus, RouterTypeOK
  <2> QED BY <1>1, <2>1, <2>2, IdleStep DEF RouterTypeOK
<1>5. ASSUME NEW p \in Providers, CountExpires(p)
      PROVE  FailuresActedOn'
  <2>1. upstream' = upstream /\ status' = status /\ over' = over /\ left' = left
        /\ failures' = [failures EXCEPT ![p] = 0] /\ missed' = [missed EXCEPT ![p] = 0]
    BY <1>5 DEF CountExpires, Clear
  <2> QED BY <1>1, <2>1, IdleStep DEF RouterTypeOK
<1>6. CASE RouterRestarts
  <2>1. /\ failures' = [p \in Providers |-> 0] /\ missed' = [p \in Providers |-> 0]
        /\ upstream' = [c \in Calls |-> Resting] /\ left' = [c \in Calls |-> {}]
        /\ status' = status /\ over' = over
    BY <1>6 DEF RouterRestarts
  <2>2. RouterTypeOK'
    BY <1>1, <2>1, UpstreamValues DEF RouterTypeOK
  <2> QED BY <2>1, <2>2, MarkingFinite, RouterAssumption DEF FailuresActedOn
<1>7. CASE UNCHANGED routerVars
  BY <1>1, <1>7, IdleStep DEF routerVars, RouterTypeOK
<1>8. CASE RecoverCooldowns
  <2>1. Providers # {}
    BY <1>1, <1>8 DEF RecoverCooldowns, RouterTypeOK
  <2> QED BY <1>4, <1>8, <2>1
<1> QED BY <1>2, <1>3, <1>4, <1>5, <1>6, <1>7, <1>8 DEF RouterNext

\* Failures of a provider with no success between them are acted on from the threshold
\* on, each by an attempt of its own, however many calls fail, succeed and mark it.
THEOREM FailuresAreActedOn == RouterSpec => []FailuresActedOn
<1>1. RouterInit => FailuresActedOn
  <2> SUFFICES ASSUME RouterInit PROVE FailuresActedOn
    OBVIOUS
  <2>1. RouterTypeOK
    BY UpstreamValues DEF RouterInit, RouterTypeOK
  <2> QED BY <2>1, MarkingFinite, RouterAssumption DEF RouterInit, FailuresActedOn
<1>2. FailuresActedOn /\ [RouterNext]_routerVars => FailuresActedOn'
  BY RouterStep
<1> QED BY <1>1, <1>2, PTL DEF RouterSpec
=============================================================================
