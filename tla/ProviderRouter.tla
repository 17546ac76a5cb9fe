--------------------------- MODULE ProviderRouter ---------------------------
(***************************************************************************)
(* The upstream call of a gateway request: the deployments of its model    *)
(* are resolved once, ranked, and tried in turn.  A provider that fails    *)
(* Threshold times in a row is put into cooldown by an UPDATE of its row;  *)
(* a timer takes providers whose cooldown is over back.  The count of      *)
(* failures is in memory, the status in the database; an administrator may *)
(* write the status at any time, and the process may restart.              *)
(*                                                                         *)
(* The strategies rank at random or by data that is not modelled, so every *)
(* order is possible.  Each provider has one deployment of the model.      *)
(* Left out: isEnabled, budgets and credentials of providers.              *)
(***************************************************************************)
EXTENDS Naturals, FiniteSets

CONSTANTS
  Calls, Providers,
  Threshold,           \* COOLDOWN_THRESHOLD
  MaxMissed            \* bound of the model: UPDATEs in a row that fail

ASSUME RouterAssumption ==
  IsFiniteSet(Calls) /\ Threshold \in Nat \ {0} /\ MaxMissed \in Nat

VARIABLES
  status,      \* provider.status
  over,        \* cooldownUntil has passed
  failures,    \* failureCounts
  left,        \* the candidates a call has not tried
  upstream,    \* what it does with which provider
  missed       \* history: UPDATEs that failed since the count was last cleared

routerVars == <<status, over, failures, left, upstream, missed>>

Resting == [doing |-> "nothing"]
Doing(what, p) == [doing |-> what, with |-> p]
Does(c, what, p) == upstream[c] = Doing(what, p)
Marks == {"marking", "markingLast", "marked", "markedLast"}
Marking(p) == {c \in Calls : \E m \in Marks : Does(c, m, p)}

(* resolveModel: neither disabled nor in a cooldown that is not over.       *)
Available(p) == status[p] = "healthy" \/ (status[p] = "cooldown" /\ over[p])

Resolve(c) ==
  /\ upstream[c] = Resting /\ left[c] = {}
  /\ left' = [left EXCEPT ![c] = {p \in Providers : Available(p)}]
  /\ UNCHANGED <<status, over, failures, upstream, missed>>

Call(c, p) ==
  /\ upstream[c] = Resting /\ p \in left[c]
  /\ upstream' = [upstream EXCEPT ![c] = Doing("calling", p)]
  /\ left' = [left EXCEPT ![c] = @ \ {p}]
  /\ UNCHANGED <<status, over, failures, missed>>

Leave(c) ==
  /\ upstream' = [upstream EXCEPT ![c] = Resting]
  /\ left' = [left EXCEPT ![c] = {}]

Clear(p) ==
  /\ failures' = [failures EXCEPT ![p] = 0]
  /\ missed' = [missed EXCEPT ![p] = 0]

Succeeds(c, p) ==
  /\ Does(c, "calling", p)
  /\ Clear(p)
  /\ Leave(c)
  /\ UNCHANGED <<status, over>>

(* The request was aborted: nothing is recorded.                            *)
Aborts(c, p) ==
  /\ Does(c, "calling", p)
  /\ Leave(c)
  /\ UNCHANGED <<status, over, failures, missed>>

(* Faulty variant: only the failure that reaches the threshold marks.       *)
AtThreshold(count) == count = Threshold

(* recordFailure counts, and marks from the threshold on.  The next         *)
(* candidate is tried unless the error is the client's (4xx).               *)
MustMark(count) == count >= Threshold

Fails(c, p, last) ==
  /\ Does(c, "calling", p)
  /\ missed[p] <= MaxMissed
  /\ failures' = [failures EXCEPT ![p] = @ + 1]
  /\ IF MustMark(failures'[p])
     THEN /\ upstream' = [upstream EXCEPT
                            ![c] = Doing(IF last THEN "markingLast" ELSE "marking", p)]
          /\ UNCHANGED left
     ELSE IF last THEN Leave(c)
     ELSE upstream' = [upstream EXCEPT ![c] = Resting] /\ UNCHANGED left
  /\ UNCHANGED <<status, over, missed>>

GoOn(c, last) ==
  IF last THEN Leave(c)
  ELSE upstream' = [upstream EXCEPT ![c] = Resting] /\ UNCHANGED left

(* The UPDATE is by id: it does not look at the status it replaces.         *)
Mark(c, p, last) ==
  /\ Does(c, IF last THEN "markingLast" ELSE "marking", p)
  /\ status' = [status EXCEPT ![p] = "cooldown"]
  /\ over' = [over EXCEPT ![p] = FALSE]
  /\ upstream' = [upstream EXCEPT ![c] = Doing(IF last THEN "markedLast" ELSE "marked", p)]
  /\ UNCHANGED <<failures, left, missed>>

Forget(c, p, last) ==
  /\ Does(c, IF last THEN "markedLast" ELSE "marked", p)
  /\ Clear(p)
  /\ GoOn(c, last)
  /\ UNCHANGED <<status, over>>

(* The UPDATE fails, which is ignored: the count stays.                     *)
MarkFails(c, p, last) ==
  /\ Does(c, IF last THEN "markingLast" ELSE "marking", p)
  /\ missed' = [missed EXCEPT ![p] = @ + 1]
  /\ GoOn(c, last)
  /\ UNCHANGED <<status, over, failures>>

CooldownEnds(p) ==
  /\ status[p] = "cooldown" /\ ~over[p]
  /\ over' = [over EXCEPT ![p] = TRUE]
  /\ UNCHANGED <<status, failures, left, upstream, missed>>

RecoverCooldowns ==
  /\ status' = [p \in Providers |-> IF status[p] = "cooldown" /\ over[p]
                                    THEN "healthy" ELSE status[p]]
  /\ status' # status
  /\ UNCHANGED <<over, failures, left, upstream, missed>>

(* PUT /admin/providers/:id.                                                *)
SetStatus(p, s) ==
  /\ status[p] # s
  /\ status' = [status EXCEPT ![p] = s]
  /\ UNCHANGED <<over, failures, left, upstream, missed>>

(* The entry of the bounded map expires or makes room for another.          *)
CountExpires(p) ==
  /\ failures[p] > 0
  /\ Clear(p)
  /\ UNCHANGED <<status, over, left, upstream>>

RouterRestarts ==
  /\ failures' = [p \in Providers |-> 0] /\ missed' = [p \in Providers |-> 0]
  /\ upstream' = [c \in Calls |-> Resting] /\ left' = [c \in Calls |-> {}]
  /\ UNCHANGED <<status, over>>

RouterInit ==
  /\ status = [p \in Providers |-> "healthy"] /\ over = [p \in Providers |-> FALSE]
  /\ failures = [p \in Providers |-> 0] /\ missed = [p \in Providers |-> 0]
  /\ upstream = [c \in Calls |-> Resting] /\ left = [c \in Calls |-> {}]

RouterNext ==
  \/ \E c \in Calls :
       \/ Resolve(c)
       \/ \E p \in Providers :
            \/ Call(c, p) \/ Succeeds(c, p) \/ Aborts(c, p)
            \/ \E last \in BOOLEAN :
                 Fails(c, p, last) \/ Mark(c, p, last) \/ Forget(c, p, last) \/ MarkFails(c, p, last)
  \/ \E p \in Providers :
       \/ CooldownEnds(p) \/ CountExpires(p)
       \/ \E s \in {"healthy", "disabled"} : SetStatus(p, s)
  \/ RecoverCooldowns \/ RouterRestarts

RouterSpec == RouterInit /\ [][RouterNext]_routerVars

-----------------------------------------------------------------------------
Upstream ==
  {Resting} \cup {Doing(what, p) : what \in {"calling"} \cup Marks, p \in Providers}

RouterTypeOK ==
  /\ status \in [Providers -> {"healthy", "cooldown", "disabled"}]
  /\ over \in [Providers -> BOOLEAN]
  /\ failures \in [Providers -> Nat] /\ missed \in [Providers -> Nat]
  /\ left \in [Calls -> SUBSET Providers]
  /\ upstream \in [Calls -> Upstream]

(* Failures in a row are acted on one for one, though calls fail, succeed   *)
(* and mark at the same time: of each failure from the threshold on either  *)
(* a call is marking the provider, or its UPDATE has failed; and one that   *)
(* failed does not keep the next failure from another attempt.              *)
FailuresActedOn ==
  /\ RouterTypeOK
  /\ \A p \in Providers : failures[p] < Threshold + Cardinality(Marking(p)) + missed[p]

(* resolveModel says that it filters out disabled providers: one that an    *)
(* administrator has disabled stays so until an administrator enables it.   *)
DisabledStaysDisabled ==
  [][\A p \in Providers :
       status[p] = "disabled" /\ status'[p] # "disabled" => SetStatus(p, "healthy")]_routerVars
=============================================================================
