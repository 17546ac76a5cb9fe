--------------------------- MODULE InMemoryQueue ---------------------------
(***************************************************************************)
(* A bounded queue of jobs in the memory of the process.  A batch is       *)
(* accepted whole or not at all; an accepted job waits, runs, is retried   *)
(* after a backoff and ends as completed or failed; the last failures are  *)
(* kept.  A worker may be stopped and replaced, the queue drained and      *)
(* closed while jobs run and timers are set.                               *)
(*                                                                         *)
(* Left out: the contents of the jobs, which every consumer gets a copy    *)
(* of, and listeners that add jobs while they are told of a failure.       *)
(***************************************************************************)
EXTENDS Lists

CONSTANTS
  Jobs, SizeOf,
  Attempts, Delayed, Backoff,   \* options of a job: attempts, delay > 0, backoff > 0
  KeepFailed,                   \* removeOnFail: 0 for true, MaxFailed when absent
  Concurrency,
  MaxJobs, MaxJobBytes, MaxFailed, MaxFailedBytes,
  MaxAdds                       \* bound of the model: how often a job is added

ASSUME JobsAssumption ==
  /\ SizeOf \in [Jobs -> Nat] /\ Attempts \in [Jobs -> Nat \ {0}]
  /\ Delayed \in [Jobs -> BOOLEAN] /\ Backoff \in [Jobs -> BOOLEAN]
  /\ KeepFailed \in [Jobs -> 0..MaxFailed]
ASSUME QueueLimitsAssumption ==
  /\ Concurrency \in Nat \ {0} /\ MaxAdds \in Nat
  /\ {MaxJobs, MaxJobBytes, MaxFailed, MaxFailedBytes} \subseteq Nat

VARIABLES
  accepted,      \* `jobs`: those that have not ended, oldest first
  waiting, timers, executing,   \* where they are: in line, delayed, `active`
  attempts,      \* attemptsMade
  acceptedBytes,
  kept, keptBytes,              \* `failed`
  running, shut,
  added, completed, failures    \* history: how often a job was accepted, ended

placeVars == <<waiting, timers, executing>>
keptVars == <<kept, keptBytes>>
historyVars == <<added, completed, failures>>
queueVars == <<accepted, placeVars, attempts, acceptedBytes, keptVars, running, shut, historyVars>>

SumOf(q) == Total(SizeOf, q)

(* processNext: the worker takes what it has room for.                      *)
ProcessNext(line, busy, on) ==
  LET room == IF on THEN Concurrency - Cardinality(busy) ELSE 0
      n == IF room <= 0 THEN 0 ELSE IF room < Len(line) THEN room ELSE Len(line) IN
  /\ executing' = busy \cup Range(SubSeq(line, 1, n))
  /\ waiting' = SubSeq(line, n + 1, Len(line))

Works == running /\ ~shut

(* finishFailure for one job: it may be kept, and pushes out the oldest     *)
(* above its own limit and above the bytes.  f is `failed` with its bytes.  *)
Pushed(f, limit) ==
  LET fits(n) == Len(f.jobs) - n <= limit /\ f.bytes - SumOf(SubSeq(f.jobs, 1, n)) <= MaxFailedBytes
  IN CHOOSE n \in 0..Len(f.jobs) : fits(n) /\ \A m \in 0..(n - 1) : ~fits(m)

Trimmed(f, limit) ==
  LET n == Pushed(f, limit)
  IN [jobs |-> SubSeq(f.jobs, n + 1, Len(f.jobs)), bytes |-> f.bytes - SumOf(SubSeq(f.jobs, 1, n))]

KeepOne(j, f) ==
  LET keeps == KeepFailed[j] > 0 /\ SizeOf[j] <= MaxFailedBytes IN
  Trimmed(IF keeps THEN [jobs |-> Append(f.jobs, j), bytes |-> f.bytes + SizeOf[j]] ELSE f,
          IF KeepFailed[j] > 0 THEN KeepFailed[j] ELSE MaxFailed)

(* The jobs of q, in this order.                                            *)
KeepEach(q, first) ==
  LET f[n \in 0..Len(q)] == IF n = 0 THEN first ELSE KeepOne(q[n], f[n - 1]) IN f[Len(q)]

EndInFailure(q) ==
  LET last == KeepEach(q, [jobs |-> kept, bytes |-> keptBytes]) IN
  /\ kept' = last.jobs /\ keptBytes' = last.bytes
  /\ failures' = [j \in Jobs |-> failures[j] + IF j \in Range(q) THEN 1 ELSE 0]

-----------------------------------------------------------------------------
(* addBulk: jobs that are there already are left alone.                     *)
Add(batch) ==
  LET new == Selected(batch, Jobs \ Range(accepted)) IN
  /\ ~shut
  /\ \A j \in Range(new) : added[j] < MaxAdds
  /\ new # <<>> => /\ Len(accepted) + Len(new) <= MaxJobs
                   /\ acceptedBytes + SumOf(new) <= MaxJobBytes
  /\ accepted' = accepted \o new
  /\ acceptedBytes' = acceptedBytes + SumOf(new)
  /\ attempts' = [j \in Jobs |-> IF j \in Range(new) THEN 0 ELSE attempts[j]]
  /\ timers' = timers \cup {j \in Range(new) : Delayed[j]}
  /\ ProcessNext(waiting \o Selected(new, {j \in Jobs : ~Delayed[j]}), executing, Works)
  /\ added' = [j \in Jobs |-> added[j] + IF j \in Range(new) THEN 1 ELSE 0]
  /\ UNCHANGED <<keptVars, running, shut, completed, failures>>

(* Faulty variant: the job is put in line, but the worker is not told.      *)
TimerForgetsWorker(j) ==
  /\ j \in timers
  /\ timers' = timers \ {j}
  /\ waiting' = Append(waiting, j)
  /\ UNCHANGED <<executing, accepted, attempts, acceptedBytes, keptVars, running, shut, historyVars>>

Timer(j) ==
  /\ j \in timers
  /\ timers' = timers \ {j}
  /\ ProcessNext(Append(waiting, j), executing, Works)
  /\ UNCHANGED <<accepted, attempts, acceptedBytes, keptVars, running, shut, historyVars>>

SetProcessor ==
  /\ ~shut
  /\ running' = TRUE
  /\ ProcessNext(waiting, executing, TRUE)
  /\ UNCHANGED <<accepted, timers, attempts, acceptedBytes, keptVars, shut, historyVars>>

(* What runs goes on; what waits stays.                                     *)
StopWorker ==
  /\ running
  /\ running' = FALSE
  /\ UNCHANGED <<accepted, placeVars, attempts, acceptedBytes, keptVars, shut, historyVars>>

ReleaseJob(j) ==
  /\ accepted' = Without(accepted, j)
  /\ acceptedBytes' = acceptedBytes - SizeOf[j]

JobSucceeds(j) ==
  /\ j \in executing
  /\ ReleaseJob(j)
  /\ completed' = [completed EXCEPT ![j] = @ + 1]
  /\ ProcessNext(waiting, executing \ {j}, Works)
  /\ UNCHANGED <<timers, attempts, keptVars, running, shut, added, failures>>

JobFails(j) ==
  LET again == ~shut /\ attempts[j] + 1 < Attempts[j] IN
  /\ j \in executing
  /\ attempts' = [attempts EXCEPT ![j] = @ + 1]
  /\ IF again
     THEN /\ timers' = IF Backoff[j] THEN timers \cup {j} ELSE timers
          /\ ProcessNext(IF Backoff[j] THEN waiting ELSE Append(waiting, j), executing \ {j}, Works)
          /\ UNCHANGED <<accepted, acceptedBytes, keptVars, failures>>
     ELSE /\ ReleaseJob(j)
          /\ EndInFailure(<<j>>)
          /\ ProcessNext(waiting, executing \ {j}, Works)
          /\ UNCHANGED timers
  /\ UNCHANGED <<running, shut, added, completed>>

-----------------------------------------------------------------------------
(* Faulty variant: the jobs that run are ended as well.                     *)
DrainEverything ==
  /\ EndInFailure(accepted)
  /\ accepted' = <<>> /\ acceptedBytes' = 0
  /\ waiting' = <<>> /\ timers' = {}

(* drain: every job that does not run ends, in the order they were added.   *)
Drain ==
  LET ended == Selected(accepted, Jobs \ executing) IN
  /\ EndInFailure(ended)
  /\ accepted' = Selected(accepted, executing)
  /\ acceptedBytes' = acceptedBytes - SumOf(ended)
  /\ waiting' = <<>> /\ timers' = {}

DrainQueue ==
  /\ accepted # <<>>
  /\ Drain
  /\ UNCHANGED <<executing, attempts, running, shut, added, completed>>

CloseQueue ==
  /\ ~shut
  /\ shut' = TRUE /\ running' = FALSE
  /\ Drain
  /\ UNCHANGED <<executing, attempts, added, completed>>

(* close() goes on when what still ran has ended.                           *)
QueueClosed ==
  /\ shut /\ executing = {} /\ kept # <<>>
  /\ kept' = <<>> /\ keptBytes' = 0
  /\ UNCHANGED <<accepted, placeVars, attempts, acceptedBytes, running, shut, historyVars>>

QueueInit ==
  /\ accepted = <<>> /\ waiting = <<>> /\ timers = {} /\ executing = {}
  /\ attempts = [j \in Jobs |-> 0] /\ acceptedBytes = 0
  /\ kept = <<>> /\ keptBytes = 0 /\ running = FALSE /\ shut = FALSE
  /\ added = [j \in Jobs |-> 0] /\ completed = [j \in Jobs |-> 0]
  /\ failures = [j \in Jobs |-> 0]

(* The same id twice in a batch is one job.                                 *)
Batches == {<<j>> : j \in Jobs} \cup {b \in Jobs \X Jobs : b[1] # b[2]}

QueueNext ==
  \/ \E batch \in Batches : Add(batch)
  \/ \E j \in Jobs : Timer(j) \/ JobSucceeds(j) \/ JobFails(j)
  \/ SetProcessor \/ StopWorker \/ DrainQueue \/ CloseQueue \/ QueueClosed

QueueSpec == QueueInit /\ [][QueueNext]_queueVars

(* Timers fire, and a processor ends in one way or the other.               *)
QueueFairness ==
  \A j \in Jobs : WF_queueVars(Timer(j)) /\ WF_queueVars(JobSucceeds(j) \/ JobFails(j))

-----------------------------------------------------------------------------
QueueTypeOK ==
  /\ {accepted, waiting, kept} \subseteq Seq(Jobs)
  /\ timers \subseteq Jobs /\ executing \subseteq Jobs
  /\ attempts \in [Jobs -> Nat] /\ acceptedBytes \in Nat /\ keptBytes \in Nat
  /\ running \in BOOLEAN /\ shut \in BOOLEAN
  /\ \A h \in {added, completed, failures} : h \in [Jobs -> Nat]

(* However adding, retrying, draining and closing interleave, an accepted   *)
(* job is in one place until it ends, and ends once; the queue counts what  *)
(* it holds and keeps its limits; no attempt is made too many; a worker     *)
(* with room leaves nobody waiting; after close only what ran is left.      *)
QueueInv ==
  /\ QueueTypeOK
  /\ IsInjective(accepted) /\ IsInjective(waiting)
  /\ Range(accepted) = Range(waiting) \cup timers \cup executing
  /\ Range(waiting) \cap timers = {} /\ (Range(waiting) \cup timers) \cap executing = {}
  /\ \A j \in Jobs :
       added[j] = completed[j] + failures[j] + IF j \in Range(accepted) THEN 1 ELSE 0
  /\ Len(accepted) <= MaxJobs /\ acceptedBytes = SumOf(accepted) /\ acceptedBytes <= MaxJobBytes
  /\ Len(kept) <= MaxFailed /\ keptBytes = SumOf(kept) /\ keptBytes <= MaxFailedBytes
  /\ Cardinality(executing) <= Concurrency
  /\ \A j \in Range(accepted) : attempts[j] < Attempts[j]
  /\ Works /\ waiting # <<>> => Cardinality(executing) = Concurrency
  /\ shut => Range(accepted) = executing

(* "Accepted jobs run or emit failure": an accepted job ends, unless there  *)
(* is no worker.                                                            *)
JobsEnd == \A j \in Jobs : j \in Range(accepted) ~> j \notin Range(accepted) \/ ~Works
=============================================================================
