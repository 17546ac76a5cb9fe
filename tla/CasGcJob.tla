------------------------------ MODULE CasGcJob ------------------------------
(***************************************************************************)
(* The two maintenance jobs around the pool of all projects: retention,    *)
(* whose passes delete rows and then ask for a collection, and the         *)
(* collector's job, whose passes give every discovered project its steps   *)
(* within a budget (gc-job.ts, retention.ts), from the start of the        *)
(* server to its shutdown.                                                 *)
(*                                                                         *)
(* Of a project's round only its length is kept: what a step does to rows  *)
(* and chunks is IoCasPool.  Projects are numbered in the order of         *)
(* discovery (ORDER BY project_id).                                        *)
(***************************************************************************)
EXTENDS MaintenanceLoop, FiniteSets

CONSTANTS
  Projects,
  RoundSteps,           \* steps of a round, the one that starts it included
  MaxSteps,             \* CAS_GC_PASS_MAX_STEPS
  MaxStepsPerProject,   \* CAS_GC_PASS_MAX_STEPS_PER_PROJECT
  BadRoots,             \* bound: the projects in which a manifest may be bad
  BadStates,            \* bound: the projects whose state row may be invalid
  MaxErrors,            \* bound: steps and discoveries that fail and may be repeated
  MaxPurges,            \* bound: chunks of rows that retention deletes
  MaxBoots              \* bound: starts of the server

ASSUME JobAssumption ==
  /\ Projects \subseteq Nat \ {0} /\ IsFiniteSet(Projects)
  /\ BadRoots \subseteq Projects /\ BadStates \subseteq Projects
  /\ {RoundSteps, MaxSteps, MaxStepsPerProject} \subseteq Nat \ {0}
  /\ {MaxErrors, MaxPurges, MaxBoots} \subseteq Nat

JobLoops == {"retention", "gc"}

VARIABLES
  server,     \* the process: down, up, stopping (shutdown waits), closed (database)
  jobLoop,     \* [JobLoops -> LoopStates]
  activeJob,  \* gc-job.ts: requests reach the collector's loop
  pass,       \* the collector's pass: what runCasGcPass keeps in its variables
  rest,       \* io_cas_gc_state per project: steps to the end of its round, 0 is idle
  stuck,      \* projects that are blocked
  invalid,    \* projects whose state row does not parse
  rooted,     \* projects with rows that have chunks
  kept,       \* projects with garbage the round under way may spare
  doomed,     \* projects with garbage the round under way deletes
  asked,      \* history: a request since the collector's last pass began
  served,     \* history: the projects that got a step in this pass
  bounds      \* counters of the bounds

jobVars == <<server, jobLoop, activeJob, pass, rest, stuck, invalid, rooted, kept, doomed,
             asked, served, bounds>>
table == <<rest, stuck, invalid, rooted, kept, doomed>>

Passes == [at : {"none", "begun", "projects"}, todo : SUBSET Projects,
           steps : 0..MaxStepsPerProject, total : Nat, late : BOOLEAN]
NoPass == [at |-> "none", todo |-> {}, steps |-> 0, total |-> 0, late |-> FALSE]
BeginPass == [NoPass EXCEPT !.at = "begun"]

JobTypeOK ==
  /\ server \in {"down", "up", "stopping", "closed"}
  /\ jobLoop \in [JobLoops -> LoopStates]
  /\ activeJob \in BOOLEAN
  /\ pass \in Passes
  /\ rest \in [Projects -> 0..RoundSteps]
  /\ {stuck, invalid, rooted, kept, doomed, served} \subseteq SUBSET Projects
  /\ asked \in BOOLEAN
  /\ bounds \in [errors : 0..MaxErrors, purges : 0..MaxPurges, boots : 0..MaxBoots]

JobInit ==
  /\ server = "down"
  /\ jobLoop = [l \in JobLoops |-> LoopIdle]
  /\ activeJob = FALSE
  /\ pass = NoPass
  /\ rest = [p \in Projects |-> 0]
  /\ stuck = {} /\ invalid = {} /\ kept = {} /\ doomed = {}
  /\ rooted \in SUBSET Projects
  /\ asked = FALSE /\ served = {}
  /\ bounds = [errors |-> 0, purges |-> 0, boots |-> 0]

Spend(what, max) == bounds[what] < max /\ bounds' = [bounds EXCEPT ![what] = @ + 1]

-----------------------------------------------------------------------------
(* Faulty variants of definitions below, one per property: slips this code    *)
(* could contain.  No specification uses them.                                *)

\* return instead of break where the budget is exhausted.
RestAbandoned(p) == {}

\* The budget already for the first step of a project.
OverBudgetAtOnce == pass.total >= MaxSteps \/ pass.late

-----------------------------------------------------------------------------
(* The collector's pass (runCasGcPass).                                     *)

\* What the code discovers: an unfinished round, chunks, or roots.
DiscoveredProjects ==
  {p \in Projects : rest[p] > 0} \cup stuck \cup invalid \cup rooted \cup kept \cup doomed

GcPassEnds ==
  /\ pass' = NoPass
  /\ jobLoop' = [jobLoop EXCEPT !["gc"] = PassEnded(@)]

GcDiscover ==
  /\ pass.at = "begun"
  /\ pass' = [pass EXCEPT !.at = "projects", !.todo = DiscoveredProjects]
  /\ UNCHANGED <<server, jobLoop, activeJob, table, asked, served, bounds>>

\* The project at hand: projects come in the order of discovery.
AtProject(p) ==
  pass.at = "projects" /\ p \in pass.todo /\ \A q \in pass.todo : p <= q

OverBudget == pass.steps > 0 /\ (pass.total >= MaxSteps \/ pass.late)

\* What is left of the list where a project is cut off by the budget.
LeftAtBudget(p) == pass.todo \ {p}

\* A step is taken: a transaction of its own, so a stop may come during it.
MayStep(p) ==
  /\ AtProject(p) /\ ~jobLoop["gc"].stopped
  /\ pass.steps < MaxStepsPerProject /\ ~OverBudget

\* The pass after a step: on to the next project when it was the last one here.
Stepped(p, done) ==
  /\ served' = served \cup {p}
  /\ \E late \in {pass.late, TRUE} :
       pass' = [pass EXCEPT !.todo = IF done THEN @ \ {p} ELSE @,
                            !.steps = IF done THEN 0 ELSE @ + 1,
                            !.total = IF @ < MaxSteps THEN @ + 1 ELSE @,
                            !.late = late]

Sound(p) == p \notin stuck \cup invalid

\* Idle: a new round, which will delete what is garbage by now.
GcStart(p) ==
  /\ MayStep(p) /\ Sound(p) /\ rest[p] = 0
  /\ rest' = [rest EXCEPT ![p] = RoundSteps - 1]
  /\ doomed' = doomed \cup (kept \cap {p})
  /\ kept' = kept \ {p}
  /\ Stepped(p, FALSE)
  /\ UNCHANGED <<server, jobLoop, activeJob, stuck, invalid, rooted, asked, bounds>>

\* Mark or sweep; the last one ends the round.
GcAdvance(p) ==
  /\ MayStep(p) /\ Sound(p) /\ rest[p] > 0
  /\ rest' = [rest EXCEPT ![p] = rest[p] - 1]
  /\ doomed' = IF rest[p] = 1 THEN doomed \ {p} ELSE doomed
  /\ Stepped(p, rest[p] = 1)
  /\ UNCHANGED <<server, jobLoop, activeJob, stuck, invalid, rooted, kept, asked, bounds>>

\* A bad manifest blocks the project while it marks (the last step of a round
\* sweeps), or it has been blocked before.
GcBlocked(p) ==
  /\ MayStep(p) /\ p \notin invalid
  /\ p \in stuck \/ (p \in BadRoots \cap rooted /\ rest[p] > 1)
  /\ stuck' = stuck \cup {p}
  /\ Stepped(p, TRUE)
  /\ UNCHANGED <<server, jobLoop, activeJob, rest, invalid, rooted, kept, doomed, asked, bounds>>

\* A step throws and ends the pass: always where the row is invalid, once where
\* the database was busy.
GcThrows(p) ==
  /\ MayStep(p)
  /\ \/ p \in invalid /\ UNCHANGED bounds
     \/ Spend("errors", MaxErrors)
  /\ GcPassEnds
  /\ UNCHANGED <<server, activeJob, table, asked, served>>

\* So does the discovery.
GcDiscoverFails ==
  /\ pass.at = "begun" /\ Spend("errors", MaxErrors)
  /\ GcPassEnds
  /\ UNCHANGED <<server, activeJob, table, asked, served>>

\* The steps of the project or the budget are used up: on to the next one.
GcLeaveProject(p) ==
  /\ AtProject(p)
  /\ \/ /\ pass.steps >= MaxStepsPerProject
        /\ pass' = [pass EXCEPT !.todo = @ \ {p}, !.steps = 0]
     \/ /\ pass.steps < MaxStepsPerProject /\ ~jobLoop["gc"].stopped /\ OverBudget
        /\ pass' = [pass EXCEPT !.todo = LeftAtBudget(p), !.steps = 0]
  /\ UNCHANGED <<server, jobLoop, activeJob, table, asked, served, bounds>>

\* All projects done, or the signal was aborted before another step.
GcReturn ==
  /\ pass.at = "projects"
  /\ pass.todo = {} \/ (pass.steps < MaxStepsPerProject /\ jobLoop["gc"].stopped)
  /\ GcPassEnds
  /\ UNCHANGED <<server, activeJob, table, asked, served, bounds>>

GcPass ==
  \/ GcDiscover \/ GcDiscoverFails \/ GcReturn
  \/ \E p \in Projects :
       GcStart(p) \/ GcAdvance(p) \/ GcBlocked(p) \/ GcThrows(p) \/ GcLeaveProject(p)

\* The timer, or a request that finds the loop waiting, begins a pass.
Begins(l) == l["gc"].running /\ ~jobLoop["gc"].running
LoopsBecome(l) ==
  /\ jobLoop' = l
  /\ pass' = IF Begins(l) THEN BeginPass ELSE pass
  /\ served' = IF Begins(l) THEN {} ELSE served

GcTimer ==
  /\ server # "down" /\ jobLoop["gc"].timer # "none"
  /\ LoopsBecome([jobLoop EXCEPT !["gc"] = TimerFired(@)])
  /\ asked' = FALSE
  /\ UNCHANGED <<server, activeJob, table, bounds>>

-----------------------------------------------------------------------------
(* Retention (runRetentionOnce).                                            *)

RetentionTimer ==
  /\ server # "down" /\ jobLoop["retention"].timer # "none"
  /\ jobLoop' = [jobLoop EXCEPT !["retention"] = TimerFired(@)]
  /\ UNCHANGED <<server, activeJob, pass, table, asked, served, bounds>>

\* One transaction of purgeTable; the signal is checked before it.
PurgeChunk(p) ==
  /\ jobLoop["retention"].running /\ ~jobLoop["retention"].stopped
  /\ p \in rooted /\ Spend("purges", MaxPurges)
  /\ kept' = kept \cup {p}
  /\ rooted' \in {rooted, rooted \ {p}}
  /\ UNCHANGED <<server, jobLoop, activeJob, pass, rest, stuck, invalid, doomed, asked, served>>

\* The end of a retention pass, complete, failed or aborted: it asks for a
\* collection (requestCasGcPass), and the loop goes on.
RetentionEnds ==
  /\ jobLoop["retention"].running
  /\ LET ended == [jobLoop EXCEPT !["retention"] = PassEnded(@)]
         both == [ended EXCEPT !["gc"] = Requested(@)]
     IN \/ activeJob /\ LoopsBecome(both) /\ asked' = ~Begins(both)
        \/ ~activeJob /\ LoopsBecome(ended) /\ UNCHANGED asked
  /\ UNCHANGED <<server, activeJob, table, bounds>>

-----------------------------------------------------------------------------
(* The process (server/src/index.ts) and the rest of the world.             *)

\* startRetentionJob at the end of startup.
Boot ==
  /\ server = "down" /\ Spend("boots", MaxBoots)
  /\ server' = "up" /\ activeJob' = TRUE
  /\ jobLoop' = [l \in JobLoops |-> LoopStarted]
  /\ pass' = BeginPass /\ asked' = FALSE /\ served' = {}
  /\ UNCHANGED table

\* SIGTERM: both jobs are told to stop in the same step, then awaited.
ShutDown ==
  /\ server = "up"
  /\ server' = "stopping" /\ activeJob' = FALSE
  /\ jobLoop' = [l \in JobLoops |-> Stopped(jobLoop[l])]
  /\ UNCHANGED <<pass, table, asked, served, bounds>>

JobsHaveStopped == \A l \in JobLoops : ~jobLoop[l].running
CloseDatabase ==
  /\ server = "stopping" /\ JobsHaveStopped
  /\ server' = "closed"
  /\ UNCHANGED <<jobLoop, activeJob, pass, table, asked, served, bounds>>

\* The end of the process, regular or by a crash: only the tables survive.
Exit ==
  /\ server # "down"
  /\ server' = "down" /\ activeJob' = FALSE
  /\ jobLoop' = [l \in JobLoops |-> LoopIdle]
  /\ pass' = NoPass /\ asked' = FALSE /\ served' = {}
  /\ UNCHANGED <<table, bounds>>

WriteRoot(p) ==
  /\ server = "up" /\ p \notin rooted
  /\ rooted' = rooted \cup {p}
  /\ UNCHANGED <<server, jobLoop, activeJob, pass, rest, stuck, invalid, kept, doomed, asked,
                 served, bounds>>

\* clearCasGcBlocked: the round is abandoned, its garbage is for the next one.
ClearBlocked(p) ==
  /\ p \in stuck
  /\ stuck' = stuck \ {p}
  /\ rest' = [rest EXCEPT ![p] = 0]
  /\ kept' = kept \cup (doomed \cap {p}) /\ doomed' = doomed \ {p}
  /\ UNCHANGED <<server, jobLoop, activeJob, pass, invalid, rooted, asked, served, bounds>>

SpoilState(p) ==
  /\ p \in BadStates \ invalid
  /\ invalid' = invalid \cup {p}
  /\ UNCHANGED <<server, jobLoop, activeJob, pass, rest, stuck, rooted, kept, doomed, asked,
                 served, bounds>>

JobStep == GcPass \/ GcTimer \/ RetentionTimer \/ RetentionEnds
JobNext ==
  \/ JobStep
  \/ Boot \/ ShutDown \/ CloseDatabase \/ Exit
  \/ \E p \in Projects : PurgeChunk(p) \/ WriteRoot(p) \/ ClearBlocked(p) \/ SpoilState(p)

\* Timers fire and passes go on, each loop's whatever the other one does.
JobFairness ==
  /\ WF_jobVars(GcPass \/ GcTimer)
  /\ WF_jobVars(RetentionTimer \/ RetentionEnds)

JobSpec == JobInit /\ [][JobNext]_jobVars

-----------------------------------------------------------------------------
(* Properties.                                                              *)

\* A request made after a retention pass is never left to the interval: the pass
\* it asks for is due at once, or as soon as the present one has ended.
RequestsAreSoon ==
  asked /\ server = "up" =>
    \/ jobLoop["gc"].running /\ jobLoop["gc"].pending
    \/ jobLoop["gc"].timer = "soon"

\* A loop runs or waits, never both and, until it is stopped, never neither.
LoopGoesOn ==
  \A l \in JobLoops :
    /\ ~(jobLoop[l].running /\ jobLoop[l].timer # "none")
    /\ server = "up" => jobLoop[l].running \/ jobLoop[l].timer # "none"

\* Nothing is at work on the database once it is closed, and nothing will be:
\* also a retention pass that ends during the shutdown starts no collection.
NothingAfterClose ==
  server = "closed" =>
    /\ pass = NoPass
    /\ \A l \in JobLoops : ~jobLoop[l].running /\ jobLoop[l].timer = "none"

\* Why it holds: the shutdown stops all loops at once, and only then is the
\* collector out of reach of requests.
StopsTogether ==
  /\ activeJob <=> server = "up"
  /\ \A l \in JobLoops :
       /\ server = "up" => ~jobLoop[l].stopped
       /\ server \in {"stopping", "closed"} => jobLoop[l].stopped
       /\ jobLoop[l].stopped \/ server = "down" => jobLoop[l].timer = "none"
       /\ server \in {"down", "closed"} => ~jobLoop[l].running

\* The collector's pass is under way exactly while its loop runs one; the project
\* at hand has been served as soon as it has used a step.
PassInv ==
  /\ jobLoop["gc"].running <=> pass.at # "none"
  /\ pass.at = "none" => pass = NoPass
  /\ pass.at = "begun" => pass = BeginPass
  /\ \A p \in Projects : AtProject(p) /\ pass.steps > 0 => p \in served

JobInv ==
  /\ JobTypeOK
  /\ RequestsAreSoon /\ LoopGoesOn /\ NothingAfterClose
  /\ StopsTogether /\ PassInv

\* A pass that comes to its end has given each project it is through with a step,
\* however large the ones before it: budgets only cut what follows the first step.
EveryProjectServed ==
  [][pass.at = "projects" /\ pass'.at = "projects" => pass.todo \ pass'.todo \subseteq served']_jobVars

\* Garbage is collected over the passes, whatever the budgets leave undone and
\* whatever restarts come between, unless the server is down or stopping, the
\* project is blocked, or a project before it in the order of discovery has an
\* invalid state row: its step throws and no later project gets one, in any pass.
OutOfReach(p) ==
  server # "up" \/ p \in stuck \/ \E q \in invalid : q <= p
GarbageGoes ==
  \A p \in Projects :
    /\ p \in kept ~> (p \notin kept \/ OutOfReach(p))
    /\ p \in doomed ~> (p \notin doomed \/ OutOfReach(p))
=============================================================================
