-------------------------- MODULE IoCasMigration --------------------------
(***************************************************************************)
(* The jobs that re-encode existing rows beside the running server:        *)
(* backfill-v1 turns codec 0/1 rows into codec 2, expand-v1 turns them     *)
(* back.  A runner is a process of scripts/cas-migrate.mjs.  It reads a    *)
(* page of ids, plans the rows in a later read transaction, prepares them  *)
(* outside any lock and applies the batch in a third transaction together  *)
(* with the job's row of io_cas_migration_state.  Writers, retention and   *)
(* the collector of IoCasPool run between any two of these steps, a runner *)
(* may die after any of them, and nothing stops an operator from running   *)
(* two at once.                                                            *)
(*                                                                         *)
(* Left out: rate limiting, the counters, and the paging of the final      *)
(* verification (one read here).                                           *)
(***************************************************************************)
EXTENDS IoCasPool

CONSTANTS
  Runners,     \* migration processes
  JobOf,       \* the job each is started for
  BatchRows,   \* MIGRATION_BATCH_ROWS
  MaxPass      \* bound: passes an operator starts

Jobs == {"backfill", "expand"}

ASSUME RunnersAssumption == JobOf \in [Runners -> Jobs]
ASSUME MigrationBoundsAssumption == BatchRows \in Nat \ {0} /\ MaxPass \in Nat

VARIABLES
  jobRow,    \* io_cas_migration_state: status, cursor and pass per job
  run,       \* each runner's program counter, its copy of the row, and its batch
  touched    \* history: ids a job is not answerable for, see CursorCovers

migrationVars == <<jobRow, run, touched>>
allVars == <<vars, migrationVars>>

Steps == {"off", "begin", "loop", "plan", "apply", "fail", "done", "verify"}
Statuses == {"none", "running", "paused", "done", "failed"}
Off == [pc |-> "off", cursor |-> 0, pass |-> 0, ids |-> {}, planned |-> {}]

\* What planMigrationBatch keeps of a row: the columns it read (RowSnapshot).
Snapshots == [id : Ids, codec : {"none", "plain", "cas"}, body : Inputs]

MigrationTypeOK ==
  /\ TypeOK
  /\ jobRow \in [Jobs -> [status : Statuses, cursor : Ids \cup {0}, pass : 0..MaxPass]]
  /\ run \in [Runners -> [pc : Steps, cursor : Ids \cup {0}, pass : 0..MaxPass,
                          ids : SUBSET Ids, planned : SUBSET Snapshots]]
  /\ touched \in [Jobs -> SUBSET Ids]

MigrationInit ==
  /\ Init
  /\ jobRow = [job \in Jobs |-> [status |-> "none", cursor |-> 0, pass |-> 0]]
  /\ run = [r \in Runners |-> Off]
  /\ touched = [job \in Jobs |-> {}]

-----------------------------------------------------------------------------
(* Rows and snapshots.                                                      *)

\* The job predicate of the keyset scan.
IsSource(job, id) == codec[id] = IF job = "expand" THEN "cas" ELSE "plain"

\* Planning throws: text that does not decode, manifest that does not assemble.
Undecodable(job, id) ==
  /\ IsSource(job, id)
  /\ \/ id \in damaged
     \/ job = "expand" /\ ~(body[id] \subseteq pool \ rotten)

\* The rows a job can still convert.
Convertible(job, id) ==
  /\ IsSource(job, id) /\ id \notin damaged
  /\ job = "backfill" => body[id] \in Candidates

SnapshotOf(id) == [id |-> id, codec |-> codec[id], body |-> body[id]]

\* The plan produced something to write: a prepared CAS input, or the text again.
Usable(job, p) ==
  IF job = "expand" THEN p.codec = "cas" ELSE p.codec = "plain" /\ p.body \in Candidates

\* Faulty variants: a comparison by codec alone, a cursor taken from the page of ids
\* instead of the planned batch, and chunks known to the pool left unpublished.
SameCodec(p) == codec[p.id] = p.codec
EndOfPage(r) == {id \in run[r].ids : \A x \in run[r].ids : x <= id}
NewChunksOf(converted) == UNION {p.body : p \in converted} \ pool

\* The columns still hold, byte for byte, what was planned.
SameSnapshot(p) ==
  p.id \notin damaged /\ codec[p.id] = p.codec /\ body[p.id] = p.body

\* The id the cursor moves to: that of the last planned row.
EndOfBatch(r) ==
  {id \in {p.id : p \in run[r].planned} : \A p \in run[r].planned : p.id <= id}

ChunksOf(converted) == UNION {p.body : p \in converted}

-----------------------------------------------------------------------------
(* Steps of a runner.                                                       *)

Go(r, pc) == run' = [run EXCEPT ![r].pc = pc]

\* The history: ids changed under jobs, kept while a job could convert them.
Touch(jobs, ids) ==
  touched' = [job \in Jobs |->
    IF job \in jobs THEN {id \in touched[job] \cup ids : Convertible(job, id)'}
    ELSE touched[job]]

\* An immediate transaction that writes nothing but the job's row.
Persist(r, status) ==
  jobRow' = [jobRow EXCEPT ![JobOf[r]] =
               [status |-> status, cursor |-> run[r].cursor, pass |-> run[r].pass]]

\* beginMigration without --resume: no row yet, or a finished one and a new pass.
\* The operator may give a --cursor to start after.
Begin(r, cursor) ==
  LET row == jobRow[JobOf[r]] IN
  /\ run[r].pc = "off"
  /\ row.status \in {"none", "done"} /\ row.pass < MaxPass
  /\ run' = [run EXCEPT ![r] = [Off EXCEPT !.pc = "begin", !.cursor = cursor, !.pass = row.pass + 1]]
  /\ UNCHANGED <<vars, jobRow, touched>>

\* The row is written by a transaction of its own, after the check above.
WriteFirstState(r) ==
  LET job == JobOf[r] IN
  /\ run[r].pc = "begin"
  /\ Persist(r, "running") /\ Go(r, "loop")
  /\ touched' = [touched EXCEPT ![job] = {id \in Ids : id <= run[r].cursor}
                                           \cup IF jobRow[job].pass < run[r].pass THEN {} ELSE @]
  /\ UNCHANGED vars

\* --resume, from the stored cursor or from the operator's --cursor; the status
\* is neither looked at nor written.  Ids an operator jumps over are his.
Resume(r, cursor) ==
  LET job == JobOf[r]
      row == jobRow[job] IN
  /\ run[r].pc = "off" /\ row.status # "none"
  /\ run' = [run EXCEPT ![r] = [Off EXCEPT !.pc = "loop", !.cursor = cursor, !.pass = row.pass]]
  /\ touched' = [touched EXCEPT ![job] = @ \cup {id \in Ids : row.cursor < id /\ id <= cursor}]
  /\ UNCHANGED <<vars, jobRow>>

\* A stop condition, looked at between batches only.
Pause(r) ==
  /\ run[r].pc = "loop"
  /\ Persist(r, "paused") /\ run' = [run EXCEPT ![r] = Off]
  /\ UNCHANGED <<vars, touched>>

ListIds(r) ==
  LET page == FirstOf({id \in Ids : IsSource(JobOf[r], id) /\ id > run[r].cursor}, BatchRows) IN
  /\ run[r].pc = "loop"
  /\ run' = [run EXCEPT ![r].pc = IF page = {} THEN "done" ELSE "plan", ![r].ids = page]
  /\ UNCHANGED <<vars, jobRow, touched>>

\* The byte budget keeps a prefix of the page; the row it stops at was read too.
PlanRows(r) ==
  /\ run[r].pc = "plan"
  /\ \E take \in 1..Cardinality(run[r].ids) :
       IF \E id \in FirstOf(run[r].ids, take + 1) : Undecodable(JobOf[r], id)
       THEN Go(r, "fail")
       ELSE run' = [run EXCEPT ![r].pc = "apply",
                               ![r].planned = {SnapshotOf(id) : id \in FirstOf(run[r].ids, take)}]
  /\ UNCHANGED <<vars, jobRow, touched>>

\* One immediate transaction: rows that changed since the plan are skipped, the
\* others are published and rewritten, and the cursor moves with them.
ApplyBatch(r) ==
  LET job == JobOf[r]
      converted == {p \in run[r].planned : SameSnapshot(p) /\ Usable(job, p)}
      target == IF job = "expand" THEN "plain" ELSE "cas" IN
  /\ run[r].pc = "apply"
  /\ IF job = "expand" THEN UNCHANGED chunks ELSE PublishCasInput(ChunksOf(converted))
  /\ codec' = [id \in Ids |-> IF \E p \in converted : p.id = id THEN target ELSE codec[id]]
  /\ body' = [id \in Ids |-> IF \E p \in converted : p.id = id
                             THEN (CHOOSE p \in converted : p.id = id).body ELSE body[id]]
  /\ UNCHANGED <<damaged, gcState>>
  /\ \E last \in EndOfBatch(r) :
       /\ jobRow' = [jobRow EXCEPT ![job] = [status |-> "running", cursor |-> last,
                                             pass |-> run[r].pass]]
       /\ run' = [run EXCEPT ![r] = [Off EXCEPT !.pc = "loop", !.cursor = last,
                                                !.pass = run[r].pass]]
  /\ Touch(Jobs \ {job}, {p.id : p \in converted})

\* A corrupt pool chunk rolls the whole batch back.
AbortBatch(r) ==
  /\ run[r].pc = "apply" /\ JobOf[r] = "backfill"
  /\ ~Publishable(ChunksOf({p \in run[r].planned : SameSnapshot(p) /\ Usable("backfill", p)}))
  /\ Go(r, "fail")
  /\ UNCHANGED <<vars, jobRow, touched>>

RecordFailure(r) ==
  /\ run[r].pc = "fail"
  /\ Persist(r, "failed") /\ run' = [run EXCEPT ![r] = Off]
  /\ UNCHANGED <<vars, touched>>

\* The state row says done before the result is verified; --no-verify ends here.
FinishPass(r) ==
  /\ run[r].pc = "done"
  /\ Persist(r, "done")
  /\ Go(r, "verify") \/ run' = [run EXCEPT ![r] = Off]
  /\ UNCHANGED <<vars, touched>>

\* finalizeMigration: leftovers, undecodable rows or roots turn done into failed.
Verify(r) ==
  /\ run[r].pc = "verify"
  /\ IF \/ \E id \in Ids : Convertible(JobOf[r], id) \/ Undecodable(JobOf[r], id)
        \/ JobOf[r] = "backfill" /\ \E id \in Ids : Undecodable("expand", id)
     THEN Go(r, "fail")
     ELSE run' = [run EXCEPT ![r] = Off]
  /\ UNCHANGED <<vars, jobRow, touched>>

\* The process dies: what it held in memory is gone.
Crash(r) ==
  /\ run[r].pc # "off"
  /\ run' = [run EXCEPT ![r] = Off]
  /\ UNCHANGED <<vars, jobRow, touched>>

\* A step of the server: writers, retention, the collector, damage.
ServerStep ==
  /\ Next
  /\ Touch({job \in Jobs : jobRow[job].status # "none"},
           {id \in Ids : \/ codec'[id] # codec[id] \/ body'[id] # body[id]
                         \/ (id \in damaged) # (id \in damaged')})
  /\ UNCHANGED <<jobRow, run>>

RunnerStep(r) ==
  \/ \E cursor \in Ids \cup {0} : Begin(r, cursor) \/ Resume(r, cursor)
  \/ WriteFirstState(r)
  \/ Pause(r) \/ ListIds(r) \/ PlanRows(r)
  \/ ApplyBatch(r) \/ AbortBatch(r) \/ RecordFailure(r)
  \/ FinishPass(r) \/ Verify(r)
  \/ Crash(r)

MigrationNext == ServerStep \/ \E r \in Runners : RunnerStep(r)

MigrationSpec == MigrationInit /\ [][MigrationNext]_allVars

-----------------------------------------------------------------------------
(* Properties.                                                              *)

\* The collector's invariant survives the jobs: backfill publishes roots and
\* expand drops them at any point of a mark or a sweep.
MigrationPoolInv == MigrationTypeOK /\ PoolInv

\* No step of a job changes what a reader gets from any row: a row a writer
\* changed after it was planned is left to the writer, and both directions of
\* the re-encoding give back the same text.
ReencodingKeepsText ==
  [][run' # run => \A id \in Ids : Hydrated(id)' = Hydrated(id)]_allVars

\* The stored cursor never runs ahead of the work: a row at or before it that the
\* job could still convert was written, restored or re-encoded by someone else
\* since the pass began, or skipped by the operator.  So resuming from the row
\* after a crash, a pause or a failure loses nothing.
CursorCovers ==
  \A job \in Jobs, id \in Ids :
    id <= jobRow[job].cursor /\ Convertible(job, id) => id \in touched[job]
=============================================================================
