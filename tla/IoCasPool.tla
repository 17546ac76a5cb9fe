----------------------------- MODULE IoCasPool -----------------------------
(***************************************************************************)
(* The content-addressed store behind observations.input, for one project: *)
(* the rows that hold either the text itself (codec 0/1) or a manifest of  *)
(* chunk hashes (codec 2), the chunk pool io_cas_chunks, the writers that  *)
(* publish chunks together with the row, retention's deletions, and the    *)
(* mark-and-sweep collector with its persisted row io_cas_gc_state.        *)
(*                                                                         *)
(* Every action is one IMMEDIATE transaction of the telemetry database:    *)
(* the engine admits one writer at a time, so the statements of a          *)
(* transaction are one step, and a crash falls between two steps.  All     *)
(* variables are table columns, so a restart resumes from the same state.  *)
(*                                                                         *)
(* Ids and Hashes are numbers in the order the keyset scans use            *)
(* (ORDER BY id, ORDER BY content_hash); cursor 0 is the NULL cursor.      *)
(* An input is abstracted to the set of chunks it is sliced into: {} is a  *)
(* text that is no CAS candidate (short, null, or degraded by prepare).    *)
(***************************************************************************)
EXTENDS Keyset

CONSTANTS
  Ids,         \* observation ids
  Hashes,      \* content hashes
  Inputs,      \* the texts, each as the set of chunks it is sliced into
  RootBatch,   \* roots per mark step (CAS_GC_ROOT_BATCH)
  SweepBatch,  \* pool rows per sweep step (CAS_GC_SWEEP_BATCH)
  MaxEpoch,    \* last usable epoch (CAS_GC_MAX_EPOCH)
  FragileIds, FragileHashes   \* bound: the rows and chunks damage may hit

ASSUME IdsAssumption == Ids \subseteq Nat \ {0} /\ IsFiniteSet(Ids)
ASSUME HashesAssumption == Hashes \subseteq Nat \ {0} /\ IsFiniteSet(Hashes)
ASSUME InputsAssumption == Inputs \subseteq SUBSET Hashes /\ {} \in Inputs
ASSUME BatchAssumption == RootBatch \in Nat \ {0} /\ SweepBatch \in Nat \ {0}
ASSUME EpochAssumption == MaxEpoch \in Nat
ASSUME FragileAssumption == FragileIds \subseteq Ids /\ FragileHashes \subseteq Hashes

Candidates == Inputs \ {{}}

VARIABLES
  codec,        \* observations.input_codec, "none" where no row exists
  body,         \* observations.input: the text, or the manifest's chunk hashes
  damaged,      \* rows whose stored bytes no longer decode (text or manifest)
  pool,         \* keys of io_cas_chunks
  mark,         \* io_cas_chunks.mark_epoch
  rotten,       \* chunks whose stored payload no longer matches its hash
  epoch, phase, rootCursor, sweepCursor   \* the row of io_cas_gc_state

rows == <<codec, body, damaged>>
chunks == <<pool, mark, rotten>>
gcState == <<epoch, phase, rootCursor, sweepCursor>>
vars == <<rows, chunks, gcState>>

Phases == {"idle", "mark", "sweep", "blocked"}

Roots == {id \in Ids : codec[id] = "cas"}
Referenced == UNION {body[id] : id \in Roots}

TypeOK ==
  /\ codec \in [Ids -> {"none", "plain", "cas"}]
  /\ body \in [Ids -> Inputs]
  /\ damaged \in SUBSET Ids
  /\ pool \in SUBSET Hashes
  /\ mark \in [Hashes -> Nat]
  /\ rotten \in SUBSET Hashes
  /\ epoch \in Nat
  /\ phase \in Phases
  /\ rootCursor \in Ids \cup {0}
  /\ sweepCursor \in Hashes \cup {0}

Init ==
  /\ codec = [id \in Ids |-> "none"]
  /\ body = [id \in Ids |-> {}]
  /\ damaged = {}
  /\ pool = {}
  /\ mark = [h \in Hashes |-> 0]
  /\ rotten = {}
  /\ epoch = 0 /\ phase = "idle" /\ rootCursor = 0 /\ sweepCursor = 0

-----------------------------------------------------------------------------
(* Faulty variants of definitions below, one per property: slips this code    *)
(* could contain.  No specification uses them.                                *)

\* A barrier that trusts the scan and skips the sweep phase.
MarkReferencedInMarkOnly(hashes, present) ==
  [h \in Hashes |-> IF phase = "mark" /\ h \in hashes \cap present /\ mark[h] < epoch
                    THEN epoch ELSE mark[h]]

\* A pool hit taken for a match by its hash alone.
PublishableUnread(hashes) == hashes \subseteq Hashes

\* A full batch taken for the last one.
LastBatchAtLimit(batch) == Cardinality(batch) <= SweepBatch

\* Discovery by rows only: the pool of a project without roots is forgotten.
DiscoveredByRows == phase # "idle" \/ Roots # {}

\* A reset that resumes the sweep instead of starting over.
ClearIntoSweep ==
  /\ phase = "blocked"
  /\ phase' = "sweep" /\ rootCursor' = 0 /\ sweepCursor' = 0
  /\ UNCHANGED <<rows, chunks, epoch>>

-----------------------------------------------------------------------------
(* Writers (insert and mergeInsert of the SQLite telemetry adapter).        *)

\* The write barrier, the only code that raises mark_epoch: while a round is
\* under way the chunks in use are lifted to its epoch.  present: the pool's keys.
MarkReferenced(hashes, present) ==
  IF phase \in {"mark", "sweep"}
  THEN [h \in Hashes |-> IF h \in hashes \cap present /\ mark[h] < epoch
                         THEN epoch ELSE mark[h]]
  ELSE mark

\* A chunk already in the pool is compared with the prepared bytes; one that
\* disagrees after a reread aborts the whole transaction (IO_CAS_CORRUPT).
Publishable(hashes) == hashes \cap pool \cap rotten = {}

\* Insert what is missing (mark_epoch starts at 0), then the write barrier.
PublishCasInput(hashes) ==
  /\ Publishable(hashes)
  /\ pool' = pool \cup hashes
  /\ mark' = MarkReferenced(hashes, pool')
  /\ UNCHANGED rotten

StoreRow(id, c, text) ==
  /\ codec' = [codec EXCEPT ![id] = c]
  /\ body' = [body EXCEPT ![id] = text]
  /\ damaged' = damaged \ {id}

\* A candidate input that wins its row: the chunks and the row, one transaction.
\* (A candidate that loses the version decision touches neither.)
WriteCas(id, text) ==
  /\ text \in Candidates
  /\ PublishCasInput(text)
  /\ StoreRow(id, "cas", text)
  /\ UNCHANGED gcState

\* CAS writing off, project not allowed, or no candidate: codec 0/1, no pool access.
WritePlain(id, text) ==
  /\ StoreRow(id, "plain", text)
  /\ UNCHANGED <<chunks, gcState>>

\* Retention's chunked DELETE: rows disappear, the pool is left to the collector.
PurgeRows(S) ==
  /\ S # {} /\ \A id \in S : codec[id] # "none"
  /\ codec' = [id \in Ids |-> IF id \in S THEN "none" ELSE codec[id]]
  /\ body' = [id \in Ids |-> IF id \in S THEN {} ELSE body[id]]
  /\ damaged' = damaged \ S
  /\ UNCHANGED <<chunks, gcState>>

-----------------------------------------------------------------------------
(* The collector: one transaction per step, rereading io_cas_gc_state.      *)

\* A project is visited when its round is unfinished, or it has chunks or roots.
Discovered == phase # "idle" \/ pool # {} \/ Roots # {}

StartMarkRound ==
  /\ phase = "idle" /\ Discovered
  /\ epoch < MaxEpoch
  /\ epoch' = epoch + 1
  /\ phase' = "mark" /\ rootCursor' = 0 /\ sweepCursor' = 0
  /\ UNCHANGED <<rows, chunks>>

\* CAS_GC_EPOCH_EXHAUSTED: the epoch never wraps, the project is blocked.
EpochExhausted ==
  /\ phase = "idle" /\ Discovered
  /\ epoch >= MaxEpoch
  /\ phase' = "blocked"
  /\ UNCHANGED <<rows, chunks, epoch, rootCursor, sweepCursor>>

UnscannedRoots == {id \in Roots : id > rootCursor}

\* The next roots after the cursor; the byte budget may cut the batch short, but
\* never below one root.  One bad manifest blocks the project and marks nothing.
MarkRootBatch ==
  /\ phase = "mark" /\ UnscannedRoots # {}
  /\ \E take \in 1..RootBatch :
       LET batch == FirstOf(UnscannedRoots, take) IN
       \/ /\ batch \cap damaged # {}
          /\ phase' = "blocked"
          /\ UNCHANGED <<mark, rootCursor>>
       \/ /\ batch \cap damaged = {}
          /\ mark' = MarkReferenced(UNION {body[id] : id \in batch}, pool)
          /\ \E last \in batch : /\ \A id \in batch : id <= last
                                 /\ rootCursor' = last
          /\ UNCHANGED phase
  /\ UNCHANGED <<rows, pool, rotten, epoch, sweepCursor>>

BeginSweep ==
  /\ phase = "mark" /\ UnscannedRoots = {}
  /\ phase' = "sweep" /\ rootCursor' = 0 /\ sweepCursor' = 0
  /\ UNCHANGED <<rows, chunks, epoch>>

Stale == {h \in pool : mark[h] < epoch /\ h > sweepCursor}

LastBatch(batch) == Cardinality(batch) < SweepBatch

\* Deletes a batch of stale chunks; a short batch was the last one.
SweepChunkBatch ==
  /\ phase = "sweep"
  /\ LET batch == FirstOf(Stale, SweepBatch) IN
       /\ pool' = pool \ batch
       /\ mark' = [h \in Hashes |-> IF h \in batch THEN 0 ELSE mark[h]]
       /\ rotten' = rotten \ batch
       /\ \/ /\ LastBatch(batch)
             /\ phase' = "idle" /\ rootCursor' = 0 /\ sweepCursor' = 0
          \/ /\ ~LastBatch(batch)
             /\ \E last \in batch : /\ \A h \in batch : h <= last
                                    /\ sweepCursor' = last
             /\ UNCHANGED <<phase, rootCursor>>
  /\ UNCHANGED <<rows, epoch>>

GcStep ==
  \/ StartMarkRound \/ EpochExhausted
  \/ MarkRootBatch \/ BeginSweep
  \/ SweepChunkBatch

\* The operator's reset after repairing what blocked the project.
ClearCasGcBlocked ==
  /\ phase = "blocked"
  /\ phase' = "idle" /\ rootCursor' = 0 /\ sweepCursor' = 0
  /\ UNCHANGED <<rows, chunks, epoch>>

-----------------------------------------------------------------------------
(* Damage from outside the program: bytes on disk that no longer decode.    *)

DamageRow(id) ==
  /\ codec[id] # "none"
  /\ damaged' = damaged \cup {id}
  /\ UNCHANGED <<codec, body, chunks, gcState>>

RotChunk(h) ==
  /\ h \in pool
  /\ rotten' = rotten \cup {h}
  /\ UNCHANGED <<rows, pool, mark, gcState>>

Next ==
  \/ \E id \in Ids, text \in Inputs : WriteCas(id, text) \/ WritePlain(id, text)
  \/ \E S \in SUBSET Ids : PurgeRows(S)
  \/ GcStep
  \/ ClearCasGcBlocked
  \/ \E id \in FragileIds : DamageRow(id)
  \/ \E h \in FragileHashes : RotChunk(h)

Spec == Init /\ [][Next]_vars

\* The GC job visits every discovered project in every pass (gc-job.ts).
FairSpec == Spec /\ WF_vars(GcStep)

-----------------------------------------------------------------------------
(* Properties.                                                              *)

\* Every codec-2 row can be assembled: all chunks its manifest names are in
\* the pool, whatever the collector, the writers and retention interleave,
\* and also for rows whose manifest is damaged (their repair must still find
\* the content).  write.ts promises no committed dangling root.
NoDanglingRoot == Referenced \subseteq pool

\* Why it holds.  Mark: the roots behind the cursor carry the round's epoch.
ScannedRootsMarked ==
  phase = "mark" => \A id \in Roots : id <= rootCursor =>
                      \A h \in body[id] : mark[h] = epoch

\* Sweep: every root, scanned or written since, carries the round's epoch.
SweepSparesRoots ==
  phase = "sweep" => \A h \in Referenced : mark[h] = epoch

\* Sweep: nothing stale is left behind the sweep cursor.
SweptPrefixClean ==
  phase = "sweep" => \A h \in pool : h <= sweepCursor => mark[h] = epoch

\* Marks never run ahead of the epoch, and absent chunks carry none, so a chunk
\* inserted again after a sweep starts unmarked.
MarksBounded ==
  \A h \in Hashes : mark[h] <= epoch /\ (h \notin pool => mark[h] = 0 /\ h \notin rotten)

PoolInv ==
  /\ TypeOK
  /\ NoDanglingRoot
  /\ ScannedRootsMarked
  /\ SweepSparesRoots
  /\ SweptPrefixClean
  /\ MarksBounded

\* A finished round leaves only chunks that were in use during the round; and only
\* use protects: a step lifts a mark only for a chunk some committed row names, so
\* garbage outlives at most the round it became garbage in.
SweepIsComplete ==
  /\ [][phase = "sweep" /\ phase' = "idle" => \A h \in pool' : mark'[h] = epoch]_vars
  /\ [][\A h \in Hashes : mark'[h] > mark[h] => h \in Referenced']_vars

\* A transaction never commits a codec-2 row onto a pool chunk whose stored bytes
\* are wrong, even if the chunk was damaged after another row published it.
NoRootOntoRottenChunk ==
  [][\A id \in Roots' :
       (id \in Roots => body'[id] # body[id]) => body'[id] \cap rotten' = {}]_vars

\* What a reader can assemble from a row; {0} is no text (0 is no hash).
Hydrated(id) ==
  CASE codec[id] = "none" -> {0}
    [] codec[id] = "plain" -> body[id]
    [] codec[id] = "cas" -> body[id] \cap pool

Store == INSTANCE ObservationInputs
  WITH NoInput <- {0}, value <- [id \in Ids |-> Hydrated(id)]

\* Collection is invisible: what readers get changes only by writes and deletions.
StoreSpec == Store!Spec

\* A chunk nobody uses any more is deleted, used again, or the project is blocked.
GarbageCollected ==
  \A h \in Hashes :
    h \in pool \ Referenced ~> (h \notin pool \ Referenced \/ phase = "blocked")
=============================================================================
