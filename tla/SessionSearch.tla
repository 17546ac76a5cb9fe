--------------------------- MODULE SessionSearch ---------------------------
(***************************************************************************)
(* The text index over the traces and observations of one project.  The    *)
(* transaction that changes a source queues it in search_dirty under a new *)
(* revision; indexers (a worker thread per server process) list queued     *)
(* sources, read each from a snapshot, and replace its occurrences in a    *)
(* transaction that is void if the revision moved.  Rows older than the    *)
(* index are queued once, by two cursors over rowids.                      *)
(*                                                                         *)
(* A text is the set of chunks extracted from it: {} is a row with nothing *)
(* to index, a deleted one included.  Sources are numbered in the order of *)
(* their rowids; one that is inserted later may be anywhere, its writer    *)
(* queues it.                                                              *)
(*                                                                         *)
(* Left out: how text is extracted, chunked and matched, and the number of *)
(* attempts (the backoff only grows).                                      *)
(***************************************************************************)
EXTENDS Keyset

CONSTANTS
  Traces, Observations,   \* the sources, by rowid
  Chunks,                 \* chunks of text, by content hash and number
  Texts, TooLarge,        \* what a source may hold; texts over the size budget
  Indexers,               \* session-search workers
  BackfillPage, DirtyPage,
  FragileSources,         \* sources whose processing may fail
  DecayingSources,        \* sources whose stored bytes may stop to decode
  MaxRevision,            \* bound: writes to one source
  MaxRestarts             \* bound: restarts of workers

Sources == Traces \cup Observations

ASSUME SourcesAssumption ==
  Sources \subseteq Nat \ {0} /\ IsFiniteSet(Sources) /\ Traces \cap Observations = {}
ASSUME TextsAssumption ==
  Texts \subseteq SUBSET Chunks /\ {} \in Texts /\ TooLarge \subseteq Texts \ {{}}
ASSUME SearchPagesAssumption == BackfillPage \in Nat \ {0} /\ DirtyPage \in Nat \ {0}
ASSUME SearchBoundsAssumption ==
  /\ FragileSources \subseteq Sources /\ DecayingSources \subseteq Sources
  /\ MaxRevision \in Nat /\ MaxRestarts \in Nat

VARIABLES
  rows, text, damaged,       \* the sources that exist, their text, undecodable ones
  revision,                  \* search_source_revisions (0: no row)
  queued, retry,             \* search_dirty: revision (0: no row) and when to try
  occurrences, version,      \* search_occurrences: chunks and source_version
  texts,                     \* search_texts (with their trigrams)
  index,                     \* search_index_state of the project
  backfill,                  \* search_index_state of '__backfill__'
  worker, restarts           \* the indexers

source == <<rows, text, damaged>>
queue == <<queued, retry>>
projection == <<occurrences, version, texts>>
vars == <<source, revision, queue, projection, index, backfill, worker, restarts>>

Dirty == {s \in Sources : queued[s] # 0}
Ready == {s \in Dirty : retry[s] = "now"}

Jobs == [id : Sources, revision : Nat]
Steps == {"check", "enqueue", "list", "next", "read", "index", "failed", "limit"}
Workers == [pc : Steps, batch : SUBSET Jobs, any : BOOLEAN, id : Sources \cup {0},
            revision : Nat, text : SUBSET Chunks]
FreshWorker == [pc |-> "check", batch |-> {}, any |-> FALSE, id |-> 0, revision |-> 0, text |-> {}]

TypeOK ==
  /\ rows \in SUBSET Sources
  /\ text \in [Sources -> Texts]
  /\ damaged \in SUBSET Sources
  /\ revision \in [Sources -> Nat]
  /\ queued \in [Sources -> Nat]
  /\ retry \in [Sources -> {"now", "soon", "later"}]
  /\ occurrences \in [Sources -> SUBSET Chunks]
  /\ version \in [Sources -> Nat]
  /\ texts \in SUBSET Chunks
  /\ index \in [known : BOOLEAN, coverage : {"new", "error", "limited"},
                pending : Nat, error : BOOLEAN]
  /\ backfill \in [coverage : {"none", "backfill", "ready"},
                   traceCursor : Sources \cup {0}, observationCursor : Sources \cup {0}]
  /\ worker \in [Indexers -> Workers]
  /\ restarts \in Nat

Init ==
  /\ rows \in SUBSET Sources
  /\ text \in {t \in [Sources -> Texts] : \A s \in Sources \ rows : t[s] = {}}
  /\ damaged = {}
  /\ revision = [s \in Sources |-> 0]
  /\ queued = [s \in Sources |-> 0] /\ retry = [s \in Sources |-> "now"]
  /\ occurrences = [s \in Sources |-> {}] /\ version = [s \in Sources |-> 0]
  /\ texts = {}
  /\ index = [known |-> FALSE, coverage |-> "new", pending |-> 0, error |-> FALSE]
  /\ backfill = [coverage |-> "none", traceCursor |-> 0, observationCursor |-> 0]
  /\ worker = [i \in Indexers |-> FreshWorker]
  /\ restarts = 0

-----------------------------------------------------------------------------
(* Faulty variants of definitions below, one per property: slips this code    *)
(* could contain.  No specification uses them.                                *)

\* Indexing whatever was read, however old.
NeverSuperseded(s, v) == FALSE

\* Letting delayed retries hold back the history.
AnyWork == Dirty # {}

-----------------------------------------------------------------------------
(* Writers.                                                                 *)

\* A change queues the source under a new revision, for now, whatever an earlier
\* attempt had put off.
MarkDirty(S) ==
  /\ revision' = [s \in Sources |-> IF s \in S THEN revision[s] + 1 ELSE revision[s]]
  /\ queued' = [s \in Sources |-> IF s \in S THEN revision[s] + 1 ELSE queued[s]]
  /\ retry' = [s \in Sources |-> IF s \in S THEN "now" ELSE retry[s]]
  /\ index' = [index EXCEPT !.known = @ \/ S \ Dirty # {},
                            !.pending = @ + Cardinality(S \ Dirty)]

\* Insert, update or soft deletion of a source, and its marker, in one transaction.
Write(s, c) ==
  /\ revision[s] < MaxRevision
  /\ rows' = rows \cup {s}
  /\ text' = [text EXCEPT ![s] = c]
  /\ damaged' = damaged \ {s}
  /\ MarkDirty({s})
  /\ UNCHANGED <<projection, backfill, worker, restarts>>

\* DELETE by a client or by retention.
Delete(s) ==
  /\ s \in rows /\ revision[s] < MaxRevision
  /\ rows' = rows \ {s}
  /\ text' = [text EXCEPT ![s] = {}]
  /\ damaged' = damaged \ {s}
  /\ MarkDirty({s})
  /\ UNCHANGED <<projection, backfill, worker, restarts>>

\* Stored bytes that no longer decode.
Damage(s) ==
  /\ s \in rows
  /\ damaged' = damaged \cup {s}
  /\ UNCHANGED <<rows, text, revision, queue, projection, index, backfill, worker, restarts>>

\* The time a failed source has to wait is over.
Due(s) ==
  /\ retry[s] = "soon"
  /\ retry' = [retry EXCEPT ![s] = "now"]
  /\ UNCHANGED <<source, revision, queued, projection, index, backfill, worker, restarts>>

-----------------------------------------------------------------------------
(* One tick of an indexer: the history first, then a batch of the queue.    *)

Go(i, pc) == worker' = [worker EXCEPT ![i].pc = pc]
Job(i) == [id |-> worker[i].id, revision |-> worker[i].revision]

ReadyWork == Ready # {}

\* The history waits for ready work, and is over once it is covered.  A failed
\* source waits longer than a tick takes: it is not due before the next check.
CheckBackfill(i) ==
  /\ worker[i].pc = "check"
  /\ Go(i, IF backfill.coverage = "ready" \/ ReadyWork THEN "list" ELSE "enqueue")
  /\ retry' = [s \in Sources |-> IF retry[s] = "later" THEN "soon" ELSE retry[s]]
  /\ UNCHANGED <<source, revision, queued, projection, index, backfill, restarts>>

HistoryDone(traces, observations) == traces = {} /\ observations = {}

\* Where a page leaves the cursor: at its last row, if it has one.
EndOf(page, cursor) ==
  IF page = {} THEN {cursor} ELSE {s \in page : \A x \in page : x <= s}

\* A page of traces, filled up with observations; both cursors move with the queue.
EnqueueBackfill(i) ==
  LET traces == FirstOf({s \in rows \cap Traces : s > backfill.traceCursor}, BackfillPage)
      observations == FirstOf({s \in rows \cap Observations : s > backfill.observationCursor},
                              BackfillPage - Cardinality(traces)) IN
  /\ worker[i].pc = "enqueue"
  /\ MarkDirty(traces \cup observations)
  /\ \E t \in EndOf(traces, backfill.traceCursor),
        o \in EndOf(observations, backfill.observationCursor) :
       backfill' = [coverage |-> IF HistoryDone(traces, observations) THEN "ready" ELSE "backfill",
                    traceCursor |-> t, observationCursor |-> o]
  /\ Go(i, "list")
  /\ UNCHANGED <<source, projection, restarts>>

\* The sources that are due, the least often changed first.
ListDirty(i) ==
  /\ worker[i].pc = "list"
  /\ \E S \in SUBSET Ready :
       /\ Cardinality(S) <= DirtyPage
       /\ S # Ready => Cardinality(S) = DirtyPage
       /\ \A s \in S, x \in Ready \ S : queued[s] <= queued[x]
       /\ worker' = [worker EXCEPT ![i].pc = "next", ![i].any = FALSE,
                       ![i].batch = {[id |-> s, revision |-> queued[s]] : s \in S}]
  /\ UNCHANGED <<source, revision, queue, projection, index, backfill, restarts>>

\* The next source of the batch and its size.  One over the budget of a batch is
\* given up; one over what is left of it ends the batch, unless it is the first.
TakeNext(i) ==
  /\ worker[i].pc = "next"
  /\ \/ \E job \in worker[i].batch :
          /\ \A other \in worker[i].batch : job.revision <= other.revision
          /\ worker' = [worker EXCEPT ![i] =
               [worker[i] EXCEPT !.pc = IF text[job.id] \in TooLarge THEN "limit" ELSE "read",
                                 !.batch = @ \ {job}, !.id = job.id, !.revision = job.revision]]
     \/ /\ worker[i].batch = {} \/ worker[i].any
        /\ worker' = [worker EXCEPT ![i] = FreshWorker]
  /\ UNCHANGED <<source, revision, queue, projection, index, backfill, restarts>>

\* Row and chunks from one snapshot; what does not decode is given up.
ReadSource(i) ==
  LET s == worker[i].id IN
  /\ worker[i].pc = "read"
  /\ IF s \in damaged THEN Go(i, "limit")
     ELSE worker' = [worker EXCEPT ![i].pc = "index", ![i].text = text[s]]
  /\ UNCHANGED <<source, revision, queue, projection, index, backfill, restarts>>

Processed(i, any) ==
  worker' = [worker EXCEPT ![i] =
    [worker[i] EXCEPT !.pc = "next", !.any = @ \/ any, !.id = 0, !.revision = 0, !.text = {}]]

Superseded(s, v) == revision[s] > v

\* DELETE FROM search_dirty WHERE revision <= v, and the count of what it removed.
Unqueue(s, v, coverage, error) ==
  LET removed == IF s \in Dirty /\ queued[s] <= v THEN 1 ELSE 0 IN
  /\ queued' = IF removed = 1 THEN [queued EXCEPT ![s] = 0] ELSE queued
  /\ retry' = IF removed = 1 THEN [retry EXCEPT ![s] = "now"] ELSE retry
  /\ index' = [known |-> TRUE, coverage |-> coverage, error |-> error,
               pending |-> IF index.pending >= removed THEN index.pending - removed ELSE 0]

\* The occurrences of the source are replaced, texts nobody names any more are
\* dropped, and the source leaves the queue, in one transaction.
IndexSource(i) ==
  LET s == worker[i].id
      chunks == worker[i].text
      kept == UNION {occurrences[x] : x \in Sources \ {s}} IN
  /\ worker[i].pc = "index"
  /\ IF Superseded(s, worker[i].revision)
     THEN UNCHANGED <<projection, queue, index>>
     ELSE /\ occurrences' = [occurrences EXCEPT ![s] = chunks]
          /\ version' = [version EXCEPT ![s] = worker[i].revision]
          /\ texts' = (texts \cup chunks) \ (occurrences[s] \ (chunks \cup kept))
          /\ Unqueue(s, worker[i].revision,
                     IF index.coverage = "limited" THEN "limited" ELSE "new", FALSE)
  /\ Processed(i, TRUE)
  /\ UNCHANGED <<source, revision, backfill, restarts>>

\* Anything else that goes wrong on the way.
FailSource(i) ==
  /\ worker[i].pc \in {"read", "index"} /\ worker[i].id \in FragileSources
  /\ Go(i, "failed")
  /\ UNCHANGED <<source, revision, queue, projection, index, backfill, restarts>>

\* Put off, unless it changed meanwhile.
MarkFailed(i) ==
  LET s == worker[i].id IN
  /\ worker[i].pc = "failed"
  /\ IF queued[s] = worker[i].revision
     THEN /\ retry' = [retry EXCEPT ![s] = "later"]
          /\ index' = [index EXCEPT !.known = TRUE, !.error = TRUE,
                         !.coverage = IF @ = "limited" THEN @ ELSE "error"]
     ELSE UNCHANGED <<retry, index>>
  /\ Processed(i, FALSE)
  /\ UNCHANGED <<source, revision, queued, projection, backfill, restarts>>

\* Given up until it changes, unless it changed meanwhile; coverage says so for good.
MarkLimited(i) ==
  LET s == worker[i].id
      v == worker[i].revision IN
  /\ worker[i].pc = "limit"
  /\ IF s \in Dirty /\ queued[s] <= v
     THEN Unqueue(s, v, "limited", TRUE)
     ELSE UNCHANGED <<queue, index>>
  /\ Processed(i, FALSE)
  /\ UNCHANGED <<source, revision, projection, backfill, restarts>>

\* A worker is stopped, or dies, and another takes its place.
Restart(i) ==
  /\ restarts < MaxRestarts
  /\ restarts' = restarts + 1
  /\ worker' = [worker EXCEPT ![i] = FreshWorker]
  /\ UNCHANGED <<source, revision, queue, projection, index, backfill>>

IndexerStep(i) ==
  \/ CheckBackfill(i) \/ EnqueueBackfill(i)
  \/ ListDirty(i) \/ TakeNext(i)
  \/ ReadSource(i) \/ IndexSource(i)
  \/ MarkFailed(i) \/ MarkLimited(i)

Next ==
  \/ \E s \in Sources, c \in Texts : Write(s, c)
  \/ \E s \in Sources : Delete(s) \/ Due(s)
  \/ \E s \in DecayingSources : Damage(s)
  \/ \E i \in Indexers : IndexerStep(i) \/ FailSource(i) \/ Restart(i)

Spec == Init /\ [][Next]_vars

\* A worker schedules its next tick whatever became of the last one, and waits end.
FairSpec ==
  /\ Spec
  /\ \A i \in Indexers : WF_vars(IndexerStep(i))
  /\ \A s \in Sources : WF_vars(Due(s))

-----------------------------------------------------------------------------
(* Properties.                                                              *)

Indexed(s) ==
  occurrences[s] = text[s] /\ (occurrences[s] # {} => version[s] = revision[s])

\* A hit is shown only if its version is the source's revision.  What is shown is
\* what the source says now, even while it waits to be indexed again or was given up.
ShownIsCurrent ==
  \A s \in Sources :
    version[s] = revision[s] /\ version[s] > 0 => occurrences[s] = text[s]

\* A source that is neither queued nor given up is indexed as it is now: an indexer
\* that read it before its last change does not take it off the queue, nor overwrite it.
SettledIsIndexed ==
  \A s \in Sources :
    revision[s] > 0 /\ s \notin Dirty => Indexed(s) \/ index.coverage = "limited"

\* The texts kept are those some occurrence names: shared ones survive their other
\* sources, and none is left behind.
TextsExact == texts = UNION {occurrences[s] : s \in Sources}

\* The number shown to users is the length of the queue.
PendingExact == index.pending = Cardinality(Dirty)

\* The cursors leave no row behind that never was in the queue.
Covered(s) ==
  backfill.coverage = "ready" \/ s <= (IF s \in Traces THEN backfill.traceCursor
                                                      ELSE backfill.observationCursor)
CursorsCover == \A s \in rows : Covered(s) => revision[s] > 0

\* Why it holds: a queued revision is the latest one, occurrences and work in hand
\* are never ahead of it, and a text read at the present revision is the present one.
QueueCurrent ==
  \A s \in Sources :
    /\ queued[s] \in {0, revision[s]}
    /\ version[s] <= revision[s]
    /\ version[s] = 0 => occurrences[s] = {}
    /\ s \notin rows => text[s] = {}
WorkCurrent ==
  \A i \in Indexers :
    /\ \A job \in worker[i].batch : 0 < job.revision /\ job.revision <= revision[job.id]
    /\ worker[i].pc \in {"read", "index", "failed", "limit"} =>
         /\ worker[i].id \in Sources
         /\ 0 < worker[i].revision /\ worker[i].revision <= revision[worker[i].id]
    /\ worker[i].pc = "index" /\ worker[i].revision = revision[worker[i].id] =>
         worker[i].text = text[worker[i].id]

SearchInv ==
  /\ TypeOK
  /\ ShownIsCurrent
  /\ SettledIsIndexed
  /\ TextsExact
  /\ PendingExact
  /\ CursorsCover
  /\ QueueCurrent
  /\ WorkCurrent

\* When the history is covered, nothing is pending and nothing was given up, every
\* row can be found by what it says now.
CompleteWhenReady ==
  backfill.coverage = "ready" /\ index.pending = 0 /\ index.coverage # "limited" =>
    \A s \in rows : Indexed(s)

\* What a search answers as indexState: the project's row if there is one, otherwise
\* the row of the backfill.
IndexStateReady ==
  IF index.known THEN ~index.error /\ index.pending = 0 ELSE backfill.coverage # "none"

\* docs/session-text-search-design.md: while coverage is incomplete, users are told
\* that history is still being indexed.
ReadyMeansCovered == IndexStateReady => \A s \in rows : revision[s] > 0

\* The history is covered in the end, and every sound source can be found once
\* writes cease, although others may fail for ever.
HistoryIndexed ==
  <>[](/\ backfill.coverage = "ready"
       /\ \A s \in Sources \ FragileSources :
            Indexed(s) \/ text[s] \in TooLarge \/ s \in damaged)
=============================================================================
