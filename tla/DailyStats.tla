----------------------------- MODULE DailyStats -----------------------------
(***************************************************************************)
(* The daily rollups of one project: daily_stats (with daily_model_stats), *)
(* the change markers of daily_stats_dirty, and the writers, recomputers,  *)
(* maintenance loop and retention job that share them.                     *)
(*                                                                         *)
(* A write marks the days it touches in its own transaction.  A recompute  *)
(* reads the day's revision, then runs its aggregate queries, each on its  *)
(* own snapshot and in any order, and publishes in one IMMEDIATE           *)
(* transaction that is refused if the revision moved or the day expired.   *)
(* Days are numbered in time order; 0 is no day, no cursor, no cutoff.     *)
(*                                                                         *)
(* Left out: what the aggregates count (a query yields the set of rows it  *)
(* covers) and the 30 s pause before a reader retries the same day.        *)
(***************************************************************************)
EXTENDS Keyset

CONSTANTS
  Days,
  Rows, Values,           \* rows of traces, observations, scores; their contents
  Queries, Covers,        \* the aggregate queries and the rows each reads
  Readers, Foreign,       \* dashboard requests; those of other processes
  BackfillBatch, DirtyBatch,
  FragileDays,            \* days whose queries may fail (timeout, malformed row)
  Cutoffs,                \* bound: the boundaries retention is run with
  MaxRevision,            \* bound: changes to a day that is kept
  MaxRestarts             \* bound: restarts of the server

ASSUME DaysAssumption == Days \subseteq Nat \ {0} /\ IsFiniteSet(Days)
ASSUME QueriesAssumption == Covers \in [Queries -> SUBSET Rows]
ASSUME ReadersAssumption ==
  "loop" \notin Readers /\ Foreign \subseteq Readers /\ FragileDays \subseteq Days
ASSUME CutoffsAssumption == Cutoffs \subseteq Days
ASSUME PagesAssumption == BackfillBatch \in Nat \ {0} /\ DirtyBatch \in Nat \ {0}
ASSUME StatsBoundsAssumption == MaxRevision \in Nat /\ MaxRestarts \in Nat

Workers == Readers \cup {"loop"}

VARIABLES
  dayOf, value,      \* the raw rows: their day (0: no such row) and content
  revision, dirty,   \* daily_stats_dirty: revision (0: no row) and the dirty days
  stored, rollup,    \* daily_stats: the days that have one, and what it says
  cutoff,            \* telemetry_retention_state.cutoff_day
  work,              \* recomputeDayRows of each worker
  loop,              \* the maintenance loop: step, page, cursors, flags
  retention,         \* purgeOlderThan: step and its own cutoff
  restarts

raw == <<dayOf, value>>
marks == <<revision, dirty>>
published == <<stored, rollup>>
vars == <<raw, marks, published, cutoff, work, loop, retention, restarts>>

Aggregates == [Queries -> SUBSET (Rows \X Values)]
Loops == [step : {"backfill", "fill", "refresh", "fix"}, initial : BOOLEAN,
          page : SUBSET Days, todo : SUBSET Days, filled : Nat,
          backfillCursor : Days \cup {0}, hadFailure : BOOLEAN,
          complete : BOOLEAN, dirtyCursor : Days \cup {0}]
Tasks == [day : Days \cup {0}, revision : Nat, read : SUBSET Queries, seen : Aggregates]
NothingSeen == [q \in Queries |-> {}]
Idle == [day |-> 0, revision |-> 0, read |-> {}, seen |-> NothingSeen]

\* What a query over one day returns now.
Answer(q, d) == {<<r, value[r]>> : r \in {x \in Covers[q] : dayOf[x] = d}}
Current(d) == [q \in Queries |-> Answer(q, d)]
HasRows(d) == \E r \in Rows : dayOf[r] = d

Kept(d) == d >= cutoff

LoopStart == [step |-> "backfill", initial |-> TRUE, page |-> {}, todo |-> {}, filled |-> 0,
              backfillCursor |-> 0, hadFailure |-> FALSE, complete |-> FALSE, dirtyCursor |-> 0]

TypeOK ==
  /\ dayOf \in [Rows -> Days \cup {0}]
  /\ value \in [Rows -> Values]
  /\ revision \in [Days -> Nat]
  /\ dirty \in SUBSET Days
  /\ stored \in SUBSET Days
  /\ rollup \in [Days -> Aggregates]
  /\ cutoff \in Days \cup {0}
  /\ work \in [Workers -> Tasks]
  /\ loop \in Loops
  /\ retention \in [step : {"idle", "rows", "rollups", "marks"}, cutoff : Days \cup {0}]
  /\ restarts \in Nat

\* Rows may be older than the marker table, which starts empty.
Init ==
  /\ dayOf \in [Rows -> Days \cup {0}]
  /\ value \in [Rows -> Values]
  /\ revision = [d \in Days |-> 0] /\ dirty = {}
  /\ stored = {} /\ rollup = [d \in Days |-> NothingSeen]
  /\ cutoff = 0
  /\ work = [w \in Workers |-> Idle]
  /\ loop = LoopStart
  /\ retention = [step |-> "idle", cutoff |-> 0]
  /\ restarts = 0

-----------------------------------------------------------------------------
(* Faulty variants of definitions below, one per property: slips this code    *)
(* could contain.  No specification uses them.                                *)

\* A publication that looks at the boundary of retention only.
UnchangedUnread(w) == Kept(work[w].day)

\* A publication that looks at the revision only.
UnchangedUncut(w) == revision[work[w].day] = work[w].revision

\* A backfill over as soon as a pass filled less than a page.
FillEndedBlind(cursor) ==
  [loop EXCEPT !.step = IF loop.initial THEN "backfill" ELSE "refresh",
               !.initial = FALSE, !.page = {}, !.filled = 0,
               !.backfillCursor = cursor,
               !.complete = loop.filled < BackfillBatch,
               !.hadFailure = loop.hadFailure /\ cursor # 0]

\* A page of dirty days that always starts at the first one.
PendingFromStart == {d \in dirty : Kept(d)}

-----------------------------------------------------------------------------
(* Writers and retention.                                                   *)

\* The change markers of one transaction: the row's old and its new day, but no
\* day retention has already given up.
MarkDays(days) ==
  LET marked == {d \in days \ {0} : Kept(d)} IN
  /\ \A d \in marked : revision[d] < MaxRevision
  /\ revision' = [d \in Days |-> IF d \in marked THEN revision[d] + 1 ELSE revision[d]]
  /\ dirty' = dirty \cup marked

\* Insert, merge, update or (day 0) delete of one row, with its markers.
Mutate(r, d, v) ==
  /\ dayOf[r] # 0 \/ d # 0
  /\ MarkDays({dayOf[r], d})
  /\ dayOf' = [dayOf EXCEPT ![r] = d]
  /\ value' = [value EXCEPT ![r] = IF d = 0 THEN @ ELSE v]

Write(r, d, v) ==
  /\ Mutate(r, d, v)
  /\ UNCHANGED <<published, cutoff, work, loop, retention, restarts>>

\* The boundary is stored before anything is deleted, and only ever moves up.
RaiseCutoff(c) ==
  /\ retention.step = "idle"
  /\ cutoff' = IF c > cutoff THEN c ELSE cutoff
  /\ retention' = [step |-> "rows", cutoff |-> c]
  /\ UNCHANGED <<raw, marks, published, work, loop, restarts>>

\* A chunk of old rows: any of an expired day, and of the cutoff day those before
\* the hour of the cutoff.
PurgeRow(r) ==
  /\ retention.step = "rows"
  /\ dayOf[r] # 0 /\ dayOf[r] <= retention.cutoff
  /\ Mutate(r, 0, value[r])
  /\ UNCHANGED <<published, cutoff, work, loop, retention, restarts>>

EndPurgeRows ==
  /\ retention.step = "rows"
  /\ retention' = [retention EXCEPT !.step = "rollups"]
  /\ UNCHANGED <<raw, marks, published, cutoff, work, loop, restarts>>

PurgeRollups ==
  /\ retention.step = "rollups"
  /\ stored' = {d \in stored : d >= retention.cutoff}
  /\ rollup' = [d \in Days |-> IF d >= retention.cutoff THEN rollup[d] ELSE NothingSeen]
  /\ retention' = [retention EXCEPT !.step = "marks"]
  /\ UNCHANGED <<raw, marks, cutoff, work, loop, restarts>>

PurgeMarks ==
  /\ retention.step = "marks"
  /\ revision' = [d \in Days |-> IF d >= retention.cutoff THEN revision[d] ELSE 0]
  /\ dirty' = {d \in dirty : d >= retention.cutoff}
  /\ retention' = [retention EXCEPT !.step = "idle"]
  /\ UNCHANGED <<raw, published, cutoff, work, loop, restarts>>

-----------------------------------------------------------------------------
(* Recomputing a day.                                                       *)

\* One recompute per day and process; other processes know nothing of it.
FreeFor(w, d) ==
  w \in Foreign \/ \A v \in Workers \ Foreign : work[v].day # d

Started(d) == [day |-> d, revision |-> revision[d], read |-> {}, seen |-> NothingSeen]

WithAnswer(task, q) ==
  [task EXCEPT !.read = @ \cup {q}, !.seen = [@ EXCEPT ![q] = Answer(q, task.day)]]

\* Reads the revision; the aggregate queries are then started together.
StartDay(w, d) ==
  /\ work[w].day = 0 /\ FreeFor(w, d)
  /\ work' = [work EXCEPT ![w] = Started(d)]

RunQuery(w, q) ==
  /\ work[w].day # 0 /\ q \notin work[w].read
  /\ work' = [work EXCEPT ![w] = WithAnswer(work[w], q)]
  /\ UNCHANGED <<raw, marks, published, cutoff, loop, retention, restarts>>

\* The guard of the publishing transaction.
Unchanged(w) == revision[work[w].day] = work[w].revision /\ Kept(work[w].day)

\* What a day's end means to the loop: success or failure of the day at hand.
DayEnds(w, ok) ==
  LET d == work[w].day IN
  loop' = IF w # "loop" THEN loop
          ELSE [loop EXCEPT !.todo = @ \ {d},
                  !.filled = IF loop.step = "fill" /\ ok THEN @ + 1 ELSE @,
                  !.hadFailure = @ \/ (loop.step = "fill" /\ ~ok),
                  !.dirtyCursor = IF loop.step = "fix" THEN d ELSE @]

\* A refused publication is no error: the marker is still set.
Publish(w) ==
  LET d == work[w].day IN
  /\ d # 0 /\ work[w].read = Queries
  /\ IF Unchanged(w)
     THEN /\ stored' = stored \cup {d}
          /\ rollup' = [rollup EXCEPT ![d] = work[w].seen]
          /\ dirty' = dirty \ {d}
     ELSE UNCHANGED <<published, dirty>>
  /\ work' = [work EXCEPT ![w] = Idle]
  /\ DayEnds(w, TRUE)
  /\ UNCHANGED <<raw, revision, cutoff, retention, restarts>>

FailDay(w) ==
  /\ work[w].day \in FragileDays
  /\ work' = [work EXCEPT ![w] = Idle]
  /\ DayEnds(w, FALSE)
  /\ UNCHANGED <<raw, marks, published, cutoff, retention, restarts>>

\* A dashboard request repairs the dirty days of its window first.
ReaderRepairs(w, d) ==
  /\ w \in Readers /\ d \in dirty /\ Kept(d)
  /\ StartDay(w, d)
  /\ UNCHANGED <<raw, marks, published, cutoff, loop, retention, restarts>>

-----------------------------------------------------------------------------
(* The maintenance loop: a page of missing days, then a page of dirty days. *)

Missing == {d \in Days : HasRows(d) /\ d \notin stored /\ d > loop.backfillCursor}
Pending == {d \in dirty : Kept(d) /\ d > loop.dirtyCursor}

LoopOnly == UNCHANGED <<raw, marks, published, cutoff, work, retention, restarts>>

ListMissing ==
  /\ loop.step = "backfill"
  /\ LET page == FirstOf(Missing, BackfillBatch) IN
     loop' = IF loop.complete THEN [loop EXCEPT !.step = "refresh"]
             ELSE [loop EXCEPT !.step = "fill", !.page = page, !.todo = page, !.filled = 0]
  /\ LoopOnly

\* A day of the page at hand, in order, one at a time.
LoopDay ==
  /\ work["loop"].day = 0
  /\ \E d \in FirstOf(loop.todo, 1) : StartDay("loop", d)
  /\ UNCHANGED <<raw, marks, published, cutoff, loop, retention, restarts>>

\* The backfill is over with a pass that found less than a page and saw no failure
\* since the cursor was last reset; the first pass does nothing else.
FillEnded(cursor) ==
  [loop EXCEPT !.step = IF loop.initial THEN "backfill" ELSE "refresh",
               !.initial = FALSE, !.page = {}, !.filled = 0,
               !.backfillCursor = cursor,
               !.complete = loop.filled < BackfillBatch /\ ~loop.hadFailure,
               !.hadFailure = loop.hadFailure /\ cursor # 0]

\* A short page was the last: start over.  A full one ends at its last day.
EndFill ==
  /\ loop.step = "fill" /\ loop.todo = {}
  /\ \/ /\ Cardinality(loop.page) < BackfillBatch
        /\ loop' = FillEnded(0)
     \/ /\ Cardinality(loop.page) >= BackfillBatch
        /\ \E last \in loop.page : /\ \A d \in loop.page : d <= last
                                   /\ loop' = FillEnded(last)
  /\ LoopOnly

\* At the end of the dirty days the cursor wraps around and the page is read again.
ListDirty ==
  /\ loop.step = "refresh"
  /\ LET page == FirstOf(Pending, DirtyBatch) IN
     loop' = IF page = {} /\ loop.dirtyCursor # 0 THEN [loop EXCEPT !.dirtyCursor = 0]
             ELSE [loop EXCEPT !.step = "fix", !.page = page, !.todo = page]
  /\ LoopOnly

EndFix ==
  /\ loop.step = "fix" /\ loop.todo = {}
  /\ loop' = [loop EXCEPT !.step = "backfill", !.page = {},
                !.dirtyCursor = IF Cardinality(loop.page) < DirtyBatch THEN 0 ELSE @]
  /\ LoopOnly

\* The server stops and starts again: what it held in memory is gone.
Restart ==
  /\ restarts < MaxRestarts
  /\ restarts' = restarts + 1
  /\ work' = [w \in Workers |-> IF w \in Foreign THEN work[w] ELSE Idle]
  /\ loop' = LoopStart
  /\ retention' = [step |-> "idle", cutoff |-> 0]
  /\ UNCHANGED <<raw, marks, published, cutoff>>

LoopStep == ListMissing \/ LoopDay \/ EndFill \/ ListDirty \/ EndFix

DayStep(w) == (\E q \in Queries : RunQuery(w, q)) \/ Publish(w)

Next ==
  \/ \E r \in Rows, d \in Days \cup {0}, v \in Values : Write(r, d, v)
  \/ \E c \in Cutoffs : RaiseCutoff(c)
  \/ \E r \in Rows : PurgeRow(r)
  \/ EndPurgeRows \/ PurgeRollups \/ PurgeMarks
  \/ \E w \in Workers : DayStep(w) \/ FailDay(w)
  \/ \E w \in Readers, d \in Days : ReaderRepairs(w, d)
  \/ LoopStep
  \/ Restart

Spec == Init /\ [][Next]_vars

\* The loop reschedules itself after every pass, queries have deadlines, and a day
\* is handed from one recompute to the next in the order they asked.
FairSpec ==
  /\ Spec
  /\ WF_vars(LoopStep) /\ SF_vars(LoopDay)
  /\ \A w \in Workers : WF_vars(DayStep(w))

-----------------------------------------------------------------------------
(* Properties.                                                              *)

\* A rollup that is not marked dirty is exactly what the queries would return now,
\* the per-model rows and the totals alike, whatever was written, purged or
\* recomputed by others between its revision read, its queries and its publication.
CleanIsExact ==
  \A d \in Days \ dirty :
    Kept(d) /\ (d \in stored \/ revision[d] > 0) => d \in stored /\ rollup[d] = Current(d)

\* Why it holds.  As long as the revision has not moved, what a worker has read
\* so far is what it would read now.
SnapshotCurrent ==
  \A w \in Workers : LET d == work[w].day IN
    d # 0 /\ Kept(d) /\ revision[d] = work[w].revision =>
      \A q \in work[w].read : work[w].seen[q] = Answer(q, d)

\* Revisions of a kept day only grow, so an old one is never met again.
RevisionBehind ==
  \A w \in Workers : LET d == work[w].day IN
    d # 0 /\ Kept(d) => work[w].revision <= revision[d]

\* Retention deletes only behind the stored boundary.
RetentionWithin == retention.cutoff <= cutoff

StatsInv ==
  /\ TypeOK
  /\ CleanIsExact
  /\ SnapshotCurrent
  /\ RevisionBehind
  /\ RetentionWithin

\* Once the loop believes the backfill complete, no day with rows is forgotten:
\* it has a rollup or a marker, whatever failed or changed while it was paging.
Covered(d) == HasRows(d) /\ Kept(d) => d \in stored \cup dirty
BackfillForgetsNothing == loop.complete => \A d \in Days : Covered(d)

\* Why it holds.  Unless a day failed, those up to the cursor are covered, and of
\* the others those that left the page or were never on it, but for the days
\* beyond a full page.
CursorCovered == ~loop.hadFailure => \A d \in Days : d <= loop.backfillCursor => Covered(d)

Filling == loop.step = "fill" /\ ~loop.hadFailure
Beyond(d) == Cardinality(loop.page) >= BackfillBatch /\ \A p \in loop.page : p < d
PageCovered == Filling => \A d \in Days \ loop.todo : Covered(d) \/ Beyond(d)

\* Every day that left the page was counted as filled.
FilledCounted == Filling => loop.filled + Cardinality(loop.todo) >= Cardinality(loop.page)

\* The loop works on days of its page only.
LoopAtPage ==
  /\ loop.step \in {"backfill", "refresh"} => loop.todo = {}
  /\ work["loop"].day # 0 => work["loop"].day \in loop.todo

BackfillInv ==
  /\ BackfillForgetsNothing
  /\ CursorCovered
  /\ PageCovered
  /\ FilledCounted
  /\ LoopAtPage

\* What retention removed stays removed: a recompute under way when the day expired
\* does not bring the rollup back, and a late write does not bring the marker back.
ExpiredStaysGone ==
  [][\A d \in Days : ~Kept(d) => /\ d \in stored' => d \in stored
                                 /\ revision'[d] > 0 => revision[d] > 0]_vars

\* Days whose queries always fail do not keep the others from converging: when
\* writes cease, every other day that is kept ends up exact and stays so.
OthersConverge ==
  <>[](\A d \in Days \ FragileDays :
         Kept(d) => IF d \in stored THEN rollup[d] = Current(d) ELSE ~HasRows(d))
=============================================================================
