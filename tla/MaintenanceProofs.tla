------------------------- MODULE MaintenanceProofs -------------------------
(***************************************************************************)
(* The maintenance of the server, for any number of days, rows, queries,   *)
(* readers, processes and projects: a clean rollup is exact and retention  *)
(* is final; the loops go on until they are stopped, and a pass of the     *)
(* collector serves every project.                                         *)
(***************************************************************************)
EXTENDS DailyStats, CasGcJob, CollectionProofs, TLAPS

-----------------------------------------------------------------------------
(* The rollups.                                                             *)


LEMMA InitStats == Init => StatsInv
BY DaysAssumption, QueriesAssumption
DEF Init, StatsInv, TypeOK, CleanIsExact, SnapshotCurrent, RevisionBehind, RetentionWithin,
    LoopStart, Loops, Idle, NothingSeen, Aggregates, Tasks, Kept

LEMMA AnswerTyped ==
  ASSUME TypeOK, NEW q \in Queries, NEW d PROVE Answer(q, d) \in SUBSET (Rows \X Values)
BY QueriesAssumption DEF TypeOK, Answer

\* Writers, retention's row deletions: a kept day whose rows change gets a newer
\* revision and is dirty, every other kept day keeps its answers.
LEMMA MutateInv ==
  ASSUME StatsInv, NEW r \in Rows, NEW d \in Days \cup {0}, NEW v \in Values, Mutate(r, d, v),
         UNCHANGED <<published, cutoff, work, loop, retention, restarts>>
  PROVE  StatsInv'
<1> USE DEF published, StatsInv
<1> DEFINE marked == {x \in {dayOf[r], d} \ {0} : Kept(x)}
<1>1. /\ revision' = [x \in Days |-> IF x \in marked THEN revision[x] + 1 ELSE revision[x]]
      /\ dirty' = dirty \cup marked
      /\ marked \in SUBSET Days
  BY DEF Mutate, MarkDays, TypeOK
<1>2. TypeOK'
  BY <1>1 DEF TypeOK, Mutate
<1>3. \A x \in Days : Kept(x) /\ x \notin marked =>
        /\ \A q \in Queries : Answer(q, x)' = Answer(q, x)
        /\ Current(x)' = Current(x)
  <2> SUFFICES ASSUME NEW x \in Days, Kept(x), x \notin marked, NEW q \in Queries
               PROVE  Answer(q, x)' = Answer(q, x)
    BY DEF Current
  <2>1. x # dayOf[r] /\ x # d
    BY DaysAssumption
  <2>2. \A y \in Rows : (dayOf'[y] = x <=> dayOf[y] = x) /\ (y # r => value'[y] = value[y])
    BY <2>1 DEF Mutate, TypeOK
  <2>3. \A y \in Rows : dayOf[y] = x => y # r
    BY <2>1
  <2> QED BY <2>2, <2>3, QueriesAssumption DEF Answer
<1>4. \A x \in Days : x \in marked => revision'[x] = revision[x] + 1
  BY <1>1
<1>5. \A x \in Days : x \notin marked => revision'[x] = revision[x]
  BY <1>1
<1>6. CleanIsExact'
  <2> SUFFICES ASSUME NEW x \in Days, x \notin dirty', Kept(x), x \in stored \/ revision'[x] > 0
               PROVE  x \in stored /\ rollup[x] = Current(x)'
    BY DEF CleanIsExact, Kept
  <2> QED BY <1>1, <1>3, <1>5 DEF CleanIsExact
<1>7. RevisionBehind'
  BY <1>4, <1>5, <1>2 DEF RevisionBehind, TypeOK, Tasks, Kept
<1>8. SnapshotCurrent'
  <2> SUFFICES ASSUME NEW w \in Workers, work[w].day # 0, Kept(work[w].day),
                      revision'[work[w].day] = work[w].revision, NEW q \in work[w].read
               PROVE  work[w].seen[q] = Answer(q, work[w].day)'
    BY DEF SnapshotCurrent, Kept
  <2>1. work[w].day \in Days /\ q \in Queries /\ work[w].revision \in Nat
    BY DEF TypeOK, Tasks
  <2>2. work[w].day \notin marked
    BY <2>1, <1>4 DEF RevisionBehind, TypeOK
  <2> QED BY <2>1, <2>2, <1>3, <1>5 DEF SnapshotCurrent
<1> QED BY <1>2, <1>6, <1>7, <1>8 DEF RetentionWithin

\* Deleting rollups and markers of expired days concerns no kept day.
LEMMA PurgeInv ==
  ASSUME StatsInv, PurgeRollups \/ PurgeMarks
  PROVE  StatsInv'
<1> USE DEF StatsInv, PurgeRollups, PurgeMarks, raw, marks, published
<1>1. TypeOK'
  BY DEF TypeOK, Aggregates, NothingSeen
<1>2. UNCHANGED <<raw, cutoff, work>> /\ retention'.cutoff = retention.cutoff
  BY DEF TypeOK
<1>3. \A d \in Days : Kept(d) =>
        /\ d \in stored' <=> d \in stored
        /\ rollup'[d] = rollup[d]
        /\ d \in dirty' <=> d \in dirty
        /\ revision'[d] = revision[d]
  BY DaysAssumption DEF TypeOK, RetentionWithin, Kept
<1>4. \A q, d : Answer(q, d)' = Answer(q, d)
  BY <1>2 DEF Answer
<1>5. CleanIsExact' /\ RetentionWithin'
  BY <1>2, <1>3, <1>4 DEF CleanIsExact, Current, Kept, RetentionWithin
<1>6. \A w \in Workers : work[w].day # 0 => work[w].day \in Days
  BY DEF TypeOK, Tasks
<1>7. SnapshotCurrent' /\ RevisionBehind'
  BY <1>2, <1>3, <1>4, <1>6 DEF SnapshotCurrent, RevisionBehind, Kept
<1> QED BY <1>1, <1>5, <1>7

\* A worker that starts, reads, publishes or gives up.
LEMMA WorkersInv ==
  ASSUME StatsInv, UNCHANGED <<raw, revision, cutoff, retention>>, TypeOK',
         \A w \in Workers : \/ work'[w] = work[w] \/ work'[w].day = 0
                            \/ \E d \in Days : work'[w] = Started(d)
                            \/ \E q \in Queries : work'[w] = WithAnswer(work[w], q)
  PROVE  SnapshotCurrent' /\ RevisionBehind' /\ RetentionWithin'
<1> USE DEF StatsInv, raw
<1>1. \A q, d : Answer(q, d)' = Answer(q, d)
  BY DEF Answer
<1>2. ASSUME NEW w \in Workers, work'[w].day # 0, Kept(work'[w].day)
      PROVE  /\ work'[w].revision <= revision[work'[w].day]
             /\ revision[work'[w].day] = work'[w].revision =>
                  \A q \in work'[w].read : work'[w].seen[q] = Answer(q, work'[w].day)
  <2>1. CASE work'[w] = work[w]
    BY <1>2, <2>1 DEF SnapshotCurrent, RevisionBehind
  <2>2. CASE \E d \in Days : work'[w] = Started(d)
    BY <2>2, DaysAssumption DEF Started, TypeOK
  <2>3. ASSUME NEW q \in Queries, work'[w] = WithAnswer(work[w], q)
        PROVE  /\ work'[w].revision <= revision[work'[w].day]
               /\ revision[work'[w].day] = work'[w].revision =>
                    \A p \in work'[w].read : work'[w].seen[p] = Answer(p, work'[w].day)
    <3>1. /\ work[w].seen \in [Queries -> SUBSET (Rows \X Values)]
          /\ work[w].read \in SUBSET Queries
          /\ work[w] \in Tasks
      BY DEF TypeOK, Tasks, Aggregates
    <3>2. /\ work'[w].day = work[w].day /\ work'[w].revision = work[w].revision
          /\ work'[w].read = work[w].read \cup {q}
          /\ work'[w].seen = [work[w].seen EXCEPT ![q] = Answer(q, work[w].day)]
      BY <2>3, <3>1 DEF WithAnswer, Tasks
    <3>3. \A p \in Queries : work'[w].seen[p] =
                IF p = q THEN Answer(q, work[w].day) ELSE work[w].seen[p]
      BY <3>1, <3>2
    <3> QED BY <1>2, <3>1, <3>2, <3>3 DEF SnapshotCurrent, RevisionBehind
  <2> QED BY <1>2, <2>1, <2>2, <2>3
<1>3. SnapshotCurrent' /\ RevisionBehind'
  BY <1>1, <1>2 DEF SnapshotCurrent, RevisionBehind, Kept
<1> QED BY <1>3 DEF RetentionWithin

LEMMA DayEndsTyped ==
  ASSUME TypeOK, NEW w \in Workers, work[w].day \in Days, NEW ok \in BOOLEAN, DayEnds(w, ok)
  PROVE  loop' \in Loops
<1> DEFINE failed == loop.hadFailure \/ (loop.step = "fill" /\ ~ok)
<1>1. failed \in BOOLEAN
  BY DEF TypeOK, Loops
<1> HIDE DEF failed
<1>2. CASE w = "loop"
  <2>1. loop' = [loop EXCEPT !.todo = @ \ {work[w].day},
                  !.filled = IF loop.step = "fill" /\ ok THEN @ + 1 ELSE @,
                  !.hadFailure = failed,
                  !.dirtyCursor = IF loop.step = "fix" THEN work[w].day ELSE @]
    BY <1>2 DEF DayEnds, failed
  <2>2. /\ loop \in Loops
        /\ loop.todo \ {work[w].day} \in SUBSET Days
        /\ (IF loop.step = "fill" /\ ok THEN loop.filled + 1 ELSE loop.filled) \in Nat
        /\ (IF loop.step = "fix" THEN work[w].day ELSE loop.dirtyCursor) \in Days \cup {0}
    BY DEF TypeOK, Loops
  <2> QED BY <1>1, <2>1, <2>2 DEF Loops
<1>3. CASE w # "loop"
  BY <1>3 DEF DayEnds, TypeOK
<1> QED BY <1>2, <1>3

LEMMA PublishInv ==
  ASSUME StatsInv, NEW w \in Workers, Publish(w)
  PROVE  StatsInv'
<1> USE DEF StatsInv, raw, marks, published
<1> DEFINE d == work[w].day
<1>1. d \in Days /\ work[w].seen \in Aggregates /\ work[w].read = Queries
  BY DEF Publish, TypeOK, Tasks
<1>2. TypeOK'
  <2>1. Idle \in Tasks
    BY DEF Idle, NothingSeen, Aggregates, Tasks
  <2>2. loop' \in Loops
    BY <1>1, DayEndsTyped DEF Publish
  <2>3. stored' \in SUBSET Days /\ rollup' \in [Days -> Aggregates] /\ dirty' \in SUBSET Days
    BY <1>1 DEF Publish, TypeOK
  <2>4. UNCHANGED <<raw, revision, cutoff, retention, restarts>>
        /\ work' = [work EXCEPT ![w] = Idle]
    BY DEF Publish
  <2> QED BY <2>1, <2>2, <2>3, <2>4 DEF TypeOK
<1>3. SnapshotCurrent' /\ RevisionBehind' /\ RetentionWithin'
  <2>1. \A v \in Workers : work'[v] = work[v] \/ work'[v].day = 0
    BY DEF Publish, Idle, TypeOK
  <2> QED BY <2>1, <1>2, WorkersInv DEF Publish
<1>4. \A x : Current(x)' = Current(x)
  BY DEF Publish, Current, Answer
<1>5. CleanIsExact'
  <2>1. CASE Unchanged(w)
    <3>1. work[w].seen = Current(d)
      <4>1. \A q \in Queries : work[w].seen[q] = Answer(q, d)
        BY <1>1, <2>1, DaysAssumption DEF SnapshotCurrent, Unchanged
      <4> QED BY <4>1, <1>1 DEF Current, Aggregates
    <3>2. /\ stored' = stored \cup {d} /\ rollup' = [rollup EXCEPT ![d] = work[w].seen]
          /\ dirty' = dirty \ {d} /\ UNCHANGED <<revision, cutoff>>
      BY <2>1 DEF Publish
    <3>3. \A x \in Days : rollup'[x] = IF x = d THEN work[w].seen ELSE rollup[x]
      BY <1>1, <3>2 DEF TypeOK
    <3> QED BY <3>1, <3>2, <3>3, <1>4 DEF CleanIsExact, Kept
  <2>2. CASE ~Unchanged(w)
    <3>1. UNCHANGED <<stored, rollup, dirty, revision, cutoff>>
      BY <2>2 DEF Publish
    <3> QED BY <3>1, <1>4 DEF CleanIsExact, Kept
  <2> QED BY <2>1, <2>2
<1> QED BY <1>2, <1>3, <1>5

LEMMA NextStats == StatsInv /\ [Next]_vars => StatsInv'
<1> SUFFICES ASSUME StatsInv, [Next]_vars PROVE StatsInv'
  OBVIOUS
<1> USE DEF StatsInv, raw, marks, published
<1>a. (\A x : Current(x)' = Current(x)) \/ ~UNCHANGED raw
  BY DEF Current, Answer
<1>1. ASSUME NEW r \in Rows, NEW d \in Days \cup {0}, NEW v \in Values, Write(r, d, v) PROVE StatsInv'
  BY <1>1, MutateInv DEF Write
<1>2. ASSUME NEW c \in Cutoffs, RaiseCutoff(c) PROVE StatsInv'
  <2>1. TypeOK' /\ RetentionWithin'
    BY <1>2, DaysAssumption, CutoffsAssumption DEF RaiseCutoff, TypeOK, RetentionWithin
  <2>2. \A d \in Days : Kept(d)' => Kept(d)
    BY <1>2, DaysAssumption, CutoffsAssumption DEF RaiseCutoff, Kept, TypeOK
  <2>3. \A q, d : Answer(q, d)' = Answer(q, d)
    BY <1>2 DEF RaiseCutoff, Answer
  <2>4. UNCHANGED <<raw, marks, published, work>>
    BY <1>2 DEF RaiseCutoff
  <2>5. CleanIsExact'
    BY <2>2, <2>4, <1>a DEF CleanIsExact
  <2>6. \A w \in Workers : work[w].day # 0 => work[w].day \in Days
    BY DEF TypeOK, Tasks
  <2>7. SnapshotCurrent' /\ RevisionBehind'
    BY <2>2, <2>3, <2>4, <2>6 DEF SnapshotCurrent, RevisionBehind
  <2> QED BY <2>1, <2>5, <2>7
<1>3. ASSUME NEW r \in Rows, PurgeRow(r) PROVE StatsInv'
  <2>1. 0 \in Days \cup {0} /\ value[r] \in Values
    BY DEF TypeOK
  <2> QED BY <1>3, <2>1, MutateInv DEF PurgeRow
<1>4. CASE EndPurgeRows
  <2>1. TypeOK' /\ RetentionWithin'
    BY <1>4 DEF EndPurgeRows, TypeOK, RetentionWithin
  <2>2. UNCHANGED <<raw, marks, published, cutoff, work>>
    BY <1>4 DEF EndPurgeRows
  <2> QED BY <2>1, <2>2 DEF CleanIsExact, SnapshotCurrent, RevisionBehind, Current, Answer, Kept
<1>5. CASE PurgeRollups \/ PurgeMarks
  BY <1>5, PurgeInv
<1>6. ASSUME NEW w \in Workers, NEW q \in Queries, RunQuery(w, q) PROVE StatsInv'
  <2>1. TypeOK'
    <3>1. WithAnswer(work[w], q) \in Tasks
      <4>1. Answer(q, work[w].day) \in SUBSET (Rows \X Values)
        BY AnswerTyped
      <4>2. work[w] \in Tasks /\ work[w].seen \in [Queries -> SUBSET (Rows \X Values)]
        BY DEF TypeOK, Tasks, Aggregates
      <4>3. [work[w].seen EXCEPT ![q] = Answer(q, work[w].day)] \in Aggregates
        BY <4>1, <4>2 DEF Aggregates
      <4> QED BY <4>2, <4>3 DEF WithAnswer, Tasks
    <3> QED BY <1>6, <3>1 DEF RunQuery, TypeOK
  <2>2. SnapshotCurrent' /\ RevisionBehind' /\ RetentionWithin'
    BY <1>6, <2>1, WorkersInv DEF RunQuery, TypeOK
  <2> QED BY <1>6, <2>1, <2>2, <1>a DEF RunQuery, CleanIsExact, Kept
<1>7. ASSUME NEW w \in Workers, Publish(w) PROVE StatsInv'
  BY <1>7, PublishInv
<1>8. ASSUME NEW w \in Workers, FailDay(w) PROVE StatsInv'
  <2>1. TypeOK'
    <3>1. Idle \in Tasks
      BY DEF Idle, NothingSeen, Aggregates, Tasks
    <3>2. loop' \in Loops
      BY <1>8, DayEndsTyped, ReadersAssumption DEF FailDay
    <3> QED BY <1>8, <3>1, <3>2 DEF FailDay, TypeOK
  <2>2. SnapshotCurrent' /\ RevisionBehind' /\ RetentionWithin'
    BY <1>8, <2>1, WorkersInv DEF FailDay, TypeOK, Idle
  <2> QED BY <1>8, <2>1, <2>2, <1>a DEF FailDay, CleanIsExact, Kept
<1>9. ASSUME NEW w \in Workers, NEW d \in Days, StartDay(w, d),
             UNCHANGED <<raw, marks, published, cutoff, loop, retention, restarts>> PROVE StatsInv'
  <2>1. TypeOK'
    <3>1. Started(d) \in Tasks
      BY DEF Started, NothingSeen, Aggregates, Tasks, TypeOK
    <3> QED BY <1>9, <3>1 DEF StartDay, TypeOK
  <2>2. SnapshotCurrent' /\ RevisionBehind' /\ RetentionWithin'
    BY <1>9, <2>1, WorkersInv DEF StartDay, TypeOK
  <2> QED BY <1>9, <2>1, <2>2, <1>a DEF CleanIsExact, Kept
<1>10. ASSUME NEW w \in Readers, NEW d \in Days, ReaderRepairs(w, d) PROVE StatsInv'
  BY <1>10, <1>9 DEF ReaderRepairs, Workers
<1>11. CASE LoopDay
  <2>1. PICK d \in FirstOf(loop.todo, 1) : StartDay("loop", d)
    BY <1>11 DEF LoopDay
  <2>2. d \in Days
    BY DEF FirstOf, TypeOK, Loops
  <2> QED BY <1>11, <2>1, <2>2, <1>9 DEF LoopDay, Workers
<1>12. ASSUME LoopOnly, TypeOK' PROVE StatsInv'
  BY <1>12 DEF LoopOnly, CleanIsExact, SnapshotCurrent, RevisionBehind, RetentionWithin,
               Current, Answer, Kept
<1>13. CASE ListMissing
  BY <1>12, <1>13 DEF ListMissing, TypeOK, Loops, LoopOnly, FirstOf, Missing
<1>14. CASE EndFill
  <2>1. PICK cursor \in Days \cup {0} : loop' = FillEnded(cursor)
    BY <1>14 DEF EndFill, TypeOK, Loops
  <2> QED BY <1>12, <1>14, <2>1 DEF EndFill, FillEnded, TypeOK, Loops, LoopOnly
<1>15. CASE ListDirty
  BY <1>12, <1>15 DEF ListDirty, TypeOK, Loops, LoopOnly, FirstOf, Pending
<1>16. CASE EndFix
  BY <1>12, <1>16 DEF EndFix, TypeOK, Loops, LoopOnly
<1>17. CASE Restart
  <2>1. TypeOK'
    <3>1. Idle \in Tasks
      BY DEF Idle, NothingSeen, Aggregates, Tasks
    <3>2. work' \in [Workers -> Tasks]
      BY <1>17, <3>1 DEF Restart, TypeOK
    <3> QED BY <1>17, <3>2 DEF Restart, TypeOK, Loops, LoopStart
  <2>2. RetentionWithin'
    BY <1>17, DaysAssumption DEF Restart, RetentionWithin, TypeOK
  <2>3. UNCHANGED <<raw, marks, published, cutoff>>
        /\ \A w \in Workers : work'[w] = work[w] \/ work'[w].day = 0
    BY <1>17 DEF Restart, Idle
  <2>4. CleanIsExact'
    BY <2>3, <1>a DEF CleanIsExact, Kept
  <2>5. \A q, d : Answer(q, d)' = Answer(q, d)
    BY <2>3 DEF Answer
  <2>6. SnapshotCurrent' /\ RevisionBehind'
    BY <2>3, <2>5 DEF SnapshotCurrent, RevisionBehind, Kept
  <2> QED BY <2>1, <2>2, <2>4, <2>6
<1>18. CASE UNCHANGED vars
  BY <1>12, <1>18 DEF vars, TypeOK, Loops, LoopOnly
<1> QED BY <1>1, <1>2, <1>3, <1>4, <1>5, <1>6, <1>7, <1>8, <1>10, <1>11, <1>13, <1>14, <1>15,
           <1>16, <1>17, <1>18 DEF Next, LoopStep, DayStep

\* Rollups that are not marked dirty agree with the rows they summarise: what
\* recomputeDay's revision guard and the writers' markers achieve together.
THEOREM CleanRollupsExact == Spec => []StatsInv
<1> QED BY InitStats, NextStats, PTL DEF Spec

\* A day retention gave up gets neither a rollup nor a marker any more.
LEMMA ExpiredStep ==
  ASSUME StatsInv, Next, NEW d \in Days, ~Kept(d)
  PROVE  (d \in stored' => d \in stored) /\ (revision'[d] > 0 => revision[d] > 0)
<1> USE DEF raw, marks, published
<1>1. ASSUME NEW r \in Rows, NEW e, NEW v, Mutate(r, e, v)
      PROVE  revision'[d] = revision[d]
  BY <1>1 DEF Mutate, MarkDays
<1>2. ASSUME NEW r \in Rows, NEW e, NEW v, Write(r, e, v) PROVE stored' = stored /\ revision'[d] = revision[d]
  BY <1>1, <1>2 DEF Write
<1>3. ASSUME NEW r \in Rows, PurgeRow(r) PROVE stored' = stored /\ revision'[d] = revision[d]
  BY <1>1, <1>3 DEF PurgeRow
<1>4. CASE PurgeRollups
  BY <1>4 DEF PurgeRollups
<1>5. CASE PurgeMarks
  BY <1>5 DEF PurgeMarks
<1>6. ASSUME NEW w \in Workers, Publish(w) PROVE (d \in stored' => d \in stored) /\ revision' = revision
  BY <1>6 DEF Publish, Unchanged
<1>7. ASSUME UNCHANGED <<stored, revision>> PROVE (d \in stored' => d \in stored) /\ revision'[d] = revision[d]
  BY <1>7
<1>8. ASSUME NEW c, RaiseCutoff(c) PROVE UNCHANGED <<stored, revision>>
  BY <1>8 DEF RaiseCutoff
<1>9. CASE EndPurgeRows \/ Restart
  BY <1>7, <1>9 DEF EndPurgeRows, Restart
<1>10. ASSUME NEW w, NEW x, RunQuery(w, x) \/ FailDay(w) \/ ReaderRepairs(w, x)
       PROVE  UNCHANGED <<stored, revision>>
  BY <1>10 DEF RunQuery, FailDay, ReaderRepairs
<1>11. CASE LoopStep
  BY <1>7, <1>11 DEF LoopStep, ListMissing, LoopDay, EndFill, ListDirty, EndFix, LoopOnly
<1> QED BY <1>2, <1>3, <1>4, <1>5, <1>6, <1>7, <1>8, <1>9, <1>10, <1>11 DEF Next, DayStep

\* Retention is final: the boundary it stores first stops recomputes under way and
\* late markers, whatever they had read before.
THEOREM RetentionIsFinal == Spec => ExpiredStaysGone
<1>1. StatsInv /\ [Next]_vars =>
        [\A d \in Days : ~Kept(d) => /\ d \in stored' => d \in stored
                                     /\ revision'[d] > 0 => revision[d] > 0]_vars
  BY ExpiredStep
<1> QED BY <1>1, CleanRollupsExact, PTL DEF Spec, ExpiredStaysGone

\* No step uncovers a day: rows come with a marker, and rollups and markers go only
\* with a publication or behind the boundary of retention.
LEMMA StaysCovered ==
  ASSUME StatsInv, [Next]_vars, NEW d \in Days, Covered(d)
  PROVE  Covered(d)'
<1> USE DEF StatsInv, raw, marks, published
<1>1. ASSUME NEW r \in Rows, NEW e \in Days \cup {0}, NEW v, Mutate(r, e, v),
             UNCHANGED <<published, cutoff>>
      PROVE  Covered(d)'
  <2> SUFFICES ASSUME HasRows(d)', Kept(d) PROVE d \in stored \cup dirty'
    BY <1>1 DEF Covered, Kept
  <2>1. dirty' = dirty \cup {x \in {dayOf[r], e} \ {0} : Kept(x)}
    BY <1>1 DEF Mutate, MarkDays
  <2>2. PICK y \in Rows : dayOf'[y] = d
    BY DEF HasRows
  <2>3. CASE y = r
    <3>1. d = e /\ d # 0
      BY <1>1, <2>2, <2>3, DaysAssumption DEF Mutate, TypeOK
    <3> QED BY <2>1, <3>1
  <2>4. CASE y # r
    <3>1. HasRows(d)
      BY <1>1, <2>2, <2>4 DEF Mutate, TypeOK, HasRows
    <3> QED BY <2>1, <3>1 DEF Covered
  <2> QED BY <2>3, <2>4
<1>2. ASSUME UNCHANGED <<dayOf, published, cutoff, dirty>> PROVE Covered(d)'
  BY <1>2 DEF Covered, HasRows, Kept
<1>3. CASE \E r \in Rows, e \in Days \cup {0}, v \in Values : Write(r, e, v)
  BY <1>1, <1>3 DEF Write
<1>4. CASE \E c \in Cutoffs : RaiseCutoff(c)
  <2>1. UNCHANGED <<dayOf, published, dirty>> /\ (Kept(d)' => Kept(d))
    BY <1>4, DaysAssumption, CutoffsAssumption DEF RaiseCutoff, Kept, TypeOK
  <2> QED BY <2>1 DEF Covered, HasRows
<1>5. CASE \E r \in Rows : PurgeRow(r)
  <2>1. PICK r \in Rows : PurgeRow(r)
    BY <1>5
  <2>2. 0 \in Days \cup {0} /\ Mutate(r, 0, value[r]) /\ UNCHANGED <<published, cutoff>>
    BY <2>1 DEF PurgeRow
  <2> QED BY <2>2, <1>1
<1>6. CASE PurgeRollups \/ PurgeMarks
  <2>1. UNCHANGED <<dayOf, cutoff>>
    BY <1>6 DEF PurgeRollups, PurgeMarks
  <2>2. Kept(d) => (d \in stored => d \in stored') /\ (d \in dirty => d \in dirty')
    BY <1>6, DaysAssumption DEF PurgeRollups, PurgeMarks, Kept, RetentionWithin, TypeOK
  <2> QED BY <2>1, <2>2 DEF Covered, HasRows, Kept
<1>7. CASE \E w \in Workers : Publish(w)
  <2>1. UNCHANGED <<dayOf, cutoff>> /\ stored \cup dirty \subseteq stored' \cup dirty'
    BY <1>7 DEF Publish
  <2> QED BY <2>1 DEF Covered, HasRows, Kept
<1>8. CASE (\E w \in Workers, q \in Queries : RunQuery(w, q)) \/ (\E w \in Workers : FailDay(w))
  BY <1>2, <1>8 DEF RunQuery, FailDay
<1>9. CASE (\E w \in Readers, e \in Days : ReaderRepairs(w, e)) \/ EndPurgeRows \/ Restart
  BY <1>2, <1>9 DEF ReaderRepairs, EndPurgeRows, Restart
<1>10. CASE LoopStep
  BY <1>2, <1>10 DEF LoopStep, ListMissing, LoopDay, EndFill, ListDirty, EndFix, LoopOnly
<1>11. CASE UNCHANGED vars
  BY <1>2, <1>11 DEF vars
<1> QED BY <1>3, <1>4, <1>5, <1>6, <1>7, <1>8, <1>9, <1>10, <1>11 DEF Next, DayStep

\* A refused publication leaves its day covered: its revision moved, so it was
\* marked, and whoever cleaned it since has stored it.
LEMMA PublishedIsCovered ==
  ASSUME StatsInv, NEW w \in Workers, Publish(w), NEW d, d = work[w].day
  PROVE  Covered(d)'
<1> USE DEF StatsInv, raw
<1>1. d \in Days /\ work[w].revision \in Nat /\ revision[d] \in Nat
  BY DEF Publish, TypeOK, Tasks
<1>2. UNCHANGED <<dayOf, cutoff>>
  BY DEF Publish
<1>3. CASE Unchanged(w)
  BY <1>3 DEF Publish, Covered
<1>4. CASE ~Unchanged(w)
  <2>1. stored' = stored /\ dirty' = dirty
    BY <1>4 DEF Publish, published
  <2>2. Kept(d) => revision[d] > 0
    BY <1>1, <1>4, DaysAssumption DEF Unchanged, RevisionBehind
  <2> QED BY <1>1, <1>2, <2>1, <2>2 DEF Covered, CleanIsExact, Kept, HasRows
<1> QED BY <1>3, <1>4

\* Steps that leave the loop's record alone, and its worker on its day or idle.
LEMMA LoopAside ==
  ASSUME StatsInv, BackfillInv, [Next]_vars, loop' = loop,
         work'["loop"].day \in {work["loop"].day, 0} \cup loop.todo
  PROVE  BackfillInv'
<1>1. \A d \in Days : Covered(d) => Covered(d)'
  BY StaysCovered
<1>2. BackfillForgetsNothing' /\ CursorCovered' /\ PageCovered'
  BY <1>1 DEF BackfillInv, BackfillForgetsNothing, CursorCovered, PageCovered, Filling, Beyond
<1>3. FilledCounted' /\ LoopAtPage'
  BY DEF BackfillInv, FilledCounted, Filling, LoopAtPage
<1> QED BY <1>2, <1>3 DEF BackfillInv

\* A day of the loop that ends: published, refused or failed.
LEMMA LoopDayEnds ==
  ASSUME StatsInv, BackfillInv, [Next]_vars, NEW ok \in BOOLEAN, work["loop"].day \in Days,
         DayEnds("loop", ok), work'["loop"].day = 0, ok => Publish("loop")
  PROVE  BackfillInv'
<1> DEFINE d == work["loop"].day
<1> USE DEF BackfillInv
<1>1. /\ loop \in Loops /\ loop' \in Loops /\ d \in loop.todo
      /\ IsFiniteSet(loop.todo) /\ Cardinality(loop.todo) \in Nat
  <2>1. loop \in Loops /\ d \in loop.todo
    BY DaysAssumption DEF StatsInv, TypeOK, LoopAtPage
  <2>2. loop.todo \in SUBSET Days
    BY <2>1 DEF Loops
  <2>3. "loop" \in Workers
    BY DEF Workers
  <2>4. loop' \in Loops
    BY <2>3, DayEndsTyped DEF StatsInv
  <2> QED BY <2>1, <2>2, <2>4, DaysAssumption, FS_Subset, FS_CardinalityType
<1>2. /\ loop'.step = loop.step /\ loop'.page = loop.page
      /\ loop'.complete = loop.complete /\ loop'.backfillCursor = loop.backfillCursor
      /\ loop'.todo = loop.todo \ {d}
      /\ loop'.hadFailure = (loop.hadFailure \/ (loop.step = "fill" /\ ~ok))
      /\ loop'.filled = IF loop.step = "fill" /\ ok THEN loop.filled + 1 ELSE loop.filled
  BY <1>1 DEF DayEnds, Loops
<1>3. \A x \in Days : Covered(x) => Covered(x)'
  BY StaysCovered
<1>4. BackfillForgetsNothing' /\ CursorCovered'
  BY <1>1, <1>2, <1>3 DEF BackfillForgetsNothing, CursorCovered, Loops
<1>5. PageCovered'
  <2> SUFFICES ASSUME Filling', NEW x \in Days, x \notin loop'.todo
               PROVE  Covered(x)' \/ Beyond(x)'
    BY DEF PageCovered
  <2>1. Filling /\ ok
    BY <1>1, <1>2 DEF Filling, Loops
  <2>2. CASE x = d
    BY <2>1, <2>2, PublishedIsCovered DEF Workers
  <2>3. CASE x # d
    BY <1>2, <1>3, <2>1, <2>3 DEF PageCovered, Beyond
  <2> QED BY <2>2, <2>3
<1>6. FilledCounted'
  <2>1. Cardinality(loop.todo \ {d}) = Cardinality(loop.todo) - 1
    BY <1>1, FS_RemoveElement
  <2>2. Cardinality(loop.page) \in Nat
    <3>1. loop.page \in SUBSET Days
      BY <1>1 DEF Loops
    <3> QED BY <3>1, DaysAssumption, FS_Subset, FS_CardinalityType
  <2>3. loop.filled \in Nat
    BY <1>1 DEF Loops
  <2>4. Cardinality(loop'.todo) = Cardinality(loop.todo) - 1
    BY <1>2, <2>1
  <2> SUFFICES ASSUME Filling'
               PROVE  loop'.filled + Cardinality(loop'.todo) >= Cardinality(loop'.page)
    BY DEF FilledCounted
  <2>5. Filling /\ ok
    BY <1>1, <1>2 DEF Filling, Loops
  <2>6. loop'.filled = loop.filled + 1 /\ loop'.page = loop.page
    BY <1>2, <2>5 DEF Filling
  <2>7. loop.filled + Cardinality(loop.todo) >= Cardinality(loop.page)
    BY <2>5 DEF FilledCounted
  <2> QED BY <1>1, <2>2, <2>3, <2>4, <2>6, <2>7
<1>7. LoopAtPage'
  BY <1>2 DEF LoopAtPage
<1> QED BY <1>4, <1>5, <1>6, <1>7

\* A page of missing days: those after a full page lie beyond it.
LEMMA ListedMissing ==
  ASSUME StatsInv, BackfillInv, ListMissing
  PROVE  BackfillInv'
<1> USE DEF BackfillInv
<1>1. loop \in Loops
  BY DEF StatsInv, TypeOK
<1>2. UNCHANGED <<dayOf, stored, dirty, cutoff, work>> /\ [Next]_vars
  BY DEF ListMissing, LoopOnly, raw, published, marks, Next, LoopStep
<1>3. \A d \in Days : Covered(d) => Covered(d)'
  BY <1>2, StaysCovered
<1>4. work["loop"].day = 0 /\ loop.todo = {}
  BY DEF ListMissing, LoopAtPage
<1>5. loop.backfillCursor \in Nat /\ Days \subseteq Nat
  <2>1. loop.backfillCursor \in Days \cup {0}
    BY <1>1 DEF Loops
  <2>2. \A d \in Days : d \in Nat
    BY DaysAssumption
  <2>3. 0 \in Nat
    OBVIOUS
  <2> QED BY <2>1, <2>2, <2>3
<1>6. CASE loop.complete
  <2>1. loop' = [loop EXCEPT !.step = "refresh"]
    BY <1>6 DEF ListMissing
  <2>2. /\ loop'.step = "refresh" /\ loop'.todo = {} /\ loop'.complete = loop.complete
        /\ loop'.hadFailure = loop.hadFailure /\ loop'.backfillCursor = loop.backfillCursor
    BY <1>1, <1>4, <2>1 DEF Loops
  <2>3. BackfillForgetsNothing' /\ CursorCovered'
    BY <1>3, <2>2 DEF BackfillForgetsNothing, CursorCovered
  <2> QED BY <1>2, <1>4, <2>2, <2>3 DEF PageCovered, FilledCounted, Filling, LoopAtPage
<1>7. CASE ~loop.complete
  <2> DEFINE page == FirstOf(Missing, BackfillBatch)
  <2>1. loop' = [loop EXCEPT !.step = "fill", !.page = page, !.todo = page, !.filled = 0]
    BY <1>7 DEF ListMissing
  <2>2. /\ loop'.step = "fill" /\ loop'.todo = page /\ loop'.page = page /\ loop'.filled = 0
        /\ loop'.complete = loop.complete
        /\ loop'.hadFailure = loop.hadFailure /\ loop'.backfillCursor = loop.backfillCursor
    BY <1>1, <2>1 DEF Loops
  <2>3. Missing \in SUBSET Nat /\ IsFiniteSet(Missing) /\ BackfillBatch \in Int
    <3>1. Missing \subseteq Days
      BY DEF Missing
    <3>2. IsFiniteSet(Missing)
      BY <3>1, DaysAssumption, FS_Subset
    <3> QED BY <3>1, <3>2, DaysAssumption, PagesAssumption
  <2>4. page \in SUBSET Missing /\ IsFiniteSet(page) /\ Cardinality(page) \in Nat
    <3>1. page \subseteq Missing
      BY DEF FirstOf
    <3> QED BY <2>3, <3>1, FS_Subset, FS_CardinalityType
  <2>5. ASSUME NEW d \in Days, d \notin page, ~loop.hadFailure
        PROVE  Covered(d) \/ (Cardinality(page) >= BackfillBatch /\ \A p \in page : p < d)
    <3>1. CASE d \notin Missing
      <4>1. d \in Nat /\ loop.backfillCursor \in Nat
        BY <1>5, <2>5
      <4>2. CASE d <= loop.backfillCursor
        BY <2>5, <4>2 DEF CursorCovered
      <4>3. CASE d > loop.backfillCursor
        BY <3>1, <4>3 DEF Missing, Covered
      <4> QED BY <4>1, <4>2, <4>3
    <3>2. CASE d \in Missing
      <4>1. Cardinality(page) >= BackfillBatch
        BY <2>3, <2>4, <2>5, <3>2, ShortBatchIsAll
      <4>2. ASSUME NEW p \in page PROVE p < d
        <5>1. p \in Nat /\ d \in Nat
          BY <2>3, <2>4, <3>2
        <5>2. ~(d <= p)
          BY <2>3, <2>5, <3>2, FirstOfIsPrefix
        <5> QED BY <5>1, <5>2
      <4> QED BY <4>1, <4>2
    <3> QED BY <3>1, <3>2
  <2>6. PageCovered'
    BY <1>3, <2>2, <2>5 DEF PageCovered, Filling, Beyond
  <2>7. BackfillForgetsNothing' /\ CursorCovered'
    BY <1>3, <2>2 DEF BackfillForgetsNothing, CursorCovered
  <2>8. FilledCounted'
    BY <2>2, <2>4 DEF FilledCounted, Filling
  <2> QED BY <1>2, <1>4, <2>2, <2>6, <2>7, <2>8 DEF LoopAtPage
<1> QED BY <1>6, <1>7

\* The end of a page.  A short one ends the history unless a day failed: nothing
\* lies beyond it.  A full one without a failure filled a page, so it ends nothing.
LEMMA EndedFill ==
  ASSUME StatsInv, BackfillInv, EndFill
  PROVE  BackfillInv'
<1> USE DEF BackfillInv
<1>1. loop \in Loops /\ loop.step = "fill" /\ loop.todo = {}
  BY DEF StatsInv, TypeOK, EndFill
<1>2. work' = work /\ [Next]_vars
  BY DEF EndFill, LoopOnly, Next, LoopStep
<1>3. \A d \in Days : Covered(d) => Covered(d)'
  BY <1>2, StaysCovered
<1>4. work["loop"].day = 0
  BY <1>1 DEF LoopAtPage
<1>5. ~loop.hadFailure => \A d \in Days : Covered(d) \/ Beyond(d)
  BY <1>1 DEF PageCovered, Filling
<1>6. /\ Cardinality(loop.page) \in Nat /\ loop.filled \in Nat /\ BackfillBatch \in Nat
      /\ loop.page \in SUBSET Days
  <2>1. loop.page \in SUBSET Days /\ loop.filled \in Nat
    BY <1>1 DEF Loops
  <2> QED BY <2>1, DaysAssumption, PagesAssumption, FS_Subset, FS_CardinalityType
<1>7. ASSUME NEW cursor \in Days \cup {0}, loop' = FillEnded(cursor)
      PROVE  /\ loop'.step \in {"backfill", "refresh"} /\ loop'.todo = {}
             /\ loop'.backfillCursor = cursor
             /\ loop'.complete = (loop.filled < BackfillBatch /\ ~loop.hadFailure)
             /\ loop'.hadFailure = (loop.hadFailure /\ cursor # 0)
  BY <1>1, <1>7 DEF FillEnded, Loops
<1>8. CASE Cardinality(loop.page) < BackfillBatch
  <2>1. loop' = FillEnded(0)
    BY <1>6, <1>8 DEF EndFill
  <2>2. ~loop.hadFailure => \A d \in Days : Covered(d)'
    <3>1. \A d : ~Beyond(d)
      BY <1>6, <1>8 DEF Beyond
    <3> QED BY <1>3, <1>5, <3>1
  <2>3. /\ loop'.step # "fill" /\ loop'.todo = {} /\ loop'.backfillCursor = 0
        /\ loop'.complete => ~loop.hadFailure
    BY <1>7, <2>1
  <2>4. BackfillForgetsNothing'
    BY <2>2, <2>3 DEF BackfillForgetsNothing
  <2>5. CursorCovered'
    <3>1. \A d \in Days : ~(d <= 0)
      BY DaysAssumption
    <3> QED BY <2>3, <3>1 DEF CursorCovered
  <2> QED BY <1>2, <1>4, <2>3, <2>4, <2>5 DEF PageCovered, FilledCounted, Filling, LoopAtPage
<1>9. CASE Cardinality(loop.page) >= BackfillBatch
  <2>1. PICK last \in loop.page : loop' = FillEnded(last)
    BY <1>6, <1>9 DEF EndFill
  <2>2. last \in Days /\ last # 0
    BY <1>6, DaysAssumption
  <2>3. ~loop.hadFailure => loop.filled >= BackfillBatch
    <3>1. Cardinality(loop.todo) = 0
      BY <1>1, FS_EmptySet
    <3> QED BY <1>1, <1>6, <1>9, <3>1 DEF FilledCounted, Filling
  <2>4. ~loop.hadFailure => \A d \in Days : d <= last => Covered(d)'
    <3>1. \A d \in Days : d <= last => ~Beyond(d)
      BY <2>1, <2>2, DaysAssumption DEF Beyond
    <3> QED BY <1>3, <1>5, <3>1
  <2>5. /\ loop'.step # "fill" /\ loop'.todo = {} /\ loop'.backfillCursor = last
        /\ loop'.complete = (loop.filled < BackfillBatch /\ ~loop.hadFailure)
        /\ loop'.hadFailure = (loop.hadFailure /\ last # 0)
    BY <1>7, <2>1, <2>2
  <2>6. ~loop'.complete
    <3>1. loop.hadFailure \in BOOLEAN
      BY <1>1 DEF Loops
    <3>2. ~(loop.filled < BackfillBatch /\ ~loop.hadFailure)
      BY <1>6, <2>3
    <3> QED BY <2>5, <3>1, <3>2
  <2>7. ~loop'.hadFailure => ~loop.hadFailure
    BY <2>2, <2>5
  <2>8. BackfillForgetsNothing' /\ CursorCovered'
    BY <2>4, <2>5, <2>6, <2>7 DEF BackfillForgetsNothing, CursorCovered
  <2> QED BY <1>2, <1>4, <2>5, <2>8 DEF PageCovered, FilledCounted, Filling, LoopAtPage
<1> QED BY <1>6, <1>8, <1>9

LEMMA InitBackfill == Init => BackfillInv
BY DaysAssumption DEF Init, LoopStart, Idle, Workers, BackfillInv, BackfillForgetsNothing, CursorCovered,
   PageCovered, FilledCounted, Filling, LoopAtPage

LEMMA NextBackfill == StatsInv /\ BackfillInv /\ [Next]_vars => BackfillInv'
<1> SUFFICES ASSUME StatsInv, BackfillInv, [Next]_vars PROVE BackfillInv'
  OBVIOUS
<1> USE DEF StatsInv
<1>0. "loop" \in Workers /\ work \in [Workers -> Tasks] /\ loop \in Loops
  BY DEF Workers, TypeOK
<1>1. ASSUME UNCHANGED <<loop, work>> PROVE BackfillInv'
  BY <1>1, LoopAside
<1>2. CASE (\E r \in Rows, d \in Days \cup {0}, v \in Values : Write(r, d, v))
           \/ (\E c \in Cutoffs : RaiseCutoff(c)) \/ (\E r \in Rows : PurgeRow(r))
           \/ EndPurgeRows \/ PurgeRollups \/ PurgeMarks
  BY <1>1, <1>2 DEF Write, RaiseCutoff, PurgeRow, EndPurgeRows, PurgeRollups, PurgeMarks
<1>3. ASSUME NEW w \in Workers, NEW q \in Queries, RunQuery(w, q) PROVE BackfillInv'
  <2>1. loop' = loop /\ work'["loop"].day = work["loop"].day
    BY <1>0, <1>3 DEF RunQuery, WithAnswer, Tasks
  <2> QED BY <2>1, LoopAside
<1>4. ASSUME NEW w \in Workers, NEW ok \in BOOLEAN, DayEnds(w, ok), work[w].day \in Days,
             work' = [work EXCEPT ![w] = Idle], ok => Publish(w)
      PROVE  BackfillInv'
  <2>1. CASE w = "loop"
    <3>1. work'["loop"].day = 0
      BY <1>0, <1>4, <2>1 DEF Idle
    <3> QED BY <1>4, <2>1, <3>1, LoopDayEnds
  <2>2. CASE w # "loop"
    <3>1. loop' = loop /\ work'["loop"] = work["loop"]
      BY <1>0, <1>4, <2>2 DEF DayEnds
    <3> QED BY <3>1, LoopAside
  <2> QED BY <2>1, <2>2
<1>5. ASSUME NEW w \in Workers, Publish(w) PROVE BackfillInv'
  <2>1. work[w].day \in Days
    BY <1>0, <1>5 DEF Publish, Tasks
  <2> QED BY <1>4, <1>5, <2>1 DEF Publish
<1>6. ASSUME NEW w \in Workers, FailDay(w) PROVE BackfillInv'
  BY <1>4, <1>6, ReadersAssumption DEF FailDay
<1>7. ASSUME NEW w \in Readers, NEW d \in Days, ReaderRepairs(w, d) PROVE BackfillInv'
  <2>1. loop' = loop /\ work'["loop"] = work["loop"]
    BY <1>0, <1>7, ReadersAssumption DEF ReaderRepairs, StartDay
  <2> QED BY <2>1, LoopAside
<1>8. CASE LoopDay
  <2>1. PICK d \in FirstOf(loop.todo, 1) : StartDay("loop", d)
    BY <1>8 DEF LoopDay
  <2>2. loop' = loop /\ work'["loop"].day = d /\ d \in loop.todo
    BY <1>0, <1>8, <2>1 DEF LoopDay, StartDay, Started, FirstOf
  <2> QED BY <2>2, LoopAside
<1>9. CASE ListMissing
  BY <1>9, ListedMissing
<1>10. CASE EndFill
  BY <1>10, EndedFill
<1>11. CASE ListDirty \/ EndFix
  <2>1. work' = work /\ loop.todo = {}
    BY <1>11 DEF ListDirty, EndFix, LoopOnly, BackfillInv, LoopAtPage
  <2>2. /\ loop'.complete = loop.complete /\ loop'.hadFailure = loop.hadFailure
        /\ loop'.backfillCursor = loop.backfillCursor
        /\ loop'.step \in {"backfill", "refresh", "fix"}
        /\ loop'.step \in {"backfill", "refresh"} => loop'.todo = {}
    <3>1. CASE EndFix
      BY <1>0, <2>1, <3>1 DEF EndFix, Loops
    <3>2. CASE ListDirty /\ loop' = [loop EXCEPT !.dirtyCursor = 0]
      BY <1>0, <2>1, <3>2 DEF ListDirty, Loops
    <3>3. ASSUME NEW page, loop' = [loop EXCEPT !.step = "fix", !.page = page, !.todo = page]
          PROVE  /\ loop'.complete = loop.complete /\ loop'.hadFailure = loop.hadFailure
                 /\ loop'.backfillCursor = loop.backfillCursor /\ loop'.step = "fix"
      BY <1>0, <3>3 DEF Loops
    <3> QED BY <1>11, <3>1, <3>2, <3>3 DEF ListDirty
  <2>3. work["loop"].day = 0
    BY <2>1 DEF BackfillInv, LoopAtPage
  <2>4. \A d \in Days : Covered(d) => Covered(d)'
    BY StaysCovered
  <2> QED BY <2>1, <2>2, <2>3, <2>4
          DEF BackfillInv, BackfillForgetsNothing, CursorCovered, PageCovered, FilledCounted,
              Filling, LoopAtPage
<1>12. CASE Restart
  <2>1. loop' = LoopStart /\ work'["loop"].day = 0
    BY <1>0, <1>12, ReadersAssumption DEF Restart, Idle
  <2> QED BY <2>1, DaysAssumption
          DEF LoopStart, BackfillInv, BackfillForgetsNothing, CursorCovered, PageCovered,
              FilledCounted, Filling, LoopAtPage
<1>13. CASE UNCHANGED vars
  BY <1>1, <1>13 DEF vars
<1> QED BY <1>2, <1>3, <1>5, <1>6, <1>7, <1>8, <1>9, <1>10, <1>11, <1>12, <1>13
        DEF Next, LoopStep, DayStep

\* The backfill forgets no day: what recomputes that fail, are refused or are
\* overtaken, and pages cut off at their limit, leave undone is still marked, or the
\* backfill does not call itself complete.
THEOREM BackfillIsThorough == Spec => []BackfillInv
<1> QED BY InitBackfill, NextBackfill, CleanRollupsExact, PTL DEF Spec

-----------------------------------------------------------------------------
(* The loops of the server and the collector's passes.                      *)

\* What the closures of a loop make of its record.
LEMMA LoopSteps ==
  ASSUME NEW l \in LoopStates
  PROVE  /\ PassEnded(l) \in LoopStates /\ TimerFired(l) \in LoopStates
         /\ Requested(l) \in LoopStates /\ Stopped(l) \in LoopStates
         /\ LoopStarted \in LoopStates /\ LoopIdle \in LoopStates
BY DEF LoopStates, Timers, PassEnded, TimerFired, Requested, Stopped, LoopStarted, LoopIdle

LEMMA EndedLoop ==
  ASSUME NEW l \in LoopStates
  PROVE  /\ ~PassEnded(l).running
         /\ PassEnded(l).stopped = l.stopped
         /\ l.stopped => PassEnded(l).timer = l.timer
         /\ ~l.stopped => PassEnded(l).timer # "none"
         /\ ~l.stopped /\ l.pending => PassEnded(l).timer = "soon"
BY DEF LoopStates, Timers, PassEnded

LEMMA FiredLoop ==
  ASSUME NEW l \in LoopStates
  PROVE  /\ TimerFired(l).running /\ TimerFired(l).timer = "none"
         /\ TimerFired(l).stopped = l.stopped /\ TimerFired(l).pending = l.pending
BY DEF LoopStates, Timers, TimerFired

LEMMA RequestedLoop ==
  ASSUME NEW l \in LoopStates
  PROVE  /\ l.stopped => Requested(l) = l
         /\ ~l.stopped /\ l.timer # "none" => Requested(l) = TimerFired(l)
         /\ ~l.stopped /\ l.timer = "none" =>
              /\ Requested(l).pending /\ Requested(l).running = l.running
              /\ Requested(l).timer = "none" /\ ~Requested(l).stopped
BY DEF LoopStates, Timers, Requested

LEMMA StoppedLoop ==
  ASSUME NEW l \in LoopStates
  PROVE  Stopped(l).stopped /\ Stopped(l).timer = "none" /\ Stopped(l).running = l.running
BY DEF LoopStates, Timers, Stopped

LEMMA FreshPass == NoPass \in Passes /\ BeginPass \in Passes
<1>1. 0 \in 0..MaxStepsPerProject /\ {} \in SUBSET Projects
  BY JobAssumption
<1>2. NoPass \in Passes
  BY <1>1 DEF NoPass, Passes
<1> QED
  BY <1>2 DEF BeginPass, NoPass, Passes

\* The collector's loop when its pass ends.
LEMMA PassEndsInv ==
  ASSUME JobInv, GcPassEnds, jobLoop["gc"].running,
         server' = server, activeJob' = activeJob, asked' = asked, served' = served,
         UNCHANGED table, bounds' \in [errors : 0..MaxErrors, purges : 0..MaxPurges, boots : 0..MaxBoots]
  PROVE  JobInv'
<1> USE DEF JobInv
<1>1. jobLoop \in [JobLoops -> LoopStates]
  BY DEF JobTypeOK
<1> DEFINE g == jobLoop["gc"]
<1>2. /\ jobLoop' \in [JobLoops -> LoopStates]
      /\ jobLoop'["gc"] = PassEnded(g)
      /\ jobLoop'["retention"] = jobLoop["retention"]
  BY <1>1, LoopSteps DEF GcPassEnds, JobLoops
<1>3. /\ ~PassEnded(g).running
      /\ PassEnded(g).stopped = g.stopped
      /\ g.stopped => PassEnded(g).timer = g.timer
      /\ ~g.stopped => PassEnded(g).timer # "none"
      /\ ~g.stopped /\ g.pending => PassEnded(g).timer = "soon"
  BY <1>1, EndedLoop DEF JobLoops
<1>4. JobTypeOK'
  BY <1>2, JobAssumption DEF JobTypeOK, Passes, GcPassEnds, NoPass, table
<1>5. RequestsAreSoon'
  <2>1. server = "up" => ~g.stopped
    BY DEF StopsTogether, JobLoops
  <2>2. g.timer = "none"
    BY <1>1 DEF LoopGoesOn, JobLoops
  <2> QED
    BY <1>2, <1>3, <2>1, <2>2 DEF RequestsAreSoon
<1>6. LoopGoesOn'
  BY <1>2, <1>3 DEF LoopGoesOn, JobLoops, StopsTogether
<1>7. StopsTogether'
  BY <1>2, <1>3 DEF StopsTogether, JobLoops
<1>8. NothingAfterClose'
  BY <1>2, <1>3 DEF NothingAfterClose, GcPassEnds, JobLoops, StopsTogether
<1>9. PassInv'
  BY <1>2, <1>3 DEF PassInv, GcPassEnds, NoPass, BeginPass, AtProject
<1> QED
  BY <1>4, <1>5, <1>6, <1>7, <1>8, <1>9

\* Steps that leave the loops alone.
LEMMA LoopsRestInv ==
  ASSUME JobInv, server' = server, jobLoop' = jobLoop, activeJob' = activeJob, asked' = asked,
         JobTypeOK', PassInv'
  PROVE  JobInv'
<1> USE DEF JobInv
<1>1. RequestsAreSoon' /\ LoopGoesOn' /\ StopsTogether'
  BY DEF RequestsAreSoon, LoopGoesOn, StopsTogether
<1>2. NothingAfterClose'
  BY DEF NothingAfterClose, PassInv, JobLoops
<1> QED
  BY <1>1, <1>2

\* A step of a pass keeps it going; the project at hand is served.
LEMMA SteppedInv ==
  ASSUME JobInv, NEW p \in Projects, MayStep(p), NEW done \in BOOLEAN, Stepped(p, done),
         jobLoop' = jobLoop
  PROVE  /\ pass' \in Passes
         /\ served' \in SUBSET Projects
         /\ PassInv'
<1>1. PICK late \in {pass.late, TRUE} :
        pass' = [pass EXCEPT !.todo = IF done THEN @ \ {p} ELSE @,
                             !.steps = IF done THEN 0 ELSE @ + 1,
                             !.total = IF @ < MaxSteps THEN @ + 1 ELSE @,
                             !.late = late]
  BY DEF Stepped
<1>2. pass \in Passes
  BY DEF JobInv, JobTypeOK
<1>3. pass.at = "projects" /\ pass.steps < MaxStepsPerProject
  BY DEF MayStep, AtProject
<1>4. pass' \in Passes
  <2>1. MaxSteps \in Nat /\ MaxStepsPerProject \in Nat /\ late \in BOOLEAN
    BY <1>2, JobAssumption DEF Passes
  <2>2. /\ (IF done THEN pass.todo \ {p} ELSE pass.todo) \in SUBSET Projects
        /\ (IF done THEN 0 ELSE pass.steps + 1) \in 0..MaxStepsPerProject
        /\ (IF pass.total < MaxSteps THEN pass.total + 1 ELSE pass.total) \in Nat
    BY <1>2, <1>3, <2>1 DEF Passes
  <2> QED
    BY <1>1, <1>2, <2>1, <2>2 DEF Passes
<1>5. served' = served \cup {p} /\ served' \in SUBSET Projects
  BY DEF Stepped, JobInv, JobTypeOK
<1>6. pass'.at = "projects"
  BY <1>1, <1>2, <1>3 DEF Passes
<1>7. ASSUME NEW q \in Projects, AtProject(q)', pass'.steps > 0 PROVE q \in served'
  <2>1. ~done /\ pass'.todo = pass.todo
    BY <1>1, <1>2, <1>7 DEF Passes
  <2>2. q = p
    BY <2>1, <1>7, JobAssumption DEF AtProject, MayStep
  <2> QED
    BY <2>2, <1>5
<1>8. jobLoop'["gc"].running
  BY <1>3 DEF JobInv, PassInv
<1>9. PassInv'
  BY <1>6, <1>7, <1>8 DEF PassInv, AtProject
<1> QED
  BY <1>4, <1>5, <1>9

LEMMA SpendTyped ==
  ASSUME JobTypeOK, NEW what \in {"errors", "purges", "boots"}, NEW max, Spend(what, max),
         max = [errors |-> MaxErrors, purges |-> MaxPurges, boots |-> MaxBoots][what]
  PROVE  bounds' \in [errors : 0..MaxErrors, purges : 0..MaxPurges, boots : 0..MaxBoots]
BY JobAssumption DEF JobTypeOK, Spend

LEMMA GcPassInv == ASSUME JobInv, GcPass PROVE JobInv'
<1> DEFINE Typed == [errors : 0..MaxErrors, purges : 0..MaxPurges, boots : 0..MaxBoots]
<1>0. bounds \in Typed /\ (Spend("errors", MaxErrors) => bounds' \in Typed)
  BY SpendTyped DEF JobInv, JobTypeOK
<1>1. CASE GcDiscover
  <2>1. JobTypeOK'
    BY <1>1 DEF GcDiscover, JobInv, JobTypeOK, Passes, table, DiscoveredProjects
  <2>2. pass'.at = "projects" /\ pass'.steps = 0
    BY <1>1 DEF GcDiscover, JobInv, JobTypeOK, Passes, PassInv, BeginPass, NoPass
  <2>3. PassInv'
    BY <1>1, <2>2 DEF GcDiscover, JobInv, PassInv, AtProject
  <2> QED
    BY <1>1, <2>1, <2>3, LoopsRestInv DEF GcDiscover
<1>2. CASE GcDiscoverFails
  BY <1>0, <1>2, PassEndsInv DEF GcDiscoverFails, JobInv, PassInv
<1>3. CASE GcReturn
  BY <1>3, PassEndsInv DEF GcReturn, JobInv, PassInv, JobTypeOK
<1>4. ASSUME NEW p \in Projects, GcStart(p) PROVE JobInv'
  <2>1. rest' \in [Projects -> 0..RoundSteps]
    BY <1>4, JobAssumption DEF GcStart, JobInv, JobTypeOK
  <2>2. JobTypeOK' /\ PassInv'
    BY <1>4, <2>1, SteppedInv DEF GcStart, JobInv, JobTypeOK
  <2> QED
    BY <1>4, <2>2, LoopsRestInv DEF GcStart
<1>5. ASSUME NEW p \in Projects, GcAdvance(p) PROVE JobInv'
  <2>1. rest' \in [Projects -> 0..RoundSteps]
    BY <1>5, JobAssumption DEF GcAdvance, JobInv, JobTypeOK
  <2>2. PICK done \in BOOLEAN : Stepped(p, done)
    BY <1>5 DEF GcAdvance
  <2>3. JobTypeOK' /\ PassInv'
    BY <1>5, <2>1, <2>2, SteppedInv DEF GcAdvance, JobInv, JobTypeOK
  <2> QED
    BY <1>5, <2>3, LoopsRestInv DEF GcAdvance
<1>6. ASSUME NEW p \in Projects, GcBlocked(p) PROVE JobInv'
  <2>1. JobTypeOK' /\ PassInv'
    BY <1>6, SteppedInv, JobAssumption DEF GcBlocked, JobInv, JobTypeOK
  <2> QED
    BY <1>6, <2>1, LoopsRestInv DEF GcBlocked
<1>7. ASSUME NEW p \in Projects, GcThrows(p) PROVE JobInv'
  BY <1>0, <1>7, PassEndsInv DEF GcThrows, MayStep, AtProject, JobInv, PassInv
<1>8. ASSUME NEW p \in Projects, GcLeaveProject(p) PROVE JobInv'
  <2>1. pass' = [pass EXCEPT !.todo = @ \ {p}, !.steps = 0]
    BY <1>8 DEF GcLeaveProject, LeftAtBudget, JobInv, JobTypeOK, Passes
  <2>2. JobTypeOK'
    <3>1. 0 \in 0..MaxStepsPerProject /\ pass \in Passes /\ pass.todo \ {p} \in SUBSET Projects
      BY JobAssumption DEF JobInv, JobTypeOK, Passes
    <3>2. pass' \in Passes
      BY <2>1, <3>1 DEF Passes
    <3> QED
      BY <1>8, <3>2 DEF GcLeaveProject, JobInv, JobTypeOK, table
  <2>3. PassInv'
    BY <1>8, <2>1 DEF GcLeaveProject, AtProject, JobInv, JobTypeOK, Passes, PassInv
  <2> QED
    BY <1>8, <2>2, <2>3, LoopsRestInv DEF GcLeaveProject
<1> QED
  BY <1>1, <1>2, <1>3, <1>4, <1>5, <1>6, <1>7, <1>8 DEF GcPass

\* The collector's loop begins a pass: by its timer or by a request.
LEMMA BeginsInv ==
  ASSUME JobInv, NEW loops \in [JobLoops -> LoopStates], LoopsBecome(loops),
         ~jobLoop["gc"].running, loops["gc"].running
  PROVE  pass' = BeginPass /\ PassInv' /\ pass' \in Passes /\ served' = {}
<1>1. jobLoop' = loops /\ pass' = BeginPass /\ served' = {}
  BY DEF LoopsBecome, Begins
<1>2. BeginPass.at = "begun" /\ BeginPass.steps = 0
  BY DEF BeginPass, NoPass
<1> QED
  BY <1>1, <1>2, FreshPass DEF PassInv, AtProject

LEMMA TimersInv == ASSUME JobInv, GcTimer \/ RetentionTimer PROVE JobInv'
<1> USE DEF JobInv
<1>0. jobLoop["gc"] \in LoopStates /\ jobLoop["retention"] \in LoopStates
  BY DEF JobTypeOK, JobLoops
<1>1. CASE GcTimer
  <2> DEFINE g == jobLoop["gc"]
             loops == [jobLoop EXCEPT !["gc"] = TimerFired(@)]
  <2>1. /\ loops \in [JobLoops -> LoopStates] /\ loops["gc"] = TimerFired(g)
        /\ loops["retention"] = jobLoop["retention"]
    BY <1>0, LoopSteps DEF JobTypeOK, JobLoops
  <2>2. TimerFired(g).running /\ TimerFired(g).timer = "none" /\ TimerFired(g).stopped = g.stopped
    BY <1>0, FiredLoop
  <2>3. g.timer # "none" /\ ~g.running /\ ~g.stopped /\ server = "up"
    BY <1>1 DEF GcTimer, LoopGoesOn, StopsTogether, JobLoops, JobTypeOK
  <2>4. jobLoop' = loops /\ LoopsBecome(loops)
    BY <1>1 DEF GcTimer, LoopsBecome
  <2>5. PassInv' /\ pass' \in Passes /\ served' = {}
    BY <2>1, <2>2, <2>3, <2>4, BeginsInv
  <2>6. JobTypeOK'
    BY <1>1, <2>1, <2>4, <2>5 DEF GcTimer, JobTypeOK, table
  <2>7. LoopGoesOn' /\ StopsTogether'
    BY <1>1, <2>1, <2>2, <2>3, <2>4 DEF GcTimer, LoopGoesOn, StopsTogether, JobLoops
  <2>8. RequestsAreSoon' /\ NothingAfterClose'
    BY <1>1, <2>3 DEF GcTimer, RequestsAreSoon, NothingAfterClose
  <2> QED
    BY <2>5, <2>6, <2>7, <2>8
<1>2. CASE RetentionTimer
  <2> DEFINE r == jobLoop["retention"]
  <2>1. /\ jobLoop' \in [JobLoops -> LoopStates] /\ jobLoop'["retention"] = TimerFired(r)
        /\ jobLoop'["gc"] = jobLoop["gc"]
    BY <1>0, <1>2, LoopSteps DEF JobTypeOK, JobLoops, RetentionTimer
  <2>2. TimerFired(r).running /\ TimerFired(r).timer = "none" /\ TimerFired(r).stopped = r.stopped
    BY <1>0, FiredLoop
  <2>3. r.timer # "none" /\ ~r.stopped /\ server = "up"
    BY <1>2 DEF RetentionTimer, StopsTogether, JobLoops, JobTypeOK
  <2>4. JobTypeOK' /\ PassInv'
    BY <1>2, <2>1 DEF RetentionTimer, JobTypeOK, PassInv, AtProject, table
  <2>5. LoopGoesOn' /\ StopsTogether'
    BY <1>2, <2>1, <2>2, <2>3 DEF RetentionTimer, LoopGoesOn, StopsTogether, JobLoops
  <2>6. RequestsAreSoon' /\ NothingAfterClose'
    BY <1>2, <2>1, <2>3 DEF RetentionTimer, RequestsAreSoon, NothingAfterClose
  <2> QED
    BY <2>4, <2>5, <2>6
<1> QED
  BY <1>1, <1>2

\* The request at the end of a retention pass finds the collector's loop waiting,
\* running or, when the server stops, not at all.
LEMMA RetentionEndsInv == ASSUME JobInv, RetentionEnds PROVE JobInv'
<1> USE DEF JobInv
<1> DEFINE g == jobLoop["gc"]
           r == jobLoop["retention"]
           ended == [jobLoop EXCEPT !["retention"] = PassEnded(@)]
           both == [ended EXCEPT !["gc"] = Requested(@)]
<1>0. g \in LoopStates /\ r \in LoopStates /\ jobLoop \in [JobLoops -> LoopStates]
  BY DEF JobTypeOK, JobLoops
<1>1. /\ ended \in [JobLoops -> LoopStates]
      /\ ended["retention"] = PassEnded(r) /\ ended["gc"] = g
      /\ both \in [JobLoops -> LoopStates]
      /\ both["retention"] = PassEnded(r) /\ both["gc"] = Requested(g)
  BY <1>0, LoopSteps DEF JobLoops
<1>2. /\ ~PassEnded(r).running /\ PassEnded(r).stopped = r.stopped
      /\ r.stopped => PassEnded(r).timer = r.timer
      /\ ~r.stopped => PassEnded(r).timer # "none"
  BY <1>0, EndedLoop
<1>3. UNCHANGED <<server, activeJob, table, bounds>> /\ server # "down"
  BY DEF RetentionEnds, StopsTogether, JobLoops
<1>4. CASE activeJob /\ LoopsBecome(both) /\ asked' = ~Begins(both)
  <2>1. server = "up" /\ ~g.stopped /\ ~r.stopped
    BY <1>4 DEF StopsTogether, JobLoops
  <2>2. jobLoop' = both
    BY <1>4 DEF LoopsBecome
  <2>3. CASE g.timer # "none"
    <3>1. ~g.running
      BY <2>3 DEF LoopGoesOn, JobLoops
    <3>2. Requested(g).running /\ Requested(g).timer = "none" /\ ~Requested(g).stopped
      BY <1>0, <2>1, <2>3, RequestedLoop, FiredLoop
    <3>3. PassInv' /\ pass' \in Passes /\ served' = {} /\ Begins(both)
      BY <1>1, <1>4, <3>1, <3>2, BeginsInv DEF Begins
    <3>4. JobTypeOK'
      BY <1>1, <1>3, <1>4, <2>2, <3>3 DEF JobTypeOK, table
    <3>5. LoopGoesOn' /\ StopsTogether'
      BY <1>1, <1>2, <1>3, <2>1, <2>2, <3>2 DEF LoopGoesOn, StopsTogether, JobLoops
    <3>6. RequestsAreSoon' /\ NothingAfterClose'
      BY <1>3, <1>4, <2>1, <3>3 DEF RequestsAreSoon, NothingAfterClose
    <3> QED
      BY <3>3, <3>4, <3>5, <3>6
  <2>4. CASE g.timer = "none"
    <3>1. g.running
      BY <2>1, <2>4 DEF LoopGoesOn, JobLoops
    <3>2. /\ Requested(g).running /\ Requested(g).timer = "none" /\ ~Requested(g).stopped
          /\ Requested(g).pending
      BY <1>0, <2>1, <2>4, <3>1, RequestedLoop
    <3>3. ~Begins(both) /\ pass' = pass /\ served' = served
      BY <1>4, <3>1 DEF LoopsBecome, Begins
    <3>4. JobTypeOK'
      BY <1>1, <1>3, <1>4, <2>2, <3>3 DEF JobTypeOK, table
    <3>5. LoopGoesOn' /\ StopsTogether'
      BY <1>1, <1>2, <1>3, <2>1, <2>2, <3>2 DEF LoopGoesOn, StopsTogether, JobLoops
    <3>6. RequestsAreSoon' /\ NothingAfterClose'
      BY <1>1, <1>3, <2>1, <2>2, <3>2 DEF RequestsAreSoon, NothingAfterClose
    <3>7. PassInv'
      BY <1>1, <2>2, <3>1, <3>2, <3>3 DEF PassInv, AtProject
    <3> QED
      BY <3>4, <3>5, <3>6, <3>7
  <2> QED
    BY <2>3, <2>4
<1>5. CASE ~activeJob /\ LoopsBecome(ended) /\ UNCHANGED asked
  <2>1. server # "up" /\ r.stopped /\ r.timer = "none"
    BY <1>3, <1>5 DEF StopsTogether, JobLoops, JobTypeOK
  <2>2. jobLoop' = ended /\ pass' = pass /\ served' = served
    BY <1>1, <1>5 DEF LoopsBecome, Begins
  <2>3. JobTypeOK'
    BY <1>1, <1>3, <1>5, <2>2 DEF JobTypeOK, table
  <2>4. LoopGoesOn' /\ StopsTogether'
    BY <1>1, <1>2, <1>3, <2>1, <2>2 DEF LoopGoesOn, StopsTogether, JobLoops
  <2>5. RequestsAreSoon' /\ NothingAfterClose'
    BY <1>1, <1>2, <1>3, <2>1, <2>2 DEF RequestsAreSoon, NothingAfterClose, JobLoops
  <2>6. PassInv'
    BY <1>1, <2>2 DEF PassInv, AtProject
  <2> QED
    BY <2>3, <2>4, <2>5, <2>6
<1> QED
  BY <1>4, <1>5 DEF RetentionEnds

\* Start, shutdown and end of the process.
LEMMA ServerInv == ASSUME JobInv, Boot \/ ShutDown \/ CloseDatabase \/ Exit PROVE JobInv'
<1> USE DEF JobInv
<1>0. LoopStarted \in LoopStates /\ LoopIdle \in LoopStates
  BY DEF LoopStarted, LoopIdle, LoopStates, Timers
<1>1. CASE Boot
  <2>1. bounds' \in [errors : 0..MaxErrors, purges : 0..MaxPurges, boots : 0..MaxBoots]
    BY <1>1, SpendTyped DEF Boot
  <2>2. JobTypeOK'
    BY <1>0, <1>1, <2>1, FreshPass DEF Boot, JobTypeOK, table
  <2> QED
    BY <1>1, <2>2 DEF Boot, LoopStarted, BeginPass, NoPass, RequestsAreSoon, LoopGoesOn,
       NothingAfterClose, StopsTogether, PassInv, AtProject, JobLoops
<1>2. CASE ShutDown
  <2>1. \A l \in JobLoops : jobLoop[l] \in LoopStates
    BY DEF JobTypeOK
  <2>2. \A l \in JobLoops :
          /\ jobLoop'[l].stopped /\ jobLoop'[l].timer = "none"
          /\ jobLoop'[l].running = jobLoop[l].running
    BY <1>2, <2>1, StoppedLoop DEF ShutDown
  <2>3. JobTypeOK'
    BY <1>2, <2>1, LoopSteps DEF ShutDown, JobTypeOK, table
  <2>4. LoopGoesOn' /\ StopsTogether' /\ RequestsAreSoon' /\ NothingAfterClose'
    BY <1>2, <2>2 DEF ShutDown, LoopGoesOn, StopsTogether, RequestsAreSoon, NothingAfterClose
  <2>5. PassInv'
    BY <1>2, <2>2 DEF ShutDown, PassInv, AtProject, JobLoops
  <2> QED
    BY <2>3, <2>4, <2>5
<1>3. CASE CloseDatabase
  <2>1. JobTypeOK' /\ PassInv'
    BY <1>3 DEF CloseDatabase, JobTypeOK, PassInv, AtProject, table
  <2>2. LoopGoesOn' /\ StopsTogether' /\ RequestsAreSoon'
    BY <1>3 DEF CloseDatabase, JobsHaveStopped, LoopGoesOn, StopsTogether, RequestsAreSoon
  <2>3. NothingAfterClose'
    BY <1>3 DEF CloseDatabase, JobsHaveStopped, NothingAfterClose, StopsTogether, PassInv, JobLoops
  <2> QED
    BY <2>1, <2>2, <2>3
<1>4. CASE Exit
  <2>1. JobTypeOK'
    BY <1>0, <1>4, FreshPass DEF Exit, JobTypeOK, table
  <2> QED
    BY <1>4, <2>1 DEF Exit, LoopIdle, LoopStarted, NoPass, RequestsAreSoon, LoopGoesOn,
       NothingAfterClose, StopsTogether, PassInv, AtProject, JobLoops
<1> QED
  BY <1>1, <1>2, <1>3, <1>4

LEMMA TablesInv ==
  ASSUME JobInv, NEW p \in Projects,
         PurgeChunk(p) \/ WriteRoot(p) \/ ClearBlocked(p) \/ SpoilState(p)
  PROVE  JobInv'
<1>1. PurgeChunk(p) => bounds' \in [errors : 0..MaxErrors, purges : 0..MaxPurges, boots : 0..MaxBoots]
  BY SpendTyped DEF PurgeChunk, JobInv
<1>2. RoundSteps \in Nat
  BY JobAssumption
<1>3. JobTypeOK'
  BY <1>1, <1>2, JobAssumption
  DEF PurgeChunk, WriteRoot, ClearBlocked, SpoilState, JobInv, JobTypeOK
<1>4. PassInv' /\ UNCHANGED <<server, jobLoop, activeJob, asked>>
  BY DEF PurgeChunk, WriteRoot, ClearBlocked, SpoilState, JobInv, PassInv, AtProject
<1> QED
  BY <1>3, <1>4, LoopsRestInv

\* The shutdown, the requests and the passes of any number of projects: two loops go
\* on until they are stopped, and nothing is at work once the database is closed.
THEOREM JobsAreSound == JobSpec => []JobInv
<1>1. JobInit => JobInv
  <2> SUFFICES ASSUME JobInit PROVE JobInv
    OBVIOUS
  <2>1. LoopIdle \in LoopStates
    BY DEF LoopIdle, LoopStarted, LoopStates, Timers
  <2>2. 0 \in 0..RoundSteps /\ 0 \in 0..MaxErrors /\ 0 \in 0..MaxPurges /\ 0 \in 0..MaxBoots
    BY JobAssumption
  <2>3. JobTypeOK
    BY <2>1, <2>2, FreshPass DEF JobInit, JobTypeOK
  <2>4. \A l \in JobLoops :
          ~jobLoop[l].running /\ ~jobLoop[l].stopped /\ jobLoop[l].timer = "none"
    BY DEF JobInit, LoopIdle, LoopStarted
  <2>5. pass = NoPass /\ NoPass.at = "none"
    BY DEF JobInit, NoPass
  <2> QED
    BY <2>3, <2>4, <2>5
    DEF JobInit, JobInv, RequestsAreSoon, LoopGoesOn, NothingAfterClose, StopsTogether, PassInv,
        AtProject, JobLoops
<1>2. JobInv /\ [JobNext]_jobVars => JobInv'
  <2> SUFFICES ASSUME JobInv, [JobNext]_jobVars PROVE JobInv'
    OBVIOUS
  <2>1. CASE JobStep
    BY <2>1, GcPassInv, TimersInv, RetentionEndsInv DEF JobStep
  <2>2. CASE Boot \/ ShutDown \/ CloseDatabase \/ Exit
    BY <2>2, ServerInv
  <2>3. CASE \E p \in Projects : PurgeChunk(p) \/ WriteRoot(p) \/ ClearBlocked(p) \/ SpoilState(p)
    BY <2>3, TablesInv
  <2>4. CASE UNCHANGED jobVars
    BY <2>4 DEF jobVars, table, JobInv, JobTypeOK, RequestsAreSoon, LoopGoesOn, NothingAfterClose,
       StopsTogether, PassInv, AtProject
  <2> QED
    BY <2>1, <2>2, <2>3, <2>4 DEF JobNext
<1> QED
  BY <1>1, <1>2, PTL DEF JobSpec

\* A pass leaves no project behind without a step, whatever the budgets.
THEOREM PassesServeAll == JobSpec => EveryProjectServed
<1> DEFINE Through ==
      pass.at = "projects" /\ pass'.at = "projects" => pass.todo \ pass'.todo \subseteq served'
<1>1. ASSUME JobInv, JobNext, pass.at = "projects", pass'.at = "projects" PROVE Through
  <2>1. pass \in Passes
    BY <1>1 DEF JobInv, JobTypeOK
  <2>2. CASE pass' = pass
    BY <2>2
  <2>3. ASSUME NEW p \in Projects, MayStep(p), NEW done \in BOOLEAN, Stepped(p, done) PROVE Through
    BY <2>1, <2>3 DEF Stepped, Passes
  <2>4. ASSUME NEW p \in Projects, GcLeaveProject(p) PROVE Through
    <3>1. pass.steps > 0 /\ AtProject(p)
      BY <2>1, <2>4, JobAssumption DEF GcLeaveProject, OverBudget, Passes
    <3>2. p \in served /\ served' = served /\ pass'.todo = pass.todo \ {p}
      BY <1>1, <2>1, <2>4, <3>1 DEF GcLeaveProject, LeftAtBudget, JobInv, PassInv, Passes
    <3> QED
      BY <3>2
  <2>5. CASE GcPass
    <3>1. ~GcDiscover /\ ~GcDiscoverFails /\ ~GcReturn
      BY <1>1 DEF GcDiscover, GcDiscoverFails, GcReturn, GcPassEnds, NoPass
    <3>2. ASSUME NEW p \in Projects, GcStart(p) \/ GcAdvance(p) \/ GcBlocked(p) PROVE Through
      BY <2>3, <3>2 DEF GcStart, GcAdvance, GcBlocked
    <3>3. ASSUME NEW p \in Projects, GcThrows(p) PROVE FALSE
      BY <1>1, <3>3 DEF GcThrows, GcPassEnds, NoPass
    <3> QED
      BY <2>4, <2>5, <3>1, <3>2, <3>3 DEF GcPass
  <2>6. CASE GcTimer \/ RetentionTimer \/ RetentionEnds \/ Boot \/ ShutDown \/ CloseDatabase \/ Exit
    BY <1>1, <2>2, <2>6 DEF GcTimer, RetentionTimer, RetentionEnds, Boot, ShutDown, CloseDatabase,
       Exit, LoopsBecome, BeginPass, NoPass
  <2>7. CASE \E p \in Projects : PurgeChunk(p) \/ WriteRoot(p) \/ ClearBlocked(p) \/ SpoilState(p)
    BY <2>2, <2>7 DEF PurgeChunk, WriteRoot, ClearBlocked, SpoilState
  <2> QED
    BY <1>1, <2>5, <2>6, <2>7 DEF JobNext, JobStep
<1>2. JobInv /\ [JobNext]_jobVars => [Through]_jobVars
  BY <1>1
<1> QED
  BY <1>2, JobsAreSound, PTL DEF JobSpec, EveryProjectServed
=============================================================================
