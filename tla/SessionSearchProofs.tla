------------------------ MODULE SessionSearchProofs ------------------------
(***************************************************************************)
(* The search index is right for any number of sources, texts, indexers    *)
(* and any page sizes: SearchInv is inductive.                             *)
(***************************************************************************)
EXTENDS SessionSearch, CollectionProofs

LEMMA InitSearch == Init => SearchInv
<1> SUFFICES ASSUME Init PROVE SearchInv
  OBVIOUS
<1> USE DEF Init
<1>1. TypeOK
  BY TextsAssumption DEF TypeOK, FreshWorker, Workers, Steps
<1>2. Dirty = {}
  BY DEF Dirty
<1>3. PendingExact
  BY <1>2, FS_EmptySet DEF PendingExact
<1>4. CursorsCover
  BY SourcesAssumption DEF CursorsCover, Covered
<1>5. WorkCurrent
  BY DEF WorkCurrent, FreshWorker
<1> QED BY <1>1, <1>3, <1>4, <1>5
        DEF SearchInv, ShownIsCurrent, SettledIsIndexed, TextsExact, QueueCurrent

\* Queueing sources, with a change of theirs or without, keeps what is known of the
\* others and voids what was read of them.
LEMMA MarkDirtyInv ==
  ASSUME SearchInv, NEW S \in SUBSET Sources, MarkDirty(S), UNCHANGED projection,
         \A s \in Sources \ S : text'[s] = text[s],
         \A s \in Sources : s \notin rows' => text'[s] = {},
         \A i \in Indexers : \/ worker'[i] = worker[i]
                             \/ worker'[i].pc = "list" /\ worker'[i].batch = worker[i].batch
  PROVE  /\ ShownIsCurrent' /\ SettledIsIndexed' /\ TextsExact' /\ PendingExact'
         /\ QueueCurrent' /\ WorkCurrent'
         /\ revision' \in [Sources -> Nat] /\ queued' \in [Sources -> Nat]
         /\ retry' \in [Sources -> {"now", "soon", "later"}]
         /\ index' \in [known : BOOLEAN, coverage : {"new", "error", "limited"},
                        pending : Nat, error : BOOLEAN]
<1> USE DEF SearchInv, MarkDirty, projection
<1>1. IsFiniteSet(Dirty) /\ IsFiniteSet(S \ Dirty)
  BY FS_Subset, SourcesAssumption DEF Dirty
<1>2. \A s \in Sources : revision[s] \in Nat /\ queued[s] \in Nat /\ version[s] \in Nat
  BY DEF TypeOK
<1>3. \A s \in Sources : /\ revision'[s] = IF s \in S THEN revision[s] + 1 ELSE revision[s]
                         /\ queued'[s] = IF s \in S THEN revision[s] + 1 ELSE queued[s]
  OBVIOUS
<1>4. Dirty' = Dirty \cup (S \ Dirty)
  BY <1>2, <1>3 DEF Dirty
<1>5. Cardinality(Dirty') = Cardinality(Dirty) + Cardinality(S \ Dirty)
  <2>1. Dirty \cap (S \ Dirty) = {}
    OBVIOUS
  <2>2. Cardinality(Dirty \cap (S \ Dirty)) = 0
    BY <2>1, FS_EmptySet
  <2>3. Cardinality(Dirty) \in Nat /\ Cardinality(S \ Dirty) \in Nat
    BY <1>1, FS_CardinalityType
  <2>4. Cardinality(Dirty \cup (S \ Dirty)) =
          Cardinality(Dirty) + Cardinality(S \ Dirty) - Cardinality(Dirty \cap (S \ Dirty))
    BY <1>1, FS_Union
  <2> QED BY <1>4, <2>2, <2>3, <2>4
<1>6. /\ index'.pending = index.pending + Cardinality(S \ Dirty)
      /\ index'.coverage = index.coverage
      /\ index' \in [known : BOOLEAN, coverage : {"new", "error", "limited"},
                     pending : Nat, error : BOOLEAN]
  <2> DEFINE known == index.known \/ S \ Dirty # {}
             pending == index.pending + Cardinality(S \ Dirty)
  <2>1. Cardinality(S \ Dirty) \in Nat
    BY <1>1, FS_CardinalityType
  <2>2. pending \in Nat
    BY <2>1 DEF TypeOK
  <2>3. known \in BOOLEAN
    BY Zenon DEF TypeOK
  <2>4. index' = [index EXCEPT !.known = known, !.pending = pending]
    OBVIOUS
  <2> HIDE DEF known, pending
  <2>5. /\ index'.pending = pending /\ index'.coverage = index.coverage
        /\ index' \in [known : BOOLEAN, coverage : {"new", "error", "limited"},
                       pending : Nat, error : BOOLEAN]
    BY <2>2, <2>3, <2>4 DEF TypeOK
  <2> QED BY <2>5 DEF pending
<1>7. PendingExact'
  BY <1>5, <1>6 DEF PendingExact
<1>8. QueueCurrent'
  BY <1>2, <1>3 DEF QueueCurrent
<1>9. ShownIsCurrent'
  BY <1>2, <1>3 DEF ShownIsCurrent, QueueCurrent
<1>10. SettledIsIndexed'
  <2> SUFFICES ASSUME NEW s \in Sources, revision'[s] > 0, s \notin Dirty'
               PROVE  Indexed(s)' \/ index'.coverage = "limited"
    BY DEF SettledIsIndexed
  <2>1. s \notin S /\ s \notin Dirty
    BY <1>4
  <2> QED BY <2>1, <1>3, <1>6 DEF SettledIsIndexed, Indexed
<1>11. TextsExact'
  BY DEF TextsExact
<1>12. WorkCurrent'
  <2> SUFFICES ASSUME NEW i \in Indexers
               PROVE  /\ \A job \in worker'[i].batch :
                           0 < job.revision /\ job.revision <= revision'[job.id]
                      /\ worker'[i].pc \in {"read", "index", "failed", "limit"} =>
                           /\ worker'[i].id \in Sources
                           /\ 0 < worker'[i].revision
                           /\ worker'[i].revision <= revision'[worker'[i].id]
                      /\ worker'[i].pc = "index" /\ worker'[i].revision = revision'[worker'[i].id]
                           => worker'[i].text = text'[worker'[i].id]
    BY DEF WorkCurrent
  <2>1. worker[i] \in Workers
    BY DEF TypeOK
  <2>2. \A job \in worker[i].batch : 0 < job.revision /\ job.revision <= revision'[job.id]
    BY <1>2, <1>3, <2>1 DEF WorkCurrent, Workers, Jobs
  <2>3. CASE worker'[i] = worker[i]
    BY <1>2, <1>3, <2>1, <2>2, <2>3 DEF WorkCurrent, Workers
  <2>4. CASE worker'[i].pc = "list" /\ worker'[i].batch = worker[i].batch
    BY <2>2, <2>4
  <2> QED BY <2>3, <2>4
<1>13. /\ revision' \in [Sources -> Nat] /\ queued' \in [Sources -> Nat]
       /\ retry' \in [Sources -> {"now", "soon", "later"}]
  BY DEF TypeOK
<1> QED BY <1>6, <1>7, <1>8, <1>9, <1>10, <1>11, <1>12, <1>13

LEMMA WriteInv ==
  ASSUME SearchInv, NEW s \in Sources,
         (\E c \in Texts : Write(s, c)) \/ Delete(s)
  PROVE  SearchInv'
<1> USE DEF SearchInv, Write, Delete
<1>1. MarkDirty({s}) /\ UNCHANGED <<projection, backfill, worker, restarts>>
  OBVIOUS
<1>2. /\ rows' \in SUBSET Sources /\ rows' \subseteq rows \cup {s}
      /\ text' \in [Sources -> Texts] /\ damaged' \in SUBSET Sources
      /\ \A x \in Sources \ {s} : text'[x] = text[x]
  <2>1. ASSUME NEW c \in Texts, rows' = rows \cup {s} \/ rows' = rows \ {s},
               text' = [text EXCEPT ![s] = c], damaged' = damaged \ {s}
        PROVE  /\ rows' \in SUBSET Sources /\ rows' \subseteq rows \cup {s}
               /\ text' \in [Sources -> Texts] /\ damaged' \in SUBSET Sources
               /\ \A x \in Sources \ {s} : text'[x] = text[x]
    BY <2>1 DEF TypeOK
  <2> QED BY <2>1, TextsAssumption
<1>3. \A x \in Sources : x \notin rows' => text'[x] = {}
  BY DEF TypeOK, QueueCurrent
<1>4. /\ ShownIsCurrent' /\ SettledIsIndexed' /\ TextsExact' /\ PendingExact'
      /\ QueueCurrent' /\ WorkCurrent' /\ revision' \in [Sources -> Nat]
      /\ queued' \in [Sources -> Nat] /\ retry' \in [Sources -> {"now", "soon", "later"}]
      /\ index' \in [known : BOOLEAN, coverage : {"new", "error", "limited"},
                     pending : Nat, error : BOOLEAN]
  <2> HIDE DEF Write, Delete, SearchInv
  <2> QED BY <1>1, <1>2, <1>3, MarkDirtyInv
<1>5. TypeOK'
  <2> HIDE DEF Write, Delete
  <2> QED BY <1>1, <1>2, <1>4 DEF TypeOK, projection
<1>6. CursorsCover'
  <2>1. \A x \in Sources : revision'[x] = IF x = s THEN revision[x] + 1 ELSE revision[x]
    BY <1>1 DEF MarkDirty
  <2>2. \A x \in Sources : revision[x] \in Nat
    BY DEF TypeOK
  <2> HIDE DEF Write, Delete
  <2> QED BY <1>1, <1>2, <2>1, <2>2 DEF CursorsCover, Covered
<1> QED BY <1>4, <1>5, <1>6

\* A page with a positive limit is empty only if nothing is left.
LEMMA EmptyPage ==
  ASSUME NEW S \in SUBSET Sources, NEW n \in Nat \ {0}, FirstOf(S, n) = {}
  PROVE  S = {}
<1>1. IsFiniteSet(S) /\ S \in SUBSET Nat
  BY FS_Subset, SourcesAssumption
<1>2. Cardinality(FirstOf(S, n)) < n
  BY FS_EmptySet
<1> QED BY <1>1, <1>2, ShortBatchIsAll

LEMMA EnqueueInv ==
  ASSUME SearchInv, NEW i \in Indexers, EnqueueBackfill(i)
  PROVE  SearchInv'
<1> USE DEF SearchInv, source, projection
<1> DEFINE restT == {s \in rows \cap Traces : s > backfill.traceCursor}
           restO == {s \in rows \cap Observations : s > backfill.observationCursor}
           pageT == FirstOf(restT, BackfillPage)
           pageO == FirstOf(restO, BackfillPage - Cardinality(pageT))
<1>0. PICK t \in EndOf(pageT, backfill.traceCursor), o \in EndOf(pageO, backfill.observationCursor) :
        backfill' = [coverage |-> IF HistoryDone(pageT, pageO) THEN "ready" ELSE "backfill",
                     traceCursor |-> t, observationCursor |-> o]
  BY DEF EnqueueBackfill
<1>1. /\ MarkDirty(pageT \cup pageO) /\ UNCHANGED <<source, projection, restarts>>
      /\ worker' = [worker EXCEPT ![i].pc = "list"]
  BY DEF EnqueueBackfill, Go
<1>2. /\ restT \in SUBSET Sources /\ restO \in SUBSET Sources
      /\ pageT \in SUBSET restT /\ pageO \in SUBSET restO
      /\ restT \in SUBSET Nat /\ restO \in SUBSET Nat
      /\ IsFiniteSet(restT) /\ IsFiniteSet(restO) /\ IsFiniteSet(pageT)
  <2>1. restT \in SUBSET Sources /\ restO \in SUBSET Sources
    BY DEF TypeOK
  <2>2. pageT \in SUBSET restT /\ pageO \in SUBSET restO
    BY DEF FirstOf
  <2> QED BY <2>1, <2>2, SourcesAssumption, FS_Subset
<1>3. BackfillPage - Cardinality(pageT) \in Int
  BY <1>2, FS_CardinalityType, SearchPagesAssumption
<1>4. t \in Sources \cup {0} /\ o \in Sources \cup {0}
  BY <1>0, <1>2 DEF EndOf, TypeOK
<1>5. \A j \in Indexers : worker'[j] \in Workers
  BY <1>1 DEF TypeOK, Workers, Steps
<1>6. \A j \in Indexers : \/ worker'[j] = worker[j]
                          \/ worker'[j].pc = "list" /\ worker'[j].batch = worker[j].batch
  BY <1>1 DEF TypeOK, Workers
<1>7. /\ ShownIsCurrent' /\ SettledIsIndexed' /\ TextsExact' /\ PendingExact'
      /\ QueueCurrent' /\ WorkCurrent' /\ revision' \in [Sources -> Nat]
      /\ queued' \in [Sources -> Nat] /\ retry' \in [Sources -> {"now", "soon", "later"}]
      /\ index' \in [known : BOOLEAN, coverage : {"new", "error", "limited"},
                     pending : Nat, error : BOOLEAN]
  <2> DEFINE S == pageT \cup pageO
  <2>1. S \in SUBSET Sources
    BY <1>2
  <2>2. \A s \in Sources \ S : text'[s] = text[s]
    BY <1>1
  <2>3. \A s \in Sources : s \notin rows' => text'[s] = {}
    BY <1>1 DEF QueueCurrent
  <2>4. MarkDirty(S) /\ UNCHANGED projection
    BY <1>1
  <2> HIDE DEF S, SearchInv, pageT, pageO
  <2> QED BY <1>6, <2>1, <2>2, <2>3, <2>4, MarkDirtyInv
<1>8. TypeOK'
  <2>1. backfill' \in [coverage : {"none", "backfill", "ready"},
                       traceCursor : Sources \cup {0}, observationCursor : Sources \cup {0}]
    BY <1>0, <1>4
  <2>2. worker' \in [Indexers -> Workers]
    BY <1>1, <1>5 DEF TypeOK
  <2> QED BY <1>1, <1>7, <2>1, <2>2 DEF TypeOK
<1>9. CursorsCover'
  <2>1. \A s \in Sources : /\ revision[s] \in Nat
                           /\ revision'[s] = IF s \in pageT \cup pageO THEN revision[s] + 1
                                             ELSE revision[s]
    BY <1>1 DEF MarkDirty, TypeOK
  <2>a. rows' = rows /\ rows \subseteq Sources
    BY <1>1 DEF TypeOK
  <2> SUFFICES ASSUME NEW s \in rows, Covered(s)', ~(revision'[s] > 0)
               PROVE  FALSE
    BY <2>a DEF CursorsCover
  <2>b. revision[s] = 0 /\ s \notin pageT \cup pageO
    <3>1. s \in Sources
      BY <2>a
    <3> HIDE DEF pageT, pageO
    <3> QED BY <2>1, <3>1
  <2>2. s \in Sources /\ s \in Nat /\ ~Covered(s)
    <3>1. s \in Sources /\ s \in Nat
      BY <2>a, SourcesAssumption
    <3>2. Covered(s) => revision[s] > 0
      BY DEF CursorsCover
    <3> HIDE DEF pageT, pageO
    <3> QED BY <3>1, <3>2, <2>b
  <2>3. backfill.traceCursor \in Nat /\ backfill.observationCursor \in Nat
    <3>1. backfill.traceCursor \in Sources \cup {0} /\ backfill.observationCursor \in Sources \cup {0}
      BY DEF TypeOK
    <3>2. Sources \cup {0} \subseteq Nat
      BY SourcesAssumption
    <3> HIDE DEF SearchInv, source, projection, pageT, pageO, restT, restO
    <3> QED BY <3>1, <3>2
  <2>4. CASE HistoryDone(pageT, pageO)
    <3>1. pageT = {} /\ pageO = {}
      BY <2>4 DEF HistoryDone
    <3>2. Cardinality(pageT) = 0
      BY <3>1, FS_EmptySet
    <3>3. BackfillPage - Cardinality(pageT) \in Nat \ {0}
      BY <3>2, SearchPagesAssumption
    <3>4. restT = {}
      <4> HIDE DEF restT
      <4> QED BY <1>2, <3>1, EmptyPage, SearchPagesAssumption
    <3>5. restO = {}
      <4> HIDE DEF restO
      <4> QED BY <1>2, <3>1, <3>3, EmptyPage
    <3> QED BY <2>2, <2>3, <3>4, <3>5 DEF Covered, Sources
  <2>5. CASE ~HistoryDone(pageT, pageO)
    <3>1. s <= IF s \in Traces THEN t ELSE o
      BY <1>0, <2>5 DEF Covered
    <3>2. CASE s \in Traces
      <4>1. s \in restT /\ t \in pageT
        BY <2>2, <2>3, <3>1, <3>2, <1>0 DEF Covered, EndOf
      <4>2. s \in pageT
        <5> HIDE DEF restT
        <5> QED BY <4>1, <3>1, <3>2, <1>2, FirstOfIsPrefix, SearchPagesAssumption
      <4> QED BY <4>2, <2>b
    <3>3. CASE s \notin Traces
      <4>1. s \in restO /\ o \in pageO
        BY <2>2, <2>3, <3>1, <3>3, <1>0 DEF Covered, EndOf, Sources
      <4>2. s \in pageO
        <5> HIDE DEF restO, pageT
        <5> QED BY <4>1, <3>1, <3>3, <1>2, <1>3, FirstOfIsPrefix
      <4> QED BY <4>2, <2>b
    <3> QED BY <3>2, <3>3
  <2> QED BY <2>4, <2>5
<1> QED BY <1>7, <1>8, <1>9

\* A source that leaves the queue, indexed or given up, takes its count with it.
LEMMA UnqueueInv ==
  ASSUME SearchInv, NEW s \in Sources, NEW v \in Nat, NEW error \in BOOLEAN,
         NEW coverage \in {"new", "error", "limited"}, Unqueue(s, v, coverage, error)
  PROVE  /\ PendingExact'
         /\ queued' \in [Sources -> Nat] /\ retry' \in [Sources -> {"now", "soon", "later"}]
         /\ index' \in [known : BOOLEAN, coverage : {"new", "error", "limited"},
                        pending : Nat, error : BOOLEAN]
         /\ index'.coverage = coverage
         /\ \A x \in Sources \ {s} : queued'[x] = queued[x]
         /\ queued'[s] \in {0, queued[s]}
         /\ queued[s] <= v => s \notin Dirty'
<1> USE DEF SearchInv, Unqueue
<1> DEFINE pending == IF s \in Dirty /\ queued[s] <= v THEN index.pending - 1 ELSE index.pending
<1>1. IsFiniteSet(Dirty)
  BY FS_Subset, SourcesAssumption DEF Dirty
<1>2. index.pending = Cardinality(Dirty) /\ Cardinality(Dirty) \in Nat
  BY <1>1, FS_CardinalityType DEF PendingExact
<1>3. s \in Dirty => Cardinality(Dirty) > 0
  BY <1>1, <1>2, FS_EmptySet
<1>4. pending \in Nat
  BY <1>2, <1>3
<1>5. /\ queued' = IF s \in Dirty /\ queued[s] <= v THEN [queued EXCEPT ![s] = 0] ELSE queued
      /\ retry' = IF s \in Dirty /\ queued[s] <= v THEN [retry EXCEPT ![s] = "now"] ELSE retry
  OBVIOUS
<1>6. index' = [known |-> TRUE, coverage |-> coverage, error |-> error, pending |-> pending]
  <2>1. CASE s \in Dirty /\ queued[s] <= v
    <3>1. index.pending >= 1 /\ pending = index.pending - 1
      BY <1>2, <1>3, <2>1
    <3> QED BY <2>1, <3>1
  <2>2. CASE ~(s \in Dirty /\ queued[s] <= v)
    <3>1. index.pending >= 0 /\ pending = index.pending - 0
      BY <1>2, <2>2
    <3> QED BY <2>2, <3>1
  <2> QED BY <2>1, <2>2
<1> HIDE DEF pending, Unqueue
<1>7. /\ index' \in [known : BOOLEAN, coverage : {"new", "error", "limited"},
                     pending : Nat, error : BOOLEAN]
      /\ index'.coverage = coverage /\ index'.pending = pending
  BY <1>4, <1>6
<1>8. /\ queued' \in [Sources -> Nat] /\ retry' \in [Sources -> {"now", "soon", "later"}]
      /\ \A x \in Sources \ {s} : queued'[x] = queued[x]
      /\ queued'[s] \in {0, queued[s]}
  BY <1>5 DEF TypeOK
<1>9. Dirty' = IF s \in Dirty /\ queued[s] <= v THEN Dirty \ {s} ELSE Dirty
  BY <1>5 DEF Dirty, TypeOK
<1>10. PendingExact'
  <2>1. Cardinality(Dirty') = pending
    BY <1>1, <1>2, <1>9, FS_RemoveElement DEF pending
  <2> QED BY <1>7, <2>1 DEF PendingExact
<1> QED BY <1>7, <1>8, <1>9, <1>10

\* What holds of workers when one of them moves on and nothing else changes.
LEMMA WorkInv ==
  ASSUME TypeOK, WorkCurrent, UNCHANGED <<text, revision>>, NEW i \in Indexers,
         NEW w \in Workers, worker' = [worker EXCEPT ![i] = w],
         w.batch \subseteq worker[i].batch,
         w.pc \in {"read", "index", "failed", "limit"} =>
           w.id \in Sources /\ 0 < w.revision /\ w.revision <= revision[w.id],
         w.pc = "index" /\ w.revision = revision[w.id] => w.text = text[w.id]
  PROVE  WorkCurrent' /\ worker' \in [Indexers -> Workers]
<1>1. worker' \in [Indexers -> Workers] /\ \A j \in Indexers : worker'[j] = IF j = i THEN w ELSE worker[j]
  BY DEF TypeOK
<1> QED BY <1>1 DEF WorkCurrent

\* What an indexer is about to do changes nothing but its own state.
LEMMA WorkerInv ==
  ASSUME SearchInv, NEW i \in Indexers, NEW w \in Workers,
         worker' = [worker EXCEPT ![i] = w],
         UNCHANGED <<source, revision, queued, projection, index, backfill>>,
         retry' \in [Sources -> {"now", "soon", "later"}], restarts' \in Nat,
         \A job \in w.batch : 0 < job.revision /\ job.revision <= revision[job.id],
         w.pc \in {"read", "index", "failed", "limit"} =>
           w.id \in Sources /\ 0 < w.revision /\ w.revision <= revision[w.id],
         w.pc = "index" /\ w.revision = revision[w.id] => w.text = text[w.id]
  PROVE  SearchInv'
<1> USE DEF SearchInv, source, projection
<1>1. /\ worker' \in [Indexers -> Workers]
      /\ \A j \in Indexers : worker'[j] = IF j = i THEN w ELSE worker[j]
  BY DEF TypeOK
<1>2. WorkCurrent'
  BY <1>1 DEF WorkCurrent
<1>3. TypeOK'
  BY <1>1 DEF TypeOK
<1>4. Dirty' = Dirty
  BY DEF Dirty
<1> QED BY <1>2, <1>3, <1>4
        DEF ShownIsCurrent, SettledIsIndexed, Indexed, TextsExact, PendingExact, CursorsCover,
            Covered, QueueCurrent

\* Steps of an indexer that change nothing but its own state and, for those that
\* wait, when they are due.
LEMMA PlainStepInv ==
  ASSUME SearchInv, NEW i \in Indexers,
         CheckBackfill(i) \/ ReadSource(i) \/ FailSource(i) \/ Restart(i)
  PROVE  SearchInv'
<1>0. /\ TypeOK /\ WorkCurrent /\ worker[i] \in Workers /\ text \in [Sources -> Texts]
      /\ Texts \subseteq SUBSET Chunks /\ restarts \in Nat
      /\ retry \in [Sources -> {"now", "soon", "later"}]
  BY TextsAssumption DEF SearchInv, TypeOK
<1>1. CASE CheckBackfill(i)
  <2>1. PICK pc \in {"list", "enqueue"} : worker' = [worker EXCEPT ![i] = [@ EXCEPT !.pc = pc]]
    BY <1>1 DEF CheckBackfill, Go
  <2> DEFINE w == [worker[i] EXCEPT !.pc = pc]
  <2>2. /\ w \in Workers /\ w.pc \in {"list", "enqueue"} /\ w.batch = worker[i].batch
        /\ worker' = [worker EXCEPT ![i] = w]
    BY <1>0, <2>1 DEF Workers, Steps
  <2>3. retry' \in [Sources -> {"now", "soon", "later"}]
    BY <1>0, <1>1 DEF CheckBackfill
  <2> HIDE DEF w
  <2> QED BY <1>0, <1>1, <2>2, <2>3, WorkerInv DEF CheckBackfill, WorkCurrent
<1>2. CASE ReadSource(i)
  <2>1. /\ worker[i].pc = "read" /\ worker[i].id \in Sources
        /\ UNCHANGED <<source, revision, queue, projection, index, backfill, restarts>>
    BY <1>0, <1>2 DEF ReadSource, WorkCurrent
  <2>2. PICK w \in Workers :
          /\ worker' = [worker EXCEPT ![i] = w] /\ w.batch = worker[i].batch
          /\ w.id = worker[i].id /\ w.revision = worker[i].revision
          /\ w.pc = "index" => w.text = text[w.id]
    <3>1. CASE worker[i].id \in damaged
      <4> DEFINE w == [worker[i] EXCEPT !.pc = "limit"]
      <4>1. worker' = [worker EXCEPT ![i] = w]
        BY <1>2, <3>1 DEF ReadSource, Go
      <4>2. /\ w \in Workers /\ w.batch = worker[i].batch /\ w.pc = "limit"
            /\ w.id = worker[i].id /\ w.revision = worker[i].revision
        BY <1>0 DEF Workers, Steps
      <4> HIDE DEF w
      <4> QED BY <4>1, <4>2
    <3>2. CASE worker[i].id \notin damaged
      <4>1. text[worker[i].id] \in SUBSET Chunks
        BY <1>0, <2>1
      <4> DEFINE w == [worker[i] EXCEPT !.pc = "index", !.text = text[worker[i].id]]
      <4>2. worker' = [worker EXCEPT ![i] = w]
        BY <1>0, <1>2, <3>2 DEF ReadSource, TypeOK
      <4>3. /\ w \in Workers /\ w.batch = worker[i].batch /\ w.text = text[worker[i].id]
            /\ w.id = worker[i].id /\ w.revision = worker[i].revision
        BY <1>0, <4>1 DEF Workers, Steps
      <4> HIDE DEF w
      <4> QED BY <4>2, <4>3
    <3> QED BY <3>1, <3>2
  <2> QED BY <1>0, <2>1, <2>2, WorkerInv DEF WorkCurrent, queue
<1>3. CASE FailSource(i)
  <2> DEFINE w == [worker[i] EXCEPT !.pc = "failed"]
  <2>1. /\ w \in Workers /\ w.pc = "failed" /\ w.batch = worker[i].batch
        /\ w.id = worker[i].id /\ w.revision = worker[i].revision
        /\ worker' = [worker EXCEPT ![i] = w]
    BY <1>0, <1>3 DEF Workers, Steps, FailSource, Go
  <2>2. /\ worker[i].pc \in {"read", "index"}
        /\ UNCHANGED <<source, revision, queue, projection, index, backfill, restarts>>
    BY <1>3 DEF FailSource
  <2> HIDE DEF w
  <2> QED BY <1>0, <2>1, <2>2, WorkerInv DEF WorkCurrent, queue
<1>4. CASE Restart(i)
  <2>1. FreshWorker \in Workers /\ FreshWorker.pc = "check" /\ FreshWorker.batch = {}
    BY DEF FreshWorker, Workers, Steps
  <2>2. /\ worker' = [worker EXCEPT ![i] = FreshWorker] /\ restarts' \in Nat
        /\ UNCHANGED <<source, revision, queue, projection, index, backfill>>
    BY <1>0, <1>4 DEF Restart
  <2> HIDE DEF FreshWorker
  <2> QED BY <1>0, <2>1, <2>2, WorkerInv DEF queue
<1> QED BY <1>1, <1>2, <1>3, <1>4

LEMMA ListInv ==
  ASSUME SearchInv, NEW i \in Indexers, ListDirty(i)
  PROVE  SearchInv'
<1>1. PICK S \in SUBSET Ready :
        worker' = [worker EXCEPT ![i].pc = "next", ![i].any = FALSE,
                     ![i].batch = {[id |-> s, revision |-> queued[s]] : s \in S}]
  BY DEF ListDirty
<1> DEFINE jobs == {[id |-> s, revision |-> queued[s]] : s \in S}
           w == [worker[i] EXCEPT !.pc = "next", !.any = FALSE, !.batch = jobs]
<1>2. /\ TypeOK /\ worker[i] \in Workers /\ \A s \in Sources : queued[s] \in Nat
      /\ \A s \in S : s \in Sources /\ queued[s] # 0 /\ queued[s] = revision[s]
  BY DEF SearchInv, TypeOK, Ready, Dirty, QueueCurrent
<1>3. /\ jobs \in SUBSET Jobs
      /\ \A job \in jobs : 0 < job.revision /\ job.revision <= revision[job.id]
  BY <1>2 DEF Jobs
<1>4. worker' = [worker EXCEPT ![i] = w]
  BY <1>1, <1>2 DEF TypeOK
<1> HIDE DEF jobs
<1>5. w \in Workers /\ w.pc = "next" /\ w.batch = jobs
  BY <1>2, <1>3 DEF Workers, Steps
<1>6. /\ UNCHANGED <<source, revision, queue, projection, index, backfill, restarts>>
      /\ retry \in [Sources -> {"now", "soon", "later"}] /\ restarts \in Nat
  BY DEF ListDirty, SearchInv, TypeOK
<1> HIDE DEF w
<1> QED BY <1>3, <1>4, <1>5, <1>6, WorkerInv DEF queue

LEMMA TakeInv ==
  ASSUME SearchInv, NEW i \in Indexers, TakeNext(i)
  PROVE  SearchInv'
<1>1. /\ UNCHANGED <<source, revision, queue, projection, index, backfill, restarts>>
      /\ retry \in [Sources -> {"now", "soon", "later"}] /\ restarts \in Nat
      /\ worker[i] \in Workers
      /\ \A job \in worker[i].batch : 0 < job.revision /\ job.revision <= revision[job.id]
  BY DEF TakeNext, SearchInv, TypeOK, WorkCurrent
<1>2. ASSUME NEW job \in worker[i].batch, NEW pc \in {"limit", "read"},
             worker' = [worker EXCEPT ![i] = [worker[i] EXCEPT !.pc = pc, !.batch = @ \ {job},
                                              !.id = job.id, !.revision = job.revision]]
      PROVE  SearchInv'
  <2> DEFINE w == [worker[i] EXCEPT !.pc = pc, !.batch = worker[i].batch \ {job},
                                    !.id = job.id, !.revision = job.revision]
  <2>1. job.id \in Sources /\ job.revision \in Nat
    BY <1>1 DEF Workers, Jobs
  <2>2. /\ w \in Workers /\ w.pc = pc /\ w.batch \subseteq worker[i].batch
        /\ w.id = job.id /\ w.revision = job.revision
    BY <1>1, <2>1 DEF Workers, Steps
  <2>3. worker' = [worker EXCEPT ![i] = w]
    BY <1>2
  <2> HIDE DEF w
  <2> QED BY <1>1, <2>1, <2>2, <2>3, WorkerInv DEF queue
<1>3. CASE worker' = [worker EXCEPT ![i] = FreshWorker]
  <2>1. FreshWorker \in Workers /\ FreshWorker.pc = "check" /\ FreshWorker.batch = {}
    BY DEF FreshWorker, Workers, Steps
  <2> HIDE DEF FreshWorker
  <2> QED BY <1>1, <1>3, <2>1, WorkerInv DEF queue
<1> QED BY <1>2, <1>3 DEF TakeNext

\* After a source was dealt with, its indexer goes on with the batch.
LEMMA ProcessedInv ==
  ASSUME SearchInv, UNCHANGED <<text, revision>>, NEW i \in Indexers, NEW any \in BOOLEAN,
         Processed(i, any)
  PROVE  WorkCurrent' /\ worker' \in [Indexers -> Workers]
<1> DEFINE w == [worker[i] EXCEPT !.pc = "next", !.any = worker[i].any \/ any, !.id = 0,
                                  !.revision = 0, !.text = {}]
<1>1. worker[i] \in Workers /\ TypeOK /\ WorkCurrent
  BY DEF SearchInv, TypeOK
<1>2. (worker[i].any \/ any) \in BOOLEAN
  BY Zenon
<1>3. worker' = [worker EXCEPT ![i] = w]
  BY DEF Processed
<1>4. w \in Workers /\ w.pc = "next" /\ w.batch = worker[i].batch
  BY <1>1, <1>2 DEF Workers, Steps
<1> HIDE DEF w
<1> QED BY <1>1, <1>3, <1>4, WorkInv

LEMMA IndexInv ==
  ASSUME SearchInv, NEW i \in Indexers, IndexSource(i)
  PROVE  SearchInv'
<1> DEFINE s == worker[i].id
           v == worker[i].revision
           chunks == worker[i].text
           kept == UNION {occurrences[x] : x \in Sources \ {s}}
<1>1. /\ TypeOK /\ ShownIsCurrent /\ SettledIsIndexed /\ TextsExact /\ PendingExact
      /\ CursorsCover /\ QueueCurrent /\ WorkCurrent
  BY DEF SearchInv
<1>2. /\ s \in Sources /\ v \in Nat /\ 0 < v /\ v <= revision[s] /\ chunks \in SUBSET Chunks
      /\ v = revision[s] => chunks = text[s]
  BY <1>1 DEF IndexSource, WorkCurrent, TypeOK, Workers
<1>3. /\ UNCHANGED <<rows, text, damaged, revision, backfill, restarts>>
      /\ Processed(i, TRUE)
  BY DEF IndexSource, source
<1>4. WorkCurrent' /\ worker' \in [Indexers -> Workers]
  BY <1>3, ProcessedInv
<1>5. CursorsCover'
  BY <1>1, <1>3 DEF CursorsCover, Covered
<1>6. CASE Superseded(s, v)
  <2>1. UNCHANGED <<projection, queue, index>>
    BY <1>6 DEF IndexSource
  <2>2. Dirty' = Dirty
    BY <2>1 DEF Dirty, queue
  <2>3. TypeOK'
    BY <1>1, <1>3, <1>4, <2>1 DEF TypeOK, queue, projection
  <2> QED BY <1>1, <1>3, <1>4, <1>5, <2>1, <2>2, <2>3
          DEF SearchInv, ShownIsCurrent, SettledIsIndexed, Indexed, TextsExact, PendingExact,
              QueueCurrent, queue, projection
<1>7. CASE ~Superseded(s, v)
  <2> DEFINE coverage == IF index.coverage = "limited" THEN "limited" ELSE "new"
  <2>1. /\ occurrences' = [occurrences EXCEPT ![s] = chunks]
        /\ version' = [version EXCEPT ![s] = v]
        /\ texts' = (texts \cup chunks) \ (occurrences[s] \ (chunks \cup kept))
        /\ Unqueue(s, v, coverage, FALSE)
    BY <1>7 DEF IndexSource
  <2>2. v = revision[s] /\ chunks = text[s]
    BY <1>1, <1>2, <1>7 DEF Superseded, TypeOK
  <2>3. queued[s] <= v
    BY <1>1, <1>2, <2>2 DEF QueueCurrent, TypeOK
  <2>4. /\ PendingExact'
        /\ queued' \in [Sources -> Nat] /\ retry' \in [Sources -> {"now", "soon", "later"}]
        /\ index' \in [known : BOOLEAN, coverage : {"new", "error", "limited"},
                       pending : Nat, error : BOOLEAN]
        /\ index'.coverage = coverage
        /\ \A x \in Sources \ {s} : queued'[x] = queued[x]
        /\ queued'[s] \in {0, queued[s]}
        /\ s \notin Dirty'
    <3>1. coverage \in {"new", "error", "limited"} /\ FALSE \in BOOLEAN
      OBVIOUS
    <3> HIDE DEF coverage, s, v
    <3> QED BY <1>2, <2>1, <2>3, <3>1, UnqueueInv
  <2>5. \A x \in Sources : /\ occurrences'[x] = IF x = s THEN chunks ELSE occurrences[x]
                           /\ version'[x] = IF x = s THEN v ELSE version[x]
    BY <1>1, <1>2, <2>1 DEF TypeOK
  <2>6. /\ occurrences' \in [Sources -> SUBSET Chunks] /\ version' \in [Sources -> Nat]
        /\ texts' \in SUBSET Chunks
    BY <1>1, <1>2, <2>1 DEF TypeOK
  <2>7. TypeOK'
    BY <1>1, <1>3, <1>4, <2>4, <2>6 DEF TypeOK
  <2>8. TextsExact'
    <3>1. UNION {occurrences'[x] : x \in Sources} = chunks \cup kept
      BY <1>2, <2>5
    <3>2. UNION {occurrences[x] : x \in Sources} = occurrences[s] \cup kept
      BY <1>2
    <3> QED BY <1>1, <2>1, <3>1, <3>2 DEF TextsExact
  <2>9. QueueCurrent'
    BY <1>1, <1>2, <1>3, <2>2, <2>4, <2>5 DEF QueueCurrent
  <2>10. ShownIsCurrent'
    BY <1>1, <1>3, <2>2, <2>5 DEF ShownIsCurrent
  <2>11. SettledIsIndexed'
    <3> SUFFICES ASSUME NEW x \in Sources, revision'[x] > 0, x \notin Dirty'
                 PROVE  Indexed(x)' \/ index'.coverage = "limited"
      BY DEF SettledIsIndexed
    <3>1. CASE x = s
      BY <1>3, <2>2, <2>5, <3>1 DEF Indexed
    <3>2. CASE x # s
      <4>1. x \notin Dirty /\ revision[x] > 0
        BY <1>3, <2>4, <3>2 DEF Dirty
      <4>2. Indexed(x) \/ index.coverage = "limited"
        BY <1>1, <4>1 DEF SettledIsIndexed
      <4> QED BY <1>3, <2>4, <2>5, <3>2, <4>2 DEF Indexed
    <3> QED BY <3>1, <3>2
  <2> QED BY <1>4, <1>5, <2>4, <2>7, <2>8, <2>9, <2>10, <2>11 DEF SearchInv
<1> QED BY <1>6, <1>7

LEMMA PutOffInv ==
  ASSUME SearchInv, NEW i \in Indexers, MarkFailed(i)
  PROVE  SearchInv'
<1>1. /\ TypeOK /\ ShownIsCurrent /\ SettledIsIndexed /\ TextsExact /\ PendingExact
      /\ CursorsCover /\ QueueCurrent
  BY DEF SearchInv
<1>2. /\ UNCHANGED <<rows, text, damaged, revision, queued, occurrences, version, texts,
                    backfill, restarts>>
      /\ Processed(i, FALSE)
  BY DEF MarkFailed, source, projection
<1>3. WorkCurrent' /\ worker' \in [Indexers -> Workers]
  BY <1>2, ProcessedInv
<1>4. /\ retry' \in [Sources -> {"now", "soon", "later"}]
      /\ index' \in [known : BOOLEAN, coverage : {"new", "error", "limited"},
                     pending : Nat, error : BOOLEAN]
      /\ index'.pending = index.pending
      /\ index.coverage = "limited" => index'.coverage = "limited"
  <2>1. CASE UNCHANGED <<retry, index>>
    BY <1>1, <2>1 DEF TypeOK
  <2>2. CASE ~UNCHANGED <<retry, index>>
    BY <1>1, <2>2 DEF TypeOK, MarkFailed
  <2> QED BY <2>1, <2>2
<1>5. TypeOK'
  BY <1>1, <1>2, <1>3, <1>4 DEF TypeOK
<1>6. Dirty' = Dirty
  BY <1>2 DEF Dirty
<1> QED BY <1>1, <1>2, <1>3, <1>4, <1>5, <1>6
        DEF SearchInv, ShownIsCurrent, SettledIsIndexed, Indexed, TextsExact, PendingExact,
            CursorsCover, Covered, QueueCurrent

LEMMA GiveUpInv ==
  ASSUME SearchInv, NEW i \in Indexers, MarkLimited(i)
  PROVE  SearchInv'
<1> DEFINE s == worker[i].id
           v == worker[i].revision
<1>1. /\ TypeOK /\ ShownIsCurrent /\ SettledIsIndexed /\ TextsExact /\ PendingExact
      /\ CursorsCover /\ QueueCurrent /\ WorkCurrent
  BY DEF SearchInv
<1>2. /\ UNCHANGED <<rows, text, damaged, revision, occurrences, version, texts,
                    backfill, restarts>>
      /\ Processed(i, FALSE)
  BY DEF MarkLimited, source, projection
<1>3. WorkCurrent' /\ worker' \in [Indexers -> Workers]
  BY <1>2, ProcessedInv
<1>4. s \in Sources /\ v \in Nat
  BY <1>1 DEF MarkLimited, WorkCurrent, TypeOK, Workers
<1>5. /\ PendingExact'
      /\ queued' \in [Sources -> Nat] /\ retry' \in [Sources -> {"now", "soon", "later"}]
      /\ index' \in [known : BOOLEAN, coverage : {"new", "error", "limited"},
                     pending : Nat, error : BOOLEAN]
      /\ \A x \in Sources : queued'[x] \in {0, queued[x]}
      /\ index'.coverage = "limited" \/ (index' = index /\ queued' = queued)
  <2>1. CASE s \in Dirty /\ queued[s] <= v
    <3>1. Unqueue(s, v, "limited", TRUE)
      BY <2>1 DEF MarkLimited
    <3> HIDE DEF s, v
    <3> QED BY <1>4, <3>1, UnqueueInv
  <2>2. CASE ~(s \in Dirty /\ queued[s] <= v)
    <3>1. UNCHANGED <<queue, index>>
      BY <2>2 DEF MarkLimited
    <3>2. Dirty' = Dirty
      BY <3>1 DEF Dirty, queue
    <3> QED BY <1>1, <3>1, <3>2 DEF TypeOK, PendingExact, queue
  <2> QED BY <2>1, <2>2
<1>6. TypeOK'
  BY <1>1, <1>2, <1>3, <1>5 DEF TypeOK
<1>7. SettledIsIndexed'
  BY <1>1, <1>2, <1>5 DEF SettledIsIndexed, Indexed, Dirty
<1> QED BY <1>1, <1>2, <1>3, <1>5, <1>6, <1>7
        DEF SearchInv, ShownIsCurrent, TextsExact, CursorsCover, Covered, QueueCurrent

LEMMA NextSearch == SearchInv /\ [Next]_vars => SearchInv'
<1> SUFFICES ASSUME SearchInv, [Next]_vars PROVE SearchInv'
  OBVIOUS
<1>1. CASE \E s \in Sources : (\E c \in Texts : Write(s, c)) \/ Delete(s)
  BY <1>1, WriteInv
<1>2. CASE (\E s \in DecayingSources : Damage(s)) \/ (\E s \in Sources : Due(s)) \/ UNCHANGED vars
  <2>1. /\ UNCHANGED <<rows, text, revision, queued, projection, index, backfill, worker, restarts>>
        /\ damaged' \in SUBSET Sources /\ retry' \in [Sources -> {"now", "soon", "later"}]
    BY <1>2, SearchBoundsAssumption DEF Damage, Due, vars, source, queue, SearchInv, TypeOK
  <2>2. Dirty' = Dirty
    BY <2>1 DEF Dirty
  <2>3. TypeOK'
    BY <2>1 DEF SearchInv, TypeOK, projection
  <2> QED BY <2>1, <2>2, <2>3
          DEF SearchInv, ShownIsCurrent, SettledIsIndexed, Indexed, TextsExact, PendingExact,
              CursorsCover, Covered, QueueCurrent, WorkCurrent, projection
<1>3. ASSUME NEW i \in Indexers, IndexerStep(i) \/ FailSource(i) \/ Restart(i)
      PROVE  SearchInv'
  BY <1>3, PlainStepInv, EnqueueInv, ListInv, TakeInv, IndexInv, PutOffInv, GiveUpInv
     DEF IndexerStep
<1> QED BY <1>1, <1>2, <1>3 DEF Next

\* Whatever writers and indexers do to each other: what a search shows is what the
\* sources say now, what left the queue is indexed or was given up, the texts are those
\* in use, the length of the queue is counted and the cursors leave no row behind.
THEOREM IndexIsRight == Spec => []SearchInv
<1> QED BY InitSearch, NextSearch, PTL DEF Spec

\* With the history covered and the queue empty, and nothing given up, every row can
\* be found by what it says now.
THEOREM ReadyIsComplete == Spec => []CompleteWhenReady
<1>1. SearchInv => CompleteWhenReady
  <2> SUFFICES ASSUME SearchInv, backfill.coverage = "ready", index.pending = 0,
                      index.coverage # "limited", NEW s \in rows
               PROVE  Indexed(s)
    BY DEF CompleteWhenReady
  <2>1. IsFiniteSet(Dirty)
    BY FS_Subset, SourcesAssumption DEF Dirty
  <2>2. Dirty = {}
    BY <2>1, FS_EmptySet DEF SearchInv, PendingExact
  <2>3. s \in Sources /\ revision[s] > 0
    BY DEF SearchInv, TypeOK, CursorsCover, Covered
  <2> QED BY <2>2, <2>3 DEF SearchInv, SettledIsIndexed
<1> QED BY IndexIsRight, <1>1, PTL
=============================================================================
