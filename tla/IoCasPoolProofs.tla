-------------------------- MODULE IoCasPoolProofs --------------------------
(***************************************************************************)
(* Proofs about IoCasPool for every number of observations, chunks, batch  *)
(* sizes and epochs, and then about IoCasMigration: re-encoding beside the *)
(* server keeps the collector's invariant and every text, for any number of*)
(* runners of either job.                                                  *)
(***************************************************************************)
EXTENDS IoCasMigration, CollectionProofs

-----------------------------------------------------------------------------
(* The inductive invariant.                                                *)

LEMMA InitInv == Init => PoolInv
BY IdsAssumption, HashesAssumption, InputsAssumption
DEF Init, PoolInv, TypeOK, NoDanglingRoot, ScannedRootsMarked, SweepSparesRoots,
    SweptPrefixClean, MarksBounded, Referenced, Roots, Phases

\* What the write barrier does to the marks.
LEMMA MarkReferencedFacts ==
  ASSUME TypeOK, MarksBounded, NEW hashes, NEW present
  PROVE  LET m == MarkReferenced(hashes, present) IN
         /\ m \in [Hashes -> Nat]
         /\ \A h \in Hashes : m[h] <= epoch /\ m[h] >= mark[h]
         /\ \A h \in Hashes : h \notin hashes \cap present => m[h] = mark[h]
         /\ phase \in {"mark", "sweep"} =>
              \A h \in Hashes \cap hashes \cap present : m[h] = epoch
BY DEF MarkReferenced, TypeOK, MarksBounded

\* A transaction that publishes chunks and turns some rows into roots onto them: a
\* row it leaves alone keeps its text, every other root is onto published chunks.
LEMMA PublishInv ==
  ASSUME PoolInv, NEW text \in SUBSET Hashes, PublishCasInput(text), UNCHANGED gcState,
         codec' \in [Ids -> {"none", "plain", "cas"}], body' \in [Ids -> Inputs],
         damaged' \in SUBSET Ids,
         \A i \in Roots' : (i \in Roots /\ body'[i] = body[i]) \/ body'[i] \subseteq text
  PROVE  PoolInv'
<1> DEFINE m == MarkReferenced(text, pool')
<1> USE DEF PoolInv
<1>1. /\ pool' = pool \cup text
      /\ mark' = m
      /\ UNCHANGED <<rotten, epoch, phase, rootCursor, sweepCursor>>
  BY DEF PublishCasInput, gcState
<1>2. /\ m \in [Hashes -> Nat]
      /\ \A h \in Hashes : m[h] <= epoch /\ m[h] >= mark[h]
      /\ \A h \in Hashes : h \notin text \cap pool' => m[h] = mark[h]
      /\ phase \in {"mark", "sweep"} =>
           \A h \in Hashes \cap text \cap pool' : m[h] = epoch
  BY MarkReferencedFacts
<1> HIDE DEF m
<1>3. TypeOK'
  BY <1>1, <1>2 DEF TypeOK
<1>4. \A h \in text : h \in Hashes /\ h \in pool'
  BY <1>1
<1>5. \A i \in Roots' : \A h \in body'[i] :
        (i \in Roots /\ h \in body[i] /\ h \in Hashes) \/ h \in text
  BY InputsAssumption DEF TypeOK, Roots
<1>6. NoDanglingRoot'
  BY <1>1, <1>4, <1>5 DEF NoDanglingRoot, Referenced
<1>7. \A h \in Hashes : mark[h] = epoch => mark'[h] = epoch
  BY <1>1, <1>2 DEF TypeOK
<1>8. phase \in {"mark", "sweep"} => \A h \in text : mark'[h] = epoch
  BY <1>1, <1>2, <1>4
<1>9. ScannedRootsMarked'
  <2> SUFFICES ASSUME phase = "mark", NEW i \in Roots', i <= rootCursor, NEW h \in body'[i]
               PROVE  mark'[h] = epoch
    BY <1>1 DEF ScannedRootsMarked
  <2>1. CASE h \in text
    BY <1>8, <2>1
  <2>2. CASE h \notin text
    BY <1>5, <1>7, <2>2 DEF ScannedRootsMarked
  <2> QED BY <2>1, <2>2
<1>10. SweepSparesRoots'
  <2> SUFFICES ASSUME phase = "sweep", NEW i \in Roots', NEW h \in body'[i]
               PROVE  mark'[h] = epoch
    BY <1>1 DEF SweepSparesRoots, Referenced
  <2>1. CASE h \in text
    BY <1>8, <2>1
  <2>2. CASE h \notin text
    BY <1>5, <1>7, <2>2 DEF SweepSparesRoots, Referenced
  <2> QED BY <2>1, <2>2
<1>11. SweptPrefixClean'
  <2> SUFFICES ASSUME phase = "sweep", NEW h \in pool', h <= sweepCursor
               PROVE  mark'[h] = epoch
    BY <1>1 DEF SweptPrefixClean
  <2> QED BY <1>1, <1>7, <1>8 DEF SweptPrefixClean, TypeOK
<1>12. MarksBounded'
  BY <1>1, <1>2 DEF MarksBounded, TypeOK
<1> QED BY <1>3, <1>6, <1>9, <1>10, <1>11, <1>12

LEMMA WriteCasInv ==
  ASSUME PoolInv, NEW id \in Ids, NEW text \in Inputs, WriteCas(id, text)
  PROVE  PoolInv'
<1>1. /\ codec' = [codec EXCEPT ![id] = "cas"]
      /\ body' = [body EXCEPT ![id] = text]
      /\ damaged' = damaged \ {id}
      /\ PublishCasInput(text) /\ UNCHANGED gcState
  BY DEF WriteCas, StoreRow
<1>2. \A i \in Roots' : (i \in Roots /\ body'[i] = body[i]) \/ body'[i] \subseteq text
  BY <1>1 DEF Roots, PoolInv, TypeOK
<1> QED BY <1>1, <1>2, PublishInv, InputsAssumption DEF PoolInv, TypeOK

\* Fewer roots over an untouched pool: overwriting with plain text, retention,
\* and damage to bytes on disk.
LEMMA FewerRootsInv ==
  ASSUME PoolInv, TypeOK', UNCHANGED <<pool, mark, gcState>>,
         Roots' \subseteq Roots, \A id \in Roots' : body'[id] = body[id],
         \A h \in rotten' : h \in pool
  PROVE  PoolInv'
<1> USE DEF PoolInv, gcState
<1>1. Referenced' \subseteq Referenced
  BY DEF Referenced
<1>2. NoDanglingRoot'
  BY <1>1 DEF NoDanglingRoot
<1>3. ScannedRootsMarked'
  BY DEF ScannedRootsMarked
<1>4. SweepSparesRoots'
  BY <1>1 DEF SweepSparesRoots
<1>5. SweptPrefixClean'
  BY DEF SweptPrefixClean
<1>6. MarksBounded'
  BY DEF MarksBounded
<1> QED BY <1>2, <1>3, <1>4, <1>5, <1>6

LEMMA WritePlainInv ==
  ASSUME PoolInv, NEW id \in Ids, NEW text \in Inputs, WritePlain(id, text)
  PROVE  PoolInv'
<1> USE DEF WritePlain, StoreRow, chunks, gcState
<1>1. TypeOK'
  BY DEF PoolInv, TypeOK
<1>2. Roots' \subseteq Roots /\ \A i \in Roots' : body'[i] = body[i]
  BY DEF Roots, PoolInv, TypeOK
<1>3. \A h \in rotten' : h \in pool
  BY DEF PoolInv, MarksBounded, TypeOK
<1> QED BY <1>1, <1>2, <1>3, FewerRootsInv

LEMMA PurgeRowsInv ==
  ASSUME PoolInv, NEW S \in SUBSET Ids, PurgeRows(S)
  PROVE  PoolInv'
<1> USE DEF PurgeRows, chunks, gcState
<1>1. TypeOK'
  BY InputsAssumption DEF PoolInv, TypeOK
<1>2. Roots' \subseteq Roots /\ \A i \in Roots' : body'[i] = body[i]
  BY DEF Roots, PoolInv, TypeOK
<1>3. \A h \in rotten' : h \in pool
  BY DEF PoolInv, MarksBounded, TypeOK
<1> QED BY <1>1, <1>2, <1>3, FewerRootsInv

LEMMA DamageInv ==
  ASSUME PoolInv,
         \/ \E id \in FragileIds : DamageRow(id)
         \/ \E h \in FragileHashes : RotChunk(h)
  PROVE  PoolInv'
<1> USE FragileAssumption DEF DamageRow, RotChunk, rows, chunks, gcState
<1>1. TypeOK'
  BY DEF PoolInv, TypeOK, Roots
<1>2. Roots' \subseteq Roots /\ \A i \in Roots' : body'[i] = body[i]
  BY DEF Roots
<1>3. \A h \in rotten' : h \in pool
  BY DEF PoolInv, MarksBounded, TypeOK
<1> QED BY <1>1, <1>2, <1>3, FewerRootsInv

\* Steps that only move the collector's phase.  Marks of an older round lie
\* below the new epoch; a sweep begins when no root is left to scan.
LEMMA PhaseStepInv ==
  ASSUME PoolInv, StartMarkRound \/ EpochExhausted \/ BeginSweep \/ ClearCasGcBlocked
  PROVE  PoolInv'
<1> USE DEF PoolInv, rows, chunks, Phases
<1>1. UNCHANGED <<codec, body, damaged, pool, mark, rotten>>
  BY DEF StartMarkRound, EpochExhausted, BeginSweep, ClearCasGcBlocked
<1>2. TypeOK' /\ epoch <= epoch'
  BY DEF TypeOK, StartMarkRound, EpochExhausted, BeginSweep, ClearCasGcBlocked
<1>3. Roots' = Roots /\ Referenced' = Referenced
  BY <1>1 DEF Roots, Referenced
<1>4. NoDanglingRoot'
  BY <1>1, <1>3 DEF NoDanglingRoot
<1>5. ScannedRootsMarked'
  <2>1. CASE StartMarkRound
    BY <2>1, IdsAssumption, 0 \notin Ids, \A i \in Roots : i \in Nat /\ i # 0
    DEF StartMarkRound, ScannedRootsMarked, Roots
  <2> QED BY <2>1 DEF ScannedRootsMarked, EpochExhausted, BeginSweep, ClearCasGcBlocked
<1>6. SweepSparesRoots'
  <2>1. CASE BeginSweep
    <3>1. \A i \in Roots : i <= rootCursor
      BY <2>1, IdsAssumption DEF BeginSweep, UnscannedRoots, Roots, TypeOK
    <3>2. \A i \in Roots : \A h \in body[i] : mark[h] = epoch
      BY <2>1, <3>1 DEF BeginSweep, ScannedRootsMarked
    <3> QED BY <1>1, <1>3, <2>1, <3>2 DEF BeginSweep, SweepSparesRoots, Referenced
  <2> QED BY <2>1 DEF SweepSparesRoots, EpochExhausted, StartMarkRound, ClearCasGcBlocked
<1>7. SweptPrefixClean'
  <2>1. CASE BeginSweep
    <3>1. \A h \in pool : h \in Nat /\ h # 0
      BY HashesAssumption DEF TypeOK
    <3> QED BY <1>1, <2>1, <3>1 DEF BeginSweep, SweptPrefixClean
  <2> QED BY <2>1 DEF SweptPrefixClean, EpochExhausted, StartMarkRound, ClearCasGcBlocked
<1>8. MarksBounded'
  BY <1>1, <1>2 DEF MarksBounded, TypeOK
<1> QED BY <1>2, <1>4, <1>5, <1>6, <1>7, <1>8

\* A mark step either blocks, or lifts the marks of a prefix of the unscanned
\* roots and moves the cursor to the end of that prefix.
LEMMA MarkRootBatchInv ==
  ASSUME PoolInv, MarkRootBatch
  PROVE  PoolInv'
<1> USE DEF PoolInv
<1>1. PICK take \in 1..RootBatch :
        LET batch == FirstOf(UnscannedRoots, take) IN
        \/ /\ batch \cap damaged # {}
           /\ phase' = "blocked"
           /\ UNCHANGED <<mark, rootCursor>>
        \/ /\ batch \cap damaged = {}
           /\ mark' = MarkReferenced(UNION {body[id] : id \in batch}, pool)
           /\ \E last \in batch : /\ \A id \in batch : id <= last
                                  /\ rootCursor' = last
           /\ UNCHANGED phase
  BY DEF MarkRootBatch
<1> DEFINE batch == FirstOf(UnscannedRoots, take)
<1> DEFINE used == UNION {body[id] : id \in batch}
<1>2. /\ phase = "mark"
      /\ UNCHANGED <<codec, body, damaged, pool, rotten, epoch, sweepCursor>>
  BY DEF MarkRootBatch, rows
<1>3. Roots' = Roots /\ Referenced' = Referenced
  BY <1>2 DEF Roots, Referenced
<1>4. NoDanglingRoot'
  BY <1>2, <1>3 DEF NoDanglingRoot
<1>5. CASE phase' = "blocked" /\ UNCHANGED <<mark, rootCursor>>
  BY <1>2, <1>4, <1>5
  DEF TypeOK, Phases, ScannedRootsMarked, SweepSparesRoots, SweptPrefixClean, MarksBounded
<1>6. CASE /\ mark' = MarkReferenced(used, pool)
           /\ \E last \in batch : /\ \A id \in batch : id <= last
                                  /\ rootCursor' = last
           /\ UNCHANGED phase
  <2>1. PICK last \in batch : (\A id \in batch : id <= last) /\ rootCursor' = last
    BY <1>6
  <2>2. /\ UnscannedRoots \in SUBSET Nat /\ IsFiniteSet(UnscannedRoots)
        /\ batch \subseteq UnscannedRoots /\ UnscannedRoots \subseteq Roots
        /\ take \in Nat
    <3>1. UnscannedRoots \in SUBSET Ids /\ UnscannedRoots \subseteq Roots
      BY DEF UnscannedRoots, Roots
    <3>2. IsFiniteSet(UnscannedRoots)
      BY <3>1, IdsAssumption, FS_Subset
    <3>3. batch \subseteq UnscannedRoots
      BY DEF FirstOf
    <3>4. take \in Nat
      BY BatchAssumption
    <3> QED BY <3>1, <3>2, <3>3, <3>4, IdsAssumption
  <2>3. /\ mark' \in [Hashes -> Nat]
        /\ \A h \in Hashes : mark'[h] <= epoch /\ mark'[h] >= mark[h]
        /\ \A h \in Hashes : h \notin used \cap pool => mark'[h] = mark[h]
        /\ \A h \in Hashes \cap used \cap pool : mark'[h] = epoch
    <3> HIDE DEF used
    <3> QED BY <1>2, <1>6, MarkReferencedFacts
  <2>4. TypeOK'
    <3>1. rootCursor' \in Ids
      BY <2>1, <2>2 DEF Roots
    <3> HIDE DEF batch
    <3> QED BY <1>2, <1>6, <2>3, <3>1 DEF TypeOK
  <2>5. ScannedRootsMarked'
    <3> SUFFICES ASSUME NEW i \in Roots, i <= last, NEW h \in body[i]
                 PROVE  mark'[h] = epoch
      BY <1>2, <1>3, <2>1 DEF ScannedRootsMarked
    <3>1. h \in Hashes /\ h \in pool /\ i \in Nat
      BY IdsAssumption, InputsAssumption DEF NoDanglingRoot, Referenced, TypeOK, Roots
    <3>2. CASE i <= rootCursor
      BY <1>2, <2>3, <3>1, <3>2 DEF ScannedRootsMarked, TypeOK
    <3>3. CASE ~(i <= rootCursor)
      <4>1. i \in UnscannedRoots
        BY <3>1, <3>3, IdsAssumption DEF UnscannedRoots, TypeOK
      <4>2. i \in batch
        BY <2>1, <2>2, <4>1, take \in Int, FirstOfIsPrefix
      <4> QED BY <2>3, <3>1, <4>2
    <3> QED BY <3>2, <3>3
  <2>6. SweepSparesRoots' /\ SweptPrefixClean'
    BY <1>2, <1>6 DEF SweepSparesRoots, SweptPrefixClean
  <2>7. MarksBounded'
    BY <1>2, <2>3 DEF MarksBounded, TypeOK
  <2> QED BY <1>4, <2>4, <2>5, <2>6, <2>7
<1> QED BY <1>1, <1>5, <1>6

\* A sweep step deletes stale chunks only, in hash order.
LEMMA SweepChunkBatchInv ==
  ASSUME PoolInv, SweepChunkBatch
  PROVE  PoolInv' /\ (phase' = "idle" => \A h \in pool' : mark'[h] = epoch)
<1> USE DEF PoolInv
<1> DEFINE batch == FirstOf(Stale, SweepBatch)
<1>1. /\ phase = "sweep"
      /\ pool' = pool \ batch
      /\ mark' = [h \in Hashes |-> IF h \in batch THEN 0 ELSE mark[h]]
      /\ rotten' = rotten \ batch
      /\ UNCHANGED <<codec, body, damaged, epoch>>
      /\ \/ /\ LastBatch(batch)
            /\ phase' = "idle" /\ rootCursor' = 0 /\ sweepCursor' = 0
         \/ /\ ~LastBatch(batch)
            /\ \E last \in batch : /\ \A h \in batch : h <= last
                                   /\ sweepCursor' = last
            /\ UNCHANGED <<phase, rootCursor>>
  BY DEF SweepChunkBatch, rows
<1>2. /\ Stale \in SUBSET Nat /\ IsFiniteSet(Stale) /\ batch \subseteq Stale
      /\ Stale \subseteq Hashes /\ SweepBatch \in Nat
  BY HashesAssumption, BatchAssumption, FS_Subset, Stale \in SUBSET Hashes
  DEF Stale, FirstOf, TypeOK
<1>3. \A h \in batch : mark[h] < epoch
  BY <1>2 DEF Stale
<1>4. \A h \in pool' : h \notin batch /\ h \in pool /\ mark'[h] = mark[h]
  BY <1>1 DEF TypeOK
<1>5. Referenced' = Referenced /\ Roots' = Roots
  BY <1>1 DEF Referenced, Roots
<1>6. Referenced \cap batch = {}
  BY <1>1, <1>3 DEF SweepSparesRoots, Referenced, TypeOK
<1>7. NoDanglingRoot'
  BY <1>1, <1>5, <1>6 DEF NoDanglingRoot
<1>8. TypeOK'
  BY <1>1, <1>2 DEF TypeOK, Phases
<1>9. ScannedRootsMarked'
  BY <1>1 DEF ScannedRootsMarked
<1>10. SweepSparesRoots'
  BY <1>1, <1>4, <1>5, <1>7 DEF SweepSparesRoots, NoDanglingRoot
<1>11. MarksBounded'
  BY <1>1, <1>2 DEF MarksBounded, TypeOK
<1> HIDE DEF batch
<1>12. \A h \in pool : h \notin Stale => mark[h] = epoch
  <2> SUFFICES ASSUME NEW h \in pool, h \notin Stale PROVE mark[h] = epoch
    OBVIOUS
  <2>1. h \in Nat /\ sweepCursor \in Nat /\ mark[h] \in Nat /\ epoch \in Nat /\ mark[h] <= epoch
    BY HashesAssumption DEF TypeOK, MarksBounded
  <2> QED BY <1>1, <2>1 DEF Stale, SweptPrefixClean
<1>13. CASE phase' = "idle"
  <2>1. Cardinality(batch) < SweepBatch
    BY <1>1, <1>13 DEF LastBatch
  <2>2. batch = Stale
    BY <1>2, <2>1, ShortBatchIsAll DEF batch
  <2>3. \A h \in pool' : mark'[h] = epoch
    BY <1>1, <1>4, <1>12, <2>2
  <2> QED BY <1>7, <1>8, <1>9, <1>10, <1>11, <1>13, <2>3 DEF SweptPrefixClean
<1>14. CASE phase' # "idle"
  <2>1. PICK last \in batch : (\A h \in batch : h <= last) /\ sweepCursor' = last
    BY <1>1, <1>14
  <2>2. ASSUME NEW h \in pool', h <= last PROVE mark'[h] = epoch
    <3>1. h \notin Stale
      BY <1>2, <1>4, <2>2, SweepBatch \in Int, FirstOfIsPrefix DEF batch
    <3> QED BY <1>4, <1>12, <3>1
  <2>3. SweptPrefixClean'
    BY <1>1, <2>1, <2>2 DEF SweptPrefixClean
  <2> QED BY <1>7, <1>8, <1>9, <1>10, <1>11, <1>14, <2>3
<1> QED BY <1>13, <1>14

LEMMA NextInv ==
  ASSUME PoolInv, [Next]_vars
  PROVE  PoolInv'
<1>1. CASE \E id \in Ids, text \in Inputs : WriteCas(id, text) \/ WritePlain(id, text)
  BY <1>1, WriteCasInv, WritePlainInv
<1>2. CASE \E S \in SUBSET Ids : PurgeRows(S)
  BY <1>2, PurgeRowsInv
<1>3. CASE GcStep
  BY <1>3, PhaseStepInv, MarkRootBatchInv, SweepChunkBatchInv DEF GcStep
<1>4. CASE ClearCasGcBlocked
  BY <1>4, PhaseStepInv
<1>5. CASE (\E id \in FragileIds : DamageRow(id)) \/ (\E h \in FragileHashes : RotChunk(h))
  BY <1>5, DamageInv
<1>6. CASE UNCHANGED vars
  BY <1>6 DEF vars, rows, chunks, gcState, PoolInv, TypeOK, NoDanglingRoot, ScannedRootsMarked,
              SweepSparesRoots, SweptPrefixClean, MarksBounded, Referenced, Roots
<1> QED BY <1>1, <1>2, <1>3, <1>4, <1>5, <1>6 DEF Next

\* Type correctness, no dangling root, and the facts about marks and cursors that
\* make it inductive, in every reachable state.
THEOREM PoolSafe == Spec => []PoolInv
<1>1. Init => PoolInv
  BY InitInv
<1>2. PoolInv /\ [Next]_vars => PoolInv'
  BY NextInv
<1> QED BY <1>1, <1>2, PTL DEF Spec

\* Every chunk a committed codec-2 row names is in the pool.
THEOREM RootsNeverDangle == Spec => []NoDanglingRoot
<1>1. PoolInv => NoDanglingRoot
  BY DEF PoolInv
<1> QED BY <1>1, PoolSafe, PTL

-----------------------------------------------------------------------------
(* What a step may never do.                                               *)

\* A round that ends leaves no chunk that was unused throughout it, and only a
\* committed reference lifts a mark: a writer publishes and stores its row in one
\* step, and a mark step reads the roots it marks for.
THEOREM FinishedSweepIsComplete == Spec => SweepIsComplete
<1>1. ASSUME PoolInv, [Next]_vars, phase = "sweep", phase' = "idle"
      PROVE  \A h \in pool' : mark'[h] = epoch
  <2>1. SweepChunkBatch
    BY <1>1 DEF Next, GcStep, vars, gcState, WriteCas, WritePlain, PurgeRows, StartMarkRound,
      EpochExhausted, MarkRootBatch, BeginSweep, ClearCasGcBlocked, DamageRow, RotChunk
  <2> QED BY <1>1, <2>1, SweepChunkBatchInv
<1>2. PoolInv /\ [Next]_vars
        => [phase = "sweep" /\ phase' = "idle" => \A h \in pool' : mark'[h] = epoch]_vars
  BY <1>1
<1>3. ASSUME PoolInv, [Next]_vars, NEW h \in Hashes, mark'[h] > mark[h]
      PROVE  h \in Referenced'
  <2> USE <1>3 DEF PoolInv
  <2>1. mark[h] \in Nat /\ ~(mark[h] > mark[h]) /\ ~(0 > mark[h])
    BY DEF TypeOK
  <2>2. CASE \E id \in Ids, text \in Inputs : WriteCas(id, text)
    <3>1. PICK id \in Ids, text \in Inputs : WriteCas(id, text)
      BY <2>2
    <3>2. h \in text
      BY <2>1, <3>1, MarkReferencedFacts DEF WriteCas, PublishCasInput
    <3>3. codec'[id] = "cas" /\ body'[id] = text
      BY <3>1 DEF WriteCas, StoreRow, TypeOK
    <3> QED BY <3>2, <3>3 DEF Referenced, Roots
  <2>3. CASE MarkRootBatch
    <3>1. PICK take \in 1..RootBatch :
            mark' = MarkReferenced(UNION {body[id] : id \in FirstOf(UnscannedRoots, take)}, pool)
            \/ mark' = mark
      BY <2>3 DEF MarkRootBatch
    <3>2. h \in UNION {body[id] : id \in FirstOf(UnscannedRoots, take)}
      BY <2>1, <3>1, MarkReferencedFacts
    <3>3. h \in Referenced
      BY <3>2 DEF FirstOf, UnscannedRoots, Referenced
    <3> QED BY <2>3, <3>3 DEF MarkRootBatch, rows, Referenced, Roots
  <2>4. CASE SweepChunkBatch
    BY <2>1, <2>4 DEF SweepChunkBatch
  <2> QED
    BY <2>1, <2>2, <2>3, <2>4
    DEF Next, GcStep, vars, chunks, WritePlain, PurgeRows, StartMarkRound, EpochExhausted,
        BeginSweep, ClearCasGcBlocked, DamageRow, RotChunk
<1>4. PoolInv /\ [Next]_vars
        => [\A h \in Hashes : mark'[h] > mark[h] => h \in Referenced']_vars
  BY <1>3
<1> QED BY <1>2, <1>4, PoolSafe, PTL DEF Spec, SweepIsComplete

\* A row is only ever committed onto chunks whose stored bytes were compared and match.
THEOREM RootsStartOnSoundChunks == Spec => NoRootOntoRottenChunk
<1>1. ASSUME PoolInv, [Next]_vars, NEW r \in Roots', r \in Roots => body'[r] # body[r]
      PROVE  body'[r] \cap rotten' = {}
  <2> USE <1>1 DEF PoolInv, TypeOK
  <2>1. CASE \E id \in Ids, text \in Inputs : WriteCas(id, text)
    <3>1. PICK id \in Ids, text \in Inputs : WriteCas(id, text)
      BY <2>1
    <3>2. r = id /\ body'[r] = text
      BY <3>1 DEF WriteCas, StoreRow, Roots
    <3>3. text \cap pool \cap rotten = {} /\ rotten' = rotten
      BY <3>1 DEF WriteCas, PublishCasInput, Publishable
    <3>4. rotten \subseteq pool
      BY DEF MarksBounded
    <3> QED BY <3>2, <3>3, <3>4
  <2>2. CASE \E id \in Ids, text \in Inputs : WritePlain(id, text)
    BY <2>2 DEF WritePlain, StoreRow, Roots
  <2>3. CASE \E S \in SUBSET Ids : PurgeRows(S)
    BY <2>3 DEF PurgeRows, Roots
  <2>4. CASE UNCHANGED <<codec, body>>
    BY <2>4 DEF Roots
  <2> QED
    BY <2>1, <2>2, <2>3, <2>4
    DEF Next, GcStep, vars, rows, StartMarkRound, EpochExhausted, MarkRootBatch, BeginSweep,
        SweepChunkBatch, ClearCasGcBlocked, DamageRow, RotChunk
<1>2. PoolInv /\ [Next]_vars
        => [\A id \in Roots' :
              (id \in Roots => body'[id] # body[id]) => body'[id] \cap rotten' = {}]_vars
  BY <1>1
<1> QED BY <1>2, PoolSafe, PTL DEF Spec, NoRootOntoRottenChunk

-----------------------------------------------------------------------------
(* Refinement: readers see a plain store.                                  *)

\* With no dangling root, a row's text is what was stored in it.
LEMMA HydratedIsStored ==
  ASSUME PoolInv, NEW id \in Ids
  PROVE  Hydrated(id) = IF codec[id] = "none" THEN {0} ELSE body[id]
<1>1. CASE codec[id] = "cas"
  <2>1. body[id] \subseteq pool
    BY <1>1 DEF PoolInv, NoDanglingRoot, Referenced, Roots
  <2> QED BY <1>1, <2>1 DEF Hydrated
<1>2. CASE codec[id] # "cas"
  BY <1>2 DEF PoolInv, TypeOK, Hydrated
<1> QED BY <1>1, <1>2

\* The rows over the pool and its collector implement ObservationInputs: writes and
\* deletions are its two operations, every other step leaves all texts unchanged.
THEOREM PoolImplementsStore == Spec => StoreSpec
<1> DEFINE text(id) == IF codec[id] = "none" THEN {0} ELSE body[id]
           v == [id \in Ids |-> Hydrated(id)]
<1>1. Init => Store!Init
  BY DEF Init, Store!Init, Hydrated
<1>2. ASSUME PoolInv, PoolInv', [Next]_vars
      PROVE  [Store!Next]_v
  <2> USE <1>2
  <2>1. \A id \in Ids : Hydrated(id) = text(id)
    BY HydratedIsStored
  <2>2. ASSUME NEW id \in Ids PROVE Hydrated(id)' = text(id)'
    <3>1. CASE codec'[id] = "cas"
      <4>1. body'[id] \subseteq pool'
        BY <3>1 DEF PoolInv, NoDanglingRoot, Referenced, Roots
      <4> QED BY <3>1, <4>1 DEF Hydrated
    <3>2. CASE codec'[id] # "cas"
      BY <3>2 DEF PoolInv, TypeOK, Hydrated
    <3> QED BY <3>1, <3>2
  <2>3. v = [id \in Ids |-> text(id)] /\ v' = [id \in Ids |-> text(id)']
    BY <2>1, <2>2
  <2> HIDE DEF v
  <2>4. ASSUME UNCHANGED <<codec, body>> PROVE UNCHANGED v
    BY <2>3, <2>4
  <2>5. ASSUME NEW id \in Ids, NEW t \in Inputs, NEW c \in {"plain", "cas"}, StoreRow(id, c, t)
        PROVE  Store!Put(id, t)
    <3>1. \A x \in Ids : text(x)' = IF x = id THEN t ELSE text(x)
      BY <2>5 DEF StoreRow, PoolInv, TypeOK
    <3>2. v' = [v EXCEPT ![id] = t]
      BY <2>3, <3>1
    <3> QED BY <3>2 DEF Store!Put, v
  <2>6. ASSUME NEW S \in SUBSET Ids, PurgeRows(S)
        PROVE  Store!Remove(S)
    <3>1. \A x \in Ids : text(x)' = IF x \in S THEN {0} ELSE text(x)
      BY <2>6 DEF PurgeRows, PoolInv, TypeOK
    <3>2. v' = [x \in Ids |-> IF x \in S THEN {0} ELSE v[x]]
      BY <2>3, <3>1
    <3> QED BY <3>2 DEF Store!Remove, v
  <2>7. CASE \E id \in Ids, t \in Inputs : WriteCas(id, t) \/ WritePlain(id, t)
    <3>1. PICK id \in Ids, t \in Inputs : StoreRow(id, "cas", t) \/ StoreRow(id, "plain", t)
      BY <2>7 DEF WriteCas, WritePlain
    <3> QED BY <3>1, <2>5 DEF Store!Next, v
  <2>8. CASE \E S \in SUBSET Ids : PurgeRows(S)
    BY <2>8, <2>6 DEF Store!Next, v
  <2>9. CASE GcStep \/ ClearCasGcBlocked \/ (\E id \in FragileIds : DamageRow(id))
             \/ (\E h \in FragileHashes : RotChunk(h)) \/ UNCHANGED vars
    <3>1. UNCHANGED <<codec, body>>
      BY <2>9 DEF GcStep, StartMarkRound, EpochExhausted, MarkRootBatch, BeginSweep,
        SweepChunkBatch, ClearCasGcBlocked, DamageRow, RotChunk, rows, vars
    <3> QED BY <3>1, <2>4
  <2> QED BY <2>7, <2>8, <2>9 DEF Next
<1> QED BY <1>1, <1>2, PoolSafe, PTL DEF Spec, StoreSpec, Store!Spec

-----------------------------------------------------------------------------
(* Re-encoding.                                                            *)

\* A converted row still is what was planned.
LEMMA ConvertedRows ==
  ASSUME MigrationTypeOK, NEW r \in Runners, ApplyBatch(r),
         NEW converted,
         converted = {p \in run[r].planned : SameSnapshot(p) /\ Usable(JobOf[r], p)}
  PROVE  /\ \A p \in converted : /\ p.id \in Ids /\ codec[p.id] = p.codec
                                 /\ body[p.id] = p.body /\ Usable(JobOf[r], p)
         /\ body' = body
<1>1. \A p \in converted : /\ p.id \in Ids /\ codec[p.id] = p.codec
                           /\ body[p.id] = p.body /\ Usable(JobOf[r], p)
  BY DEF MigrationTypeOK, Snapshots, SameSnapshot
<1>2. body' = [id \in Ids |-> IF \E p \in converted : p.id = id
                             THEN (CHOOSE p \in converted : p.id = id).body ELSE body[id]]
  BY DEF ApplyBatch
<1>3. ASSUME NEW id \in Ids PROVE body'[id] = body[id]
  <2>1. CASE \E p \in converted : p.id = id
    <3>1. PICK p \in converted : p.id = id /\ p = CHOOSE q \in converted : q.id = id
      BY <2>1
    <3>2. body'[id] = p.body
      BY <1>2, <2>1, <3>1
    <3> QED BY <1>1, <3>1, <3>2
  <2>2. CASE ~ \E p \in converted : p.id = id
    BY <1>2, <2>2
  <2> QED BY <2>1, <2>2
<1> QED BY <1>1, <1>2, <1>3 DEF MigrationTypeOK, TypeOK

\* Backfill is a publication of several rows; expand only drops roots.
LEMMA ApplyBatchInv ==
  ASSUME MigrationTypeOK, PoolInv, NEW r \in Runners, ApplyBatch(r)
  PROVE  PoolInv' /\ \A id \in Ids : codec'[id] = "none" <=> codec[id] = "none"
<1> DEFINE converted == {p \in run[r].planned : SameSnapshot(p) /\ Usable(JobOf[r], p)}
           target == IF JobOf[r] = "expand" THEN "plain" ELSE "cas"
<1>1. /\ \A p \in converted : /\ p.id \in Ids /\ codec[p.id] = p.codec
                              /\ body[p.id] = p.body /\ Usable(JobOf[r], p)
      /\ body' = body
  BY ConvertedRows
<1>2. /\ codec' = [id \in Ids |-> IF \E p \in converted : p.id = id THEN target ELSE codec[id]]
      /\ UNCHANGED <<damaged, gcState>>
      /\ IF JobOf[r] = "expand" THEN UNCHANGED chunks ELSE PublishCasInput(ChunksOf(converted))
  BY DEF ApplyBatch
<1> HIDE DEF converted
<1>3. /\ codec' \in [Ids -> {"none", "plain", "cas"}]
      /\ \A id \in Ids : codec'[id] = "none" <=> codec[id] = "none"
  BY <1>1, <1>2 DEF PoolInv, TypeOK, Usable
<1>4. CASE JobOf[r] = "expand"
  <2>1. TypeOK'
    BY <1>1, <1>2, <1>3, <1>4 DEF PoolInv, TypeOK, chunks, gcState
  <2>2. Roots' \subseteq Roots /\ \A id \in Roots' : body'[id] = body[id]
    BY <1>1, <1>2, <1>4 DEF Roots, PoolInv, TypeOK
  <2> QED BY <1>2, <1>3, <1>4, <2>1, <2>2, FewerRootsInv DEF chunks, PoolInv, MarksBounded, TypeOK
<1>5. CASE JobOf[r] # "expand"
  <2>1. ChunksOf(converted) \in SUBSET Hashes
    BY <1>1, InputsAssumption DEF ChunksOf, PoolInv, TypeOK
  <2>2. \A id \in Roots' : (id \in Roots /\ body'[id] = body[id])
                           \/ body'[id] \subseteq ChunksOf(converted)
    <3> SUFFICES ASSUME NEW id \in Roots', id \notin Roots
                 PROVE  body'[id] \subseteq ChunksOf(converted)
      BY <1>1
    <3>1. PICK p \in converted : p.id = id
      BY <1>2 DEF Roots
    <3> QED BY <1>1, <3>1 DEF ChunksOf
  <2> QED BY <1>1, <1>2, <1>3, <1>5, <2>1, <2>2, PublishInv DEF PoolInv, TypeOK
<1> QED BY <1>3, <1>4, <1>5

LEMMA MigrationInitInv == MigrationInit => MigrationPoolInv
BY InitInv, MigrationBoundsAssumption
DEF MigrationInit, MigrationPoolInv, MigrationTypeOK, PoolInv, Jobs, Statuses, Off,
    Steps, Snapshots

LEMMA TouchTypeOK ==
  ASSUME touched \in [Jobs -> SUBSET Ids], NEW jobs, NEW ids \in SUBSET Ids, Touch(jobs, ids)
  PROVE  touched' \in [Jobs -> SUBSET Ids]
BY DEF Touch

RunRecords == [pc : Steps, cursor : Ids \cup {0}, pass : 0..MaxPass,
               ids : SUBSET Ids, planned : SUBSET Snapshots]
JobRows == [status : Statuses, cursor : Ids \cup {0}, pass : 0..MaxPass]

LEMMA GoTypeOK ==
  ASSUME run \in [Runners -> RunRecords], NEW r \in Runners, NEW pc \in Steps, Go(r, pc)
  PROVE  run' \in [Runners -> RunRecords]
BY DEF Go, RunRecords

LEMMA PersistTypeOK ==
  ASSUME jobRow \in [Jobs -> JobRows], run \in [Runners -> RunRecords],
         NEW r \in Runners, NEW status \in Statuses, Persist(r, status)
  PROVE  jobRow' \in [Jobs -> JobRows]
<1>1. [status |-> status, cursor |-> run[r].cursor, pass |-> run[r].pass] \in JobRows
  BY DEF RunRecords, JobRows
<1> QED BY <1>1, RunnersAssumption DEF Persist

LEMMA OffIsRecord == Off \in RunRecords
<1>1. 0 \in 0..MaxPass
  BY MigrationBoundsAssumption
<1>2. "off" \in Steps
  BY DEF Steps
<1> QED BY <1>1, <1>2 DEF Off, RunRecords

LEMMA OffTypeOK ==
  ASSUME NEW pc \in Steps, NEW cursor \in Ids \cup {0}, NEW pass \in 0..MaxPass
  PROVE  [Off EXCEPT !.pc = pc, !.cursor = cursor, !.pass = pass] \in RunRecords
BY OffIsRecord DEF RunRecords

LEMMA RunnerStepInv ==
  ASSUME MigrationPoolInv, NEW r \in Runners, RunnerStep(r)
  PROVE  MigrationPoolInv'
<1>1. /\ jobRow \in [Jobs -> JobRows] /\ run \in [Runners -> RunRecords]
      /\ touched \in [Jobs -> SUBSET Ids] /\ PoolInv /\ JobOf[r] \in Jobs
      /\ jobRow[JobOf[r]] \in JobRows /\ run[r] \in RunRecords
  BY RunnersAssumption DEF MigrationPoolInv, MigrationTypeOK, JobRows, RunRecords
<1> DEFINE TypesOK == /\ jobRow' \in [Jobs -> JobRows] /\ run' \in [Runners -> RunRecords]
                      /\ touched' \in [Jobs -> SUBSET Ids]
<1>2. SUFFICES PoolInv' /\ TypesOK
  BY DEF MigrationPoolInv, MigrationTypeOK, JobRows, RunRecords, PoolInv
<1>3. ASSUME UNCHANGED vars PROVE PoolInv'
  BY <1>1, <1>3 DEF vars, rows, chunks, gcState, PoolInv, TypeOK, NoDanglingRoot,
     ScannedRootsMarked, SweepSparesRoots, SweptPrefixClean, MarksBounded, Referenced, Roots
<1>4. {"off", "begin", "loop", "plan", "apply", "fail", "done", "verify"} \subseteq Steps
      /\ {"running", "paused", "done", "failed"} \subseteq Statuses
  BY DEF Steps, Statuses
<1>5. CASE \E cursor \in Ids \cup {0} : Begin(r, cursor)
  <2>0. PICK cursor \in Ids \cup {0} : Begin(r, cursor)
    BY <1>5
  <2>1. jobRow[JobOf[r]].pass + 1 \in 0..MaxPass
    BY <1>1, <2>0, MigrationBoundsAssumption DEF Begin, JobRows
  <2>2. [Off EXCEPT !.pc = "begin", !.cursor = cursor,
                    !.pass = jobRow[JobOf[r]].pass + 1] \in RunRecords
    BY <1>4, <2>1, OffTypeOK
  <2> QED BY <1>1, <1>3, <2>0, <2>2 DEF Begin
<1>6. CASE WriteFirstState(r)
  <2>1. jobRow' \in [Jobs -> JobRows] /\ run' \in [Runners -> RunRecords]
    BY <1>1, <1>4, <1>6, GoTypeOK, PersistTypeOK DEF WriteFirstState
  <2>2. touched' \in [Jobs -> SUBSET Ids]
    <3>1. {id \in Ids : id <= run[r].cursor}
            \cup (IF jobRow[JobOf[r]].pass < run[r].pass THEN {} ELSE touched[JobOf[r]])
          \in SUBSET Ids
      BY <1>1
    <3> QED BY <1>1, <1>6, <3>1 DEF WriteFirstState
  <2> QED BY <1>3, <1>6, <2>1, <2>2 DEF WriteFirstState
<1>7. CASE \E cursor \in Ids \cup {0} : Resume(r, cursor)
  <2>1. PICK cursor \in Ids \cup {0} : Resume(r, cursor)
    BY <1>7
  <2>2. [Off EXCEPT !.pc = "loop", !.cursor = cursor, !.pass = jobRow[JobOf[r]].pass] \in RunRecords
    BY <1>1, <1>4, OffTypeOK DEF JobRows
  <2> QED BY <1>1, <1>3, <2>1, <2>2 DEF Resume
<1>8. CASE Pause(r) \/ RecordFailure(r) \/ FinishPass(r)
  <2>1. jobRow' \in [Jobs -> JobRows] /\ UNCHANGED <<vars, touched>>
    BY <1>1, <1>4, <1>8, PersistTypeOK DEF Pause, RecordFailure, FinishPass
  <2>2. run' = [run EXCEPT ![r] = Off] \/ Go(r, "verify")
    BY <1>8 DEF Pause, RecordFailure, FinishPass
  <2>3. run' \in [Runners -> RunRecords]
    BY <1>1, <1>4, <2>2, OffIsRecord, GoTypeOK
  <2> QED BY <1>1, <1>3, <2>1, <2>3
<1>9. CASE ListIds(r)
  <2>1. FirstOf({id \in Ids : IsSource(JobOf[r], id) /\ id > run[r].cursor}, BatchRows) \in SUBSET Ids
    BY DEF FirstOf
  <2>2. run' \in [Runners -> RunRecords]
    BY <1>1, <1>4, <1>9, <2>1 DEF ListIds, RunRecords
  <2> QED BY <1>1, <1>3, <1>9, <2>2 DEF ListIds
<1>10. CASE PlanRows(r)
  <2>1. PICK take \in 1..Cardinality(run[r].ids) :
          \/ Go(r, "fail")
          \/ run' = [run EXCEPT ![r].pc = "apply",
                                ![r].planned = {SnapshotOf(id) : id \in FirstOf(run[r].ids, take)}]
    BY <1>10 DEF PlanRows
  <2>2. {SnapshotOf(id) : id \in FirstOf(run[r].ids, take)} \in SUBSET Snapshots
    <3>1. FirstOf(run[r].ids, take) \subseteq Ids
      BY <1>1 DEF FirstOf, RunRecords
    <3>2. \A id \in Ids : SnapshotOf(id) \in Snapshots
      BY <1>1 DEF SnapshotOf, Snapshots, PoolInv, TypeOK
    <3> QED BY <3>1, <3>2
  <2>3. run' \in [Runners -> RunRecords]
    BY <1>1, <1>4, <2>1, <2>2, GoTypeOK DEF RunRecords
  <2> QED BY <1>1, <1>3, <1>10, <2>3 DEF PlanRows
<1>11. CASE ApplyBatch(r)
  <2>1. PoolInv'
    BY <1>11, ApplyBatchInv DEF MigrationPoolInv
  <2>2. PICK last \in EndOfBatch(r) :
          /\ jobRow' = [jobRow EXCEPT ![JobOf[r]] = [status |-> "running", cursor |-> last,
                                                     pass |-> run[r].pass]]
          /\ run' = [run EXCEPT ![r] = [Off EXCEPT !.pc = "loop", !.cursor = last,
                                                   !.pass = run[r].pass]]
    BY <1>11 DEF ApplyBatch
  <2>3. last \in Ids /\ run[r].pass \in 0..MaxPass
    BY <1>1 DEF EndOfBatch, RunRecords, Snapshots
  <2>4. jobRow' \in [Jobs -> JobRows] /\ run' \in [Runners -> RunRecords]
    BY <1>1, <1>4, <2>2, <2>3, OffTypeOK DEF JobRows
  <2>5. touched' \in [Jobs -> SUBSET Ids]
    <3> DEFINE converted == {p \in run[r].planned : SameSnapshot(p) /\ Usable(JobOf[r], p)}
    <3>1. {p.id : p \in converted} \in SUBSET Ids
      BY <1>1 DEF RunRecords, Snapshots
    <3>2. Touch(Jobs \ {JobOf[r]}, {p.id : p \in converted})
      BY <1>11 DEF ApplyBatch
    <3> QED BY <1>1, <3>1, <3>2, TouchTypeOK
  <2> QED BY <2>1, <2>4, <2>5
<1>12. CASE AbortBatch(r)
  BY <1>1, <1>3, <1>4, <1>12, GoTypeOK DEF AbortBatch
<1>13. CASE Verify(r)
  <2>1. Go(r, "fail") \/ run' = [run EXCEPT ![r] = Off]
    BY <1>13 DEF Verify
  <2> QED BY <1>1, <1>3, <1>4, <1>13, <2>1, OffIsRecord, GoTypeOK DEF Verify
<1>14. CASE Crash(r)
  BY <1>1, <1>3, <1>14, OffIsRecord DEF Crash
<1> QED
  BY <1>5, <1>6, <1>7, <1>8, <1>9, <1>10, <1>11, <1>12, <1>13, <1>14 DEF RunnerStep

LEMMA ServerStepInv ==
  ASSUME MigrationPoolInv, ServerStep
  PROVE  MigrationPoolInv'
<1>1. PoolInv'
  BY NextInv DEF MigrationPoolInv, ServerStep
<1>2. touched' \in [Jobs -> SUBSET Ids]
  <2> DEFINE changed == {id \in Ids : \/ codec'[id] # codec[id] \/ body'[id] # body[id]
                                      \/ (id \in damaged) # (id \in damaged')}
  <2>1. Touch({job \in Jobs : jobRow[job].status # "none"}, changed)
    BY DEF ServerStep
  <2>2. changed \in SUBSET Ids
    OBVIOUS
  <2> HIDE DEF changed
  <2> QED BY <2>1, <2>2, TouchTypeOK DEF MigrationPoolInv, MigrationTypeOK
<1> QED BY <1>1, <1>2 DEF MigrationPoolInv, MigrationTypeOK, PoolInv, ServerStep

LEMMA MigrationNextInv ==
  ASSUME MigrationPoolInv, [MigrationNext]_allVars
  PROVE  MigrationPoolInv'
<1>1. CASE UNCHANGED allVars
  BY <1>1 DEF allVars, migrationVars, vars, rows, chunks, gcState, MigrationPoolInv,
     MigrationTypeOK, PoolInv, TypeOK, NoDanglingRoot, ScannedRootsMarked, SweepSparesRoots,
     SweptPrefixClean, MarksBounded, Referenced, Roots
<1> QED BY <1>1, ServerStepInv, RunnerStepInv DEF MigrationNext

\* Backfill and expand jobs, racing with each other and with the server, never break
\* the collector's invariant: in particular no codec-2 row loses a chunk.
THEOREM MigrationKeepsPool == MigrationSpec => []MigrationPoolInv
<1>1. MigrationInit => MigrationPoolInv
  BY MigrationInitInv
<1>2. MigrationPoolInv /\ [MigrationNext]_allVars => MigrationPoolInv'
  BY MigrationNextInv
<1> QED BY <1>1, <1>2, PTL DEF MigrationSpec

LEMMA HydratedIsStoredNext ==
  ASSUME PoolInv', NEW id \in Ids
  PROVE  Hydrated(id)' = IF codec'[id] = "none" THEN {0} ELSE body'[id]
<1>1. CASE codec'[id] = "cas"
  <2>1. body'[id] \subseteq pool'
    BY <1>1 DEF PoolInv, NoDanglingRoot, Referenced, Roots
  <2> QED BY <1>1, <2>1 DEF Hydrated
<1>2. CASE codec'[id] # "cas"
  BY <1>2 DEF PoolInv, TypeOK, Hydrated
<1> QED BY <1>1, <1>2

\* No runner, at any point of a batch, changes what a reader gets from a row.
THEOREM ReencodingIsInvisible == MigrationSpec => ReencodingKeepsText
<1>1. ASSUME MigrationPoolInv, MigrationPoolInv', [MigrationNext]_allVars, run' # run, NEW id \in Ids
      PROVE  Hydrated(id)' = Hydrated(id)
  <2>1. /\ Hydrated(id) = IF codec[id] = "none" THEN {0} ELSE body[id]
        /\ Hydrated(id)' = IF codec'[id] = "none" THEN {0} ELSE body'[id]
    BY <1>1, HydratedIsStored, HydratedIsStoredNext DEF MigrationPoolInv
  <2>2. PICK r \in Runners : RunnerStep(r)
    BY <1>1 DEF MigrationNext, ServerStep, allVars, migrationVars
  <2>3. CASE ApplyBatch(r)
    <3>1. (codec'[id] = "none" <=> codec[id] = "none") /\ body' = body
      BY <1>1, <2>3, ApplyBatchInv, ConvertedRows DEF MigrationPoolInv
    <3> QED BY <2>1, <3>1
  <2>4. CASE UNCHANGED vars
    BY <2>1, <2>4 DEF vars, rows
  <2> QED BY <2>2, <2>3, <2>4 DEF RunnerStep, Begin, WriteFirstState, Resume, Pause, ListIds,
       PlanRows, AbortBatch, RecordFailure, FinishPass, Verify, Crash
<1>2. MigrationPoolInv /\ MigrationPoolInv' /\ [MigrationNext]_allVars
        => [run' # run => \A id \in Ids : Hydrated(id)' = Hydrated(id)]_allVars
  BY <1>1
<1> QED BY <1>2, MigrationKeepsPool, PTL DEF MigrationSpec, ReencodingKeepsText

-----------------------------------------------------------------------------
(* What a resumed job has not lost.  The stored cursor is only as good as  *)
(* the copies it is written from, so the invariant says the same of each   *)
(* runner's copy, of the page it listed and of the batch it planned.  It   *)
(* needs a job to have one runner at a time: nothing in the code sees to   *)
(* that, and with two a pass that fails late writes its own cursor over    *)
(* the one the next pass began with.                                       *)

Covers(job, cursor) ==
  \A id \in Ids : id <= cursor /\ Convertible(job, id) => id \in touched[job]

\* Rows the job is still answerable for.
Owed(job) == {id \in Ids : Convertible(job, id) /\ id \notin touched[job]}

\* Before its first state is written a job has no cursor, and no runner past "begin".
Unwritten(job) ==
  jobRow[job].status = "none" =>
    /\ jobRow[job].cursor = 0
    /\ \A r \in Runners : JobOf[r] = job => run[r].pc \in {"off", "begin"}

CopyCovers(r) == run[r].pc \notin {"off", "begin"} => Covers(JobOf[r], run[r].cursor)

PageCovers(r) ==
  run[r].pc = "plan" =>
    \A id \in Owed(JobOf[r]) : (\E x \in run[r].ids : id <= x) => id \in run[r].ids

BatchCovers(r) ==
  run[r].pc = "apply" =>
    \A id \in Owed(JobOf[r]) : (\E p \in run[r].planned : id <= p.id) =>
      \E p \in run[r].planned : p.id = id /\ SameSnapshot(p) /\ Usable(JobOf[r], p)

JobCovered(job) ==
  /\ Covers(job, jobRow[job].cursor)
  /\ Unwritten(job)
  /\ \A r \in Runners : JobOf[r] = job => CopyCovers(r) /\ PageCovers(r) /\ BatchCovers(r)

CursorIInv == MigrationPoolInv /\ \A job \in Jobs : JobCovered(job)

\* Every row the job is answerable for after a step is one it was answerable for
\* before, and the step left the row alone.
Spared(job) ==
  \A id \in Owed(job)' : /\ id \in Owed(job)
                         /\ codec'[id] = codec[id] /\ body'[id] = body[id]
                         /\ (id \in damaged) = (id \in damaged')

LEMMA CoversIsOwed ==
  ASSUME NEW job, NEW cursor
  PROVE  Covers(job, cursor) <=> \A id \in Owed(job) : ~(id <= cursor)
BY DEF Covers, Owed

LEMMA CoversIsOwedNext ==
  ASSUME NEW job, NEW cursor
  PROVE  Covers(job, cursor)' <=> \A id \in Owed(job)' : ~(id <= cursor')
BY DEF Covers, Owed

\* A step that spares a job's rows and leaves its state row and runner alone.
LEMMA BystanderCovered ==
  ASSUME MigrationTypeOK, NEW job \in Jobs, JobCovered(job), Spared(job),
         jobRow'[job] = jobRow[job],
         \A r \in Runners : JobOf[r] = job => run'[r] = run[r]
  PROVE  JobCovered(job)'
<1>1. Covers(job, jobRow[job].cursor)'
  BY CoversIsOwed, CoversIsOwedNext DEF JobCovered, Spared
<1>2. Unwritten(job)'
  BY DEF JobCovered, Unwritten
<1>3. ASSUME NEW r \in Runners, JobOf[r] = job
      PROVE  CopyCovers(r)' /\ PageCovers(r)' /\ BatchCovers(r)'
  <2>1. CopyCovers(r) /\ PageCovers(r) /\ BatchCovers(r) /\ run'[r] = run[r]
    BY <1>3 DEF JobCovered
  <2>2. CopyCovers(r)'
    BY <1>3, <2>1, CoversIsOwed, CoversIsOwedNext DEF CopyCovers, Spared
  <2>3. PageCovers(r)'
    BY <1>3, <2>1 DEF PageCovers, Spared
  <2>4. BatchCovers(r)'
    <3>1. SUFFICES ASSUME run[r].pc = "apply", NEW id \in Owed(job)',
                          NEW q \in run[r].planned, id <= q.id
                   PROVE  \E p \in run[r].planned :
                            p.id = id /\ SameSnapshot(p)' /\ Usable(job, p)
      BY <1>3, <2>1 DEF BatchCovers, Usable
    <3>2. PICK p \in run[r].planned : p.id = id /\ SameSnapshot(p) /\ Usable(job, p)
      BY <1>3, <2>1, <3>1 DEF BatchCovers, Spared
    <3>3. SameSnapshot(p)'
      BY <3>1, <3>2 DEF Spared, SameSnapshot
    <3> QED BY <3>2, <3>3
  <2> QED BY <2>2, <2>3, <2>4
<1> QED BY <1>1, <1>2, <1>3 DEF JobCovered

\* A step that touches no row spares them all, for the jobs it changes no history of.
LEMMA QuietSpares ==
  ASSUME UNCHANGED vars, NEW job \in Jobs, touched'[job] = touched[job]
  PROVE  Owed(job)' = Owed(job) /\ Spared(job)
<1>1. UNCHANGED <<codec, body, damaged>>
  BY DEF vars, rows
<1>2. \A id \in Ids : Convertible(job, id)' <=> Convertible(job, id)
  BY <1>1 DEF Convertible, IsSource
<1>3. Owed(job)' = Owed(job)
  BY <1>2 DEF Owed
<1> QED BY <1>1, <1>3 DEF Spared

\* No two processes of a job are at work at once; each may crash and come back.
TakingTurns ==
  \A r, s \in Runners : JobOf[r] = JobOf[s] /\ r # s => run[r].pc = "off" \/ run[s].pc = "off"
Alone(r) == \A s \in Runners \ {r} : JobOf[s] = JobOf[r] => run[s].pc = "off"

\* A runner that steps is at work before or after.
LEMMA StepsAlone ==
  ASSUME MigrationTypeOK, TakingTurns, TakingTurns', NEW r \in Runners, RunnerStep(r)
  PROVE  Alone(r)'
<1>1. run \in [Runners -> RunRecords]
  BY DEF MigrationTypeOK, RunRecords
<1>2. \A s \in Runners \ {r} : run'[s] = run[s]
  BY <1>1 DEF RunnerStep, Begin, WriteFirstState, Resume, Pause, ListIds, PlanRows, ApplyBatch,
     AbortBatch, RecordFailure, FinishPass, Verify, Crash, Go
<1>3. run[r].pc # "off" \/ run'[r].pc # "off"
  BY <1>1 DEF RunnerStep, Begin, WriteFirstState, Resume, Pause, ListIds, PlanRows, ApplyBatch,
     AbortBatch, RecordFailure, FinishPass, Verify, Crash, Off
<1> QED BY <1>2, <1>3 DEF TakingTurns, Alone

\* The runner of a job holds all there is to say about it when it is the only one.
LEMMA OnlyRunner ==
  ASSUME NEW r \in Runners, JobOf[r] \in Jobs, Alone(r)',
         Covers(JobOf[r], jobRow[JobOf[r]].cursor)',
         Unwritten(JobOf[r])',
         CopyCovers(r)', PageCovers(r)', BatchCovers(r)'
  PROVE  JobCovered(JobOf[r])'
BY DEF JobCovered, Alone, CopyCovers, PageCovers, BatchCovers

\* A runner between batches whose copy of the cursor covers, beside a row that does.
LEMMA IdleCovered ==
  ASSUME NEW r \in Runners, JobOf[r] \in Jobs, Alone(r)',
         Covers(JobOf[r], jobRow[JobOf[r]].cursor)',
         jobRow'[JobOf[r]].status # "none",
         run'[r].pc \notin {"plan", "apply"},
         run'[r].pc \in {"off", "begin"} \/ Covers(JobOf[r], run[r].cursor)'
  PROVE  JobCovered(JobOf[r])'
<1>1. Unwritten(JobOf[r])'
  BY DEF Unwritten
<1>2. CopyCovers(r)' /\ PageCovers(r)' /\ BatchCovers(r)'
  BY DEF CopyCovers, PageCovers, BatchCovers
<1> QED BY <1>1, <1>2, OnlyRunner

\* Steps that only write the job's row from the runner's copy, or move the runner on.
LEMMA BookkeepingCovered ==
  ASSUME MigrationTypeOK, NEW r \in Runners, JobOf[r] \in Jobs, Alone(r)', JobCovered(JobOf[r]),
         UNCHANGED <<vars, touched>>,
         run[r].pc \notin {"off", "begin"},
         \/ jobRow' = jobRow
         \/ \E status \in Statuses \ {"none"} : Persist(r, status),
         run' = [run EXCEPT ![r] = Off] \/ Go(r, "fail") \/ Go(r, "verify")
  PROVE  JobCovered(JobOf[r])'
<1>1. Owed(JobOf[r])' = Owed(JobOf[r])
  BY QuietSpares
<1>2. Covers(JobOf[r], jobRow[JobOf[r]].cursor) /\ Covers(JobOf[r], run[r].cursor)
      /\ jobRow[JobOf[r]].status # "none"
  BY DEF JobCovered, CopyCovers, Unwritten
<1>3. run[r] \in RunRecords /\ run \in [Runners -> RunRecords] /\ jobRow \in [Jobs -> JobRows]
  BY DEF MigrationTypeOK, RunRecords, JobRows
<1>4. /\ jobRow'[JobOf[r]].cursor \in {jobRow[JobOf[r]].cursor, run[r].cursor}
      /\ jobRow'[JobOf[r]].status # "none"
  <2>1. CASE jobRow' = jobRow
    BY <1>2, <2>1
  <2>2. CASE \E status \in Statuses \ {"none"} : Persist(r, status)
    <3>1. PICK status \in Statuses \ {"none"} : Persist(r, status)
      BY <2>2
    <3>2. jobRow'[JobOf[r]] = [status |-> status, cursor |-> run[r].cursor, pass |-> run[r].pass]
      BY <1>3, <3>1 DEF Persist
    <3> QED BY <3>1, <3>2
  <2> QED BY <2>1, <2>2
<1>5. Covers(JobOf[r], jobRow[JobOf[r]].cursor)'
  BY <1>1, <1>2, <1>4, CoversIsOwed, CoversIsOwedNext
<1>6. \/ run'[r].pc = "off"
      \/ run'[r].pc \in {"fail", "verify"} /\ run'[r].cursor = run[r].cursor
  BY <1>3 DEF Go, Off, RunRecords
<1>7. run'[r].pc \in {"off", "begin"} \/ Covers(JobOf[r], run[r].cursor)'
  BY <1>1, <1>2, <1>6, CoversIsOwed, CoversIsOwedNext
<1>8. run'[r].pc \notin {"plan", "apply"}
  BY <1>6
<1> QED BY <1>4, <1>5, <1>7, <1>8, IdleCovered

\* A pass begins: the runner has not yet a claim to its cursor.
LEMMA BeginCovered ==
  ASSUME MigrationTypeOK, NEW r \in Runners, JobOf[r] \in Jobs, Alone(r)', JobCovered(JobOf[r]),
         NEW cursor \in Ids \cup {0}, Begin(r, cursor)
  PROVE  JobCovered(JobOf[r])'
<1>1. Owed(JobOf[r])' = Owed(JobOf[r]) /\ jobRow' = jobRow
  BY QuietSpares DEF Begin
<1>2. run \in [Runners -> RunRecords]
  BY DEF MigrationTypeOK, RunRecords
<1>3. run'[r].pc = "begin"
  BY <1>2 DEF Begin, Off
<1>4. Covers(JobOf[r], jobRow[JobOf[r]].cursor)'
  BY <1>1, CoversIsOwed, CoversIsOwedNext DEF JobCovered
<1>5. Unwritten(JobOf[r])'
  BY <1>1, <1>3 DEF JobCovered, Unwritten, Alone
<1>6. CopyCovers(r)' /\ PageCovers(r)' /\ BatchCovers(r)'
  BY <1>3 DEF CopyCovers, PageCovers, BatchCovers
<1> QED BY <1>4, <1>5, <1>6, OnlyRunner

\* The first state of a pass: what lies at or before its cursor is the operator's.
LEMMA FirstStateCovered ==
  ASSUME MigrationTypeOK, NEW r \in Runners, JobOf[r] \in Jobs, Alone(r)', WriteFirstState(r)
  PROVE  JobCovered(JobOf[r])'
<1>1. run \in [Runners -> RunRecords] /\ jobRow \in [Jobs -> JobRows]
      /\ touched \in [Jobs -> SUBSET Ids]
  BY DEF MigrationTypeOK, RunRecords, JobRows
<1>2. /\ jobRow'[JobOf[r]].cursor = run[r].cursor
      /\ jobRow'[JobOf[r]].status = "running"
      /\ run'[r].pc = "loop" /\ run'[r].cursor = run[r].cursor
  BY <1>1 DEF WriteFirstState, Persist, Go, RunRecords
<1>3. {id \in Ids : id <= run[r].cursor} \subseteq touched'[JobOf[r]]
  BY <1>1 DEF WriteFirstState
<1>4. Covers(JobOf[r], run[r].cursor)' /\ Covers(JobOf[r], jobRow[JobOf[r]].cursor)'
  BY <1>2, <1>3 DEF Covers
<1>5. jobRow'[JobOf[r]].status # "none" /\ run'[r].pc \notin {"plan", "apply"}
  BY <1>2
<1> QED BY <1>4, <1>5, IdleCovered

\* --resume: covered up to the stored cursor, and the operator's from there on.
LEMMA ResumeCovered ==
  ASSUME MigrationTypeOK, NEW r \in Runners, JobOf[r] \in Jobs, Alone(r)', JobCovered(JobOf[r]),
         NEW cursor \in Ids \cup {0}, Resume(r, cursor)
  PROVE  JobCovered(JobOf[r])'
<1>1. run \in [Runners -> RunRecords] /\ jobRow \in [Jobs -> JobRows]
      /\ touched \in [Jobs -> SUBSET Ids] /\ jobRow' = jobRow
  BY DEF MigrationTypeOK, RunRecords, JobRows, Resume
<1> DEFINE stored == jobRow[JobOf[r]].cursor
<1>2. touched'[JobOf[r]] = touched[JobOf[r]] \cup {id \in Ids : stored < id /\ id <= cursor}
  BY <1>1 DEF Resume
<1>3. run'[r].pc = "loop" /\ run'[r].cursor = cursor /\ jobRow[JobOf[r]].status # "none"
  BY <1>1 DEF Resume, Off
<1>4. Covers(JobOf[r], jobRow[JobOf[r]].cursor) /\ stored \in Nat /\ cursor \in Nat
  <2>1. jobRow[JobOf[r]] \in JobRows
    BY <1>1
  <2>2. stored \in Ids \cup {0}
    BY <2>1 DEF JobRows
  <2>3. \A id \in Ids \cup {0} : id \in Nat
    BY IdsAssumption
  <2>4. Covers(JobOf[r], jobRow[JobOf[r]].cursor)
    BY DEF JobCovered
  <2> QED BY <2>2, <2>3, <2>4
<1>5. \A id \in Ids : Convertible(JobOf[r], id)' <=> Convertible(JobOf[r], id)
  BY DEF Resume, vars, rows, Convertible, IsSource
<1>6. Covers(JobOf[r], jobRow[JobOf[r]].cursor)'
  BY <1>1, <1>2, <1>4, <1>5 DEF Covers
<1>7. \A id \in Ids : id <= cursor => id <= stored \/ stored < id
  <2>1. \A id \in Ids : id \in Nat
    BY IdsAssumption
  <2> HIDE DEF stored
  <2> QED BY <1>4, <2>1
<1>8. Covers(JobOf[r], run[r].cursor)'
  BY <1>2, <1>3, <1>4, <1>5, <1>7 DEF Covers
<1>9. jobRow'[JobOf[r]].status # "none" /\ run'[r].pc \notin {"plan", "apply"}
  BY <1>1, <1>3
<1> QED BY <1>6, <1>8, <1>9, IdleCovered

\* Observation ids are numbers, and finitely many.
LEMMA IdsAreNumbers ==
  /\ \A i \in Ids \cup {0} : i \in Nat
  /\ \A S \in SUBSET Ids : S \in SUBSET Nat /\ IsFiniteSet(S)
<1>1. \A i \in Ids \cup {0} : i \in Nat
  BY IdsAssumption
<1>2. ASSUME NEW S \in SUBSET Ids PROVE IsFiniteSet(S)
  BY IdsAssumption, FS_Subset
<1> QED BY <1>1, <1>2

\* A page is a prefix of the rows after the cursor: it misses none at or before its last.
LEMMA ListCovered ==
  ASSUME MigrationTypeOK, NEW r \in Runners, JobOf[r] \in Jobs, Alone(r)', JobCovered(JobOf[r]),
         ListIds(r)
  PROVE  JobCovered(JobOf[r])'
<1> DEFINE job == JobOf[r]
           After == {id \in Ids : IsSource(job, id) /\ id > run[r].cursor}
           page == FirstOf(After, BatchRows)
<1>1. run \in [Runners -> RunRecords] /\ jobRow' = jobRow
  BY DEF MigrationTypeOK, RunRecords, ListIds
<1>2. Owed(job)' = Owed(job)
  BY QuietSpares DEF ListIds
<1>3. run'[r] = [run[r] EXCEPT !.pc = IF page = {} THEN "done" ELSE "plan", !.ids = page]
  BY <1>1 DEF ListIds
<1>4. run'[r].pc \in {"done", "plan"} /\ run'[r].ids = page /\ run'[r].cursor = run[r].cursor
  BY <1>1, <1>3 DEF RunRecords
<1>5. Covers(job, jobRow[job].cursor) /\ Covers(job, run[r].cursor)
  BY DEF JobCovered, CopyCovers, ListIds
<1>6. Covers(job, jobRow[job].cursor)' /\ Covers(job, run[r].cursor)'
  <2> HIDE DEF job, page
  <2>1. jobRow'[job].cursor = jobRow[job].cursor
    BY <1>1
  <2>2. Covers(job, jobRow[job].cursor)'
    BY <1>2, <1>5, <2>1, CoversIsOwed, CoversIsOwedNext
  <2>3. Covers(job, run[r].cursor)'
    BY <1>2, <1>4, <1>5, CoversIsOwed, CoversIsOwedNext
  <2> QED BY <2>2, <2>3
<1>7. Unwritten(job)'
  BY <1>1, <1>4 DEF JobCovered, Unwritten, ListIds
<1>8. PageCovers(r)'
  <2>1. SUFFICES ASSUME NEW id \in Owed(job), NEW x \in page, id <= x PROVE id \in page
    BY <1>2, <1>4 DEF PageCovers
  <2>2. id \in Ids /\ IsSource(job, id) /\ ~(id <= run[r].cursor)
    BY <1>5 DEF Owed, Convertible, Covers
  <2>3. id \in Nat /\ run[r].cursor \in Nat
    <3>1. run[r].cursor \in Ids \cup {0}
      BY <1>1 DEF RunRecords
    <3> QED BY <2>2, <3>1, IdsAreNumbers
  <2>4. id \in After
    BY <2>2, <2>3
  <2>5. After \in SUBSET Nat /\ IsFiniteSet(After) /\ BatchRows \in Int
    <3>1. After \in SUBSET Ids
      OBVIOUS
    <3> HIDE DEF After
    <3> QED BY <3>1, IdsAreNumbers, MigrationBoundsAssumption
  <2> HIDE DEF After
  <2> QED BY <2>1, <2>4, <2>5, FirstOfIsPrefix
<1>9. CopyCovers(r)' /\ BatchCovers(r)'
  BY <1>4, <1>6 DEF CopyCovers, BatchCovers
<1> HIDE DEF job
<1> QED BY <1>6, <1>7, <1>8, <1>9, OnlyRunner DEF job

\* A batch is a prefix of its page, as the rows are at that moment.
LEMMA PlanCovered ==
  ASSUME MigrationPoolInv, NEW r \in Runners, JobOf[r] \in Jobs, Alone(r)', JobCovered(JobOf[r]),
         PlanRows(r), ~Go(r, "fail")
  PROVE  JobCovered(JobOf[r])'
<1> DEFINE job == JobOf[r]
<1>1. /\ run \in [Runners -> RunRecords] /\ jobRow' = jobRow /\ run[r] \in RunRecords
      /\ run[r].pc = "plan" /\ UNCHANGED <<codec, body, damaged>>
  BY DEF MigrationPoolInv, MigrationTypeOK, RunRecords, PlanRows, vars, rows
<1>2. Owed(job)' = Owed(job)
  BY QuietSpares DEF PlanRows
<1>3. PICK take \in 1..Cardinality(run[r].ids) :
        run' = [run EXCEPT ![r].pc = "apply",
                           ![r].planned = {SnapshotOf(id) : id \in FirstOf(run[r].ids, take)}]
  BY DEF PlanRows
<1> DEFINE batch == FirstOf(run[r].ids, take)
<1>4. /\ run'[r].pc = "apply" /\ run'[r].cursor = run[r].cursor
      /\ run'[r].planned = {SnapshotOf(id) : id \in batch}
  BY <1>1, <1>3 DEF RunRecords
<1>5. Covers(job, jobRow[job].cursor) /\ Covers(job, run[r].cursor) /\ PageCovers(r)
  BY <1>1 DEF JobCovered, CopyCovers
<1>6. Covers(job, jobRow[job].cursor)' /\ Covers(job, run[r].cursor)'
  <2> HIDE DEF job
  <2>1. jobRow'[job].cursor = jobRow[job].cursor
    BY <1>1
  <2>2. Covers(job, jobRow[job].cursor)'
    BY <1>2, <1>5, <2>1, CoversIsOwed, CoversIsOwedNext
  <2>3. Covers(job, run[r].cursor)'
    BY <1>2, <1>4, <1>5, CoversIsOwed, CoversIsOwedNext
  <2> QED BY <2>2, <2>3
<1>7. Unwritten(job)'
  BY <1>1 DEF JobCovered, Unwritten
<1>8. BatchCovers(r)'
  <2>1. SUFFICES ASSUME NEW id \in Owed(job), NEW q \in {SnapshotOf(i) : i \in batch}, id <= q.id
                 PROVE  \E p \in {SnapshotOf(i) : i \in batch} :
                          p.id = id /\ SameSnapshot(p)' /\ Usable(job, p)
    BY <1>2, <1>4 DEF BatchCovers, Usable
  <2>2. PICK x \in batch : q = SnapshotOf(x)
    BY <2>1
  <2>3. q.id = x /\ x \in run[r].ids
    BY <2>2 DEF SnapshotOf, FirstOf
  <2>4. id \in run[r].ids
    BY <1>1, <1>5, <2>1, <2>3 DEF PageCovers
  <2>5. id \in batch
    <3>1. run[r].ids \in SUBSET Ids
      BY <1>1 DEF RunRecords
    <3>2. run[r].ids \in SUBSET Nat /\ IsFiniteSet(run[r].ids) /\ take \in Int
      BY <3>1, IdsAreNumbers
    <3> QED BY <2>1, <2>2, <2>3, <2>4, <3>2, FirstOfIsPrefix
  <2>6. Convertible(job, id) /\ id \in Ids
    BY DEF Owed
  <2>7. PICK p : p = SnapshotOf(id)
    OBVIOUS
  <2>8. p.id = id /\ SameSnapshot(p)'
    BY <1>1, <2>6, <2>7 DEF SnapshotOf, SameSnapshot, Convertible
  <2>9. Usable(job, p)
    BY <2>6, <2>7 DEF SnapshotOf, Usable, Convertible, IsSource, Jobs
  <2> QED BY <2>5, <2>7, <2>8, <2>9
<1>9. CopyCovers(r)' /\ PageCovers(r)'
  BY <1>4, <1>6 DEF CopyCovers, PageCovers
<1> HIDE DEF job
<1> QED BY <1>6, <1>7, <1>8, <1>9, OnlyRunner DEF job

\* A runner's own batch: what it converts is no source any more, the rest of the rows
\* up to the last planned one were changed since, or were never its to convert.
LEMMA ApplyCovered ==
  ASSUME MigrationPoolInv, NEW r \in Runners, JobOf[r] \in Jobs, Alone(r)', JobCovered(JobOf[r]),
         ApplyBatch(r)
  PROVE  JobCovered(JobOf[r])'
<1> DEFINE job == JobOf[r]
           converted == {p \in run[r].planned : SameSnapshot(p) /\ Usable(job, p)}
           target == IF job = "expand" THEN "plain" ELSE "cas"
<1>1. /\ run \in [Runners -> RunRecords] /\ jobRow \in [Jobs -> JobRows]
      /\ touched \in [Jobs -> SUBSET Ids] /\ body' = body /\ damaged' = damaged
      /\ \A p \in converted : p.id \in Ids
  BY ConvertedRows DEF MigrationPoolInv, MigrationTypeOK, RunRecords, JobRows, ApplyBatch, gcState
<1>2. touched'[job] = touched[job]
  BY <1>1 DEF ApplyBatch, Touch
<1>3. codec' = [id \in Ids |-> IF \E p \in converted : p.id = id THEN target ELSE codec[id]]
  BY DEF ApplyBatch
<1>4. PICK last \in EndOfBatch(r) :
        /\ jobRow' = [jobRow EXCEPT ![job] = [status |-> "running", cursor |-> last,
                                              pass |-> run[r].pass]]
        /\ run' = [run EXCEPT ![r] = [Off EXCEPT !.pc = "loop", !.cursor = last,
                                                 !.pass = run[r].pass]]
  BY DEF ApplyBatch
<1>5. /\ jobRow'[job].cursor = last /\ jobRow'[job].status = "running"
      /\ run'[r].pc = "loop" /\ run'[r].cursor = last
  BY <1>1, <1>4 DEF Off
<1>6. PICK q \in run[r].planned : q.id = last
  BY DEF EndOfBatch
<1>7. run[r].pc = "apply" /\ BatchCovers(r)
  BY DEF ApplyBatch, JobCovered
<1>8. ASSUME NEW id \in Ids, id <= last, Convertible(job, id)'
      PROVE  id \in touched'[job]
  <2>1. SUFFICES ASSUME id \notin touched[job] PROVE FALSE
    BY <1>2
  <2>2. codec'[id] # target
    BY <1>8 DEF Convertible, IsSource
  <2>3. ~ \E p \in converted : p.id = id
    BY <1>3, <2>2
  <2>4. codec'[id] = codec[id]
    BY <1>3, <2>3
  <2>5. id \in Owed(job)
    BY <1>1, <1>8, <2>1, <2>4 DEF Owed, Convertible, IsSource
  <2>6. \E p \in run[r].planned : p.id = id /\ SameSnapshot(p) /\ Usable(job, p)
    BY <1>6, <1>7, <1>8, <2>5 DEF BatchCovers
  <2> QED BY <2>3, <2>6
<1>9. Covers(job, jobRow[job].cursor)' /\ Covers(job, run[r].cursor)'
  BY <1>5, <1>8 DEF Covers
<1>10. jobRow'[job].status # "none" /\ run'[r].pc \notin {"plan", "apply"}
  BY <1>5
<1> HIDE DEF job
<1> QED BY <1>9, <1>10, IdleCovered DEF job

\* Another job's batch: the rows it converted are no longer this job's to answer for.
LEMMA OtherApplyCovered ==
  ASSUME MigrationPoolInv, NEW r \in Runners, ApplyBatch(r),
         NEW job \in Jobs, job # JobOf[r], JobCovered(job)
  PROVE  JobCovered(job)'
<1> DEFINE converted == {p \in run[r].planned : SameSnapshot(p) /\ Usable(JobOf[r], p)}
           target == IF JobOf[r] = "expand" THEN "plain" ELSE "cas"
           ids == {p.id : p \in converted}
<1>1. /\ run \in [Runners -> RunRecords] /\ jobRow \in [Jobs -> JobRows]
      /\ touched \in [Jobs -> SUBSET Ids] /\ body' = body /\ damaged' = damaged
  BY ConvertedRows DEF MigrationPoolInv, MigrationTypeOK, RunRecords, JobRows, ApplyBatch, gcState
<1>2. codec' = [id \in Ids |-> IF \E p \in converted : p.id = id THEN target ELSE codec[id]]
      /\ Touch(Jobs \ {JobOf[r]}, ids)
  BY DEF ApplyBatch
<1>3. touched'[job] = {id \in touched[job] \cup ids : Convertible(job, id)'}
  BY <1>2 DEF Touch
<1>4. ASSUME NEW id \in Owed(job)' PROVE id \in Owed(job) /\ codec'[id] = codec[id]
  <2>1. id \in Ids /\ Convertible(job, id)' /\ id \notin touched[job] /\ id \notin ids
    BY <1>3 DEF Owed
  <2>2. codec'[id] = codec[id]
    BY <1>2, <2>1
  <2>3. Convertible(job, id)
    BY <1>1, <2>1, <2>2 DEF Convertible, IsSource
  <2> QED BY <2>1, <2>2, <2>3 DEF Owed
<1>5. Spared(job)
  BY <1>1, <1>4 DEF Spared
<1>6. jobRow'[job] = jobRow[job]
  BY <1>1 DEF ApplyBatch
<1>7. \A s \in Runners : JobOf[s] = job => run'[s] = run[s]
  BY <1>1 DEF ApplyBatch
<1> QED BY <1>5, <1>6, <1>7, BystanderCovered DEF MigrationPoolInv

\* A step of the server touches what it changes, once the job has begun.
LEMMA ServerStepCovered ==
  ASSUME MigrationPoolInv, MigrationPoolInv', ServerStep, NEW job \in Jobs, JobCovered(job)
  PROVE  JobCovered(job)'
<1> DEFINE started == {j \in Jobs : jobRow[j].status # "none"}
           changed == {id \in Ids : \/ codec'[id] # codec[id] \/ body'[id] # body[id]
                                    \/ (id \in damaged) # (id \in damaged')}
<1>1. Touch(started, changed) /\ UNCHANGED <<jobRow, run>>
  BY DEF ServerStep
<1>2. CASE job \in started
  <2>1. touched'[job] = {id \in touched[job] \cup changed : Convertible(job, id)'}
    <3> HIDE DEF started, changed
    <3> QED BY <1>1, <1>2 DEF Touch
  <2>2. ASSUME NEW id \in Owed(job)'
        PROVE  /\ id \in Owed(job)
               /\ codec'[id] = codec[id] /\ body'[id] = body[id]
               /\ (id \in damaged) = (id \in damaged')
    <3>1. id \in Ids /\ Convertible(job, id)' /\ id \notin touched[job] /\ id \notin changed
      <4> HIDE DEF changed
      <4> QED BY <2>1 DEF Owed
    <3>2. /\ codec'[id] = codec[id] /\ body'[id] = body[id]
          /\ (id \in damaged) = (id \in damaged')
      BY <3>1
    <3>3. Convertible(job, id)
      BY <3>1, <3>2 DEF Convertible, IsSource
    <3> QED BY <3>1, <3>2, <3>3 DEF Owed
  <2>3. Spared(job)
    BY <2>2 DEF Spared
  <2> QED BY <1>1, <2>3, BystanderCovered DEF MigrationPoolInv
<1>3. CASE job \notin started
  <2>1. Unwritten(job) /\ jobRow[job].status = "none"
    BY <1>3 DEF JobCovered
  <2>2. Unwritten(job)'
    BY <1>1, <2>1 DEF Unwritten
  <2>3. jobRow'[job].cursor = 0
    BY <1>1, <2>1 DEF Unwritten
  <2>4. Covers(job, jobRow[job].cursor)'
    <3>1. \A id \in Ids : ~(id <= 0)
      BY IdsAssumption
    <3> QED BY <2>3, <3>1 DEF Covers
  <2>5. ASSUME NEW r \in Runners, JobOf[r] = job
        PROVE  CopyCovers(r)' /\ PageCovers(r)' /\ BatchCovers(r)'
    <3>1. run'[r].pc \in {"off", "begin"}
      BY <1>1, <2>1, <2>5 DEF Unwritten
    <3> QED BY <3>1 DEF CopyCovers, PageCovers, BatchCovers
  <2> QED BY <2>2, <2>4, <2>5 DEF JobCovered
<1> QED BY <1>2, <1>3

\* The steps of a runner, seen from its own job.
LEMMA OwnStepCovered ==
  ASSUME MigrationPoolInv, NEW r \in Runners, Alone(r)', JobCovered(JobOf[r]), RunnerStep(r)
  PROVE  JobCovered(JobOf[r])'
<1>1. JobOf[r] \in Jobs /\ MigrationTypeOK
  BY RunnersAssumption DEF MigrationPoolInv
<1>2. CASE \E cursor \in Ids \cup {0} : Begin(r, cursor) \/ Resume(r, cursor)
  BY <1>1, <1>2, BeginCovered, ResumeCovered
<1>3. CASE WriteFirstState(r)
  BY <1>1, <1>3, FirstStateCovered
<1>4. CASE Pause(r) \/ RecordFailure(r) \/ FinishPass(r)
  <2>1. UNCHANGED <<vars, touched>> /\ run[r].pc \notin {"off", "begin"}
    BY <1>4 DEF Pause, RecordFailure, FinishPass
  <2>2. \E status \in Statuses \ {"none"} : Persist(r, status)
    BY <1>4 DEF Pause, RecordFailure, FinishPass, Statuses
  <2>3. run' = [run EXCEPT ![r] = Off] \/ Go(r, "verify")
    BY <1>4 DEF Pause, RecordFailure, FinishPass
  <2> QED BY <1>1, <2>1, <2>2, <2>3, BookkeepingCovered
<1>5. CASE AbortBatch(r) \/ Verify(r) \/ (PlanRows(r) /\ Go(r, "fail"))
  <2>1. UNCHANGED <<vars, touched>> /\ jobRow' = jobRow /\ run[r].pc \notin {"off", "begin"}
    BY <1>5 DEF AbortBatch, Verify, PlanRows
  <2>2. run' = [run EXCEPT ![r] = Off] \/ Go(r, "fail")
    BY <1>5 DEF AbortBatch, Verify
  <2> QED BY <1>1, <2>1, <2>2, BookkeepingCovered
<1>6. CASE Crash(r)
  <2>1. CASE run[r].pc = "begin"
    <3>1. Owed(JobOf[r])' = Owed(JobOf[r]) /\ jobRow' = jobRow
      BY <1>1, <1>6, QuietSpares DEF Crash
    <3>2. run'[r].pc = "off"
      BY <1>1, <1>6 DEF Crash, MigrationTypeOK, Off
    <3>3. Covers(JobOf[r], jobRow[JobOf[r]].cursor)'
      BY <3>1, CoversIsOwed, CoversIsOwedNext DEF JobCovered
    <3>4. Unwritten(JobOf[r])'
      BY <3>1, <3>2 DEF JobCovered, Unwritten, Alone
    <3>5. CopyCovers(r)' /\ PageCovers(r)' /\ BatchCovers(r)'
      BY <3>2 DEF CopyCovers, PageCovers, BatchCovers
    <3> QED BY <1>1, <3>3, <3>4, <3>5, OnlyRunner
  <2>2. CASE run[r].pc # "begin"
    BY <1>1, <1>6, <2>2, BookkeepingCovered DEF Crash
  <2> QED BY <2>1, <2>2
<1>7. CASE ListIds(r)
  BY <1>1, <1>7, ListCovered
<1>8. CASE PlanRows(r) /\ ~Go(r, "fail")
  BY <1>1, <1>8, PlanCovered
<1>9. CASE ApplyBatch(r)
  BY <1>1, <1>9, ApplyCovered
<1> QED
  BY <1>2, <1>3, <1>4, <1>5, <1>6, <1>7, <1>8, <1>9 DEF RunnerStep

\* Of the steps of a runner only an applied batch is felt by the other jobs.
LEMMA OtherStepCovered ==
  ASSUME MigrationPoolInv, NEW r \in Runners, RunnerStep(r),
         NEW job \in Jobs, job # JobOf[r], JobCovered(job)
  PROVE  JobCovered(job)'
<1>1. CASE ApplyBatch(r)
  BY <1>1, OtherApplyCovered
<1>2. CASE ~ApplyBatch(r)
  <2>1. /\ run \in [Runners -> RunRecords] /\ jobRow \in [Jobs -> JobRows]
        /\ touched \in [Jobs -> SUBSET Ids] /\ MigrationTypeOK
    BY DEF MigrationPoolInv, MigrationTypeOK, RunRecords, JobRows
  <2>2. UNCHANGED vars
    BY <1>2 DEF RunnerStep, Begin, WriteFirstState, Resume, Pause, ListIds, PlanRows,
       AbortBatch, RecordFailure, FinishPass, Verify, Crash
  <2>3. touched'[job] = touched[job]
    BY <1>2, <2>1 DEF RunnerStep, Begin, WriteFirstState, Resume, Pause, ListIds, PlanRows,
       AbortBatch, RecordFailure, FinishPass, Verify, Crash
  <2>4. jobRow'[job] = jobRow[job]
    BY <1>2, <2>1 DEF RunnerStep, Begin, WriteFirstState, Resume, Pause, ListIds, PlanRows,
       AbortBatch, RecordFailure, FinishPass, Verify, Crash, Persist
  <2>5. ASSUME NEW s \in Runners, JobOf[s] = job PROVE run'[s] = run[s]
    <3>1. s # r
      BY <2>5
    <3> QED BY <1>2, <2>1, <3>1 DEF RunnerStep, Begin, WriteFirstState, Resume, Pause, ListIds,
       PlanRows, AbortBatch, RecordFailure, FinishPass, Verify, Crash, Go
  <2> QED BY <2>1, <2>2, <2>3, <2>4, <2>5, QuietSpares, BystanderCovered
<1> QED BY <1>1, <1>2

\* A job that is resumed, after a crash, a pause or a failure, has lost no row: those at
\* or before its stored cursor are re-encoded, or someone else changed them since the
\* pass began, or the operator skipped them.  It holds as long as no two processes of a
\* job are at work at once.
THEOREM ResumingLosesNothing == MigrationSpec /\ []TakingTurns => []CursorCovers
<1>1. MigrationInit => CursorIInv
  <2> SUFFICES ASSUME MigrationInit PROVE CursorIInv
    OBVIOUS
  <2>1. MigrationPoolInv
    BY MigrationInitInv
  <2>2. ASSUME NEW job \in Jobs PROVE JobCovered(job)
    <3>1. jobRow[job].cursor = 0 /\ \A r \in Runners : run[r].pc = "off"
      BY DEF MigrationInit, Off
    <3>2. \A id \in Ids : ~(id <= 0)
      BY IdsAssumption
    <3>3. Covers(job, jobRow[job].cursor)
      BY <3>1, <3>2 DEF Covers
    <3> QED BY <3>1, <3>3 DEF JobCovered, Unwritten, CopyCovers, PageCovers, BatchCovers
  <2> QED BY <2>1, <2>2 DEF CursorIInv
<1>2. CursorIInv /\ TakingTurns /\ TakingTurns' /\ [MigrationNext]_allVars => CursorIInv'
  <2> SUFFICES ASSUME CursorIInv, TakingTurns, TakingTurns', [MigrationNext]_allVars
               PROVE  CursorIInv'
    OBVIOUS
  <2>1. MigrationPoolInv /\ MigrationPoolInv'
    BY MigrationNextInv DEF CursorIInv
  <2>2. ASSUME NEW job \in Jobs PROVE JobCovered(job)'
    <3>1. JobCovered(job) /\ MigrationTypeOK
      BY <2>1 DEF CursorIInv, MigrationPoolInv
    <3>2. CASE ServerStep
      BY <2>1, <3>1, <3>2, ServerStepCovered
    <3>3. ASSUME NEW r \in Runners, RunnerStep(r) PROVE JobCovered(job)'
      <4>1. CASE job = JobOf[r]
        BY <2>1, <3>1, <3>3, <4>1, StepsAlone, OwnStepCovered
      <4>2. CASE job # JobOf[r]
        BY <2>1, <3>1, <3>3, <4>2, OtherStepCovered
      <4> QED BY <4>1, <4>2
    <3>4. CASE UNCHANGED allVars
      <4>1. UNCHANGED vars /\ UNCHANGED <<jobRow, run, touched>>
        BY <3>4 DEF allVars, migrationVars
      <4> QED BY <3>1, <4>1, QuietSpares, BystanderCovered
    <3> QED BY <3>2, <3>3, <3>4 DEF MigrationNext
  <2> QED BY <2>1, <2>2 DEF CursorIInv
<1>3. CursorIInv => CursorCovers
  BY DEF CursorIInv, JobCovered, Covers, CursorCovers
<1> QED BY <1>1, <1>2, <1>3, PTL DEF MigrationSpec
=============================================================================
