--------------------------- MODULE ReadPathProofs ---------------------------
(***************************************************************************)
(* What the server keeps in memory for its reads, and its job queue, for   *)
(* any requests, keys, slots, jobs, sizes and limits.                      *)
(***************************************************************************)
EXTENDS ReadPath, InMemoryQueue, CollectionProofs

-----------------------------------------------------------------------------
(***************************************************************************)
(* The pool: which slot is given which query.                              *)
(***************************************************************************)

\* The rank of a slot counts the idle slots up to it.
LEMMA RankCounts ==
  ASSUME NEW st, NEW s \in 0..Size
  PROVE  /\ Rank(st, s) \in Nat
         /\ s = 0 => Rank(st, s) = 0
         /\ s # 0 => Rank(st, s) = Rank(st, s - 1) + IF st[s] = "idle" THEN 1 ELSE 0
<1> DEFINE I(n) == {t \in 1..n : st[t] = "idle"}
<1>1. Size \in Nat /\ s \in Nat
  BY PoolAssumption
<1>2. \A n \in Int : IsFiniteSet(I(n)) /\ Cardinality(I(n)) \in Nat
  <2> SUFFICES ASSUME NEW n \in Int PROVE IsFiniteSet(I(n)) /\ Cardinality(I(n)) \in Nat
    OBVIOUS
  <2>1. IsFiniteSet(1..n) /\ I(n) \in SUBSET (1..n)
    BY FS_Interval
  <2> HIDE DEF I
  <2> QED BY <2>1, FS_Subset, FS_CardinalityType
<1>3. s = 0 => I(s) = {}
  BY <1>1
<1>4. s # 0 => I(s) = I(s - 1) \cup (IF st[s] = "idle" THEN {s} ELSE {}) /\ s \notin I(s - 1)
  BY <1>1
<1>5. \A n : Rank(st, n) = Cardinality(I(n))
  BY DEF Rank
<1>6. s # 0 => Cardinality(I(s)) = Cardinality(I(s - 1)) + IF st[s] = "idle" THEN 1 ELSE 0
  <2> SUFFICES ASSUME s # 0
               PROVE  Cardinality(I(s)) = Cardinality(I(s - 1)) + IF st[s] = "idle" THEN 1 ELSE 0
    OBVIOUS
  <2>1. s - 1 \in Int /\ IsFiniteSet(I(s - 1)) /\ Cardinality(I(s - 1)) \in Nat
    BY <1>1, <1>2
  <2> HIDE DEF I
  <2>2. CASE st[s] = "idle"
    <3>1. I(s) = I(s - 1) \cup {s} /\ s \notin I(s - 1)
      BY <1>4, <2>2
    <3>2. Cardinality(I(s - 1) \cup {s}) = Cardinality(I(s - 1)) + 1
      BY <2>1, <3>1, FS_AddElement
    <3> QED BY <2>2, <3>1, <3>2
  <2>3. CASE st[s] # "idle"
    <3>1. I(s) = I(s - 1)
      BY <1>4, <2>3
    <3> QED BY <2>1, <2>3, <3>1
  <2> QED BY <2>2, <2>3
<1> HIDE DEF I
<1> QED BY <1>1, <1>2, <1>3, <1>5, <1>6, FS_EmptySet

\* Idle slots have different ranks, and every rank up to one of a slot is one of
\* an idle slot.
LEMMA RankOrders ==
  ASSUME NEW st, NEW s \in Slots
  PROVE  /\ \A t \in Slots : t < s /\ st[s] = "idle" => Rank(st, t) < Rank(st, s)
         /\ st[s] = "idle" => Rank(st, s) > 0
         /\ \A i \in 1..Rank(st, s) : \E t \in Slots : st[t] = "idle" /\ Rank(st, t) = i
<1>1. Size \in Nat /\ Slots = 1..Size /\ s \in 1..Size
  BY PoolAssumption DEF Slots
<1>2. \A n \in 0..Size : Rank(st, n) \in Nat
  BY RankCounts
<1>3. \A n \in 1..Size : Rank(st, n) = Rank(st, n - 1) + IF st[n] = "idle" THEN 1 ELSE 0
  BY <1>1, RankCounts
<1>4. Rank(st, 0) = 0
  BY <1>1, RankCounts
<1>5. ASSUME NEW t \in Slots, t < s, st[s] = "idle" PROVE Rank(st, t) < Rank(st, s)
  <2> DEFINE M == {n \in 0..(s - 1) : t <= n => Rank(st, t) <= Rank(st, n)}
  <2>1. 0 \in M
    BY <1>1
  <2>2. ASSUME NEW n \in 0..((s - 1) - 1), n \in M PROVE n + 1 \in M
    <3>1. n \in 0..Size /\ n + 1 \in 1..Size /\ n + 1 \in 0..(s - 1) /\ (n + 1) - 1 = n
          /\ n + 1 \in 0..Size /\ t \in 0..Size
      BY <1>1
    <3>2. Rank(st, n + 1) = Rank(st, n) + IF st[n + 1] = "idle" THEN 1 ELSE 0
      BY <1>3, <3>1
    <3>3. Rank(st, n) \in Nat /\ Rank(st, n + 1) \in Nat /\ Rank(st, t) \in Nat
      BY <1>2, <3>1
    <3>4. CASE t <= n
      <4>1. Rank(st, t) <= Rank(st, n)
        BY <2>2, <3>4
      <4> QED BY <3>1, <3>2, <3>3, <4>1
    <3>5. CASE t = n + 1
      BY <3>1, <3>3, <3>5
    <3>6. CASE t > n + 1
      BY <3>1, <3>6
    <3> QED BY <1>1, <3>1, <3>4, <3>5, <3>6
  <2>3. s - 1 \in M
    <3> HIDE DEF M
    <3>1. s - 1 \in Nat
      BY <1>1
    <3>2. \A n \in 0..((s - 1) - 1) : n \in M => n + 1 \in M
      BY <2>2
    <3>3. \A n \in 0..(s - 1) : n \in M
      BY <2>1, <3>1, <3>2, UpTo
    <3> QED BY <3>1, <3>3
  <2>4. Rank(st, t) <= Rank(st, s - 1)
    BY <1>1, <1>5, <2>3
  <2>5. Rank(st, s) = Rank(st, s - 1) + 1
    BY <1>1, <1>3, <1>5
  <2>6. t \in 0..Size /\ s - 1 \in 0..Size
    BY <1>1, <1>5
  <2> QED BY <1>2, <2>4, <2>5, <2>6
<1>6. st[s] = "idle" => Rank(st, s) > 0
  <2>1. s - 1 \in 0..Size
    BY <1>1
  <2> QED BY <1>1, <1>2, <1>3, <2>1
<1>7. \A i \in 1..Rank(st, s) : \E t \in Slots : st[t] = "idle" /\ Rank(st, t) = i
  <2> DEFINE M == {n \in 0..Size :
                     \A i \in 1..Rank(st, n) : \E t \in Slots : st[t] = "idle" /\ Rank(st, t) = i}
  <2>1. 0 \in M
    BY <1>1, <1>4
  <2>2. ASSUME NEW n \in 0..(Size - 1), n \in M PROVE n + 1 \in M
    <3>1. n \in 0..Size /\ n + 1 \in 1..Size /\ (n + 1) - 1 = n /\ n + 1 \in 0..Size
      BY <1>1
    <3>2. Rank(st, n + 1) = Rank(st, n) + IF st[n + 1] = "idle" THEN 1 ELSE 0
      BY <1>3, <3>1
    <3>3. Rank(st, n) \in Nat /\ Rank(st, n + 1) \in Nat
      BY <1>2, <3>1
    <3>4. ASSUME NEW i \in 1..Rank(st, n + 1)
          PROVE  \E t \in Slots : st[t] = "idle" /\ Rank(st, t) = i
      <4>1. CASE i \in 1..Rank(st, n)
        BY <2>2, <4>1
      <4>2. CASE i \notin 1..Rank(st, n)
        <5>1. i = Rank(st, n + 1) /\ st[n + 1] = "idle"
          BY <3>2, <3>3, <3>4, <4>2
        <5> QED BY <1>1, <3>1, <5>1
      <4> QED BY <4>1, <4>2
    <3> QED BY <3>1, <3>4
  <2>3. s \in M
    <3> HIDE DEF M
    <3>1. \A n \in 0..(Size - 1) : n \in M => n + 1 \in M
      BY <2>2
    <3>2. \A n \in 0..Size : n \in M
      BY <1>1, <2>1, <3>1, UpTo
    <3> QED BY <1>1, <3>2
  <2> QED BY <2>3
<1> QED BY <1>5, <1>6, <1>7

\* The queries that wait are those of the pool that no slot has, each once.
LEMMA WaitingAre ==
  ASSUME NEW req, NEW q \in Seq(Queries), IsInjective(q)
  PROVE  /\ Waiting(req, q) \in Seq(Queries) /\ IsInjective(Waiting(req, q))
         /\ Range(Waiting(req, q)) = {x \in Range(q) : \A s \in Slots : req[s] # x}
<1> DEFINE S == {x \in Queries : \A s \in Slots : req[s] # x}
<1>1. /\ Selected(q, S) \in Seq(Queries) /\ IsInjective(Selected(q, S))
      /\ Range(Selected(q, S)) = Range(q) \cap S
  <2> HIDE DEF S
  <2> QED BY SelectedRange
<1>2. Range(q) \in SUBSET Queries
  BY RangeOfSeq
<1>3. Range(q) \cap S = {x \in Range(q) : \A s \in Slots : req[s] # x}
  BY <1>2
<1>4. Waiting(req, q) = Selected(q, S)
  BY DEF Waiting
<1> HIDE DEF S
<1> QED BY <1>1, <1>3, <1>4

\* A query that waits is given to at most one slot, which was idle; and a slot
\* that stays idle leaves none.
LEMMA GivenOnce ==
  ASSUME NEW st, NEW req, NEW q \in Seq(Queries), IsInjective(q)
  PROVE  /\ \A s \in Slots : Given(st, req, q, s) # Nobody =>
              /\ st[s] = "idle" /\ Given(st, req, q, s) \in Range(q)
              /\ \A t \in Slots : req[t] # Given(st, req, q, s)
         /\ \A s, t \in Slots : s # t /\ Given(st, req, q, s) # Nobody =>
              Given(st, req, q, s) # Given(st, req, q, t)
         /\ \A s \in Slots : st[s] = "idle" /\ Given(st, req, q, s) = Nobody =>
              \A x \in Range(q) : \E t \in Slots : req[t] = x \/ Given(st, req, q, t) = x
<1> DEFINE W == Waiting(req, q)
           R(s) == Rank(st, s)
           G(s) == Given(st, req, q, s)
<1>1. /\ W \in Seq(Queries) /\ IsInjective(W) /\ DOMAIN W = 1..Len(W) /\ Len(W) \in Nat
      /\ Range(W) = {x \in Range(q) : \A s \in Slots : req[s] # x}
  <2>1. W \in Seq(Queries)
    BY WaitingAre
  <2> QED BY <2>1, WaitingAre, LenProperties
<1>2. Slots \subseteq 0..Size /\ Slots \subseteq Nat
  BY PoolAssumption DEF Slots
<1>3. \A s \in Slots : R(s) \in Nat /\ (st[s] = "idle" => R(s) > 0)
  BY <1>2, RankCounts, RankOrders
<1>4. \A s \in Slots : G(s) = IF st[s] = "idle" /\ R(s) <= Len(W) THEN W[R(s)] ELSE Nobody
  BY DEF Given
<1>5. \A i \in 1..Len(W) : W[i] \in Range(W) /\ W[i] \in Queries /\ W[i] # Nobody
  <2> HIDE DEF W
  <2>1. \A i \in 1..Len(W) : W[i] \in Range(W)
    BY <1>1 DEF Range
  <2>2. \A i \in 1..Len(W) : W[i] \in Queries
    BY <1>1, ElementOfSeq
  <2> QED BY <2>1, <2>2, PoolAssumption
<1>6. \A s, t \in Slots : s # t /\ st[s] = "idle" /\ st[t] = "idle" => R(s) # R(t)
  <2> SUFFICES ASSUME NEW s \in Slots, NEW t \in Slots, s # t, st[s] = "idle", st[t] = "idle"
               PROVE  R(s) # R(t)
    OBVIOUS
  <2>1. s < t \/ t < s
    BY <1>2
  <2>2. t < s => R(t) < R(s)
    BY RankOrders
  <2>3. s < t => R(s) < R(t)
    BY RankOrders
  <2> QED BY <1>3, <2>1, <2>2, <2>3
<1>7. \A s \in Slots : \A i \in 1..R(s) : \E t \in Slots : st[t] = "idle" /\ R(t) = i
  BY RankOrders
<1> HIDE DEF W, R, G
<1>8. \A s \in Slots : G(s) # Nobody =>
        st[s] = "idle" /\ R(s) \in 1..Len(W) /\ G(s) = W[R(s)] /\ G(s) \in Range(W)
  BY <1>1, <1>3, <1>4, <1>5
<1>9. \A s, t \in Slots : s # t /\ G(s) # Nobody => G(s) # G(t)
  <2> SUFFICES ASSUME NEW s \in Slots, NEW t \in Slots, s # t, G(s) # Nobody, G(s) = G(t)
               PROVE  FALSE
    OBVIOUS
  <2>1. W[R(s)] = W[R(t)] /\ R(s) \in DOMAIN W /\ R(t) \in DOMAIN W /\ R(s) # R(t)
    BY <1>1, <1>6, <1>8
  <2> QED BY <1>1, <2>1 DEF IsInjective
<1>10. ASSUME NEW s \in Slots, st[s] = "idle", G(s) = Nobody, NEW x \in Range(q)
       PROVE  \E t \in Slots : req[t] = x \/ G(t) = x
  <2>1. SUFFICES ASSUME \A t \in Slots : req[t] # x PROVE \E t \in Slots : G(t) = x
    OBVIOUS
  <2>2. x \in Range(W)
    BY <1>1, <2>1
  <2>3. PICK i \in 1..Len(W) : W[i] = x
    BY <1>1, <2>2 DEF Range
  <2>4. Len(W) < R(s)
    <3>1. CASE R(s) <= Len(W)
      <4>1. R(s) \in 1..Len(W)
        BY <1>1, <1>3, <1>10, <3>1
      <4> QED BY <1>4, <1>5, <1>10, <3>1, <4>1
    <3> QED BY <1>1, <1>3, <3>1
  <2>5. i \in 1..R(s)
    BY <1>1, <1>3, <2>4
  <2>6. PICK t \in Slots : st[t] = "idle" /\ R(t) = i
    BY <1>7, <2>5
  <2>7. G(t) = x
    BY <1>1, <1>4, <2>3, <2>6
  <2> QED BY <2>7
<1>11. \A s \in Slots : G(s) # Nobody =>
         st[s] = "idle" /\ G(s) \in Range(q) /\ \A t \in Slots : req[t] # G(s)
  BY <1>1, <1>8
<1> QED BY <1>9, <1>10, <1>11 DEF G

-----------------------------------------------------------------------------
(***************************************************************************)
(* The pool: its invariant.                                                *)
(***************************************************************************)

\* What a handler leaves of slots st, requests of slots req, queue q and mailboxes
\* box: the queries of the slots are in the queue, each in one slot, and a thread
\* has at most the one of its slot, unless it is being stopped.
SlotStates == {"starting", "idle", "busy", "stopping", "stopped"}
SlotsSound(st, req, q, box) ==
  /\ st \in [Slots -> SlotStates]
  /\ req \in [Slots -> Queries \cup {Nobody}]
  /\ box \in [Slots -> Seq(Queries)]
  /\ \A s \in Slots : st[s] = "busy" <=> req[s] # Nobody
  /\ \A s \in Slots : req[s] # Nobody => req[s] \in Range(q)
  /\ \A s, t \in Slots : s # t /\ req[s] # Nobody => req[s] # req[t]
  /\ \A s \in Slots : box[s] # <<>> =>
       /\ Len(box[s]) = 1 /\ (req[s] = Head(box[s]) \/ st[s] = "stopping")
       /\ st[s] \in {"busy", "stopping"}
NobodyWaits(st, req, q) ==
  \A s \in Slots : st[s] = "idle" => \A x \in Range(q) : \E t \in Slots : req[t] = x

\* The bounds count what is in the queue, and nobody in it was answered.
Ledger ==
  /\ requests \in Seq(Queries) /\ pendingBytes \in Nat
  /\ outcome \in [Queries -> Outcomes \cup {"none"}]
  /\ rowsOf \in [Queries -> Queries \cup {Nobody}]
  /\ Len(requests) <= MaxPending /\ pendingBytes <= MaxPendingBytes
  /\ IsInjective(requests) /\ pendingBytes = Total(BytesOf, requests)
  /\ \A x \in Range(requests) : outcome[x] = "none"
  /\ OwnRows

\* A slot has one thread, none when it has stopped, and a reply only from one that
\* was given a query; after close no slot comes back.
Replies == {<<>>} \cup (Queries \X {"rows", "error", "resource"})
ThreadsSound ==
  /\ restarting \subseteq Slots /\ threads \in [Slots -> Nat] /\ ready \in [Slots -> BOOLEAN]
  /\ closed \in BOOLEAN /\ reply \in [Slots -> Replies]
  /\ \A s \in Slots :
       /\ threads[s] <= 1
       /\ reply[s] # <<>> => state[s] \in {"busy", "stopping"} /\ mailbox[s] = <<>>
       /\ state[s] = "stopped" => threads[s] = 0 /\ (closed \/ s \in restarting)
       /\ s \in restarting => state[s] = "stopped"
  /\ closed => requests = <<>> /\ \A s \in Slots : state[s] \in {"stopping", "stopped"}

PoolIInv ==
  /\ SlotsSound(state, request, requests, mailbox)
  /\ NobodyWaits(state, request, requests)
  /\ Ledger /\ ThreadsSound

\* The invariant the run checks follows.
LEMMA PoolSuffices == PoolIInv => ReadPoolInv
<1> SUFFICES ASSUME PoolIInv PROVE ReadPoolInv
  OBVIOUS
<1>1. PoolTypeOK
  BY DEF PoolIInv, SlotsSound, Ledger, ThreadsSound, PoolTypeOK, SlotStates
<1>2. QueueExact
  BY DEF PoolIInv, SlotsSound, Ledger, ThreadsSound, QueueExact
<1>3. ASSUME NEW s \in Slots
      PROVE  /\ threads[s] <= 1
             /\ Len(mailbox[s]) + (IF reply[s] = <<>> THEN 0 ELSE 1) <= 1
             /\ mailbox[s] # <<>> => request[s] = Head(mailbox[s]) \/ state[s] = "stopping"
             /\ state[s] = "idle" => Waiting(request, requests) = <<>>
             /\ state[s] = "stopped" /\ ~closed => s \in restarting
  <2>1. Len(mailbox[s]) + (IF reply[s] = <<>> THEN 0 ELSE 1) <= 1
    <3>1. CASE mailbox[s] = <<>>
      <4>1. Len(mailbox[s]) = 0
        BY <3>1, EmptySeq
      <4> QED BY <4>1
    <3>2. CASE mailbox[s] # <<>>
      <4>1. Len(mailbox[s]) = 1 /\ reply[s] = <<>>
        BY <3>2 DEF PoolIInv, SlotsSound, ThreadsSound
      <4> QED BY <4>1
    <3> QED BY <3>1, <3>2
  <2>2. ASSUME state[s] = "idle" PROVE Waiting(request, requests) = <<>>
    <3> DEFINE S == {x \in Queries : \A t \in Slots : request[t] # x}
    <3>1. Range(requests) \cap S = {} /\ requests \in Seq(Queries)
      BY <2>2 DEF PoolIInv, NobodyWaits, Ledger
    <3>2. Selected(requests, S) = <<>>
      <4> HIDE DEF S
      <4> QED BY <3>1, SelectedNone
    <3> QED BY <3>2 DEF Waiting
  <2> QED BY <2>1, <2>2 DEF PoolIInv, SlotsSound, ThreadsSound
<1>4. WorkersBounded
  BY <1>3 DEF WorkersBounded
<1> QED BY <1>1, <1>2, <1>4 DEF ReadPoolInv, PoolIInv, Ledger

\* Dispatching keeps the slots sound and leaves nobody waiting for an idle one.
LEMMA DispatchKeeps ==
  ASSUME NEW st, NEW req, NEW q \in Seq(Queries), IsInjective(q), NEW box,
         SlotsSound(st, req, q, box),
         Dispatch(st, req, q, box)
  PROVE  /\ SlotsSound(state', request', q, mailbox') /\ NobodyWaits(state', request', q)
         /\ \A s \in Slots : \/ state'[s] = st[s] /\ mailbox'[s] = box[s]
                             \/ st[s] = "idle" /\ state'[s] = "busy"
<1> DEFINE G(s) == Given(st, req, q, s)
<1>1. /\ \A s \in Slots : G(s) # Nobody =>
           /\ st[s] = "idle" /\ G(s) \in Range(q)
           /\ \A t \in Slots : req[t] # G(s)
      /\ \A s, t \in Slots : s # t /\ G(s) # Nobody => G(s) # G(t)
      /\ \A s \in Slots : st[s] = "idle" /\ G(s) = Nobody =>
           \A x \in Range(q) : \E t \in Slots : req[t] = x \/ G(t) = x
  BY GivenOnce
<1>2. \A s \in Slots :
        /\ state'[s] = IF G(s) # Nobody THEN "busy" ELSE st[s]
        /\ request'[s] = IF G(s) # Nobody THEN G(s) ELSE req[s]
        /\ mailbox'[s] = IF G(s) # Nobody THEN Append(box[s], G(s)) ELSE box[s]
  BY DEF Dispatch
<1>3. Range(q) \in SUBSET Queries
  BY RangeOfSeq
<1>4. \A s \in Slots : G(s) # Nobody => box[s] = <<>>
  BY <1>1 DEF SlotsSound
<1>5. \A s \in Slots : G(s) # Nobody =>
        /\ mailbox'[s] \in Seq(Queries) /\ Len(mailbox'[s]) = 1 /\ Head(mailbox'[s]) = G(s)
  <2> SUFFICES ASSUME NEW s \in Slots, G(s) # Nobody
               PROVE  mailbox'[s] \in Seq(Queries) /\ Len(mailbox'[s]) = 1 /\ Head(mailbox'[s]) = G(s)
    OBVIOUS
  <2>1. G(s) \in Queries /\ mailbox'[s] = Append(<<>>, G(s))
    BY <1>1, <1>2, <1>3, <1>4
  <2> HIDE DEF G
  <2>2. <<>> \in Seq(Queries) /\ Len(<<>>) = 0
    BY EmptySeq
  <2>3. Append(<<>>, G(s)) \in Seq(Queries) /\ Len(Append(<<>>, G(s))) = 1
    BY <2>1, <2>2, AppendProperties
  <2>4. Head(Append(<<>>, G(s))) = G(s)
    BY <2>2, HeadTailAppend
  <2> QED BY <2>1, <2>3, <2>4, Zenon
<1>6. /\ DOMAIN state' = Slots /\ DOMAIN request' = Slots /\ DOMAIN mailbox' = Slots
      /\ state' = [s \in Slots |-> state'[s]] /\ request' = [s \in Slots |-> request'[s]]
      /\ mailbox' = [s \in Slots |-> mailbox'[s]]
  BY DEF Dispatch
<1>7. /\ \A s \in Slots : st[s] \in SlotStates /\ req[s] \in Queries \cup {Nobody}
                          /\ box[s] \in Seq(Queries)
      /\ \A s \in Slots : st[s] = "busy" <=> req[s] # Nobody
      /\ \A s \in Slots : req[s] # Nobody => req[s] \in Range(q)
      /\ \A s, t \in Slots : s # t /\ req[s] # Nobody => req[s] # req[t]
      /\ \A s \in Slots : box[s] # <<>> =>
           /\ Len(box[s]) = 1 /\ (req[s] = Head(box[s]) \/ st[s] = "stopping")
           /\ st[s] \in {"busy", "stopping"}
  BY DEF SlotsSound
<1> HIDE DEF G
<1>8. state' \in [Slots -> SlotStates]
  <2>1. \A s \in Slots : state'[s] \in SlotStates
    BY <1>2, <1>7 DEF SlotStates
  <2> QED BY <1>6, <2>1
<1>9. request' \in [Slots -> Queries \cup {Nobody}]
  <2>1. \A s \in Slots : request'[s] \in Queries \cup {Nobody}
    BY <1>1, <1>2, <1>3, <1>7
  <2> QED BY <1>6, <2>1
<1>10. mailbox' \in [Slots -> Seq(Queries)]
  <2>1. \A s \in Slots : mailbox'[s] \in Seq(Queries)
    BY <1>2, <1>5, <1>7
  <2> QED BY <1>6, <2>1
<1>11. \A s \in Slots : state'[s] = "busy" <=> request'[s] # Nobody
  BY <1>2, <1>7
<1>12. \A s \in Slots : request'[s] # Nobody => request'[s] \in Range(q)
  BY <1>1, <1>2, <1>7
<1>13. ASSUME NEW s \in Slots, NEW t \in Slots, s # t, request'[s] # Nobody PROVE request'[s] # request'[t]
  <2>1. CASE G(s) # Nobody /\ G(t) # Nobody
    BY <1>1, <1>2, <1>13, <2>1
  <2>2. CASE G(s) # Nobody /\ G(t) = Nobody
    BY <1>1, <1>2, <2>2
  <2>3. CASE G(s) = Nobody /\ G(t) # Nobody
    <3>1. request'[s] = req[s] /\ request'[t] = G(t) /\ req[s] # G(t)
      BY <1>1, <1>2, <2>3
    <3> QED BY <3>1
  <2>4. CASE G(s) = Nobody /\ G(t) = Nobody
    BY <1>2, <1>7, <1>13, <2>4
  <2> QED BY <2>1, <2>2, <2>3, <2>4
<1>14. ASSUME NEW s \in Slots, mailbox'[s] # <<>>
       PROVE  /\ Len(mailbox'[s]) = 1 /\ (request'[s] = Head(mailbox'[s]) \/ state'[s] = "stopping")
              /\ state'[s] \in {"busy", "stopping"}
  <2>1. CASE G(s) # Nobody
    BY <1>2, <1>5, <2>1
  <2>2. CASE G(s) = Nobody
    <3>1. state'[s] = st[s] /\ request'[s] = req[s] /\ mailbox'[s] = box[s]
      BY <1>2, <2>2
    <3> QED BY <1>7, <1>14, <3>1
  <2> QED BY <2>1, <2>2
<1>15. SlotsSound(state', request', q, mailbox')
  BY <1>8, <1>9, <1>10, <1>11, <1>12, <1>13, <1>14 DEF SlotsSound
<1>16. ASSUME NEW s \in Slots, state'[s] = "idle", NEW x \in Range(q)
       PROVE  \E t \in Slots : request'[t] = x
  <2>1. st[s] = "idle" /\ G(s) = Nobody
    BY <1>2, <1>16
  <2>2. PICK t \in Slots : req[t] = x \/ G(t) = x
    BY <1>1, <1>16, <2>1
  <2>3. x # Nobody
    BY <1>3, PoolAssumption
  <2>4. CASE G(t) = x
    BY <1>2, <2>3, <2>4
  <2>5. CASE req[t] = x
    <3>1. G(t) = Nobody
      <4>1. st[t] = "busy"
        BY <1>7, <2>3, <2>5
      <4> QED BY <1>1, <4>1
    <3> QED BY <1>2, <2>5, <3>1
  <2> QED BY <2>2, <2>4, <2>5
<1>17. \A s \in Slots : \/ state'[s] = st[s] /\ mailbox'[s] = box[s]
                        \/ st[s] = "idle" /\ state'[s] = "busy"
  BY <1>1, <1>2
<1> QED BY <1>15, <1>16, <1>17 DEF NobodyWaits

\* Taking the query from a slot, and from the queue.
LEMMA FreeKeeps ==
  ASSUME NEW st, NEW req, NEW q, NEW box, SlotsSound(st, req, q, box),
         NEW s \in Slots, NEW v \in SlotStates \ {"busy"}, v = "stopping" \/ box[s] = <<>>,
         NEW q2, Range(q) \ {req[s]} \subseteq Range(q2)
  PROVE  SlotsSound([st EXCEPT ![s] = v], [req EXCEPT ![s] = Nobody], q2, box)
<1> DEFINE st2 == [st EXCEPT ![s] = v]
           req2 == [req EXCEPT ![s] = Nobody]
<1>1. /\ st2 \in [Slots -> SlotStates] /\ req2 \in [Slots -> Queries \cup {Nobody}]
      /\ box \in [Slots -> Seq(Queries)]
  BY DEF SlotsSound
<1>2. \A t \in Slots : /\ st2[t] = (IF t = s THEN v ELSE st[t])
                       /\ req2[t] = (IF t = s THEN Nobody ELSE req[t])
  BY DEF SlotsSound
<1> HIDE DEF st2, req2
<1>3. \A t \in Slots : st2[t] = "busy" <=> req2[t] # Nobody
  BY <1>2 DEF SlotsSound
<1>4. \A t \in Slots : req2[t] # Nobody => req2[t] \in Range(q2)
  BY <1>2 DEF SlotsSound
<1>5. \A t, u \in Slots : t # u /\ req2[t] # Nobody => req2[t] # req2[u]
  BY <1>2 DEF SlotsSound
<1>6. \A t \in Slots : box[t] # <<>> =>
        /\ Len(box[t]) = 1 /\ (req2[t] = Head(box[t]) \/ st2[t] = "stopping")
        /\ st2[t] \in {"busy", "stopping"}
  BY <1>2 DEF SlotsSound
<1>7. SlotsSound(st2, req2, q2, box)
  BY <1>1, <1>3, <1>4, <1>5, <1>6 DEF SlotsSound
<1> QED BY <1>7 DEF st2, req2

\* A longer queue, a query out of the queue that no slot has, an empty mailbox.
LEMMA QueueKeeps ==
  ASSUME NEW st, NEW req, NEW q, NEW box, SlotsSound(st, req, q, box),
         NEW q2, \A s \in Slots : req[s] # Nobody => req[s] \in Range(q2)
  PROVE  SlotsSound(st, req, q2, box)
BY DEF SlotsSound

LEMMA EmptyKeeps ==
  ASSUME NEW st, NEW req, NEW q, NEW box, SlotsSound(st, req, q, box), NEW s \in Slots
  PROVE  SlotsSound(st, req, q, [box EXCEPT ![s] = <<>>])
<1> DEFINE box2 == [box EXCEPT ![s] = <<>>]
<1>1. box2 \in [Slots -> Seq(Queries)]
  BY EmptySeq DEF SlotsSound
<1>2. \A t \in Slots : box2[t] = IF t = s THEN <<>> ELSE box[t]
  BY DEF SlotsSound
<1> HIDE DEF box2
<1>3. SlotsSound(st, req, q, box2)
  BY <1>1, <1>2 DEF SlotsSound
<1> QED BY <1>3 DEF box2

\* Settling a query of the pool keeps the ledger; no other query is touched.
LEMMA SettleKeeps ==
  ASSUME Ledger, NEW x \in Range(requests), NEW how \in Outcomes, NEW rows,
         rows = (IF how = "rows" THEN x ELSE Nobody), Settle(x, how, rows)
  PROVE  /\ Ledger' /\ x \in Queries
         /\ requests' \in Seq(Queries) /\ IsInjective(requests')
         /\ Range(requests') = Range(requests) \ {x}
<1>1. /\ requests \in Seq(Queries) /\ IsInjective(requests) /\ x \in Queries
      /\ BytesOf \in [Queries -> Nat] /\ BytesOf[x] \in Nat
  BY RangeOfSeq, PoolAssumption DEF Ledger
<1>2. /\ Without(requests, x) \in Seq(Queries) /\ IsInjective(Without(requests, x))
      /\ Range(Without(requests, x)) = Range(requests) \ {x}
      /\ Len(Without(requests, x)) = Len(requests) - 1
      /\ Total(BytesOf, Without(requests, x)) \in Nat
      /\ Total(BytesOf, Without(requests, x)) = Total(BytesOf, requests) - BytesOf[x]
  BY <1>1, WithoutOne
<1>3. requests' = Without(requests, x) /\ pendingBytes' = pendingBytes - BytesOf[x]
  BY DEF Settle
<1>4. /\ requests' \in Seq(Queries) /\ IsInjective(requests')
      /\ Range(requests') = Range(requests) \ {x}
  BY <1>2, <1>3
<1>5. pendingBytes' \in Nat /\ pendingBytes' = Total(BytesOf, requests')
  BY <1>2, <1>3 DEF Ledger
<1>6. Len(requests') <= MaxPending /\ pendingBytes' <= MaxPendingBytes
  <2>1. Len(requests) \in Nat /\ Len(requests) <= MaxPending /\ MaxPending \in Nat
        /\ pendingBytes \in Nat /\ pendingBytes <= MaxPendingBytes /\ MaxPendingBytes \in Nat
    BY <1>1, LenProperties, PoolAssumption DEF Ledger
  <2>2. Len(requests') = Len(requests) - 1
    BY <1>2, <1>3
  <2> QED BY <1>1, <1>3, <1>5, <2>1, <2>2
<1>7. /\ outcome' = [outcome EXCEPT ![x] = how] /\ rowsOf' = [rowsOf EXCEPT ![x] = rows]
      /\ outcome \in [Queries -> Outcomes \cup {"none"}]
      /\ rowsOf \in [Queries -> Queries \cup {Nobody}]
  BY DEF Settle, Ledger
<1>8. /\ outcome' \in [Queries -> Outcomes \cup {"none"}]
      /\ rowsOf' \in [Queries -> Queries \cup {Nobody}]
  BY <1>1, <1>7
<1>9. \A y \in Range(requests') : outcome'[y] = "none"
  <2>1. \A y \in Range(requests) : y \in Queries /\ outcome[y] = "none"
    BY <1>1, RangeOfSeq DEF Ledger
  <2> QED BY <1>4, <1>7, <2>1
<1>10. OwnRows'
  <2>1. \A y \in Queries : rowsOf[y] = (IF outcome[y] = "rows" THEN y ELSE Nobody)
    BY DEF Ledger, OwnRows
  <2>2. \A y \in Queries : rowsOf'[y] = (IF outcome'[y] = "rows" THEN y ELSE Nobody)
    BY <1>1, <1>7, <2>1
  <2> QED BY <2>2 DEF OwnRows
<1> QED BY <1>1, <1>4, <1>5, <1>6, <1>8, <1>9, <1>10 DEF Ledger

LEMMA SettleNoneKeeps ==
  ASSUME Ledger, SettleNone
  PROVE  Ledger' /\ requests' = requests
BY DEF Ledger, SettleNone, OwnRows

\* The threads stay sound when a handler dispatches.
LEMMA DispatchedThreads ==
  ASSUME ThreadsSound, UNCHANGED <<restarting, threads, ready, closed>>, ~closed,
         NEW st, NEW box,
         \A s \in Slots : \/ state'[s] = st[s] /\ mailbox'[s] = box[s]
                          \/ st[s] = "idle" /\ state'[s] = "busy",
         reply' \in [Slots -> Replies],
         \A s \in Slots : reply'[s] # <<>> => st[s] \in {"busy", "stopping"} /\ box[s] = <<>>,
         \A s \in Slots : st[s] = "stopped" <=> state[s] = "stopped"
  PROVE  ThreadsSound'
<1>1. \A s \in Slots : state'[s] = "stopped" <=> state[s] = "stopped"
  OBVIOUS
<1>2. \A s \in Slots : reply'[s] # <<>> => state'[s] \in {"busy", "stopping"} /\ mailbox'[s] = <<>>
  OBVIOUS
<1> QED BY <1>1, <1>2 DEF ThreadsSound

LEMMA PoolInitInv == PoolInit => PoolIInv
<1> SUFFICES ASSUME PoolInit PROVE PoolIInv
  OBVIOUS
<1>1. /\ requests = <<>> /\ <<>> \in Seq(Queries) /\ Len(<<>>) = 0 /\ Range(<<>>) = {}
      /\ IsInjective(<<>>) /\ Total(BytesOf, <<>>) = 0
  BY EmptySeq, EmptyRange, TotalEmpty, PoolAssumption DEF PoolInit
<1>2. Ledger
  BY <1>1, PoolAssumption DEF PoolInit, Ledger, OwnRows
<1>3. SlotsSound(state, request, requests, mailbox) /\ NobodyWaits(state, request, requests)
  BY <1>1 DEF PoolInit, SlotsSound, NobodyWaits, SlotStates
<1>4. ThreadsSound
  <2>1. <<>> \in Replies
    BY DEF Replies
  <2> HIDE DEF Replies
  <2>2. reply \in [Slots -> Replies] /\ \A s \in Slots : reply[s] = <<>>
    BY <2>1 DEF PoolInit
  <2>3. /\ restarting \subseteq Slots /\ threads \in [Slots -> Nat] /\ ready \in [Slots -> BOOLEAN]
        /\ closed = FALSE
    BY DEF PoolInit
  <2>4. \A s \in Slots : threads[s] <= 1 /\ state[s] = "starting" /\ s \notin restarting
    BY DEF PoolInit
  <2> QED BY <2>2, <2>3, <2>4 DEF ThreadsSound
<1> QED BY <1>2, <1>3, <1>4 DEF PoolIInv

LEMMA SubmitInv ==
  ASSUME PoolIInv, NEW x \in Queries, Submit(x)
  PROVE  PoolIInv'
<1>1. /\ SlotsSound(state, request, requests, mailbox) /\ NobodyWaits(state, request, requests)
      /\ Ledger /\ ThreadsSound
  BY DEF PoolIInv
<1>2. /\ requests \in Seq(Queries) /\ IsInjective(requests) /\ Len(requests) \in Nat
      /\ BytesOf \in [Queries -> Nat] /\ BytesOf[x] \in Nat
  BY <1>1, LenProperties, PoolAssumption DEF Ledger
<1>3. CASE Admits(x)
  <2>1. /\ requests' = Append(requests, x) /\ pendingBytes' = pendingBytes + BytesOf[x]
        /\ Dispatch(state, request, requests', mailbox)
        /\ UNCHANGED <<outcome, restarting, threads, ready, reply, closed, rowsOf>>
        /\ outcome[x] = "none" /\ x \notin Range(requests)
    BY <1>3 DEF Submit
  <2>2. /\ requests' \in Seq(Queries) /\ Len(requests') = Len(requests) + 1
        /\ Range(requests') = Range(requests) \cup {x} /\ IsInjective(requests')
        /\ Total(BytesOf, requests') = Total(BytesOf, requests) + BytesOf[x]
    BY <1>2, <2>1, AppendProperties, AppendRange, TotalAppend
  <2>3. Ledger'
    <3>1. /\ Len(requests') <= MaxPending /\ pendingBytes' <= MaxPendingBytes
          /\ pendingBytes' \in Nat /\ pendingBytes' = Total(BytesOf, requests')
      BY <1>1, <1>2, <1>3, <2>1, <2>2, PoolAssumption DEF Ledger, Admits
    <3>2. \A y \in Range(requests') : outcome'[y] = "none"
      BY <1>1, <2>1, <2>2 DEF Ledger
    <3> QED BY <1>1, <2>1, <2>2, <3>1, <3>2 DEF Ledger, OwnRows
  <2>4. SlotsSound(state, request, requests', mailbox)
    <3>1. \A s \in Slots : request[s] # Nobody => request[s] \in Range(requests')
      BY <1>1, <2>2 DEF SlotsSound
    <3> QED BY <1>1, <3>1, QueueKeeps
  <2>5. /\ SlotsSound(state', request', requests', mailbox')
        /\ NobodyWaits(state', request', requests')
        /\ \A s \in Slots : \/ state'[s] = state[s] /\ mailbox'[s] = mailbox[s]
                            \/ state[s] = "idle" /\ state'[s] = "busy"
    <3>1. /\ requests' \in Seq(Queries) /\ IsInjective(requests')
          /\ Dispatch(state, request, requests', mailbox)
      BY <2>1, <2>2
    <3> QED BY <2>4, <3>1, DispatchKeeps
  <2>6. ThreadsSound'
    <3>1. ~closed
      BY <1>3 DEF Admits
    <3>2. /\ reply' \in [Slots -> Replies]
          /\ \A s \in Slots : reply'[s] # <<>> =>
               state[s] \in {"busy", "stopping"} /\ mailbox[s] = <<>>
      BY <1>1, <2>1 DEF ThreadsSound
    <3> QED BY <1>1, <2>1, <2>5, <3>1, <3>2, DispatchedThreads
  <2> QED BY <2>3, <2>5, <2>6 DEF PoolIInv
<1>4. CASE ~Admits(x)
  <2>1. /\ outcome' = [outcome EXCEPT ![x] = "resource"]
        /\ UNCHANGED <<requests, pendingBytes, state, request, mailbox, restarting, threads, ready,
                       reply, closed, rowsOf>>
        /\ outcome[x] = "none" /\ x \notin Range(requests)
    BY <1>4 DEF Submit
  <2>2. Ledger'
    <3>1. outcome' \in [Queries -> Outcomes \cup {"none"}]
      BY <1>1, <2>1 DEF Ledger, Outcomes
    <3>2. \A y \in Range(requests) : y \in Queries
      BY <1>2, RangeOfSeq
    <3>3. \A y \in Range(requests) : outcome'[y] = "none"
      BY <1>1, <2>1, <3>2 DEF Ledger
    <3>4. OwnRows'
      BY <1>1, <2>1 DEF Ledger, OwnRows
    <3> QED BY <1>1, <2>1, <3>1, <3>3, <3>4 DEF Ledger
  <2>3. ThreadsSound'
    BY <1>1, <2>1 DEF ThreadsSound
  <2> QED BY <1>1, <2>1, <2>2, <2>3 DEF PoolIInv
<1> QED BY <1>3, <1>4

LEMMA CancelInv ==
  ASSUME PoolIInv, NEW x \in Queries, NEW how \in {"resource", "abort"}, Cancel(x, how)
  PROVE  PoolIInv'
<1>1. /\ SlotsSound(state, request, requests, mailbox) /\ NobodyWaits(state, request, requests)
      /\ Ledger /\ ThreadsSound
  BY DEF PoolIInv
<1>2. x \in Range(requests) /\ Settle(x, how, Nobody)
      /\ UNCHANGED <<restarting, threads, ready, reply, closed>>
  BY DEF Cancel
<1>3. how \in Outcomes /\ how # "rows"
  BY DEF Outcomes
<1>4. /\ Ledger' /\ requests' \in Seq(Queries) /\ IsInjective(requests')
      /\ Range(requests') = Range(requests) \ {x}
  BY <1>1, <1>2, <1>3, SettleKeeps
<1>5. ~closed
  BY <1>1, <1>2, EmptyRange DEF ThreadsSound
<1>6. /\ reply' \in [Slots -> Replies]
      /\ \A s \in Slots : reply'[s] # <<>> =>
           state[s] \in {"busy", "stopping"} /\ mailbox[s] = <<>>
  BY <1>1, <1>2 DEF ThreadsSound
<1>7. CASE \E s \in Slots : request[s] = x
  <2> DEFINE s == CHOOSE s \in Slots : request[s] = x
  <2>1. s \in Slots /\ request[s] = x /\ Dispatch(Retired(s), Freed(s), requests', mailbox)
    BY <1>7 DEF Cancel
  <2> HIDE DEF s
  <2>2. SlotsSound(Retired(s), Freed(s), requests', mailbox)
    <3>1. "stopping" \in SlotStates \ {"busy"} /\ Range(requests) \ {request[s]} \subseteq Range(requests')
      BY <1>4, <2>1 DEF SlotStates
    <3> QED BY <1>1, <2>1, <3>1, FreeKeeps DEF Retired, Freed
  <2>3. /\ SlotsSound(state', request', requests', mailbox')
        /\ NobodyWaits(state', request', requests')
        /\ \A t \in Slots : \/ state'[t] = Retired(s)[t] /\ mailbox'[t] = mailbox[t]
                            \/ Retired(s)[t] = "idle" /\ state'[t] = "busy"
    BY <1>4, <2>1, <2>2, DispatchKeeps
  <2>4. \A t \in Slots : Retired(s)[t] = IF t = s THEN "stopping" ELSE state[t]
    BY <1>1 DEF Retired, SlotsSound
  <2>5. state[s] = "busy"
    BY <1>1, <2>1, PoolAssumption DEF SlotsSound
  <2>6. /\ \A t \in Slots : reply'[t] # <<>> =>
             Retired(s)[t] \in {"busy", "stopping"} /\ mailbox[t] = <<>>
        /\ \A t \in Slots : Retired(s)[t] = "stopped" <=> state[t] = "stopped"
    BY <1>6, <2>4, <2>5
  <2>7. ThreadsSound'
    BY <1>1, <1>2, <1>5, <1>6, <2>3, <2>6, DispatchedThreads
  <2> QED BY <1>4, <2>3, <2>7 DEF PoolIInv
<1>8. CASE ~\E s \in Slots : request[s] = x
  <2>1. Dispatch(state, request, requests', mailbox)
    BY <1>8 DEF Cancel
  <2>2. SlotsSound(state, request, requests', mailbox)
    <3>1. \A s \in Slots : request[s] # Nobody => request[s] \in Range(requests')
      BY <1>1, <1>4, <1>8 DEF SlotsSound
    <3> QED BY <1>1, <3>1, QueueKeeps
  <2>3. /\ SlotsSound(state', request', requests', mailbox')
        /\ NobodyWaits(state', request', requests')
        /\ \A t \in Slots : \/ state'[t] = state[t] /\ mailbox'[t] = mailbox[t]
                            \/ state[t] = "idle" /\ state'[t] = "busy"
    BY <1>4, <2>1, <2>2, DispatchKeeps
  <2>4. ThreadsSound'
    BY <1>1, <1>2, <1>5, <1>6, <2>3, DispatchedThreads
  <2> QED BY <1>4, <2>3, <2>4 DEF PoolIInv
<1> QED BY <1>7, <1>8

\* The query of a slot, if it has one, is settled; the slot is free.
LEMMA SettleOfKeeps ==
  ASSUME PoolIInv, NEW s \in Slots, NEW how \in Outcomes \ {"rows"}, SettleOf(s, how)
  PROVE  /\ Ledger' /\ requests' \in Seq(Queries) /\ IsInjective(requests')
         /\ Range(requests) \ {request[s]} \subseteq Range(requests')
         /\ \A x \in Range(requests') : x \in Range(requests) /\ x # request[s]
         /\ closed => requests' = <<>>
<1>1. /\ SlotsSound(state, request, requests, mailbox) /\ Ledger /\ ThreadsSound
  BY DEF PoolIInv
<1>2. CASE request[s] = Nobody
  <2>1. Ledger' /\ requests' = requests
    BY <1>1, <1>2, SettleNoneKeeps DEF SettleOf
  <2>2. \A x \in Range(requests) : x # Nobody
    BY <1>1, RangeOfSeq, PoolAssumption DEF Ledger
  <2> QED BY <1>1, <1>2, <2>1, <2>2 DEF Ledger, ThreadsSound
<1>3. CASE request[s] # Nobody
  <2>1. request[s] \in Range(requests) /\ Settle(request[s], how, Nobody)
    BY <1>1, <1>3 DEF SlotsSound, SettleOf
  <2>2. /\ Ledger' /\ requests' \in Seq(Queries) /\ IsInjective(requests')
        /\ Range(requests') = Range(requests) \ {request[s]}
    BY <1>1, <2>1, SettleKeeps
  <2>3. ~closed
    BY <1>1, <2>1, EmptyRange DEF ThreadsSound
  <2> QED BY <2>2, <2>3
<1> QED BY <1>2, <1>3

\* Nobody waits when the query of a slot that is free now has left the queue.
LEMMA FreedLeavesNobody ==
  ASSUME NobodyWaits(state, request, requests), NEW s \in Slots, NEW v, v # "idle",
         SlotsSound(state, request, requests, mailbox),
         \A x \in Range(requests') : x \in Range(requests) /\ x # request[s]
  PROVE  NobodyWaits([state EXCEPT ![s] = v], Freed(s), requests')
<1> SUFFICES ASSUME NEW t \in Slots, [state EXCEPT ![s] = v][t] = "idle", NEW x \in Range(requests')
             PROVE  \E u \in Slots : Freed(s)[u] = x
  BY DEF NobodyWaits
<1>1. state[t] = "idle"
  BY DEF SlotsSound
<1>2. PICK u \in Slots : request[u] = x
  BY <1>1 DEF NobodyWaits
<1>3. u # s
  BY <1>2
<1>4. Freed(s)[u] = x
  BY <1>2, <1>3 DEF Freed, SlotsSound
<1> QED BY <1>4

LEMMA WorkerErrorInv ==
  ASSUME PoolIInv, NEW s \in Slots, WorkerError(s)
  PROVE  PoolIInv'
<1>1. /\ SlotsSound(state, request, requests, mailbox) /\ NobodyWaits(state, request, requests)
      /\ Ledger /\ ThreadsSound
  BY DEF PoolIInv
<1>2. /\ state[s] \in {"starting", "idle", "busy"}
      /\ state' = Retired(s) /\ request' = Freed(s) /\ SettleOf(s, "resource")
      /\ UNCHANGED <<mailbox, restarting, threads, ready, reply, closed>>
  BY DEF WorkerError, NoDispatch
<1>3. /\ Ledger' /\ Range(requests) \ {request[s]} \subseteq Range(requests')
      /\ \A x \in Range(requests') : x \in Range(requests) /\ x # request[s]
      /\ closed => requests' = <<>>
  <2>1. "resource" \in Outcomes \ {"rows"}
    BY DEF Outcomes
  <2> QED BY <1>2, <2>1, SettleOfKeeps
<1>4. SlotsSound(state', request', requests', mailbox')
  <2>1. "stopping" \in SlotStates \ {"busy"}
    BY DEF SlotStates
  <2>2. SlotsSound(Retired(s), Freed(s), requests', mailbox)
    BY <1>1, <1>3, <2>1, FreeKeeps DEF Retired, Freed
  <2> QED BY <1>2, <2>2
<1>5. NobodyWaits(state', request', requests')
  <2>1. NobodyWaits(Retired(s), Freed(s), requests')
    BY <1>1, <1>3, FreedLeavesNobody DEF Retired
  <2> QED BY <1>2, <2>1
<1>6. ThreadsSound'
  <2>1. \A t \in Slots : state'[t] = IF t = s THEN "stopping" ELSE state[t]
    BY <1>1, <1>2 DEF Retired, SlotsSound
  <2> QED BY <1>1, <1>2, <1>3, <2>1 DEF ThreadsSound
<1> QED BY <1>3, <1>4, <1>5, <1>6 DEF PoolIInv

LEMMA ReadyInv ==
  ASSUME PoolIInv, NEW s \in Slots, Ready(s)
  PROVE  PoolIInv'
<1>1. /\ SlotsSound(state, request, requests, mailbox) /\ NobodyWaits(state, request, requests)
      /\ Ledger /\ ThreadsSound
  BY DEF PoolIInv
<1> DEFINE st == [state EXCEPT ![s] = "idle"]
<1>2. /\ state[s] = "starting" /\ ready' = [ready EXCEPT ![s] = TRUE]
      /\ Dispatch(st, request, requests, mailbox)
      /\ SettleNone /\ UNCHANGED <<restarting, threads, reply, closed>>
  BY DEF Ready
<1>3. Ledger' /\ requests' = requests /\ requests \in Seq(Queries) /\ IsInjective(requests)
  BY <1>1, <1>2, SettleNoneKeeps DEF Ledger
<1>4. request[s] = Nobody /\ mailbox[s] = <<>> /\ reply[s] = <<>> /\ ~closed
  BY <1>1, <1>2 DEF SlotsSound, ThreadsSound
<1>5. \A t \in Slots : st[t] = IF t = s THEN "idle" ELSE state[t]
  BY <1>1 DEF SlotsSound
<1>6. st \in [Slots -> SlotStates]
  BY <1>1 DEF SlotsSound, SlotStates
<1> HIDE DEF st
<1>7. SlotsSound(st, request, requests, mailbox)
  BY <1>1, <1>2, <1>4, <1>5, <1>6 DEF SlotsSound
<1>8. /\ SlotsSound(state', request', requests, mailbox')
      /\ NobodyWaits(state', request', requests)
      /\ \A t \in Slots : \/ state'[t] = st[t] /\ mailbox'[t] = mailbox[t]
                          \/ st[t] = "idle" /\ state'[t] = "busy"
  BY <1>2, <1>3, <1>7, DispatchKeeps
<1>9. ThreadsSound'
  <2>1. /\ ready' \in [Slots -> BOOLEAN] /\ closed' = FALSE
        /\ UNCHANGED <<restarting, threads, reply>>
    BY <1>1, <1>2, <1>4 DEF ThreadsSound
  <2>2. \A t \in Slots : reply'[t] # <<>> => state'[t] \in {"busy", "stopping"} /\ mailbox'[t] = <<>>
    BY <1>1, <1>4, <1>5, <1>8, <2>1 DEF ThreadsSound
  <2>3. \A t \in Slots : state'[t] = "stopped" <=> state[t] = "stopped"
    BY <1>2, <1>5, <1>8
  <2>4. /\ restarting' \subseteq Slots /\ threads' \in [Slots -> Nat] /\ reply' \in [Slots -> Replies]
        /\ \A t \in Slots :
             /\ threads'[t] <= 1
             /\ state'[t] = "stopped" => threads'[t] = 0 /\ t \in restarting'
             /\ t \in restarting' => state'[t] = "stopped"
    BY <1>1, <1>4, <2>1, <2>3 DEF ThreadsSound
  <2>5. closed' \in BOOLEAN /\ ~closed'
    BY <2>1
  <2> QED BY <2>1, <2>2, <2>4, <2>5 DEF ThreadsSound
<1> QED BY <1>3, <1>8, <1>9 DEF PoolIInv

LEMMA AnswerInv ==
  ASSUME PoolIInv, NEW s \in Slots, NEW how \in {"rows", "error", "resource"}, Answer(s, how)
  PROVE  PoolIInv'
<1>1. /\ SlotsSound(state, request, requests, mailbox) /\ NobodyWaits(state, request, requests)
      /\ Ledger /\ ThreadsSound
  BY DEF PoolIInv
<1>2. /\ mailbox[s] # <<>> /\ reply' = [reply EXCEPT ![s] = <<Head(mailbox[s]), how>>]
      /\ mailbox' = [mailbox EXCEPT ![s] = Tail(mailbox[s])]
      /\ SettleNone /\ UNCHANGED <<state, request, restarting, threads, ready, closed>>
  BY DEF Answer
<1>3. Ledger' /\ requests' = requests
  BY <1>1, <1>2, SettleNoneKeeps
<1>4. /\ mailbox[s] \in Seq(Queries) /\ Len(mailbox[s]) = 1
      /\ state[s] \in {"busy", "stopping"}
  BY <1>1, <1>2 DEF SlotsSound
<1>5. Tail(mailbox[s]) = <<>> /\ Head(mailbox[s]) \in Queries
  <2>1. Head(mailbox[s]) \in Queries /\ Tail(mailbox[s]) \in Seq(Queries) /\ Len(Tail(mailbox[s])) = 0
    BY <1>2, <1>4, HeadTailProperties
  <2> QED BY <2>1, EmptySeq
<1>6. SlotsSound(state, request, requests, [mailbox EXCEPT ![s] = <<>>])
  BY <1>1, EmptyKeeps
<1>7. SlotsSound(state', request', requests', mailbox')
  BY <1>2, <1>3, <1>5, <1>6
<1>8. NobodyWaits(state', request', requests')
  BY <1>1, <1>2, <1>3
<1>9. ThreadsSound'
  <2>1. <<Head(mailbox[s]), how>> \in Replies
    BY <1>5 DEF Replies
  <2>2. /\ reply' \in [Slots -> Replies]
        /\ \A t \in Slots : t # s => reply'[t] = reply[t] /\ mailbox'[t] = mailbox[t]
        /\ mailbox'[s] = <<>>
    BY <1>1, <1>2, <1>5, <2>1 DEF ThreadsSound, SlotsSound
  <2> QED BY <1>1, <1>2, <1>3, <1>4, <2>2 DEF ThreadsSound
<1> QED BY <1>3, <1>7, <1>8, <1>9 DEF PoolIInv

LEMMA ReceiveInv ==
  ASSUME PoolIInv, NEW s \in Slots, Receive(s)
  PROVE  PoolIInv'
<1>1. /\ SlotsSound(state, request, requests, mailbox) /\ NobodyWaits(state, request, requests)
      /\ Ledger /\ ThreadsSound
  BY DEF PoolIInv
<1> DEFINE x == reply[s][1]
           how == reply[s][2]
           dropped == state[s] = "stopping" \/ closed \/ request[s] # x
<1>2. /\ reply[s] # <<>> /\ reply' = [reply EXCEPT ![s] = <<>>]
      /\ UNCHANGED <<restarting, threads, ready, closed>>
      /\ dropped => SettleNone /\ UNCHANGED <<state, request, mailbox>>
      /\ ~dropped => /\ Settle(x, how, IF how = "rows" THEN x ELSE Nobody)
                     /\ Dispatch([state EXCEPT ![s] = "idle"], Freed(s), requests', mailbox)
  BY DEF Receive
<1>3. /\ reply[s] \in Queries \X {"rows", "error", "resource"}
      /\ state[s] \in {"busy", "stopping"} /\ mailbox[s] = <<>>
  BY <1>1, <1>2 DEF ThreadsSound, Replies
<1>4. x \in Queries /\ how \in {"rows", "error", "resource"}
  BY <1>3
<1>5. /\ reply' \in [Slots -> Replies]
      /\ \A t \in Slots : reply'[t] = IF t = s THEN <<>> ELSE reply[t]
  <2>1. <<>> \in Replies
    BY DEF Replies
  <2> QED BY <1>1, <1>2, <2>1 DEF ThreadsSound
<1> HIDE DEF x, how, dropped
<1>6. CASE dropped
  <2>1. Ledger' /\ requests' = requests
    BY <1>1, <1>2, <1>6, SettleNoneKeeps
  <2>2. UNCHANGED <<state, request, mailbox, restarting, threads, ready, closed>>
    BY <1>2, <1>6
  <2>3. ThreadsSound'
    BY <1>1, <1>5, <2>1, <2>2 DEF ThreadsSound
  <2> QED BY <1>1, <2>1, <2>2, <2>3 DEF PoolIInv
<1>7. CASE ~dropped
  <2> DEFINE st == [state EXCEPT ![s] = "idle"]
  <2>1. /\ request[s] = x /\ ~closed /\ state[s] = "busy"
        /\ Settle(x, how, IF how = "rows" THEN x ELSE Nobody)
        /\ Dispatch(st, Freed(s), requests', mailbox)
    BY <1>2, <1>3, <1>7 DEF dropped
  <2>2. x \in Range(requests) /\ how \in Outcomes
    BY <1>1, <1>4, <2>1, PoolAssumption DEF SlotsSound, Outcomes
  <2>3. /\ Ledger' /\ requests' \in Seq(Queries) /\ IsInjective(requests')
        /\ Range(requests') = Range(requests) \ {x}
    BY <1>1, <2>1, <2>2, SettleKeeps
  <2>4. SlotsSound(st, Freed(s), requests', mailbox)
    <3>1. "idle" \in SlotStates \ {"busy"} /\ Range(requests) \ {request[s]} \subseteq Range(requests')
      BY <2>1, <2>3 DEF SlotStates
    <3> QED BY <1>1, <1>3, <3>1, FreeKeeps DEF Freed
  <2>5. \A t \in Slots : st[t] = IF t = s THEN "idle" ELSE state[t]
    BY <1>1 DEF SlotsSound
  <2> HIDE DEF st
  <2>6. /\ SlotsSound(state', request', requests', mailbox')
        /\ NobodyWaits(state', request', requests')
        /\ \A t \in Slots : \/ state'[t] = st[t] /\ mailbox'[t] = mailbox[t]
                            \/ st[t] = "idle" /\ state'[t] = "busy"
    BY <2>1, <2>3, <2>4, DispatchKeeps
  <2>7. ThreadsSound'
    <3>1. /\ \A t \in Slots : reply'[t] # <<>> =>
               st[t] \in {"busy", "stopping"} /\ mailbox[t] = <<>>
          /\ \A t \in Slots : st[t] = "stopped" <=> state[t] = "stopped"
      BY <1>1, <1>5, <2>1, <2>5 DEF ThreadsSound
    <3> QED BY <1>1, <1>2, <1>5, <2>1, <2>6, <3>1, DispatchedThreads
  <2> QED BY <2>3, <2>6, <2>7 DEF PoolIInv
<1> QED BY <1>6, <1>7

LEMMA ExitInv ==
  ASSUME PoolIInv, NEW s \in Slots, Exit(s)
  PROVE  PoolIInv'
<1>1. /\ SlotsSound(state, request, requests, mailbox) /\ NobodyWaits(state, request, requests)
      /\ Ledger /\ ThreadsSound
  BY DEF PoolIInv
<1>2. /\ threads[s] > 0 /\ threads' = [threads EXCEPT ![s] = threads[s] - 1]
      /\ ready' = [ready EXCEPT ![s] = FALSE] /\ reply' = [reply EXCEPT ![s] = <<>>]
      /\ mailbox' = [mailbox EXCEPT ![s] = <<>>]
      /\ SettleOf(s, "resource") /\ request' = Freed(s)
      /\ state' = [state EXCEPT ![s] = "stopped"]
      /\ restarting' = (IF closed THEN restarting ELSE restarting \cup {s})
      /\ closed' = closed
  BY DEF Exit
<1>3. /\ Ledger' /\ Range(requests) \ {request[s]} \subseteq Range(requests')
      /\ \A x \in Range(requests') : x \in Range(requests) /\ x # request[s]
      /\ closed => requests' = <<>>
  <2>1. "resource" \in Outcomes \ {"rows"}
    BY DEF Outcomes
  <2> QED BY <1>2, <2>1, SettleOfKeeps
<1>4. SlotsSound(state', request', requests', mailbox')
  <2>1. "stopped" \in SlotStates \ {"busy"}
    BY DEF SlotStates
  <2>2. SlotsSound(state, request, requests, mailbox')
    BY <1>1, <1>2, EmptyKeeps
  <2>3. mailbox'[s] = <<>>
    BY <1>1, <1>2 DEF SlotsSound
  <2>4. SlotsSound([state EXCEPT ![s] = "stopped"], [request EXCEPT ![s] = Nobody], requests', mailbox')
    BY <1>3, <2>1, <2>2, <2>3, FreeKeeps
  <2> QED BY <1>2, <2>4 DEF Freed
<1>5. NobodyWaits(state', request', requests')
  <2>1. NobodyWaits([state EXCEPT ![s] = "stopped"], Freed(s), requests')
    BY <1>1, <1>3, FreedLeavesNobody
  <2> QED BY <1>2, <2>1
<1>6. ThreadsSound'
  <2>1. <<>> \in Replies
    BY DEF Replies
  <2>2. /\ threads' \in [Slots -> Nat] /\ ready' \in [Slots -> BOOLEAN] /\ reply' \in [Slots -> Replies]
        /\ restarting' \subseteq Slots
    BY <1>1, <1>2, <2>1 DEF ThreadsSound
  <2>3. threads[s] = 1
    BY <1>1, <1>2 DEF ThreadsSound
  <2>4. \A t \in Slots :
          /\ threads'[t] = (IF t = s THEN 0 ELSE threads[t])
          /\ reply'[t] = (IF t = s THEN <<>> ELSE reply[t])
          /\ mailbox'[t] = (IF t = s THEN <<>> ELSE mailbox[t])
          /\ state'[t] = (IF t = s THEN "stopped" ELSE state[t])
    BY <1>1, <1>2, <2>3 DEF ThreadsSound, SlotsSound
  <2> QED BY <1>1, <1>2, <1>3, <2>2, <2>4 DEF ThreadsSound
<1> QED BY <1>3, <1>4, <1>5, <1>6 DEF PoolIInv

LEMMA StartInv ==
  ASSUME PoolIInv, NEW s \in Slots, Start(s)
  PROVE  PoolIInv'
<1>1. /\ SlotsSound(state, request, requests, mailbox) /\ NobodyWaits(state, request, requests)
      /\ Ledger /\ ThreadsSound
  BY DEF PoolIInv
<1>2. /\ s \in restarting /\ ~closed /\ restarting' = restarting \ {s}
      /\ state' = [state EXCEPT ![s] = "starting"]
      /\ threads' = [threads EXCEPT ![s] = threads[s] + 1]
      /\ SettleNone /\ UNCHANGED <<request, ready, mailbox, reply, closed>>
  BY DEF Start
<1>3. Ledger' /\ requests' = requests
  BY <1>1, <1>2, SettleNoneKeeps
<1>4. state[s] = "stopped" /\ threads[s] = 0 /\ request[s] = Nobody
  BY <1>1, <1>2 DEF ThreadsSound, SlotsSound
<1>5. /\ state' \in [Slots -> SlotStates]
      /\ \A t \in Slots : state'[t] = IF t = s THEN "starting" ELSE state[t]
  BY <1>1, <1>2 DEF SlotsSound, SlotStates
<1>6. SlotsSound(state', request', requests', mailbox')
  BY <1>1, <1>2, <1>3, <1>4, <1>5 DEF SlotsSound
<1>7. NobodyWaits(state', request', requests')
  BY <1>1, <1>2, <1>3, <1>5 DEF NobodyWaits
<1>8. ThreadsSound'
  <2>1. /\ threads' \in [Slots -> Nat]
        /\ \A t \in Slots : threads'[t] = IF t = s THEN 1 ELSE threads[t]
    BY <1>1, <1>2, <1>4 DEF ThreadsSound
  <2> QED BY <1>1, <1>2, <1>3, <1>4, <1>5, <2>1 DEF ThreadsSound
<1> QED BY <1>3, <1>6, <1>7, <1>8 DEF PoolIInv

LEMMA CloseInv ==
  ASSUME PoolIInv, Close
  PROVE  PoolIInv'
<1>1. /\ SlotsSound(state, request, requests, mailbox) /\ Ledger /\ ThreadsSound
  BY DEF PoolIInv
<1>2. /\ ~closed /\ closed' = TRUE /\ requests' = <<>> /\ pendingBytes' = 0
      /\ outcome' = [x \in Queries |-> IF x \in Range(requests) THEN "resource" ELSE outcome[x]]
      /\ state' = [s \in Slots |-> "stopping"] /\ request' = [s \in Slots |-> Nobody]
      /\ restarting' = {} /\ UNCHANGED <<threads, ready, mailbox, reply, rowsOf>>
  BY DEF Close
<1>3. /\ <<>> \in Seq(Queries) /\ Len(<<>>) = 0 /\ Range(<<>>) = {}
      /\ IsInjective(<<>>) /\ Total(BytesOf, <<>>) = 0
  BY EmptySeq, EmptyRange, TotalEmpty, PoolAssumption
<1>4. Ledger'
  <2>1. outcome' \in [Queries -> Outcomes \cup {"none"}]
    BY <1>1, <1>2 DEF Ledger, Outcomes
  <2>2. OwnRows'
    BY <1>1, <1>2 DEF Ledger, OwnRows
  <2>3. Range(requests') = {} /\ Len(requests') = 0 /\ IsInjective(requests')
        /\ requests' \in Seq(Queries) /\ Total(BytesOf, requests') = 0
    BY <1>2, <1>3
  <2> QED BY <1>1, <1>2, <2>1, <2>2, <2>3, PoolAssumption DEF Ledger
<1>5. SlotsSound(state', request', requests', mailbox')
  <2>1. state' \in [Slots -> SlotStates] /\ request' \in [Slots -> Queries \cup {Nobody}]
    BY <1>2 DEF SlotStates
  <2>2. \A s \in Slots : state'[s] = "stopping" /\ request'[s] = Nobody
    BY <1>2
  <2> QED BY <1>1, <1>2, <2>1, <2>2 DEF SlotsSound
<1>6. NobodyWaits(state', request', requests')
  BY <1>2 DEF NobodyWaits
<1>7. ThreadsSound'
  <2>1. \A s \in Slots : state'[s] = "stopping"
    BY <1>2
  <2> QED BY <1>1, <1>2, <2>1 DEF ThreadsSound
<1> QED BY <1>4, <1>5, <1>6, <1>7 DEF PoolIInv

LEMMA PoolNextInv == PoolIInv /\ [PoolNext]_poolVars => PoolIInv'
<1> SUFFICES ASSUME PoolIInv, [PoolNext]_poolVars PROVE PoolIInv'
  OBVIOUS
<1>1. ASSUME NEW x \in Queries, Submit(x) PROVE PoolIInv'
  BY <1>1, SubmitInv
<1>2. ASSUME NEW x \in Queries, NEW how \in {"resource", "abort"}, Cancel(x, how) PROVE PoolIInv'
  BY <1>2, CancelInv
<1>3. ASSUME NEW s \in Slots, WorkerError(s) PROVE PoolIInv'
  BY <1>3, WorkerErrorInv
<1>4. ASSUME NEW s \in Slots, Ready(s) PROVE PoolIInv'
  BY <1>4, ReadyInv
<1>5. ASSUME NEW s \in Slots, NEW how \in {"rows", "error", "resource"}, Answer(s, how)
      PROVE PoolIInv'
  BY <1>5, AnswerInv
<1>6. ASSUME NEW s \in Slots, Receive(s) PROVE PoolIInv'
  BY <1>6, ReceiveInv
<1>7. ASSUME NEW s \in Slots, Exit(s) PROVE PoolIInv'
  BY <1>7, ExitInv
<1>8. ASSUME NEW s \in Slots, Start(s) PROVE PoolIInv'
  BY <1>8, StartInv
<1>9. CASE Close
  BY <1>9, CloseInv
<1>10. CASE UNCHANGED poolVars
  BY <1>10 DEF poolVars, slotVars, PoolIInv, SlotsSound, NobodyWaits, Ledger, OwnRows, ThreadsSound
<1> QED BY <1>1, <1>2, <1>3, <1>4, <1>5, <1>6, <1>7, <1>8, <1>9, <1>10 DEF PoolNext, PoolStep

\* ReadPoolInv of the pool alone: however submitting, answering, cancelling, losing
\* workers and closing interleave, the queue, the slots and the threads agree, the
\* bounds hold, and nobody gets the rows of another query.
THEOREM PoolSound == PoolSpec => []ReadPoolInv
<1>1. PoolSpec => []PoolIInv
  BY PoolInitInv, PoolNextInv, PTL DEF PoolSpec
<1> QED BY <1>1, PoolSuffices, PTL

-----------------------------------------------------------------------------
(***************************************************************************)
(* The cache: its invariant.                                               *)
(***************************************************************************)

\* What is kept: the types, and CacheExact.
CacheBooks ==
  /\ cache \in Seq(Keys) /\ content \in [Keys -> Answers]
  /\ expired \subseteq Range(cache) /\ totalBytes \in Nat
  /\ CacheExact

\* Who computes and who waits: a key and its owner name each other, and a key that
\* is computed is not kept, so that it is never kept twice.
Owners ==
  /\ inflight \in [Keys -> Requests \cup {NoRequest}]
  /\ subscribers \in [Keys -> SUBSET Requests]
  /\ doing \in [Requests -> {"new", "computing", "waiting", "alone", "solo", "done"}]
  /\ got \in [Requests -> Answers]
  /\ \A r \in Requests : doing[r] = "computing" => inflight[KeyOf[r]] = r
  /\ \A k \in Keys : inflight[k] # NoRequest =>
       doing[inflight[k]] = "computing" /\ KeyOf[inflight[k]] = k
  /\ \A k \in Keys :
       /\ subscribers[k] = {r \in Requests : doing[r] = "waiting" /\ KeyOf[r] = k}
       /\ subscribers[k] # {} => inflight[k] # NoRequest
       /\ IsFiniteSet(subscribers[k]) /\ Cardinality(subscribers[k]) <= MaxWaiters
  /\ IsFiniteSet(Inflight) /\ Cardinality(Inflight) <= MaxInflight
Apart == \A k \in Range(cache) : inflight[k] = NoRequest

CacheIInv == CacheBooks /\ Owners /\ Apart

\* The invariant the run checks follows.
LEMMA CacheSuffices == CacheIInv => CacheInv
<1> SUFFICES ASSUME CacheIInv PROVE CacheInv
  OBVIOUS
<1>1. CacheTypeOK
  BY DEF CacheIInv, CacheBooks, Owners, CacheTypeOK
<1>2. ASSUME NEW k \in Keys
      PROVE  {r \in Requests : doing[r] = "computing" /\ KeyOf[r] = k} = {inflight[k]} \ {NoRequest}
  <2>1. NoRequest \notin Requests
    BY CacheAssumption
  <2>2. inflight[k] # NoRequest => inflight[k] \in Requests
    BY DEF CacheIInv, Owners
  <2>3. \A r \in Requests : doing[r] = "computing" /\ KeyOf[r] = k => inflight[k] = r
    BY DEF CacheIInv, Owners
  <2>4. inflight[k] # NoRequest => doing[inflight[k]] = "computing" /\ KeyOf[inflight[k]] = k
    BY DEF CacheIInv, Owners
  <2> QED BY <2>1, <2>2, <2>3, <2>4
<1>3. NobodyLeftBehind
  BY <1>2 DEF CacheIInv, Owners, NobodyLeftBehind
<1> QED BY <1>1, <1>3 DEF CacheInv, CacheIInv, CacheBooks

LEMMA CacheFacts ==
  /\ KeyOf \in [Requests -> Keys] /\ BytesOfBody \in [Keys -> Nat] /\ NoRequest \notin Requests
  /\ Nothing \in Answers /\ \A why \in Refusals : Refusal(why) \in Answers
  /\ \A is \in Kinds, r \in Requests : Response(is, r) \in Answers
BY CacheAssumption DEF Answers, Nothing, Refusal, Response, Kinds, Refusals

LEMMA CacheInitInv == CacheInit => CacheIInv
<1> SUFFICES ASSUME CacheInit PROVE CacheIInv
  OBVIOUS
<1>1. /\ cache = <<>> /\ <<>> \in Seq(Keys) /\ Len(<<>>) = 0 /\ Range(<<>>) = {}
      /\ IsInjective(<<>>) /\ Total(BytesOfBody, <<>>) = 0
  BY EmptySeq, EmptyRange, TotalEmpty, CacheFacts DEF CacheInit
<1>2. Inflight = {}
  BY DEF CacheInit, Inflight
<1>3. CacheBooks
  BY <1>1, CacheFacts, CacheAssumption DEF CacheInit, CacheBooks, CacheExact, Bytes
<1>4. Owners
  BY <1>2, CacheFacts, CacheAssumption, FS_EmptySet DEF CacheInit, Owners
<1>5. Apart
  BY <1>1 DEF Apart
<1> QED BY <1>3, <1>4, <1>5 DEF CacheIInv

-----------------------------------------------------------------------------
\* What the steps do with the entries.

\* An entry that has expired is dropped; its key is not kept then.
LEMMA MissKeeps ==
  ASSUME CacheBooks, NEW r \in Requests, Miss(r), content' = content
  PROVE  CacheBooks' /\ Range(cache') = Range(cache) \ {KeyOf[r]}
<1> DEFINE k == KeyOf[r]
<1>1. /\ k \in Keys /\ k \notin Range(cache) \ expired /\ DropEntry(k)
      /\ cache \in Seq(Keys) /\ IsInjective(cache) /\ BytesOfBody \in [Keys -> Nat]
  BY CacheFacts DEF Miss, CacheBooks, CacheExact
<1> HIDE DEF k
<1>2. CASE k \in Range(cache)
  <2>1. /\ cache' = Without(cache, k) /\ totalBytes' = totalBytes - BytesOfBody[k]
        /\ expired' = expired \ {k}
    BY <1>1, <1>2 DEF DropEntry
  <2>2. /\ Without(cache, k) \in Seq(Keys) /\ IsInjective(Without(cache, k))
        /\ Range(Without(cache, k)) = Range(cache) \ {k}
        /\ Len(Without(cache, k)) = Len(cache) - 1 /\ Len(Without(cache, k)) \in Nat
        /\ Total(BytesOfBody, Without(cache, k)) \in Nat
        /\ Total(BytesOfBody, Without(cache, k)) = Total(BytesOfBody, cache) - BytesOfBody[k]
    BY <1>1, <1>2, WithoutOne
  <2>3. totalBytes' \in Nat /\ totalBytes' = Bytes(cache') /\ totalBytes' <= MaxBytes
    <3>1. BytesOfBody[k] \in Nat /\ MaxBytes \in Nat
      BY <1>1, CacheAssumption
    <3>2. totalBytes = Total(BytesOfBody, cache) /\ totalBytes \in Nat /\ totalBytes <= MaxBytes
      BY DEF CacheBooks, CacheExact, Bytes
    <3>3. totalBytes' = Total(BytesOfBody, cache')
      BY <2>1, <2>2, <3>2
    <3>4. totalBytes' \in Nat
      BY <2>1, <2>2, <3>3
    <3> QED BY <2>1, <3>1, <3>2, <3>3, <3>4 DEF Bytes
  <2>4. Len(cache') <= MaxEntries
    <3>1. Len(cache) \in Nat /\ Len(cache) <= MaxEntries /\ MaxEntries \in Nat
      BY <1>1, LenProperties, CacheAssumption DEF CacheBooks, CacheExact
    <3>2. Len(cache') = Len(cache) - 1
      BY <2>1, <2>2
    <3> QED BY <3>1, <3>2
  <2>5. /\ cache' \in Seq(Keys) /\ IsInjective(cache') /\ Range(cache') = Range(cache) \ {k}
    BY <2>1, <2>2
  <2>6. /\ expired' \subseteq Range(cache') /\ content' \in [Keys -> Answers]
        /\ \A x \in Range(cache') : content'[x].is \in {"rows", "fallback"}
    BY <2>1, <2>5 DEF CacheBooks, CacheExact
  <2>7. CacheBooks'
    BY <2>3, <2>4, <2>5, <2>6 DEF CacheBooks, CacheExact
  <2> QED BY <2>5, <2>7 DEF k
<1>3. CASE k \notin Range(cache)
  <2>1. UNCHANGED <<cache, totalBytes, expired>>
    BY <1>1, <1>3 DEF DropEntry
  <2> QED BY <1>3, <2>1 DEF CacheBooks, CacheExact, Bytes, k
<1> QED BY <1>2, <1>3

\* A hit moves an entry.
LEMMA HitKeeps ==
  ASSUME CacheBooks, NEW r \in Requests, Hit(r)
  PROVE  CacheBooks' /\ Range(cache') = Range(cache)
<1> DEFINE k == KeyOf[r]
           q == Without(cache, k)
<1>1. /\ k \in Keys /\ k \in Range(cache) /\ cache' = Append(q, k)
      /\ UNCHANGED <<content, expired, totalBytes>>
      /\ cache \in Seq(Keys) /\ IsInjective(cache) /\ BytesOfBody \in [Keys -> Nat]
  BY CacheFacts DEF Hit, CacheBooks, CacheExact
<1>2. /\ q \in Seq(Keys) /\ IsInjective(q) /\ Range(q) = Range(cache) \ {k}
      /\ Len(q) = Len(cache) - 1 /\ Len(q) \in Nat
      /\ Total(BytesOfBody, q) \in Nat
      /\ Total(BytesOfBody, q) = Total(BytesOfBody, cache) - BytesOfBody[k]
  <2> HIDE DEF k
  <2> QED BY <1>1, WithoutOne
<1> HIDE DEF k, q
<1>3. /\ cache' \in Seq(Keys) /\ Len(cache') = Len(q) + 1
      /\ Range(cache') = Range(q) \cup {k} /\ IsInjective(cache')
      /\ Total(BytesOfBody, cache') = Total(BytesOfBody, q) + BytesOfBody[k]
  BY <1>1, <1>2, AppendProperties, AppendRange, TotalAppend
<1>4. Range(cache') = Range(cache)
  BY <1>1, <1>2, <1>3
<1>5. totalBytes = Total(BytesOfBody, cache) /\ totalBytes \in Nat /\ BytesOfBody[k] \in Nat
      /\ Len(cache) \in Nat
  BY <1>1, LenProperties DEF CacheBooks, CacheExact, Bytes
<1>6. totalBytes' = Total(BytesOfBody, cache') /\ Len(cache') = Len(cache)
  BY <1>1, <1>2, <1>3, <1>5
<1> QED BY <1>1, <1>3, <1>4, <1>6 DEF CacheBooks, CacheExact, Bytes

\* makeRoom finds how many go: then the entry fits.
LEMMA RoomIsMade ==
  ASSUME NEW q \in Seq(Keys), NEW size \in Nat, size <= MaxBytes
  PROVE  LET n == MakeRoom(q, Bytes(q), size) IN
         /\ n \in 0..Len(q)
         /\ Len(q) - n < MaxEntries
         /\ Bytes(q) - Bytes(SubSeq(q, 1, n)) + size <= MaxBytes
<1> DEFINE rest(n) == SubSeq(q, n + 1, Len(q))
           fits(n) == rest(n) = <<>> \/ (Len(rest(n)) < MaxEntries
                        /\ Bytes(q) - Bytes(SubSeq(q, 1, n)) + size <= MaxBytes)
           S == {n \in 0..Len(q) : fits(n)}
           n == MakeRoom(q, Bytes(q), size)
<1>1. Len(q) \in Nat
  BY LenProperties
<1>2. Len(q) \in S
  <2>1. rest(Len(q)) = <<>>
    <3>1. Len(q) + 1 \in Int /\ Len(q) \in Int /\ Len(q) < Len(q) + 1
      BY <1>1
    <3> QED BY <3>1, SubSeqEmpty
  <2> QED BY <1>1, <2>1
<1>3. \E m \in S : \A i \in S : m <= i
  <2>1. S \in SUBSET Nat /\ S # {}
    BY <1>1, <1>2
  <2> HIDE DEF S
  <2> QED BY <2>1, LeastOf
<1>4. \E m \in 0..Len(q) : fits(m) /\ \A i \in 0..(m - 1) : ~fits(i)
  <2>1. PICK m \in S : \A i \in S : m <= i
    BY <1>3
  <2>2. \A i \in 0..(m - 1) : i \in 0..Len(q) /\ ~(m <= i)
    BY <1>1, <2>1
  <2> HIDE DEF fits
  <2>3. m \in 0..Len(q) /\ fits(m)
    BY <2>1
  <2> QED BY <2>1, <2>2, <2>3
<1>5. n \in 0..Len(q) /\ fits(n)
  <2>1. n = CHOOSE m \in 0..Len(q) : fits(m) /\ \A i \in 0..(m - 1) : ~fits(i)
    BY DEF MakeRoom
  <2> HIDE DEF n, fits
  <2> QED BY <1>4, <2>1
<1> HIDE DEF n
<1>6. BytesOfBody \in [Keys -> Nat] /\ MaxEntries \in Nat \ {0} /\ MaxBytes \in Nat
  BY CacheAssumption
<1>7. rest(n) \in Seq(Keys) /\ Len(rest(n)) = Len(q) - n
  BY <1>5, Cut
<1>8. /\ Bytes(SubSeq(q, 1, n)) \in Nat /\ Bytes(rest(n)) \in Nat
      /\ Bytes(q) = Bytes(SubSeq(q, 1, n)) + Bytes(rest(n))
  BY <1>5, <1>6, TotalCut DEF Bytes
<1>9. rest(n) = <<>> => Bytes(rest(n)) = 0 /\ Len(rest(n)) = 0
  <2>1. Total(BytesOfBody, <<>>) = 0 /\ Len(<<>>) = 0
    BY <1>6, TotalEmpty, EmptySeq
  <2> QED BY <2>1, Zenon DEF Bytes
<1> HIDE DEF rest
<1>10. Len(q) - n < MaxEntries /\ Bytes(q) - Bytes(SubSeq(q, 1, n)) + size <= MaxBytes
  <2>1. CASE rest(n) = <<>>
    BY <1>1, <1>5, <1>6, <1>7, <1>8, <1>9, <2>1
  <2>2. CASE rest(n) # <<>>
    BY <1>5, <1>7, <2>2
  <2> QED BY <2>1, <2>2
<1> QED BY <1>5, <1>10 DEF n

\* An answer that is kept: what makes no room goes on, and the entry fits.
LEMMA ShareKeeps ==
  ASSUME CacheBooks, Apart, Owners, NEW r \in Requests, NEW response \in Answers,
         Share(r, response), response.is \in Kinds
  PROVE  CacheBooks' /\ Range(cache') \subseteq Range(cache) \cup {KeyOf[r]}
<1> DEFINE k == KeyOf[r]
           n == MakeRoom(cache, totalBytes, BytesOfBody[k])
           gone == SubSeq(cache, 1, n)
           rest == SubSeq(cache, n + 1, Len(cache))
<1>1. /\ k \in Keys /\ cache \in Seq(Keys) /\ IsInjective(cache) /\ BytesOfBody \in [Keys -> Nat]
      /\ totalBytes = Bytes(cache) /\ MaxEntries \in Nat /\ MaxBytes \in Nat
      /\ BytesOfBody[k] \in Nat /\ BytesOfBody[k] <= MaxBytes
  BY CacheFacts, CacheAssumption DEF CacheBooks, CacheExact
<1>2. CASE response.is = "failure"
  <2>1. UNCHANGED <<cache, content, expired, totalBytes>>
    BY <1>2 DEF Share
  <2> QED BY <2>1 DEF CacheBooks, CacheExact, Bytes
<1>3. CASE response.is # "failure"
  <2>1. /\ cache' = Append(rest, k)
        /\ content' = [content EXCEPT ![k] = response]
        /\ expired' = expired \ (Range(gone) \cup {k})
        /\ totalBytes' = totalBytes - Bytes(gone) + BytesOfBody[k]
    BY <1>3 DEF Share
  <2>2. k \notin Range(cache)
    <3>1. doing[r] = "computing"
      BY DEF Share
    <3>2. inflight[k] = r /\ NoRequest \notin Requests
      BY <3>1, CacheFacts DEF Owners
    <3> QED BY <3>2 DEF Apart
  <2>3. /\ n \in 0..Len(cache) /\ Len(cache) - n < MaxEntries
        /\ Bytes(cache) - Bytes(gone) + BytesOfBody[k] <= MaxBytes
    <3>1. n = MakeRoom(cache, Bytes(cache), BytesOfBody[k])
      BY <1>1
    <3> HIDE DEF k
    <3> QED BY <1>1, <3>1, RoomIsMade
  <2> HIDE DEF k, n
  <2>4. /\ rest \in Seq(Keys) /\ IsInjective(rest) /\ Len(rest) = Len(cache) - n
        /\ Range(gone) \cup Range(rest) = Range(cache) /\ Range(gone) \cap Range(rest) = {}
    <3>1. cache \in Seq(Keys) /\ n \in 0..Len(cache)
      BY <1>1, <2>3
    <3>2. rest \in Seq(Keys) /\ Len(rest) = Len(cache) - n
      BY <3>1, Cut
    <3>3. Range(gone) \cup Range(rest) = Range(cache)
      BY <3>1, Cut
    <3>4. IsInjective(rest)
      BY <1>1, <3>1, Cut
    <3>5. Range(gone) \cap Range(rest) = {}
      BY <1>1, <3>1, Cut
    <3> QED BY <3>2, <3>3, <3>4, <3>5
  <2>5. /\ Bytes(gone) \in Nat /\ Bytes(rest) \in Nat /\ Bytes(cache) = Bytes(gone) + Bytes(rest)
    BY <1>1, <2>3, TotalCut DEF Bytes
  <2> HIDE DEF gone, rest
  <2>6. k \notin Range(rest)
    BY <2>2, <2>4
  <2>7. /\ cache' \in Seq(Keys) /\ Len(cache') = Len(rest) + 1
        /\ Range(cache') = Range(rest) \cup {k} /\ IsInjective(cache')
        /\ Total(BytesOfBody, cache') = Total(BytesOfBody, rest) + BytesOfBody[k]
    <3>1. k \in Keys /\ rest \in Seq(Keys) /\ BytesOfBody \in [Keys -> Nat]
      BY <1>1, <2>4
    <3>2. cache' \in Seq(Keys) /\ Len(cache') = Len(rest) + 1
      BY <2>1, <3>1, AppendProperties
    <3>3. /\ Range(cache') = Range(rest) \cup {k}
          /\ IsInjective(cache') <=> IsInjective(rest) /\ k \notin Range(rest)
      BY <2>1, <3>1, AppendRange
    <3>4. Total(BytesOfBody, cache') = Total(BytesOfBody, rest) + BytesOfBody[k]
      BY <2>1, <3>1, TotalAppend
    <3> QED BY <2>4, <2>6, <3>2, <3>3, <3>4
  <2>8. Len(cache') <= MaxEntries
    <3>1. Len(cache) \in Nat
      BY <1>1, LenProperties
    <3> QED BY <1>1, <2>3, <2>4, <2>7, <3>1
  <2>9. totalBytes' = Bytes(cache') /\ totalBytes' \in Nat /\ totalBytes' <= MaxBytes
    BY <1>1, <2>1, <2>3, <2>5, <2>7 DEF Bytes
  <2>10. expired' \subseteq Range(cache') /\ content' \in [Keys -> Answers]
    BY <1>1, <2>1, <2>4, <2>7 DEF CacheBooks
  <2>11. \A x \in Range(cache') : content'[x].is \in {"rows", "fallback"}
    <3> SUFFICES ASSUME NEW x \in Range(cache') PROVE content'[x].is \in {"rows", "fallback"}
      OBVIOUS
    <3>1. CASE x = k
      BY <1>1, <1>3, <2>1, <3>1 DEF CacheBooks, Kinds
    <3>2. CASE x # k
      <4>1. x \in Range(cache)
        BY <2>4, <2>7, <3>2
      <4>2. content[x].is \in {"rows", "fallback"}
        BY <4>1 DEF CacheBooks, CacheExact
      <4>3. content'[x] = content[x]
        BY <2>1, <2>10, <3>2, <4>1 DEF CacheBooks
      <4> QED BY <4>2, <4>3
    <3> QED BY <3>1, <3>2
  <2>12. Range(cache') \subseteq Range(cache) \cup {k}
    BY <2>4, <2>7
  <2>13. CacheBooks'
    BY <2>7, <2>8, <2>9, <2>10, <2>11 DEF CacheBooks, CacheExact
  <2> QED BY <2>12, <2>13 DEF k
<1> QED BY <1>2, <1>3

\* The sweep takes what has expired and its bytes.
LEMMA SweepKeeps ==
  ASSUME CacheBooks, Sweep
  PROVE  CacheBooks' /\ Range(cache') \subseteq Range(cache)
<1> DEFINE left == Selected(cache, Keys \ expired)
           gone == Selected(cache, expired)
<1>1. /\ cache' = left /\ totalBytes' = totalBytes - Bytes(gone) /\ expired' = {}
      /\ content' = content
      /\ cache \in Seq(Keys) /\ IsInjective(cache) /\ BytesOfBody \in [Keys -> Nat]
      /\ totalBytes = Bytes(cache) /\ totalBytes \in Nat /\ totalBytes <= MaxBytes
      /\ Len(cache) <= MaxEntries
  BY CacheFacts DEF Sweep, CacheBooks, CacheExact
<1>2. Range(cache) \subseteq Keys
  BY <1>1, RangeOfSeq DEF Range
<1>3. \A x \in Range(cache) : x \in Keys \ expired <=> x \notin expired
  BY <1>2
<1>4. /\ left \in Seq(Keys) /\ Range(left) = Range(cache) \cap (Keys \ expired)
      /\ IsInjective(left)
  BY <1>1, SelectedRange
<1>5. gone \in Seq(Keys)
  BY <1>1, SelectedRange
<1>6. /\ Bytes(left) \in Nat /\ Bytes(gone) \in Nat /\ Bytes(cache) = Bytes(left) + Bytes(gone)
  BY <1>1, <1>3, TotalSelected DEF Bytes
<1>7. Len(cache) = Len(left) + Len(gone)
  BY <1>1, <1>3, LengthSelected
<1> HIDE DEF left, gone
<1>8. Len(cache') <= MaxEntries
  <2>1. Len(left) \in Nat /\ Len(gone) \in Nat /\ MaxEntries \in Nat
    BY <1>4, <1>5, LenProperties, CacheAssumption
  <2> QED BY <1>1, <1>7, <2>1
<1>9. totalBytes' = Bytes(cache') /\ totalBytes' \in Nat /\ totalBytes' <= MaxBytes
  <2>1. totalBytes' = Bytes(left) /\ MaxBytes \in Nat
    BY <1>1, <1>6, CacheAssumption
  <2>2. Bytes(cache') = Bytes(left)
    BY <1>1 DEF Bytes
  <2> QED BY <1>1, <1>6, <2>1, <2>2
<1>10. expired' \subseteq Range(cache') /\ Range(cache') \subseteq Range(cache)
  BY <1>1, <1>4
<1> QED BY <1>1, <1>4, <1>8, <1>9, <1>10 DEF CacheBooks, CacheExact

-----------------------------------------------------------------------------
\* What the steps do with the requests.

\* One that computes nothing for others is answered.
LEMMA TellKeeps ==
  ASSUME Owners, NEW r \in Requests, NEW answer \in Answers, doing[r] \in {"new", "solo"},
         Tell(r, answer), UNCHANGED <<inflight, subscribers>>
  PROVE  Owners'
<1>1. /\ doing' = [doing EXCEPT ![r] = "done"] /\ got' = [got EXCEPT ![r] = answer]
  BY DEF Tell
<1>2. /\ doing' \in [Requests -> {"new", "computing", "waiting", "alone", "solo", "done"}]
      /\ got' \in [Requests -> Answers]
  BY <1>1 DEF Owners
<1>3. \A x \in Requests : /\ doing'[x] = "computing" <=> doing[x] = "computing"
                          /\ doing'[x] = "waiting" <=> doing[x] = "waiting"
  BY <1>1 DEF Owners
<1>4. Inflight' = Inflight
  BY DEF Inflight
<1>5. \A x \in Requests : doing'[x] = "computing" => inflight'[KeyOf[x]] = x
  BY <1>3 DEF Owners
<1>6. \A k \in Keys : inflight'[k] # NoRequest =>
        doing'[inflight'[k]] = "computing" /\ KeyOf[inflight'[k]] = k
  BY <1>3 DEF Owners
<1>7. \A k \in Keys :
        /\ subscribers'[k] = {x \in Requests : doing'[x] = "waiting" /\ KeyOf[x] = k}
        /\ subscribers'[k] # {} => inflight'[k] # NoRequest
        /\ IsFiniteSet(subscribers'[k]) /\ Cardinality(subscribers'[k]) <= MaxWaiters
  BY <1>3 DEF Owners
<1> QED BY <1>2, <1>4, <1>5, <1>6, <1>7 DEF Owners

\* A set has at most one more with one more.
LEMMA OneMore ==
  ASSUME NEW S, IsFiniteSet(S), NEW x
  PROVE  /\ IsFiniteSet(S \cup {x}) /\ Cardinality(S) \in Nat
         /\ Cardinality(S \cup {x}) \in Nat /\ Cardinality(S \cup {x}) <= Cardinality(S) + 1
<1>1. IsFiniteSet(S \cup {x}) /\ Cardinality(S) \in Nat
  BY FS_AddElement, FS_CardinalityType
<1>2. Cardinality(S \cup {x}) = Cardinality(S) \/ Cardinality(S \cup {x}) = Cardinality(S) + 1
  BY FS_AddElement
<1> QED BY <1>1, <1>2

\* One more waits, for a computation that is running.
LEMMA WaitKeeps ==
  ASSUME Owners, NEW r \in Requests, doing[r] = "new", KeyOf[r] \in Inflight,
         Cardinality(subscribers[KeyOf[r]]) < MaxWaiters,
         subscribers' = [subscribers EXCEPT ![KeyOf[r]] = @ \cup {r}],
         doing' = [doing EXCEPT ![r] = "waiting"], UNCHANGED <<got, inflight>>
  PROVE  Owners'
<1> DEFINE k == KeyOf[r]
<1>1. k \in Keys /\ MaxWaiters \in Nat
  BY CacheFacts, CacheAssumption
<1>2. /\ subscribers' \in [Keys -> SUBSET Requests]
      /\ doing' \in [Requests -> {"new", "computing", "waiting", "alone", "solo", "done"}]
  BY DEF Owners
<1>3. \A x \in Requests : /\ doing'[x] = "computing" <=> doing[x] = "computing"
                          /\ doing'[x] = "waiting" <=> doing[x] = "waiting" \/ x = r
  BY DEF Owners
<1>4. Inflight' = Inflight
  BY DEF Inflight
<1>5. \A x \in Requests : doing'[x] = "computing" => inflight'[KeyOf[x]] = x
  BY <1>3 DEF Owners
<1>6. \A j \in Keys : inflight'[j] # NoRequest =>
        doing'[inflight'[j]] = "computing" /\ KeyOf[inflight'[j]] = j
  BY <1>3 DEF Owners
<1>7. ASSUME NEW j \in Keys
      PROVE  /\ subscribers'[j] = {x \in Requests : doing'[x] = "waiting" /\ KeyOf[x] = j}
             /\ subscribers'[j] # {} => inflight'[j] # NoRequest
             /\ IsFiniteSet(subscribers'[j]) /\ Cardinality(subscribers'[j]) <= MaxWaiters
  <2>1. /\ subscribers[j] = {x \in Requests : doing[x] = "waiting" /\ KeyOf[x] = j}
        /\ subscribers[j] # {} => inflight[j] # NoRequest
        /\ IsFiniteSet(subscribers[j]) /\ Cardinality(subscribers[j]) <= MaxWaiters
    BY DEF Owners
  <2>2. CASE j = k
    <3>1. subscribers'[j] = subscribers[j] \cup {r}
      BY <1>1, <2>2 DEF Owners
    <3>2. subscribers'[j] = {x \in Requests : doing'[x] = "waiting" /\ KeyOf[x] = j}
      BY <1>3, <2>1, <2>2, <3>1
    <3>3. /\ IsFiniteSet(subscribers[j] \cup {r}) /\ Cardinality(subscribers[j]) \in Nat
          /\ Cardinality(subscribers[j] \cup {r}) \in Nat
          /\ Cardinality(subscribers[j] \cup {r}) <= Cardinality(subscribers[j]) + 1
      BY <2>1, OneMore
    <3>4. IsFiniteSet(subscribers'[j]) /\ Cardinality(subscribers'[j]) <= MaxWaiters
      <4>1. Cardinality(subscribers[j]) < MaxWaiters
        BY <2>2
      <4>2. Cardinality(subscribers[j] \cup {r}) <= MaxWaiters
        BY <1>1, <3>3, <4>1
      <4> QED BY <3>1, <3>3, <4>2, Zenon
    <3>5. inflight'[j] # NoRequest
      BY <2>2 DEF Inflight
    <3> QED BY <3>2, <3>4, <3>5
  <2>3. CASE j # k
    <3>1. subscribers'[j] = subscribers[j]
      BY <2>3 DEF Owners
    <3>2. \A x \in Requests : KeyOf[x] = j => x # r
      BY <2>3
    <3> QED BY <1>3, <2>1, <3>1, <3>2
  <2> QED BY <2>2, <2>3
<1> QED BY <1>2, <1>4, <1>5, <1>6, <1>7 DEF Owners

\* One goes away from those that wait.
LEMMA GiveUpKeeps ==
  ASSUME Owners, NEW r \in Requests, GiveUp(r)
  PROVE  Owners'
<1> DEFINE k == KeyOf[r]
<1>1. /\ k \in Keys /\ MaxWaiters \in Nat /\ Refusal("timeout") \in Answers
      /\ doing[r] = "waiting" /\ inflight' = inflight
      /\ subscribers' = [subscribers EXCEPT ![k] = @ \ {r}]
      /\ doing' = [doing EXCEPT ![r] = "done"]
      /\ got' = [got EXCEPT ![r] = Refusal("timeout")]
  BY CacheFacts, CacheAssumption DEF GiveUp, Tell, Refusals
<1>2. /\ subscribers' \in [Keys -> SUBSET Requests] /\ got' \in [Requests -> Answers]
      /\ doing' \in [Requests -> {"new", "computing", "waiting", "alone", "solo", "done"}]
  BY <1>1 DEF Owners
<1>3. \A x \in Requests : /\ doing'[x] = "computing" <=> doing[x] = "computing"
                          /\ doing'[x] = "waiting" <=> doing[x] = "waiting" /\ x # r
  BY <1>1 DEF Owners
<1>4. Inflight' = Inflight
  BY <1>1 DEF Inflight
<1>5. \A x \in Requests : doing'[x] = "computing" => inflight'[KeyOf[x]] = x
  BY <1>1, <1>3 DEF Owners
<1>6. \A j \in Keys : inflight'[j] # NoRequest =>
        doing'[inflight'[j]] = "computing" /\ KeyOf[inflight'[j]] = j
  BY <1>1, <1>3 DEF Owners
<1>7. ASSUME NEW j \in Keys
      PROVE  /\ subscribers'[j] = {x \in Requests : doing'[x] = "waiting" /\ KeyOf[x] = j}
             /\ subscribers'[j] # {} => inflight'[j] # NoRequest
             /\ IsFiniteSet(subscribers'[j]) /\ Cardinality(subscribers'[j]) <= MaxWaiters
  <2>1. /\ subscribers[j] = {x \in Requests : doing[x] = "waiting" /\ KeyOf[x] = j}
        /\ subscribers[j] # {} => inflight[j] # NoRequest
        /\ IsFiniteSet(subscribers[j]) /\ Cardinality(subscribers[j]) <= MaxWaiters
    BY DEF Owners
  <2>2. CASE j = k
    <3>1. subscribers'[j] = subscribers[j] \ {r}
      BY <1>1, <2>2 DEF Owners
    <3>2. subscribers'[j] = {x \in Requests : doing'[x] = "waiting" /\ KeyOf[x] = j}
      BY <1>3, <2>1, <2>2, <3>1
    <3>3. /\ IsFiniteSet(subscribers[j] \ {r})
          /\ Cardinality(subscribers[j] \ {r}) <= Cardinality(subscribers[j])
          /\ Cardinality(subscribers[j]) \in Nat /\ Cardinality(subscribers[j] \ {r}) \in Nat
      <4>1. subscribers[j] \ {r} \subseteq subscribers[j]
        OBVIOUS
      <4> QED BY <2>1, <4>1, FS_Subset, FS_CardinalityType
    <3>4. IsFiniteSet(subscribers'[j]) /\ Cardinality(subscribers'[j]) <= MaxWaiters
      <4>1. Cardinality(subscribers[j] \ {r}) <= MaxWaiters
        BY <1>1, <2>1, <3>3
      <4> QED BY <3>1, <3>3, <4>1, Zenon
    <3>5. subscribers'[j] # {} => inflight'[j] # NoRequest
      BY <1>1, <2>1, <3>1
    <3> QED BY <3>2, <3>4, <3>5
  <2>3. CASE j # k
    <3>1. subscribers'[j] = subscribers[j]
      BY <1>1, <2>3 DEF Owners
    <3>2. \A x \in Requests : KeyOf[x] = j => x # r
      BY <2>3
    <3> QED BY <1>1, <1>3, <2>1, <3>1, <3>2
  <2> QED BY <2>2, <2>3
<1> QED BY <1>1, <1>2, <1>4, <1>5, <1>6, <1>7 DEF Owners

\* One begins to compute for a key that nobody computes.
LEMMA OwnKeeps ==
  ASSUME Owners, NEW r \in Requests, Own(r)
  PROVE  Owners'
<1> DEFINE k == KeyOf[r]
<1>1. /\ k \in Keys /\ MaxInflight \in Nat /\ NoRequest \notin Requests
      /\ doing[r] = "new" /\ k \notin Inflight /\ Cardinality(Inflight) < MaxInflight
      /\ inflight' = [inflight EXCEPT ![k] = r]
      /\ doing' = [doing EXCEPT ![r] = "computing"]
      /\ UNCHANGED <<subscribers, got>>
  BY CacheFacts, CacheAssumption DEF Own, Miss
<1>2. /\ inflight' \in [Keys -> Requests \cup {NoRequest}]
      /\ doing' \in [Requests -> {"new", "computing", "waiting", "alone", "solo", "done"}]
  BY <1>1 DEF Owners
<1>3. \A x \in Requests : /\ doing'[x] = "computing" <=> doing[x] = "computing" \/ x = r
                          /\ doing'[x] = "waiting" <=> doing[x] = "waiting"
  BY <1>1 DEF Owners
<1>4. inflight[k] = NoRequest
  BY <1>1 DEF Inflight
<1>5. \A j \in Keys : inflight'[j] = IF j = k THEN r ELSE inflight[j]
  BY <1>1 DEF Owners
<1>6. \A x \in Requests : doing'[x] = "computing" => inflight'[KeyOf[x]] = x
  <2> SUFFICES ASSUME NEW x \in Requests, doing'[x] = "computing"
               PROVE  inflight'[KeyOf[x]] = x
    OBVIOUS
  <2>1. KeyOf[x] \in Keys
    BY CacheFacts
  <2>2. CASE x = r
    BY <1>1, <1>5, <2>2
  <2>3. CASE x # r
    <3>1. inflight[KeyOf[x]] = x
      BY <1>3, <2>3 DEF Owners
    <3>2. KeyOf[x] # k
      BY <1>1, <1>4, <3>1
    <3> QED BY <1>5, <2>1, <3>1, <3>2
  <2> QED BY <2>2, <2>3
<1>7. \A j \in Keys : inflight'[j] # NoRequest =>
        doing'[inflight'[j]] = "computing" /\ KeyOf[inflight'[j]] = j
  <2> SUFFICES ASSUME NEW j \in Keys, inflight'[j] # NoRequest
               PROVE  doing'[inflight'[j]] = "computing" /\ KeyOf[inflight'[j]] = j
    OBVIOUS
  <2>1. CASE j = k
    BY <1>1, <1>3, <1>5, <2>1
  <2>2. CASE j # k
    <3>1. inflight'[j] = inflight[j] /\ inflight[j] \in Requests
      BY <1>5, <2>2 DEF Owners
    <3> QED BY <1>3, <3>1 DEF Owners
  <2> QED BY <2>1, <2>2
<1>8. \A j \in Keys :
        /\ subscribers'[j] = {x \in Requests : doing'[x] = "waiting" /\ KeyOf[x] = j}
        /\ subscribers'[j] # {} => inflight'[j] # NoRequest
        /\ IsFiniteSet(subscribers'[j]) /\ Cardinality(subscribers'[j]) <= MaxWaiters
  BY <1>1, <1>3, <1>5 DEF Owners
<1>9. IsFiniteSet(Inflight') /\ Cardinality(Inflight') <= MaxInflight
  <2>1. Inflight' = Inflight \cup {k}
    BY <1>1, <1>5 DEF Inflight
  <2>2. IsFiniteSet(Inflight)
    BY DEF Owners
  <2>3. /\ IsFiniteSet(Inflight \cup {k}) /\ Cardinality(Inflight) \in Nat
        /\ Cardinality(Inflight \cup {k}) \in Nat
        /\ Cardinality(Inflight \cup {k}) <= Cardinality(Inflight) + 1
    BY <2>2, OneMore
  <2>4. Cardinality(Inflight \cup {k}) <= MaxInflight
    BY <1>1, <2>3
  <2> QED BY <2>1, <2>3, <2>4, Zenon
<1> QED BY <1>1, <1>2, <1>6, <1>7, <1>8, <1>9 DEF Owners

\* The owner is done, and those that wait are told: nobody waits for the key then,
\* and another may compute it.
LEMMA FinishKeeps ==
  ASSUME Owners, NEW r \in Requests, doing[r] = "computing",
         NEW mine \in Answers, NEW told \in Answers, Finish(r, mine, told)
  PROVE  Owners'
<1> DEFINE k == KeyOf[r]
<1>1. /\ k \in Keys /\ NoRequest \notin Requests
      /\ doing' = [x \in Requests |-> IF x = r THEN "done"
                                  ELSE IF x \notin subscribers[k] THEN doing[x]
                                  ELSE IF told = Nothing THEN "alone" ELSE "done"]
      /\ got' = [x \in Requests |-> IF x = r THEN mine
                                ELSE IF x \in subscribers[k] /\ told # Nothing THEN told
                                ELSE got[x]]
      /\ inflight' = [inflight EXCEPT ![k] = NoRequest]
      /\ subscribers' = [subscribers EXCEPT ![k] = {}]
  BY CacheFacts DEF Finish
<1>2. inflight[k] = r
  BY DEF Owners
<1>3. /\ inflight' \in [Keys -> Requests \cup {NoRequest}]
      /\ subscribers' \in [Keys -> SUBSET Requests]
  BY <1>1 DEF Owners
<1>4. /\ doing' \in [Requests -> {"new", "computing", "waiting", "alone", "solo", "done"}]
      /\ got' \in [Requests -> Answers]
  BY <1>1 DEF Owners
<1>5. \A x \in Requests : /\ doing'[x] = "computing" <=> doing[x] = "computing" /\ x # r
                          /\ doing'[x] = "waiting" <=> doing[x] = "waiting" /\ KeyOf[x] # k
  <2> SUFFICES ASSUME NEW x \in Requests
               PROVE  /\ doing'[x] = "computing" <=> doing[x] = "computing" /\ x # r
                      /\ doing'[x] = "waiting" <=> doing[x] = "waiting" /\ KeyOf[x] # k
    OBVIOUS
  <2>1. x \in subscribers[k] <=> doing[x] = "waiting" /\ KeyOf[x] = k
    BY <1>1 DEF Owners
  <2> QED BY <1>1, <2>1
<1>6. \A j \in Keys : /\ inflight'[j] = (IF j = k THEN NoRequest ELSE inflight[j])
                      /\ subscribers'[j] = (IF j = k THEN {} ELSE subscribers[j])
  BY <1>1 DEF Owners
<1>7. \A x \in Requests : doing'[x] = "computing" => inflight'[KeyOf[x]] = x
  <2> SUFFICES ASSUME NEW x \in Requests, doing'[x] = "computing"
               PROVE  inflight'[KeyOf[x]] = x
    OBVIOUS
  <2>1. x # r /\ inflight[KeyOf[x]] = x /\ KeyOf[x] \in Keys
    BY <1>5, CacheFacts DEF Owners
  <2>2. KeyOf[x] # k
    BY <1>2, <2>1
  <2> QED BY <1>6, <2>1, <2>2
<1>8. \A j \in Keys : inflight'[j] # NoRequest =>
        doing'[inflight'[j]] = "computing" /\ KeyOf[inflight'[j]] = j
  <2> SUFFICES ASSUME NEW j \in Keys, inflight'[j] # NoRequest
               PROVE  doing'[inflight'[j]] = "computing" /\ KeyOf[inflight'[j]] = j
    OBVIOUS
  <2>1. j # k /\ inflight'[j] = inflight[j] /\ inflight[j] \in Requests
    BY <1>6 DEF Owners
  <2>2. doing[inflight[j]] = "computing" /\ KeyOf[inflight[j]] = j
    BY <2>1 DEF Owners
  <2> QED BY <1>5, <2>1, <2>2
<1>9. ASSUME NEW j \in Keys
      PROVE  /\ subscribers'[j] = {x \in Requests : doing'[x] = "waiting" /\ KeyOf[x] = j}
             /\ subscribers'[j] # {} => inflight'[j] # NoRequest
             /\ IsFiniteSet(subscribers'[j]) /\ Cardinality(subscribers'[j]) <= MaxWaiters
  <2>1. /\ subscribers[j] = {x \in Requests : doing[x] = "waiting" /\ KeyOf[x] = j}
        /\ subscribers[j] # {} => inflight[j] # NoRequest
        /\ IsFiniteSet(subscribers[j]) /\ Cardinality(subscribers[j]) <= MaxWaiters
    BY DEF Owners
  <2>2. CASE j = k
    BY <1>5, <1>6, <2>2, FS_EmptySet, CacheAssumption
  <2>3. CASE j # k
    <3>1. subscribers'[j] = subscribers[j] /\ inflight'[j] = inflight[j]
      BY <1>6, <2>3
    <3>2. \A x \in Requests : KeyOf[x] = j => (doing'[x] = "waiting" <=> doing[x] = "waiting")
      BY <1>5, <2>3
    <3>3. subscribers'[j] = {x \in Requests : doing'[x] = "waiting" /\ KeyOf[x] = j}
      BY <2>1, <3>1, <3>2
    <3> QED BY <2>1, <3>1, <3>3, Zenon
  <2> QED BY <2>2, <2>3
<1>10. IsFiniteSet(Inflight') /\ Cardinality(Inflight') <= MaxInflight
  <2>1. Inflight' \subseteq Inflight
    BY <1>6 DEF Inflight
  <2>2. /\ IsFiniteSet(Inflight) /\ Cardinality(Inflight) \in Nat
        /\ Cardinality(Inflight) <= MaxInflight /\ MaxInflight \in Nat
    BY FS_CardinalityType, CacheAssumption DEF Owners
  <2>3. /\ IsFiniteSet(Inflight') /\ Cardinality(Inflight') <= Cardinality(Inflight)
        /\ Cardinality(Inflight') \in Nat
    BY <2>1, <2>2, FS_Subset, FS_CardinalityType
  <2> QED BY <2>2, <2>3
<1> QED BY <1>3, <1>4, <1>7, <1>8, <1>9, <1>10 DEF Owners

\* One that was told nothing computes by itself.
LEMMA ComputeAloneKeeps ==
  ASSUME Owners, NEW r \in Requests, ComputeAlone(r)
  PROVE  Owners'
<1>1. /\ doing[r] = "alone" /\ doing' = [doing EXCEPT ![r] = "solo"]
      /\ UNCHANGED <<inflight, subscribers, got>>
  BY DEF ComputeAlone
<1>2. doing' \in [Requests -> {"new", "computing", "waiting", "alone", "solo", "done"}]
  BY <1>1 DEF Owners
<1>3. \A x \in Requests : /\ doing'[x] = "computing" <=> doing[x] = "computing"
                          /\ doing'[x] = "waiting" <=> doing[x] = "waiting"
  BY <1>1 DEF Owners
<1>4. Inflight' = Inflight
  BY <1>1 DEF Inflight
<1>5. \A x \in Requests : doing'[x] = "computing" => inflight'[KeyOf[x]] = x
  BY <1>1, <1>3 DEF Owners
<1>6. \A k \in Keys : inflight'[k] # NoRequest =>
        doing'[inflight'[k]] = "computing" /\ KeyOf[inflight'[k]] = k
  BY <1>1, <1>3 DEF Owners
<1>7. \A k \in Keys :
        /\ subscribers'[k] = {x \in Requests : doing'[x] = "waiting" /\ KeyOf[x] = k}
        /\ subscribers'[k] # {} => inflight'[k] # NoRequest
        /\ IsFiniteSet(subscribers'[k]) /\ Cardinality(subscribers'[k]) <= MaxWaiters
  BY <1>1, <1>3 DEF Owners
<1> QED BY <1>1, <1>2, <1>4, <1>5, <1>6, <1>7 DEF Owners

-----------------------------------------------------------------------------
(***************************************************************************)
(* Reads: the cache over the pool.                                         *)
(***************************************************************************)

\* Who is answered for key k with a had it of a request for k whose query, in out,
\* ran into no limit and was not left; and rows are of a query that gave rows.
Honest(a, k, out) ==
  a.is \in Kinds =>
    /\ a.by \in Requests /\ KeyOf[a.by] = k /\ out[a.by] \in {"rows", "error"}
    /\ a.is = "rows" => out[a.by] = "rows"
Told ==
  /\ \A k \in Range(cache) : Honest(content[k], k, outcome)
  /\ \A r \in Requests : Honest(got[r], KeyOf[r], outcome)

\* A query that was answered keeps its answer.
Settled == \A x \in Queries : outcome[x] # "none" => outcome'[x] = outcome[x]

ReadIInv == PoolIInv /\ CacheIInv /\ Told

\* The invariant the run checks follows.
LEMMA ReadSuffices == ReadIInv => ReadPoolInv /\ CacheInv /\ SharedIsTrue
<1> SUFFICES ASSUME ReadIInv PROVE ReadPoolInv /\ CacheInv /\ SharedIsTrue
  OBVIOUS
<1>1. ReadPoolInv /\ CacheInv
  BY PoolSuffices, CacheSuffices DEF ReadIInv
<1>2. Requests \subseteq Queries
  BY ReadPathAssumption
<1>3. ASSUME NEW k \in Range(cache)
      PROVE  KeyOf[content[k].by] = k /\ outcome[content[k].by] # "resource"
  <2>1. Honest(content[k], k, outcome)
    BY DEF ReadIInv, Told
  <2>2. content[k].is \in Kinds
    BY DEF ReadIInv, CacheIInv, CacheBooks, CacheExact, Kinds
  <2> QED BY <2>1, <2>2 DEF Honest
<1>4. ASSUME NEW r \in Requests, got[r].is \in Kinds
      PROVE  /\ KeyOf[got[r].by] = KeyOf[r]
             /\ outcome[got[r].by] \in {"rows", "error"}
             /\ got[r].is = "rows" => rowsOf[got[r].by] = got[r].by
  <2>1. Honest(got[r], KeyOf[r], outcome)
    BY DEF ReadIInv, Told
  <2>2. /\ got[r].by \in Requests /\ KeyOf[got[r].by] = KeyOf[r]
        /\ outcome[got[r].by] \in {"rows", "error"}
        /\ got[r].is = "rows" => outcome[got[r].by] = "rows"
    BY <1>4, <2>1 DEF Honest
  <2>3. \A x \in Queries : rowsOf[x] = (IF outcome[x] = "rows" THEN x ELSE Nobody)
    BY DEF ReadIInv, PoolIInv, Ledger, OwnRows
  <2> QED BY <1>2, <2>2, <2>3
<1>5. SharedIsTrue
  BY <1>3, <1>4 DEF SharedIsTrue
<1> QED BY <1>1, <1>5

\* What settling a query of the queue does to the outcomes.
LEMMA SettleSettles ==
  ASSUME Ledger, NEW x \in Range(requests), NEW how, NEW rows, Settle(x, how, rows)
  PROVE  Settled
<1>1. outcome[x] = "none" /\ outcome' = [outcome EXCEPT ![x] = how]
  BY DEF Ledger, Settle
<1>2. outcome \in [Queries -> Outcomes \cup {"none"}]
  BY DEF Ledger
<1> QED BY <1>1, <1>2 DEF Settled

\* No step of the pool takes an answer back.
LEMMA AnswersStay == PoolIInv /\ [PoolNext]_poolVars => Settled
<1> SUFFICES ASSUME PoolIInv, [PoolNext]_poolVars PROVE Settled
  OBVIOUS
<1>1. /\ Ledger /\ \A s \in Slots : request[s] # Nobody => request[s] \in Range(requests)
      /\ outcome \in [Queries -> Outcomes \cup {"none"}]
  BY DEF PoolIInv, SlotsSound, Ledger
<1>2. SettleNone => Settled
  BY DEF SettleNone, Settled
<1>3. ASSUME NEW s \in Slots, NEW how, SettleOf(s, how) PROVE Settled
  <2>1. CASE request[s] = Nobody
    BY <1>2, <1>3, <2>1 DEF SettleOf
  <2>2. CASE request[s] # Nobody
    <3>1. request[s] \in Range(requests) /\ Settle(request[s], how, Nobody)
      BY <1>1, <1>3, <2>2 DEF SettleOf
    <3> QED BY <1>1, <3>1, SettleSettles
  <2> QED BY <2>1, <2>2
<1>4. ASSUME NEW x \in Queries, Submit(x) PROVE Settled
  BY <1>1, <1>4 DEF Submit, Settled
<1>5. ASSUME NEW x \in Queries, NEW how, Cancel(x, how) PROVE Settled
  <2>1. x \in Range(requests) /\ Settle(x, how, Nobody)
    BY <1>5 DEF Cancel
  <2> QED BY <1>1, <2>1, SettleSettles
<1>6. ASSUME NEW s \in Slots, Receive(s) PROVE Settled
  <2>1. reply[s] # <<>>
    BY <1>6 DEF Receive
  <2>2. CASE state[s] = "stopping" \/ closed \/ request[s] # reply[s][1]
    <3>1. SettleNone
      BY <1>6, <2>2 DEF Receive
    <3> QED BY <1>2, <3>1
  <2>3. CASE ~(state[s] = "stopping" \/ closed \/ request[s] # reply[s][1])
    <3> DEFINE x == reply[s][1]
               how == reply[s][2]
    <3>1. Settle(x, how, IF how = "rows" THEN x ELSE Nobody)
      BY <1>6, <2>3 DEF Receive
    <3>2. x \in Queries
      BY <2>1, PoolIInv DEF PoolIInv, ThreadsSound, Replies
    <3>3. x # Nobody
      BY <3>2, PoolAssumption
    <3>4. x \in Range(requests)
      BY <1>1, <2>3, <3>3
    <3> HIDE DEF x, how
    <3> QED BY <1>1, <3>1, <3>4, SettleSettles
  <2> QED BY <2>2, <2>3
<1>7. Close => Settled
  BY <1>1 DEF Close, Settled, Ledger
<1>8. ASSUME NEW s \in Slots, WorkerError(s) PROVE Settled
  BY <1>3, <1>8 DEF WorkerError
<1>9. ASSUME NEW s \in Slots, Ready(s) PROVE Settled
  BY <1>2, <1>9 DEF Ready
<1>10. ASSUME NEW s \in Slots, Exit(s) PROVE Settled
  BY <1>3, <1>10 DEF Exit
<1>11. ASSUME NEW s \in Slots, Start(s) PROVE Settled
  BY <1>2, <1>11 DEF Start
<1>12. ASSUME NEW s \in Slots, NEW how, Answer(s, how) PROVE Settled
  BY <1>2, <1>12 DEF Answer
<1>13. CASE UNCHANGED poolVars
  BY <1>13 DEF poolVars, Settled
<1> QED BY <1>4, <1>5, <1>6, <1>7, <1>8, <1>9, <1>10, <1>11, <1>12, <1>13 DEF PoolNext, PoolStep

\* A query is answered once: whatever comes later, late answers of a worker, timers,
\* the end of the pool, changes nothing of it.
THEOREM AnsweredOnce == PoolSpec => [][Settled]_poolVars
<1>1. PoolSpec => []PoolIInv
  BY PoolInitInv, PoolNextInv, PTL DEF PoolSpec
<1> QED BY <1>1, AnswersStay, PTL DEF PoolSpec

-----------------------------------------------------------------------------
\* The steps of the cache.

\* A request that finds nothing that it can use begins to compute.
LEMMA OwnInv ==
  ASSUME CacheIInv, NEW r \in Requests, Own(r)
  PROVE  CacheIInv' /\ Range(cache') \subseteq Range(cache) /\ UNCHANGED <<content, got>>
<1>1. Miss(r) /\ inflight' = [inflight EXCEPT ![KeyOf[r]] = r] /\ UNCHANGED <<content, got>>
  BY DEF Own
<1>2. CacheBooks' /\ Range(cache') = Range(cache) \ {KeyOf[r]}
  BY <1>1, MissKeeps DEF CacheIInv
<1>3. Owners'
  BY OwnKeeps DEF CacheIInv
<1>4. \A k \in Keys : k # KeyOf[r] => inflight'[k] = inflight[k]
  BY <1>1 DEF CacheIInv, Owners
<1>5. Range(cache) \subseteq Keys
  BY RangeOfSeq DEF CacheIInv, CacheBooks
<1>6. Apart'
  BY <1>2, <1>4, <1>5 DEF Apart, CacheIInv
<1> QED BY <1>1, <1>2, <1>3, <1>6 DEF CacheIInv

\* A request that is not the owner of a computation: a hit, a waiter, one that is
\* turned away, one that gives up.
LEMMA IdleInv ==
  ASSUME CacheIInv, NEW r \in Requests, Idle(r)
  PROVE  /\ CacheIInv' /\ Range(cache') \subseteq Range(cache) /\ UNCHANGED content
         /\ \A x \in Requests : got'[x].is \in Kinds =>
              got'[x] = got[x]
              \/ (KeyOf[x] \in Range(cache) /\ got'[x] = content[KeyOf[x]])
<1>1. /\ got \in [Requests -> Answers] /\ Owners /\ CacheBooks
      /\ Refusal("busy") \in Answers /\ Refusal("timeout") \in Answers
      /\ Refusal("busy").is \notin Kinds /\ Refusal("timeout").is \notin Kinds
  BY CacheFacts DEF CacheIInv, Owners, Refusals, Refusal, Response, Kinds
<1>2. \A a \in Answers : Tell(r, a) => \A x \in Requests : got'[x] = IF x = r THEN a ELSE got[x]
  BY <1>1 DEF Tell
<1>3. ASSUME UNCHANGED inflight, Range(cache') \subseteq Range(cache) PROVE Apart'
  BY <1>3 DEF CacheIInv, Apart
<1>4. CASE Hit(r)
  <2>1. /\ doing[r] = "new" /\ KeyOf[r] \in Range(cache) /\ Tell(r, content[KeyOf[r]])
        /\ UNCHANGED <<content, inflight, subscribers>>
    BY <1>4 DEF Hit
  <2>2. CacheBooks' /\ Range(cache') = Range(cache)
    BY <1>1, <1>4, HitKeeps
  <2>3. content[KeyOf[r]] \in Answers
    BY CacheFacts DEF CacheIInv, CacheBooks
  <2>4. Owners'
    BY <1>1, <2>1, <2>3, TellKeeps
  <2>5. Apart'
    BY <1>3, <2>1, <2>2
  <2>6. \A x \in Requests : got'[x] = IF x = r THEN content[KeyOf[r]] ELSE got[x]
    BY <1>2, <2>1, <2>3
  <2> QED BY <2>1, <2>2, <2>4, <2>5, <2>6 DEF CacheIInv
<1>5. CASE Join(r)
  <2>1. /\ Miss(r) /\ doing[r] = "new" /\ KeyOf[r] \in Inflight /\ UNCHANGED <<content, inflight>>
    BY <1>5 DEF Join, Miss
  <2>2. CacheBooks' /\ Range(cache') = Range(cache) \ {KeyOf[r]}
    BY <1>1, <2>1, MissKeeps
  <2>3. Apart'
    BY <1>3, <2>1, <2>2
  <2>4. CASE Cardinality(subscribers[KeyOf[r]]) >= MaxWaiters
    <3>1. Tell(r, Refusal("busy")) /\ UNCHANGED subscribers
      BY <1>5, <2>4 DEF Join
    <3>2. Owners'
      BY <1>1, <2>1, <3>1, TellKeeps
    <3>3. \A x \in Requests : got'[x] = IF x = r THEN Refusal("busy") ELSE got[x]
      BY <1>1, <1>2, <3>1
    <3> QED BY <1>1, <2>1, <2>2, <2>3, <3>2, <3>3 DEF CacheIInv
  <2>5. CASE ~(Cardinality(subscribers[KeyOf[r]]) >= MaxWaiters)
    <3>1. /\ subscribers' = [subscribers EXCEPT ![KeyOf[r]] = @ \cup {r}]
          /\ doing' = [doing EXCEPT ![r] = "waiting"]
          /\ UNCHANGED got
      BY <1>5, <2>5 DEF Join
    <3>2. Cardinality(subscribers[KeyOf[r]]) < MaxWaiters
      <4>1. Cardinality(subscribers[KeyOf[r]]) \in Nat /\ MaxWaiters \in Nat
        <5>1. IsFiniteSet(subscribers[KeyOf[r]])
          BY <1>1, CacheFacts DEF Owners
        <5> QED BY <5>1, FS_CardinalityType, CacheAssumption
      <4> QED BY <2>5, <4>1
    <3>3. Owners'
      BY <1>1, <2>1, <3>1, <3>2, WaitKeeps
    <3> QED BY <2>1, <2>2, <2>3, <3>1, <3>3 DEF CacheIInv
  <2> QED BY <2>4, <2>5
<1>6. CASE TurnAway(r)
  <2>1. /\ Miss(r) /\ doing[r] = "new" /\ Tell(r, Refusal("busy"))
        /\ UNCHANGED <<content, inflight, subscribers>>
    BY <1>6 DEF TurnAway, Miss
  <2>2. CacheBooks' /\ Range(cache') = Range(cache) \ {KeyOf[r]}
    BY <1>1, <2>1, MissKeeps
  <2>3. Owners'
    BY <1>1, <2>1, TellKeeps
  <2>4. Apart'
    BY <1>3, <2>1, <2>2
  <2>5. \A x \in Requests : got'[x] = IF x = r THEN Refusal("busy") ELSE got[x]
    BY <1>1, <1>2, <2>1
  <2> QED BY <1>1, <2>1, <2>2, <2>3, <2>4, <2>5 DEF CacheIInv
<1>7. CASE GiveUp(r)
  <2>1. UNCHANGED <<cache, content, expired, totalBytes, inflight>> /\ Tell(r, Refusal("timeout"))
    BY <1>7 DEF GiveUp
  <2>2. CacheBooks'
    BY <1>1, <2>1 DEF CacheBooks, CacheExact, Bytes
  <2>3. Owners'
    BY <1>1, <1>7, GiveUpKeeps
  <2>4. Apart'
    BY <1>3, <2>1
  <2>5. \A x \in Requests : got'[x] = IF x = r THEN Refusal("timeout") ELSE got[x]
    BY <1>1, <1>2, <2>1
  <2> QED BY <1>1, <2>1, <2>2, <2>3, <2>4, <2>5 DEF CacheIInv
<1> QED BY <1>4, <1>5, <1>6, <1>7 DEF Idle

\* An owner that is done, sharing what it has or nothing.
LEMMA OwnerEnds ==
  ASSUME CacheIInv, NEW r \in Requests, NEW mine \in Answers, NEW told \in Answers,
         doing[r] = "computing", Finish(r, mine, told), CacheBooks',
         Range(cache') \subseteq Range(cache) \cup {KeyOf[r]}
  PROVE  /\ CacheIInv'
         /\ \A x \in Requests : got'[x] = got[x] \/ (KeyOf[x] = KeyOf[r] /\ got'[x] \in {mine, told})
<1>1. Owners
  BY DEF CacheIInv
<1>2. Owners'
  BY <1>1, FinishKeeps
<1>3. \A k \in Keys : inflight'[k] = IF k = KeyOf[r] THEN NoRequest ELSE inflight[k]
  BY <1>1 DEF Finish, Owners
<1>4. Range(cache') \subseteq Keys
  BY RangeOfSeq DEF CacheBooks
<1>5. Apart'
  BY <1>3, <1>4 DEF Apart, CacheIInv
<1>6. \A x \in subscribers[KeyOf[r]] : KeyOf[x] = KeyOf[r]
  BY <1>1, CacheFacts DEF Owners
<1>7. got' = [x \in Requests |-> IF x = r THEN mine
                                 ELSE IF x \in subscribers[KeyOf[r]] /\ told # Nothing THEN told
                                 ELSE got[x]]
  BY DEF Finish
<1> QED BY <1>2, <1>5, <1>6, <1>7 DEF CacheIInv

\* The end of a computation.
LEMMA ShareInv ==
  ASSUME CacheIInv, NEW r \in Requests, NEW response \in Answers, response.is \in Kinds,
         Share(r, response)
  PROVE  /\ CacheIInv'
         /\ \A x \in Requests : got'[x] = got[x] \/ (KeyOf[x] = KeyOf[r] /\ got'[x] = response)
         /\ \A k \in Range(cache') :
              (k \in Range(cache) /\ content'[k] = content[k])
              \/ (k = KeyOf[r] /\ content'[k] = response)
<1>1. CacheBooks /\ Owners /\ Apart
  BY DEF CacheIInv
<1>2. CacheBooks' /\ Range(cache') \subseteq Range(cache) \cup {KeyOf[r]}
  BY <1>1, ShareKeeps
<1>3. doing[r] = "computing" /\ Finish(r, response, response)
  BY DEF Share
<1>4. /\ CacheIInv'
      /\ \A x \in Requests : got'[x] = got[x] \/ (KeyOf[x] = KeyOf[r] /\ got'[x] \in {response, response})
  BY <1>2, <1>3, OwnerEnds
<1>5. ASSUME NEW k \in Range(cache')
      PROVE  (k \in Range(cache) /\ content'[k] = content[k])
             \/ (k = KeyOf[r] /\ content'[k] = response)
  <2>1. CASE response.is = "failure"
    BY <2>1 DEF Share
  <2>2. CASE response.is # "failure"
    <3>1. content' = [content EXCEPT ![KeyOf[r]] = response]
      BY <2>2 DEF Share
    <3>2. k \in Keys /\ content \in [Keys -> Answers]
      BY <1>1, <1>2, RangeOfSeq DEF CacheBooks
    <3> QED BY <1>2, <3>1, <3>2
  <2> QED BY <2>1, <2>2
<1> QED BY <1>4, <1>5

LEMMA ShareNothingInv ==
  ASSUME CacheIInv, NEW r \in Requests, NEW answer \in Answers, ShareNothing(r, answer)
  PROVE  /\ CacheIInv' /\ UNCHANGED <<cache, content>>
         /\ \A x \in Requests : got'[x] \in {got[x], Nothing} \/ (KeyOf[x] = KeyOf[r] /\ got'[x] = answer)
<1>1. /\ doing[r] = "computing" /\ Finish(r, answer, Nothing)
      /\ UNCHANGED <<cache, content, expired, totalBytes>>
  BY DEF ShareNothing
<1>2. CacheBooks'
  BY <1>1 DEF CacheIInv, CacheBooks, CacheExact, Bytes
<1>3. Nothing \in Answers /\ Range(cache') \subseteq Range(cache) \cup {KeyOf[r]}
  BY <1>1, CacheFacts
<1>4. /\ CacheIInv'
      /\ \A x \in Requests : got'[x] = got[x] \/ (KeyOf[x] = KeyOf[r] /\ got'[x] \in {answer, Nothing})
  BY <1>1, <1>2, <1>3, OwnerEnds
<1> QED BY <1>1, <1>4

LEMMA AnswerAloneInv ==
  ASSUME CacheIInv, NEW r \in Requests, NEW answer \in Answers, AnswerAlone(r, answer)
  PROVE  /\ CacheIInv' /\ UNCHANGED <<cache, content>>
         /\ \A x \in Requests : got'[x] = got[x] \/ (KeyOf[x] = KeyOf[r] /\ got'[x] = answer)
<1>1. /\ doing[r] = "solo" /\ Tell(r, answer) /\ Owners
      /\ UNCHANGED <<cache, content, expired, totalBytes, inflight, subscribers>>
  BY DEF AnswerAlone, CacheIInv
<1>2. CacheBooks' /\ Apart'
  BY <1>1 DEF CacheIInv, CacheBooks, CacheExact, Bytes, Apart
<1>3. Owners'
  BY <1>1, TellKeeps
<1>4. \A x \in Requests : got'[x] = IF x = r THEN answer ELSE got[x]
  BY <1>1 DEF Tell, Owners
<1> QED BY <1>1, <1>2, <1>3, <1>4 DEF CacheIInv

\* Time, which the requests do not see.
LEMMA TimeInv ==
  ASSUME CacheIInv, Sweep \/ \E k \in Keys : Expire(k)
  PROVE  CacheIInv' /\ Range(cache') \subseteq Range(cache) /\ UNCHANGED <<content, got>>
<1>1. UNCHANGED <<content, inflight, subscribers, doing, got>>
  BY DEF Sweep, Expire
<1>2. CacheBooks' /\ Range(cache') \subseteq Range(cache)
  <2>1. CASE Sweep
    BY <2>1, SweepKeeps DEF CacheIInv
  <2>2. ASSUME NEW k \in Keys, Expire(k) PROVE CacheBooks' /\ Range(cache') \subseteq Range(cache)
    BY <2>2 DEF Expire, CacheIInv, CacheBooks, CacheExact, Bytes
  <2> QED BY <2>1, <2>2
<1>3. Owners'
  BY <1>1 DEF CacheIInv, Owners, Inflight
<1>4. Apart'
  BY <1>1, <1>2 DEF CacheIInv, Apart
<1> QED BY <1>1, <1>2, <1>3, <1>4 DEF CacheIInv

-----------------------------------------------------------------------------
\* Together.

\* A read uses the pool as its callers may: each of its steps is one of the pool, or
\* leaves it as it is.
LEMMA ReadIsPool == ReadNext => [PoolNext]_poolVars
<1>1. Requests \subseteq Queries
  BY ReadPathAssumption
<1>2. ASSUME NEW r \in Requests, Begin(r) PROVE PoolNext
  BY <1>1, <1>2 DEF Begin, PoolNext
<1>3. PoolStep \/ Close => PoolNext
  BY DEF PoolNext
<1> QED BY <1>2, <1>3 DEF ReadNext

\* The answers that are there stay true, and those that are given are.
LEMMA ToldKeeps ==
  ASSUME Told, Settled,
         \A k \in Range(cache') : (k \in Range(cache) /\ content'[k] = content[k])
                                  \/ Honest(content'[k], k, outcome'),
         \A x \in Requests : got'[x] = got[x] \/ Honest(got'[x], KeyOf[x], outcome')
  PROVE  Told'
<1>1. Requests \subseteq Queries
  BY ReadPathAssumption
<1>2. \A a, k : Honest(a, k, outcome) => Honest(a, k, outcome')
  BY <1>1 DEF Honest, Settled
<1>3. ASSUME NEW k \in Range(cache') PROVE Honest(content'[k], k, outcome')
  <2>1. k \in Range(cache) => Honest(content[k], k, outcome')
    BY <1>2 DEF Told
  <2> QED BY <1>3, <2>1
<1>4. ASSUME NEW x \in Requests PROVE Honest(got'[x], KeyOf[x], outcome')
  <2>1. Honest(got[x], KeyOf[x], outcome')
    BY <1>2 DEF Told
  <2> QED BY <1>4, <2>1
<1> QED BY <1>3, <1>4 DEF Told

LEMMA EndInv ==
  ASSUME CacheIInv, Told, Settled, NEW r \in Requests, End(r), UNCHANGED poolVars,
         outcome \in [Queries -> Outcomes \cup {"none"}]
  PROVE  CacheIInv' /\ Told'
<1>1. outcome' = outcome /\ r \in Queries
  BY ReadPathAssumption DEF poolVars
<1>2. CASE QueryFailed(r) \/ Left(r)
  <2> DEFINE a == Refusal("error")
  <2>1. a \in Answers /\ a.is \notin Kinds
    BY CacheFacts DEF Refusals, Refusal, Response, Kinds
  <2>2. Nothing.is \notin Kinds
    BY DEF Nothing, Response, Kinds
  <2>3. \A k : Honest(a, k, outcome') /\ Honest(Nothing, k, outcome')
    BY <2>1, <2>2 DEF Honest
  <2>4. ShareNothing(r, a) \/ AnswerAlone(r, a)
    BY <1>2 DEF End
  <2> HIDE DEF a
  <2>5. CASE ShareNothing(r, a)
    <3>1. /\ CacheIInv' /\ UNCHANGED <<cache, content>>
          /\ \A x \in Requests : got'[x] \in {got[x], Nothing} \/ (KeyOf[x] = KeyOf[r] /\ got'[x] = a)
      BY <2>1, <2>5, ShareNothingInv
    <3>2. Told'
      BY <2>3, <3>1, ToldKeeps
    <3> QED BY <3>1, <3>2
  <2>6. CASE AnswerAlone(r, a)
    <3>1. /\ CacheIInv' /\ UNCHANGED <<cache, content>>
          /\ \A x \in Requests : got'[x] = got[x] \/ (KeyOf[x] = KeyOf[r] /\ got'[x] = a)
      BY <2>1, <2>6, AnswerAloneInv
    <3>2. Told'
      BY <2>3, <3>1, ToldKeeps
    <3> QED BY <3>1, <3>2
  <2> QED BY <2>4, <2>5, <2>6
<1>3. CASE ~(QueryFailed(r) \/ Left(r))
  <2>1. PICK response \in Responses(r) :
          Share(r, response) \/ ShareNothing(r, response) \/ AnswerAlone(r, response)
    BY <1>3 DEF End
  <2>2. outcome[r] \in {"rows", "error"}
    BY <1>1, <1>3 DEF End, QueryFailed, Left, Outcomes
  <2>3. /\ response.is \in Kinds /\ response.by = r /\ response \in Answers
        /\ response.is = "rows" => outcome[r] = "rows"
    BY <2>2, CacheFacts DEF Responses, Response, Kinds
  <2>4. Honest(response, KeyOf[r], outcome')
    BY <1>1, <2>2, <2>3 DEF Honest
  <2>5. \A k : Honest(Nothing, k, outcome')
    BY DEF Nothing, Response, Kinds, Honest
  <2>6. CASE Share(r, response)
    <3>1. /\ CacheIInv'
          /\ \A x \in Requests : got'[x] = got[x] \/ (KeyOf[x] = KeyOf[r] /\ got'[x] = response)
          /\ \A k \in Range(cache') :
               (k \in Range(cache) /\ content'[k] = content[k])
               \/ (k = KeyOf[r] /\ content'[k] = response)
      BY <2>3, <2>6, ShareInv
    <3>2. Told'
      BY <2>4, <3>1, ToldKeeps
    <3> QED BY <3>1, <3>2
  <2>7. CASE ShareNothing(r, response)
    <3>1. /\ CacheIInv' /\ UNCHANGED <<cache, content>>
          /\ \A x \in Requests :
               got'[x] \in {got[x], Nothing} \/ (KeyOf[x] = KeyOf[r] /\ got'[x] = response)
      BY <2>3, <2>7, ShareNothingInv
    <3>2. Told'
      BY <2>4, <2>5, <3>1, ToldKeeps
    <3> QED BY <3>1, <3>2
  <2>8. CASE AnswerAlone(r, response)
    <3>1. /\ CacheIInv' /\ UNCHANGED <<cache, content>>
          /\ \A x \in Requests : got'[x] = got[x] \/ (KeyOf[x] = KeyOf[r] /\ got'[x] = response)
      BY <2>3, <2>8, AnswerAloneInv
    <3>2. Told'
      BY <2>4, <3>1, ToldKeeps
    <3> QED BY <3>1, <3>2
  <2> QED BY <2>1, <2>6, <2>7, <2>8
<1> QED BY <1>2, <1>3

LEMMA ReadInitInv == ReadInit => ReadIInv
<1> SUFFICES ASSUME ReadInit PROVE ReadIInv
  OBVIOUS
<1>1. PoolIInv /\ CacheIInv
  BY PoolInitInv, CacheInitInv DEF ReadInit
<1>2. Nothing.is \notin Kinds
  BY DEF Nothing, Response, Kinds
<1>3. Range(cache) = {} /\ \A r \in Requests : got[r] = Nothing
  BY EmptyRange DEF ReadInit, CacheInit
<1>4. Told
  BY <1>2, <1>3 DEF Told, Honest
<1> QED BY <1>1, <1>4 DEF ReadIInv

LEMMA ReadNextInv == ReadIInv /\ [ReadNext]_readVars => ReadIInv'
<1> SUFFICES ASSUME ReadIInv, [ReadNext]_readVars PROVE ReadIInv'
  OBVIOUS
<1>1. PoolIInv /\ CacheIInv /\ Told
  BY DEF ReadIInv
<1>2. [PoolNext]_poolVars
  BY ReadIsPool DEF readVars
<1>3. PoolIInv' /\ Settled
  BY <1>1, <1>2, PoolNextInv, AnswersStay
<1>4. outcome \in [Queries -> Outcomes \cup {"none"}]
  BY <1>1 DEF PoolIInv, Ledger
<1>5. ASSUME NEW r \in Requests, Begin(r) PROVE CacheIInv' /\ Told'
  <2>1. CASE Own(r)
    <3>1. CacheIInv' /\ Range(cache') \subseteq Range(cache) /\ UNCHANGED <<content, got>>
      BY <1>1, <2>1, OwnInv
    <3>2. Told'
      BY <1>1, <1>3, <3>1, ToldKeeps
    <3> QED BY <3>1, <3>2
  <2>2. CASE ComputeAlone(r)
    <3>1. UNCHANGED <<cache, content, expired, totalBytes, inflight, got>>
      BY <2>2 DEF ComputeAlone
    <3>2. CacheBooks' /\ Apart'
      BY <1>1, <3>1 DEF CacheIInv, CacheBooks, CacheExact, Bytes, Apart
    <3>3. Owners'
      BY <1>1, <2>2, ComputeAloneKeeps DEF CacheIInv
    <3>4. Told'
      BY <1>1, <1>3, <3>1, ToldKeeps
    <3> QED BY <3>2, <3>3, <3>4 DEF CacheIInv
  <2> QED BY <1>5, <2>1, <2>2 DEF Begin
<1>6. ASSUME NEW r \in Requests, Idle(r) PROVE CacheIInv' /\ Told'
  <2>1. /\ CacheIInv' /\ Range(cache') \subseteq Range(cache) /\ UNCHANGED content
        /\ \A x \in Requests : got'[x].is \in Kinds =>
             got'[x] = got[x]
             \/ (KeyOf[x] \in Range(cache) /\ got'[x] = content[KeyOf[x]])
    BY <1>1, <1>6, IdleInv
  <2>2. \A a, k : Honest(a, k, outcome) => Honest(a, k, outcome')
    BY <1>3, ReadPathAssumption DEF Honest, Settled
  <2>3. ASSUME NEW x \in Requests PROVE got'[x] = got[x] \/ Honest(got'[x], KeyOf[x], outcome')
    <3>1. CASE got'[x].is \notin Kinds
      BY <3>1 DEF Honest
    <3>2. CASE KeyOf[x] \in Range(cache) /\ got'[x] = content[KeyOf[x]]
      BY <1>1, <2>2, <3>2 DEF Told
    <3> QED BY <2>1, <3>1, <3>2
  <2>4. Told'
    BY <1>1, <1>3, <2>1, <2>3, ToldKeeps
  <2> QED BY <2>1, <2>4
<1>7. ASSUME NEW r \in Requests, End(r), UNCHANGED poolVars PROVE CacheIInv' /\ Told'
  BY <1>1, <1>3, <1>4, <1>7, EndInv
<1>8. ASSUME Sweep \/ \E k \in Keys : Expire(k) PROVE CacheIInv' /\ Told'
  <2>1. CacheIInv' /\ Range(cache') \subseteq Range(cache) /\ UNCHANGED <<content, got>>
    BY <1>1, <1>8, TimeInv
  <2>2. Told'
    BY <1>1, <1>3, <2>1, ToldKeeps
  <2> QED BY <2>1, <2>2
<1>9. ASSUME UNCHANGED cacheVars PROVE CacheIInv' /\ Told'
  <2>1. UNCHANGED <<cache, content, expired, totalBytes, inflight, subscribers, doing, got>>
    BY <1>9 DEF cacheVars
  <2>2. CacheIInv'
    BY <1>1, <2>1 DEF CacheIInv, CacheBooks, CacheExact, Bytes, Apart, Owners, Inflight
  <2>3. Told'
    BY <1>1, <1>3, <2>1, ToldKeeps
  <2> QED BY <2>2, <2>3
<1>10. CacheIInv' /\ Told'
  BY <1>5, <1>6, <1>7, <1>8, <1>9 DEF ReadNext, readVars
<1> QED BY <1>3, <1>10 DEF ReadIInv

\* The invariant of the reads.
LEMMA ReadSound == ReadSpec => []ReadIInv
BY ReadInitInv, ReadNextInv, PTL DEF ReadSpec

\* The cache uses the pool as a pool may be used: the pool of a read is a pool, so
\* that all that is true of pools is true of it.
THEOREM ReadsImplementPool == ReadSpec => PoolSpec
<1>1. ReadInit => PoolInit
  BY DEF ReadInit
<1>2. [ReadNext]_readVars => [PoolNext]_poolVars
  BY ReadIsPool DEF readVars
<1> QED BY <1>1, <1>2, PTL DEF ReadSpec, PoolSpec

\* ReadPoolInv of a read, as the run checks it.
THEOREM PoolOfReads == ReadSpec => []ReadPoolInv
BY ReadSound, ReadSuffices, PTL

\* CacheInv: however requests arrive, wait, leave and end, and entries expire, the
\* cache counts what it has and keeps its bounds, a key has one computation, and who
\* waits, waits for one that is running.
THEOREM CacheSound == ReadSpec => []CacheInv
BY ReadSound, ReadSuffices, PTL

\* SharedIsTrue: nobody is given, from the cache or by another's computation, what
\* was made of a query that ran into a limit, or of another key, or other rows than
\* those of the query.
THEOREM SharedSound == ReadSpec => []SharedIsTrue
BY ReadSound, ReadSuffices, PTL

-----------------------------------------------------------------------------
(***************************************************************************)
(* The job queue.                                                          *)
(***************************************************************************)

\* The invariant of the run, part by part.  Every accepted job is in one place.
Placed(jobs, line, set, busy) ==
  /\ jobs \in Seq(Jobs) /\ line \in Seq(Jobs) /\ set \subseteq Jobs /\ busy \subseteq Jobs
  /\ IsInjective(jobs) /\ IsInjective(line)
  /\ Range(jobs) = Range(line) \cup set \cup busy
  /\ Range(line) \cap set = {} /\ (Range(line) \cup set) \cap busy = {}
\* The worker takes what it has room for.
Manned(line, busy, on) ==
  Cardinality(busy) <= Concurrency /\ (on /\ line # <<>> => Cardinality(busy) = Concurrency)
Bounded(jobs, bytes) == Len(jobs) <= MaxJobs /\ bytes = SumOf(jobs) /\ bytes <= MaxJobBytes
Tried(jobs, made) == made \in [Jobs -> Nat] /\ \A j \in Range(jobs) : made[j] < Attempts[j]
\* A job that was accepted is there, or has ended, once.
Counted(jobs, ins, done, bad) ==
  /\ ins \in [Jobs -> Nat] /\ done \in [Jobs -> Nat] /\ bad \in [Jobs -> Nat]
  /\ \A j \in Jobs : ins[j] = done[j] + bad[j] + IF j \in Range(jobs) THEN 1 ELSE 0
KeptLists == {f \in [jobs : Seq(Jobs), bytes : Nat] :
                Len(f.jobs) <= MaxFailed /\ f.bytes = SumOf(f.jobs) /\ f.bytes <= MaxFailedBytes}

JobsIInv ==
  /\ Placed(accepted, waiting, timers, executing) /\ Manned(waiting, executing, Works)
  /\ Bounded(accepted, acceptedBytes) /\ Tried(accepted, attempts)
  /\ Counted(accepted, added, completed, failures)
  /\ [jobs |-> kept, bytes |-> keptBytes] \in KeptLists
  /\ running \in BOOLEAN /\ shut \in BOOLEAN
  /\ shut => Range(accepted) = executing

\* Numbers of bytes are numbers.
LEMMA SumIsNat == \A q \in Seq(Jobs) : SumOf(q) \in Nat
<1> SUFFICES ASSUME NEW q \in Seq(Jobs) PROVE SumOf(q) \in Nat
  OBVIOUS
<1>1. <<>> \in Seq(Jobs) /\ SizeOf \in [Jobs -> Nat]
  BY EmptySeq, JobsAssumption
<1> QED BY <1>1, TotalConcat DEF SumOf

LEMMA SumOfTwo ==
  ASSUME NEW p \in Seq(Jobs), NEW q \in Seq(Jobs)
  PROVE  SumOf(p \o q) = SumOf(p) + SumOf(q)
<1>1. SizeOf \in [Jobs -> Nat]
  BY JobsAssumption
<1> QED BY <1>1, TotalConcat DEF SumOf

\* It is the invariant of the run.
LEMMA JobsSuffice == JobsIInv => QueueInv
<1> SUFFICES ASSUME JobsIInv PROVE QueueInv
  OBVIOUS
<1>1. /\ kept \in Seq(Jobs) /\ keptBytes \in Nat
      /\ Len(kept) <= MaxFailed /\ keptBytes = SumOf(kept) /\ keptBytes <= MaxFailedBytes
  <2> DEFINE f == [jobs |-> kept, bytes |-> keptBytes]
  <2>1. f \in KeptLists /\ f.jobs = kept /\ f.bytes = keptBytes
    BY DEF JobsIInv
  <2> HIDE DEF f
  <2> QED BY <2>1 DEF KeptLists
<1>2. acceptedBytes \in Nat
  BY SumIsNat DEF JobsIInv, Placed, Bounded
<1>3. QueueTypeOK
  BY <1>1, <1>2 DEF JobsIInv, Placed, Tried, Counted, QueueTypeOK
<1>4. /\ IsInjective(accepted) /\ IsInjective(waiting)
      /\ Range(accepted) = Range(waiting) \cup timers \cup executing
      /\ Range(waiting) \cap timers = {} /\ (Range(waiting) \cup timers) \cap executing = {}
  BY DEF JobsIInv, Placed
<1>5. /\ \A j \in Jobs :
           added[j] = completed[j] + failures[j] + IF j \in Range(accepted) THEN 1 ELSE 0
      /\ Len(accepted) <= MaxJobs /\ acceptedBytes = SumOf(accepted) /\ acceptedBytes <= MaxJobBytes
      /\ \A j \in Range(accepted) : attempts[j] < Attempts[j]
      /\ shut => Range(accepted) = executing
  BY DEF JobsIInv, Counted, Bounded, Tried
<1>6. /\ Cardinality(executing) <= Concurrency
      /\ Works /\ waiting # <<>> => Cardinality(executing) = Concurrency
  BY DEF JobsIInv, Manned
<1> QED BY <1>1, <1>3, <1>4, <1>5, <1>6 DEF QueueInv

\* What runs is finite, and one less than it was without one of them.
LEMMA BusyIsFinite ==
  ASSUME NEW jobs, NEW line, NEW set, NEW busy, Placed(jobs, line, set, busy)
  PROVE  /\ IsFiniteSet(busy) /\ Cardinality(busy) \in Nat
         /\ \A j \in busy : Cardinality(busy \ {j}) <= Cardinality(busy)
<1>1. IsFiniteSet(Range(jobs))
  BY RangeCardinality DEF Placed
<1>2. busy \subseteq Range(jobs)
  BY DEF Placed
<1>3. IsFiniteSet(busy) /\ Cardinality(busy) \in Nat
  BY <1>1, <1>2, FS_Subset, FS_CardinalityType
<1>4. ASSUME NEW j \in busy PROVE Cardinality(busy \ {j}) <= Cardinality(busy)
  <2>1. busy \ {j} \subseteq busy
    OBVIOUS
  <2> QED BY <1>3, <2>1, FS_Subset
<1> QED BY <1>3, <1>4

\* processNext: jobs go from the line to the worker, nobody is lost, and then either
\* the worker is full or nobody waits.
LEMMA ProcessNextKeeps ==
  ASSUME NEW jobs, NEW line, NEW set, NEW busy, NEW on \in BOOLEAN,
         Placed(jobs, line, set, busy), Cardinality(busy) <= Concurrency,
         ProcessNext(line, busy, on)
  PROVE  /\ Placed(jobs, waiting', set, executing') /\ Manned(waiting', executing', on)
         /\ ~on \/ line = <<>> => executing' = busy
<1> DEFINE room == IF on THEN Concurrency - Cardinality(busy) ELSE 0
           n == IF room <= 0 THEN 0 ELSE IF room < Len(line) THEN room ELSE Len(line)
           front == SubSeq(line, 1, n)
           rest == SubSeq(line, n + 1, Len(line))
<1>1. /\ executing' = busy \cup Range(front) /\ waiting' = rest
  BY DEF ProcessNext
<1>2. /\ line \in Seq(Jobs) /\ IsInjective(line) /\ Len(line) \in Nat
      /\ IsFiniteSet(busy) /\ Cardinality(busy) \in Nat /\ Concurrency \in Nat
  BY BusyIsFinite, LenProperties, QueueLimitsAssumption DEF Placed
<1>3. room \in Nat /\ n \in 0..Len(line) /\ n <= room
      /\ (room < Len(line) => n = room) /\ (~(room < Len(line)) => n = Len(line))
  BY <1>2
<1> HIDE DEF n
<1>4. /\ front \in Seq(Jobs) /\ rest \in Seq(Jobs)
      /\ Len(front) = n /\ Len(rest) = Len(line) - n
  BY <1>2, <1>3, Cut
<1>5. Range(front) \cup Range(rest) = Range(line)
  BY <1>2, <1>3, Cut
<1>6. IsInjective(front) /\ IsInjective(rest)
  BY <1>2, <1>3, Cut
<1>7. Range(front) \cap Range(rest) = {}
  BY <1>2, <1>3, Cut
<1>8. Range(front) \subseteq Jobs
  BY <1>4, RangeOfSeq
<1> HIDE DEF front, rest
<1>9. Placed(jobs, waiting', set, executing')
  BY <1>1, <1>4, <1>5, <1>6, <1>7, <1>8 DEF Placed
<1>10. Cardinality(executing') = Cardinality(busy) + n
  <2>1. IsFiniteSet(Range(front)) /\ Cardinality(Range(front)) = n
    BY <1>4, <1>6, RangeCardinality
  <2>2. busy \cap Range(front) = {}
    BY <1>5 DEF Placed
  <2>3. Cardinality(busy \cup Range(front)) = Cardinality(busy) + Cardinality(Range(front))
    <3>1. Cardinality(busy \cap Range(front)) = 0
      BY <2>2, FS_EmptySet
    <3>2. Cardinality(busy \cup Range(front))
            = Cardinality(busy) + Cardinality(Range(front)) - Cardinality(busy \cap Range(front))
      BY <1>2, <2>1, FS_Union
    <3>3. Cardinality(Range(front)) \in Nat
      BY <1>3, <2>1
    <3> QED BY <1>2, <3>1, <3>2, <3>3
  <2> QED BY <1>1, <2>1, <2>3
<1>11. Manned(waiting', executing', on)
  <2>1. CASE on
    <3>1. room = Concurrency - Cardinality(busy)
      BY <2>1
    <3>2. Cardinality(executing') <= Concurrency
      BY <1>2, <1>3, <1>10, <3>1
    <3>3. rest # <<>> => n # Len(line)
      BY <1>2, <1>4
    <3>4. n # Len(line) => Cardinality(executing') = Concurrency
      BY <1>2, <1>3, <1>10, <3>1
    <3> QED BY <1>1, <3>2, <3>3, <3>4 DEF Manned
  <2>2. CASE ~on
    <3>1. Cardinality(executing') <= Concurrency
      BY <1>2, <1>3, <1>10, <2>2
    <3> QED BY <2>2, <3>1 DEF Manned
  <2> QED BY <2>1, <2>2
<1>12. ASSUME ~on \/ line = <<>> PROVE executing' = busy
  <2>1. n = 0
    BY <1>2, <1>3, <1>12, EmptySeq
  <2>2. front = <<>>
    BY <2>1, <1>4
  <2> QED BY <1>1, <2>2, EmptyRange
<1> QED BY <1>9, <1>11, <1>12

-----------------------------------------------------------------------------
\* The failures that are kept.

\* finishFailure pushes out the oldest until the rest is within the limits.
LEMMA TrimmedKeeps ==
  ASSUME NEW q \in Seq(Jobs), NEW bytes, bytes = SumOf(q), NEW limit \in 0..MaxFailed
  PROVE  Trimmed([jobs |-> q, bytes |-> bytes], limit) \in KeptLists
<1> DEFINE f == [jobs |-> q, bytes |-> bytes]
           fits(n) == Len(f.jobs) - n <= limit /\ f.bytes - SumOf(SubSeq(f.jobs, 1, n)) <= MaxFailedBytes
           S == {n \in 0..Len(q) : fits(n)}
           n == Pushed(f, limit)
           rest == SubSeq(q, n + 1, Len(q))
<1>1. /\ Len(q) \in Nat /\ f.jobs = q /\ f.bytes = bytes /\ SizeOf \in [Jobs -> Nat]
      /\ MaxFailedBytes \in Nat /\ MaxFailed \in Nat /\ bytes \in Nat
  BY LenProperties, SumIsNat, JobsAssumption, QueueLimitsAssumption
<1>2. Len(q) \in S
  <2>1. SubSeq(q, 1, Len(q)) = q
    BY SubSeqFull
  <2>2. Len(q) - Len(q) = 0 /\ bytes - bytes = 0 /\ Len(q) \in 0..Len(q)
    BY <1>1
  <2> HIDE DEF f
  <2>3. Len(f.jobs) - Len(q) <= limit
    BY <1>1, <2>2
  <2>4. f.bytes - SumOf(SubSeq(f.jobs, 1, Len(q))) = bytes - bytes
    BY <1>1, <2>1
  <2>5. f.bytes - SumOf(SubSeq(f.jobs, 1, Len(q))) <= MaxFailedBytes
    BY <1>1, <2>2, <2>4
  <2> QED BY <2>2, <2>3, <2>5
<1>3. \E m \in 0..Len(q) : fits(m) /\ \A i \in 0..(m - 1) : ~fits(i)
  <2>1. S \in SUBSET Nat /\ S # {}
    BY <1>1, <1>2
  <2>2. PICK m \in S : \A i \in S : m <= i
    <3> HIDE DEF S
    <3> QED BY <2>1, LeastOf
  <2>3. \A i \in 0..(m - 1) : i \in 0..Len(q) /\ ~(m <= i)
    BY <1>1, <2>2
  <2> HIDE DEF fits
  <2>4. m \in 0..Len(q) /\ fits(m)
    BY <2>2
  <2> QED BY <2>2, <2>3, <2>4
<1>4. n \in 0..Len(q) /\ fits(n)
  <2>1. n = CHOOSE m \in 0..Len(q) : fits(m) /\ \A i \in 0..(m - 1) : ~fits(i)
    BY <1>1 DEF Pushed
  <2> HIDE DEF n, fits
  <2> QED BY <1>3, <2>1
<1>5. Trimmed(f, limit) = [jobs |-> rest, bytes |-> bytes - SumOf(SubSeq(q, 1, n))]
  BY <1>1 DEF Trimmed
<1>6. Len(q) - n <= limit /\ bytes - SumOf(SubSeq(q, 1, n)) <= MaxFailedBytes
  BY <1>1, <1>4
<1> HIDE DEF n, f, fits
<1>7. rest \in Seq(Jobs) /\ Len(rest) = Len(q) - n
  BY <1>4, Cut
<1>8. /\ SumOf(SubSeq(q, 1, n)) \in Nat /\ SumOf(rest) \in Nat
      /\ SumOf(q) = SumOf(SubSeq(q, 1, n)) + SumOf(rest)
  BY <1>1, <1>4, TotalCut DEF SumOf
<1> HIDE DEF rest
<1>9. /\ bytes - SumOf(SubSeq(q, 1, n)) = SumOf(rest) /\ SumOf(rest) <= MaxFailedBytes
      /\ Len(rest) <= MaxFailed
  BY <1>1, <1>4, <1>6, <1>7, <1>8
<1>10. [jobs |-> rest, bytes |-> SumOf(rest)] \in KeptLists
  BY <1>7, <1>8, <1>9 DEF KeptLists
<1> QED BY <1>5, <1>9, <1>10 DEF f

LEMMA KeepOneKeeps ==
  ASSUME NEW j \in Jobs, NEW f \in KeptLists
  PROVE  KeepOne(j, f) \in KeptLists
<1> DEFINE keeps == KeepFailed[j] > 0 /\ SizeOf[j] <= MaxFailedBytes
           limit == IF KeepFailed[j] > 0 THEN KeepFailed[j] ELSE MaxFailed
           q == IF keeps THEN Append(f.jobs, j) ELSE f.jobs
           bytes == IF keeps THEN f.bytes + SizeOf[j] ELSE f.bytes
<1>1. /\ f \in [jobs : Seq(Jobs), bytes : Nat] /\ f = [jobs |-> f.jobs, bytes |-> f.bytes]
      /\ f.jobs \in Seq(Jobs) /\ f.bytes = SumOf(f.jobs)
  BY DEF KeptLists
<1>2. limit \in 0..MaxFailed
  BY JobsAssumption, QueueLimitsAssumption
<1>3. q \in Seq(Jobs) /\ bytes = SumOf(q)
  <2>1. /\ Append(f.jobs, j) \in Seq(Jobs)
        /\ SumOf(Append(f.jobs, j)) = SumOf(f.jobs) + SizeOf[j]
    <3>1. f.jobs \in Seq(Jobs) /\ SizeOf \in [Jobs -> Nat]
      BY <1>1, JobsAssumption
    <3>2. Append(f.jobs, j) \in Seq(Jobs)
      BY <3>1, AppendProperties
    <3>3. Total(SizeOf, Append(f.jobs, j)) = Total(SizeOf, f.jobs) + SizeOf[j]
      BY <3>1, TotalAppend
    <3> QED BY <3>2, <3>3 DEF SumOf
  <2> QED BY <1>1, <2>1
<1>4. KeepOne(j, f) = Trimmed([jobs |-> q, bytes |-> bytes], limit)
  BY <1>1 DEF KeepOne
<1> HIDE DEF q, bytes, limit
<1> QED BY <1>2, <1>3, <1>4, TrimmedKeeps

\* What KeepEach chooses.
IsKept(q, first, f) == f = [n \in 0..Len(q) |-> IF n = 0 THEN first ELSE KeepOne(q[n], f[n - 1])]

\* However many jobs fail at once, what is kept of them is within the limits.
LEMMA KeepEachKeeps ==
  ASSUME NEW q \in Seq(Jobs), NEW first \in KeptLists
  PROVE  KeepEach(q, first) \in KeptLists
<1> DEFINE N == Len(q)
           T == KeptLists
           g == [n \in 1..N |-> [t \in T |-> KeepOne(q[n], t)]]
<1>1. N \in Nat /\ \A n \in 1..N : q[n] \in Jobs
  BY LenProperties
<1>2. \A n \in 1..N : \A t \in T : KeepOne(q[n], t) \in T
  BY <1>1, KeepOneKeeps
<1>3. StepsOf(g, N, T)
  <2> HIDE DEF T, N
  <2> QED BY <1>2 DEF StepsOf
<1>4. PICK f \in [0..N -> T] : f[0] = first /\ \A n \in 1..N : f[n] = g[n][f[n-1]]
  <2> HIDE DEF g, N, T
  <2>1. first \in T
    BY DEF T
  <2>2. PICK f : Iterates(f, g, N, first, T)
    BY <1>1, <1>3, <2>1, Recursion
  <2> QED BY <2>2 DEF Iterates
<1>5. ASSUME NEW n \in 0..N, n # 0 PROVE f[n] = KeepOne(q[n], f[n-1])
  <2>1. n \in 1..N /\ n - 1 \in 0..N
    BY <1>1, <1>5
  <2> HIDE DEF T, N
  <2>2. f[n-1] \in T
    BY <2>1
  <2>3. g[n][f[n-1]] = KeepOne(q[n], f[n-1])
    BY <2>1, <2>2
  <2> QED BY <1>4, <2>1, <2>3
<1>6. IsKept(q, first, f)
  <2> HIDE DEF g, T
  <2>1. \A n \in 0..N : f[n] = IF n = 0 THEN first ELSE KeepOne(q[n], f[n-1])
    BY <1>4, <1>5
  <2> QED BY <2>1 DEF IsKept
<1> DEFINE c == CHOOSE h : IsKept(q, first, h)
<1>7. IsKept(q, first, c)
  BY <1>6
<1>8. \A n \in 0..N : c[n] = IF n = 0 THEN first ELSE KeepOne(q[n], c[n-1])
  BY <1>7 DEF IsKept
<1>9. KeepEach(q, first) = c[N]
  BY DEF KeepEach, IsKept
<1>10. \A n \in 0..N : n \in {m \in 0..N : c[m] \in T}
  <2> HIDE DEF c
  <2> DEFINE S == {m \in 0..N : c[m] \in T}
  <2>1. 0 \in S
    BY <1>1, <1>8
  <2>2. ASSUME NEW n \in 0..(N-1), n \in S PROVE n + 1 \in S
    <3>1. n + 1 \in 1..N /\ n + 1 \in 0..N /\ n + 1 # 0 /\ (n + 1) - 1 = n
      BY <1>1
    <3>2. c[n + 1] = KeepOne(q[n + 1], c[n])
      BY <1>8, <3>1
    <3>3. c[n] \in T
      BY <2>2
    <3> HIDE DEF T
    <3>4. c[n + 1] \in T
      BY <1>2, <3>1, <3>2, <3>3
    <3> QED BY <3>1, <3>4
  <2> HIDE DEF S, N, T
  <2>3. \A n \in 0..N : n \in S
    BY <1>1, <2>1, <2>2, UpTo
  <2> QED BY <2>3 DEF S
<1> QED BY <1>1, <1>9, <1>10

\* EndInFailure for the jobs that end.
LEMMA EndInFailureKeeps ==
  ASSUME JobsIInv, NEW q \in Seq(Jobs), EndInFailure(q)
  PROVE  /\ [jobs |-> kept', bytes |-> keptBytes'] \in KeptLists
         /\ failures' \in [Jobs -> Nat]
         /\ \A j \in Jobs : failures'[j] = failures[j] + IF j \in Range(q) THEN 1 ELSE 0
<1> DEFINE first == [jobs |-> kept, bytes |-> keptBytes]
           last == KeepEach(q, first)
<1>1. last \in KeptLists
  <2>1. first \in KeptLists
    BY DEF JobsIInv
  <2> HIDE DEF first
  <2> QED BY <2>1, KeepEachKeeps
<1>2. last = [jobs |-> last.jobs, bytes |-> last.bytes]
  BY <1>1 DEF KeptLists
<1>3. kept' = last.jobs /\ keptBytes' = last.bytes
  BY DEF EndInFailure
<1>4. failures' = [j \in Jobs |-> failures[j] + IF j \in Range(q) THEN 1 ELSE 0]
  BY DEF EndInFailure
<1>5. failures \in [Jobs -> Nat]
  BY DEF JobsIInv, Counted
<1> HIDE DEF last
<1> QED BY <1>1, <1>2, <1>3, <1>4, <1>5

-----------------------------------------------------------------------------
\* The steps.

LEMMA JobsInitInv == QueueInit => JobsIInv
<1> SUFFICES ASSUME QueueInit PROVE JobsIInv
  OBVIOUS
<1>1. /\ <<>> \in Seq(Jobs) /\ Len(<<>>) = 0 /\ Range(<<>>) = {} /\ IsInjective(<<>>)
      /\ SumOf(<<>>) = 0 /\ Cardinality({}) = 0
  BY EmptySeq, EmptyRange, TotalEmpty, JobsAssumption, FS_EmptySet DEF SumOf
<1>2. Concurrency \in Nat /\ MaxJobs \in Nat /\ MaxJobBytes \in Nat /\ MaxFailed \in Nat
      /\ MaxFailedBytes \in Nat
  BY QueueLimitsAssumption
<1>3. Placed(accepted, waiting, timers, executing) /\ Manned(waiting, executing, Works)
  BY <1>1, <1>2 DEF QueueInit, Placed, Manned
<1>4. Bounded(accepted, acceptedBytes) /\ Tried(accepted, attempts)
  BY <1>1, <1>2 DEF QueueInit, Bounded, Tried
<1>5. Counted(accepted, added, completed, failures)
  BY <1>1 DEF QueueInit, Counted
<1>6. [jobs |-> kept, bytes |-> keptBytes] \in KeptLists
  BY <1>1, <1>2 DEF QueueInit, KeptLists
<1> QED BY <1>1, <1>3, <1>4, <1>5, <1>6 DEF JobsIInv, QueueInit

\* addBulk: a batch that fits is accepted whole, what was there already left alone.
LEMMA AddInv ==
  ASSUME JobsIInv, NEW batch \in Batches, Add(batch)
  PROVE  JobsIInv'
<1> DEFINE new == Selected(batch, Jobs \ Range(accepted))
           now == Selected(new, {j \in Jobs : ~Delayed[j]})
           set == timers \cup {j \in Range(new) : Delayed[j]}
<1>1. /\ ~shut
      /\ new # <<>> => /\ Len(accepted) + Len(new) <= MaxJobs
                       /\ acceptedBytes + SumOf(new) <= MaxJobBytes
      /\ accepted' = accepted \o new
      /\ acceptedBytes' = acceptedBytes + SumOf(new)
      /\ attempts' = [j \in Jobs |-> IF j \in Range(new) THEN 0 ELSE attempts[j]]
      /\ timers' = set
      /\ ProcessNext(waiting \o now, executing, Works)
      /\ added' = [j \in Jobs |-> added[j] + IF j \in Range(new) THEN 1 ELSE 0]
      /\ UNCHANGED <<keptVars, running, shut, completed, failures>>
  BY DEF Add
<1>2. batch \in Seq(Jobs) /\ IsInjective(batch)
  <2>1. CASE batch \in {<<j>> : j \in Jobs}
    <3>1. PICK j \in Jobs : batch = <<j>>
      BY <2>1
    <3>2. <<j>> \in Seq(Jobs) /\ IsInjective(<<j>>)
      BY DEF IsInjective
    <3> QED BY <3>1, <3>2
  <2>2. CASE batch \in {b \in Jobs \X Jobs : b[1] # b[2]}
    <3>1. PICK a \in Jobs, b \in Jobs : batch = <<a, b>> /\ a # b
      BY <2>2
    <3>2. <<a, b>> \in Seq(Jobs) /\ IsInjective(<<a, b>>)
      BY <3>1 DEF IsInjective
    <3> QED BY <3>1, <3>2
  <2> QED BY <2>1, <2>2 DEF Batches
<1>3. /\ new \in Seq(Jobs) /\ Range(new) = Range(batch) \cap (Jobs \ Range(accepted))
      /\ IsInjective(new)
  BY <1>2, SelectedRange
<1> HIDE DEF new
<1>4. now \in Seq(Jobs) /\ Range(now) = Range(new) \cap {j \in Jobs : ~Delayed[j]} /\ IsInjective(now)
  BY <1>3, SelectedRange
<1> HIDE DEF now
<1>5. /\ accepted \in Seq(Jobs) /\ waiting \in Seq(Jobs) /\ timers \subseteq Jobs /\ executing \subseteq Jobs
      /\ IsInjective(accepted) /\ IsInjective(waiting)
      /\ Range(accepted) = Range(waiting) \cup timers \cup executing
      /\ Range(waiting) \cap timers = {} /\ (Range(waiting) \cup timers) \cap executing = {}
  BY DEF JobsIInv, Placed
<1>6. Range(new) \subseteq Jobs /\ Range(new) \cap Range(accepted) = {}
  BY <1>3
<1>7. /\ accepted' \in Seq(Jobs) /\ Len(accepted') = Len(accepted) + Len(new)
      /\ Range(accepted') = Range(accepted) \cup Range(new)
  BY <1>1, <1>3, <1>5, ConcatRange
<1>8. IsInjective(accepted')
  BY <1>1, <1>3, <1>5, <1>6, ConcatRange
<1>9. /\ waiting \o now \in Seq(Jobs)
      /\ Range(waiting \o now) = Range(waiting) \cup Range(now)
  BY <1>4, <1>5, ConcatRange
<1>10. IsInjective(waiting \o now)
  <2>1. Range(waiting) \cap Range(now) = {}
    BY <1>4, <1>5, <1>6
  <2> QED BY <1>4, <1>5, <2>1, ConcatRange
<1>11. Placed(accepted', waiting \o now, timers', executing)
  <2>1. Range(new) = Range(now) \cup {j \in Range(new) : Delayed[j]}
        /\ Range(now) \cap {j \in Range(new) : Delayed[j]} = {}
    BY <1>4, <1>6
  <2>2. timers' = set /\ timers' \subseteq Jobs
    BY <1>1, <1>5, <1>6
  <2>3. Range(accepted') = Range(waiting \o now) \cup timers' \cup executing
    BY <1>5, <1>7, <1>9, <2>1, <2>2
  <2>4. /\ Range(waiting \o now) \cap timers' = {}
        /\ (Range(waiting \o now) \cup timers') \cap executing = {}
    BY <1>4, <1>5, <1>6, <1>9, <2>1, <2>2
  <2> QED BY <1>5, <1>7, <1>8, <1>9, <1>10, <2>2, <2>3, <2>4 DEF Placed
<1>12. Works \in BOOLEAN /\ Works' = Works /\ Cardinality(executing) <= Concurrency
  BY <1>1 DEF JobsIInv, Manned, Works
<1>13. Placed(accepted', waiting', timers', executing') /\ Manned(waiting', executing', Works')
  <2> DEFINE line == waiting \o now
             on == Works
  <2>1. Placed(accepted', line, timers', executing) /\ ProcessNext(line, executing, on) /\ on \in BOOLEAN
    BY <1>1, <1>11, <1>12
  <2> HIDE DEF line, on
  <2>2. Placed(accepted', waiting', timers', executing') /\ Manned(waiting', executing', on)
    BY <1>12, <2>1, ProcessNextKeeps
  <2> QED BY <1>12, <2>2 DEF on
<1>14. Bounded(accepted', acceptedBytes')
  <2>1. /\ SumOf(accepted) \in Nat /\ SumOf(new) \in Nat
        /\ SumOf(accepted \o new) = SumOf(accepted) + SumOf(new)
    BY <1>3, <1>5, SumIsNat, SumOfTwo
  <2>2. acceptedBytes = SumOf(accepted) /\ Len(accepted) <= MaxJobs /\ acceptedBytes <= MaxJobBytes
    BY DEF JobsIInv, Bounded
  <2>3. CASE new = <<>>
    <3>1. accepted' = accepted
      BY <1>1, <1>5, <2>3, ConcatEmptySeq
    <3>2. SumOf(new) = 0
      BY <2>3, TotalEmpty, JobsAssumption DEF SumOf
    <3>3. acceptedBytes' = acceptedBytes
      BY <1>1, <2>1, <2>2, <3>2
    <3> QED BY <2>2, <3>1, <3>3 DEF Bounded
  <2>4. CASE new # <<>>
    BY <1>1, <1>7, <2>1, <2>2, <2>4 DEF Bounded
  <2> QED BY <2>3, <2>4
<1>15. Tried(accepted', attempts')
  <2>1. attempts \in [Jobs -> Nat] /\ \A j \in Range(accepted) : attempts[j] < Attempts[j]
    BY DEF JobsIInv, Tried
  <2>2. attempts' \in [Jobs -> Nat]
    BY <1>1, <2>1
  <2>3. ASSUME NEW j \in Range(accepted') PROVE attempts'[j] < Attempts[j]
    <3>1. j \in Jobs
      BY <1>7, RangeOfSeq
    <3>2. Attempts[j] \in Nat \ {0}
      BY <3>1, JobsAssumption
    <3> QED BY <1>1, <1>7, <2>1, <2>3, <3>1, <3>2
  <2> QED BY <2>2, <2>3 DEF Tried
<1>16. Counted(accepted', added', completed', failures')
  <2>1. Counted(accepted, added, completed, failures)
    BY DEF JobsIInv
  <2>2. added' \in [Jobs -> Nat] /\ completed' = completed /\ failures' = failures
    BY <1>1, <2>1 DEF Counted
  <2>3. ASSUME NEW j \in Jobs
        PROVE  added'[j] = completed'[j] + failures'[j] + IF j \in Range(accepted') THEN 1 ELSE 0
    <3>1. added'[j] = added[j] + IF j \in Range(new) THEN 1 ELSE 0
      BY <1>1
    <3>2. added[j] = completed[j] + failures[j] + IF j \in Range(accepted) THEN 1 ELSE 0
      BY <2>1 DEF Counted
    <3>3. completed[j] \in Nat /\ failures[j] \in Nat
      BY <2>1 DEF Counted
    <3>4. j \in Range(accepted') <=> j \in Range(accepted) \/ j \in Range(new)
      BY <1>7
    <3>5. ~(j \in Range(accepted) /\ j \in Range(new))
      BY <1>6
    <3>6. CASE j \in Range(new)
      BY <2>2, <3>1, <3>2, <3>3, <3>4, <3>5, <3>6
    <3>7. CASE j \notin Range(new)
      BY <2>2, <3>1, <3>2, <3>3, <3>4, <3>7
    <3> QED BY <3>6, <3>7
  <2> QED BY <2>1, <2>2, <2>3 DEF Counted
<1>17. /\ [jobs |-> kept', bytes |-> keptBytes'] \in KeptLists
       /\ running' \in BOOLEAN /\ shut' \in BOOLEAN /\ ~shut'
  BY <1>1 DEF JobsIInv, keptVars
<1> QED BY <1>13, <1>14, <1>15, <1>16, <1>17 DEF JobsIInv

\* processNext, at the end of a step.
LEMMA NextKeeps ==
  ASSUME NEW line, NEW busy, NEW on \in BOOLEAN,
         Placed(accepted', line, timers', busy), Cardinality(busy) <= Concurrency,
         ProcessNext(line, busy, on), Works' = on
  PROVE  /\ Placed(accepted', waiting', timers', executing') /\ Manned(waiting', executing', Works')
         /\ ~on => executing' = busy
BY ProcessNextKeeps

\* The timer of a job, which is set only while the queue is open.
LEMMA TimerInv ==
  ASSUME JobsIInv, NEW j \in Jobs, Timer(j)
  PROVE  JobsIInv'
<1>1. /\ j \in timers /\ timers' = timers \ {j}
      /\ ProcessNext(Append(waiting, j), executing, Works)
      /\ UNCHANGED <<accepted, attempts, acceptedBytes, keptVars, running, shut, historyVars>>
  BY DEF Timer
<1>2. /\ accepted \in Seq(Jobs) /\ waiting \in Seq(Jobs) /\ timers \subseteq Jobs /\ executing \subseteq Jobs
      /\ IsInjective(accepted) /\ IsInjective(waiting)
      /\ Range(accepted) = Range(waiting) \cup timers \cup executing
      /\ Range(waiting) \cap timers = {} /\ (Range(waiting) \cup timers) \cap executing = {}
      /\ Cardinality(executing) <= Concurrency /\ Works \in BOOLEAN
  BY DEF JobsIInv, Placed, Manned, Works
<1>3. ~shut
  BY <1>1, <1>2 DEF JobsIInv
<1>4. /\ Append(waiting, j) \in Seq(Jobs) /\ Range(Append(waiting, j)) = Range(waiting) \cup {j}
      /\ IsInjective(Append(waiting, j)) <=> IsInjective(waiting) /\ j \notin Range(waiting)
  BY <1>2, AppendProperties, AppendRange
<1>5. Placed(accepted', Append(waiting, j), timers', executing)
  BY <1>1, <1>2, <1>4 DEF Placed
<1>6. Works' = Works
  BY <1>1 DEF Works
<1>7. Placed(accepted', waiting', timers', executing') /\ Manned(waiting', executing', Works')
  BY <1>1, <1>2, <1>5, <1>6, NextKeeps
<1>8. Bounded(accepted', acceptedBytes') /\ Tried(accepted', attempts')
  BY <1>1 DEF JobsIInv
<1>9. Counted(accepted', added', completed', failures') /\ [jobs |-> kept', bytes |-> keptBytes'] \in KeptLists
  BY <1>1 DEF JobsIInv, historyVars, keptVars
<1> QED BY <1>1, <1>3, <1>7, <1>8, <1>9 DEF JobsIInv

\* A worker is set, which takes what waits, or is stopped, and what waits stays.
LEMMA SetProcessorInv == JobsIInv /\ SetProcessor => JobsIInv'
<1> SUFFICES ASSUME JobsIInv, SetProcessor PROVE JobsIInv'
  OBVIOUS
<1>1. /\ ~shut /\ running' = TRUE /\ ProcessNext(waiting, executing, TRUE)
      /\ UNCHANGED <<accepted, timers, attempts, acceptedBytes, keptVars, shut, historyVars>>
  BY DEF SetProcessor
<1>2. Placed(accepted', waiting, timers', executing) /\ Cardinality(executing) <= Concurrency
  BY <1>1 DEF JobsIInv, Manned
<1>3. Works' = TRUE /\ TRUE \in BOOLEAN
  BY <1>1 DEF Works
<1>4. Placed(accepted', waiting', timers', executing') /\ Manned(waiting', executing', Works')
  BY <1>1, <1>2, <1>3, NextKeeps
<1>5. Bounded(accepted', acceptedBytes') /\ Tried(accepted', attempts')
  BY <1>1 DEF JobsIInv
<1>6. Counted(accepted', added', completed', failures') /\ [jobs |-> kept', bytes |-> keptBytes'] \in KeptLists
  BY <1>1 DEF JobsIInv, historyVars, keptVars
<1> QED BY <1>1, <1>4, <1>5, <1>6 DEF JobsIInv

LEMMA StopWorkerInv == JobsIInv /\ StopWorker => JobsIInv'
<1> SUFFICES ASSUME JobsIInv, StopWorker PROVE JobsIInv'
  OBVIOUS
<1>1. /\ running' = FALSE
      /\ UNCHANGED <<accepted, placeVars, attempts, acceptedBytes, keptVars, shut, historyVars>>
  BY DEF StopWorker
<1>2. Manned(waiting', executing', Works')
  BY <1>1 DEF JobsIInv, Manned, Works, placeVars
<1>3. Placed(accepted', waiting', timers', executing') /\ (shut' => Range(accepted') = executing')
  BY <1>1 DEF JobsIInv, placeVars
<1>4. Bounded(accepted', acceptedBytes') /\ Tried(accepted', attempts')
  BY <1>1 DEF JobsIInv
<1>5. Counted(accepted', added', completed', failures') /\ [jobs |-> kept', bytes |-> keptBytes'] \in KeptLists
  BY <1>1 DEF JobsIInv, historyVars, keptVars
<1> QED BY <1>1, <1>2, <1>3, <1>4, <1>5 DEF JobsIInv

\* release: the job leaves the queue with its bytes.
LEMMA ReleaseKeeps ==
  ASSUME JobsIInv, NEW j \in executing, ReleaseJob(j)
  PROVE  /\ Placed(accepted', waiting, timers, executing \ {j}) /\ Bounded(accepted', acceptedBytes')
         /\ Range(accepted') = Range(accepted) \ {j} /\ j \in Range(accepted)
         /\ Cardinality(executing \ {j}) <= Concurrency
<1>1. /\ accepted \in Seq(Jobs) /\ waiting \in Seq(Jobs) /\ timers \subseteq Jobs /\ executing \subseteq Jobs
      /\ IsInjective(accepted) /\ IsInjective(waiting)
      /\ Range(accepted) = Range(waiting) \cup timers \cup executing
      /\ Range(waiting) \cap timers = {} /\ (Range(waiting) \cup timers) \cap executing = {}
      /\ Cardinality(executing) <= Concurrency
      /\ Len(accepted) <= MaxJobs /\ acceptedBytes = SumOf(accepted) /\ acceptedBytes <= MaxJobBytes
  BY DEF JobsIInv, Placed, Manned, Bounded
<1>2. j \in Jobs /\ j \in Range(accepted) /\ SizeOf \in [Jobs -> Nat]
  BY <1>1, JobsAssumption
<1>3. /\ Without(accepted, j) \in Seq(Jobs) /\ IsInjective(Without(accepted, j))
      /\ Range(Without(accepted, j)) = Range(accepted) \ {j}
      /\ Len(Without(accepted, j)) = Len(accepted) - 1 /\ Len(Without(accepted, j)) \in Nat
      /\ Total(SizeOf, Without(accepted, j)) \in Nat
      /\ Total(SizeOf, Without(accepted, j)) = Total(SizeOf, accepted) - SizeOf[j]
  BY <1>1, <1>2, WithoutOne
<1>4. accepted' = Without(accepted, j) /\ acceptedBytes' = acceptedBytes - SizeOf[j]
  BY DEF ReleaseJob
<1>5. Placed(accepted', waiting, timers, executing \ {j})
  BY <1>1, <1>3, <1>4 DEF Placed
<1>6. Bounded(accepted', acceptedBytes')
  <2>1. SizeOf[j] \in Nat /\ MaxJobs \in Nat /\ MaxJobBytes \in Nat /\ Len(accepted) \in Nat
    BY <1>1, <1>2, QueueLimitsAssumption, LenProperties
  <2>2. acceptedBytes' = SumOf(accepted') /\ SumOf(accepted) \in Nat
    BY <1>1, <1>3, <1>4, SumIsNat DEF SumOf
  <2>3. Len(accepted') <= MaxJobs
    BY <1>1, <1>3, <1>4, <2>1
  <2>4. acceptedBytes' <= MaxJobBytes
    BY <1>1, <1>4, <2>1, <2>2
  <2> QED BY <2>2, <2>3, <2>4 DEF Bounded
<1>7. Cardinality(executing \ {j}) <= Concurrency
  <2>1. /\ Cardinality(executing \ {j}) <= Cardinality(executing) /\ Cardinality(executing) \in Nat
    BY BusyIsFinite DEF JobsIInv
  <2>2. Cardinality(executing \ {j}) \in Nat
    <3>1. IsFiniteSet(executing \ {j})
      BY <1>5, BusyIsFinite
    <3> QED BY <3>1, FS_CardinalityType
  <2> QED BY <1>1, <2>1, <2>2, QueueLimitsAssumption
<1> QED BY <1>2, <1>3, <1>4, <1>5, <1>6, <1>7

LEMMA JobSucceedsInv ==
  ASSUME JobsIInv, NEW j \in Jobs, JobSucceeds(j)
  PROVE  JobsIInv'
<1>1. /\ j \in executing /\ ReleaseJob(j)
      /\ completed' = [completed EXCEPT ![j] = @ + 1]
      /\ ProcessNext(waiting, executing \ {j}, Works)
      /\ UNCHANGED <<timers, attempts, keptVars, running, shut, added, failures>>
  BY DEF JobSucceeds
<1>2. /\ Placed(accepted', waiting, timers, executing \ {j}) /\ Bounded(accepted', acceptedBytes')
      /\ Range(accepted') = Range(accepted) \ {j} /\ j \in Range(accepted)
      /\ Cardinality(executing \ {j}) <= Concurrency
  BY <1>1, ReleaseKeeps
<1>3. Works' = Works /\ Works \in BOOLEAN /\ (shut => ~Works)
  BY <1>1 DEF Works, JobsIInv
<1>4. Placed(accepted', waiting, timers', executing \ {j})
  BY <1>1, <1>2
<1>5. /\ Placed(accepted', waiting', timers', executing') /\ Manned(waiting', executing', Works')
      /\ ~Works => executing' = executing \ {j}
  <2> DEFINE busy == executing \ {j}
             on == Works
  <2>1. /\ Placed(accepted', waiting, timers', busy) /\ ProcessNext(waiting, busy, on)
        /\ on \in BOOLEAN /\ Works' = on /\ Cardinality(busy) <= Concurrency
    BY <1>1, <1>2, <1>3, <1>4
  <2> HIDE DEF busy, on
  <2>2. /\ Placed(accepted', waiting', timers', executing') /\ Manned(waiting', executing', Works')
        /\ ~on => executing' = busy
    BY <2>1, NextKeeps
  <2> QED BY <2>2 DEF on, busy
<1>6. shut' => Range(accepted') = executing'
  BY <1>1, <1>2, <1>3, <1>5 DEF JobsIInv
<1>7. Tried(accepted', attempts')
  BY <1>1, <1>2 DEF JobsIInv, Tried
<1>8. Counted(accepted', added', completed', failures')
  <2>1. Counted(accepted, added, completed, failures)
    BY DEF JobsIInv
  <2>2. completed' \in [Jobs -> Nat] /\ added' = added /\ failures' = failures
    BY <1>1, <2>1 DEF Counted
  <2>3. ASSUME NEW x \in Jobs
        PROVE  added'[x] = completed'[x] + failures'[x] + IF x \in Range(accepted') THEN 1 ELSE 0
    <3>1. /\ added[x] = completed[x] + failures[x] + IF x \in Range(accepted) THEN 1 ELSE 0
          /\ completed[x] \in Nat /\ failures[x] \in Nat
      BY <2>1 DEF Counted
    <3>2. completed'[x] = IF x = j THEN completed[x] + 1 ELSE completed[x]
      BY <1>1, <2>1 DEF Counted
    <3>3. x \in Range(accepted') <=> x \in Range(accepted) /\ x # j
      BY <1>2
    <3>4. CASE x = j
      BY <1>2, <2>2, <3>1, <3>2, <3>3, <3>4
    <3>5. CASE x # j
      BY <2>2, <3>1, <3>2, <3>3, <3>5
    <3> QED BY <3>4, <3>5
  <2> QED BY <2>1, <2>2, <2>3 DEF Counted
<1>9. [jobs |-> kept', bytes |-> keptBytes'] \in KeptLists /\ running' \in BOOLEAN /\ shut' \in BOOLEAN
  BY <1>1 DEF JobsIInv, keptVars
<1> QED BY <1>2, <1>5, <1>6, <1>7, <1>8, <1>9 DEF JobsIInv

\* An attempt that fails: the job is put in line again, its timer is set, or it ends.
LEMMA JobFailsInv ==
  ASSUME JobsIInv, NEW j \in Jobs, JobFails(j)
  PROVE  JobsIInv'
<1> DEFINE again == ~shut /\ attempts[j] + 1 < Attempts[j]
<1>1. /\ j \in executing
      /\ attempts' = [attempts EXCEPT ![j] = @ + 1]
      /\ UNCHANGED <<running, shut, added, completed>>
  BY DEF JobFails
<1>2. /\ accepted \in Seq(Jobs) /\ waiting \in Seq(Jobs) /\ timers \subseteq Jobs /\ executing \subseteq Jobs
      /\ IsInjective(accepted) /\ IsInjective(waiting)
      /\ Range(accepted) = Range(waiting) \cup timers \cup executing
      /\ Range(waiting) \cap timers = {} /\ (Range(waiting) \cup timers) \cap executing = {}
      /\ attempts \in [Jobs -> Nat] /\ \A x \in Range(accepted) : attempts[x] < Attempts[x]
  BY DEF JobsIInv, Placed, Tried
<1>3. Works' = Works /\ Works \in BOOLEAN /\ (shut => ~Works)
  BY <1>1 DEF Works, JobsIInv
<1>4. Cardinality(executing \ {j}) <= Concurrency
  <2>1. Cardinality(executing \ {j}) <= Cardinality(executing) /\ Cardinality(executing) \in Nat
    BY <1>1, BusyIsFinite DEF JobsIInv
  <2>2. IsFiniteSet(executing) /\ executing \ {j} \subseteq executing
    BY BusyIsFinite DEF JobsIInv
  <2>3. Cardinality(executing \ {j}) \in Nat
    BY <2>2, FS_Subset, FS_CardinalityType
  <2>4. Cardinality(executing) <= Concurrency /\ Concurrency \in Nat
    BY QueueLimitsAssumption DEF JobsIInv, Manned
  <2> QED BY <2>1, <2>3, <2>4
<1>5. running' \in BOOLEAN /\ shut' \in BOOLEAN
  BY <1>1 DEF JobsIInv
<1>6. CASE again
  <2> DEFINE line == IF Backoff[j] THEN waiting ELSE Append(waiting, j)
             busy == executing \ {j}
             on == Works
  <2>1. /\ timers' = IF Backoff[j] THEN timers \cup {j} ELSE timers
        /\ ProcessNext(line, busy, on)
        /\ UNCHANGED <<accepted, acceptedBytes, keptVars, failures>>
    BY <1>6 DEF JobFails
  <2>2. /\ Append(waiting, j) \in Seq(Jobs) /\ Range(Append(waiting, j)) = Range(waiting) \cup {j}
        /\ IsInjective(Append(waiting, j)) <=> IsInjective(waiting) /\ j \notin Range(waiting)
    BY <1>2, AppendProperties, AppendRange
  <2>3. Placed(accepted', line, timers', busy)
    <3>1. CASE Backoff[j]
      BY <1>1, <1>2, <2>1, <3>1 DEF Placed
    <3>2. CASE ~Backoff[j]
      BY <1>1, <1>2, <2>1, <2>2, <3>2 DEF Placed
    <3> QED BY <3>1, <3>2
  <2>4. Cardinality(busy) <= Concurrency /\ on \in BOOLEAN /\ Works' = on
    BY <1>3, <1>4
  <2>5. Placed(accepted', waiting', timers', executing') /\ Manned(waiting', executing', Works')
    <3> HIDE DEF line, busy, on
    <3> QED BY <2>1, <2>3, <2>4, NextKeeps
  <2>6. Bounded(accepted', acceptedBytes') /\ Counted(accepted', added', completed', failures')
    BY <1>1, <2>1 DEF JobsIInv
  <2>7. Tried(accepted', attempts')
    BY <1>1, <1>2, <1>6, <2>1 DEF Tried
  <2>8. [jobs |-> kept', bytes |-> keptBytes'] \in KeptLists /\ ~shut'
    BY <1>1, <1>6, <2>1 DEF JobsIInv, keptVars
  <2> QED BY <1>5, <2>5, <2>6, <2>7, <2>8 DEF JobsIInv
<1>7. CASE ~again
  <2>1. /\ ReleaseJob(j) /\ EndInFailure(<<j>>)
        /\ ProcessNext(waiting, executing \ {j}, Works)
        /\ UNCHANGED timers
    BY <1>7 DEF JobFails
  <2>2. /\ Placed(accepted', waiting, timers, executing \ {j}) /\ Bounded(accepted', acceptedBytes')
        /\ Range(accepted') = Range(accepted) \ {j} /\ j \in Range(accepted)
    BY <1>1, <2>1, ReleaseKeeps
  <2>3. /\ Placed(accepted', waiting', timers', executing') /\ Manned(waiting', executing', Works')
        /\ ~Works => executing' = executing \ {j}
    <3> DEFINE busy == executing \ {j}
               on == Works
    <3>1. /\ Placed(accepted', waiting, timers', busy) /\ ProcessNext(waiting, busy, on)
          /\ on \in BOOLEAN /\ Works' = on /\ Cardinality(busy) <= Concurrency
      BY <1>3, <1>4, <2>1, <2>2
    <3> HIDE DEF busy, on
    <3>2. /\ Placed(accepted', waiting', timers', executing') /\ Manned(waiting', executing', Works')
          /\ ~on => executing' = busy
      BY <3>1, NextKeeps
    <3> QED BY <3>2 DEF on, busy
  <2>4. shut' => Range(accepted') = executing'
    BY <1>1, <1>3, <2>2, <2>3 DEF JobsIInv
  <2>5. Tried(accepted', attempts')
    BY <1>1, <1>2, <2>2 DEF Tried
  <2>6. <<j>> \in Seq(Jobs) /\ Range(<<j>>) = {j}
    BY DEF Range
  <2>7. /\ [jobs |-> kept', bytes |-> keptBytes'] \in KeptLists
        /\ failures' \in [Jobs -> Nat]
        /\ \A x \in Jobs : failures'[x] = failures[x] + IF x = j THEN 1 ELSE 0
    <3>1. \A x \in Jobs : x \in Range(<<j>>) <=> x = j
      BY <2>6
    <3> DEFINE q == <<j>>
    <3>2. q \in Seq(Jobs) /\ EndInFailure(q)
      BY <2>1, <2>6
    <3>3. \A x \in Jobs : x \in Range(q) <=> x = j
      BY <3>1
    <3> HIDE DEF q
    <3>4. /\ [jobs |-> kept', bytes |-> keptBytes'] \in KeptLists
          /\ failures' \in [Jobs -> Nat]
          /\ \A x \in Jobs : failures'[x] = failures[x] + IF x \in Range(q) THEN 1 ELSE 0
      BY <3>2, EndInFailureKeeps
    <3> QED BY <3>3, <3>4
  <2>8. Counted(accepted', added', completed', failures')
    <3>1. Counted(accepted, added, completed, failures)
      BY DEF JobsIInv
    <3>2. ASSUME NEW x \in Jobs
          PROVE  added'[x] = completed'[x] + failures'[x] + IF x \in Range(accepted') THEN 1 ELSE 0
      <4>1. /\ added[x] = completed[x] + failures[x] + IF x \in Range(accepted) THEN 1 ELSE 0
            /\ completed[x] \in Nat /\ failures[x] \in Nat
        BY <3>1 DEF Counted
      <4>2. failures'[x] = IF x = j THEN failures[x] + 1 ELSE failures[x]
        BY <2>7, <4>1
      <4>3. x \in Range(accepted') <=> x \in Range(accepted) /\ x # j
        BY <2>2
      <4>4. CASE x = j
        BY <1>1, <2>2, <4>1, <4>2, <4>3, <4>4
      <4>5. CASE x # j
        BY <1>1, <4>1, <4>2, <4>3, <4>5
      <4> QED BY <4>4, <4>5
    <3> QED BY <1>1, <2>7, <3>1, <3>2 DEF Counted
  <2> QED BY <1>5, <2>2, <2>3, <2>4, <2>5, <2>7, <2>8 DEF JobsIInv
<1> QED BY <1>6, <1>7

\* drain: what does not run ends as a failure, and what runs is all that is left.
LEMMA DrainKeeps ==
  ASSUME JobsIInv, Drain, UNCHANGED <<executing, attempts, added, completed>>
  PROVE  /\ Placed(accepted', waiting', timers', executing') /\ Manned(waiting', executing', Works')
         /\ Bounded(accepted', acceptedBytes') /\ Tried(accepted', attempts')
         /\ Counted(accepted', added', completed', failures')
         /\ [jobs |-> kept', bytes |-> keptBytes'] \in KeptLists
         /\ Range(accepted') = executing'
<1> DEFINE ended == Selected(accepted, Jobs \ executing)
<1>1. /\ EndInFailure(ended) /\ accepted' = Selected(accepted, executing)
      /\ acceptedBytes' = acceptedBytes - SumOf(ended)
      /\ waiting' = <<>> /\ timers' = {}
  BY DEF Drain
<1>2. /\ accepted \in Seq(Jobs) /\ executing \subseteq Jobs /\ IsInjective(accepted)
      /\ executing \subseteq Range(accepted)
      /\ Len(accepted) <= MaxJobs /\ acceptedBytes = SumOf(accepted) /\ acceptedBytes <= MaxJobBytes
      /\ SizeOf \in [Jobs -> Nat]
  BY JobsAssumption DEF JobsIInv, Placed, Bounded
<1>3. \A x \in Range(accepted) : x \in Jobs \ executing <=> x \notin executing
  BY <1>2, RangeOfSeq
<1>4. ended \in Seq(Jobs) /\ Range(ended) = Range(accepted) \cap (Jobs \ executing)
  BY <1>2, SelectedRange
<1>5. accepted' \in Seq(Jobs) /\ Range(accepted') = Range(accepted) \cap executing /\ IsInjective(accepted')
  BY <1>1, <1>2, SelectedRange
<1>6. Len(accepted) = Len(ended) + Len(Selected(accepted, executing))
  BY <1>2, <1>3, LengthSelected
<1>7. /\ Total(SizeOf, ended) \in Nat /\ Total(SizeOf, Selected(accepted, executing)) \in Nat
      /\ Total(SizeOf, accepted) = Total(SizeOf, ended) + Total(SizeOf, Selected(accepted, executing))
  BY <1>2, <1>3, TotalSelected
<1> HIDE DEF ended
<1>8. Range(accepted') = executing
  BY <1>2, <1>5
<1>9. Placed(accepted', waiting', timers', executing')
  BY <1>1, <1>2, <1>5, <1>8, EmptySeq, EmptyRange DEF Placed
<1>10. Manned(waiting', executing', Works')
  BY <1>1 DEF JobsIInv, Manned
<1>11. Bounded(accepted', acceptedBytes')
  <2>1. Len(ended) \in Nat /\ Len(accepted') \in Nat /\ MaxJobs \in Nat /\ MaxJobBytes \in Nat
    BY <1>4, <1>5, LenProperties, QueueLimitsAssumption
  <2>2. Len(accepted') <= MaxJobs
    BY <1>1, <1>2, <1>6, <2>1
  <2>3. acceptedBytes' = SumOf(accepted') /\ acceptedBytes' <= MaxJobBytes
    BY <1>1, <1>2, <1>7, <2>1 DEF SumOf
  <2> QED BY <2>2, <2>3 DEF Bounded
<1>12. Tried(accepted', attempts')
  BY <1>2, <1>8 DEF JobsIInv, Tried
<1>13. /\ [jobs |-> kept', bytes |-> keptBytes'] \in KeptLists
       /\ failures' \in [Jobs -> Nat]
       /\ \A j \in Jobs : failures'[j] = failures[j] + IF j \in Range(ended) THEN 1 ELSE 0
  BY <1>1, <1>4, EndInFailureKeeps
<1>14. Counted(accepted', added', completed', failures')
  <2>1. Counted(accepted, added, completed, failures)
    BY DEF JobsIInv
  <2>2. ASSUME NEW x \in Jobs
        PROVE  added'[x] = completed'[x] + failures'[x] + IF x \in Range(accepted') THEN 1 ELSE 0
    <3>1. /\ added[x] = completed[x] + failures[x] + IF x \in Range(accepted) THEN 1 ELSE 0
          /\ completed[x] \in Nat /\ failures[x] \in Nat
      BY <2>1 DEF Counted
    <3>2. failures'[x] = failures[x] + IF x \in Range(ended) THEN 1 ELSE 0
      BY <1>13
    <3>3. /\ x \in Range(accepted') <=> x \in executing
          /\ x \in Range(ended) <=> x \in Range(accepted) /\ x \notin executing
      BY <1>4, <1>8
    <3>4. CASE x \in executing
      BY <1>2, <3>1, <3>2, <3>3, <3>4
    <3>5. CASE x \notin executing
      BY <3>1, <3>2, <3>3, <3>5
    <3> QED BY <3>4, <3>5
  <2> QED BY <1>13, <2>1, <2>2 DEF Counted
<1> QED BY <1>8, <1>9, <1>10, <1>11, <1>12, <1>13, <1>14

LEMMA JobsNextInv == JobsIInv /\ [QueueNext]_queueVars => JobsIInv'
<1> SUFFICES ASSUME JobsIInv, [QueueNext]_queueVars PROVE JobsIInv'
  OBVIOUS
<1>1. ASSUME NEW batch \in Batches, Add(batch) PROVE JobsIInv'
  BY <1>1, AddInv
<1>2. ASSUME NEW j \in Jobs, Timer(j) PROVE JobsIInv'
  BY <1>2, TimerInv
<1>3. ASSUME NEW j \in Jobs, JobSucceeds(j) PROVE JobsIInv'
  BY <1>3, JobSucceedsInv
<1>4. ASSUME NEW j \in Jobs, JobFails(j) PROVE JobsIInv'
  BY <1>4, JobFailsInv
<1>5. SetProcessor \/ StopWorker => JobsIInv'
  BY SetProcessorInv, StopWorkerInv
<1>6. CASE DrainQueue
  <2>1. Drain /\ UNCHANGED <<executing, attempts, running, shut, added, completed>>
    BY <1>6 DEF DrainQueue
  <2> QED BY <2>1, DrainKeeps DEF JobsIInv
<1>7. CASE CloseQueue
  <2>1. /\ shut' = TRUE /\ running' = FALSE /\ Drain
        /\ UNCHANGED <<executing, attempts, added, completed>>
    BY <1>7 DEF CloseQueue
  <2> QED BY <2>1, DrainKeeps DEF JobsIInv
<1>8. CASE QueueClosed
  <2>1. /\ kept' = <<>> /\ keptBytes' = 0
        /\ UNCHANGED <<accepted, placeVars, attempts, acceptedBytes, running, shut, historyVars>>
    BY <1>8 DEF QueueClosed
  <2>2. [jobs |-> kept', bytes |-> keptBytes'] \in KeptLists
    <3>1. <<>> \in Seq(Jobs) /\ Len(<<>>) = 0 /\ SumOf(<<>>) = 0
      BY EmptySeq, TotalEmpty, JobsAssumption DEF SumOf
    <3> QED BY <2>1, <3>1, QueueLimitsAssumption DEF KeptLists
  <2> QED BY <2>1, <2>2 DEF JobsIInv, placeVars, historyVars, Works
<1>9. CASE UNCHANGED queueVars
  BY <1>9 DEF queueVars, JobsIInv, placeVars, historyVars, keptVars, Works
<1> QED BY <1>1, <1>2, <1>3, <1>4, <1>5, <1>6, <1>7, <1>8, <1>9 DEF QueueNext

\* QueueInv: however batches, timers, attempts, workers, draining and closing
\* interleave, an accepted job is in one place and ends once, and the queue counts
\* what it holds and keeps its limits.
THEOREM QueueSound == QueueSpec => []QueueInv
<1>1. QueueSpec => []JobsIInv
  BY JobsInitInv, JobsNextInv, PTL DEF QueueSpec
<1> QED BY <1>1, JobsSuffice, PTL
=============================================================================
