-------------------------- MODULE IngestionProofs --------------------------
(***************************************************************************)
(* Ingestion: totals are exact, columns hold the latest values and a       *)
(* repeated event changes nothing, for any traces, observations and        *)
(* events.  Then the dataset items and the prompts, for any names,         *)
(* datasets, items and numbers of clients.                                 *)
(***************************************************************************)
EXTENDS OtelSpans, Prompts, DatasetItems, FiniteSetTheorems, SequenceTheorems, TLAPS

LEMMA PayloadType == \A e \in Events, c \in Columns : Payload(e, c) \in Values
<1> SUFFICES ASSUME NEW e \in Events, NEW c \in Columns PROVE Payload(e, c) \in Values
  OBVIOUS
<1>1. e.sets \in Patch /\ e.inherits \in Patch /\ Default[c] \in Values
  BY EventsAssumption, DefaultAssumption DEF Row
<1>2. \A p \in Patch : c \in DOMAIN p => p[c] \in Values
  BY DEF Patch
<1> QED BY <1>1, <1>2 DEF Payload

LEMMA KnownType ==
  ASSUME NEW d \in Database, NEW x \in Entities
  PROVE  Known(d, x) \in [Columns -> Int \X Nat]
BY DEF Database, Known, NoVersion

LEMMA VersionType == \A e \in Events : VersionOf(e) \in Int \X Nat /\ e.id \in Entities /\ e.ts \in Nat
BY EventsAssumption DEF VersionOf

LEMMA WrittenType ==
  ASSUME NEW d \in Database, NEW e \in Events
  PROVE  Written(d, e) \in Database /\ Ignored(d, e) \in Database
<1>1. e.id \in Entities /\ e.ts \in Nat /\ VersionOf(e) \in Int \X Nat
  BY VersionType
<1>2. NewRow(d, e) \in Row
  BY <1>1, PayloadType DEF NewRow, Row, Database
<1>3. NewTs(d, e) \in Nat
  BY <1>1 DEF NewTs, Database
<1>4. NewVersion(d, e) \in [Columns -> Int \X Nat]
  BY <1>1, KnownType DEF NewVersion
<1>5. d.seen[e.id] \cup {e} \in SUBSET Events
  BY <1>1 DEF Database
<1> QED BY <1>1, <1>2, <1>3, <1>4, <1>5 DEF Written, Ignored, Database

(***************************************************************************)
(* The rows.                                                               *)
(***************************************************************************)
LEMMA SameRows ==
  ASSUME NEW d, NEW a, RowsLatest(d), a.live = d.live, a.ts = d.ts, a.value = d.value,
         a.seen = d.seen, a.versioned = d.versioned, a.version = d.version
  PROVE  RowsLatest(a)
BY DEF RowsLatest, ColumnLatest

\* A row without versions has met no event, so that its values are legacy;
\* where an event offered a value to inherit there is a value or a version.
Unversioned(d) ==
  /\ \A x \in Entities \ d.versioned :
       /\ d.seen[x] = {} /\ d.version[x] = [c \in Columns |-> NoVersion]
       /\ x \in d.live => d.ts[x] = LegacyTs /\ d.value[x] = LegacyValue[x]
  /\ \A x \in Entities : \A e \in d.seen[x] : \A c \in DOMAIN e.inherits \ DOMAIN e.sets :
       d.version[x][c] # NoVersion \/ d.value[x][c] # Null

\* What is known of a row holds of its columns before any event is applied.
LEMMA KnownLatest ==
  ASSUME NEW d \in Database, RowsLatest(d), Unversioned(d), NEW x \in d.live, NEW c \in Columns
  PROVE  LET v == Known(d, x)[c] IN
    /\ \A e \in d.seen[x] : c \in DOMAIN e.sets => ~ Older(v, VersionOf(e))
    /\ \/ v = NoVersion /\ d.value[x][c] \in {Default[c], Null}
       \/ v = <<LegacyTs, 0>> /\ d.value[x][c] = LegacyValue[x][c]
       \/ \E e \in d.seen[x] : /\ c \in DOMAIN e.sets \cup DOMAIN e.inherits
                               /\ v = VersionOf(e) /\ d.value[x][c] = Payload(e, c)
<1>1. x \in Entities
  BY DEF Database
<1>2. CASE x \in d.versioned
  BY <1>2 DEF Known, RowsLatest, ColumnLatest
<1>3. CASE x \notin d.versioned
  BY <1>1, <1>3 DEF Known, Unversioned
<1> QED BY <1>2, <1>3

LEMMA AcceptedAreProvided ==
  ASSUME NEW d, NEW e \in Events
  PROVE  /\ Accepted(d, e) \subseteq (DOMAIN e.sets \cup DOMAIN e.inherits) \cap Columns
         /\ \A c \in Accepted(d, e) : Older(Known(d, e.id)[c], VersionOf(e))
         /\ \A c \in DOMAIN e.sets : Older(Known(d, e.id)[c], VersionOf(e)) => c \in Accepted(d, e)
<1>1. DOMAIN e.sets \subseteq Columns /\ DOMAIN e.inherits \subseteq Columns
  BY EventsAssumption DEF Patch
<1> QED BY <1>1 DEF Accepted, Inherited

LEMMA OlderTransitive ==
  ASSUME NEW u \in Int \X Nat, NEW v \in Int \X Nat, NEW w \in Int \X Nat
  PROVE  /\ Older(u, v) /\ Older(v, w) => Older(u, w)
         /\ ~ Older(v, v)
BY DEF Older

LEMMA OlderTotal ==
  ASSUME NEW u \in Int \X Nat, NEW v \in Int \X Nat
  PROVE  Older(u, v) \/ Older(v, u) \/ u = v
BY DEF Older

\* Both ways an event ends leave the column of its row latest.
LEMMA NewColumnLatest ==
  ASSUME NEW d \in Database, RowsLatest(d), Unversioned(d), NEW e \in Events, NEW c \in Columns,
         NEW a, a.version[e.id] = NewVersion(d, e), a.seen[e.id] = d.seen[e.id] \cup {e},
         a.value[e.id] = NewRow(d, e)
  PROVE  ColumnLatest(a, e.id, c)
<1> DEFINE x == e.id
           k == Known(d, x)[c]
           v == a.version[x][c]
<1>1. x \in Entities /\ VersionOf(e) \in Int \X Nat /\ k \in Int \X Nat
  BY VersionType, KnownType
<1>2. v = (IF c \in Accepted(d, e) THEN VersionOf(e) ELSE k)
  BY DEF NewVersion
<1>3. v \in Int \X Nat /\ d.seen[x] \in SUBSET Events
  BY <1>1, <1>2 DEF Database
<1>4. /\ c \in Accepted(d, e) => Older(k, VersionOf(e))
      /\ c \in DOMAIN e.sets /\ Older(k, VersionOf(e)) => c \in Accepted(d, e)
      /\ c \in Accepted(d, e) => c \in DOMAIN e.sets \cup DOMAIN e.inherits
  BY AcceptedAreProvided
<1>5. a.value[x][c] = (IF x \notin d.live \/ c \in Accepted(d, e) THEN Payload(e, c)
                       ELSE d.value[x][c])
  BY DEF NewRow
<1>6. \A f \in d.seen[x] : c \in DOMAIN f.sets => ~ Older(k, VersionOf(f))
  <2>1. CASE x \in d.live
    BY <2>1, KnownLatest
  <2>2. CASE x \notin d.live
    BY <1>1, <2>2 DEF Unversioned, RowsLatest
  <2> QED BY <2>1, <2>2
<1>7. ASSUME NEW f \in a.seen[x], c \in DOMAIN f.sets PROVE ~ Older(v, VersionOf(f))
  <2>1. f \in Events /\ VersionOf(f) \in Int \X Nat
    BY <1>3, VersionType
  <2>2. CASE f = e
    BY <1>1, <1>2, <1>4, <1>7, <2>2, OlderTransitive
  <2>3. CASE f \in d.seen[x]
    <3>1. ~ Older(k, VersionOf(f))
      BY <1>6, <1>7, <2>3
    <3>2. CASE c \in Accepted(d, e)
      BY <1>1, <1>2, <1>4, <2>1, <3>1, <3>2, OlderTransitive
    <3> QED BY <1>2, <3>1, <3>2
  <2> QED BY <2>2, <2>3
<1>8. \/ v = NoVersion /\ a.value[x][c] \in {Default[c], Null}
      \/ v = <<LegacyTs, 0>> /\ a.value[x][c] = LegacyValue[x][c]
      \/ \E f \in a.seen[x] : /\ c \in DOMAIN f.sets \cup DOMAIN f.inherits
                              /\ v = VersionOf(f) /\ a.value[x][c] = Payload(f, c)
  <2>1. CASE c \in Accepted(d, e)
    BY <1>2, <1>4, <1>5, <2>1
  <2>2. CASE c \notin Accepted(d, e) /\ x \in d.live
    <3>1. v = k /\ a.value[x][c] = d.value[x][c]
      BY <1>2, <1>5, <2>2
    <3> QED BY <2>2, <3>1, KnownLatest
  <2>3. CASE c \notin Accepted(d, e) /\ x \notin d.live
    <3>1. x \notin d.versioned
      BY <2>3 DEF RowsLatest
    <3>2. \A b \in Columns : Known(d, x)[b] = NoVersion
      BY <2>3, <3>1 DEF Known
    <3>3. Older(NoVersion, VersionOf(e))
      BY <1>1, EventsAssumption DEF Older, NoVersion, VersionOf
    <3>4. c \notin DOMAIN e.sets /\ c \notin DOMAIN e.inherits
      BY <2>3, <3>2, <3>3 DEF Accepted, Inherited
    <3>5. Payload(e, c) = Default[c] /\ v = NoVersion
      BY <1>2, <2>3, <3>2, <3>4 DEF Payload
    <3> QED BY <1>5, <2>3, <3>5
  <2> QED BY <2>1, <2>2, <2>3
<1> HIDE DEF v
<1> QED BY <1>7, <1>8 DEF v, ColumnLatest

LEMMA WrittenRows ==
  ASSUME NEW d \in Database, RowsLatest(d), Unversioned(d), NEW e \in Events,
         NEW a, a = Written(d, e) \/ (a = Ignored(d, e) /\ ~ Changes(d, e))
  PROVE  RowsLatest(a) /\ Unversioned(a)
<1> DEFINE x == e.id
<1>1. x \in Entities /\ e.ts \in Nat
  BY VersionType
<1>2. /\ a.live = d.live \cup {x} /\ a.versioned = d.versioned \cup {x}
      /\ a.seen = [d.seen EXCEPT ![x] = @ \cup {e}]
      /\ a.version = [d.version EXCEPT ![x] = NewVersion(d, e)]
  <2>1. CASE a = Written(d, e)
    BY <2>1 DEF Written
  <2>2. CASE a = Ignored(d, e) /\ ~ Changes(d, e)
    <3>1. x \in d.live
      BY <2>2 DEF Changes
    <3>2. d.live = d.live \cup {x}
      BY <3>1
    <3> QED BY <2>2, <3>2 DEF Ignored
  <2> QED BY <2>1, <2>2
<1>3. /\ a.ts \in [Entities -> Nat] /\ a.value \in [Entities -> Row]
      /\ \A y \in Entities \ {x} : a.ts[y] = d.ts[y] /\ a.value[y] = d.value[y]
      /\ a.ts[x] = NewTs(d, e) /\ a.value[x] = NewRow(d, e)
  <2>1. CASE a = Written(d, e)
    <3>1. /\ a.ts = [d.ts EXCEPT ![x] = NewTs(d, e)]
          /\ a.value = [d.value EXCEPT ![x] = NewRow(d, e)]
      BY <2>1 DEF Written
    <3>2. a \in Database
      BY <2>1, WrittenType
    <3> HIDE DEF x
    <3> QED BY <1>1, <3>1, <3>2 DEF Database
  <2>2. CASE a = Ignored(d, e) /\ ~ Changes(d, e)
    <3>1. x \in d.live /\ Accepted(d, e) = {} /\ d.ts[x] >= e.ts
      BY <1>1, <2>2 DEF Changes, Database
    <3>2. NewTs(d, e) = d.ts[x] /\ NewRow(d, e) = d.value[x]
      BY <1>1, <3>1 DEF NewTs, NewRow, Database, Row
    <3>3. a.ts = d.ts /\ a.value = d.value
      BY <2>2 DEF Ignored
    <3> QED BY <3>2, <3>3 DEF Database
  <2> QED BY <2>1, <2>2
<1>4. /\ \A y \in Entities \ {x} : a.seen[y] = d.seen[y] /\ a.version[y] = d.version[y]
      /\ a.seen[x] = d.seen[x] \cup {e} /\ a.version[x] = NewVersion(d, e)
  BY <1>1, <1>2 DEF Database
<1>5. a.versioned \subseteq a.live
  BY <1>2 DEF RowsLatest
<1>6. ASSUME NEW y \in a.versioned, NEW c \in Columns PROVE ColumnLatest(a, y, c)
  <2>1. CASE y = x
    BY <1>3, <1>4, <2>1, NewColumnLatest
  <2>2. CASE y # x
    <3>1. y \in d.versioned /\ y \in Entities
      BY <1>2, <2>2 DEF Database
    <3>2. a.seen[y] = d.seen[y] /\ a.version[y] = d.version[y] /\ a.value[y] = d.value[y]
      BY <1>3, <1>4, <2>2, <3>1
    <3>3. ColumnLatest(d, y, c)
      BY <3>1 DEF RowsLatest
    <3> QED BY <3>2, <3>3 DEF ColumnLatest
  <2> QED BY <2>1, <2>2
<1>7. ASSUME NEW y \in a.live, NEW f \in a.seen[y] PROVE f.ts <= a.ts[y]
  <2>1. y \in Entities
    BY <1>1, <1>2 DEF Database
  <2>2. CASE y # x
    BY <1>2, <1>3, <1>4, <2>1, <2>2 DEF RowsLatest
  <2>3. CASE y = x
    <3>1. a.ts[x] \in Nat /\ a.ts[x] >= e.ts /\ (x \in d.live => a.ts[x] >= d.ts[x])
      BY <1>1, <1>3 DEF NewTs, Database
    <3>2. CASE f = e
      BY <2>3, <1>1, <3>1, <3>2
    <3>3. CASE f \in d.seen[x]
      <4>1. x \in d.live
        BY <1>1, <3>3 DEF Unversioned, RowsLatest
      <4>2. f.ts <= d.ts[x] /\ f.ts \in Nat /\ d.ts[x] \in Nat
        BY <1>1, <3>3, <4>1, VersionType DEF RowsLatest, Database
      <4> QED BY <2>3, <3>1, <4>1, <4>2
    <3> QED BY <1>4, <2>3, <3>2, <3>3
  <2> QED BY <2>2, <2>3
<1>8. RowsLatest(a)
  BY <1>5, <1>6, <1>7 DEF RowsLatest
<1>9. Unversioned(a)
  <2>1. ASSUME NEW y \in Entities \ a.versioned
        PROVE  /\ a.seen[y] = {} /\ a.version[y] = [c \in Columns |-> NoVersion]
               /\ y \in a.live => a.ts[y] = LegacyTs /\ a.value[y] = LegacyValue[y]
    BY <1>2, <1>3, <1>4 DEF Unversioned
  <2>2. ASSUME NEW y \in Entities, NEW f \in a.seen[y],
               NEW c \in DOMAIN f.inherits \ DOMAIN f.sets
        PROVE  a.version[y][c] # NoVersion \/ a.value[y][c] # Null
    <3>1. CASE y # x
      BY <1>3, <1>4, <2>2, <3>1 DEF Unversioned
    <3>2. CASE y = x
      <4>1. f \in Events /\ DOMAIN f.inherits \subseteq Columns
        BY <1>1, <1>4, <3>2, EventsAssumption DEF Database, Patch
      <4>2. VersionOf(e) # NoVersion /\ Older(NoVersion, VersionOf(e))
        BY EventsAssumption DEF VersionOf, NoVersion, Older
      <4>3. /\ a.version[x][c] = (IF c \in Accepted(d, e) THEN VersionOf(e) ELSE Known(d, x)[c])
            /\ a.value[x][c] = (IF x \notin d.live \/ c \in Accepted(d, e) THEN Payload(e, c)
                                ELSE d.value[x][c])
        BY <1>3, <1>4, <4>1 DEF NewVersion, NewRow
      <4>4. CASE c \in Accepted(d, e)
        BY <3>2, <4>2, <4>3, <4>4
      <4>5. CASE c \notin Accepted(d, e) /\ f = e
        <5>1. c \notin Inherited(d, e) \/ ~ Older(Known(d, x)[c], VersionOf(e))
          BY <4>5 DEF Accepted
        <5>2. Known(d, x)[c] # NoVersion \/ (x \in d.live /\ d.value[x][c] # Null)
          BY <2>2, <4>2, <4>5, <5>1 DEF Inherited
        <5> QED BY <3>2, <4>3, <4>5, <5>2
      <4>6. CASE c \notin Accepted(d, e) /\ f \in d.seen[x]
        <5>1. x \in d.versioned /\ x \in d.live
          BY <1>1, <4>6 DEF Unversioned, RowsLatest
        <5>2. Known(d, x)[c] = d.version[x][c]
          BY <5>1 DEF Known
        <5>3. d.version[x][c] # NoVersion \/ d.value[x][c] # Null
          BY <1>1, <2>2, <4>6 DEF Unversioned
        <5> QED BY <3>2, <4>3, <4>6, <5>1, <5>2, <5>3
      <4> QED BY <1>4, <2>2, <3>2, <4>4, <4>5, <4>6
    <3> QED BY <3>1, <3>2
  <2> QED BY <2>1, <2>2 DEF Unversioned
<1> QED BY <1>8, <1>9

(***************************************************************************)
(* The totals.                                                             *)
(***************************************************************************)
LEMMA MembersFinite ==
  ASSUME NEW d, NEW t
  PROVE  IsFiniteSet(Members(d, t)) /\ Members(d, t) \subseteq d.live \cap Observations
BY EntitiesAssumption, FS_Subset DEF Members

\* One more observation counts once, under its own usage.
LEMMA CountOneMore ==
  ASSUME NEW S, IsFiniteSet(S), NEW x, x \notin S
  PROVE  /\ Cardinality(S \cup {x}) = Cardinality(S) + 1
         /\ Cardinality(S) \in Nat
         /\ \A a, u : /\ Charged(a, S \cup {x}, u) = Charged(a, S, u) + One(a, x, u)
                      /\ Charged(a, S, u) \in Nat
<1> SUFFICES ASSUME NEW a, NEW u
             PROVE  /\ Cardinality(S \cup {x}) = Cardinality(S) + 1
                    /\ Cardinality(S) \in Nat
                    /\ Charged(a, S \cup {x}, u) = Charged(a, S, u) + One(a, x, u)
                    /\ Charged(a, S, u) \in Nat
  OBVIOUS
<1> DEFINE F(T) == {o \in T : a.value[o]["usage"] = u}
<1>1. IsFiniteSet(F(S)) /\ x \notin F(S)
  BY FS_Subset
<1>2. Cardinality(S) \in Nat /\ Cardinality(F(S)) \in Nat
  BY <1>1, FS_CardinalityType
<1>3. Cardinality(S \cup {x}) = Cardinality(S) + 1
  BY FS_AddElement
<1>4. CASE a.value[x]["usage"] = u
  <2>1. F(S \cup {x}) = F(S) \cup {x}
    BY <1>4
  <2>2. Cardinality(F(S) \cup {x}) = Cardinality(F(S)) + 1
    BY <1>1, FS_AddElement
  <2>3. Charged(a, S \cup {x}, u) = Cardinality(F(S)) + 1 /\ Charged(a, S, u) = Cardinality(F(S))
    BY <2>1, <2>2 DEF Charged
  <2> HIDE DEF F
  <2> QED BY <1>2, <1>3, <1>4, <2>3 DEF One
<1>5. CASE a.value[x]["usage"] # u
  <2>1. F(S \cup {x}) = F(S)
    BY <1>5
  <2>2. Charged(a, S \cup {x}, u) = Cardinality(F(S)) /\ Charged(a, S, u) = Cardinality(F(S))
    BY <2>1 DEF Charged
  <2> HIDE DEF F
  <2> QED BY <1>2, <1>3, <1>5, <2>2 DEF One
<1> QED BY <1>4, <1>5

\* Observations that did not change count the same.
LEMMA SameCount ==
  ASSUME NEW S, NEW d, NEW a, \A o \in S : a.value[o] = d.value[o], NEW u
  PROVE  Charged(a, S, u) = Charged(d, S, u)
<1>1. {o \in S : a.value[o]["usage"] = u} = {o \in S : d.value[o]["usage"] = u}
  OBVIOUS
<1> QED BY <1>1 DEF Charged

LEMMA TotalType ==
  ASSUME NEW d \in Database, NEW S, IsFiniteSet(S), NEW t \in Traces
  PROVE  Total(d, S, t) \in Total_ /\ NoTotal \in Total_
<1>1. Cardinality(S) \in Int
  BY FS_CardinalityType
<1>2. \A u \in Usages : Charged(d, S, u) \in Int
  <2> TAKE u \in Usages
  <2>1. IsFiniteSet({o \in S : d.value[o]["usage"] = u})
    BY FS_Subset
  <2> QED BY <2>1, FS_CardinalityType DEF Charged
<1>3. UserOf(d, t) \in Values /\ Null \in Values
  BY EntitiesAssumption DEF UserOf, Database, Row, Columns, Entities
<1> QED BY <1>1, <1>2, <1>3 DEF Total, NoTotal, Total_

\* What an event of trace or observation x does to who belongs to trace t.
LEMMA WrittenMembers ==
  ASSUME NEW d \in Database, NEW e \in Events, NEW a, a = Written(d, e), NEW t \in Traces
  PROVE  /\ Members(a, t) \ {e.id} = Members(d, t) \ {e.id}
         /\ \A o \in Members(d, t) \ {e.id} : a.value[o] = d.value[o]
         /\ e.id # t => UserOf(a, t) = UserOf(d, t)
         /\ e.id \in Traces => e.id \notin Members(a, t) /\ e.id \notin Members(d, t)
<1>1. e.id \in Entities
  BY VersionType
<1>2. a.live = d.live \cup {e.id} /\ a.value = [d.value EXCEPT ![e.id] = NewRow(d, e)]
  BY DEF Written
<1>3. d.value \in [Entities -> Row] /\ d.live \subseteq Entities
  BY DEF Database
<1>4. \A y \in Entities \ {e.id} : a.value[y] = d.value[y]
  BY <1>1, <1>2, <1>3
<1>5. \A y \in d.live \ {e.id} : a.value[y] = d.value[y]
  BY <1>3, <1>4
<1>6. Members(a, t) \ {e.id} = Members(d, t) \ {e.id}
  BY <1>2, <1>5 DEF Members
<1>7. \A o \in Members(d, t) \ {e.id} : a.value[o] = d.value[o]
  BY <1>5 DEF Members
<1>8. e.id # t => UserOf(a, t) = UserOf(d, t)
  BY <1>2, <1>5 DEF UserOf
<1>9. e.id \in Traces => e.id \notin Members(a, t) /\ e.id \notin Members(d, t)
  BY EntitiesAssumption DEF Members
<1> QED BY <1>6, <1>7, <1>8, <1>9

\* Where a total can be kept by increments, the increment is right.
LEMMA NewTotalExact ==
  ASSUME NEW d \in Database, NEW e \in Events, NEW a, a = Written(d, e),
         NEW t \in Traces \ ToRecompute(d, a, e.id),
         IF t \in d.materialized
         THEN Members(d, t) # {} /\ d.metric[t] = Total(d, Members(d, t), t)
         ELSE d.metric[t] = NoTotal
  PROVE  LET x == e.id
             m == IF x = t /\ t \notin d.materialized THEN d.metric[t]
                  ELSE NewTotal(d, a, x, t)
         IN IF \/ Joins(d, a, x, t)
               \/ t \in d.materialized /\ ~ (Leaves(d, a, x, t) /\ d.metric[t].count - 1 <= 0)
            THEN Members(a, t) # {} /\ m = Total(a, Members(a, t), t)
            ELSE m = NoTotal /\ (Leaves(d, a, x, t) => Members(a, t) = {})
<1> DEFINE x == e.id
           M == Members(d, t)
           N == Members(a, t)
           R == M \ {x}
<1>1. /\ N \ {x} = R /\ \A o \in R : a.value[o] = d.value[o]
      /\ x # t => UserOf(a, t) = UserOf(d, t)
      /\ x \in Traces => x \notin N /\ x \notin M
  BY WrittenMembers
<1>2. IsFiniteSet(M) /\ IsFiniteSet(N) /\ IsFiniteSet(R) /\ x \notin R
  BY MembersFinite, FS_Subset
<1>3. \A u : Charged(a, R, u) = Charged(d, R, u)
  BY <1>1, SameCount
<1>0. R = M \ {x}
  OBVIOUS
<1>7. t \in d.materialized => M # {} /\ d.metric[t] = Total(d, M, t)
  OBVIOUS
<1>8. t \notin d.materialized => d.metric[t] = NoTotal
  OBVIOUS
<1> HIDE DEF x, M, N, R
<1>4. /\ Cardinality(R \cup {x}) = Cardinality(R) + 1 /\ Cardinality(R) \in Nat
      /\ \A b, u : /\ Charged(b, R \cup {x}, u) = Charged(b, R, u) + One(b, x, u)
                  /\ Charged(b, R, u) \in Nat
  BY <1>2, CountOneMore
<1>5. \A u : Charged(d, R \cup {x}, u) = Charged(d, R, u) + One(d, x, u)
  BY <1>4
<1>6. \A u : One(a, x, u) \in Nat /\ One(d, x, u) \in Nat
  BY DEF One
<1>a. CASE x = t
  <2>1. x \notin N /\ x \notin M /\ M = N /\ R = M
    BY <1>0, <1>1, <1>a
  <2>2. ~ Joins(d, a, x, t) /\ ~ Leaves(d, a, x, t)
    BY <2>1 DEF Joins, Leaves, M, N
  <2>3. CASE t \in d.materialized
    <3>1. [d.metric[t] EXCEPT !.user = UserOf(a, t)] = Total(a, N, t)
      BY <1>3, <1>7, <2>1, <2>3 DEF Total
    <3> QED BY <1>7, <1>a, <2>1, <2>2, <2>3, <3>1 DEF NewTotal, N, x
  <2>4. CASE t \notin d.materialized
    BY <1>8, <1>a, <2>2, <2>4 DEF x
  <2> QED BY <2>3, <2>4
<1>b. CASE x # t /\ x \in N /\ x \notin M
  <2>1. Joins(d, a, x, t) /\ N = M \cup {x} /\ R = M /\ N # {}
    BY <1>0, <1>1, <1>b DEF Joins, M, N
  <2>2. CASE t \in d.materialized
    <3>1. Added(d.metric[t], a, x, t) = Total(a, N, t)
      <4>1. Total(a, N, t).usage = [u \in Usages |-> Total(d, M, t).usage[u] + One(a, x, u)]
        BY <1>3, <1>4, <2>1 DEF Total
      <4>2. Total(a, N, t).count = Total(d, M, t).count + 1
        BY <1>4, <2>1 DEF Total
      <4> QED BY <1>7, <2>2, <4>1, <4>2 DEF Added, Total
    <3> QED BY <1>b, <2>1, <2>2, <3>1 DEF NewTotal, N, x
  <2>3. CASE t \notin d.materialized
    <3>1. N = {x}
      BY <1>b, <2>1, <2>3 DEF ToRecompute, x, N
    <3> QED BY <1>b, <2>1, <2>3, <3>1 DEF NewTotal, N, x
  <2> QED BY <2>2, <2>3
<1>c. CASE x # t /\ x \in M /\ x \notin N
  <2>1. Leaves(d, a, x, t) /\ ~ Joins(d, a, x, t) /\ M = R \cup {x} /\ N = R
    BY <1>0, <1>1, <1>c DEF Joins, Leaves, M, N
  <2>2. t \in d.materialized
    BY <1>c, <2>1 DEF ToRecompute, x
  <2>3. d.metric[t].count = Cardinality(R) + 1
    <3>1. Total(d, M, t).count = Cardinality(M)
      BY DEF Total
    <3>2. Cardinality(M) = Cardinality(R) + 1
      BY <1>4, <2>1
    <3> QED BY <1>7, <2>2, <3>1, <3>2
  <2>4. CASE Cardinality(R) = 0
    <3>1. NewTotal(d, a, x, t) = NoTotal
      BY <1>c, <2>1, <2>3, <2>4 DEF NewTotal, Removed
    <3>2. N = {}
      BY <1>2, <2>1, <2>4, FS_EmptySet
    <3> QED BY <1>c, <2>1, <2>3, <2>4, <3>1, <3>2 DEF N, x
  <2>5. CASE Cardinality(R) # 0
    <3>1. R # {}
      BY <2>5, FS_EmptySet
    <3>2. Cardinality(R) \in Nat /\ ~ (d.metric[t].count - 1 <= 0)
      BY <1>4, <2>3, <2>5
    <3>3. \A u \in Usages : d.metric[t].usage[u] - One(d, x, u) = Total(a, N, t).usage[u]
      <4> TAKE u \in Usages
      <4>1. d.metric[t].usage[u] = Charged(a, R, u) + One(d, x, u)
        BY <1>3, <1>5, <1>7, <2>1, <2>2 DEF Total
      <4>2. Total(a, N, t).usage[u] = Charged(a, R, u)
        BY <2>1 DEF Total
      <4> QED BY <1>4, <1>6, <4>1, <4>2
    <3>4. d.metric[t].count - 1 = Total(a, N, t).count /\ d.metric[t].user = UserOf(a, t)
      BY <1>1, <1>4, <1>7, <1>c, <2>1, <2>2, <2>3 DEF Total
    <3>5. Removed(d.metric[t], d, x) = Total(a, N, t)
      BY <3>2, <3>3, <3>4 DEF Removed, Total
    <3>6. NewTotal(d, a, x, t) = Total(a, N, t)
      BY <1>c, <2>1, <3>5 DEF NewTotal
    <3> QED BY <1>c, <2>1, <2>2, <3>1, <3>2, <3>6 DEF N, x
  <2> QED BY <2>4, <2>5
<1>d. CASE x # t /\ x \in M /\ x \in N
  <2>1. /\ ~ Leaves(d, a, x, t) /\ ~ Joins(d, a, x, t) /\ Stays(d, a, x, t)
        /\ M = R \cup {x} /\ N = M
    BY <1>0, <1>1, <1>d DEF Joins, Leaves, Stays, M, N
  <2>2. t \in d.materialized
    BY <1>d, <2>1 DEF ToRecompute, x
  <2>3. \A u \in Usages : d.metric[t].usage[u] + One(a, x, u) - One(d, x, u)
                         = Total(a, N, t).usage[u]
    <3> TAKE u \in Usages
    <3>1. d.metric[t].usage[u] = Charged(a, R, u) + One(d, x, u)
      <4>1. d.metric[t] = Total(d, M, t)
        BY <1>7, <2>2
      <4>2. Total(d, M, t).usage[u] = Charged(d, M, u)
        BY DEF Total
      <4> QED BY <1>3, <1>5, <2>1, <4>1, <4>2
    <3>2. Total(a, N, t).usage[u] = Charged(a, R, u) + One(a, x, u)
      BY <1>4, <2>1 DEF Total
    <3> QED BY <1>4, <1>6, <3>1, <3>2
  <2>4. d.metric[t].count = Total(a, N, t).count /\ d.metric[t].user = UserOf(a, t)
    BY <1>1, <1>7, <1>d, <2>1, <2>2 DEF Total
  <2>5. Shifted(d.metric[t], d, a, x) = Total(a, N, t)
    BY <2>3, <2>4 DEF Shifted, Total
  <2>6. NewTotal(d, a, x, t) = Total(a, N, t)
    BY <1>d, <2>1, <2>5 DEF NewTotal
  <2> QED BY <1>7, <1>d, <2>1, <2>2, <2>6 DEF N, x
<1>e. CASE x # t /\ x \notin M /\ x \notin N
  <2>1. /\ ~ Leaves(d, a, x, t) /\ ~ Joins(d, a, x, t) /\ ~ Stays(d, a, x, t)
        /\ M = R /\ N = R
    BY <1>0, <1>1, <1>e DEF Joins, Leaves, Stays, M, N
  <2>2. NewTotal(d, a, x, t) = d.metric[t]
    BY <1>e, <2>1 DEF NewTotal
  <2>3. Total(a, N, t) = Total(d, M, t)
    BY <1>1, <1>3, <1>e, <2>1 DEF Total
  <2> QED BY <1>7, <1>8, <1>e, <2>1, <2>2, <2>3 DEF N, x
<1> QED BY <1>a, <1>b, <1>c, <1>d, <1>e

LEMMA TotalOfSame ==
  ASSUME NEW d, NEW a, a.live = d.live, a.value = d.value, NEW t
  PROVE  Members(a, t) = Members(d, t) /\ UserOf(a, t) = UserOf(d, t)
         /\ \A S : Total(a, S, t) = Total(d, S, t)
BY DEF Members, UserOf, Total, Charged

LEMMA RecordedExact ==
  ASSUME NEW d \in Database, NEW P0 \in SUBSET Traces, TotalsExact(d, P0), NEW e \in Events,
         NEW a, a = Written(d, e), NEW P, P = P0 \cup ToRecompute(d, a, e.id)
  PROVE  TotalsExact(Recorded(d, a, e.id, P), P)
<1> DEFINE x == e.id
           r == Recorded(d, a, x, P)
<1>1. SUFFICES ASSUME NEW t \in Traces \ P
               PROVE  IF t \in r.materialized
                      THEN Members(r, t) # {} /\ r.metric[t] = Total(r, Members(r, t), t)
                      ELSE r.metric[t] = NoTotal
  BY DEF TotalsExact
<1>2. t \in Traces \ ToRecompute(d, a, x) /\ t \in Traces \ P0
  OBVIOUS
<1>3. IF t \in d.materialized
      THEN Members(d, t) # {} /\ d.metric[t] = Total(d, Members(d, t), t)
      ELSE d.metric[t] = NoTotal
  BY <1>2 DEF TotalsExact
<1> DEFINE m == IF x = t /\ t \notin d.materialized THEN d.metric[t] ELSE NewTotal(d, a, x, t)
<1>4. IF \/ Joins(d, a, x, t)
         \/ t \in d.materialized /\ ~ (Leaves(d, a, x, t) /\ d.metric[t].count - 1 <= 0)
      THEN Members(a, t) # {} /\ m = Total(a, Members(a, t), t)
      ELSE m = NoTotal /\ (Leaves(d, a, x, t) => Members(a, t) = {})
  BY <1>2, <1>3, NewTotalExact
<1>5. r.metric[t] = m
  BY DEF Recorded
<1>6. t \in r.materialized <=>
        \/ Joins(d, a, x, t)
        \/ t \in d.materialized /\ ~ (Leaves(d, a, x, t) /\ d.metric[t].count - 1 <= 0)
  BY DEF Recorded
<1>7. r.live = a.live /\ r.value = a.value
  BY DEF Recorded
<1>8. Members(r, t) = Members(a, t) /\ \A S : Total(r, S, t) = Total(a, S, t)
  BY <1>7, TotalOfSame
<1> HIDE DEF m, r
<1> QED BY <1>4, <1>5, <1>6, <1>8

LEMMA FlushedExact ==
  ASSUME NEW d, NEW P \in SUBSET Traces, TotalsExact(d, P)
  PROVE  TotalsExact(Flushed(d, P), {})
<1> DEFINE f == Flushed(d, P)
<1>1. SUFFICES ASSUME NEW t \in Traces
               PROVE  IF t \in f.materialized
                      THEN Members(f, t) # {} /\ f.metric[t] = Total(f, Members(f, t), t)
                      ELSE f.metric[t] = NoTotal
  BY DEF TotalsExact
<1>2. f.live = d.live /\ f.value = d.value
  BY DEF Flushed
<1>3. Members(f, t) = Members(d, t) /\ \A S : Total(f, S, t) = Total(d, S, t)
  BY <1>2, TotalOfSame
<1>4. /\ f.metric[t] = (IF t \notin P THEN d.metric[t]
                        ELSE IF Members(d, t) = {} THEN NoTotal
                        ELSE Total(d, Members(d, t), t))
      /\ t \in f.materialized <=> IF t \notin P THEN t \in d.materialized ELSE Members(d, t) # {}
  BY DEF Flushed
<1> HIDE DEF f
<1>5. CASE t \in P
  BY <1>3, <1>4, <1>5
<1>6. CASE t \notin P
  BY <1>3, <1>4, <1>6 DEF TotalsExact
<1> QED BY <1>5, <1>6

LEMMA WithoutExact ==
  ASSUME NEW d \in Database, TotalsExact(d, {}), NEW S
  PROVE  TotalsExact(Without(d, S), TracesOf(d, S))
<1> DEFINE w == Without(d, S)
<1>1. SUFFICES ASSUME NEW t \in Traces \ TracesOf(d, S)
               PROVE  IF t \in w.materialized
                      THEN Members(w, t) # {} /\ w.metric[t] = Total(w, Members(w, t), t)
                      ELSE w.metric[t] = NoTotal
  BY DEF TotalsExact
<1>2. t \notin S /\ Members(d, t) \cap S = {}
  BY DEF TracesOf
<1>3. /\ w.live = d.live \ S /\ w.metric = d.metric /\ w.materialized = d.materialized
      /\ w.value = [x \in Entities |-> IF x \in S THEN Default ELSE d.value[x]]
      /\ d.live \subseteq Entities
  BY DEF Without, Database
<1>4. Members(w, t) = Members(d, t) /\ UserOf(w, t) = UserOf(d, t)
  BY <1>2, <1>3 DEF Members, UserOf
<1>5. \A o \in Members(d, t) : w.value[o] = d.value[o]
  BY <1>2, <1>3 DEF Members
<1>6. \A u : Charged(w, Members(d, t), u) = Charged(d, Members(d, t), u)
  BY <1>5, SameCount
<1>7. Total(w, Members(d, t), t) = Total(d, Members(d, t), t)
  BY <1>4, <1>6 DEF Total
<1> HIDE DEF w
<1> QED BY <1>3, <1>4, <1>7 DEF TotalsExact

LEMMA RecordedType ==
  ASSUME NEW d \in Database, NEW e \in Events, NEW P
  PROVE  Recorded(d, Written(d, e), e.id, P) \in Database
<1> DEFINE a == Written(d, e)
           x == e.id
<1>1. a \in Database /\ x \in Entities
  BY WrittenType, VersionType
<1>2. ASSUME NEW t \in Traces PROVE NewTotal(d, a, x, t) \in Total_
  <2>1. d.metric[t] \in Total_ /\ UserOf(a, t) \in Values /\ Null \in Values
    BY <1>1, EntitiesAssumption DEF Database, UserOf, Row, Columns, Entities
  <2>2. \A b, u : One(b, x, u) \in Int
    BY DEF One
  <2>3. Total(a, {x}, t) \in Total_ /\ NoTotal \in Total_
    BY <1>1, TotalType, FS_Singleton
  <2>4. [d.metric[t] EXCEPT !.user = UserOf(a, t)] \in Total_
    BY <2>1 DEF Total_
  <2>5. Added(d.metric[t], a, x, t) \in Total_
    BY <2>1, <2>2 DEF Total_, Added
  <2>6. Removed(d.metric[t], d, x) \in Total_
    BY <2>1, <2>2, <2>3 DEF Total_, Removed
  <2>7. Shifted(d.metric[t], d, a, x) \in Total_
    BY <2>1, <2>2 DEF Total_, Shifted
  <2> QED BY <2>1, <2>3, <2>4, <2>5, <2>6, <2>7 DEF NewTotal
<1>3. /\ a.live \subseteq Entities /\ a.ts \in [Entities -> Nat] /\ a.value \in [Entities -> Row]
      /\ a.seen \in [Entities -> SUBSET Events] /\ a.versioned \subseteq Entities
      /\ a.version \in [Entities -> [Columns -> Int \X Nat]]
      /\ d.metric \in [Traces -> Total_]
  BY <1>1 DEF Database
<1> HIDE DEF a, x
<1>4. Recorded(d, a, x, P).metric \in [Traces -> Total_]
  BY <1>2, <1>3 DEF Recorded
<1>5. Recorded(d, a, x, P).materialized \subseteq Traces
  BY DEF Recorded
<1>6. Recorded(d, a, x, P) \in Database
  BY <1>3, <1>4, <1>5 DEF Recorded, Database
<1> QED BY <1>6 DEF a, x

LEMMA FlushedType ==
  ASSUME NEW d \in Database, NEW P
  PROVE  Flushed(d, P) \in Database
<1>1. \A t \in Traces : Total(d, Members(d, t), t) \in Total_ /\ NoTotal \in Total_
  BY TotalType, MembersFinite
<1>2. Flushed(d, P).metric \in [Traces -> Total_]
  BY <1>1 DEF Flushed, Database
<1>3. Flushed(d, P).materialized \subseteq Traces
  BY DEF Flushed, Database
<1> QED BY <1>2, <1>3 DEF Flushed, Database

LEMMA WithoutType ==
  ASSUME NEW d \in Database, NEW S
  PROVE  Without(d, S) \in Database
BY DefaultAssumption DEF Without, Database, NoVersion

LEMMA WithoutRows ==
  ASSUME NEW d \in Database, RowsLatest(d), Unversioned(d), NEW S
  PROVE  RowsLatest(Without(d, S)) /\ Unversioned(Without(d, S))
<1> DEFINE w == Without(d, S)
<1>1. /\ w.live = d.live \ S /\ w.versioned = d.versioned \ S
      /\ \A x \in Entities \ S : /\ w.ts[x] = d.ts[x] /\ w.value[x] = d.value[x]
                               /\ w.seen[x] = d.seen[x] /\ w.version[x] = d.version[x]
      /\ \A x \in Entities \cap S : w.seen[x] = {} /\ w.version[x] = [c \in Columns |-> NoVersion]
      /\ d.live \subseteq Entities /\ d.versioned \subseteq Entities
  BY DEF Without, Database
<1> HIDE DEF w
<1>2. RowsLatest(w)
  BY <1>1 DEF RowsLatest, ColumnLatest
<1>3. Unversioned(w)
  BY <1>1 DEF Unversioned
<1> QED BY <1>2, <1>3 DEF w

(***************************************************************************)
(* The inductive invariant.                                                *)
(***************************************************************************)
\* A trace whose observations d changed has its total, or will have it.
Touched(d, P) ==
  \A t \in Traces \ P : Members(d, t) # Members(db, t) =>
    (t \in d.materialized <=> Members(d, t) # {})

LEMMA RecordedTouched ==
  ASSUME NEW d \in Database, NEW P0 \in SUBSET Traces, TotalsExact(d, P0), Touched(d, P0),
         NEW e \in Events, NEW a, a = Written(d, e), NEW P, P = P0 \cup ToRecompute(d, a, e.id)
  PROVE  Touched(Recorded(d, a, e.id, P), P)
<1> DEFINE x == e.id
           r == Recorded(d, a, x, P)
<1>1. SUFFICES ASSUME NEW t \in Traces \ P, Members(r, t) # Members(db, t)
               PROVE  t \in r.materialized <=> Members(r, t) # {}
  BY DEF Touched
<1>2. t \in Traces \ ToRecompute(d, a, x) /\ t \in Traces \ P0
  OBVIOUS
<1>3. IF t \in d.materialized
      THEN Members(d, t) # {} /\ d.metric[t] = Total(d, Members(d, t), t)
      ELSE d.metric[t] = NoTotal
  BY <1>2 DEF TotalsExact
<1>4. IF \/ Joins(d, a, x, t)
         \/ t \in d.materialized /\ ~ (Leaves(d, a, x, t) /\ d.metric[t].count - 1 <= 0)
      THEN Members(a, t) # {}
      ELSE Leaves(d, a, x, t) => Members(a, t) = {}
  BY <1>2, <1>3, NewTotalExact
<1>5. t \in r.materialized <=>
        \/ Joins(d, a, x, t)
        \/ t \in d.materialized /\ ~ (Leaves(d, a, x, t) /\ d.metric[t].count - 1 <= 0)
  BY DEF Recorded
<1>6. r.live = a.live /\ r.value = a.value
  BY DEF Recorded
<1>7. Members(r, t) = Members(a, t)
  BY <1>6, TotalOfSame
<1>8. Members(a, t) \ {x} = Members(d, t) \ {x}
  BY <1>2, WrittenMembers
<1> HIDE DEF r, x
<1>9. CASE Joins(d, a, x, t) \/ Leaves(d, a, x, t)
  BY <1>4, <1>5, <1>7, <1>9 DEF Joins, Leaves
<1>10. CASE ~ Joins(d, a, x, t) /\ ~ Leaves(d, a, x, t)
  <2>1. Members(a, t) = Members(d, t)
    BY <1>8, <1>10 DEF Joins, Leaves
  <2>2. t \in r.materialized <=> t \in d.materialized
    BY <1>5, <1>10
  <2> QED BY <1>1, <1>2, <1>7, <2>1, <2>2 DEF Touched
<1> QED BY <1>9, <1>10

Sound(d, P) ==
  d \in Database /\ TotalsExact(d, P) /\ RowsLatest(d) /\ Unversioned(d) /\ Touched(d, P)

IInv ==
  /\ TypeOK
  /\ Sound(db, {}) /\ Sound(work, pending)
  /\ batch = NoBatch => work = db /\ pending = {}

LEMMA SameTouched ==
  ASSUME NEW d, NEW P, NEW Q, Touched(d, P), P \subseteq Q
  PROVE  Touched(d, Q)
BY DEF Touched

LEMMA LegacyType == \A L \in SUBSET LegacyRows : Legacy(L) \in Database
<1> TAKE L \in SUBSET LegacyRows
<1>1. NoTotal \in Total_
  BY EntitiesAssumption DEF NoTotal, Total_
<1> QED BY <1>1, LegacyAssumption, DefaultAssumption DEF Legacy, Database, NoVersion

LEMMA InitIInv == Init => IInv
<1> SUFFICES ASSUME Init PROVE IInv
  OBVIOUS
<1>1. PICK L \in SUBSET LegacyRows, M \in SUBSET Traces : db = Flushed(Legacy(L), M)
  BY DEF Init
<1> DEFINE g == Legacy(L)
<1>2. g \in Database
  BY LegacyType
<1>3. /\ g.live = L /\ g.versioned = {} /\ g.materialized = {}
      /\ g.metric = [t \in Traces |-> NoTotal]
      /\ \A x \in Entities : /\ g.seen[x] = {} /\ g.version[x] = [c \in Columns |-> NoVersion]
                             /\ x \in L => g.ts[x] = LegacyTs /\ g.value[x] = LegacyValue[x]
  BY DEF Legacy
<1>4. L \subseteq Entities
  BY LegacyAssumption
<1> HIDE DEF g
<1>5. TotalsExact(g, M) /\ RowsLatest(g) /\ Unversioned(g)
  BY <1>3, <1>4 DEF TotalsExact, RowsLatest, Unversioned
<1>6. db = Flushed(g, M)
  BY <1>1 DEF g
<1>7. TotalsExact(db, {}) /\ db \in Database
  BY <1>2, <1>5, <1>6, FlushedExact, FlushedType
<1>8. /\ db.live = g.live /\ db.ts = g.ts /\ db.value = g.value
      /\ db.seen = g.seen /\ db.versioned = g.versioned /\ db.version = g.version
  BY <1>6 DEF Flushed
<1>9. RowsLatest(db) /\ Unversioned(db)
  BY <1>5, <1>8, SameRows DEF Unversioned
<1>10. Touched(db, {})
  BY DEF Touched
<1>11. work = db /\ pending = {} /\ batch = NoBatch
  BY DEF Init
<1> QED BY <1>7, <1>9, <1>10, <1>11 DEF IInv, TypeOK, Sound, NoBatch

\* A database whose state is exact and whose rows are the latest is sound
\* when it becomes the committed one.
LEMMA CommittedSound ==
  ASSUME db' \in Database, TotalsExact(db', {}), RowsLatest(db'), Unversioned(db'),
         work' = db', pending' = {}, batch' = NoBatch
  PROVE  IInv'
<1>1. Sound(db, {})' /\ Sound(work, pending)'
  BY DEF Sound, Touched, TotalsExact, RowsLatest, Unversioned, ColumnLatest
<1>2. TypeOK'
  BY DEF TypeOK, NoBatch
<1> QED BY <1>1, <1>2 DEF IInv

LEMMA CommitSound == IInv /\ Commit => IInv'
<1> SUFFICES ASSUME IInv, Commit PROVE IInv'
  OBVIOUS
<1>1. /\ work \in Database /\ TotalsExact(work, pending) /\ RowsLatest(work) /\ Unversioned(work)
      /\ pending \in SUBSET Traces
  BY DEF IInv, Sound, TypeOK
<1>2. db' = Flushed(work, pending) /\ work' = db' /\ pending' = {} /\ batch' = NoBatch
  BY DEF Commit
<1>3. db' \in Database /\ TotalsExact(db', {})
  BY <1>1, <1>2, FlushedExact, FlushedType
<1>4. /\ db'.live = work.live /\ db'.ts = work.ts /\ db'.value = work.value
      /\ db'.seen = work.seen /\ db'.versioned = work.versioned /\ db'.version = work.version
  BY <1>2 DEF Flushed
<1>5. RowsLatest(db')
  BY <1>1, <1>4, SameRows
<1>6. Unversioned(db')
  BY <1>1, <1>4 DEF Unversioned
<1> QED BY <1>2, <1>3, <1>5, <1>6, CommittedSound

LEMMA DeleteSound == ASSUME IInv, NEW S, DeleteRows(S) PROVE IInv'
<1> DEFINE w == Without(db, S)
           P == TracesOf(db, S)
<1>1. db \in Database /\ TotalsExact(db, {}) /\ RowsLatest(db) /\ Unversioned(db)
  BY DEF IInv, Sound
<1>2. /\ db' = Flushed(w, P) /\ work' = db' /\ pending' = {} /\ batch' = NoBatch
      /\ P \in SUBSET Traces
  BY DEF DeleteRows, IInv, TracesOf
<1>3. w \in Database /\ TotalsExact(w, P) /\ RowsLatest(w) /\ Unversioned(w)
  BY <1>1, WithoutType, WithoutExact, WithoutRows
<1> HIDE DEF w, P
<1>4. db' \in Database /\ TotalsExact(db', {})
  BY <1>2, <1>3, FlushedExact, FlushedType
<1>5. /\ db'.live = w.live /\ db'.ts = w.ts /\ db'.value = w.value
      /\ db'.seen = w.seen /\ db'.versioned = w.versioned /\ db'.version = w.version
  BY <1>2 DEF Flushed
<1>6. RowsLatest(db')
  BY <1>3, <1>5, SameRows
<1>7. Unversioned(db')
  BY <1>3, <1>5 DEF Unversioned
<1> QED BY <1>2, <1>4, <1>6, <1>7, CommittedSound

LEMMA PurgeSound == ASSUME IInv, NEW t \in Traces, PurgeTotal(t) PROVE IInv'
<1>1. db \in Database /\ TotalsExact(db, {}) /\ RowsLatest(db) /\ Unversioned(db)
  BY DEF IInv, Sound
<1>2. /\ db'.live = db.live /\ db'.ts = db.ts /\ db'.value = db.value /\ db'.seen = db.seen
      /\ db'.versioned = db.versioned /\ db'.version = db.version
      /\ db'.metric = [db.metric EXCEPT ![t] = NoTotal]
      /\ db'.materialized = db.materialized \ {t}
  BY DEF PurgeTotal
<1>3. NoTotal \in Total_
  BY EntitiesAssumption DEF NoTotal, Total_
<1>4. db' \in Database
  BY <1>1, <1>3 DEF PurgeTotal, Database
<1>5. TotalsExact(db', {})
  <2> SUFFICES ASSUME NEW u \in Traces
               PROVE  IF u \in db'.materialized
                      THEN Members(db', u) # {} /\ db'.metric[u] = Total(db', Members(db', u), u)
                      ELSE db'.metric[u] = NoTotal
    BY DEF TotalsExact
  <2>1. Members(db', u) = Members(db, u) /\ \A S : Total(db', S, u) = Total(db, S, u)
    BY <1>2, TotalOfSame
  <2>2. db'.metric[u] = IF u = t THEN NoTotal ELSE db.metric[u]
    BY <1>1, <1>2 DEF Database
  <2> QED BY <1>1, <1>2, <2>1, <2>2 DEF TotalsExact
<1>6. RowsLatest(db')
  BY <1>1, <1>2, SameRows
<1>7. Unversioned(db')
  BY <1>1, <1>2 DEF Unversioned
<1>8. work' = db' /\ pending' = {} /\ batch' = NoBatch
  BY DEF PurgeTotal, IInv
<1> QED BY <1>4, <1>5, <1>6, <1>7, <1>8, CommittedSound

LEMMA RollbackSound == IInv /\ Rollback => IInv'
<1> SUFFICES ASSUME IInv, Rollback PROVE IInv'
  OBVIOUS
<1>1. db' = db /\ work' = db' /\ pending' = {} /\ batch' = NoBatch
  BY DEF Rollback
<1>2. db' \in Database /\ TotalsExact(db', {}) /\ RowsLatest(db') /\ Unversioned(db')
  BY <1>1 DEF IInv, Sound
<1> QED BY <1>1, <1>2, CommittedSound

LEMMA ApplySound == ASSUME IInv, NEW e \in Events, ApplyEvent(e) PROVE IInv'
<1>1. /\ work \in Database /\ TotalsExact(work, pending) /\ RowsLatest(work)
      /\ Unversioned(work) /\ Touched(work, pending) /\ pending \in SUBSET Traces
  BY DEF IInv, Sound, TypeOK
<1>2. db' = db /\ Sound(db, {}) /\ db \in Database
  BY DEF ApplyEvent, IInv, TypeOK
<1>3. batch' \in [table : {{}} \cup Tables, upTo : Nat] /\ batch' # NoBatch
  <2>1. e.ts \in Nat /\ e.id \in batch.table
    BY VersionType DEF ApplyEvent
  <2>2. batch.table \in {{}} \cup Tables
    BY DEF IInv, TypeOK
  <2>3. batch' = [table |-> batch.table, upTo |-> e.ts]
    BY DEF ApplyEvent
  <2>4. batch'.table # {}
    BY <2>1, <2>3
  <2> QED BY <2>1, <2>2, <2>3, <2>4 DEF NoBatch
<1>4. /\ work' \in Database /\ TotalsExact(work', pending') /\ RowsLatest(work')
      /\ Unversioned(work') /\ Touched(work', pending') /\ pending' \in SUBSET Traces
  <2>1. CASE Changes(work, e)
    <3> DEFINE a == Written(work, e)
               P == pending \cup ToRecompute(work, a, e.id)
    <3>1. pending' = P /\ work' = Recorded(work, a, e.id, P)
      BY <2>1 DEF ApplyEvent
    <3>2. RowsLatest(a) /\ Unversioned(a)
      BY <1>1, WrittenRows
    <3>3. P \in SUBSET Traces
      BY <1>1 DEF ToRecompute
    <3>4. work' \in Database
      BY <1>1, <3>1, RecordedType
    <3>5. TotalsExact(work', P) /\ Touched(work', P)
      BY <1>1, <3>1, RecordedExact, RecordedTouched
    <3>6. /\ work'.live = a.live /\ work'.ts = a.ts /\ work'.value = a.value
          /\ work'.seen = a.seen /\ work'.versioned = a.versioned /\ work'.version = a.version
      BY <3>1 DEF Recorded
    <3> HIDE DEF a, P
    <3>7. RowsLatest(work')
      BY <3>2, <3>6, SameRows
    <3>8. Unversioned(work')
      BY <3>2, <3>6 DEF Unversioned
    <3> QED BY <3>1, <3>3, <3>4, <3>5, <3>7, <3>8
  <2>2. CASE ~ Changes(work, e)
    <3>1. work' = Ignored(work, e) /\ pending' = pending
      BY <2>2 DEF ApplyEvent
    <3>2. RowsLatest(work') /\ Unversioned(work')
      BY <1>1, <2>2, <3>1, WrittenRows
    <3>3. work' \in Database
      BY <1>1, <3>1, WrittenType
    <3>4. /\ work'.live = work.live /\ work'.value = work.value
          /\ work'.metric = work.metric /\ work'.materialized = work.materialized
      BY <3>1 DEF Ignored
    <3>5. \A t : /\ Members(work', t) = Members(work, t)
                 /\ \A S : Total(work', S, t) = Total(work, S, t)
      BY <3>4, TotalOfSame
    <3>6. TotalsExact(work', pending')
      BY <1>1, <3>1, <3>4, <3>5 DEF TotalsExact
    <3>7. Touched(work', pending')
      BY <1>1, <3>1, <3>4, <3>5 DEF Touched
    <3> QED BY <1>1, <3>1, <3>2, <3>3, <3>6, <3>7
  <2> QED BY <2>1, <2>2
<1>5. Sound(db, {})'
  BY <1>2 DEF Sound, Touched
<1>6. Sound(work, pending)'
  <2>1. Touched(work, pending)'
    BY <1>2, <1>4 DEF Touched
  <2> QED BY <1>4, <2>1 DEF Sound
<1>7. TypeOK'
  BY <1>2, <1>3, <1>4 DEF TypeOK
<1> QED BY <1>3, <1>5, <1>6, <1>7 DEF IInv

LEMMA StepIInv == IInv /\ [Next]_vars => IInv'
<1> SUFFICES ASSUME IInv, [Next]_vars PROVE IInv'
  OBVIOUS
<1>1. ASSUME NEW table \in Tables, Begin(table) PROVE IInv'
  <2>1. db' = db /\ work' = work /\ pending' = pending
        /\ batch' = [table |-> table, upTo |-> 0] /\ work = db /\ pending = {}
    BY <1>1 DEF Begin, IInv
  <2>2. Sound(db, {})' /\ Sound(work, pending)'
    BY <2>1 DEF IInv, Sound, Touched
  <2>3. TypeOK'
    BY <2>1 DEF IInv, TypeOK
  <2> QED BY <2>1, <2>2, <2>3 DEF IInv
<1>2. CASE UNCHANGED vars
  <2>1. Sound(db, {})' /\ Sound(work, pending)'
    BY <1>2 DEF vars, IInv, Sound, Touched
  <2> QED BY <1>2, <2>1 DEF vars, IInv, TypeOK
<1> QED BY <1>1, <1>2, ApplySound, CommitSound, RollbackSound, DeleteSound, PurgeSound DEF Next

\* Totals are exact and columns hold the latest values, for every instance.
THEOREM IngestionSound == Spec => []IngestionInv
<1>1. IInv => IngestionInv
  BY DEF IInv, Sound, IngestionInv
<1> QED BY <1>1, InitIInv, StepIInv, PTL DEF Spec

\* A trace whose observations change has its total when the change commits.
THEOREM TotalsFollow == Spec => TouchedMeansTotal
<1>1. IInv /\ [Next]_vars =>
        [\A t \in Traces : Members(db, t) # Members(db', t) =>
           (t \in db'.materialized <=> Members(db', t) # {})]_vars
  <2> SUFFICES ASSUME IInv, Next, NEW t \in Traces, Members(db, t) # Members(db', t)
               PROVE  t \in db'.materialized <=> Members(db', t) # {}
    BY DEF vars
  <2>1. ASSUME NEW d, NEW P, db' = Flushed(d, P)
        PROVE  /\ Members(db', t) = Members(d, t)
               /\ t \in db'.materialized <=>
                    IF t \notin P THEN t \in d.materialized ELSE Members(d, t) # {}
    <3>1. db'.live = d.live /\ db'.value = d.value
      BY <2>1 DEF Flushed
    <3>2. Members(db', t) = Members(d, t)
      BY <3>1, TotalOfSame
    <3>3. t \in db'.materialized <=>
            IF t \notin P THEN t \in d.materialized ELSE Members(d, t) # {}
      BY <2>1 DEF Flushed
    <3> QED BY <3>2, <3>3
  <2>2. CASE Commit
    <3>1. db' = Flushed(work, pending) /\ Touched(work, pending)
      BY <2>2 DEF Commit, IInv, Sound
    <3> QED BY <2>1, <3>1 DEF Touched
  <2>3. ASSUME NEW S, DeleteRows(S) PROVE t \in db'.materialized <=> Members(db', t) # {}
    <3>1. db' = Flushed(Without(db, S), TracesOf(db, S)) /\ db \in Database
      BY <2>3 DEF DeleteRows, IInv, TypeOK
    <3>2. Members(db', t) = Members(Without(db, S), t)
      BY <2>1, <3>1
    <3>3. t \in TracesOf(db, S)
      <4>1. Members(db, t) \cap S = {} => Members(Without(db, S), t) = Members(db, t)
        BY <3>1 DEF Members, Without, Database
      <4> QED BY <3>2, <4>1 DEF TracesOf
    <3> QED BY <2>1, <3>1, <3>3
  <2>4. ASSUME db' = db PROVE FALSE
    BY <2>4
  <2>5. ASSUME NEW u \in Traces, PurgeTotal(u) PROVE FALSE
    <3>1. db'.live = db.live /\ db'.value = db.value
      BY <2>5 DEF PurgeTotal
    <3> QED BY <3>1, TotalOfSame
  <2> QED BY <2>2, <2>3, <2>4, <2>5 DEF Next, Begin, ApplyEvent, Rollback
<1> QED BY <1>1, InitIInv, StepIInv, PTL DEF Spec, TouchedMeansTotal

\* What was delivered once may be delivered again.
THEOREM RetriesAreHarmless == Spec => RetryChangesNothing
<1>1. IInv /\ [Next]_vars =>
        [\A e \in Events :
           e \in work.seen[e.id] /\ ApplyEvent(e) => UNCHANGED <<work, pending>>]_vars
  <2> SUFFICES ASSUME IInv, NEW e \in Events, ApplyEvent(e), e \in work.seen[e.id]
               PROVE  work' = work /\ pending' = pending
    OBVIOUS
  <2> DEFINE x == e.id
  <2>1. /\ work \in Database /\ RowsLatest(work) /\ Unversioned(work)
        /\ x \in Entities /\ e.ts \in Nat
    BY VersionType DEF IInv, Sound
  <2>2. x \in work.versioned /\ x \in work.live
    BY <2>1 DEF Unversioned, RowsLatest
  <2>3. Known(work, x) = work.version[x]
    BY <2>2 DEF Known
  <2>4. \A c \in Columns : c \in DOMAIN e.sets => ~ Older(Known(work, x)[c], VersionOf(e))
    BY <2>1, <2>2, <2>3 DEF RowsLatest, ColumnLatest
  <2>5. Inherited(work, e) = {}
    <3> SUFFICES ASSUME NEW c \in Inherited(work, e) PROVE FALSE
      OBVIOUS
    <3>1. /\ c \in DOMAIN e.inherits \ DOMAIN e.sets
          /\ work.version[x][c] = NoVersion /\ work.value[x][c] = Null
      BY <2>2, <2>3 DEF Inherited
    <3> QED BY <2>1, <3>1 DEF Unversioned
  <2>6. DOMAIN e.sets \subseteq Columns
    BY EventsAssumption DEF Patch
  <2>7. Accepted(work, e) = {}
    BY <2>4, <2>5, <2>6 DEF Accepted
  <2>8. e.ts <= work.ts[x] /\ work.ts[x] \in Nat
    BY <2>1, <2>2 DEF RowsLatest, Database
  <2>9. ~ Changes(work, e)
    BY <2>1, <2>2, <2>7, <2>8 DEF Changes
  <2>10. work' = Ignored(work, e) /\ pending' = pending
    BY <2>9 DEF ApplyEvent
  <2>11. NewVersion(work, e) = work.version[x]
    BY <2>1, <2>3, <2>7 DEF NewVersion, Database
  <2>12. /\ [work.seen EXCEPT ![x] = @ \cup {e}] = work.seen
         /\ work.versioned \cup {x} = work.versioned
         /\ [work.version EXCEPT ![x] = NewVersion(work, e)] = work.version
    <3>1. work.seen[x] \cup {e} = work.seen[x]
      OBVIOUS
    <3>2. work.versioned \cup {x} = work.versioned
      BY <2>2
    <3> HIDE DEF x
    <3> QED BY <2>1, <2>11, <3>1, <3>2 DEF Database
  <2>13. work' = [live |-> work.live, ts |-> work.ts, value |-> work.value, seen |-> work.seen,
                  versioned |-> work.versioned, version |-> work.version,
                  metric |-> work.metric, materialized |-> work.materialized]
    BY <2>10, <2>12 DEF Ignored
  <2>14. work = [live |-> work.live, ts |-> work.ts, value |-> work.value, seen |-> work.seen,
                 versioned |-> work.versioned, version |-> work.version,
                 metric |-> work.metric, materialized |-> work.materialized]
    BY <2>1 DEF Database
  <2> QED BY <2>10, <2>13, <2>14
<1> QED BY <1>1, InitIInv, StepIInv, PTL DEF Spec, RetryChangesNothing

-----------------------------------------------------------------------------
(* What the proof that the OTLP route is a client of Ingestion rests on:    *)
(* only events wait to be written, and a transaction belongs to a request   *)
(* that is writing a table.                                                 *)
RouteInv ==
  /\ stage \in [Exports -> {"new", "traces", "observations", "answer", "again", "done"}]
  /\ events \in [Exports -> [traces : Seq(Events), observations : Seq(Events)]]
  /\ now \in 0..MaxNow
  /\ holder \in Exports \cup {Nobody}
  /\ holder # Nobody => stage[holder] \in {"traces", "observations"}

LEMMA OrderType ==
  ASSUME NEW q \in Exports
  PROVE  /\ TraceOrders(SpansOf[q]) \subseteq Seq(DOMAIN SpansOf[q])
         /\ ObservationOrders(SpansOf[q]) \subseteq Seq(DOMAIN SpansOf[q])
<1> DEFINE D == DOMAIN SpansOf[q]
<1>1. IsFiniteSet(D)
  <2>1. Len(SpansOf[q]) \in Nat /\ D = 1..Len(SpansOf[q])
    BY SpansAssumption
  <2> QED BY <2>1, FS_Interval
<1>2. ASSUME NEW K \in SUBSET D PROVE [1..Cardinality(K) -> K] \subseteq Seq(D)
  <2>1. Cardinality(K) \in Nat
    BY <1>1, FS_Subset, FS_CardinalityType
  <2>2. [1..Cardinality(K) -> K] \subseteq [1..Cardinality(K) -> D]
    OBVIOUS
  <2> QED BY <2>1, <2>2, SeqDef
<1>3. TraceOrders(SpansOf[q]) \subseteq Seq(D)
  <2> DEFINE K == {i \in D : ForTrace(SpansOf[q], i)}
  <2>1. TraceOrders(SpansOf[q]) \subseteq [1..Cardinality(K) -> K]
    BY DEF TraceOrders
  <2> QED BY <2>1, <1>2
<1>4. ObservationOrders(SpansOf[q]) \subseteq Seq(D)
  <2> DEFINE K == {i \in D : Accepts(SpansOf[q][i])}
  <2>1. ObservationOrders(SpansOf[q]) \subseteq [1..Cardinality(K) -> K]
    BY DEF ObservationOrders
  <2> QED BY <2>1, <1>2
<1> QED BY <1>3, <1>4

LEMMA ConvertedType ==
  ASSUME NEW q \in Exports, NEW tr \in TraceOrders(SpansOf[q]),
         NEW ob \in ObservationOrders(SpansOf[q]), NEW envs \in RandomEnvelopes(tr),
         NEW t \in 0..MaxNow
  PROVE  Converted(SpansOf[q], tr, ob, envs, t) \in [traces : Seq(Events), observations : Seq(Events)]
<1> DEFINE S == SpansOf[q]
<1>1. tr \in Seq(DOMAIN S) /\ ob \in Seq(DOMAIN S)
  BY OrderType
<1>2. \A n \in DOMAIN tr : tr[n] \in DOMAIN S /\ envs[n] \in Envelopes
  BY <1>1 DEF RandomEnvelopes
<1>3. \A n \in DOMAIN ob : ob[n] \in DOMAIN S
  BY <1>1
<1>4. [n \in DOMAIN tr |-> TraceEvent(S, tr[n], envs[n])] \in Seq(Events)
  <2>1. \A n \in DOMAIN tr : TraceEvent(S, tr[n], envs[n]) \in Events
    BY <1>2, ConvertedAssumption
  <2>2. DOMAIN tr = 1..Len(tr) /\ Len(tr) \in Nat
    BY <1>1
  <2>3. [n \in DOMAIN tr |-> TraceEvent(S, tr[n], envs[n])] \in [1..Len(tr) -> Events]
    BY <2>1, <2>2
  <2> QED BY <2>2, <2>3, SeqDef
<1>5. [n \in DOMAIN ob |-> ObservationEvent(S[ob[n]], t)] \in Seq(Events)
  <2>1. \A n \in DOMAIN ob : ObservationEvent(S[ob[n]], t) \in Events
    BY <1>3, ConvertedAssumption
  <2>2. DOMAIN ob = 1..Len(ob) /\ Len(ob) \in Nat
    BY <1>1
  <2>3. [n \in DOMAIN ob |-> ObservationEvent(S[ob[n]], t)] \in [1..Len(ob) -> Events]
    BY <2>1, <2>2
  <2> QED BY <2>2, <2>3, SeqDef
<1> QED BY <1>4, <1>5 DEF Converted

LEMMA RouteInit == OtelInit => RouteInv
<1>1. NoEvents \in [traces : Seq(Events), observations : Seq(Events)]
  BY EmptySeq DEF NoEvents
<1> QED BY <1>1, SpansAssumption DEF OtelInit, RouteInv

LEMMA NextStageType ==
  \A ev : NextStage(ev) \in {"traces", "observations", "answer"}
BY DEF NextStage

LEMMA ExportRoute ==
  ASSUME RouteInv, NEW q \in Exports, Export(q)
  PROVE  RouteInv' /\ UNCHANGED vars
<1>1. now' \in 0..MaxNow /\ holder' = holder /\ UNCHANGED vars
  BY SpansAssumption DEF Export, RouteInv
<1>2. \E x \in [traces : Seq(Events), observations : Seq(Events)] :
        events' = [events EXCEPT ![q] = x]
  <2>1. CASE q \in Broken
    <3>1. NoEvents \in [traces : Seq(Events), observations : Seq(Events)]
      BY EmptySeq DEF NoEvents
    <3> QED BY <2>1, <3>1 DEF Export
  <2>2. CASE q \notin Broken
    <3>1. PICK tr \in TraceOrders(SpansOf[q]), ob \in ObservationOrders(SpansOf[q]) :
            \E envs \in RandomEnvelopes(tr) :
              events' = [events EXCEPT ![q] = Converted(SpansOf[q], tr, ob, envs, now')]
      BY <2>2 DEF Export
    <3>2. PICK envs \in RandomEnvelopes(tr) :
            events' = [events EXCEPT ![q] = Converted(SpansOf[q], tr, ob, envs, now')]
      BY <3>1
    <3>3. Converted(SpansOf[q], tr, ob, envs, now')
            \in [traces : Seq(Events), observations : Seq(Events)]
      BY <1>1, ConvertedType
    <3> QED BY <3>2, <3>3
  <2> QED BY <2>1, <2>2
<1>3. stage' = [stage EXCEPT ![q] = NextStage(events'[q])]
  BY DEF Export
<1>4. holder # Nobody => holder # q
  BY DEF Export, RouteInv
<1> QED BY <1>1, <1>2, <1>3, <1>4, NextStageType DEF RouteInv

(* A request leaves its table: whatever is left to write is still events.   *)
LEMMA LeaveRoute ==
  ASSUME RouteInv, NEW q \in Exports, LeaveTable(q),
         events' \in [Exports -> [traces : Seq(Events), observations : Seq(Events)]]
  PROVE  RouteInv'
<1>1. holder' = Nobody /\ now' = now /\ stage' = [stage EXCEPT ![q] = NextStage(events'[q])]
  BY DEF LeaveTable
<1> QED BY <1>1, NextStageType DEF RouteInv

LEMMA WriteRoute ==
  ASSUME RouteInv, NEW q \in Exports, WriteEvent(q)
  PROVE  RouteInv' /\ \E e \in Events : ApplyEvent(e)
<1> DEFINE w == stage[q]
           rows == events[q][w]
<1>1. q # Nobody /\ holder = q /\ w \in {"traces", "observations"}
  BY SpansAssumption DEF WriteEvent, RouteInv
<1>2. rows \in Seq(Events)
  BY <1>1 DEF RouteInv
<1>3. rows # <<>> /\ ApplyEvent(Head(rows))
      /\ events' = [events EXCEPT ![q] = [events[q] EXCEPT ![w] = Tail(rows)]]
  BY DEF WriteEvent
<1>4. UNCHANGED <<stage, holder, now>>
  BY DEF WriteEvent
<1>5. Head(rows) \in Events /\ Tail(rows) \in Seq(Events)
  BY <1>2, <1>3, HeadTailProperties
<1> HIDE DEF w, rows
<1>6. [events[q] EXCEPT ![w] = Tail(rows)] \in [traces : Seq(Events), observations : Seq(Events)]
  BY <1>1, <1>5 DEF RouteInv
<1>7. events' \in [Exports -> [traces : Seq(Events), observations : Seq(Events)]]
  BY <1>3, <1>6 DEF RouteInv
<1> QED BY <1>3, <1>4, <1>5, <1>7 DEF RouteInv

LEMMA RouteStep ==
  RouteInv /\ [OtelNext]_<<vars, otelVars>> => RouteInv' /\ [Next]_vars
<1> SUFFICES ASSUME RouteInv, [OtelNext]_<<vars, otelVars>> PROVE RouteInv' /\ [Next]_vars
  OBVIOUS
<1>0. NoEvents \in [traces : Seq(Events), observations : Seq(Events)]
  BY EmptySeq DEF NoEvents
<1>1. ASSUME NEW q \in Exports, BeginTable(q) PROVE RouteInv' /\ [Next]_vars
  <2>1. Begin(TableOf(stage[q])) /\ TableOf(stage[q]) \in Tables
    BY <1>1 DEF BeginTable, TableOf, Tables
  <2>2. RouteInv'
    BY <1>1 DEF BeginTable, RouteInv
  <2> QED BY <2>1, <2>2 DEF Next
<1>2. ASSUME NEW q \in Exports, CommitTable(q) PROVE RouteInv' /\ [Next]_vars
  <2>1. LeaveTable(q) /\ Commit /\ events' = events
    BY <1>2 DEF CommitTable
  <2> QED BY <2>1, LeaveRoute DEF RouteInv, Next
<1>3. ASSUME NEW q \in Exports, FailTable(q) PROVE RouteInv' /\ [Next]_vars
  <2>1. /\ LeaveTable(q) /\ Rollback /\ holder = q
        /\ events' = [events EXCEPT ![q] = [events[q] EXCEPT ![stage[q]] = <<>>]]
    BY <1>3 DEF FailTable
  <2>2. stage[q] \in {"traces", "observations"}
    BY <2>1, SpansAssumption DEF RouteInv
  <2>3. [events[q] EXCEPT ![stage[q]] = <<>>] \in [traces : Seq(Events), observations : Seq(Events)]
    BY <2>2, EmptySeq DEF RouteInv
  <2>4. events' \in [Exports -> [traces : Seq(Events), observations : Seq(Events)]]
    BY <2>1, <2>3 DEF RouteInv
  <2> QED BY <2>1, <2>4, LeaveRoute DEF Next
<1>4. ASSUME NEW q \in Exports, Answer(q) \/ LoseAnswer(q) PROVE RouteInv' /\ [Next]_vars
  <2>1. /\ UNCHANGED <<vars, events, holder, now>> /\ stage[q] = "answer"
        /\ \E x \in {"again", "done"} : stage' = [stage EXCEPT ![q] = x]
    BY <1>4 DEF Answer, LoseAnswer
  <2> QED BY <2>1 DEF RouteInv
<1>5. ASSUME Crash PROVE RouteInv' /\ [Next]_vars
  <2>1. /\ holder' = Nobody /\ now' = now /\ events' = [q \in Exports |-> NoEvents]
        /\ stage' = [q \in Exports |-> IF Underway(q) THEN "again" ELSE stage[q]]
    BY <1>5 DEF Crash
  <2>2. RouteInv'
    BY <1>0, <2>1 DEF RouteInv
  <2>3. Rollback \/ UNCHANGED vars
    BY <1>5 DEF Crash
  <2> QED BY <2>2, <2>3 DEF Next
<1>6. ASSUME NEW table \in Tables, NEW S \in SUBSET table, RemoveRows(S)
      PROVE  RouteInv' /\ [Next]_vars
  <2>1. DeleteRows(S) /\ UNCHANGED <<stage, events, holder, now>>
    BY <1>6 DEF RemoveRows
  <2> QED BY <2>1 DEF RouteInv, Next
<1>7. CASE UNCHANGED <<vars, otelVars>>
  BY <1>7 DEF otelVars, RouteInv
<1>8. ASSUME NEW q \in Exports, Export(q) PROVE RouteInv' /\ [Next]_vars
  BY <1>8, ExportRoute
<1>9. ASSUME NEW q \in Exports, WriteEvent(q) PROVE RouteInv' /\ [Next]_vars
  BY <1>9, WriteRoute DEF Next
<1> QED BY <1>1, <1>2, <1>3, <1>4, <1>5, <1>6, <1>7, <1>8, <1>9 DEF OtelNext

\* The OTLP route is a client of Ingestion: what holds of every client holds
\* of exporters that repeat, of tables that fail and of crashes.
THEOREM RouteImplementsIngestion == OtelSpec => Spec
<1> QED BY RouteInit, RouteStep, PTL DEF OtelSpec, Spec

\* Totals are exact and columns hold the latest values, whatever exporters do.
THEOREM RouteIsSound == OtelSpec => []IngestionInv
BY RouteImplementsIngestion, IngestionSound, PTL

\* An event that is written again changes nothing, whatever exporters do.
THEOREM RouteRetriesAreHarmless == OtelSpec => RetryChangesNothing
BY RouteImplementsIngestion, RetriesAreHarmless, PTL

-----------------------------------------------------------------------------
(* What an exporter that was told 200 may forget.  A request's events are   *)
(* followed from the conversion to the rows: each is waiting to be written, *)
(* in the transaction the request has open, or committed, unless its row    *)
(* was deleted or its table failed; and rows have met nothing but events    *)
(* of spans.                                                                *)

LEMMA SpanFacts ==
  ASSUME NEW q \in Exports, NEW i \in DOMAIN SpansOf[q]
  PROVE  /\ SpansOf[q][i] \in AllSpans
         /\ SpansOf[q][i].id \in Observations /\ SpansOf[q][i].trace \in Traces
         /\ SpansOf[q][i].start \in Nat
<1>1. SpansOf[q][i] \in AllSpans
  BY DEF AllSpans, Range
<1> QED BY <1>1, SpansAssumption

\* The events of a span, of its trace and of its observation.
LEMMA TraceEventFacts ==
  ASSUME NEW q \in Exports, NEW i \in DOMAIN SpansOf[q], NEW env \in Envelopes
  PROVE  LET e == TraceEvent(SpansOf[q], i, env) IN
         /\ e \in Events /\ e.id = SpansOf[q][i].trace /\ e.id \in Traces
         /\ e.ts = SpansOf[q][i].start /\ e.env = env /\ e.env \in Nat \ {0}
         /\ e.sets = SpansOf[q][i].sets /\ e.inherits = Takes(SpansOf[q], SpansOf[q][i])
<1>1. TraceEvent(SpansOf[q], i, env) \in Events /\ SpansOf[q][i].trace \in Traces /\ env \in Nat \ {0}
  BY ConvertedAssumption, SpanFacts, SpansAssumption
<1> QED BY <1>1 DEF TraceEvent

LEMMA ObservationEventFacts ==
  ASSUME NEW q \in Exports, NEW i \in DOMAIN SpansOf[q], NEW t \in 0..MaxNow
  PROVE  LET e == ObservationEvent(SpansOf[q][i], t) IN
         /\ e \in Events /\ e.id = SpansOf[q][i].id /\ e.id \in Observations
         /\ e.ts = t /\ e.env = 1
         /\ DOMAIN e.sets = {"trace", "usage"} /\ DOMAIN e.inherits = {}
         /\ e.sets["trace"] = SpansOf[q][i].trace /\ e.sets["usage"] = SpansOf[q][i].usage
<1>1. ObservationEvent(SpansOf[q][i], t) \in Events /\ SpansOf[q][i].id \in Observations
  BY ConvertedAssumption, SpanFacts
<1> QED BY <1>1 DEF ObservationEvent

\* An order of a finite set that repeats none of its members has them all.
LEMMA OrderCovers ==
  ASSUME NEW K, IsFiniteSet(K), NEW f \in [1..Cardinality(K) -> K],
         \A m, n \in 1..Cardinality(K) : m < n => f[m] # f[n]
  PROVE  \A k \in K : \E n \in 1..Cardinality(K) : f[n] = k
<1> DEFINE N == Cardinality(K)
<1>1. N \in Nat
  BY FS_CardinalityType
<1>2. IsFiniteSet(1..N) /\ Cardinality(1..N) = N
  <2>1. IsFiniteSet(1..N) /\ Cardinality(1..N) = IF 1 > N THEN 0 ELSE N-1+1
    BY <1>1, FS_Interval
  <2> QED BY <1>1, <2>1
<1>3. f \in Injection(1..N, K)
  <2>1. ASSUME NEW m \in 1..N, NEW n \in 1..N, m # n PROVE f[m] # f[n]
    <3>1. m < n \/ n < m
      BY <1>1, <2>1
    <3> QED BY <3>1
  <2> QED BY <2>1 DEF Injection, IsInjective
<1>4. f \in Surjection(1..N, K)
  BY <1>2, <1>3, FS_Injection
<1> QED BY <1>4 DEF Surjection

LEMMA SpanIndices ==
  ASSUME NEW q \in Exports, NEW K \in SUBSET DOMAIN SpansOf[q]
  PROVE  IsFiniteSet(K) /\ K \in SUBSET Nat
<1>1. Len(SpansOf[q]) \in Nat /\ DOMAIN SpansOf[q] = 1..Len(SpansOf[q])
  BY SpansAssumption
<1>2. \A n \in Nat : IsFiniteSet(1..n)
  BY FS_Interval
<1> QED BY <1>1, <1>2, FS_Subset

\* Sorting leaves no event out.
LEMMA OrdersCover ==
  ASSUME NEW q \in Exports
  PROVE  /\ \A tr \in TraceOrders(SpansOf[q]) : \A i \in DOMAIN SpansOf[q] :
              ForTrace(SpansOf[q], i) => \E n \in DOMAIN tr : tr[n] = i
         /\ \A ob \in ObservationOrders(SpansOf[q]) : \A i \in DOMAIN SpansOf[q] :
              Accepts(SpansOf[q][i]) => \E n \in DOMAIN ob : ob[n] = i
<1> DEFINE S == SpansOf[q]
           D == DOMAIN S
<1>1. ASSUME NEW tr \in TraceOrders(S), NEW i \in D, ForTrace(S, i)
      PROVE  \E n \in DOMAIN tr : tr[n] = i
  <2> DEFINE K == {j \in D : ForTrace(S, j)}
  <2>1. /\ tr \in [1..Cardinality(K) -> K]
        /\ \A m, n \in DOMAIN tr : m < n =>
             \/ S[tr[m]].start < S[tr[n]].start
             \/ S[tr[m]].start = S[tr[n]].start /\ tr[m] < tr[n]
    BY DEF TraceOrders
  <2>2. IsFiniteSet(K) /\ i \in K
    BY <1>1, SpanIndices
  <2>3. \A j \in K : S[j].start \in Nat /\ j \in Nat
    BY SpanFacts, SpanIndices
  <2> HIDE DEF K, S
  <2>4. \A m, n \in 1..Cardinality(K) : m < n => tr[m] # tr[n]
    BY <2>1, <2>3
  <2>5. IsFiniteSet(K) /\ tr \in [1..Cardinality(K) -> K]
    BY <2>1, <2>2
  <2>6. \A k \in K : \E n \in 1..Cardinality(K) : tr[n] = k
    BY <2>4, <2>5, OrderCovers
  <2> QED BY <2>2, <2>5, <2>6
<1>2. ASSUME NEW ob \in ObservationOrders(S), NEW i \in D, Accepts(S[i])
      PROVE  \E n \in DOMAIN ob : ob[n] = i
  <2> DEFINE K == {j \in D : Accepts(S[j])}
  <2>1. /\ ob \in [1..Cardinality(K) -> K]
        /\ \A m, n \in DOMAIN ob : m < n => ob[m] < ob[n]
    BY DEF ObservationOrders
  <2>2. IsFiniteSet(K) /\ i \in K
    BY <1>2, SpanIndices
  <2>3. \A j \in K : j \in Nat
    BY SpanIndices
  <2> HIDE DEF K, S
  <2>4. \A m, n \in 1..Cardinality(K) : m < n => ob[m] # ob[n]
    BY <2>1, <2>3
  <2>5. IsFiniteSet(K) /\ ob \in [1..Cardinality(K) -> K]
    BY <2>1, <2>2
  <2>6. \A k \in K : \E n \in 1..Cardinality(K) : ob[n] = k
    BY <2>4, <2>5, OrderCovers
  <2> QED BY <2>2, <2>5, <2>6
<1> QED BY <1>1, <1>2

(* The events spans give rise to.                                           *)
OfTrace(e) ==
  \E q \in Exports : \E i \in DOMAIN SpansOf[q] : \E env \in Envelopes :
    ForTrace(SpansOf[q], i) /\ e = TraceEvent(SpansOf[q], i, env)

OfObservation(e) ==
  \E q \in Exports : \E i \in DOMAIN SpansOf[q] : \E t \in 0..MaxNow :
    Accepts(SpansOf[q][i]) /\ e = ObservationEvent(SpansOf[q][i], t)

Queued ==
  \A q \in Exports : /\ \A e \in Range(events[q].traces) : OfTrace(e)
                     /\ \A e \in Range(events[q].observations) : OfObservation(e)

(* What rows have met; a transaction forgets nothing of it.                 *)
Met ==
  \A x \in Entities :
    /\ db.seen[x] \subseteq work.seen[x]
    /\ \A e \in work.seen[x] : e.id = x /\ (OfTrace(e) \/ OfObservation(e))

(* Rows older than the versions are older than every span, or there are none.*)
NoneLegacy(d) ==
  \/ LegacyTs = 0
  \/ /\ d.live \subseteq d.versioned
     /\ \A x \in Entities, c \in Columns : d.version[x][c] = NoVersion \/ d.version[x][c][2] > 0

\* Whether an event is taken or comes too late, its row has met it.
LEMMA ApplySeen ==
  ASSUME IInv, NEW e \in Events, ApplyEvent(e)
  PROVE  db' = db /\ work'.seen = [work.seen EXCEPT ![e.id] = @ \cup {e}]
<1>1. CASE Changes(work, e)
  <2> DEFINE a == Written(work, e)
             P == pending \cup ToRecompute(work, a, e.id)
  <2>1. work' = Recorded(work, a, e.id, P)
    BY <1>1 DEF ApplyEvent
  <2>2. a.seen = [work.seen EXCEPT ![e.id] = @ \cup {e}]
    BY DEF Written
  <2> HIDE DEF a, P
  <2>3. work'.seen = a.seen
    BY <2>1 DEF Recorded
  <2> QED BY <2>2, <2>3 DEF ApplyEvent
<1>2. CASE ~ Changes(work, e)
  BY <1>2 DEF ApplyEvent, Ignored
<1> QED BY <1>1, <1>2

LEMMA CommitSeen ==
  ASSUME Commit
  PROVE  db'.seen = work.seen /\ work' = db'
BY DEF Commit, Flushed

LEMMA DeleteSeen ==
  ASSUME IInv, NEW S, DeleteRows(S)
  PROVE  /\ db'.seen = [x \in Entities |-> IF x \in S THEN {} ELSE db.seen[x]]
         /\ work' = db' /\ work = db
<1>1. db'.seen = Without(db, S).seen
  BY DEF DeleteRows, Flushed
<1> QED BY <1>1 DEF DeleteRows, Without, IInv

\* Without rows older than the versions there never will be any.
LEMMA WrittenNoneLegacy ==
  ASSUME NEW d \in Database, NoneLegacy(d), NEW e \in Events,
         NEW a, a = Written(d, e) \/ (a = Ignored(d, e) /\ ~ Changes(d, e))
  PROVE  NoneLegacy(a)
<1> SUFFICES ASSUME LegacyTs # 0 PROVE NoneLegacy(a)
  BY DEF NoneLegacy
<1>1. e.id \in Entities /\ e.env \in Nat \ {0}
  BY EventsAssumption
<1>2. d.live \subseteq d.versioned
      /\ \A x \in Entities, c \in Columns : d.version[x][c] = NoVersion \/ d.version[x][c][2] > 0
  BY DEF NoneLegacy
<1>3. /\ a.live \subseteq d.live \cup {e.id} /\ a.versioned = d.versioned \cup {e.id}
      /\ a.version = [d.version EXCEPT ![e.id] = NewVersion(d, e)]
  BY DEF Written, Ignored
<1>4. ASSUME NEW c \in Columns
      PROVE  NewVersion(d, e)[c] = NoVersion \/ NewVersion(d, e)[c][2] > 0
  <2>1. NewVersion(d, e)[c] \in {VersionOf(e), Known(d, e.id)[c]}
    BY DEF NewVersion
  <2>2. VersionOf(e)[2] > 0
    BY <1>1 DEF VersionOf
  <2>3. Known(d, e.id)[c] = NoVersion \/ Known(d, e.id)[c][2] > 0
    BY <1>1, <1>2 DEF Known
  <2> QED BY <2>1, <2>2, <2>3
<1>5. ASSUME NEW x \in Entities, NEW c \in Columns
      PROVE  a.version[x][c] = NoVersion \/ a.version[x][c][2] > 0
  <2>1. CASE x = e.id
    BY <1>1, <1>3, <1>4, <2>1 DEF Database
  <2>2. CASE x # e.id
    BY <1>2, <1>3, <2>2 DEF Database
  <2> QED BY <2>1, <2>2
<1>6. a.live \subseteq a.versioned
  BY <1>2, <1>3
<1> QED BY <1>5, <1>6 DEF NoneLegacy

LEMMA SameNoneLegacy ==
  ASSUME NEW d, NEW a, NoneLegacy(d), a.live = d.live, a.versioned = d.versioned,
         a.version = d.version
  PROVE  NoneLegacy(a)
BY DEF NoneLegacy

LEMMA WithoutNoneLegacy ==
  ASSUME NEW d \in Database, NoneLegacy(d), NEW S
  PROVE  NoneLegacy(Without(d, S))
<1> SUFFICES ASSUME LegacyTs # 0 PROVE NoneLegacy(Without(d, S))
  BY DEF NoneLegacy
<1> DEFINE w == Without(d, S)
<1>1. /\ w.live = d.live \ S /\ w.versioned = d.versioned \ S
      /\ w.version = [x \in Entities |-> IF x \in S THEN [c \in Columns |-> NoVersion]
                                         ELSE d.version[x]]
  BY DEF Without
<1> HIDE DEF w
<1>2. NoneLegacy(w)
  BY <1>1 DEF NoneLegacy
<1> QED BY <1>2 DEF w

LEMMA NoneLegacyStep ==
  ASSUME IInv, NoneLegacy(db), NoneLegacy(work), [Next]_vars
  PROVE  NoneLegacy(db)' /\ NoneLegacy(work)'
<1>0. db \in Database /\ work \in Database
  BY DEF IInv, TypeOK
<1>1. ASSUME NEW e \in Events, ApplyEvent(e) PROVE NoneLegacy(db') /\ NoneLegacy(work')
  <2>1. CASE Changes(work, e)
    <3> DEFINE a == Written(work, e)
               P == pending \cup ToRecompute(work, a, e.id)
    <3>1. work' = Recorded(work, a, e.id, P) /\ db' = db
      BY <1>1, <2>1 DEF ApplyEvent
    <3>2. NoneLegacy(a)
      BY <1>0, WrittenNoneLegacy
    <3> HIDE DEF a, P
    <3>3. /\ work'.live = a.live /\ work'.versioned = a.versioned
          /\ work'.version = a.version
      BY <3>1 DEF Recorded
    <3>4. NoneLegacy(work')
      BY <3>2, <3>3, SameNoneLegacy
    <3> QED BY <3>1, <3>4
  <2>2. CASE ~ Changes(work, e)
    <3>1. work' = Ignored(work, e) /\ db' = db
      BY <1>1, <2>2 DEF ApplyEvent
    <3> QED BY <1>0, <2>2, <3>1, WrittenNoneLegacy
  <2> QED BY <2>1, <2>2
<1>2. CASE Commit
  <2>1. /\ db'.live = work.live /\ db'.versioned = work.versioned
        /\ db'.version = work.version /\ work' = db'
    BY <1>2 DEF Commit, Flushed
  <2>2. NoneLegacy(db')
    BY <2>1, SameNoneLegacy
  <2> QED BY <2>1, <2>2
<1>3. ASSUME NEW S, DeleteRows(S) PROVE NoneLegacy(db') /\ NoneLegacy(work')
  <2> DEFINE w == Without(db, S)
  <2>1. NoneLegacy(w)
    BY <1>0, WithoutNoneLegacy
  <2>2. /\ db'.live = w.live /\ db'.versioned = w.versioned
        /\ db'.version = w.version /\ work' = db'
    BY <1>3 DEF DeleteRows, Flushed
  <2> HIDE DEF w
  <2>3. NoneLegacy(db')
    BY <2>1, <2>2, SameNoneLegacy
  <2> QED BY <2>2, <2>3
<1>4. ASSUME NEW t \in Traces, PurgeTotal(t) PROVE NoneLegacy(db') /\ NoneLegacy(work')
  <2>1. /\ db'.live = db.live /\ db'.versioned = db.versioned
        /\ db'.version = db.version /\ work' = db'
    BY <1>4 DEF PurgeTotal
  <2>2. NoneLegacy(db')
    BY <2>1, SameNoneLegacy
  <2> QED BY <2>1, <2>2
<1>5. CASE Rollback \/ UNCHANGED vars \/ (\E table \in Tables : Begin(table))
  BY <1>5 DEF Rollback, vars, Begin
<1>6. NoneLegacy(db') /\ NoneLegacy(work')
  BY <1>1, <1>2, <1>3, <1>4, <1>5 DEF Next
<1> QED BY <1>6 DEF NoneLegacy

\* A conversion yields an event of each span that is one of its trace, an event of each
\* observation that is accepted, and nothing else.
LEMMA ConvertedEvents ==
  ASSUME NEW q \in Exports, NEW tr \in TraceOrders(SpansOf[q]),
         NEW ob \in ObservationOrders(SpansOf[q]), NEW envs \in RandomEnvelopes(tr),
         NEW t \in 0..MaxNow,
         NEW x, x = Converted(SpansOf[q], tr, ob, envs, t)
  PROVE  /\ \A e \in Range(x.traces) : OfTrace(e)
         /\ \A e \in Range(x.observations) : OfObservation(e)
         /\ \A i \in DOMAIN SpansOf[q] : ForTrace(SpansOf[q], i) =>
              \E env \in Envelopes : TraceEvent(SpansOf[q], i, env) \in Range(x.traces)
         /\ \A i \in DOMAIN SpansOf[q] : Accepts(SpansOf[q][i]) =>
              ObservationEvent(SpansOf[q][i], t) \in Range(x.observations)
<1> DEFINE S == SpansOf[q]
<1>1. /\ x.traces = [n \in DOMAIN tr |-> TraceEvent(S, tr[n], envs[n])]
      /\ x.observations = [n \in DOMAIN ob |-> ObservationEvent(S[ob[n]], t)]
  BY DEF Converted
<1>2. \A n \in DOMAIN tr : envs[n] \in Envelopes
  BY DEF RandomEnvelopes
<1>3. \A n \in DOMAIN tr : tr[n] \in DOMAIN S /\ ForTrace(S, tr[n])
  BY DEF TraceOrders
<1>4. \A n \in DOMAIN ob : ob[n] \in DOMAIN S /\ Accepts(S[ob[n]])
  BY DEF ObservationOrders
<1>5. ASSUME NEW e \in Range(x.traces) PROVE OfTrace(e)
  <2>1. PICK n \in DOMAIN tr : e = TraceEvent(S, tr[n], envs[n])
    BY <1>1 DEF Range
  <2> QED BY <1>2, <1>3, <2>1 DEF OfTrace
<1>6. ASSUME NEW e \in Range(x.observations) PROVE OfObservation(e)
  <2>1. PICK n \in DOMAIN ob : e = ObservationEvent(S[ob[n]], t)
    BY <1>1 DEF Range
  <2> QED BY <1>4, <2>1 DEF OfObservation
<1>7. ASSUME NEW i \in DOMAIN S, ForTrace(S, i)
      PROVE  \E env \in Envelopes : TraceEvent(S, i, env) \in Range(x.traces)
  <2>1. PICK n \in DOMAIN tr : tr[n] = i
    BY <1>7, OrdersCover
  <2>2. TraceEvent(S, i, envs[n]) = x.traces[n] /\ n \in DOMAIN x.traces
    BY <1>1, <2>1
  <2> QED BY <1>2, <2>2 DEF Range
<1>8. ASSUME NEW i \in DOMAIN S, Accepts(S[i])
      PROVE  ObservationEvent(S[i], t) \in Range(x.observations)
  <2>1. PICK n \in DOMAIN ob : ob[n] = i
    BY <1>8, OrdersCover
  <2>2. ObservationEvent(S[i], t) = x.observations[n] /\ n \in DOMAIN x.observations
    BY <1>1, <2>1
  <2> QED BY <2>2 DEF Range
<1> QED BY <1>5, <1>6, <1>7, <1>8

LEMMA RangeOfEmpty == Range(<<>>) = {}
BY DEF Range

LEMMA RangeByHead ==
  ASSUME NEW T, NEW s \in Seq(T), s # <<>>
  PROVE  Range(s) = {Head(s)} \cup Range(Tail(s))
<1>1. /\ Len(s) \in Nat \ {0} /\ DOMAIN s = 1..Len(s) /\ Head(s) = s[1]
      /\ Tail(s) \in Seq(T) /\ Len(Tail(s)) = Len(s) - 1
      /\ \A n \in 1..Len(Tail(s)) : Tail(s)[n] = s[n + 1]
  BY HeadTailProperties, EmptySeq
<1>2. DOMAIN Tail(s) = 1..Len(Tail(s))
  BY <1>1
<1>3. ASSUME NEW n \in DOMAIN s PROVE s[n] = Head(s) \/ s[n] \in Range(Tail(s))
  <2>1. CASE n = 1
    BY <1>1, <2>1
  <2>2. CASE n # 1
    <3>1. n - 1 \in 1..Len(Tail(s)) /\ (n - 1) + 1 = n
      BY <1>1, <2>2
    <3>2. Tail(s)[n - 1] = s[n]
      BY <1>1, <3>1
    <3> QED BY <1>2, <3>1, <3>2 DEF Range
  <2> QED BY <2>1, <2>2
<1>4. ASSUME NEW n \in DOMAIN Tail(s) PROVE Tail(s)[n] \in Range(s)
  <2>1. n + 1 \in DOMAIN s /\ Tail(s)[n] = s[n + 1]
    BY <1>1, <1>2
  <2> QED BY <2>1 DEF Range
<1>5. Head(s) \in Range(s)
  BY <1>1 DEF Range
<1> QED BY <1>3, <1>4, <1>5 DEF Range

Books ==
  /\ failed \in [Exports -> SUBSET {"traces", "observations", "invalid"}]
  /\ exports \in 0..MaxExports /\ acknowledged \subseteq Exports /\ removed \subseteq Entities

\* What a request does to the events that wait.
LEMMA ExportEvents ==
  ASSUME RouteInv, NEW q \in Exports, Export(q)
  PROVE  \E x \in [traces : Seq(Events), observations : Seq(Events)] :
           /\ events' = [events EXCEPT ![q] = x]
           /\ \A e \in Range(x.traces) : OfTrace(e)
           /\ \A e \in Range(x.observations) : OfObservation(e)
           /\ q \notin Broken =>
                /\ \A i \in DOMAIN SpansOf[q] : ForTrace(SpansOf[q], i) =>
                     \E env \in Envelopes : TraceEvent(SpansOf[q], i, env) \in Range(x.traces)
                /\ \A i \in DOMAIN SpansOf[q] : Accepts(SpansOf[q][i]) =>
                     \E t \in 0..MaxNow :
                       ObservationEvent(SpansOf[q][i], t) \in Range(x.observations)
<1>1. CASE q \in Broken
  <2>1. NoEvents \in [traces : Seq(Events), observations : Seq(Events)]
        /\ Range(NoEvents.traces) = {} /\ Range(NoEvents.observations) = {}
    BY EmptySeq, RangeOfEmpty DEF NoEvents
  <2>2. events' = [events EXCEPT ![q] = NoEvents]
    BY <1>1 DEF Export
  <2> QED BY <1>1, <2>1, <2>2
<1>2. CASE q \notin Broken
  <2>1. now' \in 0..MaxNow
    BY SpansAssumption DEF Export, RouteInv
  <2>2. PICK tr \in TraceOrders(SpansOf[q]), ob \in ObservationOrders(SpansOf[q]) :
          \E envs \in RandomEnvelopes(tr) :
            events' = [events EXCEPT ![q] = Converted(SpansOf[q], tr, ob, envs, now')]
    BY <1>2 DEF Export
  <2>3. PICK envs \in RandomEnvelopes(tr) :
          events' = [events EXCEPT ![q] = Converted(SpansOf[q], tr, ob, envs, now')]
    BY <2>2
  <2>4. PICK x : x = Converted(SpansOf[q], tr, ob, envs, now')
    OBVIOUS
  <2>5. x \in [traces : Seq(Events), observations : Seq(Events)]
    BY <2>1, <2>4, ConvertedType
  <2>6. /\ \A e \in Range(x.traces) : OfTrace(e)
        /\ \A e \in Range(x.observations) : OfObservation(e)
    BY <2>1, <2>4, ConvertedEvents
  <2>7. \A i \in DOMAIN SpansOf[q] : ForTrace(SpansOf[q], i) =>
          \E env \in Envelopes : TraceEvent(SpansOf[q], i, env) \in Range(x.traces)
    BY <2>1, <2>4, ConvertedEvents
  <2>8. \A i \in DOMAIN SpansOf[q] : Accepts(SpansOf[q][i]) =>
          ObservationEvent(SpansOf[q][i], now') \in Range(x.observations)
    BY <2>1, <2>4, ConvertedEvents
  <2> QED BY <2>1, <2>3, <2>4, <2>5, <2>6, <2>7, <2>8
<1> QED BY <1>1, <1>2

LEMMA WriteEvents ==
  ASSUME RouteInv, NEW q \in Exports, WriteEvent(q)
  PROVE  LET rows == events[q][stage[q]] IN
         /\ stage[q] \in {"traces", "observations"} /\ holder = q
         /\ rows \in Seq(Events) /\ rows # <<>> /\ ApplyEvent(Head(rows)) /\ Head(rows) \in Events
         /\ Range(rows) = {Head(rows)} \cup Range(Tail(rows))
         /\ events'[q][stage[q]] = Tail(rows)
         /\ \A r \in Exports, w \in {"traces", "observations"} :
              r # q \/ w # stage[q] => events'[r][w] = events[r][w]
<1> DEFINE w == stage[q]
           rows == events[q][w]
<1>1. q # Nobody /\ holder = q /\ w \in {"traces", "observations"}
  BY SpansAssumption DEF WriteEvent, RouteInv
<1>2. rows \in Seq(Events)
  BY <1>1 DEF RouteInv
<1>3. rows # <<>> /\ ApplyEvent(Head(rows))
      /\ events' = [events EXCEPT ![q] = [events[q] EXCEPT ![w] = Tail(rows)]]
  BY DEF WriteEvent
<1>4. events \in [Exports -> [traces : Seq(Events), observations : Seq(Events)]]
  BY DEF RouteInv
<1> HIDE DEF w, rows
<1>5. Range(rows) = {Head(rows)} \cup Range(Tail(rows)) /\ Head(rows) \in Events
  BY <1>2, <1>3, RangeByHead, HeadTailProperties
<1>6. events'[q] = [events[q] EXCEPT ![w] = Tail(rows)] /\ events[q] \in [traces : Seq(Events), observations : Seq(Events)]
  BY <1>3, <1>4
<1>7. events'[q][w] = Tail(rows)
  BY <1>1, <1>6
<1>8. \A r \in Exports, v \in {"traces", "observations"} :
        r # q \/ v # w => events'[r][v] = events[r][v]
  BY <1>1, <1>3, <1>4, <1>6
<1> QED BY <1>1, <1>2, <1>3, <1>5, <1>7, <1>8 DEF w, rows

FailedEvents(q) ==
  /\ events'[q][stage[q]] = <<>>
  /\ \A r \in Exports, w \in {"traces", "observations"} :
       r # q \/ w # stage[q] => events'[r][w] = events[r][w]

LEMMA FailEvents ==
  ASSUME RouteInv, NEW q \in Exports, FailTable(q)
  PROVE  FailedEvents(q) /\ stage[q] \in {"traces", "observations"} /\ holder = q /\ db' = db
<1>1. /\ holder = q /\ db' = db
      /\ events' = [events EXCEPT ![q] = [events[q] EXCEPT ![stage[q]] = <<>>]]
  BY DEF FailTable, Rollback
<1>2. stage[q] \in {"traces", "observations"}
  BY <1>1, SpansAssumption DEF RouteInv
<1>3. events \in [Exports -> [traces : Seq(Events), observations : Seq(Events)]]
  BY DEF RouteInv
<1>4. events'[q] = [events[q] EXCEPT ![stage[q]] = <<>>]
      /\ events[q] \in [traces : Seq(Events), observations : Seq(Events)]
  BY <1>1, <1>3
<1>5. events'[q][stage[q]] = <<>>
  BY <1>2, <1>4
<1>6. \A r \in Exports, w \in {"traces", "observations"} :
        r # q \/ w # stage[q] => events'[r][w] = events[r][w]
  BY <1>1, <1>2, <1>3, <1>4
<1> QED BY <1>1, <1>2, <1>5, <1>6 DEF FailedEvents

LEMMA BooksStep ==
  RouteInv /\ Books /\ [OtelNext]_<<vars, otelVars>> => Books'
<1> SUFFICES ASSUME RouteInv, Books, [OtelNext]_<<vars, otelVars>> PROVE Books'
  OBVIOUS
<1>1. ASSUME NEW q \in Exports, Export(q) PROVE Books'
  <2>1. /\ exports < MaxExports /\ exports' = exports + 1 /\ UNCHANGED <<acknowledged, removed>>
        /\ \E f \in SUBSET {"traces", "observations", "invalid"} :
             failed' = [failed EXCEPT ![q] = f]
    BY <1>1 DEF Export
  <2>2. exports' \in 0..MaxExports
    BY <2>1, SpansAssumption DEF Books
  <2> QED BY <2>1, <2>2 DEF Books
<1>2. ASSUME NEW q \in Exports, FailTable(q) PROVE Books'
  <2>1. stage[q] \in {"traces", "observations"}
    BY <1>2, FailEvents
  <2>2. failed' = [failed EXCEPT ![q] = failed[q] \cup {stage[q]}]
        /\ UNCHANGED <<exports, acknowledged, removed>>
    BY <1>2 DEF FailTable, LeaveTable
  <2> QED BY <2>1, <2>2 DEF Books
<1>3. ASSUME NEW q \in Exports, Answer(q) PROVE Books'
  BY <1>3 DEF Answer, Books
<1>4. ASSUME NEW table \in Tables, NEW S \in SUBSET table, RemoveRows(S) PROVE Books'
  <2>1. S \subseteq Entities
    BY DEF Tables, Entities
  <2> QED BY <1>4, <2>1 DEF RemoveRows, Books
<1>5. CASE Crash
  BY <1>5 DEF Crash, Books
<1>6. ASSUME NEW q \in Exports,
             BeginTable(q) \/ WriteEvent(q) \/ CommitTable(q) \/ LoseAnswer(q)
      PROVE  Books'
  BY <1>6 DEF BeginTable, WriteEvent, CommitTable, LeaveTable, LoseAnswer, Books
<1>7. CASE UNCHANGED <<vars, otelVars>>
  BY <1>7 DEF otelVars, Books
<1> QED BY <1>1, <1>2, <1>3, <1>4, <1>5, <1>6, <1>7 DEF OtelNext

LEMMA QueuedStep ==
  RouteInv /\ Queued /\ [OtelNext]_<<vars, otelVars>> => Queued'
<1> SUFFICES ASSUME RouteInv, Queued, [OtelNext]_<<vars, otelVars>> PROVE Queued'
  OBVIOUS
<1>1. ASSUME NEW q \in Exports, Export(q) PROVE Queued'
  <2>1. PICK x : /\ events' = [events EXCEPT ![q] = x]
                 /\ \A e \in Range(x.traces) : OfTrace(e)
                 /\ \A e \in Range(x.observations) : OfObservation(e)
    BY <1>1, ExportEvents
  <2>2. \A r \in Exports : events'[r] = IF r = q THEN x ELSE events[r]
    BY <2>1 DEF RouteInv
  <2>3. ASSUME NEW r \in Exports
        PROVE  /\ \A e \in Range(events'[r].traces) : OfTrace(e)
               /\ \A e \in Range(events'[r].observations) : OfObservation(e)
    BY <2>1, <2>2 DEF Queued
  <2> QED BY <2>3 DEF Queued, OfTrace, OfObservation
<1>2. ASSUME NEW r \in Exports, NEW w \in {"traces", "observations"},
             NEW q \in Exports, WriteEvent(q) \/ FailTable(q)
      PROVE  Range(events'[r][w]) \subseteq Range(events[r][w])
  <2>1. CASE WriteEvent(q)
    BY <2>1, WriteEvents
  <2>2. CASE FailTable(q)
    BY <2>2, FailEvents, RangeOfEmpty DEF FailedEvents
  <2> QED BY <1>2, <2>1, <2>2
<1>3. ASSUME NEW q \in Exports, WriteEvent(q) \/ FailTable(q) PROVE Queued'
  <2>1. ASSUME NEW r \in Exports
        PROVE  /\ Range(events'[r].traces) \subseteq Range(events[r].traces)
               /\ Range(events'[r].observations) \subseteq Range(events[r].observations)
    BY <1>2, <1>3
  <2> QED BY <2>1 DEF Queued, OfTrace, OfObservation
<1>4. CASE Crash
  <2>1. \A q \in Exports : events'[q] = NoEvents
    BY <1>4 DEF Crash
  <2>2. Range(NoEvents.traces) = {} /\ Range(NoEvents.observations) = {}
    BY RangeOfEmpty DEF NoEvents
  <2> QED BY <2>1, <2>2 DEF Queued
<1>5. CASE events' = events
  BY <1>5 DEF Queued, OfTrace, OfObservation
<1>6. ASSUME NEW q \in Exports,
             BeginTable(q) \/ CommitTable(q) \/ Answer(q) \/ LoseAnswer(q)
      PROVE  events' = events
  BY <1>6 DEF BeginTable, CommitTable, Answer, LoseAnswer
<1>7. ASSUME NEW table \in Tables, NEW S \in SUBSET table, RemoveRows(S)
      PROVE  events' = events
  BY <1>7 DEF RemoveRows
<1>8. CASE UNCHANGED <<vars, otelVars>>
  BY <1>5, <1>8 DEF otelVars
<1> QED BY <1>1, <1>3, <1>4, <1>5, <1>6, <1>7, <1>8 DEF OtelNext

\* An event is known by its own id.
LEMMA KindOfEvent ==
  ASSUME NEW e, OfTrace(e) \/ OfObservation(e)
  PROVE  /\ e \in Events /\ e.id \in Entities
         /\ OfTrace(e) => e.id \in Traces
         /\ OfObservation(e) => e.id \in Observations
BY TraceEventFacts, ObservationEventFacts DEF OfTrace, OfObservation, Entities

LEMMA MetStep ==
  IInv /\ RouteInv /\ Queued /\ Met /\ [OtelNext]_<<vars, otelVars>> => Met'
<1> SUFFICES ASSUME IInv, RouteInv, Queued, Met, [OtelNext]_<<vars, otelVars>> PROVE Met'
  OBVIOUS
<1>0. /\ db.seen \in [Entities -> SUBSET Events] /\ work.seen \in [Entities -> SUBSET Events]
      /\ work'.seen \in [Entities -> SUBSET Events]
  <2>1. IInv'
    BY RouteStep, StepIInv
  <2> QED BY <2>1 DEF IInv, TypeOK, Database
<1>1. ASSUME NEW q \in Exports, WriteEvent(q) PROVE Met'
  <2> DEFINE rows == events[q][stage[q]]
             e == Head(rows)
  <2>1. e \in Range(rows) /\ e \in Events /\ ApplyEvent(e) /\ stage[q] \in {"traces", "observations"}
    BY <1>1, WriteEvents
  <2>2. OfTrace(e) \/ OfObservation(e)
    BY <2>1 DEF Queued
  <2>3. db' = db /\ work'.seen = [work.seen EXCEPT ![e.id] = @ \cup {e}] /\ e.id \in Entities
    BY <2>1, <2>2, ApplySeen, KindOfEvent
  <2> HIDE DEF e
  <2> QED BY <1>0, <2>2, <2>3 DEF Met, OfTrace, OfObservation
<1>2. CASE Commit
  <2>1. db'.seen = work.seen /\ work' = db'
    BY <1>2, CommitSeen
  <2> QED BY <2>1 DEF Met, OfTrace, OfObservation
<1>3. CASE Rollback
  <2>1. db' = db /\ work' = db
    BY <1>3 DEF Rollback
  <2> QED BY <2>1 DEF Met, OfTrace, OfObservation
<1>4. ASSUME NEW S, DeleteRows(S) PROVE Met'
  <2>1. /\ db'.seen = [x \in Entities |-> IF x \in S THEN {} ELSE db.seen[x]]
        /\ work' = db' /\ work = db
    BY <1>4, DeleteSeen
  <2> QED BY <2>1 DEF Met, OfTrace, OfObservation
<1>5. CASE db' = db /\ work' = work
  BY <1>5 DEF Met, OfTrace, OfObservation
<1>6. ASSUME NEW q \in Exports,
             Export(q) \/ BeginTable(q) \/ CommitTable(q) \/ FailTable(q) \/ Answer(q) \/ LoseAnswer(q)
      PROVE  Commit \/ Rollback \/ (db' = db /\ work' = work)
  BY <1>6 DEF Export, BeginTable, Begin, CommitTable, FailTable, Answer, LoseAnswer, vars
<1>7. CASE Crash
  BY <1>3, <1>5, <1>7 DEF Crash, vars
<1>8. CASE UNCHANGED <<vars, otelVars>>
  BY <1>5, <1>8 DEF vars
<1>9. ASSUME NEW table \in Tables, NEW S \in SUBSET table, RemoveRows(S) PROVE Met'
  BY <1>4, <1>9 DEF RemoveRows
<1> QED BY <1>1, <1>2, <1>3, <1>5, <1>6, <1>7, <1>8, <1>9 DEF OtelNext

(* Where an event of a request may be, which was converted for table w.     *)
Arrived(e) == e.id \in removed \/ e \in db.seen[e.id]

OnItsWay(q, w, e) ==
  \/ Arrived(e)
  \/ e \in Range(events[q][w])
  \/ holder = q /\ stage[q] = w /\ e \in work.seen[e.id]

TracesSent(q) ==
  \A i \in DOMAIN SpansOf[q] : ForTrace(SpansOf[q], i) =>
    \E env \in Envelopes : OnItsWay(q, "traces", TraceEvent(SpansOf[q], i, env))

ObservationsSent(q) ==
  \A i \in DOMAIN SpansOf[q] : Accepts(SpansOf[q][i]) =>
    \E t \in 0..MaxNow : OnItsWay(q, "observations", ObservationEvent(SpansOf[q][i], t))

Tracked(q) ==
  Underway(q) /\ q \notin Broken =>
    /\ "traces" \notin failed[q] => TracesSent(q)
    /\ "observations" \notin failed[q] => ObservationsSent(q)
    /\ Range(SpansOf[q]) \cap Invalid # {} => "invalid" \in failed[q]
    /\ stage[q] = "answer" => events[q] = NoEvents

Kept(q) ==
  /\ Range(SpansOf[q]) \cap Invalid = {}
  /\ \A i \in DOMAIN SpansOf[q] : ForTrace(SpansOf[q], i) =>
       \E env \in Envelopes : Arrived(TraceEvent(SpansOf[q], i, env))
  /\ \A i \in DOMAIN SpansOf[q] : \E t \in 0..MaxNow : Arrived(ObservationEvent(SpansOf[q][i], t))

DeliveryInv ==
  /\ IInv /\ RouteInv /\ Books /\ Queued /\ Met
  /\ NoneLegacy(db) /\ NoneLegacy(work)
  /\ \A q \in Exports : Tracked(q)
  /\ \A q \in acknowledged \ Broken : Kept(q)

\* What is committed is lost with its row only.
LEMMA ArrivedStays ==
  ASSUME IInv, Met, [OtelNext]_<<vars, otelVars>>, NEW e, e.id \in Entities, Arrived(e)
  PROVE  Arrived(e)'
<1>1. CASE db' = db /\ removed \subseteq removed'
  BY <1>1 DEF Arrived
<1>2. CASE Commit /\ removed' = removed
  <2>1. db'.seen = work.seen
    BY <1>2, CommitSeen
  <2> QED BY <1>2, <2>1 DEF Arrived, Met
<1>3. ASSUME NEW S, RemoveRows(S) PROVE Arrived(e)'
  <2>1. db'.seen = [x \in Entities |-> IF x \in S THEN {} ELSE db.seen[x]]
        /\ removed' = removed \cup S
    BY <1>3, DeleteSeen DEF RemoveRows
  <2> QED BY <2>1 DEF Arrived
<1>4. ASSUME NEW q \in Exports, WriteEvent(q) PROVE db' = db /\ removed \subseteq removed'
  BY <1>4 DEF WriteEvent, ApplyEvent
<1>5. ASSUME NEW q \in Exports, CommitTable(q) PROVE Commit /\ removed' = removed
  BY <1>5 DEF CommitTable, LeaveTable
<1>6. ASSUME NEW q \in Exports,
             Export(q) \/ BeginTable(q) \/ FailTable(q) \/ Answer(q) \/ LoseAnswer(q)
      PROVE  db' = db /\ removed \subseteq removed'
  BY <1>6 DEF Export, BeginTable, Begin, FailTable, Rollback, LeaveTable, Answer, LoseAnswer, vars
<1>7. CASE Crash \/ UNCHANGED <<vars, otelVars>>
  <2>1. db' = db /\ removed' = removed
    BY <1>7 DEF Crash, Rollback, vars, otelVars
  <2> QED BY <1>1, <2>1
<1> QED BY <1>1, <1>2, <1>3, <1>4, <1>5, <1>6, <1>7 DEF OtelNext

\* The steps after which a request is where it was, or further on its way.
Proceeds(q, w) ==
  \/ \E r \in Exports \ {q} : Export(r)
  \/ \E r \in Exports : BeginTable(r) \/ WriteEvent(r) \/ CommitTable(r) \/ Answer(r) \/ LoseAnswer(r)
  \/ \E r \in Exports : FailTable(r) /\ (r # q \/ w # stage[r])
  \/ \E table \in Tables : \E S \in SUBSET table : RemoveRows(S)
  \/ UNCHANGED <<vars, otelVars>>

LEMMA OnItsWayStays ==
  ASSUME IInv, RouteInv, Met, NEW q \in Exports, NEW w \in {"traces", "observations"},
         Proceeds(q, w), NEW e, e.id \in Entities, OnItsWay(q, w, e)
  PROVE  OnItsWay(q, w, e)'
<1>0. [OtelNext]_<<vars, otelVars>>
  BY DEF Proceeds, OtelNext
<1>1. CASE Arrived(e)
  BY <1>0, <1>1, ArrivedStays DEF OnItsWay
<1> SUFFICES ASSUME ~Arrived(e) PROVE OnItsWay(q, w, e)'
  BY <1>1
<1>2. \/ e \in Range(events[q][w])
      \/ holder = q /\ stage[q] = w /\ e \in work.seen[e.id]
  BY DEF OnItsWay
<1>3. q # Nobody
  BY SpansAssumption
<1>4. CASE UNCHANGED <<vars, otelVars>>
  BY <1>2, <1>4 DEF vars, otelVars, OnItsWay
<1>5. ASSUME NEW r \in Exports \ {q}, Export(r) PROVE OnItsWay(q, w, e)'
  <2>1. events'[q] = events[q] /\ work' = work /\ holder' = holder
    <3>1. PICK x : events' = [events EXCEPT ![r] = x]
      BY <1>5, ExportEvents
    <3>2. work' = work /\ holder' = holder
      BY <1>5 DEF Export, vars
    <3> QED BY <3>1, <3>2 DEF RouteInv
  <2>2. stage'[q] = stage[q]
    BY <1>5 DEF Export, RouteInv
  <2> QED BY <1>2, <2>1, <2>2 DEF OnItsWay
<1>6. ASSUME NEW r \in Exports, BeginTable(r) PROVE OnItsWay(q, w, e)'
  <2>1. work = db /\ events' = events
    BY <1>6 DEF BeginTable, Begin, IInv
  <2>2. e \in Range(events[q][w])
    BY <1>2, <2>1 DEF Arrived
  <2> QED BY <2>1, <2>2 DEF OnItsWay
<1>7. ASSUME NEW r \in Exports, WriteEvent(r) PROVE OnItsWay(q, w, e)'
  <2> DEFINE rows == events[r][stage[r]]
             f == Head(rows)
  <2>1. /\ stage[r] \in {"traces", "observations"} /\ holder = r
        /\ ApplyEvent(f) /\ f \in Events
        /\ Range(rows) = {f} \cup Range(Tail(rows))
        /\ events'[r][stage[r]] = Tail(rows)
        /\ r # q \/ w # stage[r] => events'[q][w] = events[q][w]
    BY <1>7, WriteEvents
  <2>2. work'.seen = [work.seen EXCEPT ![f.id] = @ \cup {f}] /\ work.seen \in [Entities -> SUBSET Events]
    BY <2>1, ApplySeen DEF IInv, TypeOK, Database
  <2>3. holder' = holder /\ stage' = stage
    BY <1>7 DEF WriteEvent
  <2>4. CASE e \in work.seen[e.id] /\ holder = q /\ stage[q] = w
    <3>1. e \in work'.seen[e.id]
      <4> HIDE DEF f
      <4> QED BY <2>2, <2>4
    <3> QED BY <2>3, <2>4, <3>1 DEF OnItsWay
  <2>5. CASE e \in Range(events[q][w]) /\ (r # q \/ w # stage[r])
    BY <2>1, <2>5 DEF OnItsWay
  <2>6. CASE e \in Range(events[q][w]) /\ r = q /\ w = stage[r]
    <3>1. CASE e = f
      <4>1. e \in work'.seen[e.id]
        <5> HIDE DEF f
        <5> QED BY <2>2, <3>1
      <4> QED BY <2>1, <2>3, <2>6, <4>1 DEF OnItsWay
    <3>2. CASE e # f
      <4>1. e \in Range(events'[q][w])
        <5> HIDE DEF f
        <5> QED BY <2>1, <2>6, <3>2
      <4> QED BY <4>1 DEF OnItsWay
    <3> QED BY <3>1, <3>2
  <2> QED BY <1>2, <2>4, <2>5, <2>6
<1>8. ASSUME NEW r \in Exports, CommitTable(r) PROVE OnItsWay(q, w, e)'
  <2>1. db'.seen = work.seen /\ events' = events
    BY <1>8, CommitSeen DEF CommitTable
  <2>2. CASE e \in work.seen[e.id]
    BY <2>1, <2>2 DEF OnItsWay, Arrived
  <2>3. CASE e \in Range(events[q][w])
    BY <2>1, <2>3 DEF OnItsWay
  <2> QED BY <1>2, <2>2, <2>3
<1>9. ASSUME NEW r \in Exports, Answer(r) \/ LoseAnswer(r) PROVE OnItsWay(q, w, e)'
  <2>1. UNCHANGED <<work, events, holder>> /\ stage[r] = "answer"
        /\ \E x : stage' = [stage EXCEPT ![r] = x]
    BY <1>9 DEF Answer, LoseAnswer, vars
  <2>2. stage[q] = w => stage'[q] = w
    BY <2>1 DEF RouteInv
  <2> QED BY <1>2, <2>1, <2>2 DEF OnItsWay
<1>10. ASSUME NEW r \in Exports, FailTable(r), r # q \/ w # stage[r] PROVE OnItsWay(q, w, e)'
  <2>1. FailedEvents(r) /\ holder = r
    BY <1>10, FailEvents
  <2>2. events'[q][w] = events[q][w]
    BY <1>10, <2>1 DEF FailedEvents
  <2>3. e \in Range(events[q][w])
    BY <1>2, <1>10, <2>1
  <2> QED BY <2>2, <2>3 DEF OnItsWay
<1>11. ASSUME NEW table \in Tables, NEW S \in SUBSET table, RemoveRows(S) PROVE OnItsWay(q, w, e)'
  <2>1. work = db /\ events' = events
    BY <1>11, DeleteSeen DEF RemoveRows
  <2>2. e \in Range(events[q][w])
    BY <1>2, <2>1 DEF Arrived
  <2> QED BY <2>1, <2>2 DEF OnItsWay
<1> QED BY <1>4, <1>5, <1>6, <1>7, <1>8, <1>9, <1>10, <1>11 DEF Proceeds

LEMMA SentStays ==
  ASSUME IInv, RouteInv, Met, NEW q \in Exports
  PROVE  /\ Proceeds(q, "traces") /\ TracesSent(q) => TracesSent(q)'
         /\ Proceeds(q, "observations") /\ ObservationsSent(q) => ObservationsSent(q)'
<1>1. ASSUME Proceeds(q, "traces"), TracesSent(q) PROVE TracesSent(q)'
  <2> SUFFICES ASSUME NEW i \in DOMAIN SpansOf[q], ForTrace(SpansOf[q], i)
               PROVE  \E env \in Envelopes : OnItsWay(q, "traces", TraceEvent(SpansOf[q], i, env))'
    BY DEF TracesSent
  <2>1. PICK env \in Envelopes : OnItsWay(q, "traces", TraceEvent(SpansOf[q], i, env))
    BY <1>1 DEF TracesSent
  <2>2. TraceEvent(SpansOf[q], i, env).id \in Entities
    BY TraceEventFacts DEF Entities
  <2>3. OnItsWay(q, "traces", TraceEvent(SpansOf[q], i, env))'
    BY <1>1, <2>1, <2>2, OnItsWayStays
  <2> QED BY <2>3
<1>2. ASSUME Proceeds(q, "observations"), ObservationsSent(q) PROVE ObservationsSent(q)'
  <2> SUFFICES ASSUME NEW i \in DOMAIN SpansOf[q], Accepts(SpansOf[q][i])
               PROVE  \E t \in 0..MaxNow :
                        OnItsWay(q, "observations", ObservationEvent(SpansOf[q][i], t))'
    BY DEF ObservationsSent
  <2>1. PICK t \in 0..MaxNow : OnItsWay(q, "observations", ObservationEvent(SpansOf[q][i], t))
    BY <1>2 DEF ObservationsSent
  <2>2. ObservationEvent(SpansOf[q][i], t).id \in Entities
    BY ObservationEventFacts DEF Entities
  <2>3. OnItsWay(q, "observations", ObservationEvent(SpansOf[q][i], t))'
    BY <1>2, <2>1, <2>2, OnItsWayStays
  <2> QED BY <2>3
<1> QED BY <1>1, <1>2

\* A request that is converted waits with all of its events.
LEMMA ExportTracked ==
  ASSUME RouteInv, Books, NEW q \in Exports, Export(q)
  PROVE  Tracked(q)'
<1> SUFFICES ASSUME q \notin Broken PROVE Tracked(q)'
  BY DEF Tracked
<1>1. PICK x \in [traces : Seq(Events), observations : Seq(Events)] :
        /\ events' = [events EXCEPT ![q] = x]
        /\ \A i \in DOMAIN SpansOf[q] : ForTrace(SpansOf[q], i) =>
             \E env \in Envelopes : TraceEvent(SpansOf[q], i, env) \in Range(x.traces)
        /\ \A i \in DOMAIN SpansOf[q] : Accepts(SpansOf[q][i]) =>
             \E t \in 0..MaxNow : ObservationEvent(SpansOf[q][i], t) \in Range(x.observations)
  BY ExportEvents
<1>2. events'[q] = x
  BY <1>1 DEF RouteInv
<1>3. TracesSent(q)' /\ ObservationsSent(q)'
  BY <1>1, <1>2 DEF TracesSent, ObservationsSent, OnItsWay
<1>4. Range(SpansOf[q]) \cap Invalid # {} => "invalid" \in failed'[q]
  BY DEF Export, Books
<1>5. stage'[q] = NextStage(x)
  BY <1>2 DEF Export, RouteInv
<1>6. stage'[q] = "answer" => events'[q] = NoEvents
  BY <1>2, <1>5 DEF NextStage, NoEvents
<1> QED BY <1>3, <1>4, <1>6 DEF Tracked

LEMMA TrackedStep ==
  ASSUME IInv, RouteInv, Books, Met, [OtelNext]_<<vars, otelVars>>,
         NEW q \in Exports, Tracked(q)
  PROVE  Tracked(q)'
<1>0. RouteInv'
  BY RouteStep
<1>1. CASE Export(q)
  BY <1>1, ExportTracked
<1>2. CASE Crash
  BY <1>2 DEF Crash, Tracked, Underway
<1>3. CASE FailTable(q)
  <2>1. /\ FailedEvents(q) /\ stage[q] \in {"traces", "observations"}
        /\ failed' = [failed EXCEPT ![q] = failed[q] \cup {stage[q]}]
        /\ stage' = [stage EXCEPT ![q] = NextStage(events'[q])]
    BY <1>3, FailEvents DEF FailTable, LeaveTable
  <2>2. Underway(q) /\ failed'[q] = failed[q] \cup {stage[q]} /\ stage'[q] = NextStage(events'[q])
    BY <2>1 DEF Underway, Books, RouteInv
  <2>3. stage'[q] = "answer" => events'[q] = NoEvents
    <3>1. events'[q] \in [traces : Seq(Events), observations : Seq(Events)]
      BY <1>0 DEF RouteInv
    <3> QED BY <2>2, <3>1 DEF NextStage, NoEvents
  <2>4. "traces" \notin failed'[q] => Proceeds(q, "traces")
    BY <1>3, <2>2 DEF Proceeds
  <2>5. "observations" \notin failed'[q] => Proceeds(q, "observations")
    BY <1>3, <2>2 DEF Proceeds
  <2> QED BY <2>2, <2>3, <2>4, <2>5, SentStays DEF Tracked
<1>4. CASE ~Export(q) /\ ~Crash /\ ~FailTable(q)
  <2>1. Proceeds(q, "traces") /\ Proceeds(q, "observations")
    BY <1>4 DEF OtelNext, Proceeds
  <2>2. failed'[q] = failed[q]
    <3>1. ASSUME NEW r \in Exports \ {q}, Export(r) \/ FailTable(r) PROVE failed'[q] = failed[q]
      BY <3>1 DEF Export, FailTable, Books
    <3>2. ASSUME NEW r \in Exports,
                 BeginTable(r) \/ WriteEvent(r) \/ CommitTable(r) \/ Answer(r) \/ LoseAnswer(r)
          PROVE  failed' = failed
      BY <3>2 DEF BeginTable, WriteEvent, CommitTable, Answer, LoseAnswer
    <3> QED BY <1>4, <3>1, <3>2 DEF OtelNext, RemoveRows, otelVars
  <2>3. Underway(q)' => Underway(q)
    <3>1. ASSUME NEW r \in Exports \ {q}, stage' # stage, RouteInv,
                 Export(r) \/ FailTable(r) \/ CommitTable(r) \/ Answer(r) \/ LoseAnswer(r)
          PROVE  stage'[q] = stage[q]
      BY <3>1 DEF Export, FailTable, CommitTable, LeaveTable, Answer, LoseAnswer, RouteInv
    <3>2. ASSUME Answer(q) \/ LoseAnswer(q) PROVE ~Underway(q)'
      <4>1. stage'[q] \in {"again", "done"}
        BY <3>2 DEF Answer, LoseAnswer, RouteInv
      <4> QED BY <4>1 DEF Underway
    <3>3. ASSUME CommitTable(q) PROVE Underway(q)
      BY <3>3, SpansAssumption DEF CommitTable, RouteInv, Underway
    <3>4. ASSUME NEW r \in Exports, BeginTable(r) \/ WriteEvent(r) PROVE stage' = stage
      BY <3>4 DEF BeginTable, WriteEvent
    <3>5. stage' # stage => stage'[q] = stage[q] \/ ~Underway(q)' \/ Underway(q)
      BY <1>4, <3>1, <3>2, <3>3, <3>4 DEF OtelNext, RemoveRows, otelVars
    <3> QED BY <3>5 DEF Underway
  <2>4. Underway(q)' /\ stage'[q] = "answer" =>
          events'[q] = NoEvents \/ (stage[q] = "answer" /\ events'[q] = events[q])
    <3>1. ASSUME CommitTable(q) PROVE stage'[q] = "answer" => events'[q] = NoEvents
      <4>1. stage'[q] = NextStage(events'[q])
        BY <3>1 DEF CommitTable, LeaveTable, RouteInv
      <4>2. events'[q] \in [traces : Seq(Events), observations : Seq(Events)]
        BY <1>0 DEF RouteInv
      <4> QED BY <4>1, <4>2 DEF NextStage, NoEvents
    <3>2. ASSUME NEW r \in Exports \ {q}, FailTable(r) \/ CommitTable(r)
          PROVE  stage'[q] = stage[q] /\ events'[q] = events[q]
      BY <3>2 DEF FailTable, CommitTable, LeaveTable, RouteInv
    <3>3. ASSUME NEW r \in Exports \ {q}, Answer(r) \/ LoseAnswer(r)
          PROVE  stage'[q] = stage[q] /\ events'[q] = events[q]
      BY <3>3 DEF Answer, LoseAnswer, RouteInv
    <3>4. ASSUME NEW r \in Exports \ {q}, Export(r)
          PROVE  stage'[q] = stage[q] /\ events'[q] = events[q]
      <4>1. PICK x : events' = [events EXCEPT ![r] = x]
        BY <3>4, ExportEvents
      <4> QED BY <3>4, <4>1 DEF Export, RouteInv
    <3>5. ASSUME NEW r \in Exports, WriteEvent(r), stage'[q] = "answer"
          PROVE  stage'[q] = stage[q] /\ events'[q] = events[q]
      <4>1. stage' = stage /\ holder = r /\ stage[r] \in {"traces", "observations"}
        BY <3>5, WriteEvents DEF WriteEvent
      <4>2. r # q
        BY <3>5, <4>1
      <4>3. events' = [events EXCEPT ![r] = [events[r] EXCEPT ![stage[r]] = Tail(events[r][stage[r]])]]
        BY <3>5 DEF WriteEvent
      <4> QED BY <4>1, <4>2, <4>3 DEF RouteInv
    <3>6. ASSUME NEW r \in Exports, BeginTable(r)
          PROVE  stage'[q] = stage[q] /\ events'[q] = events[q]
      BY <3>6 DEF BeginTable
    <3>7. ASSUME Answer(q) \/ LoseAnswer(q) PROVE ~Underway(q)'
      <4>1. stage'[q] \in {"again", "done"}
        BY <3>7 DEF Answer, LoseAnswer, RouteInv
      <4> QED BY <4>1 DEF Underway
    <3>8. ASSUME NEW table \in Tables, NEW S \in SUBSET table, RemoveRows(S)
          PROVE  stage'[q] = stage[q] /\ events'[q] = events[q]
      BY <3>8 DEF RemoveRows
    <3>9. ASSUME UNCHANGED <<vars, otelVars>>
          PROVE  stage'[q] = stage[q] /\ events'[q] = events[q]
      BY <3>9 DEF otelVars
    <3> QED BY <1>4, <3>1, <3>2, <3>3, <3>4, <3>5, <3>6, <3>7, <3>8, <3>9 DEF OtelNext
  <2> QED BY <2>1, <2>2, <2>3, <2>4, SentStays DEF Tracked
<1> QED BY <1>1, <1>2, <1>3, <1>4

\* A request that was told 200 has nothing on its way any more, and nothing failed.
LEMMA AnswerKeeps ==
  ASSUME RouteInv, Books, NEW q \in Exports \ Broken, Tracked(q), Answer(q), Status(q) = 200
  PROVE  Kept(q)
<1>1. failed[q] = {}
  <2>1. failed[q] \in SUBSET {"traces", "observations", "invalid"}
    BY DEF Books
  <2>2. CASE failed[q] \ {"invalid"} # {}
    <3>1. failed[q] # {"invalid"} /\ failed[q] # {}
      BY <2>2
    <3> QED BY <2>2, <3>1 DEF Status
  <2>3. CASE failed[q] = {"invalid"}
    <3>1. failed[q] \ {"invalid"} = {} /\ failed[q] # {}
      BY <2>3
    <3> QED BY <2>3, <3>1 DEF Status
  <2> QED BY <2>1, <2>2, <2>3
<1>2. stage[q] = "answer" /\ Underway(q) /\ events[q] = NoEvents
  BY DEF Answer, Underway, Tracked
<1>3. holder # q
  BY <1>2, SpansAssumption DEF RouteInv
<1>4. Range(events[q]["traces"]) = {} /\ Range(events[q]["observations"]) = {}
  BY <1>2, RangeOfEmpty DEF NoEvents
<1>5. \A w \in {"traces", "observations"} : \A e : OnItsWay(q, w, e) => Arrived(e)
  BY <1>3, <1>4 DEF OnItsWay
<1>6. Range(SpansOf[q]) \cap Invalid = {}
  BY <1>1, <1>2 DEF Tracked
<1>7. TracesSent(q) /\ ObservationsSent(q)
  BY <1>1, <1>2 DEF Tracked
<1>8. \A i \in DOMAIN SpansOf[q] : Accepts(SpansOf[q][i])
  BY <1>6 DEF Accepts, Range
<1>9. ASSUME NEW i \in DOMAIN SpansOf[q], ForTrace(SpansOf[q], i)
      PROVE  \E env \in Envelopes : Arrived(TraceEvent(SpansOf[q], i, env))
  BY <1>5, <1>7, <1>9 DEF TracesSent
<1>10. ASSUME NEW i \in DOMAIN SpansOf[q]
       PROVE  \E t \in 0..MaxNow : Arrived(ObservationEvent(SpansOf[q][i], t))
  BY <1>5, <1>7, <1>8 DEF ObservationsSent
<1> QED BY <1>6, <1>9, <1>10 DEF Kept

LEMMA KeptStays ==
  ASSUME IInv, Met, [OtelNext]_<<vars, otelVars>>, NEW q \in Exports, Kept(q)
  PROVE  Kept(q)'
<1>1. ASSUME NEW i \in DOMAIN SpansOf[q], ForTrace(SpansOf[q], i)
      PROVE  \E env \in Envelopes : Arrived(TraceEvent(SpansOf[q], i, env))'
  <2>1. PICK env \in Envelopes : Arrived(TraceEvent(SpansOf[q], i, env))
    BY <1>1 DEF Kept
  <2>2. TraceEvent(SpansOf[q], i, env).id \in Entities
    BY TraceEventFacts DEF Entities
  <2>3. Arrived(TraceEvent(SpansOf[q], i, env))'
    BY <2>1, <2>2, ArrivedStays
  <2> QED BY <2>3
<1>2. ASSUME NEW i \in DOMAIN SpansOf[q]
      PROVE  \E t \in 0..MaxNow : Arrived(ObservationEvent(SpansOf[q][i], t))'
  <2>1. PICK t \in 0..MaxNow : Arrived(ObservationEvent(SpansOf[q][i], t))
    BY DEF Kept
  <2>2. ObservationEvent(SpansOf[q][i], t).id \in Entities
    BY ObservationEventFacts DEF Entities
  <2>3. Arrived(ObservationEvent(SpansOf[q][i], t))'
    BY <2>1, <2>2, ArrivedStays
  <2> QED BY <2>3
<1> QED BY <1>1, <1>2 DEF Kept

LEMMA DeliveryStep ==
  DeliveryInv /\ [OtelNext]_<<vars, otelVars>> => DeliveryInv'
<1> SUFFICES ASSUME DeliveryInv, [OtelNext]_<<vars, otelVars>> PROVE DeliveryInv'
  OBVIOUS
<1>1. /\ IInv /\ RouteInv /\ Books /\ Queued /\ Met /\ NoneLegacy(db) /\ NoneLegacy(work)
      /\ \A q \in Exports : Tracked(q)
      /\ \A q \in acknowledged \ Broken : Kept(q)
  BY DEF DeliveryInv
<1>2. RouteInv' /\ [Next]_vars
  BY <1>1, RouteStep
<1>3. IInv'
  BY <1>1, <1>2, StepIInv
<1>4. Books' /\ Queued' /\ Met'
  BY <1>1, BooksStep, QueuedStep, MetStep
<1>5. NoneLegacy(db)' /\ NoneLegacy(work)'
  BY <1>1, <1>2, NoneLegacyStep
<1>6. ASSUME NEW q \in Exports PROVE Tracked(q)'
  BY <1>1, TrackedStep
<1>7. ASSUME NEW q \in acknowledged' \ Broken PROVE Kept(q)'
  <2>1. q \in Exports
    BY <1>4 DEF Books
  <2>2. CASE q \in acknowledged
    BY <1>1, <2>1, <2>2, KeptStays
  <2>3. CASE q \notin acknowledged
    <3>1. Answer(q) /\ Status(q) = 200
      <4>1. PICK r \in Exports : Answer(r)
        BY <2>3 DEF OtelNext, Export, BeginTable, WriteEvent, CommitTable, FailTable, LeaveTable,
          LoseAnswer, Crash, RemoveRows, otelVars
      <4>2. acknowledged' = IF Status(r) = 200 THEN acknowledged \cup {r} ELSE acknowledged
        BY <4>1 DEF Answer
      <4>3. q \in acknowledged' /\ q \notin acknowledged
        BY <1>7, <2>3
      <4>4. CASE Status(r) = 200
        <5>1. q = r
          BY <4>2, <4>3, <4>4
        <5> QED BY <4>1, <4>4, <5>1
      <4>5. CASE Status(r) # 200
        BY <4>2, <4>3, <4>5
      <4> QED BY <4>4, <4>5
    <3>2. Kept(q)
      BY <1>1, <2>1, <3>1, AnswerKeeps
    <3> QED BY <1>1, <2>1, <3>2, KeptStays
  <2> QED BY <2>2, <2>3
<1> QED BY <1>2, <1>3, <1>4, <1>5, <1>6, <1>7 DEF DeliveryInv

\* The store an exporter finds, and no request yet.
LEMMA DeliveryInit ==
  Init /\ OtelInit /\ (LegacyTs = 0 \/ db.live = {}) => DeliveryInv
<1> SUFFICES ASSUME Init, OtelInit, LegacyTs = 0 \/ db.live = {} PROVE DeliveryInv
  OBVIOUS
<1>1. IInv /\ RouteInv
  BY InitIInv, RouteInit
<1>2. Books
  BY SpansAssumption DEF OtelInit, Books
<1>3. Queued
  BY RangeOfEmpty DEF OtelInit, Queued, NoEvents
<1>4. PICK L \in SUBSET LegacyRows, M \in SUBSET Traces : db = Flushed(Legacy(L), M)
  BY DEF Init
<1>5. /\ db.live = L /\ db.versioned = {} /\ work = db
      /\ db.version = [x \in Entities |-> [c \in Columns |-> NoVersion]]
      /\ db.seen = [x \in Entities |-> {}]
  BY <1>4 DEF Flushed, Legacy, Init
<1>6. Met
  BY <1>5 DEF Met
<1>7. NoneLegacy(db) /\ NoneLegacy(work)
  BY <1>5 DEF NoneLegacy
<1>8. (\A q \in Exports : Tracked(q)) /\ acknowledged = {}
  BY DEF OtelInit, Tracked, Underway
<1> QED BY <1>1, <1>2, <1>3, <1>6, <1>7, <1>8 DEF DeliveryInv

\* The event a column has its value from is not older than any its row has met.
LEMMA Winner ==
  ASSUME IInv, NoneLegacy(db), NEW x \in Entities, NEW e \in db.seen[x], NEW c \in DOMAIN e.sets
  PROVE  /\ x \in db.live
         /\ \E f \in db.seen[x] :
              /\ c \in DOMAIN f.sets \cup DOMAIN f.inherits
              /\ db.value[x][c] = Payload(f, c) /\ ~ Older(VersionOf(f), VersionOf(e))
<1> DEFINE v == db.version[x][c]
<1>1. db \in Database /\ RowsLatest(db) /\ Unversioned(db)
  BY DEF IInv, Sound
<1>2. x \in db.versioned /\ x \in db.live
  BY <1>1 DEF Unversioned, RowsLatest
<1>3. e \in Events /\ e.ts \in Nat /\ e.env \in Nat \ {0} /\ c \in Columns
  BY <1>1, EventsAssumption DEF Database, Patch
<1>4. /\ ~ Older(v, VersionOf(e))
      /\ \/ v = NoVersion \/ v = <<LegacyTs, 0>>
         \/ \E f \in db.seen[x] : /\ c \in DOMAIN f.sets \cup DOMAIN f.inherits
                                  /\ v = VersionOf(f) /\ db.value[x][c] = Payload(f, c)
  BY <1>1, <1>2, <1>3 DEF RowsLatest, ColumnLatest
<1>5. v # NoVersion
  BY <1>3, <1>4 DEF Older, NoVersion, VersionOf
<1>6. v # <<LegacyTs, 0>>
  <2> SUFFICES ASSUME v = <<LegacyTs, 0>> PROVE FALSE
    OBVIOUS
  <2>1. CASE LegacyTs = 0
    <3>1. v = <<0, 0>>
      BY <2>1
    <3> HIDE DEF v
    <3> QED BY <1>3, <1>4, <3>1 DEF Older, VersionOf
  <2>2. CASE LegacyTs # 0
    <3>1. v = NoVersion \/ v[2] > 0
      BY <1>3, <2>2 DEF NoneLegacy
    <3> HIDE DEF v
    <3> QED BY <1>5, <3>1
  <2> QED BY <2>1, <2>2
<1> HIDE DEF v
<1> QED BY <1>2, <1>4, <1>5, <1>6

\* Every span has an event of its trace in its request, if not one of its own.
LEMMA EveryTraceHasAnEvent ==
  ASSUME NEW q \in Exports, NEW i \in DOMAIN SpansOf[q]
  PROVE  \E j \in DOMAIN SpansOf[q] :
           SpansOf[q][j].trace = SpansOf[q][i].trace /\ ForTrace(SpansOf[q], j)
<1> DEFINE S == SpansOf[q]
           K == {j \in DOMAIN S : S[j].trace = S[i].trace}
<1>1. CASE \E j \in K : Full(S[j])
  BY <1>1 DEF ForTrace
<1>2. CASE \A j \in K : ~Full(S[j])
  <2>1. K \in SUBSET Nat /\ i \in K
    <3>1. K \in SUBSET DOMAIN S
      OBVIOUS
    <3>2. K \in SUBSET Nat
      BY <3>1, SpanIndices
    <3> QED BY <3>2
  <2>2. PICK k \in K : \A j \in K : k <= j
    <3> HIDE DEF K
    <3>1. PICK k \in K : \A j \in K : ~(<<j, k>> \in OpToRel(<, Nat))
      BY <2>1, NatLessThanWellFounded, WFMin
    <3>2. ASSUME NEW j \in K, j < k PROVE FALSE
      <4>1. j \in Nat /\ k \in Nat
        BY <2>1
      <4>2. <<j, k>> \in OpToRel(<, Nat)
        BY <3>2, <4>1 DEF OpToRel
      <4> QED BY <3>1, <4>2
    <3> QED BY <2>1, <3>2
  <2>3. ForTrace(S, k)
    BY <1>2, <2>2 DEF ForTrace
  <2> QED BY <2>3
<1> QED BY <1>1, <1>2

\* An observation has the values of its span, whichever event of it came last.
LEMMA ObservationIsStored ==
  ASSUME DeliveryInv, NEW q \in Exports, Kept(q), NEW i \in DOMAIN SpansOf[q],
         SpansOf[q][i].id \notin removed
  PROVE  LET s == SpansOf[q][i] IN
         /\ s.id \in db.live
         /\ db.value[s.id]["trace"] = s.trace /\ db.value[s.id]["usage"] = s.usage
<1> DEFINE s == SpansOf[q][i]
<1>1. PICK t \in 0..MaxNow : Arrived(ObservationEvent(s, t))
  BY DEF Kept
<1> DEFINE e == ObservationEvent(s, t)
<1>2. /\ e.id = s.id /\ s.id \in Observations /\ s.id \in Entities
      /\ DOMAIN e.sets = {"trace", "usage"}
  BY ObservationEventFacts DEF Entities
<1>3. e \in db.seen[s.id]
  BY <1>1, <1>2 DEF Arrived
<1>4. s \in AllSpans \ Invalid
  BY SpanFacts DEF Kept, Range
<1>5. IInv /\ NoneLegacy(db) /\ Met
  BY DEF DeliveryInv
<1>6. ASSUME NEW c \in {"trace", "usage"}
      PROVE  s.id \in db.live
             /\ db.value[s.id][c] = (IF c = "trace" THEN s.trace ELSE s.usage)
  <2>0. c \in DOMAIN e.sets
    BY <1>2
  <2> HIDE DEF e
  <2>1. s.id \in db.live
    BY <1>2, <1>3, <1>5, <2>0, Winner
  <2>2. PICK f \in db.seen[s.id] : db.value[s.id][c] = Payload(f, c)
    <3> HIDE DEF s
    <3> QED BY <1>2, <1>3, <1>5, <2>0, Winner
  <2>3. f.id = s.id /\ (OfTrace(f) \/ OfObservation(f))
    BY <1>2, <1>5 DEF Met
  <2>4. ~OfTrace(f)
    <3> SUFFICES ASSUME OfTrace(f) PROVE FALSE
      OBVIOUS
    <3>1. f.id \in Traces
      BY TraceEventFacts DEF OfTrace
    <3> QED BY <1>2, <2>3, <3>1, EntitiesAssumption
  <2>5. PICK r \in Exports : \E j \in DOMAIN SpansOf[r] : \E u \in 0..MaxNow :
          Accepts(SpansOf[r][j]) /\ f = ObservationEvent(SpansOf[r][j], u)
    BY <2>3, <2>4 DEF OfObservation
  <2>6. PICK j \in DOMAIN SpansOf[r], u \in 0..MaxNow :
           Accepts(SpansOf[r][j]) /\ f = ObservationEvent(SpansOf[r][j], u)
    BY <2>5
  <2>7. /\ f.id = SpansOf[r][j].id /\ DOMAIN f.sets = {"trace", "usage"}
        /\ f.sets["trace"] = SpansOf[r][j].trace /\ f.sets["usage"] = SpansOf[r][j].usage
    <3> DEFINE g == ObservationEvent(SpansOf[r][j], u)
    <3>1. /\ g.id = SpansOf[r][j].id /\ DOMAIN g.sets = {"trace", "usage"}
          /\ g.sets["trace"] = SpansOf[r][j].trace /\ g.sets["usage"] = SpansOf[r][j].usage
      BY DEF ObservationEvent
    <3>2. f = g
      BY <2>6
    <3> HIDE DEF g
    <3> QED BY <3>1, <3>2
  <2>8. SpansOf[r][j] \in AllSpans \ Invalid
    BY <2>6, SpanFacts DEF Accepts
  <2>9. SpansOf[r][j].trace = s.trace /\ SpansOf[r][j].usage = s.usage
    BY <1>4, <2>3, <2>7, <2>8, SameSpanAssumption
  <2>10. Payload(f, c) = f.sets[c]
    BY <2>7 DEF Payload
  <2> QED BY <2>1, <2>2, <2>7, <2>9, <2>10
<1> QED BY <1>6

\* The columns of a trace have nothing that only spans earlier than a kept one said.
LEMMA TraceIsStored ==
  ASSUME DeliveryInv, NEW q \in Exports, Kept(q), NEW i \in DOMAIN SpansOf[q],
         SpansOf[q][i].trace \notin removed
  PROVE  LET s == SpansOf[q][i] IN
         /\ s.trace \in db.live
         /\ \A c \in DOMAIN s.sets : SaysOfTrace(s.trace, c, s.start, db.value[s.trace][c])
<1> DEFINE s == SpansOf[q][i]
           x == s.trace
<1>1. IInv /\ NoneLegacy(db) /\ Met
  BY DEF DeliveryInv
<1>2. x \in Traces /\ x \in Entities /\ s \in AllSpans /\ s.start \in Nat
  BY SpanFacts DEF Entities
<1>3. x \in db.live
  <2>1. PICK j \in DOMAIN SpansOf[q] : SpansOf[q][j].trace = x /\ ForTrace(SpansOf[q], j)
    BY EveryTraceHasAnEvent
  <2>2. PICK env \in Envelopes : Arrived(TraceEvent(SpansOf[q], j, env))
    BY <2>1 DEF Kept
  <2>3. TraceEvent(SpansOf[q], j, env).id = x
    BY <2>1, TraceEventFacts
  <2>4. db.seen[x] # {}
    BY <2>2, <2>3 DEF Arrived
  <2> QED BY <1>1, <1>2, <2>4 DEF IInv, Sound, Unversioned, RowsLatest
<1>4. ASSUME NEW c \in DOMAIN s.sets PROVE SaysOfTrace(x, c, s.start, db.value[x][c])
  <2>1. ForTrace(SpansOf[q], i)
    <3>1. s.sets # <<>>
      <4>1. DOMAIN s.sets # {}
        OBVIOUS
      <4> QED BY <4>1
    <3> QED BY <1>2, <3>1, SpansAssumption DEF Full, ForTrace
  <2>2. PICK env \in Envelopes : Arrived(TraceEvent(SpansOf[q], i, env))
    BY <2>1 DEF Kept
  <2> DEFINE e == TraceEvent(SpansOf[q], i, env)
  <2>3. e.id = x /\ e.ts = s.start /\ e.sets = s.sets
    BY TraceEventFacts
  <2>4. e \in db.seen[x]
    BY <2>2, <2>3 DEF Arrived
  <2>5. PICK f \in db.seen[x] : /\ c \in DOMAIN f.sets \cup DOMAIN f.inherits
                                /\ db.value[x][c] = Payload(f, c)
                                /\ ~ Older(VersionOf(f), VersionOf(e))
    <3>1. c \in DOMAIN e.sets
      BY <2>3
    <3> HIDE DEF e, x
    <3> QED BY <1>1, <1>2, <2>4, <3>1, Winner
  <2>6. f.id = x /\ (OfTrace(f) \/ OfObservation(f))
    BY <1>1, <1>2 DEF Met
  <2>7. ~OfObservation(f)
    <3> SUFFICES ASSUME OfObservation(f) PROVE FALSE
      OBVIOUS
    <3>1. f.id \in Observations
      BY ObservationEventFacts DEF OfObservation
    <3> QED BY <1>2, <2>6, <3>1, EntitiesAssumption
  <2>8. PICK r \in Exports : \E j \in DOMAIN SpansOf[r] : \E env2 \in Envelopes :
           ForTrace(SpansOf[r], j) /\ f = TraceEvent(SpansOf[r], j, env2)
    BY <2>6, <2>7 DEF OfTrace
  <2>9. PICK j \in DOMAIN SpansOf[r], env2 \in Envelopes :
          ForTrace(SpansOf[r], j) /\ f = TraceEvent(SpansOf[r], j, env2)
    BY <2>8
  <2> DEFINE g == TraceEvent(SpansOf[r], j, 1)
  <2>10. g.id = f.id /\ g.ts = f.ts /\ g.sets = f.sets /\ g.inherits = f.inherits
    BY <2>9 DEF TraceEvent
  <2>11. f.ts \in Nat
    BY <2>9, TraceEventFacts, SpanFacts
  <2>12. f.ts >= s.start
    <3> HIDE DEF e, s
    <3> QED BY <1>2, <2>3, <2>5, <2>11 DEF Older, VersionOf
  <2>13. Payload(g, c) = Payload(f, c)
    <3> HIDE DEF g
    <3> QED BY <2>10 DEF Payload
  <2>14. /\ g.id = x /\ g.ts >= s.start /\ c \in DOMAIN g.sets \cup DOMAIN g.inherits
         /\ Payload(g, c) = db.value[x][c]
    <3> HIDE DEF g, s
    <3> QED BY <2>5, <2>6, <2>10, <2>12, <2>13
  <2> HIDE DEF s
  <2> QED BY <2>9, <2>14 DEF SaysOfTrace
<1> QED BY <1>3, <1>4

(* What an exporter was told 200 for is in the store until it is deleted,   *)
(* whatever failed, was repeated, was lost on the way or died in between:   *)
(* each span has its observation with its own values, and its trace has a   *)
(* row with nothing in it that only earlier spans said.  The store may hold *)
(* rows of the release before the versions if they are older than all       *)
(* spans: otherwise their values may be newer than those of a span.         *)
THEOREM AcknowledgedSpansAreStored ==
  OtelSpec /\ (LegacyTs = 0 \/ db.live = {}) => []AcknowledgedIsStored
<1>1. DeliveryInv => AcknowledgedIsStored
  <2> SUFFICES ASSUME DeliveryInv PROVE AcknowledgedIsStored
    OBVIOUS
  <2>1. OtelTypeOK
    BY DEF DeliveryInv, RouteInv, Books, OtelTypeOK
  <2>2. ASSUME NEW q \in acknowledged \ Broken, NEW s \in Range(SpansOf[q]) PROVE SpanIsStored(s)
    <3>1. q \in Exports /\ Kept(q)
      BY DEF DeliveryInv, Books
    <3>2. PICK i \in DOMAIN SpansOf[q] : s = SpansOf[q][i]
      BY DEF Range
    <3>3. s.id \notin removed =>
            /\ s.id \in db.live
            /\ db.value[s.id]["trace"] = s.trace /\ db.value[s.id]["usage"] = s.usage
      BY <3>1, <3>2, ObservationIsStored
    <3>4. s.trace \notin removed =>
            /\ s.trace \in db.live
            /\ \A c \in DOMAIN s.sets : SaysOfTrace(s.trace, c, s.start, db.value[s.trace][c])
      BY <3>1, <3>2, TraceIsStored
    <3> QED BY <3>3, <3>4 DEF SpanIsStored
  <2> QED BY <2>1, <2>2 DEF AcknowledgedIsStored
<1> QED BY <1>1, DeliveryInit, DeliveryStep, PTL DEF OtelSpec

-----------------------------------------------------------------------------
(***************************************************************************)
(* Dataset items.                                                          *)
(***************************************************************************)

\* The versions of an item in a dataset follow one another, but for those that a
\* deletion closed late.
Before(v, w) == v.to # Open /\ v.to <= w.from
Late(v) == Key(v) \in overtaken
Succession ==
  \A v, w \in versions :
    /\ v.from <= instant /\ (v.to # Open => v.to <= instant) /\ (v.to = Open => ~v.deleted)
    /\ v.item = w.item /\ v.from = w.from => v = w
    /\ v.item = w.item /\ v.dataset = w.dataset /\ v # w =>
         Before(v, w) \/ Before(w, v) \/ Late(v) \/ Late(w)

\* The runs that exist, those that run items name, and those on the way to one.
KnownRuns ==
  runs \cup {x.run : x \in runItems} \cup {call[c].run : c \in {d \in Callers : Reached(d, "add")}}
RunsKnown ==
  /\ \A r, s \in KnownRuns : r.dataset = s.dataset /\ r.name = s.name => r = s
  /\ \A r \in KnownRuns : r.dataset \in datasets => r \in runs

Calls ==
  [step : {"rest"}]
  \cup [step : {"require", "runItems"}, dataset : Datasets, item : Items]
  \cup [step : {"close"}, item : Items, from : Instants]
  \cup [step : {"run", "insert", "again"}, dataset : Datasets, item : Items, name : RunNames]
  \cup [step : {"add"}, item : Items, run : Run]
ItemsIInv == ItemsInv /\ Succession /\ RunsKnown /\ call \in [Callers -> Calls]

LEMMA DatasetInitInv == DatasetInit => ItemsIInv
BY DatasetsAssumption
DEF DatasetInit, ItemsIInv, ItemsInv, DatasetTypeOK, OneVersion, OneRun, LoserFinds, Succession, RunsKnown,
    KnownRuns, Calls, NoCall, Reached, AsOf, Instants, RunsNamed

\* What the versions and runs promise follows from how they succeed one another.
LEMMA SuccessionSuffices ==
  DatasetTypeOK /\ Succession /\ RunsKnown /\ LoserFinds => ItemsInv
<1> SUFFICES ASSUME DatasetTypeOK, Succession, RunsKnown, LoserFinds PROVE ItemsInv
  OBVIOUS
<1>1. OneVersion
  <2> SUFFICES ASSUME NEW d \in Datasets, NEW i \in Items, NEW t \in Instants,
                      NEW v \in AsOf(d, i, t), NEW w \in AsOf(d, i, t), v # w
               PROVE  Late(v) \/ Late(w)
    BY DEF OneVersion, Late
  <2>1. /\ v \in Version /\ w \in Version /\ v \in versions /\ w \in versions
        /\ v.dataset = w.dataset /\ v.item = w.item
        /\ v.from <= t /\ t < v.to /\ w.from <= t /\ t < w.to
    BY DEF AsOf, DatasetTypeOK
  <2>2. v.from \in Int /\ v.to \in Int /\ w.from \in Int /\ w.to \in Int /\ t \in Int
    BY <2>1, DatasetsAssumption DEF Version, Instants, Open
  <2>3. ~Before(v, w) /\ ~Before(w, v)
    BY <2>1, <2>2 DEF Before
  <2> QED BY <2>1, <2>3 DEF Succession
<1>2. OneRun
  BY DEF OneRun, RunsKnown, KnownRuns
<1> QED BY <1>1, <1>2 DEF ItemsInv

\* Nothing else moves when the versions do, but for the end of a request.
LEMMA OnlyVersions ==
  ASSUME ItemsIInv, versions' \subseteq Version, \A v \in versions' : v.dataset \in datasets,
         Succession', UNCHANGED <<datasets, runs, runItems>>, instant' = instant,
         call' = call \/ \E c \in Callers : Continue(c, NoCall)
  PROVE  ItemsIInv'
<1> USE DEF Continue
<1>1. DatasetTypeOK'
  BY DEF ItemsIInv, ItemsInv, DatasetTypeOK
<1>2. call' \in [Callers -> Calls] /\ \A c \in Callers : call'[c] = call[c] \/ call'[c] = NoCall
  BY DEF ItemsIInv, Calls, NoCall
<1>3. RunsKnown' /\ LoserFinds'
  BY <1>2
  DEF ItemsIInv, RunsKnown, KnownRuns, Reached, NoCall, ItemsInv, LoserFinds, RunsNamed
<1>4. (DatasetTypeOK /\ Succession /\ RunsKnown /\ LoserFinds => ItemsInv)'
  BY SuccessionSuffices, PTL
<1> QED BY <1>1, <1>2, <1>3, <1>4 DEF ItemsIInv

LEMMA VersionFacts ==
  ASSUME ItemsIInv, NEW v \in versions
  PROVE  /\ v \in Version /\ v.dataset \in datasets /\ v.from \in Nat /\ v.to \in Nat
         /\ v.from <= instant /\ (v.to # Open => v.to <= instant) /\ (v.to = Open => ~v.deleted)
         /\ instant \in Nat /\ instant <= MaxInstant /\ instant # Open
         /\ instant \in Instants /\ Open \in Nat
BY DatasetsAssumption DEF ItemsIInv, ItemsInv, DatasetTypeOK, Version, Instants, Open, Succession

LEMMA NewItemVersionInv ==
  ASSUME ItemsIInv, NEW d \in Datasets, NEW i \in Items, d \in datasets, NewItemVersion(d, i)
  PROVE  ItemsIInv'
<1> DEFINE cur == Current(d, i)
           new == [dataset |-> d, item |-> i, from |-> instant, to |-> Open, deleted |-> FALSE]
           From(v, u) == \/ v = u /\ u \notin cur
                         \/ u \in cur /\ v = [u EXCEPT !.to = instant]
<1>1. /\ instant \in Instants /\ instant \in Nat /\ Open \in Nat /\ instant # Open
      /\ instant <= MaxInstant
  BY DatasetsAssumption DEF ItemsIInv, ItemsInv, DatasetTypeOK, Instants, Open
<1>2. \A v \in versions' : v = new \/ \E u \in versions : From(v, u)
  BY DEF NewItemVersion, Current
<1>3. new \in Version
  BY <1>1 DEF Version, Open
<1>4. ASSUME NEW v, NEW u \in versions, From(v, u)
      PROVE  /\ v \in Version /\ v.dataset = u.dataset /\ v.item = u.item /\ v.from = u.from
             /\ v.deleted = u.deleted /\ (u \notin cur => v = u)
             /\ (u \in cur => v.to = instant /\ u.dataset = d /\ u.item = i)
  <2>1. u \in Version
    BY VersionFacts
  <2>2. u \in cur => u.dataset = d /\ u.item = i
    BY DEF Current
  <2>3. [u EXCEPT !.to = instant] \in Version
    BY <1>1, <2>1 DEF Version
  <2> QED BY <1>4, <2>1, <2>2, <2>3 DEF Version
<1>5. \A v \in versions' : v \in Version /\ v.dataset \in datasets
  <2>1. \A u \in versions : u.dataset \in datasets
    BY VersionFacts
  <2>2. new.dataset \in datasets
    OBVIOUS
  <2> HIDE DEF From, new
  <2> QED BY <1>2, <1>3, <1>4, <2>1, <2>2
<1>6. ASSUME NEW u \in versions, u \notin cur, u.dataset = d, u.item = i
      PROVE  u.to # Open
  BY <1>6, VersionFacts DEF Current
<1>7. \A v \in versions' :
        v.from <= instant /\ (v.to # Open => v.to <= instant) /\ (v.to = Open => ~v.deleted)
  <2> TAKE v \in versions'
  <2>1. CASE v = new
    BY <1>1, <2>1
  <2>2. ASSUME NEW u \in versions, From(v, u) PROVE
        v.from <= instant /\ (v.to # Open => v.to <= instant) /\ (v.to = Open => ~v.deleted)
    <3>1. CASE u \in cur
      BY <1>1, <1>4, <2>2, <3>1, VersionFacts
    <3>2. CASE u \notin cur
      BY <1>4, <2>2, <3>2, VersionFacts
    <3> QED BY <3>1, <3>2
  <2> QED BY <1>2, <2>1, <2>2
<1> DEFINE Fine(v, w) ==
      /\ v.item = w.item /\ v.from = w.from => v = w
      /\ v.item = w.item /\ v.dataset = w.dataset /\ v # w =>
           Before(v, w) \/ Before(w, v) \/ Late(v) \/ Late(w)
<1>8. ASSUME NEW v, NEW u \in versions, From(v, u)
      PROVE  Fine(v, new) /\ Fine(new, v)
  <2>1. ~(v.item = i /\ v.from = instant)
    BY <1>4, <1>8 DEF NewItemVersion
  <2>2. v.item = i /\ v.dataset = d => Before(v, new)
    <3>1. CASE u \in cur
      BY <1>1, <1>4, <1>8, <3>1 DEF Before
    <3>2. CASE u \notin cur
      BY <1>1, <1>4, <1>6, <1>8, <3>2, VersionFacts DEF Before
    <3> QED BY <3>1, <3>2
  <2> QED BY <2>1, <2>2
<1>9. ASSUME NEW v, NEW w, NEW u \in versions, NEW x \in versions, From(v, u), From(w, x)
      PROVE  Fine(v, w)
  <2>1. u.item = x.item /\ u.from = x.from => u = x
    BY DEF ItemsIInv, Succession
  <2>2. u = x => v = w
    BY <1>9
  <2>3. Late(u) => Late(v)
    BY <1>4, <1>9 DEF Late, Key
  <2>4. Late(x) => Late(w)
    BY <1>4, <1>9 DEF Late, Key
  <2>5. Before(u, x) => Before(v, w)
    <3> SUFFICES ASSUME Before(u, x) PROVE Before(v, w)
      OBVIOUS
    <3>1. u \notin cur
      BY DEF Before, Current
    <3> QED BY <1>4, <1>9, <3>1 DEF Before
  <2>6. Before(x, u) => Before(w, v)
    <3> SUFFICES ASSUME Before(x, u) PROVE Before(w, v)
      OBVIOUS
    <3>1. x \notin cur
      BY DEF Before, Current
    <3> QED BY <1>4, <1>9, <3>1 DEF Before
  <2>7. u.item = x.item /\ u.dataset = x.dataset /\ u # x =>
          Before(u, x) \/ Before(x, u) \/ Late(u) \/ Late(x)
    BY DEF ItemsIInv, Succession
  <2> HIDE DEF From
  <2> QED BY <1>4, <1>9, <2>1, <2>2, <2>3, <2>4, <2>5, <2>6, <2>7
<1>10. \A v, w \in versions' : Fine(v, w)
  <2> HIDE DEF From, Fine
  <2>1. Fine(new, new)
    BY DEF Fine
  <2> HIDE DEF new
  <2> QED BY <1>2, <1>8, <1>9, <2>1
<1>11. Succession'
  BY <1>7, <1>10 DEF Succession, Late, Before, NewItemVersion, Key
<1> QED BY <1>5, <1>11, OnlyVersions DEF NewItemVersion

\* A deletion closes the row it has read, or marks it as late.
LEMMA CloseVersionInv ==
  ASSUME ItemsIInv, NEW c \in Callers, CloseVersion(c)
  PROVE  ItemsIInv'
<1> DEFINE hit == {v \in versions : v.item = call[c].item /\ v.from = call[c].from}
           From(v, u) == (v = u /\ u \notin hit) \/ (u \in hit /\ v = Closed(u))
<1>1. /\ versions' = (versions \ hit) \cup {Closed(v) : v \in hit}
      /\ overtaken' = overtaken \cup {Key(v) : v \in {w \in hit : w.to # Open}}
      /\ Continue(c, NoCall) /\ UNCHANGED <<datasets, runs, runItems, instant>>
  BY DEF CloseVersion
<1>2. \A v \in versions' : \E u \in versions : From(v, u)
  BY <1>1
<1>3. ASSUME NEW v, NEW u \in versions, From(v, u)
      PROVE  /\ v \in Version /\ v.dataset = u.dataset /\ v.item = u.item /\ v.from = u.from
             /\ u \notin hit => v = u
             /\ u \in hit => v.to = instant /\ v.deleted
             /\ v.from <= instant /\ (v.to # Open => v.to <= instant) /\ (v.to = Open => ~v.deleted)
             /\ v.dataset \in datasets
  <2>1. u \in Version /\ instant \in Instants /\ instant \in Nat /\ instant # Open
    BY VersionFacts
  <2>2. Closed(u) \in Version /\ Closed(u).deleted
    BY <2>1 DEF Version, Closed
  <2>3. CASE u \in hit
    <3>1. v = Closed(u)
      BY <1>3, <2>3
    <3>2. v.dataset = u.dataset /\ v.item = u.item /\ v.from = u.from /\ v.to = instant
      BY <3>1, <2>1 DEF Version, Closed
    <3> QED BY <2>1, <2>2, <2>3, <3>1, <3>2, VersionFacts
  <2>4. CASE u \notin hit
    <3>1. v = u
      BY <1>3, <2>4
    <3> QED BY <2>4, <3>1, VersionFacts
  <2> QED BY <2>3, <2>4
<1> DEFINE Fine(v, w) ==
      /\ v.item = w.item /\ v.from = w.from => v = w
      /\ v.item = w.item /\ v.dataset = w.dataset /\ v # w =>
           Before(v, w) \/ Before(w, v) \/ Late(v)' \/ Late(w)'
<1>4. ASSUME NEW v, NEW w, NEW u \in versions, NEW x \in versions, From(v, u), From(w, x)
      PROVE  Fine(v, w)
  <2>1. u.item = x.item /\ u.from = x.from => u = x
    BY DEF ItemsIInv, Succession
  <2>2. u = x => v = w
    BY <1>4
  <2>3. Late(u) => Late(v)'
    BY <1>1, <1>3, <1>4 DEF Late, Key
  <2>4. Late(x) => Late(w)'
    BY <1>1, <1>3, <1>4 DEF Late, Key
  <2>5. Before(u, x) => Before(v, w) \/ Late(v)'
    <3>1. CASE u \in hit
      BY <1>1, <1>3, <1>4, <3>1 DEF Late, Key, Before
    <3>2. CASE u \notin hit
      BY <1>3, <1>4, <3>2 DEF Before
    <3> QED BY <3>1, <3>2
  <2>6. Before(x, u) => Before(w, v) \/ Late(w)'
    <3>1. CASE x \in hit
      BY <1>1, <1>3, <1>4, <3>1 DEF Late, Key, Before
    <3>2. CASE x \notin hit
      BY <1>3, <1>4, <3>2 DEF Before
    <3> QED BY <3>1, <3>2
  <2>7. u.item = x.item /\ u.dataset = x.dataset /\ u # x =>
          Before(u, x) \/ Before(x, u) \/ Late(u) \/ Late(x)
    BY DEF ItemsIInv, Succession
  <2> HIDE DEF From
  <2> QED BY <1>3, <1>4, <2>1, <2>2, <2>3, <2>4, <2>5, <2>6, <2>7
<1> HIDE DEF From
<1>5. \A v, w \in versions' : Fine(v, w)
  <2> HIDE DEF Fine
  <2> QED BY <1>2, <1>4
<1>6. \A v \in versions' :
        /\ v \in Version /\ v.dataset \in datasets
        /\ v.from <= instant /\ (v.to # Open => v.to <= instant) /\ (v.to = Open => ~v.deleted)
  BY <1>2, <1>3
<1>7. Succession'
  BY <1>1, <1>5, <1>6 DEF Succession, Late, Before, Key
<1> QED BY <1>1, <1>6, <1>7, OnlyVersions

\* Steps that leave the versions alone.
LEMMA VersionsRest ==
  ASSUME ItemsIInv, UNCHANGED <<datasets, versions, instant, overtaken>>,
         runs' \subseteq Run, \A r \in runs' : r.dataset \in datasets, runItems' \subseteq RunItem,
         RunsKnown', LoserFinds', call' \in [Callers -> Calls]
  PROVE  ItemsIInv'
<1>1. DatasetTypeOK' /\ Succession'
  BY DEF ItemsIInv, ItemsInv, DatasetTypeOK, Succession, Before, Late, Key
<1>2. (DatasetTypeOK /\ Succession /\ RunsKnown /\ LoserFinds => ItemsInv)'
  BY SuccessionSuffices, PTL
<1> QED BY <1>1, <1>2 DEF ItemsIInv

\* A request goes on, at most with a run of which it is the first to know.
LEMMA CallInv ==
  ASSUME ItemsIInv, NEW c \in Callers, NEW r \in Calls, Continue(c, r),
         UNCHANGED <<datasets, versions, instant, overtaken>>,
         NEW fresh, fresh \subseteq Run, runs' = runs \cup fresh,
         \A s \in fresh : s.dataset \in datasets /\ RunsNamed(s.dataset, s.name) = {},
         \A s, t \in fresh : s = t,
         runItems' \subseteq RunItem,
         \A x \in runItems' : x.run \in KnownRuns,
         r.step = "add" => r.run \in KnownRuns \cup fresh,
         r.step = "again" => RunsNamed(r.dataset, r.name) # {}
  PROVE  ItemsIInv'
<1>1. /\ call \in [Callers -> Calls] /\ call' \in [Callers -> Calls] /\ runs \subseteq Run
      /\ call' = [call EXCEPT ![c] = r] /\ call'[c] = r
      /\ \A d \in Callers \ {c} : call'[d] = call[d]
  BY DEF Continue, ItemsIInv, ItemsInv, DatasetTypeOK
<1>2. KnownRuns' \subseteq KnownRuns \cup fresh
  <2> SUFFICES ASSUME NEW s \in KnownRuns' PROVE s \in KnownRuns \cup fresh
    OBVIOUS
  <2>1. \/ s \in runs' \/ \E x \in runItems' : s = x.run
        \/ \E d \in Callers : call'[d].step = "add" /\ s = call'[d].run
    BY DEF KnownRuns, Reached
  <2>2. CASE \E d \in Callers : call'[d].step = "add" /\ s = call'[d].run
    BY <1>1, <2>2 DEF KnownRuns, Reached
  <2> QED BY <2>1, <2>2 DEF KnownRuns
<1>3. \A s \in fresh, t \in KnownRuns : s.dataset = t.dataset /\ s.name = t.name => s = t
  BY DEF ItemsIInv, RunsKnown, RunsNamed
<1>4. RunsKnown'
  BY <1>2, <1>3 DEF ItemsIInv, RunsKnown
<1>5. LoserFinds'
  <2> SUFFICES ASSUME NEW d \in Callers, call'[d].step = "again"
               PROVE  \/ RunsNamed(call[d].dataset, call[d].name)' # {}
                      \/ call'[d].dataset \notin datasets'
    BY DEF LoserFinds, Reached
  <2>1. \A e, n : RunsNamed(e, n) \subseteq RunsNamed(e, n)'
    BY DEF RunsNamed
  <2>2. CASE d = c
    <3>1. call'[d] = r
      BY <1>1, <2>2
    <3> QED BY <3>1 DEF RunsNamed
  <2>3. CASE d # c
    <3>1. call'[d] = call[d]
      BY <1>1, <2>3
    <3>2. \/ RunsNamed(call[d].dataset, call[d].name) # {}
          \/ call[d].dataset \notin datasets
      BY <3>1 DEF ItemsIInv, ItemsInv, LoserFinds, Reached
    <3> QED BY <3>1, <3>2 DEF RunsNamed
  <2> QED BY <2>2, <2>3
<1>6. runs' \subseteq Run /\ \A s \in runs' : s.dataset \in datasets
  BY <1>1 DEF ItemsIInv, ItemsInv, DatasetTypeOK
<1> QED BY <1>1, <1>4, <1>5, <1>6, VersionsRest

LEMMA CallWithoutNewRun ==
  ASSUME ItemsIInv, NEW c \in Callers, NEW r \in Calls, Continue(c, r),
         UNCHANGED <<datasets, versions, runs, instant, overtaken>>,
         runItems' \subseteq RunItem, \A x \in runItems' : x.run \in KnownRuns,
         r.step = "add" => r.run \in KnownRuns,
         r.step = "again" => RunsNamed(r.dataset, r.name) # {}
  PROVE  ItemsIInv'
<1> DEFINE fresh == {}
<1>1. /\ fresh \subseteq Run /\ runs' = runs \cup fresh
      /\ \A s \in fresh : s.dataset \in datasets /\ RunsNamed(s.dataset, s.name) = {}
      /\ \A s, t \in fresh : s = t
      /\ r.step = "add" => r.run \in KnownRuns \cup fresh
  OBVIOUS
<1> HIDE DEF fresh
<1> QED BY <1>1, CallInv

LEMMA DeleteDatasetInv ==
  ASSUME ItemsIInv, NEW d \in Datasets, DeleteDataset(d)
  PROVE  ItemsIInv'
<1> USE DEF DeleteDataset
<1>1. DatasetTypeOK' /\ Succession'
  BY DEF ItemsIInv, ItemsInv, DatasetTypeOK, Succession, Before, Late, Key
<1>2. RunsKnown' /\ LoserFinds'
  BY DEF ItemsIInv, ItemsInv, RunsKnown, KnownRuns, LoserFinds, Reached, RunsNamed
<1>3. (DatasetTypeOK /\ Succession /\ RunsKnown /\ LoserFinds => ItemsInv)'
  BY SuccessionSuffices, PTL
<1> QED BY <1>1, <1>2, <1>3 DEF ItemsIInv

LEMMA CreateRunInv ==
  ASSUME ItemsIInv, NEW d \in Datasets, NEW n \in RunNames, CreateRun(d, n)
  PROVE  ItemsIInv'
<1> DEFINE new == [dataset |-> d, name |-> n, by |-> Api]
<1>1. /\ runs' = runs \cup {new} /\ new \in Run /\ new.dataset = d /\ new.name = n
      /\ d \in datasets /\ RunsNamed(d, n) = {}
      /\ UNCHANGED <<datasets, versions, runItems, call, instant, overtaken>>
  BY DEF CreateRun, Run
<1> HIDE DEF new
<1>2. KnownRuns' \subseteq KnownRuns \cup {new} /\ \A s \in KnownRuns : s.dataset = d => s.name # n
  BY <1>1 DEF KnownRuns, ItemsIInv, RunsKnown, RunsNamed, Reached
<1>3. RunsKnown' /\ LoserFinds'
  BY <1>1, <1>2 DEF ItemsIInv, ItemsInv, RunsKnown, LoserFinds, Reached, RunsNamed
<1>4. runs' \subseteq Run /\ (\A s \in runs' : s.dataset \in datasets) /\ runItems' \subseteq RunItem
  BY <1>1 DEF ItemsIInv, ItemsInv, DatasetTypeOK
<1>5. call' \in [Callers -> Calls]
  BY <1>1 DEF ItemsIInv
<1> QED BY <1>1, <1>3, <1>4, <1>5, VersionsRest

LEMMA PassInv == ASSUME ItemsIInv, Pass PROVE ItemsIInv'
<1> USE DEF Pass
<1>1. DatasetTypeOK'
  BY DatasetsAssumption DEF ItemsIInv, ItemsInv, DatasetTypeOK, Instants
<1>2. Succession'
  <2>1. ASSUME NEW v \in versions PROVE v.from <= instant' /\ (v.to # Open => v.to <= instant')
    BY VersionFacts
  <2> QED BY <2>1 DEF ItemsIInv, Succession, Before, Late, Key
<1>3. RunsKnown' /\ LoserFinds' /\ (call \in [Callers -> Calls])'
  BY DEF ItemsIInv, ItemsInv, RunsKnown, KnownRuns, LoserFinds, Reached, RunsNamed
<1>4. (DatasetTypeOK /\ Succession /\ RunsKnown /\ LoserFinds => ItemsInv)'
  BY SuccessionSuffices, PTL
<1> QED BY <1>1, <1>2, <1>3, <1>4 DEF ItemsIInv

LEMMA CallerStepInv ==
  ASSUME ItemsIInv, NEW c \in Callers,
         \/ FailCall(c) \/ SendItemDelete(c) \/ SendDeleteById(c) \/ DeleteRunItems(c)
         \/ ReadCurrent(c) \/ CloseVersion(c)
         \/ SendRunItem(c) \/ FindRun(c) \/ InsertRun(c) \/ FindRunAgain(c) \/ AddRunItem(c)
  PROVE  ItemsIInv'
<1> DEFINE r == call[c]
<1>1. /\ r \in Calls /\ runItems \subseteq RunItem /\ runs \subseteq Run
      /\ \A s \in runs : s.dataset \in datasets
      /\ \A x \in runItems : x.run \in KnownRuns
      /\ runs \subseteq KnownRuns
      /\ r.step = "add" => r.run \in KnownRuns
  BY DEF ItemsIInv, ItemsInv, DatasetTypeOK, KnownRuns, Reached
<1>2. /\ r.step \in {"require", "runItems", "run", "insert", "again"} =>
           r.dataset \in Datasets /\ r.item \in Items
      /\ r.step \in {"run", "insert", "again"} => r.name \in RunNames
      /\ r.step = "add" => r.item \in Items /\ r.run \in Run
  BY <1>1 DEF Calls
<1>3. ASSUME NEW s \in Calls, Continue(c, s), s.step \notin {"add", "again"},
             UNCHANGED <<datasets, versions, runs, runItems, instant, overtaken>>
      PROVE  ItemsIInv'
  BY <1>1, <1>3, CallWithoutNewRun
<1>4. NoCall \in Calls /\ NoCall.step = "rest"
  BY DEF NoCall, Calls
<1>5. CASE FailCall(c)
  BY <1>3, <1>4, <1>5 DEF FailCall
<1>6. CASE SendItemDelete(c)
  <2>1. PICK d \in Datasets, i \in Items : Continue(c, [step |-> "require", dataset |-> d, item |-> i])
    BY <1>6 DEF SendItemDelete
  <2>2. [step |-> "require", dataset |-> d, item |-> i] \in Calls
    BY DEF Calls
  <2> QED BY <1>3, <1>6, <2>1, <2>2 DEF SendItemDelete
<1>7. CASE SendDeleteById(c)
  <2>1. PICK d \in Datasets, i \in Items : Continue(c, [step |-> "runItems", dataset |-> d, item |-> i])
    BY <1>7 DEF SendDeleteById
  <2>2. [step |-> "runItems", dataset |-> d, item |-> i] \in Calls
    BY DEF Calls
  <2> QED BY <1>3, <1>7, <2>1, <2>2 DEF SendDeleteById
<1>8. CASE DeleteRunItems(c)
  <2>1. /\ runItems' = {IF x.item = r.item THEN [x EXCEPT !.deleted = TRUE] ELSE x : x \in runItems}
        /\ Continue(c, [r EXCEPT !.step = "require"]) /\ r.step = "runItems"
        /\ UNCHANGED <<datasets, versions, runs, instant, overtaken>>
    BY <1>8 DEF DeleteRunItems, Reached
  <2>2. /\ r \in [step : {"require", "runItems"}, dataset : Datasets, item : Items]
    BY <1>1, <2>1 DEF Calls
  <2>3. /\ [r EXCEPT !.step = "require"] \in Calls
        /\ [r EXCEPT !.step = "require"].step = "require"
    BY <2>2 DEF Calls
  <2>4. \A x \in runItems : /\ [x EXCEPT !.deleted = TRUE] \in RunItem
                            /\ [x EXCEPT !.deleted = TRUE].run = x.run
    BY <1>1 DEF RunItem
  <2>5. runItems' \subseteq RunItem /\ \A x \in runItems' : x.run \in KnownRuns
    <3> SUFFICES ASSUME NEW x \in runItems' PROVE x \in RunItem /\ x.run \in KnownRuns
      OBVIOUS
    <3>1. PICK y \in runItems : x = IF y.item = r.item THEN [y EXCEPT !.deleted = TRUE] ELSE y
      BY <2>1
    <3>2. CASE y.item = r.item
      BY <1>1, <2>4, <3>1, <3>2
    <3>3. CASE y.item # r.item
      BY <1>1, <3>1, <3>3
    <3> QED BY <3>2, <3>3
  <2> DEFINE s == [r EXCEPT !.step = "require"]
  <2>6. s \in Calls /\ s.step = "require" /\ Continue(c, s)
    BY <2>1, <2>3
  <2> HIDE DEF s, r
  <2> QED BY <2>1, <2>5, <2>6, CallWithoutNewRun
<1>9. CASE ReadCurrent(c)
  <2>1. CASE Continue(c, NoCall)
    BY <1>3, <1>4, <1>9, <2>1 DEF ReadCurrent
  <2>2. ASSUME NEW v \in Current(r.dataset, r.item),
               Continue(c, [step |-> "close", item |-> v.item, from |-> v.from])
        PROVE  ItemsIInv'
    <3>1. v.item \in Items /\ v.from \in Instants
      BY <2>2, VersionFacts DEF Current, Version
    <3>2. [step |-> "close", item |-> v.item, from |-> v.from] \in Calls
      BY <3>1 DEF Calls
    <3> QED BY <1>3, <1>9, <2>2, <3>2 DEF ReadCurrent
  <2> QED BY <1>9, <2>1, <2>2 DEF ReadCurrent
<1>10. CASE CloseVersion(c)
  BY <1>10, CloseVersionInv
<1>11. CASE SendRunItem(c)
  <2>1. PICK d \in Datasets, i \in Items, n \in RunNames :
          Continue(c, [step |-> "run", dataset |-> d, item |-> i, name |-> n])
    BY <1>11 DEF SendRunItem
  <2>2. [step |-> "run", dataset |-> d, item |-> i, name |-> n] \in Calls
    BY DEF Calls
  <2> QED BY <1>3, <1>11, <2>1, <2>2 DEF SendRunItem
<1>12. ASSUME NEW s \in Run, NEW fresh, fresh = {} \/ fresh = {s}, WithRun(c, s), r.item \in Items,
              \/ s \in runs /\ fresh = {}
              \/ fresh = {s} /\ s.dataset \in datasets /\ RunsNamed(s.dataset, s.name) = {},
              runs' = runs \cup fresh,
              UNCHANGED <<datasets, versions, runItems, instant, overtaken>>
       PROVE  ItemsIInv'
  <2> DEFINE w == [step |-> "add", item |-> r.item, run |-> s]
  <2>1. w \in Calls /\ w.step = "add" /\ w.run = s /\ Continue(c, w)
    BY <1>12 DEF Calls, WithRun
  <2>2. w.run \in KnownRuns \cup fresh
    BY <1>1, <1>12, <2>1
  <2>3. /\ fresh \subseteq Run /\ \A t, u \in fresh : t = u
        /\ \A t \in fresh : t.dataset \in datasets /\ RunsNamed(t.dataset, t.name) = {}
    BY <1>12 DEF RunsNamed
  <2>4. runItems' = runItems
    BY <1>12
  <2> HIDE DEF w, r
  <2> QED BY <1>1, <1>12, <2>1, <2>2, <2>3, <2>4, CallInv
<1>13. CASE FindRun(c)
  <2>1. r.step = "run" /\ UNCHANGED <<datasets, versions, runs, runItems, instant, overtaken>>
    BY <1>13 DEF FindRun, Reached
  <2>2. CASE Continue(c, [r EXCEPT !.step = "insert"])
    <3>1. r \in [step : {"run", "insert", "again"}, dataset : Datasets, item : Items, name : RunNames]
      BY <1>1, <2>1 DEF Calls
    <3>2. [r EXCEPT !.step = "insert"] \in Calls /\ [r EXCEPT !.step = "insert"].step = "insert"
      BY <3>1 DEF Calls
    <3> QED BY <1>3, <2>1, <2>2, <3>2
  <2>3. ASSUME NEW s \in RunsNamed(r.dataset, r.name), WithRun(c, s) PROVE ItemsIInv'
    <3>1. s \in runs /\ s \in Run /\ runs' = runs \cup {}
      BY <1>1, <2>1, <2>3 DEF RunsNamed
    <3> QED BY <1>2, <1>12, <2>1, <2>3, <3>1
  <2> QED BY <1>13, <2>2, <2>3 DEF FindRun
<1>14. CASE InsertRun(c)
  <2>1. r.step = "insert" /\ r.dataset \in datasets
        /\ UNCHANGED <<datasets, versions, runItems, instant, overtaken>>
    BY <1>14 DEF InsertRun, Reached
  <2>2. CASE RunsNamed(r.dataset, r.name) # {}
    <3> DEFINE w == [r EXCEPT !.step = "again"]
    <3>1. Continue(c, w) /\ UNCHANGED <<runs, runItems>>
      BY <1>14, <2>2 DEF InsertRun
    <3>2. r \in [step : {"run", "insert", "again"}, dataset : Datasets, item : Items, name : RunNames]
      BY <1>1, <2>1 DEF Calls
    <3>3. w \in Calls /\ w.step = "again" /\ w.dataset = r.dataset /\ w.name = r.name
      BY <3>2 DEF Calls
    <3> HIDE DEF w, r
    <3> QED BY <1>1, <2>1, <2>2, <3>1, <3>3, CallWithoutNewRun
  <2>3. CASE RunsNamed(r.dataset, r.name) = {}
    <3> DEFINE s == [dataset |-> r.dataset, name |-> r.name, by |-> c]
    <3>1. runs' = runs \cup {s} /\ WithRun(c, s)
      BY <1>14, <2>3 DEF InsertRun
    <3>2. s \in Run /\ s.dataset = r.dataset /\ s.name = r.name
      BY <1>2, <2>1 DEF Run
    <3> HIDE DEF s
    <3> QED BY <1>2, <1>12, <2>1, <2>3, <3>1, <3>2
  <2> QED BY <2>2, <2>3
<1>15. CASE FindRunAgain(c)
  <2>1. PICK s \in RunsNamed(r.dataset, r.name) : WithRun(c, s)
    BY <1>15 DEF FindRunAgain
  <2>2. /\ s \in runs /\ s \in Run /\ runs' = runs \cup {} /\ r.step = "again"
        /\ UNCHANGED <<datasets, versions, runItems, instant, overtaken>>
    BY <1>1, <1>15, <2>1 DEF FindRunAgain, Reached, RunsNamed
  <2> QED BY <1>2, <1>12, <2>1, <2>2
<1>16. CASE AddRunItem(c)
  <2> DEFINE x == [item |-> r.item, run |-> r.run, deleted |-> FALSE]
  <2>1. /\ r.step = "add" /\ runItems' = runItems \cup {x} /\ Continue(c, NoCall)
        /\ UNCHANGED <<datasets, versions, runs, instant, overtaken>>
    BY <1>16 DEF AddRunItem, Reached
  <2>2. x \in RunItem /\ x.run = r.run
    BY <1>2, <2>1 DEF RunItem
  <2>3. runItems' \subseteq RunItem /\ \A y \in runItems' : y.run \in KnownRuns
    <3> HIDE DEF x
    <3> QED BY <1>1, <2>1, <2>2
  <2> HIDE DEF x, r
  <2> QED BY <1>4, <2>1, <2>3, CallWithoutNewRun
<1> QED BY <1>5, <1>6, <1>7, <1>8, <1>9, <1>10, <1>11, <1>13, <1>14, <1>15, <1>16

LEMMA DatasetNextInv == ItemsIInv /\ [DatasetNext]_datasetVars => ItemsIInv'
<1> SUFFICES ASSUME ItemsIInv, [DatasetNext]_datasetVars PROVE ItemsIInv'
  OBVIOUS
<1>1. CASE UNCHANGED datasetVars
  <2>1. RunsKnown' /\ LoserFinds' /\ (call \in [Callers -> Calls])'
    BY <1>1 DEF datasetVars, ItemsIInv, ItemsInv, RunsKnown, KnownRuns, LoserFinds, Reached, RunsNamed
  <2> QED BY <1>1, <2>1, VersionsRest DEF datasetVars, ItemsIInv, ItemsInv, DatasetTypeOK
<1>2. ASSUME NEW d \in Datasets, NEW i \in Items, CreateItem(d, i) \/ UpdateItem(d, i)
      PROVE  ItemsIInv'
  <2>1. d \in datasets /\ NewItemVersion(d, i)
    BY <1>2, VersionFacts DEF CreateItem, UpdateItem, Current
  <2> QED BY <2>1, NewItemVersionInv
<1> QED BY <1>1, <1>2, DeleteDatasetInv, CreateRunInv, CallerStepInv, PassInv DEF DatasetNext

\* Creations, updates, deletions, run items and the end of requests between any two
\* of their statements: an item has one version at most at every instant, but for
\* those that a deletion closed late, and run items that name a run name one run.
THEOREM ItemsAreRight == DatasetSpec => []ItemsInv
<1>1. ItemsIInv => ItemsInv
  BY DEF ItemsIInv
<1> QED BY DatasetInitInv, DatasetNextInv, <1>1, PTL DEF DatasetSpec

\* A version that was open, or that a deletion closes late, is closed now.
Replaces(w, u) ==
  /\ w.dataset = u.dataset /\ w.item = u.item /\ w.from = u.from /\ w.to = instant
  /\ u.to = Open \/ Key(u) \in overtaken'

\* That is not seen before, nor is a version that starts now.
LEMMA ReplacingKeepsPast ==
  ASSUME ItemsIInv, NEW d \in Datasets, NEW i \in Items, NEW t \in 0..(instant - 1),
         \A u \in versions : u \in versions' \/ \E w \in versions' : Replaces(w, u),
         \A w \in versions' :
           w \in versions \/ w.from = instant \/ \E u \in versions : Replaces(w, u)
  PROVE  Seen(d, i, t) \ overtaken' = Seen(d, i, t)' \ overtaken'
<1>1. \A u \in versions : /\ u.from \in Nat /\ u.to \in Nat /\ u.from <= instant
                          /\ instant \in Nat /\ t \in Nat /\ t < instant /\ instant < Open
  BY VersionFacts, DatasetsAssumption DEF Open
<1>2. ASSUME NEW u \in AsOf(d, i, t), Key(u) \notin overtaken'
      PROVE  Key(u) \in Seen(d, i, t)'
  <2>1. u \in versions /\ u.dataset = d /\ u.item = i /\ u.from <= t /\ t < u.to
    BY DEF AsOf
  <2>2. ASSUME NEW w \in versions', Replaces(w, u) PROVE Key(u) \in Seen(d, i, t)'
    <3>1. w.from <= t /\ t < w.to /\ Key(w) = Key(u)
      BY <1>1, <2>1, <2>2 DEF Replaces, Key
    <3>2. w \in AsOf(d, i, t)'
      BY <2>1, <2>2, <3>1 DEF AsOf, Replaces
    <3> QED BY <3>1, <3>2 DEF Seen, Key
  <2>3. CASE u \in versions'
    BY <2>1, <2>3 DEF Seen, AsOf, Key
  <2> QED BY <2>1, <2>2, <2>3
<1>3. ASSUME NEW v \in AsOf(d, i, t)', Key(v) \notin overtaken'
      PROVE  Key(v) \in Seen(d, i, t)
  <2>1. v \in versions' /\ v.dataset = d /\ v.item = i /\ v.from <= t /\ t < v.to
    BY <1>3 DEF AsOf
  <2>2. instant \in Nat /\ t \in Nat /\ t < instant
    BY DEF ItemsIInv, ItemsInv, DatasetTypeOK, Instants
  <2>3. v.from # instant
    BY <2>1, <2>2
  <2>4. CASE v \in versions
    BY <2>1, <2>4 DEF Seen, AsOf, Key
  <2>5. ASSUME NEW u \in versions, Replaces(v, u) PROVE Key(v) \in Seen(d, i, t)
    <3>1. Key(v) = Key(u) /\ u.to = Open
      BY <1>3, <2>5 DEF Replaces, Key
    <3>2. u \in AsOf(d, i, t)
      BY <1>1, <2>1, <2>2, <2>5, <3>1 DEF AsOf, Replaces
    <3> QED BY <3>1, <3>2 DEF Seen
  <2> QED BY <2>1, <2>3, <2>4, <2>5
<1> QED BY <1>2, <1>3 DEF Seen, Key

LEMMA PastStays ==
  ASSUME ItemsIInv, [DatasetNext]_datasetVars,
         NEW d \in datasets', NEW i \in Items, NEW t \in 0..(instant - 1)
  PROVE  Seen(d, i, t) \ overtaken' = Seen(d, i, t)' \ overtaken'
<1>1. CASE UNCHANGED versions
  BY <1>1 DEF Seen, AsOf
<1>2. ASSUME NEW e \in Datasets, NEW j \in Items, NewItemVersion(e, j)
      PROVE  Seen(d, i, t) \ overtaken' = Seen(d, i, t)' \ overtaken'
  <2> DEFINE to(u) == [u EXCEPT !.to = instant]
             new == [dataset |-> e, item |-> j, from |-> instant, to |-> Open, deleted |-> FALSE]
  <2>1. d \in Datasets /\ new.from = instant
    BY <1>2 DEF NewItemVersion, ItemsIInv, ItemsInv, DatasetTypeOK
  <2>2. ASSUME NEW u \in Current(e, j) PROVE u \in versions /\ Replaces(to(u), u)
    <3>1. u \in Version /\ u \in versions /\ u.to = Open
      BY VersionFacts DEF Current
    <3> QED BY <3>1 DEF Version, Replaces
  <2>3. versions' = (versions \ Current(e, j)) \cup {to(u) : u \in Current(e, j)} \cup {new}
    BY <1>2 DEF NewItemVersion
  <2> HIDE DEF to, new
  <2>4. \A u \in versions : u \in versions' \/ \E w \in versions' : Replaces(w, u)
    BY <2>2, <2>3
  <2>5. \A w \in versions' :
          w \in versions \/ w.from = instant \/ \E u \in versions : Replaces(w, u)
    BY <2>1, <2>2, <2>3
  <2> QED BY <2>1, <2>4, <2>5, ReplacingKeepsPast
<1>3. ASSUME NEW c \in Callers, CloseVersion(c)
      PROVE  Seen(d, i, t) \ overtaken' = Seen(d, i, t)' \ overtaken'
  <2> DEFINE hit == {v \in versions : v.item = call[c].item /\ v.from = call[c].from}
  <2>1. d \in Datasets /\ \A u \in hit : u.to # Open => Key(u) \in overtaken'
    BY <1>3 DEF CloseVersion, ItemsIInv, ItemsInv, DatasetTypeOK
  <2>2. ASSUME NEW u \in hit PROVE u \in versions /\ Replaces(Closed(u), u)
    <3>1. u \in Version /\ u \in versions
      BY VersionFacts
    <3> QED BY <2>1, <3>1 DEF Version, Replaces, Closed
  <2>3. versions' = (versions \ hit) \cup {Closed(u) : u \in hit}
    BY <1>3 DEF CloseVersion
  <2> HIDE DEF hit
  <2>4. \A u \in versions : u \in versions' \/ \E w \in versions' : Replaces(w, u)
    BY <2>2, <2>3
  <2>5. \A w \in versions' : w \in versions \/ \E u \in versions : Replaces(w, u)
    BY <2>2, <2>3
  <2> QED BY <2>1, <2>4, <2>5, ReplacingKeepsPast
<1>4. ASSUME NEW e \in Datasets, DeleteDataset(e)
      PROVE  Seen(d, i, t) \ overtaken' = Seen(d, i, t)' \ overtaken'
  <2>1. d # e
    BY <1>4 DEF DeleteDataset
  <2> QED BY <1>4, <2>1 DEF DeleteDataset, Seen, AsOf
<1> QED
  BY <1>1, <1>2, <1>3, <1>4
  DEF DatasetNext, datasetVars, CreateItem, UpdateItem, CreateRun, FailCall, SendItemDelete,
      SendDeleteById, DeleteRunItems, ReadCurrent, SendRunItem, FindRun, InsertRun, FindRunAgain,
      AddRunItem, Pass

\* No step changes what a list as of a past instant shows of a dataset that exists.
THEOREM ThePastIsFixed == DatasetSpec => PastIsFixed
<1>1. ItemsIInv /\ [DatasetNext]_datasetVars
        => [\A d \in datasets', i \in Items, t \in 0..(instant - 1) :
              Seen(d, i, t) \ overtaken' = Seen(d, i, t)' \ overtaken']_datasetVars
  BY PastStays
<1> QED BY DatasetInitInv, DatasetNextInv, <1>1, PTL DEF DatasetSpec, PastIsFixed

-----------------------------------------------------------------------------
(***************************************************************************)
(* Prompts.  A request that nobody has met is the only one under way, so   *)
(* what it has read still holds when it writes; nothing of the kind is     *)
(* known of the others.                                                    *)
(***************************************************************************)
MeetingsKnown ==
  /\ \A c \in Clients \ met : Busy(c) => \A d \in Clients \ {c} : ~Busy(d)
  /\ ~overlapped => met = {}

Claiming == {"holders", "release", "write"}

\* What holds of every request.
Named(r) ==
  /\ r.op = "create" /\ r.step \in {"newest", "max"} \cup Claiming =>
       r.name \in Names /\ r.type \in Types /\ (r.step \in Claiming => r.version > 0)
  /\ r.op = "delete" => r.name \in Names
AllNamed == (\A c \in Clients : Named(req[c])) /\ \A i \in live : row[i].version > 0

\* What holds of one that has met no other.
Fresh(r) ==
  \A i \in OfName(r.name) :
    row[i].version < r.version /\ (~overlapped => row[i].type = r.type)
ItsRow(r) == r.id \in live /\ row[r.id].name = r.name /\ row[r.id].version = r.version
Released(r) ==
  /\ r.step = "release" =>
       /\ \A l \in r.claim : Holders(l) \subseteq {h.id : h \in r.holders} \cup {r.id}
       /\ \A h \in r.holders : h.id \in live /\ h.labels = row[h.id].labels
  /\ r.step = "write" => \A l \in r.claim : Holders(l) \subseteq {r.id}
ReadsSound(r) ==
  /\ r.op = "create" /\ r.step \in {"newest", "max"} \cup Claiming => r.id = 0 /\ Latest \in r.claim
  /\ r.op = "create" /\ r.step = "max" => TypeFits(r.name, r.type)
  /\ r.op = "create" /\ r.step \in Claiming => Fresh(r)
  /\ r.op = "patch" /\ r.step \in {"row", "max"} => Latest \notin r.claim
  /\ r.op = "patch" /\ r.step \in {"max"} \cup Claiming => ItsRow(r)
  /\ r.op = "patch" /\ r.step \in Claiming /\ Latest \in r.claim => IsMax(r.name, r.version)
  /\ Released(r)
ReadsHold == \A c \in Clients \ met : ReadsSound(req[c])

\* What is recorded of a text, while a request records it and afterwards.
TextsRecorded ==
  /\ \A i \in Ids \ live : stored[i] = {}
  /\ \A i \in live :
       /\ stored[i] \subseteq row[i].refs
       /\ \/ i \in cut \/ BeingRecorded(i) \/ stored[i] = {}
          \/ row[i].refs \subseteq stored[i] \cup forgotten
  /\ \A c \in Clients : Awaits(c, "create", "refs") =>
       /\ req[c].id \in 1..issued /\ req[c].refs \subseteq row[req[c].id].refs
       /\ req[c].id \in live /\ req[c].id \notin cut =>
            row[req[c].id].refs \subseteq stored[req[c].id] \cup req[c].refs \cup forgotten

PromptsIInv == PromptTypeOK /\ MeetingsKnown /\ AllNamed /\ ReadsHold /\ InTurn /\ TextsRecorded

LEMMA PromptsSuffice == PromptsIInv => PromptsInv
<1> SUFFICES ASSUME PromptsIInv, NEW i \in live
             PROVE  /\ stored[i] \subseteq row[i].refs
                    /\ \/ i \in cut \/ BeingRecorded(i)
                       \/ row[i].refs \ Resolved(i) \subseteq forgotten
  BY DEF PromptsIInv, PromptsInv, ReferencesWhole
<1> QED BY DEF PromptsIInv, TextsRecorded, Resolved

LEMMA RestingFacts ==
  /\ Resting \in Request /\ Resting.step = "rest" /\ Resting.op = "none" /\ Resting.id = 0
  /\ Resting.claim = {} /\ Resting.refs = {} /\ Resting.holders = {}
  /\ Named(Resting) /\ ReadsSound(Resting)
BY DEF Resting, Request, Steps, Named, Claiming, ReadsSound, Released

LEMMA PromptInitInv == PromptInit => PromptsIInv
<1> SUFFICES ASSUME PromptInit PROVE PromptsIInv
  OBVIOUS
<1>1. PromptTypeOK
  <2>1. issued \in 0..MaxPrompts /\ \A i \in 1..issued : FALSE
    BY PromptsAssumption DEF PromptInit
  <2>2. DOMAIN row = Ids /\ stored \in [Ids -> SUBSET Names] /\ req \in [Clients -> Request]
    BY RestingFacts DEF PromptInit
  <2> QED BY <2>1, <2>2 DEF PromptInit, PromptTypeOK
<1>2. MeetingsKnown /\ AllNamed /\ ReadsHold
  BY RestingFacts DEF PromptInit, MeetingsKnown, AllNamed, ReadsHold, Busy
<1>3. InTurn
  BY DEF PromptInit, InTurn, LabelsOnce, OneType, LatestIsNewest, Holders
<1>4. TextsRecorded
  BY RestingFacts DEF PromptInit, TextsRecorded, Awaits, Ids
<1> QED BY <1>1, <1>2, <1>3, <1>4 DEF PromptsIInv

\* A request goes on: those that have met no other rest.
LEMMA ProceedInv ==
  ASSUME PromptsIInv, NEW c \in Clients, Busy(c), NEW r \in Request, Proceed(c, r),
         issued' \in 0..MaxPrompts, live' \subseteq 1..issued',
         DOMAIN row' = Ids, \A i \in 1..issued' : row'[i] \in PromptRow,
         stored' \in [Ids -> SUBSET Names], forgotten' \subseteq Names, cut' \subseteq Ids,
         Named(r), \A i \in live' : row'[i].version > 0,
         c \notin met => ReadsSound(r)', InTurn', TextsRecorded'
  PROVE  PromptsIInv'
<1>1. /\ req \in [Clients -> Request] /\ req' = [req EXCEPT ![c] = r]
      /\ UNCHANGED <<met, overlapped, sent>> /\ req' \in [Clients -> Request] /\ req'[c] = r
      /\ \A d \in Clients \ {c} : req'[d] = req[d]
  BY DEF Proceed, PromptsIInv, PromptTypeOK
<1>2. PromptTypeOK'
  BY <1>1 DEF PromptsIInv, PromptTypeOK
<1>3. \A d \in Clients \ met : d # c => req[d].step = "rest"
  BY DEF PromptsIInv, MeetingsKnown, Busy
<1>4. MeetingsKnown'
  BY <1>1, <1>3 DEF PromptsIInv, MeetingsKnown, Busy
<1>5. AllNamed'
  BY <1>1 DEF PromptsIInv, AllNamed, Named
<1>6. ReadsHold'
  <2> SUFFICES ASSUME NEW d \in Clients \ met PROVE ReadsSound(req[d])'
    BY <1>1 DEF ReadsHold
  <2>1. CASE d = c
    BY <1>1, <2>1 DEF ReadsSound, Fresh, ItsRow, Released
  <2>2. CASE d # c
    <3>1. req'[d].step = "rest"
      BY <1>1, <1>3, <2>2
    <3> QED BY <3>1 DEF ReadsSound, Released, Claiming
  <2> QED BY <2>1, <2>2
<1> QED BY <1>2, <1>4, <1>5, <1>6 DEF PromptsIInv

\* A step that only reads, or ends a request that records nothing.
LEMMA ReadStepInv ==
  ASSUME PromptsIInv, NEW c \in Clients, Busy(c), NEW r \in Request, Proceed(c, r),
         UNCHANGED <<live, row, stored, issued, forgotten, cut>>,
         ~Awaits(c, "create", "refs"), ~(r.op = "create" /\ r.step = "refs"),
         Named(r), c \notin met => ReadsSound(r)
  PROVE  PromptsIInv'
<1>1. /\ req \in [Clients -> Request] /\ req' = [req EXCEPT ![c] = r] /\ overlapped' = overlapped
      /\ \A d \in Clients : req'[d] = IF d = c THEN r ELSE req[d]
  BY DEF Proceed, PromptsIInv, PromptTypeOK
<1>2. \A d \in Clients : /\ Awaits(d, "create", "refs")' <=> Awaits(d, "create", "refs")
                         /\ Awaits(d, "create", "refs") => req'[d] = req[d]
  BY <1>1 DEF Awaits
<1>3. \A i : BeingRecorded(i)' <=> BeingRecorded(i)
  BY <1>2 DEF BeingRecorded
<1>4. TextsRecorded'
  BY <1>2, <1>3 DEF PromptsIInv, TextsRecorded
<1>5. InTurn'
  BY <1>1 DEF PromptsIInv, InTurn, LabelsOnce, OneType, LatestIsNewest, Holders, OfName
<1>6. c \notin met => ReadsSound(r)'
  BY <1>1 DEF ReadsSound, Fresh, ItsRow, Released, TypeFits, IsMax, OfName, Holders
<1>7. /\ issued' \in 0..MaxPrompts /\ live' \subseteq 1..issued'
      /\ DOMAIN row' = Ids /\ \A i \in 1..issued' : row'[i] \in PromptRow
      /\ stored' \in [Ids -> SUBSET Names] /\ forgotten' \subseteq Names /\ cut' \subseteq Ids
      /\ \A i \in live' : row'[i].version > 0
  BY DEF PromptsIInv, PromptTypeOK, AllNamed
<1> QED BY <1>4, <1>5, <1>6, <1>7, ProceedInv

\* The end of a request that records nothing.
LEMMA EndInv ==
  ASSUME PromptsIInv, NEW c \in Clients, Busy(c), End(c), ~Awaits(c, "create", "refs"),
         UNCHANGED <<live, row, stored, issued, forgotten, cut>>
  PROVE  PromptsIInv'
BY RestingFacts, ReadStepInv DEF End

LEMMA SendInv ==
  ASSUME PromptsIInv, NEW c \in Clients, NEW r \in Request, Send(c, r), r.step \notin Claiming \cup {"max"},
         ~(r.op = "create" /\ r.step = "refs"), Named(r), ReadsSound(r)
  PROVE  PromptsIInv'
<1> DEFINE others == {d \in Clients \ {c} : Busy(d)}
<1>1. /\ req \in [Clients -> Request] /\ req' = [req EXCEPT ![c] = r] /\ ~Busy(c)
      /\ \A d \in Clients : req'[d] = IF d = c THEN r ELSE req[d]
      /\ met' = IF others = {} THEN met \ {c} ELSE met \cup others \cup {c}
      /\ overlapped' = (overlapped \/ others # {})
      /\ UNCHANGED <<live, row, stored, issued, forgotten, cut>>
      /\ met \subseteq Clients /\ overlapped \in BOOLEAN /\ sent \in Nat /\ sent' = sent + 1
  BY DEF Send, PromptsIInv, PromptTypeOK
<1>2. PromptTypeOK'
  <2>1. met' \subseteq Clients /\ overlapped' \in BOOLEAN /\ sent' \in Nat /\ req' \in [Clients -> Request]
    BY <1>1
  <2> QED BY <1>1, <2>1 DEF PromptsIInv, PromptTypeOK
<1>3. MeetingsKnown'
  <2>1. ~overlapped' => met' = {}
    BY <1>1 DEF PromptsIInv, MeetingsKnown
  <2>2. ASSUME NEW d \in Clients \ met', Busy(d)', NEW e \in Clients \ {d}, Busy(e)' PROVE FALSE
    <3>1. others = {}
      BY <1>1, <2>2 DEF Busy
    <3> QED BY <1>1, <2>2, <3>1 DEF Busy
  <2> QED BY <2>1, <2>2 DEF MeetingsKnown
<1>4. AllNamed'
  BY <1>1 DEF PromptsIInv, AllNamed, Named
<1>5. ~overlapped' => ~overlapped
  BY <1>1
<1>6. ReadsHold'
  <2> SUFFICES ASSUME NEW d \in Clients \ met' PROVE ReadsSound(req[d])'
    BY DEF ReadsHold
  <2>1. CASE d = c
    <3>1. req'[d] = r
      BY <1>1, <2>1
    <3> QED BY <3>1 DEF ReadsSound, Fresh, ItsRow, Released, TypeFits, IsMax, OfName, Holders, Claiming
  <2>2. CASE d # c
    <3>1. req'[d] = req[d] /\ (Busy(d) => d \notin met)
      BY <1>1, <2>2
    <3>2. CASE Busy(d)
      <4>1. ReadsSound(req[d])
        BY <3>1, <3>2 DEF PromptsIInv, ReadsHold
      <4> QED BY <1>1, <1>5, <3>1, <4>1
              DEF ReadsSound, Fresh, ItsRow, Released, TypeFits, IsMax, OfName, Holders
    <3>3. CASE ~Busy(d)
      BY <3>1, <3>3 DEF Busy, ReadsSound, Released, Claiming
    <3> QED BY <3>2, <3>3
  <2> QED BY <2>1, <2>2
<1>7. InTurn'
  BY <1>1, <1>5 DEF PromptsIInv, InTurn, LabelsOnce, OneType, LatestIsNewest, Holders, OfName
<1>8. TextsRecorded'
  <2>1. \A d \in Clients : /\ Awaits(d, "create", "refs")' <=> Awaits(d, "create", "refs")
                           /\ Awaits(d, "create", "refs") => req'[d] = req[d]
    BY <1>1 DEF Awaits, Busy
  <2>2. \A i : BeingRecorded(i)' <=> BeingRecorded(i)
    BY <2>1 DEF BeingRecorded
  <2> QED BY <1>1, <2>1, <2>2 DEF PromptsIInv, TextsRecorded
<1> QED BY <1>2, <1>3, <1>4, <1>6, <1>7, <1>8 DEF PromptsIInv

LEMMA SendAnyInv ==
  ASSUME PromptsIInv, NEW c \in Clients, SendCreate(c) \/ SendPatch(c) \/ SendDelete(c)
  PROVE  PromptsIInv'
<1>1. CASE SendCreate(c)
  <2>1. PICK n \in Names, t \in Types, ls \in SUBSET (Labels \ {Latest}), refs \in Contents :
          Send(c, [Resting EXCEPT !.op = "create", !.step = "newest", !.name = n, !.type = t,
                                  !.claim = ls \cup {Latest}, !.refs = refs])
    BY <1>1 DEF SendCreate
  <2> DEFINE r == [Resting EXCEPT !.op = "create", !.step = "newest", !.name = n, !.type = t,
                                  !.claim = ls \cup {Latest}, !.refs = refs]
  <2>2. ls \cup {Latest} \in SUBSET Labels /\ refs \in SUBSET Names
    BY PromptsAssumption
  <2>3. r \in Request
    BY <2>2, RestingFacts DEF Request, Steps
  <2>4. /\ r.op = "create" /\ r.step = "newest" /\ r.name = n /\ r.type = t /\ r.id = 0
        /\ r.claim = ls \cup {Latest}
    BY RestingFacts DEF Request
  <2> HIDE DEF r
  <2>5. Named(r) /\ ReadsSound(r) /\ r.step \notin Claiming \cup {"max"}
    BY <2>4 DEF Named, ReadsSound, Released, Claiming
  <2> QED BY <2>1, <2>3, <2>4, <2>5, SendInv DEF r
<1>2. CASE SendPatch(c)
  <2>1. PICK n \in Names, v \in Ids, ls \in SUBSET (Labels \ {Latest}) :
          Send(c, [Resting EXCEPT !.op = "patch", !.step = "row", !.name = n, !.version = v,
                                  !.claim = ls])
    BY <1>2 DEF SendPatch
  <2> DEFINE r == [Resting EXCEPT !.op = "patch", !.step = "row", !.name = n, !.version = v,
                                  !.claim = ls]
  <2>2. v \in Nat
    BY DEF Ids
  <2>3. r \in Request
    BY <2>2, RestingFacts DEF Request, Steps
  <2>4. r.op = "patch" /\ r.step = "row" /\ r.claim = ls /\ Latest \notin ls
    BY RestingFacts DEF Request
  <2> HIDE DEF r
  <2>5. Named(r) /\ ReadsSound(r) /\ r.step \notin Claiming \cup {"max"}
    BY <2>4 DEF Named, ReadsSound, Released, Claiming
  <2> QED BY <2>1, <2>3, <2>4, <2>5, SendInv DEF r
<1>3. CASE SendDelete(c)
  <2>1. PICK n \in Names, ls \in {{}} \cup {{l} : l \in Labels}, v \in {0} \cup Ids :
          Send(c, [Resting EXCEPT !.op = "delete", !.step = "list", !.name = n, !.claim = ls,
                                  !.version = v])
    BY <1>3 DEF SendDelete
  <2> DEFINE r == [Resting EXCEPT !.op = "delete", !.step = "list", !.name = n, !.claim = ls,
                                  !.version = v]
  <2>2. v \in Nat /\ ls \in SUBSET Labels
    BY DEF Ids
  <2>3. r \in Request
    BY <2>2, RestingFacts DEF Request, Steps
  <2>4. r.op = "delete" /\ r.step = "list" /\ r.name = n
    BY RestingFacts DEF Request
  <2> HIDE DEF r
  <2>5. Named(r) /\ ReadsSound(r) /\ r.step \notin Claiming \cup {"max"}
    BY <2>4 DEF Named, ReadsSound, Released, Claiming
  <2> QED BY <2>1, <2>3, <2>4, <2>5, SendInv DEF r
<1> QED BY <1>1, <1>2, <1>3

LEMMA RequestFields ==
  ASSUME PromptsIInv, NEW c \in Clients
  PROVE  LET r == req[c] IN
         /\ r \in Request /\ r.name \in Names \cup {Unset} /\ r.claim \in SUBSET Labels
         /\ r.id \in {0} \cup Ids /\ r.version \in Nat /\ r.holders \in SUBSET Holder
         /\ r.ids \in SUBSET Ids /\ r.refs \in SUBSET Names
         /\ Named(r) /\ (c \notin met => ReadsSound(r))
BY DEF PromptsIInv, PromptTypeOK, Request, AllNamed, ReadsHold

LEMMA RowFacts ==
  ASSUME PromptsIInv, NEW i \in live
  PROVE  /\ i \in Ids /\ i \in 1..issued /\ i # 0 /\ row[i] \in PromptRow
         /\ row[i].version \in Nat /\ row[i].version > 0
         /\ row[i].labels \in SUBSET Labels /\ row[i].refs \in SUBSET Names
<1>1. i \in Ids /\ i \in 1..issued /\ i # 0 /\ row[i] \in PromptRow
  BY PromptsAssumption DEF PromptsIInv, PromptTypeOK, Ids
<1> QED BY <1>1 DEF PromptRow, PromptsIInv, AllNamed

LEMMA ReadNewestInv ==
  ASSUME PromptsIInv, NEW c \in Clients, ReadNewest(c)
  PROVE  PromptsIInv'
<1> DEFINE r == req[c]
           s == [r EXCEPT !.step = "max"]
<1>1. /\ r.op = "create" /\ r.step = "newest" /\ Busy(c) /\ ~Awaits(c, "create", "refs")
      /\ UNCHANGED <<live, row, stored, issued, forgotten, cut>>
  BY DEF ReadNewest, Awaits, Busy
<1>2. CASE TypeFits(r.name, r.type)
  <2>1. Proceed(c, s)
    BY <1>2 DEF ReadNewest
  <2>2. /\ s \in Request /\ s.step = "max" /\ s.op = "create" /\ s.name = r.name /\ s.type = r.type
        /\ s.id = r.id /\ s.claim = r.claim
    BY <1>1, RequestFields DEF Request, Steps
  <2> HIDE DEF s
  <2>3. Named(s) /\ (c \notin met => ReadsSound(s))
    BY <1>1, <1>2, <2>2, RequestFields DEF Named, ReadsSound, Released, Claiming
  <2> QED BY <1>1, <2>1, <2>2, <2>3, ReadStepInv
<1>3. CASE ~TypeFits(r.name, r.type)
  BY <1>1, <1>3, EndInv DEF ReadNewest
<1> QED BY <1>2, <1>3

LEMMA ReadMaxInv ==
  ASSUME PromptsIInv, NEW c \in Clients, ReadMax(c)
  PROVE  PromptsIInv'
<1> DEFINE r == req[c]
<1>1. /\ r.op = "create" /\ r.step = "max" /\ Busy(c) /\ ~Awaits(c, "create", "refs")
      /\ UNCHANGED <<live, row, stored, issued, forgotten, cut>>
  BY DEF ReadMax, Awaits, Busy
<1>2. PICK v \in 0..MaxPrompts :
        IsMax(r.name, v) /\ Proceed(c, [r EXCEPT !.step = "holders", !.version = v + 1])
  BY DEF ReadMax
<1> DEFINE s == [r EXCEPT !.step = "holders", !.version = v + 1]
<1>3. v \in Nat /\ v + 1 \in Nat /\ v + 1 > 0
  BY PromptsAssumption
<1>4. /\ s \in Request /\ s.step = "holders" /\ s.op = "create" /\ s.name = r.name /\ s.type = r.type
      /\ s.id = r.id /\ s.claim = r.claim /\ s.version = v + 1
  BY <1>1, <1>3, RequestFields DEF Request, Steps
<1> HIDE DEF s
<1>5. Named(s)
  BY <1>1, <1>3, <1>4, RequestFields DEF Named, Claiming
<1>6. ASSUME c \notin met PROVE Fresh(s)
  <2> SUFFICES ASSUME NEW i \in OfName(s.name)
               PROVE  row[i].version < s.version /\ (~overlapped => row[i].type = s.type)
    BY DEF Fresh
  <2>1. /\ i \in live /\ row[i].version <= v /\ row[i].version \in Nat /\ row[i].version > 0
        /\ i \in OfName(r.name)
    BY <1>2, <1>4, RowFacts DEF OfName, IsMax
  <2>2. v # 0
    BY <1>3, <2>1
  <2>3. PICK j \in OfName(r.name) : row[j].version = v
    BY <1>2, <2>2 DEF IsMax
  <2>4. TypeFits(r.name, r.type)
    BY <1>1, <1>6, RequestFields DEF ReadsSound
  <2>5. row[j].type = r.type
    BY <1>2, <2>3, <2>4 DEF TypeFits, IsMax
  <2>6. ~overlapped => row[i].type = row[j].type
    BY <2>1, <2>3 DEF PromptsIInv, InTurn, OneType, OfName
  <2> QED BY <1>3, <1>4, <2>1, <2>5, <2>6
<1>7. c \notin met => ReadsSound(s)
  BY <1>1, <1>4, <1>6, RequestFields DEF ReadsSound, Released, Claiming
<1> QED BY <1>1, <1>2, <1>4, <1>5, <1>7, ReadStepInv DEF s

LEMMA ReadRowInv ==
  ASSUME PromptsIInv, NEW c \in Clients, ReadRow(c)
  PROVE  PromptsIInv'
<1> DEFINE r == req[c]
<1>1. /\ r.op = "patch" /\ r.step = "row" /\ Busy(c) /\ ~Awaits(c, "create", "refs")
      /\ UNCHANGED <<live, row, stored, issued, forgotten, cut>>
  BY DEF ReadRow, Awaits, Busy
<1>2. ASSUME NEW i \in OfName(r.name), row[i].version = r.version,
             Proceed(c, [r EXCEPT !.step = "max", !.id = i])
      PROVE  PromptsIInv'
  <2> DEFINE s == [r EXCEPT !.step = "max", !.id = i]
  <2>1. i \in live /\ row[i].name = r.name /\ i \in Ids
    BY <1>2, RowFacts DEF OfName
  <2>2. /\ s \in Request /\ s.step = "max" /\ s.op = "patch" /\ s.name = r.name /\ s.id = i
        /\ s.claim = r.claim /\ s.version = r.version
    BY <1>1, <2>1, RequestFields DEF Request, Steps
  <2> HIDE DEF s
  <2>3. Named(s) /\ (c \notin met => ReadsSound(s))
    BY <1>1, <1>2, <2>1, <2>2, RequestFields
    DEF Named, ReadsSound, Released, Claiming, ItsRow
  <2> QED BY <1>1, <1>2, <2>2, <2>3, ReadStepInv DEF s
<1>3. CASE End(c)
  BY <1>1, <1>3, EndInv
<1> QED BY <1>2, <1>3 DEF ReadRow

LEMMA ReadIsLatestInv ==
  ASSUME PromptsIInv, NEW c \in Clients, ReadIsLatest(c)
  PROVE  PromptsIInv'
<1> DEFINE r == req[c]
           claim == IF IsMax(r.name, r.version) THEN r.claim \cup {Latest} ELSE r.claim
           step == IF claim = {} THEN "write" ELSE "holders"
           s == [r EXCEPT !.step = step, !.claim = claim]
<1>1. /\ r.op = "patch" /\ r.step = "max" /\ Busy(c) /\ ~Awaits(c, "create", "refs")
      /\ UNCHANGED <<live, row, stored, issued, forgotten, cut>> /\ Proceed(c, s)
  BY DEF ReadIsLatest, Awaits, Busy
<1>2. /\ claim \in SUBSET Labels /\ step \in {"write", "holders"} /\ (step = "write" => claim = {})
      /\ Latest \notin r.claim /\ Latest \in claim => IsMax(r.name, r.version)
  BY PromptsAssumption, RequestFields
<1> HIDE DEF claim, step
<1>3. /\ s \in Request /\ s.step = step /\ s.op = "patch" /\ s.name = r.name /\ s.id = r.id
      /\ s.claim = claim /\ s.version = r.version
  BY <1>1, <1>2, RequestFields DEF Request, Steps
<1>4. c \notin met => ItsRow(r) /\ Latest \notin r.claim
  BY <1>1, RequestFields DEF ReadsSound
<1> HIDE DEF s
<1>5. Named(s) /\ (c \notin met => ReadsSound(s))
  BY <1>1, <1>2, <1>3, <1>4 DEF Named, ReadsSound, Released, Claiming, ItsRow
<1> QED BY <1>1, <1>2, <1>3, <1>5, ReadStepInv

\* Going on with the holders that remain.
LEMMA ToReleaseFacts ==
  ASSUME PromptsIInv, NEW c \in Clients, NEW hs \in SUBSET Holder, req[c].step \in Claiming
  PROVE  LET r == req[c]  s == ToRelease(c, hs) IN
         /\ s \in Request /\ s.step = (IF hs = {} THEN "write" ELSE "release") /\ s.holders = hs
         /\ s.op = r.op /\ s.name = r.name /\ s.type = r.type /\ s.id = r.id /\ s.claim = r.claim
         /\ s.version = r.version /\ s.refs = r.refs
         /\ Named(s)
<1> DEFINE r == req[c]
           s == ToRelease(c, hs)
           step == IF hs = {} THEN "write" ELSE "release"
<1>1. s = [r EXCEPT !.step = step, !.holders = hs] /\ step \in Steps /\ step \in Claiming
  BY DEF ToRelease, Steps, Claiming
<1> HIDE DEF s, step
<1>2. /\ s \in Request /\ s.step = step /\ s.holders = hs
      /\ s.op = r.op /\ s.name = r.name /\ s.type = r.type /\ s.id = r.id /\ s.claim = r.claim
      /\ s.version = r.version /\ s.refs = r.refs
  BY <1>1, RequestFields DEF Request
<1>3. Named(s)
  BY <1>1, <1>2, RequestFields DEF Named, Claiming
<1> QED BY <1>2, <1>3 DEF s, step

LEMMA ReadHoldersInv ==
  ASSUME PromptsIInv, NEW c \in Clients, ReadHolders(c)
  PROVE  PromptsIInv'
<1> DEFINE r == req[c]
           ids == {i \in live : row[i].labels \cap r.claim # {}} \ {r.id}
           hs == AsRead(ids)
           s == ToRelease(c, hs)
<1>1. /\ r.step = "holders" /\ Busy(c) /\ ~Awaits(c, "create", "refs") /\ Proceed(c, s)
      /\ UNCHANGED <<live, row, stored, issued, forgotten, cut>>
  BY DEF ReadHolders, Awaits, Busy
<1>2. ids \subseteq live
  OBVIOUS
<1>5. \A l \in r.claim : Holders(l) \subseteq ids \cup {r.id}
  BY DEF Holders
<1> HIDE DEF ids
<1>3. hs \in SUBSET Holder /\ (hs = {} => ids = {})
      /\ (\A h \in hs : h.id \in live /\ h.labels = row[h.id].labels)
      /\ ids \subseteq {h.id : h \in hs}
  <2>1. \A i \in ids : [id |-> i, labels |-> row[i].labels] \in Holder
    BY <1>2, RowFacts DEF Holder
  <2>2. hs = {[id |-> i, labels |-> row[i].labels] : i \in ids}
    BY DEF AsRead
  <2> HIDE DEF hs
  <2>3. ASSUME NEW i \in ids PROVE \E h \in hs : h.id = i
    <3>1. [id |-> i, labels |-> row[i].labels] \in hs
      BY <2>2
    <3>2. [id |-> i, labels |-> row[i].labels].id = i
      OBVIOUS
    <3> QED BY <3>1, <3>2
  <2>4. ASSUME NEW h \in hs PROVE h.id \in ids /\ h.labels = row[h.id].labels /\ h \in Holder
    <3>1. PICK i \in ids : h = [id |-> i, labels |-> row[i].labels]
      BY <2>2
    <3> QED BY <2>1, <3>1
  <2> QED BY <1>2, <2>3, <2>4
<1> HIDE DEF hs, s
<1>4. /\ s \in Request /\ s.step = (IF hs = {} THEN "write" ELSE "release") /\ s.holders = hs
      /\ s.op = r.op /\ s.name = r.name /\ s.type = r.type /\ s.id = r.id /\ s.claim = r.claim
      /\ s.version = r.version /\ s.refs = r.refs
      /\ Named(s)
  BY <1>1, <1>3, ToReleaseFacts DEF Claiming, s
<1>6. Released(s)
  <2>1. s.step = "release" => \A l \in s.claim : Holders(l) \subseteq {h.id : h \in s.holders} \cup {s.id}
    BY <1>3, <1>4, <1>5
  <2>2. s.step = "write" => \A l \in s.claim : Holders(l) \subseteq {s.id}
    BY <1>3, <1>4, <1>5
  <2> QED BY <1>3, <1>4, <2>1, <2>2 DEF Released
<1>7. c \notin met => ReadsSound(s)
  BY <1>1, <1>4, <1>6, RequestFields DEF ReadsSound, Claiming, Fresh, ItsRow
<1> QED BY <1>1, <1>4, <1>7, ReadStepInv

LEMMA SameRecorders ==
  ASSUME PromptsIInv, NEW c \in Clients, NEW r, Proceed(c, r),
         ~Awaits(c, "create", "refs"), ~(r.op = "create" /\ r.step = "refs")
  PROVE  /\ \A d \in Clients : /\ Awaits(d, "create", "refs")' <=> Awaits(d, "create", "refs")
                               /\ Awaits(d, "create", "refs") => req'[d] = req[d]
         /\ \A i : BeingRecorded(i)' <=> BeingRecorded(i)
<1>1. \A d \in Clients : req'[d] = IF d = c THEN r ELSE req[d]
  BY DEF Proceed, PromptsIInv, PromptTypeOK
<1>2. \A d \in Clients : /\ Awaits(d, "create", "refs")' <=> Awaits(d, "create", "refs")
                         /\ Awaits(d, "create", "refs") => req'[d] = req[d]
  BY <1>1 DEF Awaits
<1> QED BY <1>2 DEF BeingRecorded

\* The labels of one row are written.
LEMMA RelabelFacts ==
  ASSUME PromptsIInv, NEW j \in live, NEW ls, row' = [row EXCEPT ![j].labels = ls]
  PROVE  /\ row'[j].labels = ls
         /\ \A i \in Ids : i # j => row'[i] = row[i]
         /\ \A i \in live : /\ row'[i].name = row[i].name /\ row'[i].version = row[i].version
                            /\ row'[i].type = row[i].type /\ row'[i].refs = row[i].refs
<1>1. row[j] \in PromptRow /\ j \in Ids /\ DOMAIN row = Ids /\ live \subseteq Ids
  BY RowFacts DEF PromptsIInv, PromptTypeOK
<1>2. /\ row'[j].labels = ls /\ row'[j].name = row[j].name /\ row'[j].version = row[j].version
      /\ row'[j].type = row[j].type /\ row'[j].refs = row[j].refs
  BY <1>1 DEF PromptRow
<1>3. \A i \in Ids : i # j => row'[i] = row[i]
  BY <1>1
<1> QED BY <1>1, <1>2, <1>3

LEMMA RelabelInv ==
  ASSUME PromptsIInv, NEW c \in Clients, Busy(c), NEW r \in Request, Proceed(c, r),
         NEW j \in live, NEW ls \in SUBSET Labels, row' = [row EXCEPT ![j].labels = ls],
         UNCHANGED <<live, stored, issued, forgotten, cut>>,
         ~Awaits(c, "create", "refs"), ~(r.op = "create" /\ r.step = "refs"),
         Named(r), c \notin met => ReadsSound(r)',
         ~overlapped => LabelsOnce' /\ LatestIsNewest'
  PROVE  PromptsIInv'
<1>1. row[j] \in PromptRow /\ j \in Ids /\ DOMAIN row = Ids
  BY RowFacts DEF PromptsIInv, PromptTypeOK
<1>2. /\ row'[j] \in PromptRow /\ row'[j].labels = ls /\ row'[j].name = row[j].name
      /\ row'[j].version = row[j].version /\ row'[j].type = row[j].type /\ row'[j].refs = row[j].refs
  BY <1>1 DEF PromptRow
<1>3. DOMAIN row' = Ids /\ \A i \in Ids : i # j => row'[i] = row[i]
  BY <1>1
<1>4. issued \in Nat /\ 1..issued \subseteq Ids /\ live \subseteq Ids
  BY PromptsAssumption DEF PromptsIInv, PromptTypeOK, Ids
<1>5. /\ issued' \in 0..MaxPrompts /\ live' \subseteq 1..issued'
      /\ \A i \in 1..issued' : row'[i] \in PromptRow
      /\ stored' \in [Ids -> SUBSET Names] /\ forgotten' \subseteq Names /\ cut' \subseteq Ids
      /\ \A i \in live' : row'[i].version > 0
  BY <1>2, <1>3, <1>4 DEF PromptsIInv, PromptTypeOK, AllNamed
<1>6. InTurn'
  <2>1. overlapped' = overlapped
    BY DEF Proceed
  <2>2. ~overlapped => OneType'
    BY <1>2, <1>3, <1>4 DEF PromptsIInv, InTurn, OneType
  <2> QED BY <2>1, <2>2 DEF InTurn
<1>7. TextsRecorded'
  <2>1. \A i \in 1..issued : row'[i].refs = row[i].refs
    BY <1>2, <1>3, <1>4
  <2>2. \A i \in live : row'[i].refs = row[i].refs
    BY <1>2, <1>3, <1>4
  <2> QED BY <2>1, <2>2, SameRecorders DEF PromptsIInv, TextsRecorded
<1> QED BY <1>3, <1>5, <1>6, <1>7, ProceedInv

LEMMA ReleaseInv ==
  ASSUME PromptsIInv, NEW c \in Clients, Release(c)
  PROVE  PromptsIInv'
<1> DEFINE r == req[c]
<1>1. /\ r.step = "release" /\ Busy(c) /\ ~Awaits(c, "create", "refs")
      /\ UNCHANGED <<live, stored, issued, forgotten, cut>>
  BY DEF Release, Awaits, Busy
<1>2. PICK h \in r.holders :
        /\ Proceed(c, ToRelease(c, r.holders \ {h}))
        /\ row' = IF h.id \in live THEN [row EXCEPT ![h.id].labels = h.labels \ r.claim] ELSE row
  BY DEF Release
<1> DEFINE hs == r.holders \ {h}
           ls == h.labels \ r.claim
<1>3. h \in Holder /\ hs \in SUBSET Holder /\ ls \in SUBSET Labels
  BY RequestFields DEF Holder
<1>4. PICK s \in Request :
      /\ s = ToRelease(c, hs) /\ s.step = (IF hs = {} THEN "write" ELSE "release") /\ s.holders = hs
      /\ s.op = r.op /\ s.name = r.name /\ s.type = r.type /\ s.id = r.id /\ s.claim = r.claim
      /\ s.version = r.version /\ s.refs = r.refs
      /\ Named(s)
  BY <1>1, <1>3, ToReleaseFacts DEF Claiming
<1>5. Proceed(c, s) /\ ~(s.op = "create" /\ s.step = "refs") /\ overlapped' = overlapped
  BY <1>2, <1>4 DEF Proceed
<1>6. c \notin met =>
        /\ \A l \in r.claim : Holders(l) \subseteq {g.id : g \in r.holders} \cup {r.id}
        /\ \A g \in r.holders : g.id \in live /\ g.labels = row[g.id].labels
  BY <1>1, RequestFields DEF ReadsSound, Released
<1>7. CASE h.id \notin live
  <2>1. c \in met /\ row' = row
    BY <1>2, <1>6, <1>7
  <2> QED BY <1>1, <1>4, <1>5, <2>1, ReadStepInv
<1>8. CASE h.id \in live
  <2> DEFINE j == h.id
  <2>1. row' = [row EXCEPT ![j].labels = ls] /\ j \in live
    BY <1>2, <1>8
  <2>2. live \subseteq Ids
    BY RowFacts
  <2>3. /\ \A i \in live : i # j => row'[i] = row[i]
        /\ row'[j].labels = ls
        /\ \A i \in live : row'[i].name = row[i].name /\ row'[i].version = row[i].version
                           /\ row'[i].type = row[i].type
    BY <2>1, <2>2, RelabelFacts
  <2> HIDE DEF j, ls
  <2>4. \A n : OfName(n)' = OfName(n)
    BY <1>1, <2>3 DEF OfName
  <2>5. ASSUME c \notin met
        PROVE  /\ \A i \in live : row'[i].labels \subseteq row[i].labels
               /\ Released(s)'
    <3>1. h.labels = row[j].labels /\ ls = h.labels \ r.claim
      BY <1>6, <2>5 DEF j, ls
    <3>2. \A i \in live : row'[i].labels \subseteq row[i].labels
      BY <2>3, <3>1
    <3>3. \A g \in hs : g.id # j /\ g.id \in live /\ g.labels = row'[g.id].labels
      <4> SUFFICES ASSUME NEW g \in hs
                   PROVE  g.id # j /\ g.id \in live /\ g.labels = row'[g.id].labels
        OBVIOUS
      <4>1. g \in Holder /\ g # h /\ g \in r.holders /\ g.id \in live /\ g.labels = row[g.id].labels
        BY <1>3, <1>6, <2>5
      <4>2. g.id # j
        BY <1>3, <3>1, <4>1 DEF Holder, j
      <4> QED BY <2>3, <4>1, <4>2
    <3>4. \A l \in r.claim : Holders(l)' \subseteq {g.id : g \in hs} \cup {r.id}
      <4> SUFFICES ASSUME NEW l \in r.claim, NEW i \in Holders(l)', i # r.id
                   PROVE  \E g \in hs : i = g.id
        OBVIOUS
      <4>1. i \in live /\ l \in row'[i].labels /\ i \in Holders(l)
        BY <1>1, <3>2 DEF Holders
      <4>2. i # j
        BY <2>3, <3>1, <4>1
      <4>3. PICK g \in r.holders : i = g.id
        BY <1>6, <2>5, <4>1
      <4> QED BY <4>2, <4>3 DEF j
    <3>5. s.step = "write" => hs = {}
      BY <1>4
    <3> QED BY <1>1, <1>4, <3>2, <3>3, <3>4, <3>5 DEF Released
  <2>6. c \notin met => ReadsSound(s)'
    <3>1. ASSUME c \notin met PROVE ReadsSound(r)
      BY <3>1, RequestFields
    <3>2. ASSUME r.op = "create", c \notin met PROVE Fresh(s)'
      BY <1>1, <1>4, <1>5, <2>3, <2>4, <3>1, <3>2 DEF ReadsSound, Fresh, Claiming, OfName
    <3>3. ASSUME r.op = "patch", c \notin met
          PROVE  ItsRow(s)' /\ (Latest \in s.claim => IsMax(s.name, s.version)')
      <4>1. ItsRow(r) /\ (Latest \in r.claim => IsMax(r.name, r.version))
        BY <1>1, <3>1, <3>3 DEF ReadsSound, Claiming
      <4>2. ItsRow(s)'
        BY <1>1, <1>4, <2>3, <4>1 DEF ItsRow
      <4>3. Latest \in s.claim => IsMax(s.name, s.version)'
        BY <1>4, <2>3, <2>4, <4>1 DEF IsMax, OfName
      <4> QED BY <4>2, <4>3
    <3>4. s.step \notin {"newest", "max", "row"}
      BY <1>4
    <3>5. c \notin met /\ r.op = "create" => s.id = 0 /\ Latest \in s.claim
      BY <1>1, <1>4, <3>1 DEF ReadsSound, Claiming
    <3> QED BY <1>4, <2>5, <3>2, <3>3, <3>4, <3>5 DEF ReadsSound
  <2>7. ~overlapped => LabelsOnce' /\ LatestIsNewest'
    <3> SUFFICES ASSUME ~overlapped PROVE LabelsOnce' /\ LatestIsNewest'
      OBVIOUS
    <3>1. \A i \in live : row'[i].labels \subseteq row[i].labels
      BY <2>5 DEF PromptsIInv, MeetingsKnown
    <3>2. LabelsOnce /\ LatestIsNewest
      BY DEF PromptsIInv, InTurn
    <3>3. LabelsOnce'
      BY <1>1, <3>1, <3>2 DEF LabelsOnce
    <3>4. LatestIsNewest'
      BY <1>1, <2>3, <2>4, <3>1, <3>2 DEF LatestIsNewest, Holders, OfName
    <3> QED BY <3>3, <3>4
  <2>8. ls \in SUBSET Labels
    BY <1>3 DEF ls
  <2> QED BY <1>1, <1>4, <1>5, <2>1, <2>6, <2>7, <2>8, RelabelInv
<1> QED BY <1>7, <1>8

\* The labels go to the row that is patched.
LEMMA SetLabelsInv ==
  ASSUME PromptsIInv, NEW c \in Clients, SetLabels(c)
  PROVE  PromptsIInv'
<1> DEFINE r == req[c]
<1>1. /\ r.step = "write" /\ r.op = "patch" /\ Busy(c) /\ ~Awaits(c, "create", "refs") /\ End(c)
      /\ UNCHANGED <<live, stored, issued, forgotten, cut>>
      /\ row' = IF r.id \in live THEN [row EXCEPT ![r.id].labels = r.claim] ELSE row
  BY DEF SetLabels, Awaits, Busy
<1>2. CASE r.id \notin live
  BY <1>1, <1>2, EndInv
<1>3. CASE r.id \in live
  <2>1. PICK j \in live, ls \in SUBSET Labels : j = r.id /\ ls = r.claim
    BY <1>3, RequestFields
  <2>2. row' = [row EXCEPT ![j].labels = ls] /\ live \subseteq Ids
    BY <1>1, <1>3, <2>1, RowFacts
  <2>3. /\ row'[j].labels = ls
        /\ \A i \in live : /\ i # j => row'[i] = row[i]
                           /\ row'[i].name = row[i].name /\ row'[i].version = row[i].version
    BY <2>2, RelabelFacts
  <2>4. ASSUME ~overlapped PROVE LabelsOnce' /\ LatestIsNewest'
    <3>1. ReadsSound(r) /\ LabelsOnce /\ LatestIsNewest
      BY <2>4, RequestFields DEF PromptsIInv, MeetingsKnown, InTurn
    <3>2. /\ \A l \in ls : Holders(l) \subseteq {j}
          /\ ItsRow(r) /\ (Latest \in ls => IsMax(r.name, r.version))
      BY <1>1, <2>1, <3>1 DEF ReadsSound, Released, Claiming
    <3>3. \A i \in live : i # j => row[i].labels \cap ls = {}
      BY <3>2 DEF Holders
    <3>4. LabelsOnce'
      BY <1>1, <2>3, <3>1, <3>3 DEF LabelsOnce
    <3>5. Latest \in ls => \A k \in OfName(row[j].name) : row[k].version <= row[j].version
      BY <2>1, <3>2 DEF IsMax, ItsRow
    <3>6. ASSUME NEW i \in live, Latest \in row'[i].labels, NEW k \in live, row[k].name = row[i].name
          PROVE  row[k].version <= row[i].version
      BY <2>3, <3>1, <3>5, <3>6 DEF LatestIsNewest, Holders, OfName
    <3>7. LatestIsNewest'
      BY <1>1, <2>3, <3>6 DEF LatestIsNewest, Holders, OfName
    <3> QED BY <3>4, <3>7
  <2>5. Proceed(c, Resting) /\ (c \notin met => ReadsSound(Resting)')
    BY <1>1, RestingFacts DEF End, ReadsSound, Released
  <2> QED BY <1>1, <2>2, <2>4, <2>5, RestingFacts, RelabelInv
<1> QED BY <1>2, <1>3

LEMMA RecordingFacts ==
  ASSUME NEW i \in Ids, NEW refs \in SUBSET Names
  PROVE  /\ Recording(i, refs) \in Request
         /\ Recording(i, refs).op = "create" /\ Recording(i, refs).step = "refs"
         /\ Recording(i, refs).id = i /\ Recording(i, refs).refs = refs
BY RestingFacts DEF Recording, Request, Steps

LEMMA ListRowsInv ==
  ASSUME PromptsIInv, NEW c \in Clients, ListRows(c)
  PROVE  PromptsIInv'
<1> DEFINE r == req[c]
<1>1. /\ r.op = "delete" /\ Busy(c) /\ ~Awaits(c, "create", "refs")
      /\ UNCHANGED <<live, row, stored, issued, forgotten, cut>>
  BY DEF ListRows, Awaits, Busy
<1>2. CASE End(c)
  BY <1>1, <1>2, EndInv
<1>3. ASSUME NEW ids \in SUBSET live, Proceed(c, [r EXCEPT !.step = "refs", !.ids = ids])
      PROVE  PromptsIInv'
  <2> DEFINE s == [r EXCEPT !.step = "refs", !.ids = ids]
  <2>1. s \in Request /\ s.op = "delete" /\ s.step = "refs" /\ s.name = r.name
    <3>1. ids \in SUBSET Ids
      BY RowFacts
    <3> QED BY <1>1, <3>1, RequestFields DEF Request, Steps
  <2> HIDE DEF s
  <2>2. Named(s) /\ ReadsSound(s)
    BY <1>1, <2>1, RequestFields DEF Named, ReadsSound, Released
  <2> QED BY <1>1, <1>3, <2>1, <2>2, ReadStepInv DEF s
<1>4. CASE ~End(c)
  <2> DEFINE ids == {i \in OfName(r.name) : /\ r.claim \subseteq row[i].labels
                                            /\ r.version \in {0, row[i].version}}
  <2>1. Proceed(c, [r EXCEPT !.step = "refs", !.ids = ids]) /\ ids \in SUBSET live
    BY <1>4 DEF ListRows, OfName
  <2> HIDE DEF ids
  <2> QED BY <1>3, <2>1
<1> QED BY <1>2, <1>4

\* The references of what is deleted, and those to its name, are removed.
LEMMA ForgetReferencesInv ==
  ASSUME PromptsIInv, NEW c \in Clients, ForgetReferences(c)
  PROVE  PromptsIInv'
<1> DEFINE r == req[c]
<1>1. /\ r.op = "delete" /\ r.step = "refs" /\ Busy(c) /\ ~Awaits(c, "create", "refs")
      /\ UNCHANGED <<live, row, issued>>
      /\ stored' = [i \in Ids |-> IF i \in r.ids THEN {} ELSE stored[i] \ {r.name}]
      /\ forgotten' = forgotten \cup {r.name}
      /\ cut' = cut \cup {i \in r.ids :
                            \E d \in Clients : Awaits(d, "create", "refs") /\ req[d].id = i}
  BY DEF ForgetReferences, Awaits, Busy
<1>2. PICK s \in Request : s = [r EXCEPT !.step = "rows"] /\ s.op = "delete" /\ s.step = "rows"
                           /\ s.name = r.name
  <2> DEFINE s == [r EXCEPT !.step = "rows"]
  <2>1. s \in Request /\ s.op = "delete" /\ s.step = "rows" /\ s.name = r.name
    BY <1>1, RequestFields DEF Request, Steps
  <2> QED BY <2>1
<1>3. Proceed(c, s) /\ Named(s) /\ ReadsSound(s)'
  BY <1>1, <1>2, RequestFields DEF ForgetReferences, Named, ReadsSound, Released
<1>4. /\ stored \in [Ids -> SUBSET Names] /\ cut \subseteq Ids /\ forgotten \subseteq Names
      /\ r.ids \in SUBSET Ids
  BY RequestFields DEF PromptsIInv, PromptTypeOK
<1>5. PICK n : n = r.name
  OBVIOUS
<1>6. InTurn'
  <2>1. overlapped' = overlapped
    BY <1>3 DEF Proceed
  <2> QED BY <1>1, <2>1
          DEF PromptsIInv, InTurn, LabelsOnce, OneType, LatestIsNewest, Holders, OfName
<1>7. TextsRecorded'
  <2>1. /\ \A d \in Clients : /\ Awaits(d, "create", "refs")' <=> Awaits(d, "create", "refs")
                              /\ Awaits(d, "create", "refs") => req'[d] = req[d]
        /\ \A i : BeingRecorded(i)' <=> BeingRecorded(i)
    BY <1>1, <1>2, <1>3, SameRecorders
  <2>2. \A i \in Ids : stored'[i] = IF i \in r.ids THEN {} ELSE stored[i] \ {n}
    BY <1>1, <1>5
  <2>3. \A i \in Ids \ live' : stored'[i] = {}
    BY <1>1, <2>2 DEF PromptsIInv, TextsRecorded
  <2>4. ASSUME NEW i \in live
        PROVE  /\ stored'[i] \subseteq row[i].refs
               /\ \/ i \in cut' \/ BeingRecorded(i) \/ stored'[i] = {}
                  \/ row[i].refs \subseteq stored'[i] \cup forgotten'
    <3>1. i \in Ids /\ stored'[i] \subseteq stored[i]
          /\ (stored'[i] = {} \/ stored[i] \subseteq stored'[i] \cup {n})
      BY <2>2, RowFacts
    <3>2. /\ stored[i] \subseteq row[i].refs
          /\ \/ i \in cut \/ BeingRecorded(i) \/ stored[i] = {}
             \/ row[i].refs \subseteq stored[i] \cup forgotten
      BY DEF PromptsIInv, TextsRecorded
    <3> QED BY <1>1, <1>5, <3>1, <3>2
  <2>5. ASSUME NEW d \in Clients, Awaits(d, "create", "refs")
        PROVE  /\ req[d].id \in 1..issued /\ req[d].refs \subseteq row[req[d].id].refs
               /\ req[d].id \in live /\ req[d].id \notin cut' =>
                    row[req[d].id].refs \subseteq stored'[req[d].id] \cup req[d].refs \cup forgotten'
    <3>1. /\ req[d].id \in 1..issued /\ req[d].refs \subseteq row[req[d].id].refs
          /\ req[d].id \in live /\ req[d].id \notin cut =>
               row[req[d].id].refs \subseteq stored[req[d].id] \cup req[d].refs \cup forgotten
      BY <2>5 DEF PromptsIInv, TextsRecorded
    <3>2. ASSUME req[d].id \in live, req[d].id \notin cut'
          PROVE  row[req[d].id].refs \subseteq stored'[req[d].id] \cup req[d].refs \cup forgotten'
      <4>1. req[d].id \notin r.ids /\ req[d].id \notin cut /\ req[d].id \in Ids
        BY <1>1, <2>5, <3>2, RowFacts
      <4>2. stored[req[d].id] \subseteq stored'[req[d].id] \cup {n}
        BY <2>2, <4>1
      <4> QED BY <1>1, <1>5, <3>1, <3>2, <4>1, <4>2
    <3> QED BY <3>1, <3>2
  <2> QED BY <1>1, <2>1, <2>3, <2>4, <2>5 DEF TextsRecorded
<1>8. /\ stored' \in [Ids -> SUBSET Names] /\ cut' \subseteq Ids /\ forgotten' \subseteq Names
  <2>1. r.name \in Names
    BY <1>1, RequestFields DEF Named
  <2> QED BY <1>1, <1>4, <2>1
<1>9. /\ issued' \in 0..MaxPrompts /\ live' \subseteq 1..issued'
      /\ DOMAIN row' = Ids /\ \A i \in 1..issued' : row'[i] \in PromptRow
      /\ \A i \in live' : row'[i].version > 0
  BY <1>1 DEF PromptsIInv, PromptTypeOK, AllNamed
<1> QED BY <1>1, <1>3, <1>6, <1>7, <1>8, <1>9, ProceedInv

LEMMA DeleteVersionsInv ==
  ASSUME PromptsIInv, NEW c \in Clients, DeleteVersions(c)
  PROVE  PromptsIInv'
<1> DEFINE r == req[c]
<1>1. /\ r.step = "rows" /\ Busy(c) /\ ~Awaits(c, "create", "refs")
      /\ UNCHANGED <<row, issued, forgotten, cut>> /\ End(c) /\ live' = live \ r.ids
      /\ stored' = [i \in Ids |-> IF i \in r.ids THEN {} ELSE stored[i]]
  BY DEF DeleteVersions, Awaits, Busy
<1>2. Proceed(c, Resting) /\ ReadsSound(Resting)' /\ live' \subseteq live
  BY <1>1, RestingFacts DEF End, ReadsSound, Released
<1>3. InTurn'
  <2>1. overlapped' = overlapped
    BY <1>2 DEF Proceed
  <2>2. \A n : OfName(n)' \subseteq OfName(n)
    BY <1>1 DEF OfName
  <2>3. \A l : Holders(l)' \subseteq Holders(l)
    BY <1>1 DEF Holders
  <2> QED BY <1>1, <2>1, <2>2, <2>3 DEF PromptsIInv, InTurn, LabelsOnce, OneType, LatestIsNewest
<1>4. stored \in [Ids -> SUBSET Names] /\ stored' \in [Ids -> SUBSET Names]
  BY <1>1 DEF PromptsIInv, PromptTypeOK
<1>5. TextsRecorded'
  <2>1. /\ \A d \in Clients : /\ Awaits(d, "create", "refs")' <=> Awaits(d, "create", "refs")
                              /\ Awaits(d, "create", "refs") => req'[d] = req[d]
        /\ \A i : BeingRecorded(i)' <=> BeingRecorded(i)
    BY <1>1, <1>2, RestingFacts, SameRecorders
  <2>2. \A i \in Ids : stored'[i] = IF i \in r.ids THEN {} ELSE stored[i]
    BY <1>1
  <2>3. \A i \in Ids \ live' : stored'[i] = {}
    BY <1>1, <2>2 DEF PromptsIInv, TextsRecorded
  <2>4. \A i \in live' : i \in Ids /\ stored'[i] = stored[i]
    BY <1>1, <2>2, RowFacts
  <2> QED BY <1>1, <1>2, <2>1, <2>3, <2>4 DEF PromptsIInv, TextsRecorded
<1>6. /\ issued' \in 0..MaxPrompts /\ live' \subseteq 1..issued'
      /\ DOMAIN row' = Ids /\ \A i \in 1..issued' : row'[i] \in PromptRow
      /\ forgotten' \subseteq Names /\ cut' \subseteq Ids /\ \A i \in live' : row'[i].version > 0
  BY <1>1, <1>2 DEF PromptsIInv, PromptTypeOK, AllNamed
<1> QED BY <1>1, <1>2, <1>3, <1>4, <1>5, <1>6, RestingFacts, ProceedInv

\* A request that was recording references leaves them recorded in part.
LEMMA FailRequestInv ==
  ASSUME PromptsIInv, NEW c \in Clients, FailRequest(c)
  PROVE  PromptsIInv'
<1> DEFINE r == req[c]
<1>1. /\ Busy(c) /\ Proceed(c, Resting) /\ UNCHANGED <<live, row, stored, issued, forgotten>>
      /\ cut' = IF Awaits(c, "create", "refs") THEN cut \cup {r.id} ELSE cut
  BY DEF FailRequest, End
<1>2. CASE ~Awaits(c, "create", "refs")
  BY <1>1, <1>2, EndInv DEF End
<1>3. CASE Awaits(c, "create", "refs")
  <2>1. r.id \in 1..issued
    BY <1>3 DEF PromptsIInv, TextsRecorded
  <2>2. r.id \in Ids /\ cut' = cut \cup {r.id}
    BY <1>1, <1>3, <2>1, PromptsAssumption DEF PromptsIInv, PromptTypeOK, Ids
  <2>3. /\ req' = [req EXCEPT ![c] = Resting] /\ overlapped' = overlapped
        /\ \A d \in Clients : req'[d] = IF d = c THEN Resting ELSE req[d]
    BY <1>1 DEF Proceed, PromptsIInv, PromptTypeOK
  <2>4. /\ ~Awaits(c, "create", "refs")'
        /\ \A d \in Clients \ {c} : /\ Awaits(d, "create", "refs")' <=> Awaits(d, "create", "refs")
                                    /\ req'[d] = req[d]
    BY <2>3, RestingFacts DEF Awaits
  <2>5. \A i : BeingRecorded(i) => BeingRecorded(i)' \/ i \in cut'
    BY <2>2, <2>4 DEF BeingRecorded
  <2>6. TextsRecorded'
    BY <1>1, <2>2, <2>4, <2>5 DEF PromptsIInv, TextsRecorded
  <2>7. InTurn'
    BY <1>1, <2>3 DEF PromptsIInv, InTurn, LabelsOnce, OneType, LatestIsNewest, Holders, OfName
  <2>8. /\ issued' \in 0..MaxPrompts /\ live' \subseteq 1..issued' /\ stored' \in [Ids -> SUBSET Names]
        /\ DOMAIN row' = Ids /\ \A i \in 1..issued' : row'[i] \in PromptRow
        /\ forgotten' \subseteq Names /\ cut' \subseteq Ids /\ \A i \in live' : row'[i].version > 0
    BY <1>1, <2>2 DEF PromptsIInv, PromptTypeOK, AllNamed
  <2>9. ReadsSound(Resting)'
    BY RestingFacts DEF ReadsSound, Released
  <2> QED BY <1>1, <2>6, <2>7, <2>8, <2>9, RestingFacts, ProceedInv
<1> QED BY <1>2, <1>3

\* What goes on being recorded, or nothing.
LEMMA AfterRecording ==
  ASSUME NEW i \in Ids, NEW refs \in SUBSET Names
  PROVE  \E s \in Request :
           /\ s = IF refs = {} THEN Resting ELSE Recording(i, refs)
           /\ Named(s) /\ ReadsSound(s)' /\ s.step \in {"rest", "refs"}
           /\ s.step = "rest" <=> refs = {}
           /\ s.op = "create" /\ s.step = "refs" <=> refs # {}
           /\ refs # {} => s.id = i /\ s.refs = refs
<1> DEFINE s == IF refs = {} THEN Resting ELSE Recording(i, refs)
<1>1. /\ s \in Request /\ s.step \in {"rest", "refs"}
      /\ s.step = "rest" <=> refs = {}
      /\ s.op = "create" /\ s.step = "refs" <=> refs # {}
      /\ refs # {} => s.id = i /\ s.refs = refs
      /\ s.op \in {"none", "create"}
  BY RestingFacts, RecordingFacts
<1> HIDE DEF s
<1>2. PICK k : k = s
  OBVIOUS
<1>3. Named(k) /\ ReadsSound(k)'
  BY <1>1, <1>2, RestingFacts DEF Named, ReadsSound, Released, Claiming, s
<1> QED BY <1>1, <1>2, <1>3 DEF s

LEMMA StoreReferenceInv ==
  ASSUME PromptsIInv, NEW c \in Clients, StoreReference(c)
  PROVE  PromptsIInv'
<1> DEFINE r == req[c]
<1>1. /\ r.op = "create" /\ r.step = "refs" /\ Busy(c) /\ UNCHANGED <<live, row, issued, forgotten, cut>>
  BY DEF StoreReference, Awaits, Busy
<1>2. PICK n \in r.refs :
        IF r.id \in live
        THEN /\ stored' = [stored EXCEPT ![r.id] = @ \cup {n}]
             /\ IF r.refs = {n} THEN End(c) ELSE Proceed(c, Recording(r.id, r.refs \ {n}))
        ELSE End(c) /\ UNCHANGED stored
  BY DEF StoreReference
<1>3. /\ r.id \in 1..issued /\ r.id \in Ids /\ r.refs \subseteq row[r.id].refs /\ r.refs \in SUBSET Names
      /\ r.id \in live /\ r.id \notin cut =>
           row[r.id].refs \subseteq stored[r.id] \cup r.refs \cup forgotten
  <2>1. r.id \in 1..issued /\ r.refs \in SUBSET Names
    BY <1>1, RequestFields DEF PromptsIInv, TextsRecorded, Awaits
  <2>2. r.id \in Ids
    BY <2>1, PromptsAssumption DEF PromptsIInv, PromptTypeOK, Ids
  <2> QED BY <1>1, <2>1, <2>2 DEF PromptsIInv, TextsRecorded, Awaits
<1>4. PICK j \in Ids, left \in SUBSET Names : j = r.id /\ left = IF j \in live THEN r.refs \ {n} ELSE {}
  BY <1>3
<1>5. PICK s \in Request :
        /\ s = IF left = {} THEN Resting ELSE Recording(j, left)
        /\ Named(s) /\ ReadsSound(s)' /\ s.step \in {"rest", "refs"}
        /\ s.step = "rest" <=> left = {}
        /\ s.op = "create" /\ s.step = "refs" <=> left # {}
        /\ left # {} => s.id = j /\ s.refs = left
  BY AfterRecording
<1>6. Proceed(c, s)
  <2>1. left = {} => End(c)
    BY <1>2, <1>4
  <2>2. left # {} => Proceed(c, Recording(j, left))
    BY <1>2, <1>4
  <2> QED BY <1>5, <2>1, <2>2 DEF End
<1>7. /\ req' = [req EXCEPT ![c] = s] /\ overlapped' = overlapped
      /\ \A d \in Clients : req'[d] = IF d = c THEN s ELSE req[d]
  BY <1>6 DEF Proceed, PromptsIInv, PromptTypeOK
<1>8. /\ stored \in [Ids -> SUBSET Names]
      /\ \A i \in Ids : stored'[i] = IF i = j /\ j \in live THEN stored[i] \cup {n} ELSE stored[i]
      /\ stored' \in [Ids -> SUBSET Names]
  <2>1. stored \in [Ids -> SUBSET Names] /\ n \in Names
    BY <1>3 DEF PromptsIInv, PromptTypeOK
  <2>2. CASE j \in live
    <3>1. stored' = [stored EXCEPT ![j] = @ \cup {n}]
      BY <1>2, <1>4, <2>2
    <3> QED BY <2>1, <2>2, <3>1
  <2>3. CASE j \notin live
    <3>1. stored' = stored
      BY <1>2, <1>4, <2>3
    <3> QED BY <2>1, <2>3, <3>1
  <2> QED BY <2>2, <2>3
<1>9. /\ Awaits(c, "create", "refs")' <=> left # {}
      /\ \A d \in Clients \ {c} : /\ Awaits(d, "create", "refs")' <=> Awaits(d, "create", "refs")
                                  /\ req'[d] = req[d]
  BY <1>5, <1>7 DEF Awaits
<1>10. TextsRecorded'
  <2>1. \A i \in Ids \ live' : stored'[i] = {}
    BY <1>1, <1>8 DEF PromptsIInv, TextsRecorded
  <2>2. ASSUME NEW i \in live
        PROVE  /\ stored'[i] \subseteq row[i].refs
               /\ \/ i \in cut \/ BeingRecorded(i)' \/ stored'[i] = {}
                  \/ row[i].refs \subseteq stored'[i] \cup forgotten
    <3>1. /\ stored[i] \subseteq row[i].refs
          /\ \/ i \in cut \/ BeingRecorded(i) \/ stored[i] = {}
             \/ row[i].refs \subseteq stored[i] \cup forgotten
      BY DEF PromptsIInv, TextsRecorded
    <3>2. i \in Ids
      BY RowFacts
    <3>3. CASE i = j
      <4>1. stored'[i] = stored[i] \cup {n} /\ n \in row[i].refs
        BY <1>3, <1>4, <1>8, <3>2, <3>3
      <4>2. CASE left = {}
        <5>1. r.refs \subseteq {n}
          BY <1>4, <3>3, <4>2
        <5> QED BY <1>3, <1>4, <3>1, <3>3, <4>1, <5>1
      <4>3. CASE left # {}
        <5>1. BeingRecorded(i)'
          BY <1>5, <1>7, <1>9, <3>3, <4>3 DEF BeingRecorded
        <5> QED BY <3>1, <4>1, <5>1
      <4> QED BY <4>2, <4>3
    <3>4. CASE i # j
      <4>1. BeingRecorded(i) => BeingRecorded(i)'
        BY <1>4, <1>9, <3>4 DEF BeingRecorded
      <4> QED BY <1>8, <3>1, <3>2, <3>4, <4>1
    <3> QED BY <3>3, <3>4
  <2>3. ASSUME NEW d \in Clients, Awaits(d, "create", "refs")'
        PROVE  /\ req'[d].id \in 1..issued /\ req'[d].refs \subseteq row[req'[d].id].refs
               /\ req'[d].id \in live /\ req'[d].id \notin cut =>
                    row[req'[d].id].refs \subseteq stored'[req'[d].id] \cup req'[d].refs \cup forgotten
    <3>1. CASE d = c
      <4>1. left # {} /\ req'[d].id = j /\ req'[d].refs = left /\ j \in live
        BY <1>4, <1>5, <1>7, <1>9, <2>3, <3>1
      <4> QED BY <1>3, <1>4, <1>8, <4>1
    <3>2. CASE d # c
      <4>1. Awaits(d, "create", "refs") /\ req'[d] = req[d]
        BY <1>9, <2>3, <3>2
      <4>2. /\ req[d].id \in 1..issued /\ req[d].refs \subseteq row[req[d].id].refs
            /\ req[d].id \in live /\ req[d].id \notin cut =>
                 row[req[d].id].refs \subseteq stored[req[d].id] \cup req[d].refs \cup forgotten
        BY <4>1 DEF PromptsIInv, TextsRecorded
      <4>3. req[d].id \in live => stored[req[d].id] \subseteq stored'[req[d].id]
        BY <1>8, RowFacts
      <4> QED BY <4>1, <4>2, <4>3
    <3> QED BY <3>1, <3>2
  <2> QED BY <1>1, <2>1, <2>2, <2>3 DEF TextsRecorded
<1>11. InTurn'
  BY <1>1, <1>7 DEF PromptsIInv, InTurn, LabelsOnce, OneType, LatestIsNewest, Holders, OfName
<1>12. /\ issued' \in 0..MaxPrompts /\ live' \subseteq 1..issued'
       /\ DOMAIN row' = Ids /\ \A i \in 1..issued' : row'[i] \in PromptRow
       /\ forgotten' \subseteq Names /\ cut' \subseteq Ids /\ \A i \in live' : row'[i].version > 0
  BY <1>1 DEF PromptsIInv, PromptTypeOK, AllNamed
<1> QED BY <1>1, <1>5, <1>6, <1>8, <1>10, <1>11, <1>12, ProceedInv

\* What a new row changes.
LEMMA NewRowFacts ==
  ASSUME PromptsIInv, NEW c \in Clients, Awaits(c, "create", "write"), InsertRow(c),
         ~\E i \in OfName(req[c].name) : row[i].version = req[c].version
  PROVE  /\ issued + 1 \in Ids /\ issued' = issued + 1 /\ issued' \in 0..MaxPrompts
         /\ issued' \notin live /\ live' = live \cup {issued'}
         /\ issued' \notin 1..issued /\ 1..issued' = 1..issued \cup {issued'}
         /\ DOMAIN row' = Ids /\ \A i \in 1..issued : row'[i] = row[i]
         /\ row'[issued'].name = req[c].name /\ row'[issued'].type = req[c].type
         /\ row'[issued'].version = req[c].version /\ row'[issued'].labels = req[c].claim
         /\ row'[issued'].refs = req[c].refs /\ row'[issued'] \in PromptRow
<1>1. /\ issued < MaxPrompts /\ issued' = issued + 1 /\ live' = live \cup {issued'}
      /\ row' = [row EXCEPT ![issued'] =
                   [name |-> req[c].name, type |-> req[c].type, version |-> req[c].version,
                    labels |-> req[c].claim, refs |-> req[c].refs]]
  BY DEF InsertRow
<1>2. issued \in 0..MaxPrompts /\ live \subseteq 1..issued /\ DOMAIN row = Ids /\ MaxPrompts \in Nat
  BY PromptsAssumption DEF PromptsIInv, PromptTypeOK
<1>3. /\ issued + 1 \in Ids /\ issued' \in 0..MaxPrompts /\ issued' \notin 1..issued
      /\ 1..issued' = 1..issued \cup {issued'} /\ 1..issued \subseteq Ids
  BY <1>1, <1>2 DEF Ids
<1>4. /\ req[c].name \in Names /\ req[c].type \in Types /\ req[c].version \in Nat
      /\ req[c].claim \in SUBSET Labels /\ req[c].refs \in SUBSET Names
  BY RequestFields DEF Named, Awaits, Claiming
<1>5. issued' \in Ids /\ issued' \notin live
  BY <1>1, <1>2, <1>3
<1> DEFINE new == [name |-> req[c].name, type |-> req[c].type, version |-> req[c].version,
                   labels |-> req[c].claim, refs |-> req[c].refs]
<1>6. /\ new \in PromptRow /\ new.name = req[c].name /\ new.type = req[c].type
      /\ new.version = req[c].version /\ new.labels = req[c].claim /\ new.refs = req[c].refs
  BY <1>4 DEF PromptRow
<1>7. row' = [row EXCEPT ![issued'] = new]
  BY <1>1
<1> HIDE DEF new
<1>8. row'[issued'] = new /\ DOMAIN row' = Ids /\ \A i \in 1..issued : row'[i] = row[i]
  BY <1>2, <1>3, <1>5, <1>7
<1> QED BY <1>1, <1>3, <1>5, <1>6, <1>8

LEMMA InsertRowInv ==
  ASSUME PromptsIInv, NEW c \in Clients, InsertRow(c)
  PROVE  PromptsIInv'
<1> DEFINE r == req[c]
<1>1. /\ r.op = "create" /\ r.step = "write" /\ Busy(c) /\ ~Awaits(c, "create", "refs")
      /\ Awaits(c, "create", "write") /\ UNCHANGED <<stored, forgotten, cut>>
  BY DEF InsertRow, Awaits, Busy
<1>2. CASE \E i \in OfName(r.name) : row[i].version = r.version
  <2>1. End(c) /\ UNCHANGED <<live, row, issued>>
    BY <1>2 DEF InsertRow
  <2> QED BY <1>1, <2>1, EndInv
<1>3. CASE ~\E i \in OfName(r.name) : row[i].version = r.version
  <2>1. PICK k \in Ids, refs \in SUBSET Names : k = issued' /\ refs = r.refs
    <3>1. issued' \in Ids /\ r.refs \in SUBSET Names
      BY <1>1, <1>3, NewRowFacts, RequestFields
    <3> QED BY <3>1
  <2>2. /\ k \notin live /\ live' = live \cup {k} /\ k \notin 1..issued
        /\ issued' \in 0..MaxPrompts /\ 1..issued' = 1..issued \cup {k} /\ DOMAIN row' = Ids
        /\ \A i \in 1..issued : row'[i] = row[i]
        /\ row'[k].name = r.name /\ row'[k].type = r.type /\ row'[k].version = r.version
        /\ row'[k].labels = r.claim /\ row'[k].refs = refs /\ row'[k] \in PromptRow
    BY <1>1, <1>3, <2>1, NewRowFacts
  <2>3. /\ \A i \in 1..issued : row[i] \in PromptRow
        /\ live \subseteq 1..issued /\ stored \in [Ids -> SUBSET Names]
        /\ forgotten \subseteq Names /\ cut \subseteq Ids
    BY DEF PromptsIInv, PromptTypeOK
  <2>4. PICK s \in Request :
          /\ s = IF refs = {} THEN Resting ELSE Recording(k, refs)
          /\ Named(s) /\ ReadsSound(s)' /\ s.step \in {"rest", "refs"}
          /\ s.step = "rest" <=> refs = {}
          /\ s.op = "create" /\ s.step = "refs" <=> refs # {}
          /\ refs # {} => s.id = k /\ s.refs = refs
    BY AfterRecording
  <2>5. Proceed(c, s)
    <3>1. IF r.refs = {} THEN End(c) ELSE Proceed(c, Recording(issued', r.refs))
      BY <1>3 DEF InsertRow
    <3> QED BY <2>1, <2>4, <3>1 DEF End
  <2>6. /\ overlapped' = overlapped
        /\ \A d \in Clients : req'[d] = IF d = c THEN s ELSE req[d]
    BY <2>5 DEF Proceed, PromptsIInv, PromptTypeOK
  <2>7. /\ \A i \in 1..issued' : row'[i] \in PromptRow
        /\ live' \subseteq 1..issued' /\ \A i \in live' : row'[i].version > 0
    <3>1. r.version > 0
      BY <1>1, RequestFields DEF Named, Claiming
    <3> QED BY <2>2, <2>3, <3>1 DEF PromptsIInv, AllNamed
  <2>8. InTurn'
    <3> SUFFICES ASSUME ~overlapped PROVE LabelsOnce' /\ OneType' /\ LatestIsNewest'
      BY <2>6 DEF InTurn
    <3>1. ReadsSound(r) /\ LabelsOnce /\ OneType /\ LatestIsNewest
      BY RequestFields DEF PromptsIInv, MeetingsKnown, InTurn
    <3>2. r.id = 0 /\ Latest \in r.claim /\ Fresh(r) /\ \A l \in r.claim : Holders(l) \subseteq {r.id}
      BY <1>1, <3>1 DEF ReadsSound, Released, Claiming
    <3>3. \A i \in live : i # 0 /\ row'[i] = row[i]
      BY <2>2, <2>3, RowFacts
    <3>4. \A i \in live : row[i].labels \cap r.claim = {}
      BY <3>2, <3>3 DEF Holders
    <3>5. LabelsOnce'
      BY <2>2, <3>1, <3>3, <3>4 DEF LabelsOnce
    <3>6. \A i \in live : row[i].name = r.name => row[i].type = r.type /\ row[i].version < r.version
      BY <3>2 DEF Fresh, OfName
    <3>7. OneType'
      BY <2>2, <3>1, <3>3, <3>6 DEF OneType
    <3>8. ASSUME NEW i \in live', Latest \in row'[i].labels, NEW j \in live', row'[j].name = row'[i].name
          PROVE  row'[j].version <= row'[i].version
      <4>1. i = k
        BY <2>2, <3>2, <3>3, <3>4, <3>8
      <4>2. r.version \in Nat /\ \A m \in live : row[m].version \in Nat
        BY RequestFields, RowFacts
      <4> QED BY <2>2, <3>3, <3>6, <3>8, <4>1, <4>2
    <3>9. LatestIsNewest'
      BY <3>8 DEF LatestIsNewest, Holders, OfName
    <3> QED BY <3>5, <3>7, <3>9
  <2>9. TextsRecorded'
    <3>1. /\ Awaits(c, "create", "refs")' <=> refs # {}
          /\ \A d \in Clients \ {c} : /\ Awaits(d, "create", "refs")' <=> Awaits(d, "create", "refs")
                                      /\ req'[d] = req[d]
      BY <2>4, <2>6 DEF Awaits
    <3>2. \A i : BeingRecorded(i) => BeingRecorded(i)'
      BY <1>1, <3>1 DEF BeingRecorded
    <3>3. /\ stored' = stored /\ cut' = cut /\ forgotten' = forgotten
          /\ stored[k] = {} /\ \A i \in Ids \ live : stored[i] = {}
      BY <1>1, <2>2 DEF PromptsIInv, TextsRecorded
    <3>4. ASSUME NEW i \in live'
          PROVE  /\ stored[i] \subseteq row'[i].refs
                 /\ \/ i \in cut \/ BeingRecorded(i)' \/ stored[i] = {}
                    \/ row'[i].refs \subseteq stored[i] \cup forgotten
      <4>1. CASE i = k
        BY <3>3, <4>1
      <4>2. CASE i \in live
        BY <2>2, <2>3, <3>2, <4>2 DEF PromptsIInv, TextsRecorded
      <4> QED BY <2>2, <4>1, <4>2
    <3>5. ASSUME NEW d \in Clients, Awaits(d, "create", "refs")'
          PROVE  /\ req'[d].id \in 1..issued' /\ req'[d].refs \subseteq row'[req'[d].id].refs
                 /\ req'[d].id \in live' /\ req'[d].id \notin cut =>
                      row'[req'[d].id].refs \subseteq stored[req'[d].id] \cup req'[d].refs \cup forgotten
      <4>1. CASE d = c
        BY <2>2, <2>4, <2>6, <3>1, <3>5, <4>1
      <4>2. CASE d # c
        <5>1. Awaits(d, "create", "refs") /\ req'[d] = req[d]
          BY <3>1, <3>5, <4>2
        <5>2. /\ req[d].id \in 1..issued /\ req[d].refs \subseteq row[req[d].id].refs
              /\ req[d].id \in live /\ req[d].id \notin cut =>
                   row[req[d].id].refs \subseteq stored[req[d].id] \cup req[d].refs \cup forgotten
          BY <5>1 DEF PromptsIInv, TextsRecorded
        <5> QED BY <2>2, <5>1, <5>2
      <4> QED BY <4>1, <4>2
    <3> QED BY <2>2, <3>3, <3>4, <3>5 DEF TextsRecorded
  <2> QED BY <1>1, <2>2, <2>3, <2>4, <2>5, <2>7, <2>8, <2>9, ProceedInv
<1> QED BY <1>2, <1>3

LEMMA PromptNextInv == PromptsIInv /\ [PromptNext]_promptVars => PromptsIInv'
<1> SUFFICES ASSUME PromptsIInv, [PromptNext]_promptVars PROVE PromptsIInv'
  OBVIOUS
<1>1. CASE UNCHANGED promptVars
  <2>1. MeetingsKnown' /\ AllNamed' /\ ReadsHold'
    BY <1>1 DEF promptVars, PromptsIInv, MeetingsKnown, AllNamed, ReadsHold, Busy, ReadsSound, Fresh,
                ItsRow, Released, TypeFits, IsMax, OfName, Holders
  <2>2. PromptTypeOK' /\ InTurn'
    BY <1>1 DEF promptVars, PromptsIInv, PromptTypeOK, InTurn, LabelsOnce, OneType, LatestIsNewest,
                Holders, OfName
  <2>3. TextsRecorded'
    BY <1>1 DEF promptVars, PromptsIInv, TextsRecorded, BeingRecorded, Awaits
  <2> QED BY <2>1, <2>2, <2>3 DEF PromptsIInv
<1>2. CASE PromptNext
  BY <1>2, SendAnyInv, FailRequestInv, ReadNewestInv, ReadMaxInv, ReadRowInv, ReadIsLatestInv,
     ReadHoldersInv, ReleaseInv, InsertRowInv, StoreReferenceInv, SetLabelsInv, ListRowsInv,
     ForgetReferencesInv, DeleteVersionsInv DEF PromptNext
<1> QED BY <1>1, <1>2

\* Creations, patches and deletions, each of which may end between any two of its
\* statements: requests that come in turn keep labels on one version, versions of a
\* name of one type and `latest` on the newest; and the references a reader resolves
\* are the text's, but for those that a deletion removed or a failure left out.
THEOREM PromptsAreRight == PromptSpec => []PromptsInv
<1> QED BY PromptInitInv, PromptNextInv, PromptsSuffice, PTL DEF PromptSpec

LEMMA InsertSettles ==
  ASSUME PromptsIInv, NEW c \in Clients \ met, InsertRow(c)
  PROVE  \E i \in live' :
           /\ row'[i].name = req[c].name /\ row'[i].version = req[c].version
           /\ \A l \in req[c].claim : Holders(l)' = {i}
<1> DEFINE r == req[c]
<1>1. Awaits(c, "create", "write") /\ r.op = "create" /\ r.step = "write"
  BY DEF InsertRow, Awaits
<1>2. r.id = 0 /\ Fresh(r) /\ \A l \in r.claim : Holders(l) \subseteq {r.id}
  BY <1>1, RequestFields DEF ReadsSound, Released, Claiming
<1>3. ~\E i \in OfName(r.name) : row[i].version = r.version
  BY <1>2, RequestFields, RowFacts DEF Fresh, OfName
<1>4. /\ issued' \in live' /\ live' = live \cup {issued'} /\ issued' \notin live
      /\ row'[issued'].name = r.name /\ row'[issued'].version = r.version
      /\ row'[issued'].labels = r.claim /\ \A i \in live : row'[i] = row[i]
  BY <1>1, <1>3, NewRowFacts DEF PromptsIInv, PromptTypeOK
<1>5. \A i \in live : i # 0
  BY RowFacts
<1>6. \A l \in r.claim : Holders(l)' = {issued'}
  BY <1>2, <1>4, <1>5 DEF Holders
<1> QED BY <1>4, <1>6

LEMMA PatchSettles ==
  ASSUME PromptsIInv, NEW c \in Clients \ met, SetLabels(c)
  PROVE  \E i \in live' :
           /\ row'[i].name = req[c].name /\ row'[i].version = req[c].version
           /\ \A l \in req[c].claim : Holders(l)' = {i}
<1> DEFINE r == req[c]
<1>1. r.op = "patch" /\ r.step = "write"
  BY DEF SetLabels, Awaits
<1>2. ItsRow(r) /\ \A l \in r.claim : Holders(l) \subseteq {r.id}
  BY <1>1, RequestFields DEF ReadsSound, Released, Claiming
<1>3. PICK j \in live, ls \in SUBSET Labels : j = r.id /\ ls = r.claim
  BY <1>2, RequestFields DEF ItsRow
<1>4. row' = [row EXCEPT ![j].labels = ls] /\ live' = live /\ live \subseteq Ids
  BY <1>3, RowFacts DEF SetLabels
<1>5. /\ row'[j].labels = ls /\ row'[j].name = row[j].name /\ row'[j].version = row[j].version
      /\ \A i \in live : i # j => row'[i] = row[i]
  BY <1>4, RelabelFacts
<1>6. \A l \in ls : Holders(l)' = {j}
  BY <1>2, <1>3, <1>4, <1>5 DEF Holders
<1> QED BY <1>2, <1>3, <1>4, <1>5, <1>6 DEF ItsRow

\* A creation or a patch that no other request has met ends with the version there
\* and every label it claims on that version alone, whatever was left behind before.
THEOREM ClaimsSettle == PromptSpec => ClaimSettles
<1>1. PromptsIInv /\ [PromptNext]_promptVars
        => [\A c \in Clients \ met :
              InsertRow(c) \/ SetLabels(c) =>
                \E i \in live' :
                  /\ row'[i].name = req[c].name /\ row'[i].version = req[c].version
                  /\ \A l \in req[c].claim : Holders(l)' = {i}]_promptVars
  BY InsertSettles, PatchSettles
<1> QED BY PromptInitInv, PromptNextInv, <1>1, PTL DEF PromptSpec, ClaimSettles
=============================================================================
