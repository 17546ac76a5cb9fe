----------------------------- MODULE Ingestion -----------------------------
(***************************************************************************)
(* How events become rows.  Clients send batches of events that create or  *)
(* patch a trace or an observation; they may send any event again, late    *)
(* and in any order.  A batch is sorted by time and written table by       *)
(* table, each table in one immediate transaction.  Per column, the event  *)
(* that comes last in (timestamp, envelope id) wins: the winner is         *)
(* recorded beside the row.  The transaction keeps trace_metrics, the      *)
(* totals over the observations of a trace, by increments where a total    *)
(* exists and recomputes it before it commits where none does.             *)
(*                                                                         *)
(* A row has one column per kind of column: trace_id and usage of an       *)
(* observation, user (user_id, session_id and timestamp) and input         *)
(* (input and output) of a trace.  The sums of trace_metrics are linear in *)
(* the usage of observations, so a total is kept as the number of          *)
(* observations per usage.                                                 *)
(*                                                                         *)
(* Left out: scores and dataset items (which replace whole rows), codecs   *)
(* and the pool (IoCasPool), rollups (DailyStats), the index               *)
(* (SessionSearch), is_deleted (no caller sets it), several projects.      *)
(***************************************************************************)
EXTENDS Integers, FiniteSets

CONSTANTS
  Traces, Observations,    \* the ids clients use
  Events,                  \* the events clients may send
  Usages, Values,          \* usages of an observation; all values of columns
  Null, Default,           \* SQL NULL; the value of a column nobody provides
  LegacyRows, LegacyValue, LegacyTs   \* rows older than the versions

Columns == {"trace", "usage", "user", "input"}
Entities == Traces \cup Observations
Row == [Columns -> Values]
Patch == UNION {[C -> Values] : C \in SUBSET Columns}

ASSUME EntitiesAssumption ==
  /\ Traces \cap Observations = {} /\ IsFiniteSet(Observations)
  /\ Traces \subseteq Values /\ Usages \subseteq Values
  /\ Null \in Values \ (Traces \cup Usages)
ASSUME EventsAssumption ==
  \A e \in Events :
    /\ e.id \in Entities /\ e.ts \in Nat /\ e.env \in Nat \ {0}
    /\ e.sets \in Patch /\ e.inherits \in Patch /\ DOMAIN e.inherits \subseteq {"input"}
    /\ "trace" \in DOMAIN e.sets => e.sets["trace"] \in Traces
    /\ "usage" \in DOMAIN e.sets => e.sets["usage"] \in Usages
ASSUME DefaultAssumption ==
  Default \in Row /\ Default["trace"] = Null /\ Default["usage"] \in Usages
ASSUME LegacyAssumption ==
  /\ LegacyRows \subseteq Entities /\ LegacyTs \in Nat
  /\ LegacyValue \in [Entities -> Row]
  /\ \A x \in Entities : LegacyValue[x]["trace"] \in Traces \cup {Null}
                         /\ LegacyValue[x]["usage"] \in Usages

VARIABLES
  db,        \* what is committed
  work,      \* what the transaction sees (db between transactions)
  pending,   \* pending.metrics: totals to recompute before the commit
  batch      \* the table of the transaction and the time it has come to

vars == <<db, work, pending, batch>>

NoBatch == [table |-> {}, upTo |-> 0]
Tables == {Traces, Observations}

(***************************************************************************)
(* Versions.                                                               *)
(***************************************************************************)
NoVersion == <<-1, 0>>
VersionOf(e) == <<e.ts, e.env>>
SameIsNewer(v, w) == v[1] < w[1] \/ (v[1] = w[1] /\ v[2] <= w[2])

Older(v, w) == v[1] < w[1] \/ (v[1] = w[1] /\ v[2] < w[2])

(* Nobody knows which values of a row without versions are defaults: all   *)
(* but NULL count as provided when the row was written.                    *)
Known(d, x) ==
  IF x \in d.versioned THEN d.version[x]
  ELSE [c \in Columns |-> IF x \in d.live /\ d.value[x][c] # Null
                          THEN <<d.ts[x], 0>> ELSE NoVersion]

(* Input and output a trace takes over from an observation of its batch    *)
(* count only where nothing was ever provided.                             *)
Inherited(d, e) ==
  {c \in DOMAIN e.inherits \ DOMAIN e.sets :
     Known(d, e.id)[c] = NoVersion /\ (e.id \in d.live => d.value[e.id][c] = Null)}

Accepted(d, e) ==
  {c \in DOMAIN e.sets \cup Inherited(d, e) : Older(Known(d, e.id)[c], VersionOf(e))}

Payload(e, c) ==
  IF c \in DOMAIN e.sets THEN e.sets[c]
  ELSE IF c \in DOMAIN e.inherits THEN e.inherits[c] ELSE Default[c]

Changes(d, e) == e.id \notin d.live \/ Accepted(d, e) # {} \/ d.ts[e.id] < e.ts

NewRow(d, e) ==
  [c \in Columns |-> IF e.id \notin d.live \/ c \in Accepted(d, e)
                     THEN Payload(e, c) ELSE d.value[e.id][c]]

NewTs(d, e) == IF e.id \in d.live /\ d.ts[e.id] >= e.ts THEN d.ts[e.id] ELSE e.ts

NewVersion(d, e) ==
  [c \in Columns |-> IF c \in Accepted(d, e) THEN VersionOf(e) ELSE Known(d, e.id)[c]]

(***************************************************************************)
(* Totals.                                                                 *)
(***************************************************************************)
Members(d, t) == {o \in d.live \cap Observations : d.value[o]["trace"] = t}
UserOf(d, t) == IF t \in d.live THEN d.value[t]["user"] ELSE Null

Charged(d, S, u) == Cardinality({o \in S : d.value[o]["usage"] = u})

Total(d, S, t) ==
  [count |-> Cardinality(S), usage |-> [u \in Usages |-> Charged(d, S, u)],
   user  |-> UserOf(d, t)]

NoTotal == [count |-> 0, usage |-> [u \in Usages |-> 0], user |-> Null]

One(d, o, u) == IF d.value[o]["usage"] = u THEN 1 ELSE 0

Added(m, d, o, t) ==
  [count |-> m.count + 1,
   usage |-> [u \in Usages |-> m.usage[u] + One(d, o, u)],
   user  |-> UserOf(d, t)]

Removed(m, d, o) ==
  IF m.count - 1 <= 0 THEN NoTotal
  ELSE [count |-> m.count - 1,
        usage |-> [u \in Usages |-> m.usage[u] - One(d, o, u)],
        user  |-> m.user]

Shifted(m, before, after, o) ==
  [count |-> m.count,
   usage |-> [u \in Usages |-> m.usage[u] + One(after, o, u) - One(before, o, u)],
   user  |-> m.user]

(* What the write of observation o, from d to a, does to a trace.          *)
Joins(d, a, o, t) == o \in Members(a, t) /\ o \notin Members(d, t)
Leaves(d, a, o, t) == o \in Members(d, t) /\ o \notin Members(a, t)
Stays(d, a, o, t) == o \in Members(d, t) /\ o \in Members(a, t)

AddsBlindly(d, a, x) ==
  {t \in Traces \ d.materialized :
     IF x = t THEN Members(a, t) # {} ELSE Leaves(d, a, x, t) \/ Stays(d, a, x, t)}

ForgetsTheTraceLeft(d, a, x) ==
  {t \in Traces \ d.materialized :
     IF x = t THEN Members(a, t) # {}
     ELSE Stays(d, a, x, t) \/ (Joins(d, a, x, t) /\ Members(a, t) # {x})}

(* A total that does not exist and is not simply the new observation.      *)
ToRecompute(d, a, x) ==
  {t \in Traces \ d.materialized :
     IF x = t THEN Members(a, t) # {}
     ELSE \/ Leaves(d, a, x, t) \/ Stays(d, a, x, t)
          \/ Joins(d, a, x, t) /\ Members(a, t) # {x}}

NewTotal(d, a, x, t) ==
  IF x = t THEN [d.metric[t] EXCEPT !.user = UserOf(a, t)]
  ELSE IF Joins(d, a, x, t)
       THEN IF t \in d.materialized THEN Added(d.metric[t], a, x, t) ELSE Total(a, {x}, t)
  ELSE IF Leaves(d, a, x, t) THEN Removed(d.metric[t], d, x)
  ELSE IF Stays(d, a, x, t) THEN Shifted(d.metric[t], d, a, x)
  ELSE d.metric[t]

(* recordTelemetryMutation: totals in the set P are left to the end.       *)
Recorded(d, a, x, P) ==
  LET metric == [t \in Traces |->
        IF t \in P \/ (x = t /\ t \notin d.materialized) THEN d.metric[t]
        ELSE NewTotal(d, a, x, t)]
  IN [live |-> a.live, ts |-> a.ts, value |-> a.value, seen |-> a.seen,
      versioned |-> a.versioned, version |-> a.version,
      metric |-> metric,
      materialized |-> {t \in Traces :
        \/ t \notin P /\ Joins(d, a, x, t)
        \/ t \in d.materialized
           /\ ~ (t \notin P /\ Leaves(d, a, x, t) /\ d.metric[t].count - 1 <= 0)}]

(* flushIngestionMetrics                                                   *)
Flushed(d, P) ==
  [live |-> d.live, ts |-> d.ts, value |-> d.value, seen |-> d.seen,
   versioned |-> d.versioned, version |-> d.version,
   metric |-> [t \in Traces |-> IF t \notin P THEN d.metric[t]
                                ELSE IF Members(d, t) = {} THEN NoTotal
                                ELSE Total(d, Members(d, t), t)],
   materialized |-> (d.materialized \ P) \cup {t \in P \cap Traces : Members(d, t) # {}}]

(***************************************************************************)
(* The transactions.                                                       *)
(***************************************************************************)
(* The row and its versions after event e; seen: the events a row has met. *)
Written(d, e) ==
  [live |-> d.live \cup {e.id},
   ts |-> [d.ts EXCEPT ![e.id] = NewTs(d, e)],
   value |-> [d.value EXCEPT ![e.id] = NewRow(d, e)],
   seen |-> [d.seen EXCEPT ![e.id] = @ \cup {e}],
   versioned |-> d.versioned \cup {e.id},
   version |-> [d.version EXCEPT ![e.id] = NewVersion(d, e)],
   metric |-> d.metric, materialized |-> d.materialized]

(* The event came too late for everything it provides.                     *)
Ignored(d, e) ==
  [live |-> d.live, ts |-> d.ts, value |-> d.value,
   seen |-> [d.seen EXCEPT ![e.id] = @ \cup {e}],
   versioned |-> d.versioned \cup {e.id},
   version |-> [d.version EXCEPT ![e.id] = NewVersion(d, e)],
   metric |-> d.metric, materialized |-> d.materialized]

Begin(table) ==
  /\ batch = NoBatch
  /\ batch' = [table |-> table, upTo |-> 0]
  /\ UNCHANGED <<db, work, pending>>

ApplyEvent(e) ==
  /\ e.id \in batch.table /\ e.ts >= batch.upTo
  /\ batch' = [table |-> batch.table, upTo |-> e.ts]
  /\ UNCHANGED db
  /\ IF Changes(work, e)
     THEN LET a == Written(work, e)
              P == pending \cup ToRecompute(work, a, e.id)
          IN pending' = P /\ work' = Recorded(work, a, e.id, P)
     ELSE work' = Ignored(work, e) /\ UNCHANGED pending

Commit ==
  /\ batch # NoBatch
  /\ db' = Flushed(work, pending) /\ work' = db'
  /\ pending' = {} /\ batch' = NoBatch

(* An error or the end of the process: the client is told, or is not.      *)
Rollback ==
  /\ batch # NoBatch
  /\ work' = db /\ pending' = {} /\ batch' = NoBatch /\ UNCHANGED db

(* DELETE, by a user or by retention: versions go with the rows.           *)
Without(d, S) ==
  [live |-> d.live \ S, ts |-> [x \in Entities |-> IF x \in S THEN 0 ELSE d.ts[x]],
   value |-> [x \in Entities |-> IF x \in S THEN Default ELSE d.value[x]],
   seen |-> [x \in Entities |-> IF x \in S THEN {} ELSE d.seen[x]],
   versioned |-> d.versioned \ S,
   version |-> [x \in Entities |-> IF x \in S THEN [c \in Columns |-> NoVersion]
                                   ELSE d.version[x]],
   metric |-> d.metric, materialized |-> d.materialized]

TracesOf(d, S) == {t \in Traces : t \in S \/ Members(d, t) \cap S # {}}

DeleteRows(S) ==
  /\ batch = NoBatch /\ S # {} /\ S \subseteq db.live
  /\ db' = Flushed(Without(db, S), TracesOf(db, S)) /\ work' = db'
  /\ UNCHANGED <<pending, batch>>

(* Retention also deletes old totals, and those of no trace.               *)
PurgeTotal(t) ==
  /\ batch = NoBatch /\ t \in db.materialized
  /\ db' = [live |-> db.live, ts |-> db.ts, value |-> db.value, seen |-> db.seen,
            versioned |-> db.versioned, version |-> db.version,
            metric |-> [db.metric EXCEPT ![t] = NoTotal],
            materialized |-> db.materialized \ {t}]
  /\ work' = db'
  /\ UNCHANGED <<pending, batch>>

(* Rows of an older release, and the totals of some of their traces.       *)
Legacy(L) ==
  [live |-> L, ts |-> [x \in Entities |-> IF x \in L THEN LegacyTs ELSE 0],
   value |-> [x \in Entities |-> IF x \in L THEN LegacyValue[x] ELSE Default],
   seen |-> [x \in Entities |-> {}],
   versioned |-> {}, version |-> [x \in Entities |-> [c \in Columns |-> NoVersion]],
   metric |-> [t \in Traces |-> NoTotal], materialized |-> {}]

Init ==
  /\ \E L \in SUBSET LegacyRows : \E M \in SUBSET Traces : db = Flushed(Legacy(L), M)
  /\ work = db /\ pending = {} /\ batch = NoBatch

Next ==
  \/ \E table \in Tables : Begin(table)
  \/ \E e \in Events : ApplyEvent(e)
  \/ Commit
  \/ Rollback
  \/ \E table \in Tables : \E S \in SUBSET table : DeleteRows(S)
  \/ \E t \in Traces : PurgeTotal(t)

Spec == Init /\ [][Next]_vars
-----------------------------------------------------------------------------
Total_ == [count : Int, usage : [Usages -> Int], user : Values]

Database ==
  [live : SUBSET Entities, ts : [Entities -> Nat], value : [Entities -> Row],
   seen : [Entities -> SUBSET Events], versioned : SUBSET Entities,
   version : [Entities -> [Columns -> Int \X Nat]],
   metric : [Traces -> Total_], materialized : SUBSET Traces]

TypeOK ==
  /\ db \in Database /\ work \in Database /\ pending \in SUBSET Traces
  /\ batch \in [table : {{}} \cup Tables, upTo : Nat]

(* A total that exists and is not left to the commit is the total of the   *)
(* observations that carry the trace's id, and carries the trace's user;   *)
(* there is none over nothing.                                             *)
TotalsExact(d, P) ==
  \A t \in Traces \ P :
    IF t \in d.materialized
    THEN Members(d, t) # {} /\ d.metric[t] = Total(d, Members(d, t), t)
    ELSE d.metric[t] = NoTotal

(* Each column holds what its version says: the value a delivered event    *)
(* gave it, and no delivered event that provides it is newer.              *)
ColumnLatest(d, x, c) ==
  LET v == d.version[x][c] IN
  /\ \A e \in d.seen[x] : c \in DOMAIN e.sets => ~ Older(v, VersionOf(e))
  /\ \/ v = NoVersion /\ d.value[x][c] \in {Default[c], Null}
     \/ v = <<LegacyTs, 0>> /\ d.value[x][c] = LegacyValue[x][c]
     \/ \E e \in d.seen[x] : /\ c \in DOMAIN e.sets \cup DOMAIN e.inherits
                             /\ v = VersionOf(e) /\ d.value[x][c] = Payload(e, c)

RowsLatest(d) ==
  /\ d.versioned \subseteq d.live
  /\ \A x \in d.versioned : \A c \in Columns : ColumnLatest(d, x, c)
  /\ \A x \in d.live : \A e \in d.seen[x] : e.ts <= d.ts[x]

(* Totals are exact and rows hold the latest values, in what is committed  *)
(* and in what the transaction will commit.                                *)
IngestionInv ==
  /\ TypeOK
  /\ TotalsExact(db, {}) /\ RowsLatest(db)
  /\ TotalsExact(work, pending) /\ RowsLatest(work)

(* A commit that changes what a trace consists of leaves it with a total   *)
(* exactly if it has observations, whatever was missing before.            *)
TouchedMeansTotal ==
  [][\A t \in Traces : Members(db, t) # Members(db', t) =>
       (t \in db'.materialized <=> Members(db', t) # {})]_vars

(* An event delivered again changes nothing, neither the row, nor its      *)
(* versions, nor a total: a client may always repeat a request.            *)
RetryChangesNothing ==
  [][\A e \in Events :
       e \in work.seen[e.id] /\ ApplyEvent(e) => UNCHANGED <<work, pending>>]_vars
=============================================================================
