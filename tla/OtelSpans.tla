----------------------------- MODULE OtelSpans -----------------------------
(***************************************************************************)
(* The OTLP route over Ingestion.  An exporter sends spans; each becomes   *)
(* an observation event, and some become events of their trace, too.  The  *)
(* tables are written one after the other, each in a transaction of its    *)
(* own: one may fail and the next succeed.  The exporter is told 200, 400  *)
(* or 503, or nothing when the answer is lost or the process dies, and may *)
(* send the same spans again.                                              *)
(*                                                                         *)
(* An event of a trace has the start of its span as its time, and a random *)
(* id; one of an observation has the time of the request.  The id of the   *)
(* latter is left out (1): all events of one observation provide the same  *)
(* values, so it does not matter which of two in one millisecond wins.     *)
(*                                                                         *)
(* Left out: what attributes are converted to, the checks of the request   *)
(* before the conversion.                                                  *)
(***************************************************************************)
EXTENDS Ingestion, Sequences, SequencesExt

CONSTANTS
  Exports, SpansOf,     \* requests, and the spans of each in order
  Invalid,              \* spans whose observation the event schema refuses
  Broken,               \* requests with a span whose conversion throws
  Envelopes,            \* random ids
  Nobody,
  MaxNow, MaxExports    \* bounds of the model: times, and how often is sent

(* A span: its ids, its parent, its start; whether it is the root of its   *)
(* trace, an update of it or plain; what it says of the trace (sets); its  *)
(* usage; its input (io).                                                  *)
SpanKinds == {"root", "update", "plain"}
AllSpans == UNION {Range(SpansOf[q]) : q \in Exports}

ASSUME SpansAssumption ==
  /\ SpansOf \in [Exports -> Seq(UNION {Range(SpansOf[q]) : q \in Exports})]
  /\ Nobody \notin Exports /\ MaxNow \in Nat /\ MaxExports \in Nat
  /\ Envelopes \subseteq Nat \ {0} /\ Invalid \subseteq AllSpans /\ Broken \subseteq Exports
  /\ \A s \in AllSpans :
       /\ s.id \in Observations /\ s.trace \in Traces /\ s.start \in Nat
       /\ s.kind \in SpanKinds /\ s.usage \in Usages /\ s.io \in Values
       /\ s.sets \in Patch /\ DOMAIN s.sets \subseteq {"user", "input"}
       /\ s.kind = "plain" => s.sets = <<>>

(* Spans of one id are one span, however often and by whom they are sent.   *)
ASSUME SameSpanAssumption ==
  \A s, u \in AllSpans \ Invalid :
    s.id = u.id => s.trace = u.trace /\ s.usage = u.usage

VARIABLES
  stage,         \* of a request: new, traces, observations, answer, again or done
  events,        \* of a request: the events of each table still to be written
  failed,        \* of a request: the tables that failed, and "invalid" if events did
  holder,        \* the request whose transaction is open
  now,           \* milliseconds
  exports,       \* how often was sent
  acknowledged,  \* history: requests whose exporter was told 200
  removed        \* history: ids of rows that were deleted

otelVars == <<stage, events, failed, holder, now, exports, acknowledged, removed>>

-----------------------------------------------------------------------------
(* The conversion of a request.                                             *)
Full(s) == s.kind # "plain"

(* Roots and updates are events of their trace; of a trace without any, its *)
(* first span is a shallow one.                                             *)
ForTrace(S, i) ==
  \/ Full(S[i])
  \/ \A j \in DOMAIN S : S[j].trace = S[i].trace => ~Full(S[j]) /\ i <= j

(* The orders of K by time or as they came: sorting is stable.              *)
TraceOrders(S) ==
  LET K == {i \in DOMAIN S : ForTrace(S, i)}
      Before(i, j) == S[i].start < S[j].start \/ (S[i].start = S[j].start /\ i < j)
  IN {f \in [1..Cardinality(K) -> K] : \A m, n \in DOMAIN f : m < n => Before(f[m], f[n])}

Accepts(s) == s \notin Invalid
Stored(S) == SelectSeq(S, Accepts)

ObservationOrders(S) ==
  LET K == {i \in DOMAIN S : Accepts(S[i])}
  IN {f \in [1..Cardinality(K) -> K] : \A m, n \in DOMAIN f : m < n => f[m] < f[n]}

(* The input a trace takes over: the root's or the first that one of the    *)
(* root's children has; without a root, the first of all.                   *)
Sources(S, t) ==
  LET all == SelectSeq(Stored(S), LAMBDA s : s.trace = t)
      roots == SelectSeq(all, LAMBDA s : s.parent = Null)
  IN IF roots = <<>> THEN all
     ELSE <<roots[1]>> \o SelectSeq(all, LAMBDA s : s.parent = roots[1].id)

Takes(S, s) ==
  LET given == SelectSeq(Sources(S, s.trace), LAMBDA o : o.io # Null)
  IN IF "input" \in DOMAIN s.sets \/ given = <<>> THEN <<>>
     ELSE [c \in {"input"} |-> given[1].io]

TraceEvent(S, i, env) ==
  [id |-> S[i].trace, ts |-> S[i].start, env |-> env,
   sets |-> S[i].sets, inherits |-> Takes(S, S[i])]

ObservationEvent(s, t) ==
  [id |-> s.id, ts |-> t, env |-> 1, inherits |-> <<>>,
   sets |-> [c \in {"trace", "usage"} |-> IF c = "trace" THEN s.trace ELSE s.usage]]

NoEvents == [traces |-> <<>>, observations |-> <<>>]
Converted(S, tr, ob, envs, t) ==
  [traces |-> [n \in DOMAIN tr |-> TraceEvent(S, tr[n], envs[n])],
   observations |-> [n \in DOMAIN ob |-> ObservationEvent(S[ob[n]], t)]]

ASSUME ConvertedAssumption ==
  \A q \in Exports : \A i \in DOMAIN SpansOf[q] :
    /\ \A env \in Envelopes : TraceEvent(SpansOf[q], i, env) \in Events
    /\ \A t \in 0..MaxNow : ObservationEvent(SpansOf[q][i], t) \in Events

(* The ids of trace events so far; a random one is none of them.            *)
UsedEnvelopes ==
  {e.env : e \in UNION {work.seen[t] : t \in Traces}}
    \cup {e.env : e \in UNION {Range(events[q].traces) : q \in Exports}}

RandomEnvelopes(tr) ==
  {envs \in [DOMAIN tr -> Envelopes \ UsedEnvelopes] :
     \A m, n \in DOMAIN envs : envs[m] = envs[n] => m = n}

-----------------------------------------------------------------------------
(* A request.                                                               *)
TableOf(where) == IF where = "traces" THEN Traces ELSE Observations
Underway(q) == stage[q] \in {"traces", "observations", "answer"}

NextStage(ev) ==
  CASE ev.traces # <<>> -> "traces"
    [] ev.traces = <<>> /\ ev.observations # <<>> -> "observations"
    [] OTHER -> "answer"

(* A conversion that throws is logged, and yields no events at all.         *)
Export(q) ==
  /\ stage[q] \in {"new", "again"} /\ exports < MaxExports
  /\ exports' = exports + 1
  /\ now' \in {t \in {now, now + 1} : t <= MaxNow}
  /\ IF q \in Broken THEN events' = [events EXCEPT ![q] = NoEvents]
     ELSE \E tr \in TraceOrders(SpansOf[q]), ob \in ObservationOrders(SpansOf[q]) :
            \E envs \in RandomEnvelopes(tr) :
              events' = [events EXCEPT ![q] = Converted(SpansOf[q], tr, ob, envs, now')]
  /\ stage' = [stage EXCEPT ![q] = NextStage(events'[q])]
  /\ failed' = [failed EXCEPT ![q] =
       IF q \notin Broken /\ Range(SpansOf[q]) \cap Invalid # {} THEN {"invalid"} ELSE {}]
  /\ UNCHANGED <<vars, holder, acknowledged, removed>>

BeginTable(q) ==
  /\ stage[q] \in {"traces", "observations"}
  /\ Begin(TableOf(stage[q]))
  /\ holder' = q
  /\ UNCHANGED <<stage, events, failed, now, exports, acknowledged, removed>>

WriteEvent(q) ==
  /\ holder = q
  /\ LET rows == events[q][stage[q]] IN
     /\ rows # <<>>
     /\ ApplyEvent(Head(rows))
     /\ events' = [events EXCEPT ![q] = [@ EXCEPT ![stage[q]] = Tail(rows)]]
  /\ UNCHANGED <<stage, failed, holder, now, exports, acknowledged, removed>>

LeaveTable(q) ==
  /\ holder' = Nobody
  /\ stage' = [stage EXCEPT ![q] = NextStage(events'[q])]
  /\ UNCHANGED <<now, exports, acknowledged, removed>>

CommitTable(q) ==
  /\ holder = q /\ events[q][stage[q]] = <<>>
  /\ Commit
  /\ UNCHANGED <<events, failed>>
  /\ LeaveTable(q)

(* The transaction of a table fails; the next table is written all the same.*)
FailTable(q) ==
  /\ holder = q
  /\ Rollback
  /\ events' = [events EXCEPT ![q] = [@ EXCEPT ![stage[q]] = <<>>]]
  /\ failed' = [failed EXCEPT ![q] = @ \cup {stage[q]}]
  /\ LeaveTable(q)

(* Faulty variant: what was stored in part is accepted.                     *)
StatusOfPart(q) ==
  CASE {"traces", "observations"} \subseteq failed[q] -> 503
    [] "invalid" \in failed[q] -> 400
    [] OTHER -> 200

Status(q) ==
  CASE failed[q] \ {"invalid"} # {} -> 503
    [] failed[q] = {"invalid"} -> 400
    [] failed[q] = {} -> 200

(* An exporter repeats on 503 and when no answer comes.                     *)
Answer(q) ==
  /\ stage[q] = "answer"
  /\ stage' = [stage EXCEPT ![q] = IF Status(q) = 503 THEN "again" ELSE "done"]
  /\ acknowledged' = IF Status(q) = 200 THEN acknowledged \cup {q} ELSE acknowledged
  /\ UNCHANGED <<vars, events, failed, holder, now, exports, removed>>

LoseAnswer(q) ==
  /\ stage[q] = "answer"
  /\ stage' = [stage EXCEPT ![q] = "again"]
  /\ UNCHANGED <<vars, events, failed, holder, now, exports, acknowledged, removed>>

(* The process dies: of a request only what it has committed is left.       *)
Crash ==
  /\ \E q \in Exports : Underway(q)
  /\ IF batch = NoBatch THEN UNCHANGED vars ELSE Rollback
  /\ stage' = [q \in Exports |-> IF Underway(q) THEN "again" ELSE stage[q]]
  /\ events' = [q \in Exports |-> NoEvents]
  /\ failed' = [q \in Exports |-> {}]
  /\ holder' = Nobody
  /\ UNCHANGED <<now, exports, acknowledged, removed>>

RemoveRows(S) ==
  /\ DeleteRows(S)
  /\ removed' = removed \cup S
  /\ UNCHANGED <<stage, events, failed, holder, now, exports, acknowledged>>

OtelInit ==
  /\ stage = [q \in Exports |-> "new"] /\ events = [q \in Exports |-> NoEvents]
  /\ failed = [q \in Exports |-> {}] /\ holder = Nobody
  /\ now = 0 /\ exports = 0 /\ acknowledged = {} /\ removed = {}

OtelNext ==
  \/ \E q \in Exports :
       \/ Export(q) \/ BeginTable(q) \/ WriteEvent(q) \/ CommitTable(q) \/ FailTable(q)
       \/ Answer(q) \/ LoseAnswer(q)
  \/ Crash
  \/ \E table \in Tables : \E S \in SUBSET table : RemoveRows(S)

OtelSpec == Init /\ OtelInit /\ [][OtelNext]_<<vars, otelVars>>

-----------------------------------------------------------------------------
OtelTypeOK ==
  /\ stage \in [Exports -> {"new", "traces", "observations", "answer", "again", "done"}]
  /\ events \in [Exports -> [traces : Seq(Events), observations : Seq(Events)]]
  /\ failed \in [Exports -> SUBSET {"traces", "observations", "invalid"}]
  /\ holder \in Exports \cup {Nobody}
  /\ now \in 0..MaxNow /\ exports \in 0..MaxExports
  /\ acknowledged \subseteq Exports /\ removed \subseteq Entities

(* An exporter that was told 200 need not keep its spans: whichever tables  *)
(* failed before, whatever was repeated and whoever wrote to the same trace *)
(* meanwhile, each span has its observation, with its own values, and its   *)
(* trace a row, in which no column says what only earlier spans said.  An   *)
(* input that is taken over has the time of the span it is taken over for,  *)
(* and withstands one that is given with an earlier span.                   *)
(* (A request whose conversion throws is told 200, too.)                    *)
SaysOfTrace(t, c, start, v) ==
  \E q \in Exports : \E i \in DOMAIN SpansOf[q] :
    LET e == TraceEvent(SpansOf[q], i, 1) IN
    /\ ForTrace(SpansOf[q], i) /\ e.id = t /\ e.ts >= start
    /\ c \in DOMAIN e.sets \cup DOMAIN e.inherits /\ Payload(e, c) = v

SpanIsStored(s) ==
  /\ s.id \notin removed =>
       /\ s.id \in db.live
       /\ db.value[s.id]["trace"] = s.trace /\ db.value[s.id]["usage"] = s.usage
  /\ s.trace \notin removed =>
       /\ s.trace \in db.live
       /\ \A c \in DOMAIN s.sets : SaysOfTrace(s.trace, c, s.start, db.value[s.trace][c])

AcknowledgedIsStored ==
  /\ OtelTypeOK
  /\ \A q \in acknowledged \ Broken : \A s \in Range(SpansOf[q]) : SpanIsStored(s)
=============================================================================
