---------------------------- MODULE MCIngestion ----------------------------
(***************************************************************************)
(* What is written through the API: events and spans into the telemetry    *)
(* database, prompts and dataset items into the metadata database.  Each   *)
(* part has an initial state of its own and the others rest.               *)
(*                                                                         *)
(* Ingestion: two traces and two observations, one of them older than the  *)
(* versions.                                                               *)
(*                                                                         *)
(* OtelSpans: a request with the root of a trace and an update of it that   *)
(* starts at the same time, one with a plain span that starts later, one    *)
(* that the event schema refuses, and one that cannot be converted.         *)
(*                                                                         *)
(* Prompts: three requests of two clients for two names, two prompts in all *)
(* (FirstCreates), of which those of one client may refer to both names.    *)
(*                                                                         *)
(* DatasetItems: one item and one run name that two datasets share, and two *)
(* callers; run items are added in the first of three instants (EarlyRuns). *)
(***************************************************************************)
EXTENDS OtelSpans, MCMetadata, TLC

CONSTANTS t1, t2, o1, o2, o3, null

VARIABLE part

MCTraces == {t1, t2}
MCObservations == {o1, o2, o3}
MCUsages == {0, 1}
MCValues == {t1, t2, null, 0, 1}
MCDefault == [c \in Columns |-> IF c = "usage" THEN 0 ELSE null]

None == <<>>
Event(x, ts, env, sets, inherits) ==
  [id |-> x, ts |-> ts, env |-> env, sets |-> sets, inherits |-> inherits]

(* o1 is created, moved to the other trace by a later event, and charged   *)
(* by one that has the time of its creation; o2 is created under either.   *)
MCBatches ==
  { Event(o1, 1, 1, ("trace" :> t1) @@ ("usage" :> 1), None),
    Event(o1, 2, 2, "trace" :> t2, None),
    Event(o1, 1, 3, "usage" :> 0, None),
    Event(o2, 2, 4, ("trace" :> t2) @@ ("usage" :> 1), None),
    Event(o2, 1, 7, "trace" :> t1, None),
    Event(t1, 1, 5, "user" :> 1, "input" :> 0),
    Event(t1, 1, 5, "user" :> 1, None),
    Event(t1, 2, 6, ("user" :> 0) @@ ("input" :> 1), None) }

Span(x, t, parent, start, kind, sets, usage, io) ==
  [id |-> x, trace |-> t, parent |-> parent, start |-> start, kind |-> kind,
   sets |-> sets, usage |-> usage, io |-> io]
Root == Span(o1, t1, null, 1, "root", ("user" :> 1) @@ ("input" :> 1), 1, 1)
Update == Span(o2, t1, o1, 1, "update", "user" :> 0, 0, 0)
Plain == Span(o3, t1, o1, 2, "plain", None, 1, 0)
Refused == Span(o3, t2, null, 1, "plain", None, 1, 0)
MCSpansOf == ("q1" :> <<Root, Update>>) @@ ("q2" :> <<Plain>>) @@
             ("q3" :> <<Refused>>) @@ ("q4" :> <<Refused>>)
MCInvalid == {Refused}

SpanEvents ==
  UNION {UNION {{TraceEvent(MCSpansOf[q], i, env) : env \in Envelopes} \cup
                {ObservationEvent(MCSpansOf[q][i], t) : t \in 0..MaxNow} :
                i \in DOMAIN MCSpansOf[q]} : q \in Exports}
MCEvents == MCBatches \cup SpanEvents

MCLegacyRows == {o1, o2, t1}
MCLegacyValue ==
  [x \in MCTraces \cup MCObservations |->
     IF x \in MCObservations THEN [MCDefault EXCEPT !["trace"] = t1, !["usage"] = 1]
     ELSE [MCDefault EXCEPT !["user"] = 0]]

MCInit ==
  /\ Init /\ OtelInit /\ PromptInit /\ DatasetInit
  /\ part \in {"batches", "spans", "prompts", "items"}
  /\ part # "batches" => db.live = {} /\ db.materialized = {}
BatchesOnly == \A x \in Entities : work'.seen[x] \subseteq MCBatches
MCNext ==
  /\ \/ part = "batches" /\ Next /\ BatchesOnly /\ UNCHANGED <<otelVars, promptVars, datasetVars>>
     \/ part = "spans" /\ OtelNext /\ UNCHANGED <<promptVars, datasetVars>>
     \/ part = "prompts" /\ PromptNext /\ UNCHANGED <<vars, otelVars, datasetVars>>
     \/ part = "items" /\ DatasetNext /\ UNCHANGED <<vars, otelVars, promptVars>>
  /\ UNCHANGED part
(* q3 and q4 are sent alone, the last sending may be later than those       *)
(* before, and of the rows only the trace's is deleted, where it is not.    *)
FewRequests ==
  /\ FirstCreates /\ EarlyRuns
  /\ Cardinality({q \in Exports : stage[q] # "new"}) > 1 =>
       stage["q3"] = "new" /\ stage["q4"] = "new"
  /\ exports < MaxExports => now = 0
  /\ removed # {} => removed = {t1} /\ now = 0
MCSpec == MCInit /\ [][MCNext]_<<vars, otelVars, promptVars, datasetVars, part>>
=============================================================================
