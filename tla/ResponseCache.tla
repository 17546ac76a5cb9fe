--------------------------- MODULE ResponseCache ---------------------------
(***************************************************************************)
(* The response cache of the server.  The first request for a key owns the *)
(* computation of its response, the requests that come meanwhile wait for  *)
(* it; small successful responses are kept for a while, the least recently *)
(* used making room.  A waiter that is told there is nothing to share      *)
(* computes alone and keeps nothing.                                       *)
(*                                                                         *)
(* A key is project, path and query.  A response is `rows`, or `fallback`: *)
(* an empty list that a repository made of an error it caught, with status *)
(* 200; or `failure`, any other status.  Bodies above the limit of an      *)
(* entry, event streams, responses without a body and clients that leave   *)
(* all share nothing, as does a request in which a query ran into a limit. *)
(***************************************************************************)
EXTENDS Lists

CONSTANTS
  Requests, Keys, KeyOf, BytesOfBody, NoRequest,
  MaxEntries, MaxBytes, MaxInflight, MaxWaiters

ASSUME CacheAssumption ==
  /\ KeyOf \in [Requests -> Keys] /\ BytesOfBody \in [Keys -> Nat] /\ NoRequest \notin Requests
  /\ MaxEntries \in Nat \ {0} /\ MaxBytes \in Nat /\ MaxInflight \in Nat /\ MaxWaiters \in Nat
  /\ \A k \in Keys : BytesOfBody[k] <= MaxBytes

VARIABLES
  cache,        \* the keys of the entries, least recently used first
  content,      \* of an entry: what the response is and who computed it
  expired,      \* keys whose entry has expired
  totalBytes,
  inflight,     \* of a key: the request that computes its response
  subscribers,  \* of a key: the requests that wait
  doing,        \* of a request: new, computing, waiting, alone, solo or done
  got           \* what it was answered

cacheVars == <<cache, content, expired, totalBytes, inflight, subscribers, doing, got>>

Response(is, by) == [is |-> is, by |-> by]
Nothing == Response("nothing", NoRequest)
Refusal(why) == Response(why, NoRequest)
Kinds == {"rows", "fallback", "failure"}
Refusals == {"busy", "timeout", "error"}
Answers == [is : Kinds, by : Requests] \cup [is : Refusals \cup {"nothing"}, by : {NoRequest}]

Bytes(q) == Total(BytesOfBody, q)
Inflight == {k \in Keys : inflight[k] # NoRequest}

(* makeRoom: the oldest go until the entry fits.                            *)
MakeRoom(q, bytes, size) ==
  LET fits(n) == LET rest == SubSeq(q, n + 1, Len(q)) IN
                 rest = <<>> \/ (Len(rest) < MaxEntries
                                 /\ bytes - Bytes(SubSeq(q, 1, n)) + size <= MaxBytes)
  IN CHOOSE n \in 0..Len(q) : fits(n) /\ \A m \in 0..(n - 1) : ~fits(m)

Tell(r, answer) ==
  /\ doing' = [doing EXCEPT ![r] = "done"]
  /\ got' = [got EXCEPT ![r] = answer]

-----------------------------------------------------------------------------
(* A hit moves to the end of the order.                                     *)
Hit(r) ==
  /\ doing[r] = "new"
  /\ KeyOf[r] \in Range(cache) \ expired
  /\ cache' = Append(Without(cache, KeyOf[r]), KeyOf[r])
  /\ Tell(r, content[KeyOf[r]])
  /\ UNCHANGED <<content, expired, totalBytes, inflight, subscribers>>

(* Faulty variant: the bytes of an entry that expired are not given back.   *)
DropOnly(k) ==
  /\ cache' = Without(cache, k)
  /\ expired' = expired \ {k}
  /\ UNCHANGED totalBytes

(* An entry found expired is dropped.                                       *)
DropEntry(k) ==
  IF k \in Range(cache)
  THEN /\ cache' = Without(cache, k)
       /\ totalBytes' = totalBytes - BytesOfBody[k]
       /\ expired' = expired \ {k}
  ELSE UNCHANGED <<cache, totalBytes, expired>>

Miss(r) == doing[r] = "new" /\ KeyOf[r] \notin Range(cache) \ expired /\ DropEntry(KeyOf[r])

Join(r) ==
  /\ Miss(r)
  /\ KeyOf[r] \in Inflight
  /\ IF Cardinality(subscribers[KeyOf[r]]) >= MaxWaiters
     THEN Tell(r, Refusal("busy")) /\ UNCHANGED subscribers
     ELSE /\ subscribers' = [subscribers EXCEPT ![KeyOf[r]] = @ \cup {r}]
          /\ doing' = [doing EXCEPT ![r] = "waiting"]
          /\ UNCHANGED got
  /\ UNCHANGED <<content, inflight>>

TurnAway(r) ==
  /\ Miss(r)
  /\ KeyOf[r] \notin Inflight /\ Cardinality(Inflight) >= MaxInflight
  /\ Tell(r, Refusal("busy"))
  /\ UNCHANGED <<content, inflight, subscribers>>

Own(r) ==
  /\ Miss(r)
  /\ KeyOf[r] \notin Inflight /\ Cardinality(Inflight) < MaxInflight
  /\ inflight' = [inflight EXCEPT ![KeyOf[r]] = r]
  /\ doing' = [doing EXCEPT ![r] = "computing"]
  /\ UNCHANGED <<content, subscribers, got>>

(* A waiter times out or its client leaves.                                 *)
GiveUp(r) ==
  /\ doing[r] = "waiting"
  /\ subscribers' = [subscribers EXCEPT ![KeyOf[r]] = @ \ {r}]
  /\ Tell(r, Refusal("timeout"))
  /\ UNCHANGED <<cache, content, expired, totalBytes, inflight>>

-----------------------------------------------------------------------------
(* Faulty variant: those that wait are told only where there is something   *)
(* to share.                                                                *)
FinishShared(r, mine, told) ==
  LET k == KeyOf[r]
      hear == IF told = Nothing THEN {} ELSE subscribers[k] IN
  /\ doing' = [x \in Requests |-> IF x = r \/ x \in hear THEN "done" ELSE doing[x]]
  /\ got' = [x \in Requests |-> IF x = r THEN mine ELSE IF x \in hear THEN told ELSE got[x]]
  /\ inflight' = [inflight EXCEPT ![k] = NoRequest]
  /\ subscribers' = [subscribers EXCEPT ![k] = {}]

(* The owner is done.  finish tells the subscribers, who go on with what    *)
(* they are told: an answer, or to compute by themselves.                   *)
Finish(r, mine, told) ==
  LET k == KeyOf[r] IN
  /\ doing' = [x \in Requests |-> IF x = r THEN "done"
                                  ELSE IF x \notin subscribers[k] THEN doing[x]
                                  ELSE IF told = Nothing THEN "alone" ELSE "done"]
  /\ got' = [x \in Requests |-> IF x = r THEN mine
                                ELSE IF x \in subscribers[k] /\ told # Nothing THEN told
                                ELSE got[x]]
  /\ inflight' = [inflight EXCEPT ![k] = NoRequest]
  /\ subscribers' = [subscribers EXCEPT ![k] = {}]

Share(r, response) ==
  /\ doing[r] = "computing"
  /\ Finish(r, response, response)
  /\ IF response.is = "failure"
     THEN UNCHANGED <<cache, content, expired, totalBytes>>
     ELSE LET k == KeyOf[r]
              n == MakeRoom(cache, totalBytes, BytesOfBody[k])
              gone == SubSeq(cache, 1, n) IN
          /\ cache' = Append(SubSeq(cache, n + 1, Len(cache)), k)
          /\ content' = [content EXCEPT ![k] = response]
          /\ expired' = expired \ (Range(gone) \cup {k})
          /\ totalBytes' = totalBytes - Bytes(gone) + BytesOfBody[k]

ShareNothing(r, answer) ==
  /\ doing[r] = "computing"
  /\ Finish(r, answer, Nothing)
  /\ UNCHANGED <<cache, content, expired, totalBytes>>

(* A waiter that was told nothing runs the handler itself.                  *)
ComputeAlone(r) ==
  /\ doing[r] = "alone"
  /\ doing' = [doing EXCEPT ![r] = "solo"]
  /\ UNCHANGED <<cache, content, expired, totalBytes, inflight, subscribers, got>>

AnswerAlone(r, answer) ==
  /\ doing[r] = "solo"
  /\ Tell(r, answer)
  /\ UNCHANGED <<cache, content, expired, totalBytes, inflight, subscribers>>

(* Time passes; the timer drops what has expired.                           *)
Expire(k) ==
  /\ k \in Range(cache) \ expired
  /\ expired' = expired \cup {k}
  /\ UNCHANGED <<cache, content, totalBytes, inflight, subscribers, doing, got>>

Sweep ==
  /\ expired # {}
  /\ cache' = Selected(cache, Keys \ expired)
  /\ totalBytes' = totalBytes - Bytes(Selected(cache, expired))
  /\ expired' = {}
  /\ UNCHANGED <<content, inflight, subscribers, doing, got>>

CacheInit ==
  /\ cache = <<>> /\ content = [k \in Keys |-> Nothing] /\ expired = {} /\ totalBytes = 0
  /\ inflight = [k \in Keys |-> NoRequest] /\ subscribers = [k \in Keys |-> {}]
  /\ doing = [r \in Requests |-> "new"] /\ got = [r \in Requests |-> Nothing]

-----------------------------------------------------------------------------
CacheTypeOK ==
  /\ cache \in Seq(Keys) /\ content \in [Keys -> Answers]
  /\ expired \subseteq Range(cache) /\ totalBytes \in Nat
  /\ inflight \in [Keys -> Requests \cup {NoRequest}]
  /\ subscribers \in [Keys -> SUBSET Requests]
  /\ doing \in [Requests -> {"new", "computing", "waiting", "alone", "solo", "done"}]
  /\ got \in [Requests -> Answers]

(* The cache counts the bytes it holds, keeps its bounds, has a key once    *)
(* and never a response that failed.                                        *)
CacheExact ==
  /\ Len(cache) <= MaxEntries /\ totalBytes <= MaxBytes
  /\ totalBytes = Bytes(cache)
  /\ IsInjective(cache)
  /\ \A k \in Range(cache) : content[k].is \in {"rows", "fallback"}

(* One computation per key; who waits, waits for one that is running, and   *)
(* is told of its end: nobody is left behind when it ends or fails.         *)
NobodyLeftBehind ==
  /\ \A k \in Keys :
       /\ {r \in Requests : doing[r] = "computing" /\ KeyOf[r] = k} = {inflight[k]} \ {NoRequest}
       /\ subscribers[k] = {r \in Requests : doing[r] = "waiting" /\ KeyOf[r] = k}
       /\ subscribers[k] # {} => inflight[k] # NoRequest
       /\ Cardinality(subscribers[k]) <= MaxWaiters
  /\ Cardinality(Inflight) <= MaxInflight

(* Entries and computations together.                                       *)
CacheInv == CacheTypeOK /\ CacheExact /\ NobodyLeftBehind
=============================================================================
