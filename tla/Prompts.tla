------------------------------ MODULE Prompts ------------------------------
(***************************************************************************)
(* The prompts of one project (routes/prompts-v2.ts): creation of a        *)
(* version, replacement of its labels, deletion, and the rows that record  *)
(* which prompts a text refers to.                                         *)
(*                                                                         *)
(* Every statement of a handler is a step of its own: no handler runs in a *)
(* transaction, so requests interleave between any two of them, and each   *)
(* may end before its next one (an error of the database, the end of the   *)
(* process).                                                               *)
(*                                                                         *)
(* A text is the set of names it refers to; label and version of a         *)
(* reference are left out, and so are other projects.                      *)
(***************************************************************************)
EXTENDS Integers, FiniteSets

CONSTANTS
  Names, Types, Labels,
  Latest,                   \* the label that the server manages
  Contents,                 \* sets of names that a text refers to
  Clients,                  \* each sends one request at a time
  MaxPrompts, MaxRequests   \* bounds of the model: rows ever inserted, requests

ASSUME PromptsAssumption ==
  /\ Latest \in Labels /\ Contents \subseteq SUBSET Names
  /\ MaxPrompts \in Nat /\ MaxRequests \in Nat

Ids == 1..MaxPrompts

VARIABLES
  live,        \* the rows of prompts: their ids, and
  row,         \*   what each holds
  stored,      \* the rows of prompt_dependencies: the child names of a parent
  req,         \* the request of each client
  issued,      \* ids given out
  \* history:
  met,         \* clients whose request was under way together with another one
  overlapped,  \* there have been such requests
  forgotten,   \* names whose references were removed
  cut,         \* rows whose references may be recorded in part
  sent
promptVars == <<live, row, stored, req, issued, met, overlapped, forgotten, cut, sent>>

PromptRow == [name : Names, type : Types, version : Nat, labels : SUBSET Labels, refs : SUBSET Names]

OfName(n) == {i \in live : row[i].name = n}
Holders(l) == {i \in live : l \in row[i].labels}

\* max(prompts.version), 0 without rows.
IsMax(n, v) ==
  /\ v = 0 \/ \E i \in OfName(n) : row[i].version = v
  /\ \A i \in OfName(n) : row[i].version <= v

\* The newest version, if there is one, has the type.
TypeFits(n, t) ==
  \A i \in OfName(n) :
    (\A j \in OfName(n) : row[j].version <= row[i].version) => row[i].type = t

(***************************************************************************)
(* Requests.                                                               *)
(***************************************************************************)
CONSTANT Unset           \* a row, name or type that is not set
Resting ==
  [op |-> "none", step |-> "rest", name |-> Unset, type |-> Unset, claim |-> {}, refs |-> {},
   id |-> 0, version |-> 0, holders |-> {}, ids |-> {}]

Busy(c) == req[c].step # "rest"
Awaits(c, op, step) == req[c].op = op /\ req[c].step = step

Send(c, r) ==
  /\ ~Busy(c)
  /\ req' = [req EXCEPT ![c] = r]
  /\ LET others == {d \in Clients \ {c} : Busy(d)}
     IN /\ met' = IF others = {} THEN met \ {c} ELSE met \cup others \cup {c}
        /\ overlapped' = (overlapped \/ others # {})
  /\ sent < MaxRequests /\ sent' = sent + 1
  /\ UNCHANGED <<live, row, stored, issued, forgotten, cut>>

SendCreate(c) ==
  /\ issued < MaxPrompts
  /\ \E n \in Names, t \in Types, ls \in SUBSET (Labels \ {Latest}), refs \in Contents :
       Send(c, [Resting EXCEPT !.op = "create", !.step = "newest", !.name = n, !.type = t,
                               !.claim = ls \cup {Latest}, !.refs = refs])
SendPatch(c) ==
  \E n \in Names, v \in Ids, ls \in SUBSET (Labels \ {Latest}) :
    Send(c, [Resting EXCEPT !.op = "patch", !.step = "row", !.name = n, !.version = v,
                            !.claim = ls])
\* By name, by name and label, or by name and version.
SendDelete(c) ==
  \E n \in Names, ls \in {{}} \cup {{l} : l \in Labels}, v \in {0} \cup Ids :
    /\ ls = {} \/ v = 0
    /\ Send(c, [Resting EXCEPT !.op = "delete", !.step = "list", !.name = n, !.claim = ls,
                               !.version = v])

Proceed(c, r) ==
  req' = [req EXCEPT ![c] = r] /\ UNCHANGED <<met, overlapped, sent>>
End(c) == Proceed(c, Resting)

\* Answered with an error, or never.  What was inserted or released stays so.
FailRequest(c) ==
  /\ Busy(c)
  /\ End(c)
  /\ cut' = IF Awaits(c, "create", "refs") THEN cut \cup {req[c].id} ELSE cut
  /\ UNCHANGED <<live, row, stored, issued, forgotten>>

-----------------------------------------------------------------------------
(* Creation reads the newest version for its type ...                       *)
ReadNewest(c) ==
  /\ Awaits(c, "create", "newest")
  /\ IF TypeFits(req[c].name, req[c].type) THEN Proceed(c, [req[c] EXCEPT !.step = "max"])
     ELSE End(c)
  /\ UNCHANGED <<live, row, stored, issued, forgotten, cut>>

(* ... and then the greatest version.                                       *)
ReadMax(c) ==
  /\ Awaits(c, "create", "max")
  /\ \E v \in 0..MaxPrompts :
       /\ IsMax(req[c].name, v)
       /\ Proceed(c, [req[c] EXCEPT !.step = "holders", !.version = v + 1])
  /\ UNCHANGED <<live, row, stored, issued, forgotten, cut>>

ReadRow(c) ==
  /\ Awaits(c, "patch", "row")
  /\ LET rows == {i \in OfName(req[c].name) : row[i].version = req[c].version}
     IN \/ rows = {} /\ End(c)
        \/ \E i \in rows : Proceed(c, [req[c] EXCEPT !.step = "max", !.id = i])
  /\ UNCHANGED <<live, row, stored, issued, forgotten, cut>>

(* Faulty variant: any version that is patched claims it.                   *)
ReadIsAlwaysLatest(c) ==
  /\ Awaits(c, "patch", "max")
  /\ Proceed(c, [req[c] EXCEPT !.step = "holders", !.claim = @ \cup {Latest}])
  /\ UNCHANGED <<live, row, stored, issued, forgotten, cut>>

(* The newest version claims the label of the server again.                 *)
ReadIsLatest(c) ==
  /\ Awaits(c, "patch", "max")
  /\ LET claim == IF IsMax(req[c].name, req[c].version) THEN req[c].claim \cup {Latest}
                  ELSE req[c].claim
     IN Proceed(c, [req[c] EXCEPT !.step = IF claim = {} THEN "write" ELSE "holders",
                                  !.claim = claim])
  /\ UNCHANGED <<live, row, stored, issued, forgotten, cut>>

ToRelease(c, hs) ==
  [req[c] EXCEPT !.step = IF hs = {} THEN "write" ELSE "release", !.holders = hs]
AsRead(ids) == {[id |-> i, labels |-> row[i].labels] : i \in ids}
(* Faulty variant: labels are unique within a name only.                    *)
ReadHoldersOfName(c) ==
  /\ req[c].step = "holders"
  /\ LET holders == {i \in OfName(req[c].name) : row[i].labels \cap req[c].claim # {}}
     IN Proceed(c, ToRelease(c, AsRead(holders \ {req[c].id})))
  /\ UNCHANGED <<live, row, stored, issued, forgotten, cut>>

(* releaseLabelsFromOtherVersions: who holds a label that is claimed, and   *)
(* all of its labels as they are now.                                       *)
ReadHolders(c) ==
  /\ req[c].step = "holders"
  /\ Proceed(c, ToRelease(c, AsRead({i \in live : row[i].labels \cap req[c].claim # {}} \ {req[c].id})))
  /\ UNCHANGED <<live, row, stored, issued, forgotten, cut>>

(* One holder after the other gets back what it held without what is        *)
(* claimed, whatever has become of it meanwhile.                            *)
Release(c) ==
  /\ req[c].step = "release"
  /\ \E h \in req[c].holders :
       /\ Proceed(c, ToRelease(c, req[c].holders \ {h}))
       /\ row' = IF h.id \in live
                 THEN [row EXCEPT ![h.id].labels = h.labels \ req[c].claim] ELSE row
  /\ UNCHANGED <<live, stored, issued, forgotten, cut>>

(* What a creation still needs when its row is there.                       *)
Recording(i, refs) ==
  [Resting EXCEPT !.op = "create", !.step = "refs", !.refs = refs, !.id = i]

(* The unique index refuses a version that exists; the labels are gone then.*)
InsertRow(c) ==
  /\ Awaits(c, "create", "write")
  /\ IF \E i \in OfName(req[c].name) : row[i].version = req[c].version
     THEN End(c) /\ UNCHANGED <<live, row, issued>>
     ELSE /\ issued < MaxPrompts
          /\ issued' = issued + 1
          /\ live' = live \cup {issued'}
          /\ row' = [row EXCEPT ![issued'] =
               [name |-> req[c].name, type |-> req[c].type, version |-> req[c].version,
                labels |-> req[c].claim, refs |-> req[c].refs]]
          /\ IF req[c].refs = {} THEN End(c)
             ELSE Proceed(c, Recording(issued', req[c].refs))
  /\ UNCHANGED <<stored, forgotten, cut>>

(* One row per reference; its parent may be deleted by now (foreign key).   *)
StoreReference(c) ==
  /\ Awaits(c, "create", "refs")
  /\ \E n \in req[c].refs :
       IF req[c].id \in live
       THEN /\ stored' = [stored EXCEPT ![req[c].id] = @ \cup {n}]
            /\ IF req[c].refs = {n} THEN End(c)
               ELSE Proceed(c, Recording(req[c].id, req[c].refs \ {n}))
       ELSE End(c) /\ UNCHANGED stored
  /\ UNCHANGED <<live, row, issued, forgotten, cut>>

(* A row that is gone is an error, with the labels released.                *)
SetLabels(c) ==
  /\ Awaits(c, "patch", "write")
  /\ row' = IF req[c].id \in live THEN [row EXCEPT ![req[c].id].labels = req[c].claim] ELSE row
  /\ End(c)
  /\ UNCHANGED <<live, stored, issued, forgotten, cut>>

-----------------------------------------------------------------------------
ListRows(c) ==
  /\ Awaits(c, "delete", "list")
  /\ LET ids == {i \in OfName(req[c].name) :
                   /\ req[c].claim \subseteq row[i].labels
                   /\ req[c].version \in {0, row[i].version}}
     IN IF ids = {} THEN End(c)
        ELSE Proceed(c, [req[c] EXCEPT !.step = "refs", !.ids = ids])
  /\ UNCHANGED <<live, row, stored, issued, forgotten, cut>>

(* The references of the rows, and all references to the name, also when    *)
(* other versions of it remain.                                             *)
ForgetReferences(c) ==
  /\ Awaits(c, "delete", "refs")
  /\ stored' = [i \in Ids |-> IF i \in req[c].ids THEN {} ELSE stored[i] \ {req[c].name}]
  /\ forgotten' = forgotten \cup {req[c].name}
  /\ cut' = cut \cup {i \in req[c].ids : \E d \in Clients : Awaits(d, "create", "refs") /\ req[d].id = i}
  /\ Proceed(c, [req[c] EXCEPT !.step = "rows"])
  /\ UNCHANGED <<live, row, issued>>

(* References go with their parent (foreign key).                           *)
DeleteVersions(c) ==
  /\ Awaits(c, "delete", "rows")
  /\ live' = live \ req[c].ids
  /\ stored' = [i \in Ids |-> IF i \in req[c].ids THEN {} ELSE stored[i]]
  /\ End(c)
  /\ UNCHANGED <<row, issued, forgotten, cut>>

-----------------------------------------------------------------------------
PromptInit ==
  /\ live = {} /\ issued = 0
  /\ row = [i \in Ids |-> [name |-> Unset, type |-> Unset, version |-> 0, labels |-> {},
                           refs |-> {}]]
  /\ stored = [i \in Ids |-> {}]
  /\ req = [c \in Clients |-> Resting]
  /\ met = {} /\ overlapped = FALSE /\ forgotten = {} /\ cut = {} /\ sent = 0

PromptNext ==
  \E c \in Clients :
    \/ SendCreate(c) \/ SendPatch(c) \/ SendDelete(c) \/ FailRequest(c)
    \/ ReadNewest(c) \/ ReadMax(c) \/ ReadRow(c) \/ ReadIsLatest(c)
    \/ ReadHolders(c) \/ Release(c)
    \/ InsertRow(c) \/ StoreReference(c) \/ SetLabels(c)
    \/ ListRows(c) \/ ForgetReferences(c) \/ DeleteVersions(c)

PromptSpec == PromptInit /\ [][PromptNext]_promptVars

-----------------------------------------------------------------------------
(***************************************************************************)
(* Properties.                                                             *)
(***************************************************************************)

Holder == [id : Ids, labels : SUBSET Labels]
Steps == {"rest", "newest", "row", "max", "holders", "release", "write", "refs", "list", "rows"}
Request ==
  [op : {"none", "create", "patch", "delete"}, step : Steps, name : Names \cup {Unset},
   type : Types \cup {Unset}, claim : SUBSET Labels, refs : SUBSET Names, id : {0} \cup Ids,
   version : Nat, holders : SUBSET Holder, ids : SUBSET Ids]

PromptTypeOK ==
  /\ issued \in 0..MaxPrompts /\ live \subseteq 1..issued
  /\ DOMAIN row = Ids /\ \A i \in 1..issued : row[i] \in PromptRow
  /\ stored \in [Ids -> SUBSET Names]
  /\ req \in [Clients -> Request]
  /\ met \subseteq Clients /\ overlapped \in BOOLEAN /\ sent \in Nat
  /\ forgotten \subseteq Names /\ cut \subseteq Ids

\* As long as requests have come one after the other, with whatever failed between
\* two of their statements: no label is on two rows of the project, the versions of a
\* name have one type, and the label of the server is on a newest version.  None of
\* the three holds once two requests have met (see LabelsUnique below).
LabelsOnce == \A i, j \in live : i # j => row[i].labels \cap row[j].labels = {}
OneType == \A i, j \in live : row[i].name = row[j].name => row[i].type = row[j].type
LatestIsNewest ==
  \A i \in Holders(Latest) : \A j \in OfName(row[i].name) : row[j].version <= row[i].version
InTurn == ~overlapped => LabelsOnce /\ OneType /\ LatestIsNewest

\* The references that a reader resolves (loadDependencies: those recorded, or else
\* those of the text) are all of the text's, unless a reference to that name has been
\* removed with a version of it, or recording them was cut short.
Resolved(i) == IF stored[i] = {} THEN row[i].refs ELSE stored[i]
BeingRecorded(i) == \E c \in Clients : Awaits(c, "create", "refs") /\ req[c].id = i
ReferencesWhole ==
  \A i \in live : /\ stored[i] \subseteq row[i].refs
                  /\ i \in cut \/ BeingRecorded(i) \/ row[i].refs \ Resolved(i) \subseteq forgotten

PromptsInv == PromptTypeOK /\ InTurn /\ ReferencesWhole

\* A request that nobody met on its way puts the store right for the labels it claims,
\* whatever earlier ones have left behind: its row exists and is their only holder.
\* A creation is then never refused after it has taken labels away.
ClaimSettles ==
  [][\A c \in Clients \ met :
       InsertRow(c) \/ SetLabels(c) =>
         \E i \in live' :
           /\ row'[i].name = req[c].name /\ row'[i].version = req[c].version
           /\ \A l \in req[c].claim : Holders(l)' = {i}]_promptVars

\* "labels are globally unique within a project" (routes/prompts-v2.ts:343).
LabelsUnique == LabelsOnce
=============================================================================
