---------------------------- MODULE DatasetItems ----------------------------
(***************************************************************************)
(* The versions of dataset items, the runs of a dataset and the items of a *)
(* run (features/datasets, routes/datasets.ts, routes/dataset-items.ts,    *)
(* repositories/dataset-runs.ts).  Items and runs are in the metadata      *)
(* database, run items in the telemetry database.                          *)
(*                                                                         *)
(* Creating and updating items are transactions that lock at their first   *)
(* statement, each a step here (a request with several items is as many    *)
(* steps).  Deleting an item and adding a run item are not: each statement *)
(* is a step, and the request may end after it.                            *)
(*                                                                         *)
(* An instant is a millisecond.  The clock is assumed not to step back.    *)
(* What an item holds is left out, and so are other projects.              *)
(***************************************************************************)
EXTENDS Integers, FiniteSets

CONSTANTS
  Datasets, Items, RunNames,
  Callers,          \* requests that take several statements
  MaxInstant        \* bound of the model

ASSUME DatasetsAssumption == MaxInstant \in Nat

Instants == 0..MaxInstant
Open == MaxInstant + 1          \* valid_to IS NULL

VARIABLES
  datasets,     \* the datasets that exist
  versions,     \* the rows of dataset_items
  runs,         \* the rows of dataset_runs
  runItems,     \* the rows of dataset_run_items
  call,         \* the request of each caller
  instant,      \* new Date()
  overtaken     \* history: versions that were closed again by a late deletion
datasetVars == <<datasets, versions, runs, runItems, call, instant, overtaken>>

Version == [dataset : Datasets, item : Items, from : Instants, to : Instants \cup {Open},
            deleted : BOOLEAN]
\* The caller that inserted a run stands for its id.
CONSTANT Api                    \* the run was created by itself
Run == [dataset : Datasets, name : RunNames, by : Callers \cup {Api}]
RunItem == [item : Items, run : Run, deleted : BOOLEAN]

Key(v) == <<v.dataset, v.item, v.from>>
Current(d, i) == {v \in versions : /\ v.dataset = d /\ v.item = i
                                   /\ v.to = Open /\ ~v.deleted}
RunsNamed(d, n) == {r \in runs : r.dataset = d /\ r.name = n}

(***************************************************************************)
(* Datasets and items.                                                     *)
(***************************************************************************)

(* Faulty variant: the version before stays open, marked as deleted.        *)
NewItemVersionMarks(d, i) ==
  /\ ~\E v \in versions : v.item = i /\ v.from = instant
  /\ versions' =
       (versions \ Current(d, i)) \cup {[v EXCEPT !.deleted = TRUE] : v \in Current(d, i)}
       \cup {[dataset |-> d, item |-> i, from |-> instant, to |-> Open, deleted |-> FALSE]}
  /\ UNCHANGED <<datasets, runs, runItems, call, instant, overtaken>>

\* The primary key is of the item and the instant, without the dataset.  When it is
\* taken, also by the version to be closed, the transaction is rolled back.
NewItemVersion(d, i) ==
  /\ ~\E v \in versions : v.item = i /\ v.from = instant
  /\ versions' =
       (versions \ Current(d, i)) \cup {[v EXCEPT !.to = instant] : v \in Current(d, i)}
       \cup {[dataset |-> d, item |-> i, from |-> instant, to |-> Open, deleted |-> FALSE]}
  /\ UNCHANGED <<datasets, runs, runItems, call, instant, overtaken>>

CreateItem(d, i) == d \in datasets /\ NewItemVersion(d, i)
UpdateItem(d, i) == Current(d, i) # {} /\ NewItemVersion(d, i)

(* Items and runs go with it (foreign keys); run items are in the other     *)
(* database and stay.                                                       *)
DeleteDataset(d) ==
  /\ d \in datasets
  /\ datasets' = datasets \ {d}
  /\ versions' = {v \in versions : v.dataset # d}
  /\ runs' = {r \in runs : r.dataset # d}
  /\ UNCHANGED <<runItems, call, instant, overtaken>>

(* A name that exists is a conflict, of the check or of the unique index.   *)
CreateRun(d, n) ==
  /\ d \in datasets /\ RunsNamed(d, n) = {}
  /\ runs' = runs \cup {[dataset |-> d, name |-> n, by |-> Api]}
  /\ UNCHANGED <<datasets, versions, runItems, call, instant, overtaken>>

(***************************************************************************)
(* Requests of several statements.                                         *)
(***************************************************************************)
NoCall == [step |-> "rest"]
Continue(c, r) == call' = [call EXCEPT ![c] = r]
Reached(c, step) == call[c].step = step

FailCall(c) ==
  /\ ~Reached(c, "rest")
  /\ Continue(c, NoCall)
  /\ UNCHANGED <<datasets, versions, runs, runItems, instant, overtaken>>

(* DELETE of the dataset's route.                                           *)
SendItemDelete(c) ==
  /\ Reached(c, "rest")
  /\ \E d \in Datasets, i \in Items : Continue(c, [step |-> "require", dataset |-> d, item |-> i])
  /\ UNCHANGED <<datasets, versions, runs, runItems, instant, overtaken>>

(* DELETE by the id alone: any dataset that has the item, ...               *)
SendDeleteById(c) ==
  /\ Reached(c, "rest")
  /\ \E d \in Datasets, i \in Items :
       /\ Current(d, i) # {}
       /\ Continue(c, [step |-> "runItems", dataset |-> d, item |-> i])
  /\ UNCHANGED <<datasets, versions, runs, runItems, instant, overtaken>>

(* ... whose run items are deleted first, those of all datasets.            *)
DeleteRunItems(c) ==
  /\ Reached(c, "runItems")
  /\ runItems' = {IF x.item = call[c].item THEN [x EXCEPT !.deleted = TRUE] ELSE x : x \in runItems}
  /\ Continue(c, [call[c] EXCEPT !.step = "require"])
  /\ UNCHANGED <<datasets, versions, runs, instant, overtaken>>

ReadCurrent(c) ==
  /\ Reached(c, "require")
  /\ \/ Current(call[c].dataset, call[c].item) = {} /\ Continue(c, NoCall)
     \/ \E v \in Current(call[c].dataset, call[c].item) :
          Continue(c, [step |-> "close", item |-> v.item, from |-> v.from])
  /\ UNCHANGED <<datasets, versions, runs, runItems, instant, overtaken>>

(* The row that was read is closed now, also when an update has closed it   *)
(* meanwhile.                                                               *)
Closed(v) == [v EXCEPT !.to = instant, !.deleted = TRUE]
(* Faulty variant: all versions of the item are closed.                     *)
CloseVersions(c) ==
  /\ Reached(c, "close")
  /\ LET hit == {v \in versions : v.item = call[c].item /\ v.from <= call[c].from}
     IN /\ versions' = (versions \ hit) \cup {Closed(v) : v \in hit}
        /\ overtaken' = overtaken \cup
             {Key(v) : v \in {w \in hit : w.from = call[c].from /\ w.to # Open}}
  /\ Continue(c, NoCall)
  /\ UNCHANGED <<datasets, runs, runItems, instant>>

CloseVersion(c) ==
  /\ Reached(c, "close")
  /\ LET hit == {v \in versions : v.item = call[c].item /\ v.from = call[c].from}
     IN /\ versions' = (versions \ hit) \cup {Closed(v) : v \in hit}
        /\ overtaken' = overtaken \cup {Key(v) : v \in {w \in hit : w.to # Open}}
  /\ Continue(c, NoCall)
  /\ UNCHANGED <<datasets, runs, runItems, instant>>

(* A run item of any dataset that has the item; its run is looked up ...    *)
SendRunItem(c) ==
  /\ Reached(c, "rest")
  /\ \E d \in Datasets, i \in Items, n \in RunNames :
       /\ Current(d, i) # {}
       /\ Continue(c, [step |-> "run", dataset |-> d, item |-> i, name |-> n])
  /\ UNCHANGED <<datasets, versions, runs, runItems, instant, overtaken>>

WithRun(c, r) == Continue(c, [step |-> "add", item |-> call[c].item, run |-> r])
FindRun(c) ==
  /\ Reached(c, "run")
  /\ LET found == RunsNamed(call[c].dataset, call[c].name)
     IN \/ found = {} /\ Continue(c, [call[c] EXCEPT !.step = "insert"])
        \/ \E r \in found : WithRun(c, r)
  /\ UNCHANGED <<datasets, versions, runs, runItems, instant, overtaken>>

(* ... or inserted, or looked up again when another request was faster.     *)
InsertRun(c) ==
  /\ Reached(c, "insert") /\ call[c].dataset \in datasets
  /\ IF RunsNamed(call[c].dataset, call[c].name) # {}
     THEN Continue(c, [call[c] EXCEPT !.step = "again"]) /\ UNCHANGED runs
     ELSE LET r == [dataset |-> call[c].dataset, name |-> call[c].name, by |-> c]
          IN runs' = runs \cup {r} /\ WithRun(c, r)
  /\ UNCHANGED <<datasets, versions, runItems, instant, overtaken>>

FindRunAgain(c) ==
  /\ Reached(c, "again")
  /\ \E r \in RunsNamed(call[c].dataset, call[c].name) : WithRun(c, r)
  /\ UNCHANGED <<datasets, versions, runs, runItems, instant, overtaken>>

AddRunItem(c) ==
  /\ Reached(c, "add")
  /\ runItems' = runItems \cup {[item |-> call[c].item, run |-> call[c].run, deleted |-> FALSE]}
  /\ Continue(c, NoCall)
  /\ UNCHANGED <<datasets, versions, runs, instant, overtaken>>

-----------------------------------------------------------------------------
Pass ==
  /\ instant < MaxInstant /\ instant' = instant + 1
  /\ UNCHANGED <<datasets, versions, runs, runItems, call, overtaken>>

DatasetInit ==
  /\ datasets = Datasets /\ versions = {} /\ runs = {} /\ runItems = {}
  /\ call = [c \in Callers |-> NoCall] /\ instant = 0 /\ overtaken = {}

DatasetNext ==
  \/ \E d \in Datasets, i \in Items : CreateItem(d, i) \/ UpdateItem(d, i)
  \/ \E d \in Datasets : DeleteDataset(d)
  \/ \E d \in Datasets, n \in RunNames : CreateRun(d, n)
  \/ \E c \in Callers :
       \/ FailCall(c) \/ SendItemDelete(c) \/ SendDeleteById(c) \/ DeleteRunItems(c)
       \/ ReadCurrent(c) \/ CloseVersion(c)
       \/ SendRunItem(c) \/ FindRun(c) \/ InsertRun(c) \/ FindRunAgain(c) \/ AddRunItem(c)
  \/ Pass

DatasetSpec == DatasetInit /\ [][DatasetNext]_datasetVars

-----------------------------------------------------------------------------
(***************************************************************************)
(* Properties.                                                             *)
(***************************************************************************)
DatasetTypeOK ==
  /\ datasets \subseteq Datasets /\ instant \in Instants
  /\ versions \subseteq Version /\ runs \subseteq Run /\ runItems \subseteq RunItem
  /\ \A v \in versions : v.dataset \in datasets
  /\ \A r \in runs : r.dataset \in datasets
  /\ DOMAIN call = Callers

\* What a list as of an instant shows of an item (listDatasetItemsV1).
AsOf(d, i, t) == {v \in versions : v.dataset = d /\ v.item = i /\ v.from <= t /\ t < v.to}

\* At every instant an item of a dataset has one version at most, but for versions that
\* a deletion closed late: it had read them before an update closed them.
OneVersion ==
  \A d \in Datasets, i \in Items, t \in Instants :
    \A v, w \in AsOf(d, i, t) : v = w \/ {Key(v), Key(w)} \cap overtaken # {}

\* What has run items of a name has one run of that name, whoever was first to create
\* it, and the loser of the race finds the winner's run unless the dataset is gone.
OneRun ==
  \A x, y \in runItems :
    x.run.dataset = y.run.dataset /\ x.run.name = y.run.name => x.run = y.run
LoserFinds ==
  \A c \in Callers :
    Reached(c, "again") => \/ RunsNamed(call[c].dataset, call[c].name) # {}
                           \/ call[c].dataset \notin datasets

ItemsInv == DatasetTypeOK /\ OneVersion /\ OneRun /\ LoserFinds

\* What a list as of a past instant shows of an item does not change any more while
\* its dataset exists, but for versions that a deletion closed late.
Seen(d, i, t) == {Key(v) : v \in AsOf(d, i, t)}
PastIsFixed ==
  [][\A d \in datasets', i \in Items, t \in 0..(instant - 1) :
       Seen(d, i, t) \ overtaken' = Seen(d, i, t)' \ overtaken']_datasetVars
=============================================================================
