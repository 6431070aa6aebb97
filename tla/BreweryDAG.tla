----------------------------- MODULE BreweryDAG -----------------------------
(***************************************************************************)
(* BreweryDAG: the three tasks of brewery_dag.py, run by Airflow over the  *)
(* Bronze, Silver and Gold layers of one data lake.                        *)
(*                                                                         *)
(* Several DAG runs may be active (max_active_runs_per_dag = 16); the      *)
(* SequentialExecutor of airflow.cfg runs one task at a time, so runs      *)
(* interleave task by task.  An attempt of a task may end in an exception  *)
(* or be killed between any two of its steps; it is then tried again up to *)
(* Retries times.  What the paths of the three tasks have in common is the *)
(* dates of the run: two runs that share a date share files.               *)
(***************************************************************************)
EXTENDS Transformation, Aggregation

CONSTANTS
  Runs,         \* identifiers for DAG runs
  Kinds,        \* which kinds of run occur: "manual", "scheduled"
  LastDay,      \* bound: the last day of the clock
  Retries,      \* default_args["retries"] (2 in the code)
  HookResults   \* the lists of pages BreweryHook().run() may return

Days == 0..LastDay
Pages == SUBSET Breweries \ {{}}

ASSUME DAGAssumption ==
  /\ Kinds \subseteq {"manual", "scheduled"}
  /\ LastDay \in Nat
  /\ Retries \in Nat
  /\ \A r \in HookResults : r \in Seq(Pages)

VARIABLES
  today,    \* the date of the wall clock
  dagrun,   \* the DAG runs created so far, with their dates
  ti,       \* the state of each task instance
  tries,    \* the attempts of each task instance so far
  at,       \* where the task in the executor's slot is, "idle" if none is
  pages,    \* its local data: the pages execute() has still to write
  latest,   \* its local data: the date filter_by_latest_extract_date found
  bronze,   \* the Bronze files, by <<extract_date, ds>>
  silver,   \* the Silver partitions, by process_date
  gold      \* the Gold partitions, by process_date

airflow == <<today, dagrun, tries>>
local == <<pages, latest>>
lake == <<bronze, silver, gold>>
vars == <<airflow, ti, at, local, lake>>

Tasks == {"task_brewery", "brewery_transform", "brewery_aggregate"}

(* brewery_operator >> brewery_transform >> brewery_aggregate              *)
Upstream(t) == CASE t = "task_brewery"      -> {}
                 [] t = "brewery_transform" -> {"task_brewery"}
                 [] t = "brewery_aggregate" -> {"brewery_transform"}

(* A path of the lake set to new contents, and a path deleted.             *)
Put(layer, path, contents) ==
  [p \in DOMAIN layer \union {path} |-> IF p = path THEN contents ELSE layer[p]]
Delete(layer, path) == [p \in DOMAIN layer \ {path} |-> layer[p]]

Init ==
  /\ today = 0
  /\ dagrun = <<>>
  /\ ti = [r \in Runs |-> [t \in Tasks |-> "none"]]
  /\ tries = [r \in Runs |-> [t \in Tasks |-> 0]]
  /\ at = "idle"
  /\ pages = <<>>
  /\ latest = {}
  /\ bronze = <<>>
  /\ silver = <<>>
  /\ gold = <<>>

(***************************************************************************)
(* The clock, and the creation of DAG runs.  ds is the date of the logical *)
(* date, extract_date the date of data_interval_end.                       *)
(***************************************************************************)
Midnight ==
  /\ today < LastDay
  /\ today' = today + 1
  /\ UNCHANGED <<dagrun, tries, ti, at, local, lake>>

CreateRun(r, kind, ds, extract_date) ==
  /\ kind \in Kinds
  /\ r \in Runs \ DOMAIN dagrun
  /\ dagrun' = Put(dagrun, r, [kind |-> kind, ds |-> ds, extract_date |-> extract_date])
  /\ UNCHANGED <<today, tries, ti, at, local, lake>>

(* A run triggered in the UI: its logical date is now, its data interval   *)
(* the last whole day, which ended at the midnight today began with.       *)
TriggerManual(r) == CreateRun(r, "manual", today, today)

(* A run of the schedule is created once its interval [ds, ds + 1] is      *)
(* over; intervals are taken in order, each at most once, perhaps late.    *)
CreateScheduled(r) ==
  \E ds \in Days :
    /\ ds + 1 <= today
    /\ \A s \in DOMAIN dagrun : dagrun[s].kind = "scheduled" => dagrun[s].ds < ds
    /\ CreateRun(r, "scheduled", ds, ds + 1)

(***************************************************************************)
(* The life of a task instance.                                            *)
(***************************************************************************)
(* Mutant: tasks of different runs overlap, as on a parallel executor.     *)
StartTaskAnytime(r, t) ==
  /\ r \in DOMAIN dagrun
  /\ ti[r][t] \in {"none", "up_for_retry"}
  /\ \A u \in Upstream(t) : ti[r][u] = "success"
  /\ ti' = [ti EXCEPT ![r][t] = "running"]
  /\ tries' = [tries EXCEPT ![r][t] = @ + 1]
  /\ at' = "start"
  /\ UNCHANGED <<today, dagrun, local, lake>>

StartTask(r, t) ==
  /\ at = "idle"
  /\ r \in DOMAIN dagrun
  /\ ti[r][t] \in {"none", "up_for_retry"}
  /\ \A u \in Upstream(t) : ti[r][u] = "success"
  /\ ti' = [ti EXCEPT ![r][t] = "running"]
  /\ tries' = [tries EXCEPT ![r][t] = @ + 1]
  /\ at' = "start"
  /\ UNCHANGED <<today, dagrun, local, lake>>

(* The attempt ends and frees the slot.                                    *)
EndAttempt(r, t, state) ==
  /\ ti' = [ti EXCEPT ![r][t] = state]
  /\ at' = "idle"
  /\ pages' = <<>>
  /\ latest' = {}
  /\ UNCHANGED airflow

(* Mutant: one attempt too many.                                           *)
FailAttemptLate(r, t) ==
  EndAttempt(r, t, IF tries[r][t] <= Retries + 1 THEN "up_for_retry" ELSE "failed")

FailAttempt(r, t) ==
  EndAttempt(r, t, IF tries[r][t] <= Retries THEN "up_for_retry" ELSE "failed")

(* Mutant: only a failure of the task directly before is propagated.       *)
MarkAfterFailed(r, t) ==
  /\ ti[r][t] = "none"
  /\ \E u \in Upstream(t) : ti[r][u] = "failed"
  /\ ti' = [ti EXCEPT ![r][t] = "upstream_failed"]
  /\ UNCHANGED <<airflow, at, local, lake>>

MarkUpstreamFailed(r, t) ==
  /\ ti[r][t] = "none"
  /\ \E u \in Upstream(t) : ti[r][u] \in {"failed", "upstream_failed"}
  /\ ti' = [ti EXCEPT ![r][t] = "upstream_failed"]
  /\ UNCHANGED <<airflow, at, local, lake>>

(* An exception, a failed Spark job or a kill ends the attempt, wherever   *)
(* it is; what it did to the lake stays.                                   *)
AttemptFails(r, t) ==
  /\ ti[r][t] = "running"
  /\ FailAttempt(r, t)
  /\ UNCHANGED lake

(***************************************************************************)
(* task_brewery: BreweryOperator.execute.                                  *)
(***************************************************************************)
(* Mutant: file_path is not in template_fields, so no date is rendered.    *)
BronzePathUnrendered(r) == <<0, 0>>

BronzePath(r) == <<dagrun[r].extract_date, dagrun[r].ds>>

InTask(r, t, place) == ti[r][t] = "running" /\ at = place

(* Mutant: the file is opened for appending.                               *)
OpenBronzeAppend(r) ==
  /\ InTask(r, "task_brewery", "start")
  /\ bronze' = IF BronzePath(r) \in DOMAIN bronze THEN bronze
                                               ELSE Put(bronze, BronzePath(r), <<>>)
  /\ at' = "opened"
  /\ UNCHANGED <<airflow, ti, local, silver, gold>>

(* create_parent_folder, then open(file_path, "w"), which empties the file *)
(* before the hook is asked for anything.                                  *)
OpenBronze(r) ==
  /\ InTask(r, "task_brewery", "start")
  /\ bronze' = Put(bronze, BronzePath(r), <<>>)
  /\ at' = "opened"
  /\ UNCHANGED <<airflow, ti, local, silver, gold>>

(* BreweryHook().run() returns all it collected; that it may raise instead *)
(* is an AttemptFails.                                                     *)
HookReturns(r) ==
  /\ InTask(r, "task_brewery", "opened")
  /\ pages' \in HookResults
  /\ at' = "writing"
  /\ UNCHANGED <<airflow, ti, latest, lake>>

WriteLine(r) ==
  /\ InTask(r, "task_brewery", "writing")
  /\ pages # <<>>
  /\ bronze' = [bronze EXCEPT ![BronzePath(r)] = Append(@, Head(pages))]
  /\ pages' = Tail(pages)
  /\ UNCHANGED <<airflow, ti, at, latest, silver, gold>>

(* Killed in the middle of a line.                                         *)
TearLine(r) ==
  /\ InTask(r, "task_brewery", "writing")
  /\ pages # <<>>
  /\ bronze' = [bronze EXCEPT ![BronzePath(r)] = Append(@, {Corrupt})]
  /\ FailAttempt(r, "task_brewery")
  /\ UNCHANGED <<silver, gold>>

CloseBronze(r) ==
  /\ InTask(r, "task_brewery", "writing")
  /\ pages = <<>>
  /\ EndAttempt(r, "task_brewery", "success")
  /\ UNCHANGED lake

(***************************************************************************)
(* brewery_transform: transformation.py.  The DataFrame is lazy: the rows  *)
(* are read once for the schema and again when they are written.           *)
(***************************************************************************)
TransformInput(r) == ReadJson(bronze, dagrun[r].extract_date)

(* Mutant: validate_schema is not called.                                  *)
SkipValidation(r) ==
  /\ InTask(r, "brewery_transform", "start")
  /\ at' = "validated"
  /\ UNCHANGED <<airflow, ti, local, lake>>

ValidateBronze(r) ==
  /\ InTask(r, "brewery_transform", "start")
  /\ validate_schema(TransformInput(r))
  /\ at' = "validated"
  /\ UNCHANGED <<airflow, ti, local, lake>>

(* validate_schema raises ValueError.                                      *)
BronzeSchemaError(r) ==
  /\ InTask(r, "brewery_transform", "start")
  /\ ~validate_schema(TransformInput(r))
  /\ FailAttempt(r, "brewery_transform")
  /\ UNCHANGED lake

(* Mutant: the overwrite takes the whole table, not the partition.         *)
DropSilverTable(r) ==
  /\ InTask(r, "brewery_transform", "validated")
  /\ silver' = <<>>
  /\ at' = "dropped"
  /\ UNCHANGED <<airflow, ti, local, bronze, gold>>

(* export_parquet with mode('overwrite'): the old partition is deleted     *)
(* first, the new one appears when the Spark job commits.                  *)
DropSilver(r) ==
  /\ InTask(r, "brewery_transform", "validated")
  /\ silver' = Delete(silver, dagrun[r].ds)
  /\ at' = "dropped"
  /\ UNCHANGED <<airflow, ti, local, bronze, gold>>

CommitSilver(r) ==
  /\ InTask(r, "brewery_transform", "dropped")
  /\ silver' = Put(silver, dagrun[r].ds, TransformInput(r))
  /\ at' = "committed"
  /\ UNCHANGED <<airflow, ti, local, bronze, gold>>

TransformDone(r) ==
  /\ InTask(r, "brewery_transform", "committed")
  /\ EndAttempt(r, "brewery_transform", "success")
  /\ UNCHANGED lake

(***************************************************************************)
(* brewery_aggregate: aggregation.py.                                      *)
(***************************************************************************)
(* Spark takes the schema of the table from one of its Parquet files.      *)
SilverSchemaOK(d) == validate_aggregation_schema(DfColumns(silver[d]))

ValidateSilver(r) ==
  /\ InTask(r, "brewery_aggregate", "start")
  /\ \E d \in DOMAIN silver : SilverSchemaOK(d)
  /\ at' = "filter"
  /\ UNCHANGED <<airflow, ti, local, lake>>

(* There is no partition to read, or validate_aggregation_schema raises.   *)
SilverSchemaError(r) ==
  /\ InTask(r, "brewery_aggregate", "start")
  /\ \/ DOMAIN silver = {}
     \/ \E d \in DOMAIN silver : ~SilverSchemaOK(d)
  /\ FailAttempt(r, "brewery_aggregate")
  /\ UNCHANGED lake

FilterLatest(r) ==
  /\ InTask(r, "brewery_aggregate", "filter")
  /\ latest' = LatestDate(silver)
  /\ at' = "filtered"
  /\ UNCHANGED <<airflow, ti, pages, lake>>

(* The Spark action raises; the except clause returns an empty DataFrame.  *)
FilterError(r) ==
  /\ InTask(r, "brewery_aggregate", "filter")
  /\ latest' = {}
  /\ at' = "filtered"
  /\ UNCHANGED <<airflow, ti, pages, lake>>

DropGold(r) ==
  /\ InTask(r, "brewery_aggregate", "filtered")
  /\ gold' = Delete(gold, dagrun[r].ds)
  /\ at' = "dropped"
  /\ UNCHANGED <<airflow, ti, local, bronze, silver>>

(* The partition remembers, as history, the Silver date it was made from.  *)
CommitGold(r) ==
  /\ InTask(r, "brewery_aggregate", "dropped")
  /\ gold' = Put(gold, dagrun[r].ds,
                 [src |-> latest, counts |-> get_aggregate(FilterRows(silver, latest))])
  /\ at' = "committed"
  /\ UNCHANGED <<airflow, ti, local, bronze, silver>>

AggregateDone(r) ==
  /\ InTask(r, "brewery_aggregate", "committed")
  /\ EndAttempt(r, "brewery_aggregate", "success")
  /\ UNCHANGED lake

(***************************************************************************)
(* The specification.                                                      *)
(***************************************************************************)
Extract(r) == \/ OpenBronze(r) \/ HookReturns(r) \/ WriteLine(r)
              \/ TearLine(r) \/ CloseBronze(r)
Transform(r) == \/ ValidateBronze(r) \/ BronzeSchemaError(r) \/ DropSilver(r)
                \/ CommitSilver(r) \/ TransformDone(r)
Aggregate(r) == \/ ValidateSilver(r) \/ SilverSchemaError(r) \/ FilterLatest(r)
                \/ FilterError(r) \/ DropGold(r) \/ CommitGold(r) \/ AggregateDone(r)

Progress ==
  \E r \in Runs :
    \/ Extract(r) \/ Transform(r) \/ Aggregate(r)
    \/ \E t \in Tasks : StartTask(r, t) \/ MarkUpstreamFailed(r, t) \/ AttemptFails(r, t)

Environment == Midnight \/ \E r \in Runs : TriggerManual(r) \/ CreateScheduled(r)

Next == Progress \/ Environment

(* The scheduler loop and the executor keep running; nobody has to trigger *)
(* runs.  An attempt goes on or ends, but for one that waits for the hook: *)
(* its requests have no timeout and the task no execution_timeout, so that *)
(* a peer that never answers holds the slot for ever.                      *)
Spec == Init /\ [][Next]_vars /\ WF_vars(at # "opened" /\ Progress)
-----------------------------------------------------------------------------
States == {"none", "running", "up_for_retry", "success", "failed", "upstream_failed"}
Finished == {"success", "failed", "upstream_failed"}
Places == {"idle", "start", "opened", "writing", "validated", "filter",
           "filtered", "dropped", "committed"}
Rows == Days \X Nat \X Records

TypeOK ==
  /\ today \in Days
  /\ DOMAIN dagrun \subseteq Runs
  /\ \A r \in DOMAIN dagrun :
       dagrun[r] \in [kind : Kinds, ds : Days, extract_date : Days]
  /\ ti \in [Runs -> [Tasks -> States]]
  /\ tries \in [Runs -> [Tasks -> 0..(Retries + 1)]]
  /\ at \in Places
  /\ pages \in Seq(Pages)
  /\ latest \in SUBSET Days
  /\ DOMAIN bronze \subseteq Days \X Days
  /\ \A p \in DOMAIN bronze : bronze[p] \in Seq(SUBSET Records)
  /\ DOMAIN silver \subseteq Days
  /\ \A d \in DOMAIN silver : silver[d] \in SUBSET Rows
  /\ DOMAIN gold \subseteq Days
  /\ \A d \in DOMAIN gold : gold[d].src \in SUBSET Days

(* Every Silver partition a job can read has all the expected columns,     *)
(* although the rows are read a second time, after the validation, and     *)
(* although other runs write into the directory they come from: the        *)
(* aggregation's own check never fails on a partition that exists.         *)
SilverValidated == \A d \in DOMAIN silver : validate_schema(silver[d])

(* The date filter_by_latest_extract_date found is still the latest one    *)
(* when the lazy filter is executed by the write: no transformation of     *)
(* another run slips in between.                                           *)
LatestNotStale == latest \subseteq LatestDate(silver)

(* If no request hangs for ever, a run that was created comes to an end:   *)
(* each of its tasks succeeds, has used up its retries ("default_args:     *)
(* ... retries (2)"), or is given up because of a task before it.          *)
EveryRunFinishes ==
  []<>(at # "opened") =>
    \A r \in Runs :
      r \in DOMAIN dagrun ~> \A t \in Tasks : ti[r][t] \in Finished

(* "Bronze: raw, immutable data ... historical archive": the file of a run *)
(* whose extraction succeeded never changes again.  It holds while all     *)
(* runs are of the schedule; a second manual run of a day empties the      *)
(* file of the first one.                                                  *)
BronzeImmutable ==
  [][\A r \in DOMAIN dagrun :
       ti[r]["task_brewery"] = "success" =>
         /\ BronzePath(r) \in DOMAIN bronze'
         /\ bronze'[BronzePath(r)] = bronze[BronzePath(r)]]_vars

(* With runs of the schedule only, a Silver partition holds exactly the    *)
(* rows of the one Bronze file its run extracted, complete and with no     *)
(* line torn by an earlier attempt, however often either task was retried. *)
SilverLineage ==
  \A d \in DOMAIN silver :
    /\ \A row \in silver[d] : row[3] \in Breweries
    /\ \E r \in DOMAIN dagrun :
         /\ dagrun[r].ds = d
         /\ ti[r]["task_brewery"] = "success"
         /\ silver[d] = FileRows(bronze, BronzePath(r))

(* With runs of the schedule only, Silver keeps what it was given: once    *)
(* the transformation of a day succeeded its partition stays readable,     *)
(* although every attempt deletes a partition before it writes one.        *)
SilverKept ==
  \A r \in DOMAIN dagrun :
    ti[r]["brewery_transform"] = "success" => dagrun[r].ds \in DOMAIN silver

(* With runs of the schedule only, a Gold partition can be recomputed from *)
(* the Bronze directory of the day it was made from.                       *)
GoldLineage ==
  \A d \in DOMAIN gold : \A s \in gold[d].src :
    gold[d].counts = get_aggregate(ReadJson(bronze, s + 1))

(* With runs of the schedule only, Gold is never made from data older than *)
(* its own process_date (it may be made from newer data).                  *)
GoldNotOlder == \A d \in DOMAIN gold : \A s \in gold[d].src : s >= d

(* With runs of the schedule only, the runs implement the lake's promises  *)
(* step by step: of Bronze the lake sees the files whose extraction        *)
(* succeeded, of Gold the counts.                                          *)
Extracted == {dagrun[r].ds : r \in {s \in DOMAIN dagrun : ti[s]["task_brewery"] = "success"}}
bronzeBar == [d \in Extracted |-> FileRows(bronze, <<d + 1, d>>)]
goldBar == [d \in DOMAIN gold |-> gold[d].counts]

Layers == INSTANCE Lake WITH
  RowSets <- SUBSET (Days \X Nat \X Breweries), bronze <- bronzeBar, gold <- goldBar

ImplementsLake == Layers!Spec

(* "aggregated view of the quantity of breweries per type and location": a *)
(* group of Gold counts no more breweries than it has, provided no single  *)
(* extraction returns a brewery twice and no two runs of different ds have *)
(* one extract_date.  A manual run and the run of the schedule for the day *)
(* before do: one directory then holds the listing twice.                  *)
SharedDirectory ==
  \E q, r \in DOMAIN dagrun :
    dagrun[q].extract_date = dagrun[r].extract_date /\ dagrun[q].ds # dagrun[r].ds

GoldCountsBreweries ==
  ~SharedDirectory =>
    \A d \in DOMAIN gold : \A g \in DOMAIN gold[d].counts \ {Group[Corrupt]} :
      gold[d].counts[g] <= Cardinality({b \in Breweries : Group[b] = g})
=============================================================================
