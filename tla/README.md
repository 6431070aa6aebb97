# Verification of the brewery data pipeline

TLA+ modules, TLC runs and TLAPS proofs for the pipeline that extracts the Open
Brewery DB (`airflow_pipeline/`), transforms it with Spark and aggregates it
(`src/scripts/`), and for the part of the bundled pyspark
(`spark-3.1.3-bin-hadoop3.2/python/pyspark/`) that keeps state of its own. Paths
below are relative to the root of the repository, those of pyspark to its
directory.

## 1. Inventory

| Component | State it keeps | Operations | What makes it correct |
|---|---|---|---|
| `BreweryHook` (`airflow_pipeline/hook/brewery_hook.py`) | `total_breweries`, `page_number`, `list_json_response` of one call | meta request, page loop with three ways out (`break` on an empty page, `break` on an exception, end of range), early return without a total | every record counted is returned, none twice, the call ends |
| `BreweryOperator` (`airflow_pipeline/operators/brewery_operator.py`) | one Bronze file | open for writing (empties it), call the hook, write one line per page | a finished file is complete, and stays it |
| `transformation.py` | one Silver partition | read a Bronze directory, check the schema, overwrite the partition | a partition holds what its run extracted, and passed the check |
| `aggregation.py` | one Gold partition | read the Silver table, check the schema, find the latest date, count, overwrite | counts are those of the latest day, and of each brewery once |
| `BreweryDAG` (`airflow_pipeline/dags/brewery_dag.py`, `airflow.cfg`) | DAG runs with their dates, task instances with their attempts, the executor's slot | create a run (by hand, by schedule), start, retry, fail, propagate a failure | runs do not disturb each other; every run ends |
| schedule of the DAG (`start_date=datetime.now()`, `@daily`) | the next interval, moved at every parse | parse, create a run | no day is created twice or after a later one; a run per day, which the code does not give |
| `api_extraction.py` | `total_pages`, `page_number` of the script | meta request, page loop that prints | every page is asked for once, whichever fail; the script ends |
| `SparkContext`, `launch_gateway` (`context.py`, `java_gateway.py`) | the registered context, the class lock, `_jsc`, the JVM process | construct, `getOrCreate`, `stop`, launch | one context at a time; cleaned up after an error; the lock comes back |
| `SparkSession` (`sql/session.py`) | `_instantiatedSession`, the JVM's default session | `getOrCreate`, `newSession`, `stop` | what is returned runs, and stays the default |
| daemon (`daemon.py`) | its worker processes, by pid | fork, kill, shut down; a worker's start and end | no process outlives the JVM |
| worker (`worker.py`, `taskcontext.py`) | contexts, broadcasts and accumulators of the process | one task after the other | nothing of one task is seen by the next |
| `ExternalMerger` (`shuffle.py`) | dicts in memory, spill files, nested mergers | merge, spill, hand out partition by partition | each key once and complete; no file left |

The components share the data lake and nothing else. The operator calls the
hook and writes what it returns into `Bronze/extract_date=E/brewerydata_D.json`;
the transformation reads the *directory* `extract_date=E` and writes
`Silver/process_date=D`; the aggregation reads *all* of Silver and writes
`Gold/process_date=D`. `E` is the date of `data_interval_end`, `D` the logical
date `ds`. The hook and the script ask the same API and share a page count.
Both Spark jobs begin with `SparkSession.builder.getOrCreate()`, which makes a
`SparkContext`, which launches the JVM; the JVM starts the daemon, which forks
workers, which merge with an `ExternalMerger` when they shuffle. Those five
are modelled each for itself.

Two runs that share a date share files. That coupling, and the fact
that an attempt may die between any two steps and be retried, is where the
difficult behaviour is; `PROJECT.json` lists each hazard at its line.

The repository's own artefacts confirm the behaviours modelled: its Bronze
snapshot of 2025-06-29 holds exactly the first 165 pages of the one of
2025-06-30, which is what a swallowed page error leaves behind, and `airflow.db`
records three manual runs of 2025-07-01, whose rendered fields name one and the
same file, no scheduled run, and `next_dagrun` 2025-07-02 left by a parse of
2025-07-01 20:04, as `Scheduler!Parse` computes it.

## 2. Modules

| Module | Models |
|---|---|
| `PageMath` | the page counts of the hook and of the script |
| `BreweryHook` | one call of `BreweryHook.run()` against an API that changes meanwhile |
| `HookContract` | abstract specification: what the operator relies on when it calls the hook |
| `Transformation` | the data side of `transformation.py`: rows of a directory, inferred columns, `validate_schema` |
| `Aggregation` | the data side of `aggregation.py`: latest date, filter, `get_aggregate` |
| `BreweryDAG` | the composition: runs, task instances, retries, the executor's slot, and each task step by step over the three layers |
| `Lake` | abstract specification: what the three layers promise, day by day, when all runs are of the schedule |
| `Scheduler` | when the schedule creates a run: parses, midnights, outages |
| `ApiExtraction` | the standalone script |
| `SparkContext` | constructor, `getOrCreate`, `stop` and the launch of the JVM, by several threads |
| `SparkSession` | the builder's `getOrCreate`, `newSession` and both kinds of `stop`, by several threads |
| `PythonDaemon` | `daemon.py`: the manager, signals, and the life of the forked processes |
| `PythonWorker` | `main()` of `worker.py`, called for task after task in one process |
| `ExternalMerger` | `ExternalMerger`, with its nested mergers |
| `MC...` | the constants of the TLC runs |
| `BreweryHookProofs` (with the page arithmetic and `ApiExtraction`), `BreweryDAGProofs`, `SchedulerProofs`, `SparkContextProofs`, `SparkSessionProofs`, `PythonDaemonProofs`, `PythonWorkerProofs`, `ExternalMergerProofs` | theorems and proofs |

**BreweryHook.** `listing` is what the API holds, in the order it serves it;
`drift` is a history of how it changed during the call (append, insert, delete),
so that properties can say under which changes they hold. `MetaTotal`,
`MetaNoTotal`, `MetaFails` are the three outcomes of step 1 of `paginate`;
`FetchPage`, `FetchEmptyPage`, `PageFails` those of one turn of the loop.
`pc` ends in the way the call ended: `raised` only by an exception of the meta
request, `pageError` by the caught one of a page request, which *returns*.

**BreweryDAG.** `dagrun` holds the dates of each run, `ti` and `tries` Airflow's
view of the tasks, `at` the place the running task has reached (there is one
slot: `airflow.cfg` selects the SequentialExecutor). Each of `execute`,
`brewery_transformation` and `aggregated_layer` is cut where a kill or another
read of the lake can tell the difference: open / hook returns / one line /
close; validate / drop the old partition / commit the new one / exit; validate /
filter / drop / commit / exit. `AttemptFails` ends an attempt at any of these
places, `TearLine` inside a line. Spark's overwrite deletes before it writes
and its DataFrames are evaluated when written, so `CommitSilver` reads Bronze
again and `CommitGold` reads Silver again.

**Scheduler.** The clock counts days; within a day, `Parse` and `Create` happen
in any order and number. `Parse` is one execution of the DAG file: it sets
`start_date` to now and stores the next interval, which `NextStart` computes as
Airflow's timetable does with `catchup`. `Create` is the scheduler loop, which
reads what the last parse stored; after a `Start` it may come before the first
parse, since the two are separate processes. `Midnight` needs a scheduler that
was up all day to have parsed the file that day (`min_file_process_interval` is
30 seconds). `parsed` is history. Host and schedule are taken to be on one
clock (`default_timezone = utc`). `BreweryDAG` does not say when a scheduled run
is due, only that such runs come in order and after their interval, which is
what `CreatedInOrder` and the guard of `Create` give it.

**Lake.** The state is what a reader of the lake sees: from the days that are
there to their data. `BreweryDAG!Layers` maps to it the Bronze files whose
extraction succeeded, Silver as it is, and the counts of Gold. A day is extracted
once and for all, its Silver partition is only made of that extraction and not
touched once the day is aggregated, and Gold counts the latest Silver partition
or nothing. Retries, kills and the runs themselves are invisible.

**ApiExtraction.** `request_api` turns every failure into `None`, so that a page
is printed or `null` is; without a total the loop is entered with `total_pages`
unbound (`NameError`). Names that the hook has too are prefixed (`script_page_number`
is the script's `page_number`), so that `BreweryHookProofs` extends both modules.

**SparkContext.** `__init__` registers the object under the class lock and
initialises it after giving the lock back; `getOrCreate` holds the lock (an
RLock) throughout. `EnsureInitialized` is `_ensure_initialized`; `InitContext`,
`StartServer`, `Initialized` are the parts of `_do_init` that others can see and
`InitFails` the exception in any of them, after which `__init__` calls `stop()`:
`StopJvm`, `ClearJsc`, `StopServer`, `ClearActive`. `LaunchGateway`, `GatewayUp`,
`GatewayExited` are `launch_gateway`, with the lock held. `program` is chosen at
the start and says which calls a program makes, and how often it may stop one
context; properties say for which programs they hold.

**SparkSession.** `NeedSession` takes the builder's lock, `EndGetOrCreate` gives it
back; between them a context is found or made and a session made around the
JVM's default session or a new one. `getOrCreate` can raise in three places, and
the thread may then call it again: `InitFails` (`SparkContext()` raises because the
gateway exits or `_do_init` fails, and its `stop()` clears what was there), `Fail`
(the JVM refuses a second context, or a `stop()` has cleared the `_jsc` that a new
session needs) and `EndGetOrCreate` (the session is registered, then the JVM
refuses an option). `stop()` holds no lock and has four parts:
stop the JVM's context and clear `_jsc`, unregister, clear the JVM's default,
forget the instantiated session. What `SparkContext` does inside is one step
here. `program` says whether calls of different threads overlap, and whether
a session that was stopped is stopped again. `beside` and `raised` are history:
whether a `stop()` was under way during the call that holds the lock, and why
calls went through `Fail`.

**PythonDaemon.** A pid is free as soon as its process ended (SIGCHLD is ignored).
A forked child inherits that SIGHUP is ignored and restores it only in
`worker()`: `Fork`, `Ack`, `EnterWorker` are the three stages. `Shutdown` hangs up on
the processes of the last stage and leaves through the `finally` clause, which
hangs up again. The JVM is external: it connects, reads a pid, closes a
connection or asks for a kill, and may end at any time.

**PythonWorker.** What outlives a task is in variables (`taskContext`,
`barrierContext`, `resources`, `registry`, `accums`), the rest in `task`. The JVM
sends only the changes of the broadcasts to what it believes the worker to have.
`Process` is the task's function; it may leave input unread, and the JVM may use
the process again only after the end-of-stream marker.

**ExternalMerger.** Whether the memory is above the limit is a choice at each
reading. The list `mergers` is the stack of nested generators: the top one either
hands out partitions or is being filled from the files of the one below. The
combiner of a key is the list of its values, so that a value that is lost,
repeated or out of order shows. `_external_items` is a generator: once it was
begun (`ItemsExternal`), giving it up runs its `finally` clauses (`Close`); a
program that drops it before its first item, or whose item raises in
`mergeValues`, leaves the files that are there (`Abandon`).

Some operators are slightly wrong copies of the definition that follows them,
marked `Mutant`. Each is a plausible bug; putting it in place of the original
makes one property of one run fail, which shows that the property can see it.
They are not part of any specification.

## 3. Runs

| Run | Bounds | Shows |
|---|---|---|
| `hook` | all listings of up to 5 breweries, pages of 2, 2 changes | `TypeOK`; `AppendOnlyComplete`; `NoBreweryTwice`; `Terminates`; `ImplementsContract` |
| `hook_page_error` | the same, no changes | violation of `ReturnsAllBreweries` |
| `dag_scheduled` | 2 scheduled runs, days 0..2, 1 retry | `TypeOK`; `SilverLineage`; `SilverKept`; `GoldLineage`; `GoldNotOlder`; `BronzeImmutable`; `ImplementsLake`; `EveryRunFinishes` |
| `dag_mixed` | 2 runs of either kind, days 0..1, 1 retry | `SilverValidated`; `LatestNotStale`; `GoldCountsBreweries` |
| `sched_outages` | 8 days, 2 stops | `TypeOK`; `OnlyMissedDays`; `CreatedInOrder` |
| `sched_never` | 5 days, no stop | violation of `DailyRun` |
| `api_script` | totals 0..9, pages of 2 | `EveryRecordAskedFor`; `RunsToTheEnd` |
| `spark_context` | 2 threads, 3 contexts, stopped up to twice | `TypeOK`; `SingletonRegistered`; `CleanedUp`; `ReturnedInitialized`; `LockReleased` |
| `spark_session` | 2 threads, 4 sessions, 3 contexts | `TypeOK`; `OfOneContext`; `ReturnedRuns`; `NoNeedlessFailure`; `DefaultKept` |
| `daemon` | 3 connections, 2 pids | `TypeOK`; `NoOrphans` |
| `worker` | 3 tasks, 2 broadcasts, up to 2 resources | `BroadcastsOfTask`; `ContextOfTask`; `AccumulatorsOfTask`; `ReusedAtEndOfStream` |
| `merger` | 3 values under 2 keys, 2 partitions, at most 4 in total | `HandedOutOnceComplete`; `DiskClean`; `RecursionBounded` |

*Why the bounds are enough.* Five records in pages of two give zero, one, two
and three pages, full and partial last pages, and with two changes a listing
that loses a whole page while it is read. Two runs are what it takes for files
to be shared (same day by hand, a manual run of day `d` and the scheduled run
of day `d-1` in Bronze, both of one `ds` in Silver and Gold) and for one run to
pass another. Days 0..2 hold the two intervals of two scheduled runs; 0..1 hold
every pair of dates that collide. The extraction returns nothing, a page that
fails the schema check on its own, a page that passes it, or both
(`dag_scheduled` leaves out the third of these four results). A week with two
stops has two outages, each of several whole days, and runs that catch up after
the first while the second begins. One retry (the code has two) is enough for
an attempt to find what an attempt before it left. Totals of 0..9 have every
remainder and up to five pages. In `spark_context` and `spark_session` two threads
are what it takes for one call to overtake another; three contexts are an old
one, the one that replaced it, and one made after that was unregistered. In
`daemon` three connections for two pids make a pid be used again and a fork find
none free. Three tasks let a broadcast be added, removed and added again, and a
barrier task come before and after others. In `merger` three values under two
keys are split, spilled and split once more (2 * 2 reaches the limit of 4).
The runs whose bound ends (identifiers used up, the last day over) may stop, so
deadlock is not checked. `dag_mixed` uses symmetry of the run identifiers; no
other run does.

*What the violations show.* They are disagreements of the code with its own
documentation; `PROJECT.json` quotes the lines.

- While the scheduler is up the schedule creates no run at all: only a day on
  which it was down from midnight to midnight can get one, and only if the
  scheduler loop comes before the first parse after the restart.
- A page request that fails is not an error of the extraction: the rest of the
  listing is silently missing, and the DAG's retries never apply.

*What the conditions of the properties show.* Several properties hold under a
condition that they state. Without it each is false of the code, and the
condition is the finding:

- `BronzeImmutable`: a second manual run of a day empties the file of the first
  (`dag_scheduled` has runs of the schedule only).
- `GoldCountsBreweries`: a manual run and the scheduled run of the day before have
  different `ds` and one `extract_date`; the transformation reads both files.
- `GoldNotOlder`: Gold is never made of a day before its own; it may be made of a
  later one, because the filter takes the latest date of the whole table. An
  error while that date is looked up (`FilterError`) is written as an empty Gold
  and the task succeeds.
- `extract_date` is a property of the run (`data_interval_end`) and not the day of
  the extraction: a run that is late, or retried past midnight, is filed under
  an earlier day.
- `EveryRunFinishes`: a peer that never answers holds the executor's only slot.
- `RunsToTheEnd`: without a total the script ends with a `NameError`.
- `SingletonRegistered`, `CleanedUp`, `NoNeedlessFailure`, `DefaultKept`: a second `stop()`
  of an old context or session unregisters the one that replaced it.
- `ReturnedInitialized`: `getOrCreate` returns the context that another thread's
  constructor is still initialising.
- `ReturnedRuns`, `NoNeedlessFailure`: `stop()` of a session does not take the builder's
  lock. A `getOrCreate` that it runs beside may return a session that was stopped,
  or raise the `AttributeError` of a cleared `_jsc`; `NoNeedlessFailure` says that this
  is the only harm, and that a call with no `stop()` beside it is not affected.
- `LockReleased`: a JVM that exits with code 0 before it wrote its port is waited
  for without end.
- `DiskClean`: an iterator that is dropped before its first item leaves the files
  that `mergeValues` spilled, and so does an item that raises in `mergeValues`.
- `NoOrphans` says that workers end some time after the JVM, not that they end
  with the daemon: a child that was just forked does not hear the SIGHUP. A pid
  that the JVM asks to be killed may by then be another worker's, and the
  `finally` clause turns the exit code 0 into 1; nothing is claimed of either.
- `ContextOfTask`: of several resources a task sees the last one only.

## 4. Fairness

`BreweryHook!Spec` assumes `WF_vars(Paginate)`: the call is sequential Python and
each request ends in an answer or an exception. Neither is bounded by a timeout
in the code (`brewery_hook.py:43`, `default_task_execution_timeout` is empty), so
this is an assumption about the peer and the network. Nothing is assumed of the
API's changes. `BreweryDAG!Spec` assumes `WF_vars(at # "opened" /\ Progress)`: the
scheduler keeps starting and failing tasks and an attempt goes on or ends, unless
it waits for the hook; `EveryRunFinishes` names the rest of the assumption, that
no request hangs for ever. A single weak fairness condition is enough because
every step of `Progress` brings some run nearer to its end. Nobody has to trigger
a run and the clock need not advance. `Scheduler!Spec`
assumes that time passes and that a scheduler which is up parses and creates;
it is needed for `DailyRun`, whose violation would otherwise only be a clock
that stands still. `ApiExtraction!ScriptSpec` assumes that the script goes on.
`SparkContext!Spec` assumes that a thread inside a call goes on and that the JVM
process writes its port or ends; nobody has to make a call. A thread that waits
for the lock is only helped by its holder going on. `PythonDaemon!Spec` assumes
that the daemon's loop runs, that a worker process goes on, and that the system
closes the sockets of a JVM that is gone. The others have safety properties only.

## 5. Proofs

Every safety property and every action property of a passing run is stated by a
theorem, for all values of the constants.

`BreweryHookProofs` begins with the facts of `ceil` and of page positions (division
with remainder, then non-linear facts one at a time) and, as `SameTotalPages`, that
hook and script ask for the same number of pages. From `HookAssumption` for the hook,

- `HookTypeCorrect`: `TypeOK`.
- `HookComplete`: `AppendOnlyComplete`, which speaks of the end of the call. Its
  inductive form `Extracted` speaks of every turn of the loop: `page_number - 1`
  pages were collected, and each record of those pages is in its place. An append
  leaves the listing before it alone; a page is read from the offset that
  `Position` gives each of its records; `PageInRange` says the range of the loop
  reaches the last counted record.
- `HookNoDuplicates`: `NoBreweryTwice`, by `Behind`: a record read and still
  listed lies before the offset of the next page. Deletions only move it
  further down. While nothing is deleted everything read is still listed,
  so an appended record is a new one.
- `HookImplementsContract`: `ImplementsContract`, under `statusBar` and `resultBar`.
  `PagesFilled` is what it needs beside types: each page collected holds a record
  and at most `PerPage`.
- `ScriptAsksForEveryRecord`: `EveryRecordAskedFor` of the script, from
  `ApiExtractionAssumption`. By `ScriptInv` the pages printed are those below `page_number`, each in its place;
  `ScriptPages` says that the range of the loop ends with the page of the last
  record. (A total of 0, which the hook never divides, is a case of its own.)

From `DAGAssumption`, for any number of runs of both kinds, any number of days,
retries and results of the extraction,

- `DAGTypeCorrect`: `TypeOK`, strengthened by `Attempts`, which ties a task's
  state to its run and to its number of attempts; without it the bound on
  `tries` is not inductive.
- `DAGSilverValidated` and `DAGLatestNotStale`: from `Slot` (at most one running
  instance), which makes what a task read stay what it was until it writes.
  `Validated` carries the schema check from `ValidateBronze` over the drop to the
  commit; `Latest` says whose the date is.

With `ScheduledOnly` (`Kinds = {"scheduled"}`) in addition, what the layers say of
each other: `ScheduledSilverLineage`, `ScheduledSilverKept`, `ScheduledGoldLineage`,
`ScheduledGoldNotOlder`, `ScheduledBronzeImmutable` and the refinement
`ScheduledImplementsLake`. All follow from the invariant `Lineage`, which adds to the
above

- `Dates`: a run's `ds` is no other run's and its `extract_date` the day after, so
  that a file, a directory and a partition have one writer (`PathOwner`,
  `DirectoryIsFile`). A manual run breaks this, which is why the theorems need the
  premise;
- `Order`: a task that was started has a successful one before it, and a success
  is final (`TasksStep`, `SuccessKept`);
- `Files`: every file belongs to a run, and is complete while its extraction writes
  it and after that; `ExtractionKept` says that nothing changes it again;
- `Silver`: a partition holds the rows of the finished extraction of its day, and is
  there from its commit to the next attempt;
- `Golden`: the day of a Gold partition was transformed, and what was counted is the
  extraction of a day not older. `LatestOnly` makes the latest date one date, and
  `Validated` is needed because only a partition with rows counts as a date.

The refinement then has one lemma for each step that a reader of the lake sees
(`LakeExtract`, `LakeTransform`, `LakeDropSilver`, `LakeAggregate`, `LakeDropGold`), and
`BronzeBarSame` for the others.

`DAGGoldCountsBreweries` (`GoldCountsBreweries`) is for runs of both kinds again. Its
premise `SteadyListing` says that there are finitely many breweries and that one
extraction does not return the same one twice. `HookNoDuplicates` gives the second
part for a listing that only shrinks or only grows at its end while it is read;
when a record is inserted before the page being read, one may be counted twice.
By `BronzeOnce` no file repeats a brewery, not even one that a dead attempt left
half-written, and what is still to be written repeats nothing of what is there;
by `SilverOnce` a partition is then at most one listing, unless two days share a
directory; `Latest` and `LatestOnly` of above say that one partition is counted.

From `SchedulerAssumption`, for any length of time and any pattern of outages,
`SchedulerTypeCorrect`, `NoRunOnParsedDays` (`OnlyMissedDays`) and
`RunsCreatedInOrder` (`CreatedInOrder`), all from `Ahead`: no parse was later than
the day of `start_date`, which lies before the next interval, and every interval
that had its run lies before it too. `NextStartIs` replaces the `CHOOSE` by the
value once that value is known to satisfy it.

From `SparkSessionAssumption`, for any number of threads, sessions and contexts,
`SessionTypeCorrect`, `SessionOfOneContext`, `SessionReturnedRuns`,
`SessionNoNeedlessFailure` and `SessionDefaultKept`, from `SessionInv`. Its parts are `OneBusy` (in a program without
overlap one thread is in a call, which is what the missing lock of `stop()` would
have to give), `RegisteredRuns` (the registered context runs unless a `stop()` is
under way), `Stopping` (what a `stop()` has done by each of its places) and, for
programs whose calls overlap, `AloneRegistered` and `Undisturbed`. The first says of
a program that stops nothing twice: a context that runs is the registered one,
at most one `stop()` is about to unregister, the call that holds the lock has it
recorded in `beside`, and a call with none beside it makes its session for a
context that runs. The second, that without overlap no `stop()` is ever beside a
call.

From `SparkContextAssumption`, for any number of threads and contexts,
`ContextTypeCorrect`, `ContextSingleton`, `ContextCleanedUp` and `ContextReturned`. `Locking`
says which thread is in the critical section; `OneOwner` that one thread at a time
initialises or stops a context; `Parts` how far that thread's context has come
(`active`, `jvm`, `_jsc`, the accumulator server).

From `PythonDaemonAssumption`, `DaemonTypeCorrect`: types, and that two workers never
serve one connection, by `Served`: a connection in the backlog is no worker's.

From `PythonWorkerAssumption`, for any number of tasks, broadcasts and resources,
`WorkerBroadcasts`, `WorkerContext`, `WorkerAccumulators` and `WorkerReused`. `Registry` ties the
worker's broadcasts to what the JVM believes them to be and to the difference it
has sent, at each place of the task; `Contexts` and `Accumulated` follow the two
contexts, the resources and the accumulators; `Handshake` the end-of-stream marker.

From `ExternalMergerAssumption`, for any input, number of partitions and limit, any
hash at each depth and however the memory reads, `MergerInvariant` and from it
`MergerHandedOutOnceComplete` (`HandedOutOnceComplete`) and `MergerDiskClean`
(`DiskClean`). The property speaks of what was handed out, and says nothing of
where a value is before that. The invariant `IInv` says it for each dict in memory
and in a file: `DictOf(items, d, K, a, b)`, the dict holds exactly the keys of `K`
that occur in the items `a + 1` to `b`, each with the list of its values there.
Adjacent stretches merge to one (`DictMerge`), a stretch splits by the hash of the
key (`Part`), and so no induction over the values is needed. Where a
stretch ends is where a spill happened, which no variable records; the invariant
therefore says that there are cuts, `\E cut \in CutSet : Contents(cut)`, and each
step that spills names the next one. On top of that,

- `Stored`: the files of the n-th merger are the stretches between its cuts, for
  the keys it `Owned`, which are those of one partition of each merger below;
- `Waiting`: a merger below the top one has nothing in memory that it still needs;
- `Reading` and `Filling`: the top merger has in memory the files read so far of
  its own partition, or of the partition of the merger below;
- `Outcome`: what was handed out is complete for the keys of the partitions that are
  through (`HandedOut`), and the files are gone when the iterator is exhausted or
  given up after it was begun; of one that never was begun nothing is claimed. That
  the files of a partition may be removed (`YieldPartition`, `Finish`) is the step that needs the
  directories of the mergers to be different (`Directory`).

`IInv` was checked by TLC on the bounds of the run `merger` before it was proved.
`MergerRecursionBounded` (`RecursionBounded`) follows from `Scaled`: the scale of the n-th
merger is `Partitions ^ (n - 1)`. The provers know nothing of `^`; the premise `PowerLaws`
is its definition on the naturals, `p ^ 0 = 1` and `p ^ (n + 1) = (p ^ n) * p`.

Only model-checked:

- liveness (`Terminates`, `EveryRunFinishes`, `RunsToTheEnd`, `LockReleased`, `NoOrphans`):
  the prover has no rules for fairness.

What no theorem says: that `Transformation` and `Aggregation` compute what the Spark
jobs do is by reading, as everywhere the correspondence of model and code is.

## 6. Plan

1. `ExternalSorter` and `ExternalGroupBy` of `shuffle.py`, beside `ExternalMerger`: the
   sorter's runs on disk, the groups that are kept or sorted.
2. The accumulator server (`accumulators.py`) with the driver's sums: which updates
   arrive when the JVM or the server thread ends.

## 7. Not modelled

*The pipeline.* URL building, logging, the half-second pause, parsing of
arguments, the order of Gold's rows and Parquet itself. The `retry_delay` (a retry
may start at any later time). Clearing finished tasks by hand in the Airflow
interface. The unit tests (their data frames are constants), the notebook and the
web server's settings have no state of their own.

*pyspark.* Of the bundled distribution only what keeps state in Python and decides
what happens next is modelled: the driver's contexts and sessions, the daemon, the
worker and the merger of `shuffle.py`. By far the largest part of
`python/pyspark/` are wrappers that pass a call to the JVM and hold one reference
(`sql/functions.py`, `sql/dataframe.py`, `ml/`, `mllib/`, `streaming/`, `pandas/`),
tables of types and parameters, documentation and tests; there is no control in
them that a model could check, and what they call is Scala code that is not in
the repository (only its `jar` files are). For that reason the modules cover a
small share of the distribution's lines. Of the modelled parts are left out:
profiles, Spark's configuration and file distribution in `SparkContext`;
`createDataFrame`; what an option of a session does (that one is refused is
modelled), `SparkSession(sc)` called by a program itself, and a JVM that dies
during other calls than the start of a context; the evaluation types of UDFs and
the chaining of functions in the worker; encryption and the authentication
handshake; Windows, where there is no daemon; `ExternalSorter` and
`ExternalGroupBy`.
