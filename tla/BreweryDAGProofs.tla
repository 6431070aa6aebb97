-------------------------- MODULE BreweryDAGProofs --------------------------
(***************************************************************************)
(* Theorems about BreweryDAG for any number of runs, days and retries and  *)
(* whatever the extraction returns.                                        *)
(***************************************************************************)
EXTENDS BreweryDAG, SequenceTheorems, FiniteSetTheorems, TLAPS

-----------------------------------------------------------------------------
(***************************************************************************)
(* Types.  TypeOK is inductive together with what ties a task instance to  *)
(* its run and to its attempts.                                            *)
(***************************************************************************)
Attempts ==
  \A r \in Runs, t \in Tasks :
    /\ ti[r][t] # "none" => r \in DOMAIN dagrun
    /\ ti[r][t] = "none" => tries[r][t] = 0
    /\ ti[r][t] = "up_for_retry" => tries[r][t] <= Retries

TypeInv == TypeOK /\ Attempts

(* The rows Spark reads from a Bronze directory.                           *)
LEMMA ReadJsonType ==
  ASSUME TypeOK, NEW e
  PROVE  ReadJson(bronze, e) \in SUBSET Rows
  <1> SUFFICES ASSUME NEW path \in DOMAIN bronze, NEW i \in 1..Len(bronze[path]),
                      NEW rec \in bronze[path][i]
               PROVE  <<path[2], i, rec>> \in Rows
    BY DEF ReadJson, FileRows
  <1>1. path[2] \in Days /\ bronze[path] \in Seq(SUBSET Records)
    BY DEF TypeOK
  <1>2. i \in Nat /\ rec \in Records
    BY <1>1
  <1> QED
    BY <1>1, <1>2 DEF Rows

(* A new run: only dagrun changes, and only for a new identifier.          *)
LEMMA CreateRunType ==
  ASSUME TypeInv, NEW r \in Runs, NEW kind, NEW ds \in Days, NEW e \in Days,
         CreateRun(r, kind, ds, e)
  PROVE  TypeInv'
  <1>1. /\ DOMAIN dagrun' = DOMAIN dagrun \union {r}
        /\ dagrun'[r] = [kind |-> kind, ds |-> ds, extract_date |-> e]
        /\ \A s \in DOMAIN dagrun \ {r} : dagrun'[s] = dagrun[s]
        /\ kind \in Kinds
    <2> DEFINE new == [kind |-> kind, ds |-> ds, extract_date |-> e]
    <2>1. dagrun' = Put(dagrun, r, new) /\ kind \in Kinds
      BY DEF CreateRun
    <2> HIDE DEF new
    <2>2. /\ DOMAIN dagrun' = DOMAIN dagrun \union {r}
          /\ dagrun'[r] = new
          /\ \A s \in DOMAIN dagrun \ {r} : dagrun'[s] = dagrun[s]
      BY <2>1 DEF Put
    <2> QED
      BY <2>1, <2>2 DEF new
  <1>2. UNCHANGED <<today, tries, ti, at, pages, latest, bronze, silver, gold>>
    BY DEF CreateRun, local, lake
  <1>3. TypeOK'
    BY <1>1, <1>2 DEF TypeInv, TypeOK
  <1>4. Attempts'
    BY <1>1, <1>2 DEF TypeInv, Attempts
  <1> QED
    BY <1>3, <1>4 DEF TypeInv

LEMMA StartTaskType ==
  ASSUME TypeInv, NEW r \in Runs, NEW t \in Tasks, StartTask(r, t)
  PROVE  TypeInv'
  <1> USE DAGAssumption
  <1>1. tries[r][t] \in 0..Retries
    BY DEF StartTask, TypeInv, TypeOK, Attempts
  <1>2. /\ ti' \in [Runs -> [Tasks -> States]]
        /\ tries' \in [Runs -> [Tasks -> 0..(Retries + 1)]]
        /\ at' \in Places
    BY <1>1 DEF StartTask, TypeInv, TypeOK, States, Places
  <1>3. TypeOK'
    BY <1>2 DEF StartTask, local, lake, TypeInv, TypeOK
  <1>4. Attempts'
    BY DEF StartTask, TypeInv, TypeOK, Attempts, States
  <1> QED
    BY <1>3, <1>4 DEF TypeInv

(* However an attempt ends, the slot is free and the rest is typed.        *)
LEMMA EndAttemptType ==
  ASSUME TypeInv, NEW r \in Runs, NEW t \in Tasks, NEW state \in Finished \union {"up_for_retry"},
         ti[r][t] = "running", state = "up_for_retry" => tries[r][t] <= Retries,
         EndAttempt(r, t, state)
  PROVE  /\ Attempts'
         /\ ti' \in [Runs -> [Tasks -> States]]
         /\ UNCHANGED <<today, dagrun, tries>>
         /\ at' \in Places /\ pages' \in Seq(Pages) /\ latest' \in SUBSET Days
  <1>1. /\ ti' = [ti EXCEPT ![r][t] = state]
        /\ at' = "idle" /\ pages' = <<>> /\ latest' = {}
        /\ UNCHANGED <<today, dagrun, tries>>
    BY DEF EndAttempt, airflow
  <1>2. ti' \in [Runs -> [Tasks -> States]]
    BY <1>1 DEF TypeInv, TypeOK, States, Finished
  <1>3. Attempts'
    BY <1>1 DEF TypeInv, TypeOK, Attempts, Finished, States
  <1> QED
    BY <1>1, <1>2, <1>3 DEF Places

LEMMA FailAttemptType ==
  ASSUME TypeInv, NEW r \in Runs, NEW t \in Tasks, ti[r][t] = "running", FailAttempt(r, t)
  PROVE  /\ Attempts'
         /\ ti' \in [Runs -> [Tasks -> States]]
         /\ UNCHANGED <<today, dagrun, tries>>
         /\ at' \in Places /\ pages' \in Seq(Pages) /\ latest' \in SUBSET Days
  <1>1. CASE tries[r][t] <= Retries
    BY <1>1, EndAttemptType DEF FailAttempt, Finished
  <1>2. CASE ~(tries[r][t] <= Retries)
    BY <1>2, EndAttemptType DEF FailAttempt, Finished
  <1> QED
    BY <1>1, <1>2

LEMMA BronzePathType ==
  ASSUME TypeInv, NEW r \in Runs, NEW t \in Tasks, ti[r][t] = "running"
  PROVE  BronzePath(r) \in Days \X Days /\ dagrun[r].ds \in Days
  BY DEF TypeInv, TypeOK, Attempts, BronzePath

LEMMA ExtractType ==
  ASSUME TypeInv, NEW r \in Runs, Extract(r)
  PROVE  TypeInv'
  <1> USE DAGAssumption DEF TypeInv, InTask, Places
  <1> DEFINE t == "task_brewery"
  <1>1. t \in Tasks /\ ti[r][t] = "running"
    BY DEF Extract, OpenBronze, HookReturns, WriteLine, TearLine, CloseBronze, Tasks
  <1>2. BronzePath(r) \in Days \X Days
    BY <1>1, BronzePathType
  <1>3. CASE OpenBronze(r)
    <2>1. /\ bronze' = Put(bronze, BronzePath(r), <<>>) /\ at' \in Places
          /\ UNCHANGED <<today, dagrun, tries, ti, pages, latest, silver, gold>>
      BY <1>3 DEF OpenBronze, airflow, local
    <2>2. /\ DOMAIN bronze' \subseteq Days \X Days
          /\ \A p \in DOMAIN bronze' : bronze'[p] \in Seq(SUBSET Records)
      BY <1>2, <2>1 DEF Put, TypeOK
    <2> QED
      BY <2>1, <2>2 DEF TypeOK, Attempts
  <1>4. CASE HookReturns(r)
    BY <1>4 DEF HookReturns, airflow, lake, TypeOK, Attempts
  <1>5. ASSUME NEW line \in SUBSET Records,
               bronze' = [bronze EXCEPT ![BronzePath(r)] = Append(@, line)]
        PROVE  /\ DOMAIN bronze' \subseteq Days \X Days
               /\ \A p \in DOMAIN bronze' : bronze'[p] \in Seq(SUBSET Records)
    BY <1>5 DEF TypeOK
  <1>6. CASE WriteLine(r)
    <2>1. Head(pages) \in SUBSET Records /\ Tail(pages) \in Seq(Pages)
      BY <1>6 DEF WriteLine, TypeOK, Pages, Records
    <2> QED
      BY <1>5, <1>6, <2>1 DEF WriteLine, airflow, TypeOK, Attempts
  <1>7. CASE TearLine(r)
    <2>1. {Corrupt} \in SUBSET Records
      BY DEF Records
    <2> QED
      BY <1>1, <1>5, <1>7, <2>1, FailAttemptType DEF TearLine, TypeOK
  <1>8. CASE CloseBronze(r)
    BY <1>1, <1>8, EndAttemptType DEF CloseBronze, lake, Finished, TypeOK
  <1> QED
    BY <1>3, <1>4, <1>6, <1>7, <1>8 DEF Extract

LEMMA TransformType ==
  ASSUME TypeInv, NEW r \in Runs, Transform(r)
  PROVE  TypeInv'
  <1> USE DAGAssumption DEF TypeInv, InTask, Places
  <1> DEFINE t == "brewery_transform"
  <1>1. t \in Tasks /\ ti[r][t] = "running"
    BY DEF Transform, ValidateBronze, BronzeSchemaError, DropSilver, CommitSilver,
           TransformDone, Tasks
  <1>2. dagrun[r].ds \in Days
    BY <1>1, BronzePathType
  <1>3. CASE ValidateBronze(r)
    BY <1>3 DEF ValidateBronze, airflow, local, lake, TypeOK, Attempts
  <1>4. CASE BronzeSchemaError(r)
    BY <1>1, <1>4, FailAttemptType DEF BronzeSchemaError, lake, TypeOK
  <1>5. CASE DropSilver(r)
    <2>1. /\ DOMAIN silver' \subseteq Days
          /\ \A d \in DOMAIN silver' : silver'[d] \in SUBSET Rows
      BY <1>5 DEF Delete, DropSilver, TypeOK
    <2> QED
      BY <1>5, <2>1 DEF DropSilver, airflow, local, TypeOK, Attempts
  <1>6. CASE CommitSilver(r)
    <2>1. TransformInput(r) \in SUBSET Rows
      BY ReadJsonType DEF TransformInput
    <2>2. /\ DOMAIN silver' \subseteq Days
          /\ \A d \in DOMAIN silver' : silver'[d] \in SUBSET Rows
      <3>1. silver' = Put(silver, dagrun[r].ds, TransformInput(r))
        BY <1>6 DEF CommitSilver
      <3> QED
        BY <1>2, <2>1, <3>1 DEF Put, TypeOK
    <2> QED
      BY <1>6, <2>2 DEF CommitSilver, airflow, local, TypeOK, Attempts
  <1>7. CASE TransformDone(r)
    BY <1>1, <1>7, EndAttemptType DEF TransformDone, lake, Finished, TypeOK
  <1> QED
    BY <1>3, <1>4, <1>5, <1>6, <1>7 DEF Transform

LEMMA AggregateType ==
  ASSUME TypeInv, NEW r \in Runs, Aggregate(r)
  PROVE  TypeInv'
  <1> USE DAGAssumption DEF TypeInv, InTask, Places
  <1> DEFINE t == "brewery_aggregate"
  <1>1. t \in Tasks /\ ti[r][t] = "running"
    BY DEF Aggregate, ValidateSilver, SilverSchemaError, FilterLatest, FilterError,
           DropGold, CommitGold, AggregateDone, Tasks
  <1>2. dagrun[r].ds \in Days
    BY <1>1, BronzePathType
  <1>3. CASE ValidateSilver(r)
    BY <1>3 DEF ValidateSilver, airflow, local, lake, TypeOK, Attempts
  <1>4. CASE SilverSchemaError(r)
    BY <1>1, <1>4, FailAttemptType DEF SilverSchemaError, lake, TypeOK
  <1>5. CASE FilterLatest(r) \/ FilterError(r)
    <2>1. LatestDate(silver) \in SUBSET Days
      BY DEF LatestDate, TypeOK
    <2> QED
      BY <1>5, <2>1 DEF FilterLatest, FilterError, airflow, lake, TypeOK, Attempts
  <1>6. CASE DropGold(r)
    <2>1. /\ DOMAIN gold' \subseteq Days
          /\ \A d \in DOMAIN gold' : gold'[d].src \in SUBSET Days
      BY <1>6 DEF Delete, DropGold, TypeOK
    <2> QED
      BY <1>6, <2>1 DEF DropGold, airflow, local, TypeOK, Attempts
  <1>7. CASE CommitGold(r)
    <2> DEFINE part == [src |-> latest,
                        counts |-> get_aggregate(FilterRows(silver, latest))]
    <2>1. part.src \in SUBSET Days
      BY DEF TypeOK
    <2>2. gold' = Put(gold, dagrun[r].ds, part)
      BY <1>7 DEF CommitGold
    <2> HIDE DEF part
    <2>3. /\ DOMAIN gold' \subseteq Days
          /\ \A d \in DOMAIN gold' : gold'[d].src \in SUBSET Days
      BY <1>2, <2>1, <2>2 DEF Put, TypeOK
    <2> QED
      BY <1>7, <2>3 DEF CommitGold, airflow, local, TypeOK, Attempts
  <1>8. CASE AggregateDone(r)
    BY <1>1, <1>8, EndAttemptType DEF AggregateDone, lake, Finished, TypeOK
  <1> QED
    BY <1>3, <1>4, <1>5, <1>6, <1>7, <1>8 DEF Aggregate

LEMMA EnvironmentType ==
  ASSUME TypeInv, Environment
  PROVE  TypeInv'
  <1> USE DAGAssumption
  <1>1. CASE Midnight
    BY <1>1 DEF Midnight, local, lake, TypeInv, TypeOK, Attempts, Days
  <1>2. ASSUME NEW r \in Runs, TriggerManual(r)
        PROVE  TypeInv'
    BY <1>2, CreateRunType DEF TriggerManual, TypeInv, TypeOK
  <1>3. ASSUME NEW r \in Runs, CreateScheduled(r)
        PROVE  TypeInv'
    <2>1. PICK ds \in Days : ds + 1 <= today /\ CreateRun(r, "scheduled", ds, ds + 1)
      BY <1>3 DEF CreateScheduled
    <2>2. ds + 1 \in Days
      BY <2>1 DEF Days, TypeInv, TypeOK
    <2> QED
      BY <2>1, <2>2, CreateRunType
  <1> QED
    BY <1>1, <1>2, <1>3 DEF Environment

LEMMA TypeStep ==
  ASSUME TypeInv, [Next]_vars
  PROVE  TypeInv'
  <1>1. ASSUME NEW r \in Runs, Extract(r) \/ Transform(r) \/ Aggregate(r)
        PROVE  TypeInv'
    BY <1>1, ExtractType, TransformType, AggregateType
  <1>2. ASSUME NEW r \in Runs, NEW t \in Tasks, StartTask(r, t)
        PROVE  TypeInv'
    BY <1>2, StartTaskType
  <1>3. ASSUME NEW r \in Runs, NEW t \in Tasks, MarkUpstreamFailed(r, t)
        PROVE  TypeInv'
    <2>1. Upstream(t) \subseteq Tasks
      BY DEF Upstream, Tasks
    <2>2. r \in DOMAIN dagrun
      BY <1>3, <2>1 DEF MarkUpstreamFailed, TypeInv, Attempts
    <2>3. ti' \in [Runs -> [Tasks -> States]]
      BY <1>3 DEF MarkUpstreamFailed, TypeInv, TypeOK, States
    <2>4. TypeOK'
      BY <1>3, <2>3 DEF MarkUpstreamFailed, airflow, local, lake, TypeInv, TypeOK
    <2>5. Attempts'
      BY <1>3, <2>2 DEF MarkUpstreamFailed, airflow, TypeInv, TypeOK, Attempts
    <2> QED
      BY <2>4, <2>5 DEF TypeInv
  <1>4. ASSUME NEW r \in Runs, NEW t \in Tasks, AttemptFails(r, t)
        PROVE  TypeInv'
    BY <1>4, FailAttemptType DEF AttemptFails, lake, TypeInv, TypeOK
  <1>5. CASE Environment
    BY <1>5, EnvironmentType
  <1>6. CASE UNCHANGED vars
    BY <1>6 DEF vars, airflow, local, lake, TypeInv, TypeOK, Attempts
  <1> QED
    BY <1>1, <1>2, <1>3, <1>4, <1>5, <1>6 DEF Next, Progress

LEMMA TypeInit == Init => TypeInv
  BY DAGAssumption DEF Init, TypeInv, TypeOK, Attempts, Days, States, Places

(* Type correctness; no task is attempted more than Retries + 1 times.     *)
THEOREM DAGTypeCorrect == Spec => []TypeOK
  <1>1. TypeInv => TypeOK
    BY DEF TypeInv
  <1> QED
    BY <1>1, TypeInit, TypeStep, PTL DEF Spec

-----------------------------------------------------------------------------
(***************************************************************************)
(* The executor's slot.  At most one task instance runs, so what a task    *)
(* read from the lake cannot change under it: both theorems below rest on  *)
(* this and would fail with a parallel executor.                           *)
(***************************************************************************)
Slot ==
  \A r1, r2 \in Runs, t1, t2 \in Tasks :
    ti[r1][t1] = "running" =>
      /\ at # "idle"
      /\ ti[r2][t2] = "running" => r1 = r2 /\ t1 = t2

(* A step of the task instance in the slot.                                *)
Occupies(r, t) ==
  /\ t \in Tasks
  /\ ti[r][t] = "running"
  /\ dagrun' = dagrun
  /\ \/ ti' = ti /\ at' # "idle"
     \/ /\ \E state \in Finished \union {"up_for_retry"} : ti' = [ti EXCEPT ![r][t] = state]
        /\ at' = "idle" /\ latest' = {}

LEMMA FailOccupies ==
  ASSUME NEW r \in Runs, NEW t \in Tasks, ti[r][t] = "running", FailAttempt(r, t)
  PROVE  Occupies(r, t)
  <1>1. CASE tries[r][t] <= Retries
    BY <1>1 DEF FailAttempt, EndAttempt, airflow, Occupies
  <1>2. CASE ~(tries[r][t] <= Retries)
    BY <1>2 DEF FailAttempt, EndAttempt, airflow, Occupies, Finished
  <1> QED
    BY <1>1, <1>2

LEMMA ExtractOccupies ==
  ASSUME NEW r \in Runs, Extract(r)
  PROVE  Occupies(r, "task_brewery") /\ UNCHANGED <<silver, gold>>
                                     /\ (latest' = latest \/ latest' = {})
  <1> USE DEF InTask, Tasks
  <1>1. CASE OpenBronze(r) \/ HookReturns(r) \/ WriteLine(r)
    BY <1>1 DEF OpenBronze, HookReturns, WriteLine, airflow, local, lake, Occupies
  <1>2. CASE TearLine(r)
    BY <1>2, FailOccupies DEF TearLine, FailAttempt, EndAttempt
  <1>3. CASE CloseBronze(r)
    BY <1>3 DEF CloseBronze, EndAttempt, airflow, lake, Occupies, Finished
  <1> QED
    BY <1>1, <1>2, <1>3 DEF Extract

LEMMA TransformOccupies ==
  ASSUME NEW r \in Runs, Transform(r)
  PROVE  Occupies(r, "brewery_transform") /\ UNCHANGED <<bronze, gold>>
                                          /\ (latest' = latest \/ latest' = {})
  <1> USE DEF InTask, Tasks
  <1>1. CASE ValidateBronze(r) \/ DropSilver(r) \/ CommitSilver(r)
    BY <1>1 DEF ValidateBronze, DropSilver, CommitSilver, airflow, local, lake, Occupies
  <1>2. CASE BronzeSchemaError(r)
    BY <1>2, FailOccupies DEF BronzeSchemaError, FailAttempt, EndAttempt, lake
  <1>3. CASE TransformDone(r)
    BY <1>3 DEF TransformDone, EndAttempt, airflow, lake, Occupies, Finished
  <1> QED
    BY <1>1, <1>2, <1>3 DEF Transform

LEMMA AggregateOccupies ==
  ASSUME NEW r \in Runs, Aggregate(r)
  PROVE  Occupies(r, "brewery_aggregate") /\ UNCHANGED <<bronze, silver>>
  <1> USE DEF InTask, Tasks
  <1>1. CASE ValidateSilver(r) \/ FilterLatest(r) \/ FilterError(r)
    BY <1>1 DEF ValidateSilver, FilterLatest, FilterError, airflow, local, lake, Occupies
  <1>2. CASE SilverSchemaError(r)
    BY <1>2, FailOccupies DEF SilverSchemaError, lake
  <1>3. CASE DropGold(r) \/ CommitGold(r)
    BY <1>3 DEF DropGold, CommitGold, airflow, local, Occupies
  <1>4. CASE AggregateDone(r)
    BY <1>4 DEF AggregateDone, EndAttempt, airflow, lake, Occupies, Finished
  <1> QED
    BY <1>1, <1>2, <1>3, <1>4 DEF Aggregate

(* What the steps of the environment leave alone.                          *)
LEMMA EnvironmentKeeps ==
  ASSUME Environment
  PROVE  /\ UNCHANGED <<ti, at, latest, bronze, silver, gold>>
         /\ \A r \in DOMAIN dagrun : r \in DOMAIN dagrun' /\ dagrun'[r] = dagrun[r]
  <1>1. CASE Midnight
    BY <1>1 DEF Midnight, local, lake
  <1>2. ASSUME NEW r, NEW kind, NEW ds, NEW e, CreateRun(r, kind, ds, e)
        PROVE  /\ UNCHANGED <<ti, at, latest, bronze, silver, gold>>
               /\ \A s \in DOMAIN dagrun : s \in DOMAIN dagrun' /\ dagrun'[s] = dagrun[s]
    BY <1>2 DEF CreateRun, local, lake, Put
  <1> QED
    BY <1>1, <1>2 DEF Environment, TriggerManual, CreateScheduled

LEMMA OccupiesSlot ==
  ASSUME TypeInv, Slot, NEW r \in Runs, NEW t, Occupies(r, t)
  PROVE  /\ Slot'
         /\ \A s \in Runs, u \in Tasks :
              ti[s][u] = "running" \/ ti'[s][u] = "running" => s = r /\ u = t
  BY DEF TypeInv, TypeOK, Slot, Occupies, Finished

LEMMA SlotStep ==
  ASSUME TypeInv, Slot, [Next]_vars
  PROVE  Slot'
  <1>1. ASSUME NEW r \in Runs, Extract(r) \/ Transform(r) \/ Aggregate(r)
        PROVE  Slot'
    BY <1>1, ExtractOccupies, TransformOccupies, AggregateOccupies, OccupiesSlot
  <1>2. ASSUME NEW r \in Runs, NEW t \in Tasks, AttemptFails(r, t)
        PROVE  Slot'
    BY <1>2, FailOccupies, OccupiesSlot DEF AttemptFails
  <1>3. ASSUME NEW r \in Runs, NEW t \in Tasks, StartTask(r, t)
        PROVE  Slot'
    BY <1>3 DEF StartTask, Slot, TypeInv, TypeOK
  <1>4. ASSUME NEW r \in Runs, NEW t \in Tasks, MarkUpstreamFailed(r, t)
        PROVE  Slot'
    BY <1>4 DEF MarkUpstreamFailed, Slot, TypeInv, TypeOK
  <1>5. CASE Environment
    BY <1>5, EnvironmentKeeps DEF Slot
  <1>6. CASE UNCHANGED vars
    BY <1>6 DEF vars, Slot
  <1> QED
    BY <1>1, <1>2, <1>3, <1>4, <1>5, <1>6 DEF Next, Progress

-----------------------------------------------------------------------------
(***************************************************************************)
(* What was validated is what is written.                                  *)
(***************************************************************************)
Validated ==
  /\ SilverValidated
  /\ \A r \in Runs :
       ti[r]["brewery_transform"] = "running" /\ at \in {"validated", "dropped"} =>
         r \in DOMAIN dagrun /\ validate_schema(TransformInput(r))

(* A step of another task, or no step of a task: no transformation runs    *)
(* afterwards that did not run before, and its input is what it was.       *)
LEMMA ValidatedElsewhere ==
  ASSUME Validated, UNCHANGED silver,
         \A r \in Runs :
           ti'[r]["brewery_transform"] = "running" /\ at' \in {"validated", "dropped"} =>
             /\ ti[r]["brewery_transform"] = "running" /\ at' = at
             /\ bronze' = bronze
             /\ r \in DOMAIN dagrun => r \in DOMAIN dagrun' /\ dagrun'[r] = dagrun[r]
  PROVE  Validated'
  BY DEF Validated, SilverValidated, TransformInput

LEMMA ValidatedTransform ==
  ASSUME TypeInv, Slot, Validated, NEW r \in Runs, Transform(r)
  PROVE  Validated'
  <1> DEFINE t == "brewery_transform"
  <1> USE DEF InTask
  <1>1. /\ Occupies(r, t) /\ bronze' = bronze /\ dagrun' = dagrun
        /\ ti[r][t] = "running" /\ t \in Tasks
    BY TransformOccupies DEF Occupies, Tasks
  <1>2. \A s \in Runs : ti'[s][t] = "running" => s = r
    BY <1>1, OccupiesSlot
  <1>3. TransformInput(r)' = TransformInput(r) /\ r \in DOMAIN dagrun
    BY <1>1 DEF TransformInput, TypeInv, Attempts
  <1>4. CASE ValidateBronze(r)
    BY <1>1, <1>2, <1>3, <1>4 DEF ValidateBronze, lake, Validated, SilverValidated
  <1>5. CASE BronzeSchemaError(r)
    BY <1>5 DEF BronzeSchemaError, FailAttempt, EndAttempt, lake, Validated, SilverValidated
  <1>6. CASE DropSilver(r)
    <2>1. SilverValidated'
      BY <1>6 DEF DropSilver, Delete, Validated, SilverValidated
    <2> QED
      BY <1>1, <1>2, <1>3, <1>6, <2>1 DEF DropSilver, Validated
  <1>7. CASE CommitSilver(r)
    <2>1. validate_schema(TransformInput(r))
      BY <1>7 DEF CommitSilver, Validated
    <2>2. SilverValidated'
      BY <1>7, <2>1 DEF CommitSilver, Put, Validated, SilverValidated
    <2> QED
      BY <1>7, <2>2 DEF CommitSilver, Validated
  <1>8. CASE TransformDone(r)
    BY <1>8 DEF TransformDone, EndAttempt, lake, Validated, SilverValidated
  <1> QED
    BY <1>4, <1>5, <1>6, <1>7, <1>8 DEF Transform

LEMMA ValidatedStep ==
  ASSUME TypeInv, Slot, Validated, [Next]_vars
  PROVE  Validated'
  <1>1. "brewery_transform" \in Tasks
    BY DEF Tasks
  <1>2. ASSUME NEW r \in Runs, Extract(r)
        PROVE  Validated'
    <2>1. \A s \in Runs : ti'[s]["brewery_transform"] # "running"
      BY <1>1, <1>2, ExtractOccupies, OccupiesSlot
    <2> QED
      BY <1>2, <2>1, ExtractOccupies, ValidatedElsewhere
  <1>3. ASSUME NEW r \in Runs, Aggregate(r)
        PROVE  Validated'
    <2>1. \A s \in Runs : ti'[s]["brewery_transform"] # "running"
      BY <1>1, <1>3, AggregateOccupies, OccupiesSlot
    <2> QED
      BY <1>3, <2>1, AggregateOccupies, ValidatedElsewhere
  <1>4. ASSUME NEW r \in Runs, NEW t \in Tasks, AttemptFails(r, t)
        PROVE  Validated'
    BY <1>4, ValidatedElsewhere DEF AttemptFails, FailAttempt, EndAttempt, lake
  <1>5. ASSUME NEW r \in Runs, NEW t \in Tasks, StartTask(r, t)
        PROVE  Validated'
    BY <1>5, ValidatedElsewhere DEF StartTask, lake
  <1>6. ASSUME NEW r \in Runs, NEW t \in Tasks, MarkUpstreamFailed(r, t)
        PROVE  Validated'
    BY <1>1, <1>6, ValidatedElsewhere DEF MarkUpstreamFailed, airflow, lake, TypeInv, TypeOK
  <1>7. CASE Environment
    BY <1>7, EnvironmentKeeps, ValidatedElsewhere
  <1>8. CASE UNCHANGED vars
    BY <1>8, ValidatedElsewhere DEF vars, airflow, lake
  <1> QED
    BY <1>2, ValidatedTransform, <1>3, <1>4, <1>5, <1>6, <1>7, <1>8 DEF Next, Progress

LEMMA SlotInit == Init => Slot /\ Validated
  BY DEF Init, Slot, Validated, SilverValidated

(* Every Silver partition has all the expected columns, whichever runs     *)
(* wrote into the Bronze directory it was read from.                       *)
THEOREM DAGSilverValidated == Spec => []SilverValidated
  <1> DEFINE IInv == TypeInv /\ Slot /\ Validated
  <1>1. Init => IInv
    BY TypeInit, SlotInit
  <1>2. IInv /\ [Next]_vars => IInv'
    BY TypeStep, SlotStep, ValidatedStep
  <1>3. IInv => SilverValidated
    BY DEF Validated
  <1> QED
    BY <1>1, <1>2, <1>3, PTL DEF Spec

-----------------------------------------------------------------------------
(***************************************************************************)
(* The date found by the filter is the latest one until the write is over. *)
(***************************************************************************)
Latest ==
  latest # {} =>
    /\ latest = LatestDate(silver)
    /\ \E r \in Runs : ti[r]["brewery_aggregate"] = "running"

LEMMA LatestElsewhere ==
  ASSUME TypeInv, Slot, Latest, NEW r \in Runs, NEW t \in Tasks \ {"brewery_aggregate"},
         Occupies(r, t), latest' = latest \/ latest' = {}
  PROVE  Latest'
  <1>1. "brewery_aggregate" \in Tasks
    BY DEF Tasks
  <1>2. \A s \in Runs : ti[s]["brewery_aggregate"] # "running"
    BY <1>1, OccupiesSlot
  <1> QED
    BY <1>2 DEF Latest

LEMMA LatestStep ==
  ASSUME TypeInv, Slot, Latest, [Next]_vars
  PROVE  Latest'
  <1>1. /\ "task_brewery" \in Tasks \ {"brewery_aggregate"}
        /\ "brewery_transform" \in Tasks \ {"brewery_aggregate"}
        /\ "brewery_aggregate" \in Tasks
    BY DEF Tasks
  <1>2. ASSUME NEW r \in Runs, Extract(r)
        PROVE  Latest'
    BY <1>1, <1>2, ExtractOccupies, LatestElsewhere
  <1>3. ASSUME NEW r \in Runs, Transform(r)
        PROVE  Latest'
    BY <1>1, <1>3, TransformOccupies, LatestElsewhere
  <1>4. ASSUME NEW r \in Runs, Aggregate(r)
        PROVE  Latest'
    <2>1. CASE FilterLatest(r) \/ FilterError(r)
      BY <2>1 DEF FilterLatest, FilterError, InTask, lake, Latest
    <2>2. CASE ValidateSilver(r) \/ DropGold(r) \/ CommitGold(r)
      BY <2>2 DEF ValidateSilver, DropGold, CommitGold, local, lake, Latest
    <2>3. CASE SilverSchemaError(r) \/ AggregateDone(r)
      BY <2>3 DEF SilverSchemaError, AggregateDone, FailAttempt, EndAttempt, Latest
    <2> QED
      BY <1>4, <2>1, <2>2, <2>3 DEF Aggregate
  <1>5. ASSUME NEW r \in Runs, NEW t \in Tasks, AttemptFails(r, t)
        PROVE  Latest'
    BY <1>5 DEF AttemptFails, FailAttempt, EndAttempt, Latest
  <1>6. ASSUME NEW r \in Runs, NEW t \in Tasks, StartTask(r, t)
        PROVE  Latest'
    <2>1. latest = {}
      BY <1>1, <1>6 DEF StartTask, Slot, Latest
    <2> QED
      BY <1>6, <2>1 DEF StartTask, local, Latest
  <1>7. ASSUME NEW r \in Runs, NEW t \in Tasks, MarkUpstreamFailed(r, t)
        PROVE  Latest'
    <2>1. \A s \in Runs : ti[s]["brewery_aggregate"] = "running"
                          => ti'[s]["brewery_aggregate"] = "running"
      BY <1>1, <1>7 DEF MarkUpstreamFailed, TypeInv, TypeOK
    <2> QED
      BY <1>7, <2>1 DEF MarkUpstreamFailed, local, lake, Latest
  <1>8. CASE Environment
    BY <1>8, EnvironmentKeeps DEF Latest
  <1>9. CASE UNCHANGED vars
    BY <1>9 DEF vars, local, lake, Latest
  <1> QED
    BY <1>2, <1>3, <1>4, <1>5, <1>6, <1>7, <1>8, <1>9 DEF Next, Progress

(* No transformation slips in between the search for the latest date and   *)
(* the write of what was found.                                            *)
THEOREM DAGLatestNotStale == Spec => []LatestNotStale
  <1> DEFINE IInv == TypeInv /\ Slot /\ Latest
  <1>1. Init => IInv
    BY TypeInit, SlotInit DEF Init, Latest
  <1>2. IInv /\ [Next]_vars => IInv'
    BY TypeStep, SlotStep, LatestStep
  <1>3. IInv => LatestNotStale
    BY DEF Latest, LatestNotStale
  <1> QED
    BY <1>1, <1>2, <1>3, PTL DEF Spec
-----------------------------------------------------------------------------
(***************************************************************************)
(* Lineage: what the layers say of each other while all runs are of the    *)
(* schedule.  Three things make it true: the dates of a run are no other   *)
(* run's, so that a file and a partition have one writer; a task starts    *)
(* when the one before it has succeeded, and a success is final; and the   *)
(* one slot.                                                               *)
(***************************************************************************)
ScheduledOnly == Kinds = {"scheduled"}

Dates ==
  \A r \in DOMAIN dagrun :
    /\ dagrun[r].extract_date = dagrun[r].ds + 1
    /\ \A q \in DOMAIN dagrun : dagrun[q].ds = dagrun[r].ds => q = r

LEMMA DatesStep ==
  ASSUME ScheduledOnly, TypeInv, Dates, [Next]_vars
  PROVE  Dates'
  <1>1. ASSUME dagrun' = dagrun
        PROVE  Dates'
    BY <1>1 DEF Dates
  <1>2. ASSUME NEW r \in Runs, NEW ds \in Days,
               \A s \in DOMAIN dagrun : dagrun[s].kind = "scheduled" => dagrun[s].ds < ds,
               CreateRun(r, "scheduled", ds, ds + 1)
        PROVE  Dates'
    <2> DEFINE new == [kind |-> "scheduled", ds |-> ds, extract_date |-> ds + 1]
    <2>1. r \notin DOMAIN dagrun /\ dagrun' = Put(dagrun, r, new)
      BY <1>2 DEF CreateRun
    <2>2. new.ds = ds /\ new.extract_date = ds + 1
      OBVIOUS
    <2> HIDE DEF new
    <2>3. /\ DOMAIN dagrun' = DOMAIN dagrun \union {r}
          /\ dagrun'[r] = new
          /\ \A s \in DOMAIN dagrun : dagrun'[s] = dagrun[s]
      BY <2>1 DEF Put
    <2>4. \A s \in DOMAIN dagrun : dagrun[s].ds # ds
      <3> TAKE s \in DOMAIN dagrun
      <3>1. dagrun[s].kind = "scheduled" /\ dagrun[s].ds \in Days
        BY DEF TypeInv, TypeOK, ScheduledOnly
      <3>2. dagrun[s].ds < ds
        BY <1>2, <3>1
      <3> QED
        BY <3>1, <3>2, DAGAssumption DEF Days
    <2> QED
      BY <2>2, <2>3, <2>4 DEF Dates
  <1>3. CASE Environment
    <2>1. CASE Midnight
      BY <1>1, <2>1 DEF Midnight
    <2>2. ASSUME NEW r \in Runs, TriggerManual(r)
          PROVE  Dates'
      BY <2>2 DEF TriggerManual, CreateRun, ScheduledOnly
    <2>3. ASSUME NEW r \in Runs, CreateScheduled(r)
          PROVE  Dates'
      BY <1>2, <2>3 DEF CreateScheduled
    <2> QED
      BY <1>3, <2>1, <2>2, <2>3 DEF Environment
  <1>4. ASSUME NEW r \in Runs, Extract(r) \/ Transform(r) \/ Aggregate(r)
        PROVE  Dates'
    BY <1>1, <1>4, ExtractOccupies, TransformOccupies, AggregateOccupies DEF Occupies
  <1>5. ASSUME NEW r \in Runs, NEW t \in Tasks,
               StartTask(r, t) \/ MarkUpstreamFailed(r, t) \/ AttemptFails(r, t)
        PROVE  Dates'
    BY <1>1, <1>5 DEF StartTask, MarkUpstreamFailed, AttemptFails, FailAttempt, EndAttempt,
                      airflow
  <1>6. CASE UNCHANGED vars
    BY <1>1, <1>6 DEF vars, airflow
  <1> QED
    BY <1>3, <1>4, <1>5, <1>6 DEF Next, Progress

(* Two runs of the schedule have different files.                          *)
LEMMA PathOwner ==
  ASSUME TypeInv, Dates, NEW q \in DOMAIN dagrun, NEW r \in DOMAIN dagrun,
         \/ BronzePath(q) = BronzePath(r)
         \/ BronzePath(q)[1] = BronzePath(r)[1]
  PROVE  q = r
  <1>1. BronzePath(q)[1] = dagrun[q].extract_date /\ BronzePath(r)[1] = dagrun[r].extract_date
    BY DEF BronzePath
  <1>2. dagrun[q].ds \in Int /\ dagrun[r].ds \in Int
    BY DAGAssumption DEF TypeInv, TypeOK, Days
  <1>3. dagrun[q].extract_date = dagrun[q].ds + 1 /\ dagrun[r].extract_date = dagrun[r].ds + 1
    BY DEF Dates
  <1>4. dagrun[q].ds = dagrun[r].ds
    BY <1>1, <1>2, <1>3
  <1> QED
    BY <1>4 DEF Dates

(* Every step changes the state of one task instance at most, never one    *)
(* that has succeeded, and only lets a task into an attempt when the one   *)
(* before it has succeeded.                                                *)
Started == {"running", "up_for_retry", "success", "failed"}

TaskStep(r, t, state) ==
  /\ ti' = [ti EXCEPT ![r][t] = state]
  /\ ti[r][t] # "success"
  /\ state \in Started =>
       \/ ti[r][t] \in Started
       \/ \A u \in Upstream(t) : ti[r][u] = "success"

LEMMA TasksStep ==
  ASSUME [Next]_vars
  PROVE  ti' = ti \/ \E r \in Runs, t \in Tasks : \E state : TaskStep(r, t, state)
  <1>1. ASSUME NEW r \in Runs, NEW t \in Tasks, Occupies(r, t)
        PROVE  ti' = ti \/ \E state : TaskStep(r, t, state)
    BY <1>1 DEF Occupies, TaskStep, Started
  <1>2. ASSUME NEW r \in Runs, Extract(r) \/ Transform(r) \/ Aggregate(r)
        PROVE  \E t \in Tasks : Occupies(r, t)
    BY <1>2, ExtractOccupies, TransformOccupies, AggregateOccupies DEF Tasks
  <1>3. ASSUME NEW r \in Runs, NEW t \in Tasks, AttemptFails(r, t)
        PROVE  Occupies(r, t)
    BY <1>3, FailOccupies DEF AttemptFails
  <1>4. ASSUME NEW r \in Runs, NEW t \in Tasks, StartTask(r, t)
        PROVE  TaskStep(r, t, "running")
    BY <1>4 DEF StartTask, TaskStep
  <1>5. ASSUME NEW r \in Runs, NEW t \in Tasks, MarkUpstreamFailed(r, t)
        PROVE  TaskStep(r, t, "upstream_failed")
    BY <1>5 DEF MarkUpstreamFailed, TaskStep, Started
  <1>6. CASE Environment
    BY <1>6, EnvironmentKeeps
  <1>7. CASE UNCHANGED vars
    BY <1>7 DEF vars
  <1> QED
    BY <1>1, <1>2, <1>3, <1>4, <1>5, <1>6, <1>7 DEF Next, Progress

LEMMA SuccessKept ==
  ASSUME TypeInv, [Next]_vars, NEW r \in Runs, NEW t \in Tasks, ti[r][t] = "success"
  PROVE  ti'[r][t] = "success"
  <1>1. ASSUME NEW q \in Runs, NEW u \in Tasks, NEW state, TaskStep(q, u, state)
        PROVE  ti'[r][t] = "success"
    BY <1>1 DEF TaskStep, TypeInv, TypeOK
  <1> QED
    BY <1>1, TasksStep

Order ==
  \A r \in Runs :
    /\ ti[r]["brewery_transform"] \in Started => ti[r]["task_brewery"] = "success"
    /\ ti[r]["brewery_aggregate"] \in Started => ti[r]["brewery_transform"] = "success"

LEMMA OrderStep ==
  ASSUME TypeInv, Order, [Next]_vars
  PROVE  Order'
  <1>1. CASE ti' = ti
    BY <1>1 DEF Order
  <1>2. ASSUME NEW q \in Runs, NEW u \in Tasks, NEW state, TaskStep(q, u, state)
        PROVE  Order'
    <2>0. /\ "task_brewery" \in Tasks /\ "brewery_transform" \in Tasks
          /\ "brewery_aggregate" \in Tasks
      BY DEF Tasks
    <2>1. /\ Upstream("brewery_transform") = {"task_brewery"}
          /\ Upstream("brewery_aggregate") = {"brewery_transform"}
      BY DEF Upstream
    <2> SUFFICES ASSUME NEW r \in Runs
                 PROVE  /\ ti'[r]["brewery_transform"] \in Started =>
                             ti'[r]["task_brewery"] = "success"
                        /\ ti'[r]["brewery_aggregate"] \in Started =>
                             ti'[r]["brewery_transform"] = "success"
      BY DEF Order
    <2>2. /\ ti'[r]["task_brewery"] = "success" \/ ti[r]["task_brewery"] # "success"
          /\ ti'[r]["brewery_transform"] = "success" \/ ti[r]["brewery_transform"] # "success"
      BY <2>0, SuccessKept
    <2>3. \A t \in Tasks : ti'[r][t] \in Started =>
            \/ ti[r][t] \in Started
            \/ \A v \in Upstream(t) : ti[r][v] = "success"
      BY <1>2 DEF TaskStep, TypeInv, TypeOK
    <2> QED
      BY <2>0, <2>1, <2>2, <2>3 DEF Order
  <1> QED
    BY <1>1, <1>2, TasksStep

LEMMA OccupiesOthers ==
  ASSUME TypeInv, NEW r \in Runs, NEW t, Occupies(r, t), NEW u \in Tasks \ {t}
  PROVE  \A s \in Runs : ti'[s][u] = ti[s][u]
  <1>1. CASE ti' = ti
    BY <1>1
  <1>2. ASSUME NEW state, ti' = [ti EXCEPT ![r][t] = state]
        PROVE  \A s \in Runs : ti'[s][u] = ti[s][u]
    BY <1>2 DEF Occupies, TypeInv, TypeOK
  <1> QED
    BY <1>1, <1>2 DEF Occupies

(* Bronze: a file belongs to a run, and is complete while its extraction   *)
(* writes it and afterwards.                                               *)
Clean(r) ==
  BronzePath(r) \in DOMAIN bronze /\ bronze[BronzePath(r)] \in Seq(SUBSET Breweries)

Files ==
  /\ \A p \in DOMAIN bronze : \E r \in DOMAIN dagrun : p = BronzePath(r)
  /\ \A r \in Runs :
       \/ ti[r]["task_brewery"] = "success"
       \/ ti[r]["task_brewery"] = "running" /\ at \in {"opened", "writing"}
       => Clean(r)

(* A step that leaves a file alone leaves it clean.                        *)
LEMMA CleanKept ==
  ASSUME NEW r, Clean(r), dagrun'[r] = dagrun[r], BronzePath(r) \in DOMAIN bronze',
         bronze'[BronzePath(r)] = bronze[BronzePath(r)]
  PROVE  Clean(r)'
  BY DEF Clean, BronzePath

(* What an extraction does to the files of the others, and of its own run. *)
LEMMA ExtractBronze ==
  ASSUME TypeInv, NEW r \in Runs, Extract(r)
  PROVE  /\ r \in DOMAIN dagrun /\ dagrun' = dagrun
         /\ DOMAIN bronze' \subseteq DOMAIN bronze \union {BronzePath(r)}
         /\ DOMAIN bronze \subseteq DOMAIN bronze'
         /\ \A p \in DOMAIN bronze \ {BronzePath(r)} : bronze'[p] = bronze[p]
  <1>1. ti[r]["task_brewery"] = "running" /\ dagrun' = dagrun
    BY ExtractOccupies DEF Occupies
  <1>2. r \in DOMAIN dagrun
    BY <1>1 DEF TypeInv, Attempts, Tasks
  <1>3. CASE OpenBronze(r)
    BY <1>1, <1>2, <1>3 DEF OpenBronze, Put
  <1>4. CASE WriteLine(r)
    BY <1>1, <1>2, <1>4 DEF WriteLine
  <1>5. CASE TearLine(r)
    BY <1>1, <1>2, <1>5 DEF TearLine
  <1>6. CASE HookReturns(r) \/ CloseBronze(r)
    BY <1>1, <1>2, <1>6 DEF HookReturns, CloseBronze, lake
  <1> QED
    BY <1>3, <1>4, <1>5, <1>6 DEF Extract

(* The extraction's own file.                                              *)
LEMMA ExtractOwnFile ==
  ASSUME TypeInv, Files, NEW r \in Runs, Extract(r),
         \/ ti'[r]["task_brewery"] = "success"
         \/ ti'[r]["task_brewery"] = "running" /\ at' \in {"opened", "writing"}
  PROVE  Clean(r)'
  <1>1. /\ ti[r]["task_brewery"] = "running" /\ r \in DOMAIN dagrun /\ "task_brewery" \in Tasks
        /\ BronzePath(r)' = BronzePath(r)
    BY ExtractBronze, ExtractOccupies DEF Occupies, BronzePath, Tasks
  <1>2. CASE OpenBronze(r)
    BY <1>1, <1>2 DEF OpenBronze, Put, Clean
  <1>3. at \in {"opened", "writing"} => Clean(r)
    BY <1>1 DEF Files
  <1>4. CASE WriteLine(r)
    <2>1. Head(pages) \in SUBSET Breweries
      BY <1>4 DEF WriteLine, TypeInv, TypeOK, Pages
    <2>2. Clean(r)
      BY <1>3, <1>4 DEF WriteLine, InTask
    <2>3. bronze' = [bronze EXCEPT ![BronzePath(r)] = Append(@, Head(pages))]
      BY <1>4 DEF WriteLine
    <2> QED
      BY <1>1, <2>1, <2>2, <2>3 DEF Clean
  <1>5. CASE TearLine(r)
    <2>1. ti'[r]["task_brewery"] \in {"up_for_retry", "failed"}
      BY <1>1, <1>5 DEF TearLine, FailAttempt, EndAttempt, TypeInv, TypeOK
    <2> QED
      BY <2>1
  <1>6. CASE HookReturns(r) \/ CloseBronze(r)
    <2>1. bronze' = bronze /\ Clean(r)
      BY <1>3, <1>6 DEF HookReturns, CloseBronze, InTask, lake
    <2> QED
      BY <1>1, <2>1 DEF Clean
  <1> QED
    BY <1>2, <1>4, <1>5, <1>6 DEF Extract

(* Steps that are not of an extraction do not touch Bronze, and no         *)
(* extraction gets to a place where its file is open by them.              *)
LEMMA BronzeElsewhere ==
  ASSUME TypeInv, Slot, [Next]_vars, \A r \in Runs : ~Extract(r)
  PROVE  /\ bronze' = bronze
         /\ \A r \in DOMAIN dagrun : r \in DOMAIN dagrun' /\ dagrun'[r] = dagrun[r]
         /\ \A r \in Runs :
              \/ ti'[r]["task_brewery"] = "success"
              \/ ti'[r]["task_brewery"] = "running" /\ at' \in {"opened", "writing"}
              => \/ ti[r]["task_brewery"] = "success"
                 \/ ti[r]["task_brewery"] = "running" /\ at \in {"opened", "writing"}
  <1>0. "task_brewery" \in Tasks
    BY DEF Tasks
  <1>1. ASSUME NEW r \in Runs, Transform(r) \/ Aggregate(r)
        PROVE  /\ UNCHANGED <<bronze, dagrun>>
               /\ \A s \in Runs : /\ ti'[s]["task_brewery"] = ti[s]["task_brewery"]
                                  /\ ti'[s]["task_brewery"] # "running"
    <2>1. PICK t \in Tasks \ {"task_brewery"} : Occupies(r, t) /\ bronze' = bronze
      BY <1>1, TransformOccupies, AggregateOccupies DEF Tasks
    <2>2. \A s \in Runs : ti'[s]["task_brewery"] # "running"
      <3>1. \A s \in Runs, u \in Tasks : ti'[s][u] = "running" => u = t
        BY <2>1, OccupiesSlot
      <3> QED
        BY <1>0, <2>1, <3>1
    <2>3. \A s \in Runs : ti'[s]["task_brewery"] = ti[s]["task_brewery"]
      BY <1>0, <2>1, OccupiesOthers
    <2> QED
      BY <2>1, <2>2, <2>3 DEF Occupies
  <1>2. ASSUME NEW r \in Runs, NEW t \in Tasks, AttemptFails(r, t)
        PROVE  /\ UNCHANGED <<bronze, dagrun>> /\ at' = "idle"
               /\ \A s \in Runs : ti'[s]["task_brewery"] = "success" =>
                                    ti[s]["task_brewery"] = "success"
    BY <1>0, <1>2 DEF AttemptFails, FailAttempt, EndAttempt, airflow, lake, TypeInv, TypeOK
  <1>3. ASSUME NEW r \in Runs, NEW t \in Tasks, StartTask(r, t)
        PROVE  /\ UNCHANGED <<bronze, dagrun>> /\ at' = "start"
               /\ \A s \in Runs : ti'[s]["task_brewery"] = "success" =>
                                    ti[s]["task_brewery"] = "success"
    BY <1>0, <1>3 DEF StartTask, lake, TypeInv, TypeOK
  <1>4. ASSUME NEW r \in Runs, NEW t \in Tasks, MarkUpstreamFailed(r, t)
        PROVE  /\ UNCHANGED <<bronze, dagrun, at>>
               /\ \A s \in Runs : ti'[s]["task_brewery"] \in {"running", "success"} =>
                                    ti[s]["task_brewery"] = ti'[s]["task_brewery"]
    BY <1>0, <1>4 DEF MarkUpstreamFailed, airflow, lake, TypeInv, TypeOK
  <1>5. CASE Environment
    BY <1>5, EnvironmentKeeps
  <1>6. CASE UNCHANGED vars
    BY <1>6 DEF vars, airflow, lake
  <1> QED
    BY <1>1, <1>2, <1>3, <1>4, <1>5, <1>6 DEF Next, Progress

LEMMA FilesStep ==
  ASSUME TypeInv, Slot, Dates, Files, [Next]_vars
  PROVE  Files'
  <1>0. "task_brewery" \in Tasks
    BY DEF Tasks
  <1>1. ASSUME NEW r \in Runs, Extract(r)
        PROVE  Files'
    <2>1. /\ Occupies(r, "task_brewery") /\ r \in DOMAIN dagrun /\ dagrun' = dagrun
          /\ DOMAIN bronze' \subseteq DOMAIN bronze \union {BronzePath(r)}
          /\ DOMAIN bronze \subseteq DOMAIN bronze'
          /\ \A p \in DOMAIN bronze \ {BronzePath(r)} : bronze'[p] = bronze[p]
      BY <1>1, ExtractBronze, ExtractOccupies
    <2>2. \A p \in DOMAIN bronze' : \E s \in DOMAIN dagrun' : p = BronzePath(s)'
      BY <2>1 DEF Files, BronzePath
    <2>3. ASSUME NEW s \in Runs,
                 \/ ti'[s]["task_brewery"] = "success"
                 \/ ti'[s]["task_brewery"] = "running" /\ at' \in {"opened", "writing"}
          PROVE  Clean(s)'
      <3>1. CASE s = r
        BY <1>1, <2>3, <3>1, ExtractOwnFile
      <3>2. CASE s # r
        <4>1. ti'[s]["task_brewery"] # "running"
          BY <1>0, <2>1, <3>2, OccupiesSlot
        <4>2. ti[s]["task_brewery"] = "success"
          BY <1>0, <2>1, <2>3, <3>2, <4>1 DEF Occupies, TypeInv, TypeOK
        <4>3. Clean(s) /\ s \in DOMAIN dagrun
          BY <1>0, <4>2 DEF Files, TypeInv, Attempts
        <4>4. BronzePath(s) # BronzePath(r)
          BY <2>1, <3>2, <4>3, PathOwner
        <4> QED
          BY <2>1, <4>3, <4>4, CleanKept DEF Clean
      <3> QED
        BY <3>1, <3>2
    <2> QED
      BY <2>2, <2>3 DEF Files
  <1>2. ASSUME \A r \in Runs : ~Extract(r)
        PROVE  Files'
    <2>1. /\ bronze' = bronze
          /\ \A r \in DOMAIN dagrun : r \in DOMAIN dagrun' /\ dagrun'[r] = dagrun[r]
      BY <1>2, BronzeElsewhere
    <2>2. \A p \in DOMAIN bronze' : \E s \in DOMAIN dagrun' : p = BronzePath(s)'
      BY <2>1 DEF Files, BronzePath
    <2>3. ASSUME NEW s \in Runs,
                 \/ ti'[s]["task_brewery"] = "success"
                 \/ ti'[s]["task_brewery"] = "running" /\ at' \in {"opened", "writing"}
          PROVE  Clean(s)'
      <3>1. \/ ti[s]["task_brewery"] = "success"
            \/ ti[s]["task_brewery"] = "running" /\ at \in {"opened", "writing"}
        BY <1>2, <2>3, BronzeElsewhere
      <3>2. Clean(s) /\ s \in DOMAIN dagrun
        BY <1>0, <3>1 DEF Files, TypeInv, Attempts
      <3> QED
        BY <2>1, <3>2, CleanKept DEF Clean
    <2> QED
      BY <2>2, <2>3 DEF Files
  <1> QED
    BY <1>1, <1>2

(* What a finished extraction wrote stays, and with it the rows of the day. *)
LEMMA ExtractionKept ==
  ASSUME TypeInv, Slot, Dates, Files, [Next]_vars,
         NEW r \in DOMAIN dagrun, ti[r]["task_brewery"] = "success"
  PROVE  /\ r \in DOMAIN dagrun' /\ dagrun'[r] = dagrun[r]
         /\ ti'[r]["task_brewery"] = "success"
         /\ BronzePath(r) \in DOMAIN bronze'
         /\ bronze'[BronzePath(r)] = bronze[BronzePath(r)]
         /\ FileRows(bronze, BronzePath(r))' = FileRows(bronze, BronzePath(r))
  <1>0. "task_brewery" \in Tasks /\ r \in Runs
    BY DEF Tasks, TypeInv, TypeOK
  <1>1. ti'[r]["task_brewery"] = "success"
    BY <1>0, SuccessKept
  <1>2. BronzePath(r) \in DOMAIN bronze
    BY <1>0 DEF Files, Clean
  <1>3. /\ r \in DOMAIN dagrun' /\ dagrun'[r] = dagrun[r]
        /\ BronzePath(r) \in DOMAIN bronze'
        /\ bronze'[BronzePath(r)] = bronze[BronzePath(r)]
    <2>1. ASSUME NEW q \in Runs, Extract(q)
          PROVE  /\ dagrun' = dagrun /\ BronzePath(r) \in DOMAIN bronze'
                 /\ bronze'[BronzePath(r)] = bronze[BronzePath(r)]
      <3>1. q # r
        BY <2>1, ExtractOccupies DEF Occupies
      <3>2. /\ q \in DOMAIN dagrun /\ dagrun' = dagrun
            /\ DOMAIN bronze \subseteq DOMAIN bronze'
            /\ \A p \in DOMAIN bronze \ {BronzePath(q)} : bronze'[p] = bronze[p]
        BY <2>1, ExtractBronze
      <3>3. BronzePath(r) # BronzePath(q)
        BY <3>1, <3>2, PathOwner
      <3> QED
        BY <1>2, <3>2, <3>3
    <2>2. CASE \A q \in Runs : ~Extract(q)
      BY <1>2, <2>2, BronzeElsewhere
    <2> QED
      BY <2>1, <2>2
  <1>4. BronzePath(r)' = BronzePath(r)
    BY <1>3 DEF BronzePath
  <1>5. FileRows(bronze, BronzePath(r))' = FileRows(bronze, BronzePath(r))
    BY <1>3, <1>4 DEF FileRows
  <1> QED
    BY <1>1, <1>3, <1>5

(* A directory has the one file of its run.                                *)
LEMMA DirectoryIsFile ==
  ASSUME TypeInv, Dates, Files, NEW r \in DOMAIN dagrun, ti[r]["task_brewery"] = "success"
  PROVE  ReadJson(bronze, dagrun[r].extract_date) = FileRows(bronze, BronzePath(r))
  <1>1. BronzePath(r) \in DOMAIN bronze
    BY DEF Files, Clean, TypeInv, TypeOK
  <1>2. BronzePath(r)[1] = dagrun[r].extract_date
    BY DEF BronzePath
  <1>3. {p \in DOMAIN bronze : p[1] = dagrun[r].extract_date} = {BronzePath(r)}
    <2>1. ASSUME NEW p \in DOMAIN bronze, p[1] = dagrun[r].extract_date
          PROVE  p = BronzePath(r)
      <3>1. PICK q \in DOMAIN dagrun : p = BronzePath(q)
        BY DEF Files
      <3> QED
        BY <1>2, <2>1, <3>1, PathOwner
    <2> QED
      BY <1>1, <1>2, <2>1
  <1> QED
    BY <1>3 DEF ReadJson

-----------------------------------------------------------------------------
(***************************************************************************)
(* Silver.                                                                 *)
(***************************************************************************)
(* The rows are those of the finished extraction of day d.                 *)
RowsOf(rows, d) ==
  \E r \in DOMAIN dagrun :
    /\ dagrun[r].ds = d
    /\ ti[r]["task_brewery"] = "success"
    /\ rows = FileRows(bronze, BronzePath(r))

LEMMA RowsOfKept ==
  ASSUME TypeInv, Slot, Dates, Files, [Next]_vars, NEW rows, NEW d, RowsOf(rows, d)
  PROVE  \E r \in DOMAIN dagrun' :
           /\ dagrun'[r].ds = d
           /\ ti'[r]["task_brewery"] = "success"
           /\ rows = FileRows(bronze, BronzePath(r))'
  <1>1. PICK r \in DOMAIN dagrun : /\ dagrun[r].ds = d
                                   /\ ti[r]["task_brewery"] = "success"
                                   /\ rows = FileRows(bronze, BronzePath(r))
    BY DEF RowsOf
  <1>2. /\ r \in DOMAIN dagrun' /\ dagrun'[r] = dagrun[r]
        /\ ti'[r]["task_brewery"] = "success"
        /\ FileRows(bronze, BronzePath(r))' = FileRows(bronze, BronzePath(r))
    BY <1>1, ExtractionKept
  <1> QED
    BY <1>1, <1>2

Silver ==
  /\ \A d \in DOMAIN silver : RowsOf(silver[d], d)
  /\ \A r \in Runs :
       \/ ti[r]["brewery_transform"] = "success"
       \/ ti[r]["brewery_transform"] = "running" /\ at = "committed"
       => dagrun[r].ds \in DOMAIN silver

(* Steps that are not of a transformation.                                 *)
LEMMA SilverElsewhere ==
  ASSUME TypeInv, Slot, [Next]_vars, \A r \in Runs : ~Transform(r)
  PROVE  /\ silver' = silver
         /\ \A r \in DOMAIN dagrun : r \in DOMAIN dagrun' /\ dagrun'[r] = dagrun[r]
         /\ \A r \in Runs :
              \/ ti'[r]["brewery_transform"] = "success"
              \/ ti'[r]["brewery_transform"] = "running" /\ at' = "committed"
              => \/ ti[r]["brewery_transform"] = "success"
                 \/ ti[r]["brewery_transform"] = "running" /\ at = "committed"
  <1>0. "brewery_transform" \in Tasks
    BY DEF Tasks
  <1>1. ASSUME NEW r \in Runs, Extract(r) \/ Aggregate(r)
        PROVE  /\ UNCHANGED <<silver, dagrun>>
               /\ \A s \in Runs : /\ ti'[s]["brewery_transform"] = ti[s]["brewery_transform"]
                                  /\ ti'[s]["brewery_transform"] # "running"
    <2>1. PICK t \in Tasks \ {"brewery_transform"} : Occupies(r, t) /\ silver' = silver
      BY <1>1, ExtractOccupies, AggregateOccupies DEF Tasks
    <2>2. \A s \in Runs : ti'[s]["brewery_transform"] # "running"
      <3>1. \A s \in Runs, u \in Tasks : ti'[s][u] = "running" => u = t
        BY <2>1, OccupiesSlot
      <3> QED
        BY <1>0, <2>1, <3>1
    <2>3. \A s \in Runs : ti'[s]["brewery_transform"] = ti[s]["brewery_transform"]
      BY <1>0, <2>1, OccupiesOthers
    <2> QED
      BY <2>1, <2>2, <2>3 DEF Occupies
  <1>2. ASSUME NEW r \in Runs, NEW t \in Tasks, AttemptFails(r, t)
        PROVE  /\ UNCHANGED <<silver, dagrun>> /\ at' = "idle"
               /\ \A s \in Runs : ti'[s]["brewery_transform"] = "success" =>
                                    ti[s]["brewery_transform"] = "success"
    BY <1>0, <1>2 DEF AttemptFails, FailAttempt, EndAttempt, airflow, lake, TypeInv, TypeOK
  <1>3. ASSUME NEW r \in Runs, NEW t \in Tasks, StartTask(r, t)
        PROVE  /\ UNCHANGED <<silver, dagrun>> /\ at' = "start"
               /\ \A s \in Runs : ti'[s]["brewery_transform"] = "success" =>
                                    ti[s]["brewery_transform"] = "success"
    BY <1>0, <1>3 DEF StartTask, lake, TypeInv, TypeOK
  <1>4. ASSUME NEW r \in Runs, NEW t \in Tasks, MarkUpstreamFailed(r, t)
        PROVE  /\ UNCHANGED <<silver, dagrun, at>>
               /\ \A s \in Runs : ti'[s]["brewery_transform"] \in {"running", "success"} =>
                                    ti[s]["brewery_transform"] = ti'[s]["brewery_transform"]
    BY <1>0, <1>4 DEF MarkUpstreamFailed, airflow, lake, TypeInv, TypeOK
  <1>5. CASE Environment
    BY <1>5, EnvironmentKeeps
  <1>6. CASE UNCHANGED vars
    BY <1>6 DEF vars, airflow, lake
  <1> QED
    BY <1>1, <1>2, <1>3, <1>4, <1>5, <1>6 DEF Next, Progress

LEMMA SilverStep ==
  ASSUME TypeInv, Slot, Dates, Order, Files, Silver, [Next]_vars
  PROVE  Silver'
  <1>0. "brewery_transform" \in Tasks
    BY DEF Tasks
  <1>1. \A rows, d : RowsOf(rows, d) => RowsOf(rows, d)'
    BY RowsOfKept DEF RowsOf
  <1>2. CASE \A r \in Runs : ~Transform(r)
    <2>1. \A r \in Runs : ti[r]["brewery_transform"] # "none" => r \in DOMAIN dagrun
      BY <1>0 DEF TypeInv, Attempts
    <2> QED
      BY <1>1, <1>2, <2>1, SilverElsewhere DEF Silver
  <1>3. ASSUME NEW r \in Runs, Transform(r)
        PROVE  Silver'
    <2>1. /\ Occupies(r, "brewery_transform") /\ dagrun' = dagrun /\ r \in DOMAIN dagrun
          /\ ti[r]["brewery_transform"] = "running"
      BY <1>0, <1>3, TransformOccupies DEF Occupies, TypeInv, Attempts
    <2>2. ASSUME NEW s \in Runs, s # r
          PROVE  /\ ti'[s]["brewery_transform"] # "running"
                 /\ ti'[s]["brewery_transform"] = "success" =>
                      /\ dagrun[s].ds \in DOMAIN silver
                      /\ dagrun[s].ds # dagrun[r].ds
      <3>1. ti'[s]["brewery_transform"] # "running"
        BY <1>0, <2>1, <2>2, OccupiesSlot
      <3>2. ti'[s]["brewery_transform"] = ti[s]["brewery_transform"]
        BY <1>0, <2>1, <2>2 DEF Occupies, TypeInv, TypeOK
      <3>3. ti[s]["brewery_transform"] = "success" =>
              s \in DOMAIN dagrun /\ dagrun[s].ds \in DOMAIN silver
        BY <1>0 DEF TypeInv, Attempts, Silver
      <3> QED
        BY <2>1, <2>2, <3>1, <3>2, <3>3 DEF Dates
    <2>3. /\ ti'[r]["brewery_transform"] = "success" => TransformDone(r)
          /\ ti'[r]["brewery_transform"] = "running" /\ at' = "committed" => CommitSilver(r)
      <3>1. CASE ValidateBronze(r) \/ DropSilver(r) \/ CommitSilver(r)
        BY <2>1, <3>1 DEF ValidateBronze, DropSilver, CommitSilver
      <3>2. CASE BronzeSchemaError(r)
        BY <1>0, <3>2 DEF BronzeSchemaError, FailAttempt, EndAttempt, TypeInv, TypeOK
      <3>3. CASE TransformDone(r)
        BY <3>3 DEF TransformDone, EndAttempt
      <3> QED
        BY <1>3, <3>1, <3>2, <3>3 DEF Transform
    <2>4. CASE ValidateBronze(r) \/ BronzeSchemaError(r) \/ TransformDone(r)
      <3>1. silver' = silver
        BY <2>4 DEF ValidateBronze, BronzeSchemaError, TransformDone, lake
      <3>2. ~CommitSilver(r)
        BY <2>4 DEF ValidateBronze, BronzeSchemaError, TransformDone, CommitSilver, InTask
      <3>3. TransformDone(r) => dagrun[r].ds \in DOMAIN silver
        BY DEF TransformDone, InTask, Silver
      <3> QED
        BY <1>1, <2>1, <2>2, <2>3, <3>1, <3>2, <3>3 DEF Silver
    <2>5. CASE DropSilver(r)
      <3>1. silver' = Delete(silver, dagrun[r].ds)
        BY <2>5 DEF DropSilver
      <3>2. /\ DOMAIN silver' = DOMAIN silver \ {dagrun[r].ds}
            /\ \A d \in DOMAIN silver' : silver'[d] = silver[d]
        BY <3>1 DEF Delete
      <3>3. ~TransformDone(r) /\ ~CommitSilver(r)
        BY <2>5 DEF DropSilver, TransformDone, CommitSilver, InTask
      <3> QED
        BY <1>1, <2>1, <2>2, <2>3, <3>2, <3>3 DEF Silver
    <2>6. CASE CommitSilver(r)
      <3>1. silver' = Put(silver, dagrun[r].ds, TransformInput(r))
        BY <2>6 DEF CommitSilver
      <3>2. /\ DOMAIN silver' = DOMAIN silver \union {dagrun[r].ds}
            /\ silver'[dagrun[r].ds] = TransformInput(r)
            /\ \A d \in DOMAIN silver \ {dagrun[r].ds} : silver'[d] = silver[d]
        BY <3>1 DEF Put
      <3>3. ti[r]["task_brewery"] = "success"
        BY <2>1 DEF Order, Started
      <3>4. RowsOf(TransformInput(r), dagrun[r].ds)
        BY <2>1, <3>3, DirectoryIsFile DEF RowsOf, TransformInput
      <3> QED
        BY <1>1, <2>1, <2>2, <3>2, <3>4 DEF Silver
    <2> QED
      BY <1>3, <2>4, <2>5, <2>6 DEF Transform
  <1> QED
    BY <1>2, <1>3

-----------------------------------------------------------------------------
(***************************************************************************)
(* Gold.                                                                   *)
(***************************************************************************)
(* A partition of day d: the day was transformed, and what was counted is  *)
(* the extraction of a day that is not older.                              *)
GoldOf(part, d) ==
  /\ \E r \in DOMAIN dagrun : dagrun[r].ds = d /\ ti[r]["brewery_transform"] = "success"
  /\ \A s \in part.src :
       /\ s >= d
       /\ \E r \in DOMAIN dagrun :
            /\ dagrun[r].ds = s
            /\ ti[r]["task_brewery"] = "success"
            /\ part.counts = get_aggregate(FileRows(bronze, BronzePath(r)))

Golden == \A d \in DOMAIN gold : GoldOf(gold[d], d)

LEMMA GoldOfKept ==
  ASSUME TypeInv, Slot, Dates, Files, [Next]_vars, NEW part, NEW d, GoldOf(part, d)
  PROVE  GoldOf(part, d)'
  <1>1. PICK r \in DOMAIN dagrun : dagrun[r].ds = d /\ ti[r]["brewery_transform"] = "success"
    BY DEF GoldOf
  <1>2. /\ r \in DOMAIN dagrun' /\ dagrun'[r] = dagrun[r]
        /\ ti'[r]["brewery_transform"] = "success"
    <2>1. r \in Runs /\ "brewery_transform" \in Tasks
      BY DEF TypeInv, TypeOK, Tasks
    <2>2. ti'[r]["brewery_transform"] = "success"
      BY <1>1, <2>1, SuccessKept
    <2>3. r \in DOMAIN dagrun' /\ dagrun'[r] = dagrun[r]
      <3>1. ASSUME NEW q \in Runs, Transform(q)
            PROVE  dagrun' = dagrun
        BY <3>1, TransformOccupies DEF Occupies
      <3> QED
        BY <3>1, SilverElsewhere
    <2> QED
      BY <2>2, <2>3
  <1>3. ASSUME NEW s \in part.src
        PROVE  /\ s >= d
               /\ \E q \in DOMAIN dagrun' :
                    /\ dagrun'[q].ds = s
                    /\ ti'[q]["task_brewery"] = "success"
                    /\ part.counts = get_aggregate(FileRows(bronze, BronzePath(q))')
    <2>1. PICK q \in DOMAIN dagrun :
                 /\ dagrun[q].ds = s
                 /\ ti[q]["task_brewery"] = "success"
                 /\ part.counts = get_aggregate(FileRows(bronze, BronzePath(q)))
      BY DEF GoldOf
    <2>2. /\ q \in DOMAIN dagrun' /\ dagrun'[q] = dagrun[q]
          /\ ti'[q]["task_brewery"] = "success"
          /\ FileRows(bronze, BronzePath(q))' = FileRows(bronze, BronzePath(q))
      BY <2>1, ExtractionKept
    <2> QED
      BY <2>1, <2>2 DEF GoldOf
  <1> QED
    BY <1>1, <1>2, <1>3 DEF GoldOf, get_aggregate

(* The latest date is one date, the only one that is counted.              *)
LEMMA LatestOnly ==
  ASSUME TypeInv, NEW s \in LatestDate(silver)
  PROVE  /\ s \in DOMAIN silver
         /\ FilterRows(silver, LatestDate(silver)) = silver[s]
         /\ \A d \in DOMAIN silver : silver[d] # {} => d <= s
  <1>1. \A d \in DOMAIN silver : d \in Int
    BY DAGAssumption DEF TypeInv, TypeOK, Days
  <1>2. /\ s \in DOMAIN silver
        /\ \A d \in DOMAIN silver : silver[d] # {} => d <= s
        /\ \A t \in LatestDate(silver) : t \in DOMAIN silver /\ s <= t /\ t <= s
    BY DEF LatestDate
  <1>3. LatestDate(silver) = {s}
    BY <1>1, <1>2
  <1> QED
    BY <1>2, <1>3 DEF FilterRows

(* What an aggregation commits.                                            *)
LEMMA CommittedGold ==
  ASSUME TypeInv, SilverValidated, Latest, Order, Silver, NEW r \in Runs, CommitGold(r)
  PROVE  GoldOf([src |-> latest, counts |-> get_aggregate(FilterRows(silver, latest))],
                dagrun[r].ds)
  <1> DEFINE part == [src |-> latest, counts |-> get_aggregate(FilterRows(silver, latest))]
             d == dagrun[r].ds
  <1>1. /\ r \in DOMAIN dagrun /\ ti[r]["brewery_transform"] = "success"
        /\ d \in DOMAIN silver
    BY DEF CommitGold, InTask, Order, Started, Silver, TypeInv, Attempts, Tasks
  <1>2. silver[d] # {}
    <2>1. validate_schema(silver[d])
      BY <1>1 DEF SilverValidated
    <2>2. "id" \in DfColumns(silver[d])
      BY <2>1 DEF validate_schema, expected_columns
    <2> QED
      BY <2>2 DEF DfColumns
  <1>3. part.src = latest /\ part.counts = get_aggregate(FilterRows(silver, latest))
    OBVIOUS
  <1> HIDE DEF part
  <1>4. ASSUME NEW s \in latest
        PROVE  /\ s >= d
               /\ \E q \in DOMAIN dagrun :
                    /\ dagrun[q].ds = s
                    /\ ti[q]["task_brewery"] = "success"
                    /\ part.counts = get_aggregate(FileRows(bronze, BronzePath(q)))
    <2>1. s \in LatestDate(silver) /\ latest = LatestDate(silver)
      BY <1>4 DEF Latest
    <2>2. s \in DOMAIN silver /\ FilterRows(silver, latest) = silver[s] /\ d <= s
      BY <1>1, <1>2, <2>1, LatestOnly
    <2>3. RowsOf(silver[s], s)
      BY <2>2 DEF Silver
    <2>4. s \in Int /\ d \in Int
      BY <1>1, <2>2, DAGAssumption DEF TypeInv, TypeOK, Days
    <2> QED
      BY <1>3, <2>2, <2>3, <2>4 DEF RowsOf
  <1> QED
    BY <1>1, <1>3, <1>4 DEF GoldOf, part

LEMMA GoldenStep ==
  ASSUME TypeInv, Slot, SilverValidated, Latest, Dates, Order, Files, Silver, Golden,
         [Next]_vars
  PROVE  Golden'
  <1>1. \A part, d : GoldOf(part, d) => GoldOf(part, d)'
    BY GoldOfKept DEF GoldOf
  <1>2. CASE gold' = gold
    BY <1>1, <1>2 DEF Golden
  <1>3. ASSUME NEW r \in Runs, DropGold(r)
        PROVE  Golden'
    <2>1. gold' = Delete(gold, dagrun[r].ds)
      BY <1>3 DEF DropGold
    <2> QED
      BY <1>1, <2>1 DEF Golden, Delete
  <1>4. ASSUME NEW r \in Runs, CommitGold(r)
        PROVE  Golden'
    <2> DEFINE part == [src |-> latest, counts |-> get_aggregate(FilterRows(silver, latest))]
    <2>1. gold' = Put(gold, dagrun[r].ds, part)
      BY <1>4 DEF CommitGold
    <2>2. GoldOf(part, dagrun[r].ds)
      BY <1>4, CommittedGold
    <2> HIDE DEF part
    <2>3. /\ DOMAIN gold' = DOMAIN gold \union {dagrun[r].ds}
          /\ gold'[dagrun[r].ds] = part
          /\ \A d \in DOMAIN gold \ {dagrun[r].ds} : gold'[d] = gold[d]
      BY <2>1 DEF Put
    <2> QED
      BY <1>1, <2>2, <2>3 DEF Golden
  <1>5. gold' = gold \/ \E r \in Runs : DropGold(r) \/ CommitGold(r)
    <2>1. ASSUME NEW r \in Runs, Aggregate(r), ~DropGold(r), ~CommitGold(r)
          PROVE  gold' = gold
      BY <2>1 DEF Aggregate, ValidateSilver, SilverSchemaError, FilterLatest, FilterError,
                  AggregateDone, lake
    <2>2. ASSUME NEW r \in Runs, Extract(r) \/ Transform(r)
          PROVE  gold' = gold
      BY <2>2, ExtractOccupies, TransformOccupies
    <2>3. ASSUME NEW r \in Runs, NEW t \in Tasks,
                 StartTask(r, t) \/ MarkUpstreamFailed(r, t) \/ AttemptFails(r, t)
          PROVE  gold' = gold
      BY <2>3 DEF StartTask, MarkUpstreamFailed, AttemptFails, lake
    <2>4. CASE Environment
      BY <2>4, EnvironmentKeeps
    <2>5. CASE UNCHANGED vars
      BY <2>5 DEF vars, lake
    <2> QED
      BY <2>1, <2>2, <2>3, <2>4, <2>5 DEF Next, Progress
  <1> QED
    BY <1>2, <1>3, <1>4, <1>5

-----------------------------------------------------------------------------
(***************************************************************************)
(* The theorems for runs of the schedule.                                  *)
(***************************************************************************)
Lineage ==
  /\ TypeInv /\ Slot /\ Validated /\ Latest
  /\ Dates /\ Order /\ Files /\ Silver /\ Golden

LEMMA LineageInit == Init => Lineage
  <1> SUFFICES ASSUME Init PROVE Lineage
    OBVIOUS
  <1>1. Latest /\ Dates /\ Order /\ Files /\ Silver /\ Golden
    BY DEF Init, Latest, Dates, Order, Started, Files, Silver, Golden, Tasks
  <1> QED
    BY <1>1, TypeInit, SlotInit DEF Lineage

LEMMA LineageStep == ScheduledOnly /\ Lineage /\ [Next]_vars => Lineage'
  <1> SUFFICES ASSUME ScheduledOnly, Lineage, [Next]_vars PROVE Lineage'
    OBVIOUS
  <1> USE DEF Lineage
  <1>1. TypeInv' /\ Slot' /\ Validated' /\ Latest'
    BY TypeStep, SlotStep, ValidatedStep, LatestStep
  <1>2. Dates' /\ Order' /\ Files'
    BY DatesStep, OrderStep, FilesStep
  <1>3. Silver' /\ Golden'
    BY SilverStep, GoldenStep DEF Validated
  <1> QED
    BY <1>1, <1>2, <1>3

LEMMA LineageInvariant ==
  ASSUME ScheduledOnly
  PROVE  Spec => []Lineage
  <1>1. Lineage /\ [Next]_vars => Lineage'
    BY LineageStep
  <1> QED
    BY <1>1, LineageInit, PTL DEF Spec

(* With runs of the schedule only, a Silver partition holds exactly the    *)
(* rows of the one Bronze file its run extracted, and no torn line.        *)
THEOREM ScheduledSilverLineage ==
  ASSUME ScheduledOnly
  PROVE  Spec => []SilverLineage
  <1>1. Lineage => SilverLineage
    <2> SUFFICES ASSUME Lineage, NEW d \in DOMAIN silver
                 PROVE  /\ \A row \in silver[d] : row[3] \in Breweries
                        /\ RowsOf(silver[d], d)
      BY DEF SilverLineage, RowsOf
    <2>1. PICK r \in DOMAIN dagrun : /\ dagrun[r].ds = d
                                     /\ ti[r]["task_brewery"] = "success"
                                     /\ silver[d] = FileRows(bronze, BronzePath(r))
      BY DEF Lineage, Silver, RowsOf
    <2>2. bronze[BronzePath(r)] \in Seq(SUBSET Breweries)
      BY <2>1 DEF Lineage, Files, Clean, TypeInv, TypeOK
    <2>3. \A row \in FileRows(bronze, BronzePath(r)) : row[3] \in Breweries
      BY <2>2 DEF FileRows
    <2> QED
      BY <2>1, <2>3 DEF Lineage, Silver
  <1> QED
    BY <1>1, LineageInvariant, PTL

(* With runs of the schedule only, the partition of a finished             *)
(* transformation is there, whatever is dropped meanwhile.                 *)
THEOREM ScheduledSilverKept ==
  ASSUME ScheduledOnly
  PROVE  Spec => []SilverKept
  <1>1. Lineage => SilverKept
    BY DEF Lineage, Silver, SilverKept, TypeInv, TypeOK
  <1> QED
    BY <1>1, LineageInvariant, PTL

LEMMA GoldReads ==
  ASSUME Lineage, NEW d \in DOMAIN gold, NEW s \in gold[d].src
  PROVE  s >= d /\ gold[d].counts = get_aggregate(ReadJson(bronze, s + 1))
  <1>1. GoldOf(gold[d], d)
    BY DEF Lineage, Golden
  <1>2. PICK r \in DOMAIN dagrun :
               /\ dagrun[r].ds = s
               /\ ti[r]["task_brewery"] = "success"
               /\ gold[d].counts = get_aggregate(FileRows(bronze, BronzePath(r)))
    BY <1>1 DEF GoldOf
  <1>3. ReadJson(bronze, s + 1) = FileRows(bronze, BronzePath(r))
    BY <1>2, DirectoryIsFile DEF Lineage, Dates
  <1> QED
    BY <1>1, <1>2, <1>3 DEF GoldOf

(* With runs of the schedule only, Gold can be recomputed from the Bronze  *)
(* directory of the day it was made from.                                  *)
THEOREM ScheduledGoldLineage ==
  ASSUME ScheduledOnly
  PROVE  Spec => []GoldLineage
  <1>1. Lineage => GoldLineage
    BY GoldReads DEF GoldLineage
  <1> QED
    BY <1>1, LineageInvariant, PTL

(* With runs of the schedule only, Gold is never made from a day before    *)
(* its own.                                                                *)
THEOREM ScheduledGoldNotOlder ==
  ASSUME ScheduledOnly
  PROVE  Spec => []GoldNotOlder
  <1>1. Lineage => GoldNotOlder
    BY GoldReads DEF GoldNotOlder
  <1> QED
    BY <1>1, LineageInvariant, PTL

(* With runs of the schedule only, the Bronze file of a finished           *)
(* extraction never changes, whichever tasks are retried.                  *)
THEOREM ScheduledBronzeImmutable ==
  ASSUME ScheduledOnly
  PROVE  Spec => BronzeImmutable
  <1> DEFINE Kept ==
        \A r \in DOMAIN dagrun :
          ti[r]["task_brewery"] = "success" =>
            /\ BronzePath(r) \in DOMAIN bronze'
            /\ bronze'[BronzePath(r)] = bronze[BronzePath(r)]
  <1>1. Lineage /\ [Next]_vars => Kept
    BY ExtractionKept DEF Lineage
  <1>2. Lineage /\ [Next]_vars => [Kept]_vars
    BY <1>1
  <1>3. Spec => [][Kept]_vars
    BY <1>2, LineageInvariant, PTL DEF Spec
  <1> QED
    BY <1>3 DEF BronzeImmutable

-----------------------------------------------------------------------------
(***************************************************************************)
(* Runs of the schedule implement Lake.                                    *)
(***************************************************************************)
(* Only the end of an extraction makes it a success.                       *)
LEMMA ExtractionEnds ==
  ASSUME TypeInv, [Next]_vars, NEW r \in Runs,
         ti'[r]["task_brewery"] = "success", ti[r]["task_brewery"] # "success"
  PROVE  CloseBronze(r)
  <1>0. "task_brewery" \in Tasks
    BY DEF Tasks
  <1>1. ASSUME NEW q \in Runs, Extract(q)
        PROVE  CloseBronze(r)
    <2>1. q = r
      BY <1>0, <1>1, ExtractOccupies DEF Occupies, TypeInv, TypeOK
    <2>2. CASE OpenBronze(r) \/ HookReturns(r) \/ WriteLine(r)
      BY <2>2 DEF OpenBronze, HookReturns, WriteLine
    <2>3. CASE TearLine(r)
      BY <1>0, <2>3 DEF TearLine, FailAttempt, EndAttempt, TypeInv, TypeOK
    <2> QED
      BY <1>1, <2>1, <2>2, <2>3 DEF Extract
  <1>2. ASSUME NEW q \in Runs, Transform(q) \/ Aggregate(q)
        PROVE  FALSE
    <2>1. PICK t \in Tasks \ {"task_brewery"} : Occupies(q, t)
      BY <1>2, TransformOccupies, AggregateOccupies DEF Tasks
    <2> QED
      BY <1>0, <2>1, OccupiesOthers
  <1>3. ASSUME NEW q \in Runs, NEW t \in Tasks,
               StartTask(q, t) \/ MarkUpstreamFailed(q, t) \/ AttemptFails(q, t)
        PROVE  FALSE
    <2>1. \E state \in States \ {"success"} : ti' = [ti EXCEPT ![q][t] = state]
      BY <1>3 DEF StartTask, MarkUpstreamFailed, AttemptFails, FailAttempt, EndAttempt, States
    <2> QED
      BY <1>0, <2>1 DEF TypeInv, TypeOK
  <1>4. CASE Environment
    BY <1>4, EnvironmentKeeps
  <1>5. CASE UNCHANGED vars
    BY <1>5 DEF vars
  <1> QED
    BY <1>1, <1>2, <1>3, <1>4, <1>5 DEF Next, Progress

(* A run of the schedule has the one file of its day.                      *)
LEMMA PathOfDay ==
  ASSUME Lineage, NEW r \in DOMAIN dagrun
  PROVE  BronzePath(r) = <<dagrun[r].ds + 1, dagrun[r].ds>>
  BY DEF Lineage, Dates, BronzePath

(* What was extracted is still extracted, and the same.                    *)
LEMMA BronzeBarKept ==
  ASSUME Lineage, [Next]_vars, NEW d \in Extracted
  PROVE  /\ d \in Extracted'
         /\ FileRows(bronze, <<d + 1, d>>)' = FileRows(bronze, <<d + 1, d>>)
  <1>1. PICK r \in DOMAIN dagrun : ti[r]["task_brewery"] = "success" /\ dagrun[r].ds = d
    BY DEF Extracted
  <1>2. /\ r \in DOMAIN dagrun' /\ dagrun'[r] = dagrun[r]
        /\ ti'[r]["task_brewery"] = "success"
        /\ bronze'[BronzePath(r)] = bronze[BronzePath(r)]
    BY <1>1, ExtractionKept DEF Lineage
  <1>3. BronzePath(r) = <<d + 1, d>>
    BY <1>1, PathOfDay
  <1> QED
    BY <1>1, <1>2, <1>3 DEF Extracted, FileRows

LEMMA BronzeBarSame ==
  ASSUME Lineage, [Next]_vars, \A r \in Runs : ~CloseBronze(r)
  PROVE  bronzeBar' = bronzeBar
  <1>1. ASSUME NEW d \in Extracted'
        PROVE  d \in Extracted
    <2>1. PICK r \in DOMAIN dagrun' : ti'[r]["task_brewery"] = "success" /\ dagrun'[r].ds = d
      BY <1>1 DEF Extracted
    <2>2. r \in Runs
      BY TypeStep DEF Lineage, TypeInv, TypeOK
    <2>3. ti[r]["task_brewery"] = "success"
      BY <2>1, <2>2, ExtractionEnds DEF Lineage
    <2>4. r \in DOMAIN dagrun
      BY <2>2, <2>3 DEF Lineage, TypeInv, Attempts, Tasks
    <2>5. dagrun'[r] = dagrun[r]
      BY <2>3, <2>4, ExtractionKept DEF Lineage
    <2> QED
      BY <2>1, <2>3, <2>4, <2>5 DEF Extracted
  <1>2. Extracted' = Extracted
    BY <1>1, BronzeBarKept
  <1>3. \A d \in Extracted :
          FileRows(bronze, <<d + 1, d>>)' = FileRows(bronze, <<d + 1, d>>)
    BY BronzeBarKept
  <1> QED
    BY <1>2, <1>3 DEF bronzeBar

LEMMA LakeExtract ==
  ASSUME Lineage, [Next]_vars, NEW r \in Runs, CloseBronze(r)
  PROVE  dagrun[r].ds \in Days /\ Layers!Extract(dagrun[r].ds)
  <1> DEFINE d == dagrun[r].ds
  <1>1. /\ ti[r]["task_brewery"] = "running" /\ at = "writing"
        /\ ti' = [ti EXCEPT ![r]["task_brewery"] = "success"]
        /\ UNCHANGED <<dagrun, bronze, silver, gold>>
    BY DEF CloseBronze, InTask, EndAttempt, airflow, lake
  <1>2. r \in DOMAIN dagrun /\ d \in Days /\ "task_brewery" \in Tasks
    BY <1>1 DEF Lineage, TypeInv, TypeOK, Attempts, Tasks
  <1>3. d \notin Extracted
    BY <1>1, <1>2 DEF Lineage, Dates, Extracted
  <1>4. ti'[r]["task_brewery"] = "success"
    BY <1>1, <1>2 DEF Lineage, TypeInv, TypeOK
  <1>5. Extracted' = Extracted \union {d}
    <2>1. d \in Extracted'
      BY <1>1, <1>2, <1>4 DEF Extracted
    <2>2. Extracted \subseteq Extracted'
      BY BronzeBarKept
    <2>3. ASSUME NEW e \in Extracted', e # d
          PROVE  e \in Extracted
      <3>1. PICK q \in DOMAIN dagrun : ti'[q]["task_brewery"] = "success" /\ dagrun[q].ds = e
        BY <1>1 DEF Extracted
      <3>2. q # r /\ q \in Runs
        BY <2>3, <3>1 DEF Lineage, TypeInv, TypeOK
      <3>3. ti[q]["task_brewery"] = "success"
        BY <1>1, <1>2, <3>1, <3>2 DEF Lineage, TypeInv, TypeOK
      <3> QED
        BY <3>1, <3>3 DEF Extracted
    <2> QED
      BY <2>1, <2>2, <2>3
  <1>6. FileRows(bronze, <<d + 1, d>>) \in SUBSET (Days \X Nat \X Breweries)
    <2>1. bronze[<<d + 1, d>>] \in Seq(SUBSET Breweries)
      BY <1>1, <1>2, PathOfDay DEF Lineage, Files, Clean
    <2>2. \A i \in 1..Len(bronze[<<d + 1, d>>]) :
            i \in Nat /\ bronze[<<d + 1, d>>][i] \in SUBSET Breweries
      BY <2>1
    <2> QED
      BY <1>2, <2>2 DEF FileRows
  <1>7. /\ DOMAIN bronzeBar = Extracted /\ DOMAIN bronzeBar' = Extracted'
        /\ \A e \in Extracted : bronzeBar'[e] = bronzeBar[e]
        /\ bronzeBar'[d] = FileRows(bronze, <<d + 1, d>>)
    BY <1>1, <1>5 DEF bronzeBar, FileRows
  <1>8. silver' = silver /\ goldBar' = goldBar
    BY <1>1 DEF goldBar
  <1> QED
    BY <1>2, <1>3, <1>5, <1>6, <1>7, <1>8 DEF Layers!Extract

LEMMA LakeTransform ==
  ASSUME Lineage, [Next]_vars, NEW r \in Runs, CommitSilver(r)
  PROVE  dagrun[r].ds \in Days /\ Layers!Transform(dagrun[r].ds)
  <1> DEFINE d == dagrun[r].ds
  <1>1. /\ ti[r]["brewery_transform"] = "running" /\ r \in DOMAIN dagrun /\ d \in Days
        /\ ti[r]["task_brewery"] = "success"
    BY DEF CommitSilver, InTask, Lineage, TypeInv, TypeOK, Attempts, Order, Started, Tasks
  <1>2. d \in Extracted
    BY <1>1 DEF Extracted
  <1>3. d \notin DOMAIN gold
    BY <1>1 DEF Lineage, Golden, GoldOf, Dates
  <1>4. TransformInput(r) = FileRows(bronze, <<d + 1, d>>)
    BY <1>1, DirectoryIsFile, PathOfDay DEF Lineage, TransformInput
  <1>5. silver' = Put(silver, d, bronzeBar[d])
    BY <1>2, <1>4 DEF CommitSilver, bronzeBar
  <1>6. bronzeBar' = bronzeBar
    <2>1. \A q \in Runs : ~CloseBronze(q)
      BY DEF CommitSilver, CloseBronze, InTask
    <2> QED
      BY <2>1, BronzeBarSame
  <1>7. goldBar' = goldBar
    BY DEF CommitSilver, goldBar
  <1>8. DOMAIN bronzeBar = Extracted /\ DOMAIN goldBar = DOMAIN gold
    BY DEF bronzeBar, goldBar
  <1> QED
    BY <1>1, <1>2, <1>3, <1>5, <1>6, <1>7, <1>8 DEF Layers!Transform, Layers!With, Put

LEMMA LakeDropSilver ==
  ASSUME Lineage, [Next]_vars, NEW r \in Runs, DropSilver(r)
  PROVE  dagrun[r].ds \in Days /\ Layers!DropSilver(dagrun[r].ds)
  <1> DEFINE d == dagrun[r].ds
  <1>1. ti[r]["brewery_transform"] = "running" /\ r \in DOMAIN dagrun /\ d \in Days
    BY DEF DropSilver, InTask, Lineage, TypeInv, TypeOK, Attempts, Tasks
  <1>2. d \notin DOMAIN gold
    BY <1>1 DEF Lineage, Golden, GoldOf, Dates
  <1>3. bronzeBar' = bronzeBar
    <2>1. \A q \in Runs : ~CloseBronze(q)
      BY DEF DropSilver, CloseBronze, InTask
    <2> QED
      BY <2>1, BronzeBarSame
  <1>4. silver' = Delete(silver, d) /\ goldBar' = goldBar /\ DOMAIN goldBar = DOMAIN gold
    BY DEF DropSilver, goldBar
  <1> QED
    BY <1>1, <1>2, <1>3, <1>4 DEF Layers!DropSilver, Layers!Without, Delete

LEMMA LakeAggregate ==
  ASSUME Lineage, [Next]_vars, NEW r \in Runs, CommitGold(r)
  PROVE  dagrun[r].ds \in Days /\ Layers!Aggregate(dagrun[r].ds)
  <1> DEFINE d == dagrun[r].ds
             part == [src |-> latest, counts |-> get_aggregate(FilterRows(silver, latest))]
  <1>1. /\ r \in DOMAIN dagrun /\ d \in Days /\ d \in DOMAIN silver
    BY DEF CommitGold, InTask, Lineage, TypeInv, TypeOK, Attempts, Order, Started, Silver, Tasks
  <1>2. latest \in {LatestDate(silver), {}}
    BY DEF Lineage, Latest
  <1>3. bronzeBar' = bronzeBar
    <2>1. \A q \in Runs : ~CloseBronze(q)
      BY DEF CommitGold, CloseBronze, InTask
    <2> QED
      BY <2>1, BronzeBarSame
  <1>4. silver' = silver /\ gold' = Put(gold, d, part)
    BY DEF CommitGold
  <1>5. part.counts = get_aggregate(FilterRows(silver, latest))
    OBVIOUS
  <1> HIDE DEF part
  <1>6. goldBar' = Layers!With(goldBar, d, part.counts)
    <2>1. /\ DOMAIN gold' = DOMAIN gold \union {d} /\ gold'[d] = part
          /\ \A e \in DOMAIN gold \ {d} : gold'[e] = gold[e]
      BY <1>4 DEF Put
    <2>2. \A e \in DOMAIN gold' :
            gold'[e].counts = IF e = d THEN part.counts ELSE goldBar[e]
      BY <2>1 DEF goldBar
    <2>3. goldBar' = [e \in DOMAIN goldBar \union {d} |->
                        IF e = d THEN part.counts ELSE goldBar[e]]
      BY <2>1, <2>2 DEF goldBar
    <2> QED
      BY <2>3 DEF Layers!With
  <1>7. Layers!get_aggregate(Layers!FilterRows(silver, latest)) = part.counts
    <2>1. Layers!FilterRows(silver, latest) = FilterRows(silver, latest)
      BY DEF Layers!FilterRows, FilterRows
    <2>2. ASSUME NEW S
          PROVE  Layers!Cardinality(S) = Cardinality(S)
      BY DEF Layers!Cardinality, Cardinality
    <2>3. ASSUME NEW rows
          PROVE  Layers!get_aggregate(rows) = get_aggregate(rows)
      BY <2>2 DEF Layers!get_aggregate, get_aggregate
    <2> QED
      BY <1>5, <2>1, <2>3
  <1>8. latest \in {Layers!LatestDate(silver), {}}
    BY <1>2 DEF Layers!LatestDate, LatestDate
  <1> QED
    BY <1>1, <1>3, <1>4, <1>6, <1>7, <1>8 DEF Layers!Aggregate

LEMMA LakeDropGold ==
  ASSUME Lineage, [Next]_vars, NEW r \in Runs, DropGold(r)
  PROVE  dagrun[r].ds \in Days /\ Layers!DropGold(dagrun[r].ds)
  <1> DEFINE d == dagrun[r].ds
  <1>1. r \in DOMAIN dagrun /\ d \in Days
    BY DEF DropGold, InTask, Lineage, TypeInv, TypeOK, Attempts, Tasks
  <1>2. bronzeBar' = bronzeBar
    <2>1. \A q \in Runs : ~CloseBronze(q)
      BY DEF DropGold, CloseBronze, InTask
    <2> QED
      BY <2>1, BronzeBarSame
  <1>3. silver' = silver /\ gold' = Delete(gold, d)
    BY DEF DropGold
  <1>4. goldBar' = Layers!Without(goldBar, d)
    BY <1>3 DEF Delete, goldBar, Layers!Without
  <1> QED
    BY <1>1, <1>2, <1>3, <1>4 DEF Layers!DropGold

(* A step of the runs is a step of the lake on one day, or one that a      *)
(* reader of the lake does not see.                                        *)
LEMMA LakeStep ==
  ASSUME Lineage, [Next]_vars
  PROVE  [Layers!Next]_<<bronzeBar, silver, goldBar>>
  <1>1. ASSUME NEW d \in Days,
               \/ Layers!Extract(d) \/ Layers!Transform(d) \/ Layers!DropSilver(d)
               \/ Layers!Aggregate(d) \/ Layers!DropGold(d)
        PROVE  Layers!Next
    BY <1>1 DEF Layers!Next
  <1>2. ASSUME NEW r \in Runs,
               CloseBronze(r) \/ CommitSilver(r) \/ DropSilver(r) \/ CommitGold(r) \/ DropGold(r)
        PROVE  Layers!Next
    BY <1>1, <1>2, LakeExtract, LakeTransform, LakeDropSilver, LakeAggregate, LakeDropGold
  <1>3. ASSUME \A r \in Runs : /\ ~CloseBronze(r) /\ ~CommitSilver(r) /\ ~DropSilver(r)
                               /\ ~CommitGold(r) /\ ~DropGold(r)
        PROVE  UNCHANGED <<bronzeBar, silver, goldBar>>
    <2>1. bronzeBar' = bronzeBar
      BY <1>3, BronzeBarSame
    <2>2. UNCHANGED <<silver, gold>>
      <3>1. ASSUME NEW r \in Runs, Extract(r)
            PROVE  UNCHANGED <<silver, gold>>
        BY <3>1, ExtractOccupies
      <3>2. ASSUME NEW r \in Runs, Transform(r)
            PROVE  UNCHANGED <<silver, gold>>
        BY <1>3, <3>2, TransformOccupies
        DEF Transform, ValidateBronze, BronzeSchemaError, TransformDone, lake
      <3>3. ASSUME NEW r \in Runs, Aggregate(r)
            PROVE  UNCHANGED <<silver, gold>>
        BY <1>3, <3>3 DEF Aggregate, ValidateSilver, SilverSchemaError, FilterLatest,
                          FilterError, AggregateDone, lake
      <3>4. ASSUME NEW r \in Runs, NEW t \in Tasks,
                   StartTask(r, t) \/ MarkUpstreamFailed(r, t) \/ AttemptFails(r, t)
            PROVE  UNCHANGED <<silver, gold>>
        BY <3>4 DEF StartTask, MarkUpstreamFailed, AttemptFails, lake
      <3>5. CASE Environment
        BY <3>5, EnvironmentKeeps
      <3>6. CASE UNCHANGED vars
        BY <3>6 DEF vars, lake
      <3> QED
        BY <3>1, <3>2, <3>3, <3>4, <3>5, <3>6 DEF Next, Progress
    <2> QED
      BY <2>1, <2>2 DEF goldBar
  <1> QED
    BY <1>2, <1>3

LEMMA LakeInit == Init => Layers!Init
  <1> SUFFICES ASSUME Init PROVE Layers!Init
    OBVIOUS
  <1>1. dagrun = <<>> /\ silver = <<>> /\ gold = <<>>
    BY DEF Init
  <1>2. Extracted = {}
    BY <1>1 DEF Extracted
  <1>3. bronzeBar = <<>> /\ goldBar = <<>>
    BY <1>1, <1>2 DEF bronzeBar, goldBar
  <1> QED
    BY <1>1, <1>3 DEF Layers!Init

(* With runs of the schedule only, runs, retries and kills implement what  *)
(* the three layers promise day by day.                                    *)
THEOREM ScheduledImplementsLake ==
  ASSUME ScheduledOnly
  PROVE  Spec => ImplementsLake
  <1>1. Lineage /\ [Next]_vars => [Layers!Next]_<<bronzeBar, silver, goldBar>>
    BY LakeStep
  <1> QED
    BY <1>1, LakeInit, LineageInvariant, PTL DEF Spec, ImplementsLake, Layers!Spec
-----------------------------------------------------------------------------
(***************************************************************************)
(* Gold counts no brewery twice, whatever kinds of run there are, as long  *)
(* as no two runs of different ds share a directory.  Not Lineage: manual  *)
(* runs of one day do write over each other's file.  What remains true is  *)
(* that a brewery is on one line of a file at most, and hence in one row   *)
(* of a partition at most, however often either was written again.         *)
(***************************************************************************)
(* No brewery is on two of the lines, or of the pages.                     *)
Once(lines) ==
  \A i, j \in 1..Len(lines) : i # j => lines[i] \intersect lines[j] \subseteq {Corrupt}

(* The listing is finite, and no single extraction returns a brewery twice. *)
SteadyListing == IsFiniteSet(Breweries) /\ \A result \in HookResults : Once(result)

(* The file of an extraction that goes on: what is still to be written     *)
(* repeats nothing of what is in it.                                       *)
OpenFile(path) ==
  /\ path \in DOMAIN bronze
  /\ at = "opened" => bronze[path] = <<>>
  /\ at = "writing" =>
       /\ Once(pages)
       /\ \A i \in 1..Len(bronze[path]), j \in 1..Len(pages) :
            bronze[path][i] \intersect pages[j] \subseteq {Corrupt}

Extracting(r) == ti[r]["task_brewery"] = "running" /\ at \in {"opened", "writing"}

BronzeOnce ==
  /\ \A p \in DOMAIN bronze :
       Once(bronze[p]) /\ \E r \in DOMAIN dagrun : p = BronzePath(r)
  /\ \A r \in Runs : Extracting(r) => OpenFile(BronzePath(r))

LEMMA OnceAppend ==
  ASSUME NEW S, NEW lines \in Seq(S), NEW line \in S, Once(lines),
         \A i \in 1..Len(lines) : lines[i] \intersect line \subseteq {Corrupt}
  PROVE  Once(Append(lines, line))
  <1> DEFINE longer == Append(lines, line)
  <1>1. Len(longer) = Len(lines) + 1 /\ Len(lines) \in Nat
    OBVIOUS
  <1>2. \A i \in 1..Len(lines) : longer[i] = lines[i]
    OBVIOUS
  <1>3. longer[Len(lines) + 1] = line
    OBVIOUS
  <1> HIDE DEF longer
  <1>4. ASSUME NEW i \in 1..Len(longer), NEW j \in 1..Len(longer), i # j
        PROVE  longer[i] \intersect longer[j] \subseteq {Corrupt}
    <2>1. CASE i \in 1..Len(lines) /\ j \in 1..Len(lines)
      BY <1>2, <1>4, <2>1 DEF Once
    <2>2. CASE i \in 1..Len(lines) /\ j = Len(lines) + 1
      BY <1>2, <1>3, <2>2
    <2>3. CASE j \in 1..Len(lines) /\ i = Len(lines) + 1
      BY <1>2, <1>3, <2>3
    <2> QED
      BY <1>1, <1>4, <2>1, <2>2, <2>3
  <1> QED
    BY <1>4 DEF Once, longer

LEMMA OnceTail ==
  ASSUME NEW S, NEW lines \in Seq(S), lines # <<>>, Once(lines)
  PROVE  /\ Once(Tail(lines))
         /\ \A j \in 1..Len(Tail(lines)) :
              Head(lines) \intersect Tail(lines)[j] \subseteq {Corrupt}
  <1>1. /\ Len(Tail(lines)) = Len(lines) - 1 /\ Len(lines) \in Nat \ {0}
        /\ Head(lines) = lines[1]
        /\ \A j \in 1..Len(Tail(lines)) : Tail(lines)[j] = lines[j + 1]
    OBVIOUS
  <1>2. \A j \in 1..Len(Tail(lines)) :
          j + 1 \in 1..Len(lines) /\ j + 1 # 1 /\ j \in Int
    BY <1>1
  <1>3. 1 \in 1..Len(lines)
    BY <1>1
  <1>4. \A i, j \in 1..Len(Tail(lines)) : i # j => i + 1 # j + 1
    BY <1>2
  <1> QED
    BY <1>1, <1>2, <1>3, <1>4 DEF Once

(* No step but the extraction's own touches an open file or its pages.     *)
LEMMA ExtractingElsewhere ==
  ASSUME TypeInv, Slot, [Next]_vars, \A r \in Runs : ~Extract(r)
  PROVE  \A r \in Runs :
           Extracting(r)' =>
             /\ Extracting(r) /\ at' = at /\ pages' = pages
             /\ r \in DOMAIN dagrun /\ BronzePath(r)' = BronzePath(r)
  <1> DEFINE Kept ==
        \A r \in Runs : Extracting(r)' => Extracting(r) /\ at' = at /\ pages' = pages
  <1>0. "task_brewery" \in Tasks
    BY DEF Tasks
  <1>1. ASSUME NEW q \in Runs, Transform(q) \/ Aggregate(q)
        PROVE  Kept
    <2>1. PICK t \in Tasks \ {"task_brewery"} : Occupies(q, t)
      BY <1>1, TransformOccupies, AggregateOccupies DEF Tasks
    <2>2. \A s \in Runs, u \in Tasks : ti'[s][u] = "running" => u = t
      BY <2>1, OccupiesSlot
    <2> QED
      BY <1>0, <2>1, <2>2 DEF Extracting
  <1>2. ASSUME NEW q \in Runs, NEW t \in Tasks, AttemptFails(q, t)
        PROVE  Kept
    BY <1>2 DEF AttemptFails, FailAttempt, EndAttempt, Extracting
  <1>3. ASSUME NEW q \in Runs, NEW t \in Tasks, StartTask(q, t)
        PROVE  Kept
    BY <1>3 DEF StartTask, Extracting
  <1>4. ASSUME NEW q \in Runs, NEW t \in Tasks, MarkUpstreamFailed(q, t)
        PROVE  Kept
    BY <1>0, <1>4 DEF MarkUpstreamFailed, local, TypeInv, TypeOK, Extracting
  <1>5. ASSUME Environment
        PROVE  Kept
    <2>1. pages' = pages
      BY <1>5 DEF Environment, Midnight, TriggerManual, CreateScheduled, CreateRun, local
    <2> QED
      BY <1>5, <2>1, EnvironmentKeeps DEF Extracting
  <1>6. ASSUME UNCHANGED vars
        PROVE  Kept
    BY <1>6 DEF vars, local, Extracting
  <1>7. Kept
    BY <1>1, <1>2, <1>3, <1>4, <1>5, <1>6 DEF Next, Progress
  <1>8. \A r \in Runs : Extracting(r) => r \in DOMAIN dagrun
    BY <1>0 DEF Extracting, TypeInv, Attempts
  <1>9. \A r \in DOMAIN dagrun : dagrun'[r] = dagrun[r]
    BY BronzeElsewhere
  <1> QED
    BY <1>7, <1>8, <1>9 DEF BronzePath

(* What an extraction makes of its own file.                               *)
LEMMA ExtractOnce ==
  ASSUME SteadyListing, TypeInv, BronzeOnce, NEW r \in Runs, Extract(r)
  PROVE  /\ BronzePath(r) \in DOMAIN bronze' => Once(bronze'[BronzePath(r)])
         /\ Extracting(r)' => OpenFile(BronzePath(r))'
  <1> DEFINE path == BronzePath(r)
  <1>0. /\ ti[r]["task_brewery"] = "running" /\ r \in DOMAIN dagrun /\ "task_brewery" \in Tasks
        /\ path' = path
    BY ExtractBronze, ExtractOccupies DEF Occupies, BronzePath, Tasks
  <1>1. \A p \in DOMAIN bronze : Once(bronze[p]) /\ bronze[p] \in Seq(SUBSET Records)
    BY DEF BronzeOnce, TypeInv, TypeOK
  <1>2. at \in {"opened", "writing"} => OpenFile(path)
    BY <1>0 DEF BronzeOnce, Extracting
  <1>3. pages \in Seq(SUBSET Records)
    BY DEF TypeInv, TypeOK, Pages, Records
  <1> HIDE DEF path
  <1>4. CASE OpenBronze(r)
    <2>1. at' = "opened" /\ bronze' = Put(bronze, path, <<>>)
      BY <1>4 DEF OpenBronze, path
    <2>2. path \in DOMAIN bronze' /\ bronze'[path] = <<>>
      BY <2>1 DEF Put
    <2>3. Once(<<>>)
      BY DEF Once
    <2> QED
      BY <1>0, <2>1, <2>2, <2>3 DEF OpenFile, path
  <1>5. CASE HookReturns(r)
    <2>1. at = "opened" /\ at' = "writing" /\ bronze' = bronze /\ Once(pages')
      BY <1>5 DEF HookReturns, InTask, lake, SteadyListing
    <2>2. path \in DOMAIN bronze /\ bronze[path] = <<>>
      BY <1>2, <2>1 DEF OpenFile
    <2>3. Once(bronze[path]) /\ 1..Len(bronze[path]) = {}
      BY <1>1, <2>2
    <2> QED
      BY <1>0, <2>1, <2>2, <2>3 DEF OpenFile, path
  <1>6. CASE WriteLine(r)
    <2>1. /\ at = "writing" /\ at' = at /\ pages # <<>> /\ pages' = Tail(pages)
          /\ bronze' = [bronze EXCEPT ![path] = Append(@, Head(pages))]
      BY <1>6 DEF WriteLine, InTask, path
    <2>2. OpenFile(path) /\ path \in DOMAIN bronze
      BY <1>2, <2>1 DEF OpenFile
    <2> DEFINE file == bronze[path]
    <2>3. path \in DOMAIN bronze' /\ bronze'[path] = Append(file, Head(pages))
      BY <2>1, <2>2
    <2>4. file \in Seq(SUBSET Records) /\ Once(file)
      BY <1>1, <2>2
    <2>5. /\ Once(pages)
          /\ \A i \in 1..Len(file), j \in 1..Len(pages) :
               file[i] \intersect pages[j] \subseteq {Corrupt}
      BY <2>1, <2>2 DEF OpenFile
    <2> HIDE DEF file
    <2>6. /\ Len(pages) \in Nat \ {0} /\ Head(pages) = pages[1] /\ Head(pages) \in SUBSET Records
          /\ Len(Tail(pages)) = Len(pages) - 1
          /\ \A j \in 1..Len(Tail(pages)) : Tail(pages)[j] = pages[j + 1]
      BY <1>3, <2>1
    <2>7. 1 \in 1..Len(pages) /\ \A j \in 1..Len(Tail(pages)) : j + 1 \in 1..Len(pages)
      BY <2>6
    <2>8. Once(Append(file, Head(pages)))
      BY <2>4, <2>5, <2>6, <2>7, OnceAppend
    <2>9. /\ Once(Tail(pages))
          /\ \A j \in 1..Len(Tail(pages)) :
               Head(pages) \intersect Tail(pages)[j] \subseteq {Corrupt}
      BY <1>3, <2>1, <2>5, OnceTail
    <2>10. ASSUME NEW i \in 1..Len(Append(file, Head(pages))), NEW j \in 1..Len(Tail(pages))
           PROVE  Append(file, Head(pages))[i] \intersect Tail(pages)[j] \subseteq {Corrupt}
      <3>1. CASE i \in 1..Len(file)
        <4>1. Append(file, Head(pages))[i] = file[i]
          BY <2>4, <2>6, <3>1
        <4> QED
          BY <2>5, <2>6, <2>7, <3>1, <4>1
      <3>2. CASE i = Len(file) + 1
        <4>1. Append(file, Head(pages))[i] = Head(pages)
          BY <2>4, <2>6, <3>2
        <4> QED
          BY <2>9, <4>1
      <3>3. i \in 1..Len(file) \/ i = Len(file) + 1
        <4>1. Len(Append(file, Head(pages))) = Len(file) + 1 /\ Len(file) \in Nat
          BY <2>4, <2>6
        <4> QED
          BY <4>1
      <3> QED
        BY <3>1, <3>2, <3>3
    <2>11. OpenFile(path)'
      BY <1>0, <2>1, <2>3, <2>9, <2>10 DEF OpenFile
    <2> QED
      BY <1>0, <2>3, <2>8, <2>11 DEF path
  <1>7. CASE TearLine(r)
    <2>1. /\ at = "writing" /\ at' = "idle"
          /\ bronze' = [bronze EXCEPT ![path] = Append(@, {Corrupt})]
      BY <1>7 DEF TearLine, InTask, FailAttempt, EndAttempt, path
    <2>2. path \in DOMAIN bronze
      BY <1>2, <2>1 DEF OpenFile
    <2>3. bronze'[path] = Append(bronze[path], {Corrupt})
      BY <2>1, <2>2
    <2>4. bronze[path] \in Seq(SUBSET Records) /\ Once(bronze[path])
      BY <1>1, <2>2
    <2>5. {Corrupt} \in SUBSET Records
      BY DEF Records
    <2>6. Once(Append(bronze[path], {Corrupt}))
      BY <2>4, <2>5, OnceAppend
    <2> QED
      BY <2>1, <2>3, <2>6 DEF Extracting, path
  <1>8. CASE CloseBronze(r)
    <2>1. bronze' = bronze /\ at' = "idle"
      BY <1>8 DEF CloseBronze, EndAttempt, lake
    <2> QED
      BY <1>1, <2>1 DEF Extracting, path
  <1> QED
    BY <1>4, <1>5, <1>6, <1>7, <1>8 DEF Extract

LEMMA BronzeOnceStep ==
  ASSUME SteadyListing, TypeInv, Slot, BronzeOnce, [Next]_vars
  PROVE  BronzeOnce'
  <1>0. "task_brewery" \in Tasks
    BY DEF Tasks
  <1>1. ASSUME NEW r \in Runs, Extract(r)
        PROVE  BronzeOnce'
    <2>1. /\ Occupies(r, "task_brewery") /\ r \in DOMAIN dagrun /\ dagrun' = dagrun
          /\ DOMAIN bronze' \subseteq DOMAIN bronze \union {BronzePath(r)}
          /\ \A p \in DOMAIN bronze \ {BronzePath(r)} : bronze'[p] = bronze[p]
      BY <1>1, ExtractBronze, ExtractOccupies
    <2>2. /\ BronzePath(r) \in DOMAIN bronze' => Once(bronze'[BronzePath(r)])
          /\ Extracting(r)' => OpenFile(BronzePath(r))'
      BY <1>1, ExtractOnce
    <2>3. ASSUME NEW p \in DOMAIN bronze'
          PROVE  Once(bronze'[p]) /\ \E s \in DOMAIN dagrun' : p = BronzePath(s)'
      <3>1. CASE p = BronzePath(r)
        BY <2>1, <2>2, <2>3, <3>1 DEF BronzePath
      <3>2. CASE p # BronzePath(r)
        <4>1. p \in DOMAIN bronze /\ bronze'[p] = bronze[p]
          BY <2>1, <2>3, <3>2
        <4> QED
          BY <2>1, <4>1 DEF BronzeOnce, BronzePath
      <3> QED
        BY <3>1, <3>2
    <2>4. \A s \in Runs : Extracting(s)' => s = r
      BY <1>0, <2>1, OccupiesSlot DEF Extracting
    <2> QED
      BY <2>2, <2>3, <2>4 DEF BronzeOnce
  <1>2. ASSUME \A r \in Runs : ~Extract(r)
        PROVE  BronzeOnce'
    <2>1. /\ bronze' = bronze
          /\ \A r \in DOMAIN dagrun : r \in DOMAIN dagrun' /\ dagrun'[r] = dagrun[r]
      BY <1>2, BronzeElsewhere
    <2>2. \A p \in DOMAIN bronze' :
            Once(bronze'[p]) /\ \E s \in DOMAIN dagrun' : p = BronzePath(s)'
      BY <2>1 DEF BronzeOnce, BronzePath
    <2>3. ASSUME NEW r \in Runs, Extracting(r)'
          PROVE  OpenFile(BronzePath(r))'
      <3>1. /\ Extracting(r) /\ at' = at /\ pages' = pages /\ BronzePath(r)' = BronzePath(r)
        BY <1>2, <2>3, ExtractingElsewhere
      <3> QED
        BY <2>1, <3>1 DEF BronzeOnce, OpenFile
    <2> QED
      BY <2>2, <2>3 DEF BronzeOnce
  <1> QED
    BY <1>1, <1>2

-----------------------------------------------------------------------------
(* No brewery is in two of the rows.                                       *)
OneListing(rows) ==
  /\ rows \subseteq Rows
  /\ \A x, y \in rows : x[3] = y[3] => x = y \/ x[3] = Corrupt

(* The rows of a directory that all its runs use for one ds.               *)
LEMMA DirectoryOnce ==
  ASSUME TypeInv, BronzeOnce, ~SharedDirectory, NEW r \in DOMAIN dagrun
  PROVE  OneListing(ReadJson(bronze, dagrun[r].extract_date))
  <1> DEFINE path == BronzePath(r)
  <1>1. ASSUME NEW p \in DOMAIN bronze, p[1] = dagrun[r].extract_date
        PROVE  p = path
    <2>1. PICK q \in DOMAIN dagrun : p = BronzePath(q)
      BY DEF BronzeOnce
    <2> QED
      BY <1>1, <2>1 DEF BronzePath, SharedDirectory
  <1>2. \A x \in ReadJson(bronze, dagrun[r].extract_date) :
          /\ path \in DOMAIN bronze
          /\ \E i \in 1..Len(bronze[path]) : x = <<path[2], i, x[3]>> /\ x[3] \in bronze[path][i]
    BY <1>1 DEF ReadJson, FileRows
  <1> HIDE DEF path
  <1>3. ASSUME NEW x \in ReadJson(bronze, dagrun[r].extract_date),
               NEW y \in ReadJson(bronze, dagrun[r].extract_date), x[3] = y[3], x[3] # Corrupt
        PROVE  x = y
    <2>1. PICK i \in 1..Len(bronze[path]) :
                 x = <<path[2], i, x[3]>> /\ x[3] \in bronze[path][i]
      BY <1>2
    <2>2. PICK j \in 1..Len(bronze[path]) :
                 y = <<path[2], j, y[3]>> /\ y[3] \in bronze[path][j]
      BY <1>2
    <2>3. Once(bronze[path])
      BY <1>2 DEF BronzeOnce
    <2>4. i = j
      BY <1>3, <2>1, <2>2, <2>3 DEF Once
    <2> QED
      BY <1>3, <2>1, <2>2, <2>4
  <1> QED
    BY <1>3, ReadJsonType DEF OneListing, TypeInv

(* Counting rows of one listing is counting breweries.                     *)
CountsFit(counts) ==
  \A g \in DOMAIN counts \ {Group[Corrupt]} :
    counts[g] <= Cardinality({b \in Breweries : Group[b] = g})

LEMMA OneListingFits ==
  ASSUME IsFiniteSet(Breweries), NEW rows, OneListing(rows)
  PROVE  CountsFit(get_aggregate(rows))
  <1> SUFFICES ASSUME NEW g \in DOMAIN get_aggregate(rows), g # Group[Corrupt]
               PROVE  get_aggregate(rows)[g] <= Cardinality({b \in Breweries : Group[b] = g})
    BY DEF CountsFit
  <1> DEFINE members == {row \in rows : Group[row[3]] = g}
             targets == {b \in Breweries : Group[b] = g}
             f == [row \in members |-> row[3]]
  <1>1. get_aggregate(rows)[g] = Cardinality(members)
    BY DEF get_aggregate
  <1>2. \A row \in members : row[3] \in targets
    BY DEF OneListing, Rows, Records
  <1>3. \A x, y \in members : x[3] = y[3] => x = y
    BY <1>2 DEF OneListing
  <1>4. f \in Injection(members, targets)
    BY <1>2, <1>3 DEF Injection, IsInjective
  <1>5. IsFiniteSet(targets)
    BY FS_Subset
  <1>6. Cardinality(members) <= Cardinality(targets)
    <2> HIDE DEF members, targets, f
    <2> QED
      BY <1>4, <1>5, FS_Injection
  <1> QED
    BY <1>1, <1>6

-----------------------------------------------------------------------------
(* Runs are added, never removed: a directory that is shared stays shared. *)
LEMMA SharedStays ==
  ASSUME [Next]_vars, TypeInv, Slot
  PROVE  SharedDirectory => SharedDirectory'
  <1>1. \A r \in DOMAIN dagrun : r \in DOMAIN dagrun' /\ dagrun'[r] = dagrun[r]
    <2>1. ASSUME NEW r \in Runs, Extract(r)
          PROVE  dagrun' = dagrun
      BY <2>1, ExtractOccupies DEF Occupies
    <2> QED
      BY <2>1, BronzeElsewhere
  <1> QED
    BY <1>1 DEF SharedDirectory

SilverOnce == ~SharedDirectory => \A d \in DOMAIN silver : OneListing(silver[d])

LEMMA SilverOnceStep ==
  ASSUME TypeInv, Slot, BronzeOnce, SilverOnce, [Next]_vars
  PROVE  SilverOnce'
  <1>1. CASE silver' = silver
    BY <1>1, SharedStays DEF SilverOnce
  <1>2. ASSUME NEW r \in Runs, DropSilver(r)
        PROVE  SilverOnce'
    <2>1. silver' = Delete(silver, dagrun[r].ds)
      BY <1>2 DEF DropSilver
    <2>2. \A d \in DOMAIN silver' : d \in DOMAIN silver /\ silver'[d] = silver[d]
      BY <2>1 DEF Delete
    <2> QED
      BY <2>2, SharedStays DEF SilverOnce
  <1>3. ASSUME NEW r \in Runs, CommitSilver(r)
        PROVE  SilverOnce'
    <2>1. silver' = Put(silver, dagrun[r].ds, TransformInput(r))
      BY <1>3 DEF CommitSilver
    <2>2. \A d \in DOMAIN silver' :
            \/ d \in DOMAIN silver /\ silver'[d] = silver[d]
            \/ silver'[d] = TransformInput(r)
      BY <2>1 DEF Put
    <2>3. r \in DOMAIN dagrun
      BY <1>3 DEF CommitSilver, InTask, TypeInv, Attempts, Tasks
    <2>4. ~SharedDirectory => OneListing(TransformInput(r))
      BY <2>3, DirectoryOnce DEF TransformInput
    <2> QED
      BY <2>2, <2>4, SharedStays DEF SilverOnce
  <1>4. ASSUME NEW r \in Runs, Transform(r), ~DropSilver(r), ~CommitSilver(r)
        PROVE  silver' = silver
    BY <1>4 DEF Transform, ValidateBronze, BronzeSchemaError, TransformDone, lake
  <1> QED
    BY <1>1, <1>2, <1>3, <1>4, SilverElsewhere

(* Only the two steps of an aggregation that say so touch Gold.            *)
LEMMA GoldElsewhere ==
  ASSUME [Next]_vars, \A r \in Runs : ~DropGold(r) /\ ~CommitGold(r)
  PROVE  gold' = gold
  <1>1. ASSUME NEW r \in Runs, Aggregate(r)
        PROVE  gold' = gold
    BY <1>1 DEF Aggregate, ValidateSilver, SilverSchemaError, FilterLatest, FilterError,
                AggregateDone, lake
  <1>2. ASSUME NEW r \in Runs, Extract(r) \/ Transform(r)
        PROVE  gold' = gold
    BY <1>2, ExtractOccupies, TransformOccupies
  <1>3. ASSUME NEW r \in Runs, NEW t \in Tasks,
               StartTask(r, t) \/ MarkUpstreamFailed(r, t) \/ AttemptFails(r, t)
        PROVE  gold' = gold
    BY <1>3 DEF StartTask, MarkUpstreamFailed, AttemptFails, lake
  <1>4. CASE Environment
    BY <1>4, EnvironmentKeeps
  <1>5. CASE UNCHANGED vars
    BY <1>5 DEF vars, lake
  <1> QED
    BY <1>1, <1>2, <1>3, <1>4, <1>5 DEF Next, Progress

LEMMA GoldCountsStep ==
  ASSUME SteadyListing, TypeInv, Slot, Latest, SilverOnce, GoldCountsBreweries, [Next]_vars
  PROVE  GoldCountsBreweries'
  <1>0. GoldCountsBreweries = (~SharedDirectory =>
                                 \A d \in DOMAIN gold : CountsFit(gold[d].counts))
    BY DEF GoldCountsBreweries, CountsFit
  <1>1. ASSUME \A d \in DOMAIN gold' :
                 \/ d \in DOMAIN gold /\ gold'[d] = gold[d]
                 \/ ~SharedDirectory => CountsFit(gold'[d].counts)
        PROVE  GoldCountsBreweries'
    BY <1>0, <1>1, SharedStays DEF GoldCountsBreweries, CountsFit
  <1>2. CASE gold' = gold
    BY <1>1, <1>2
  <1>3. ASSUME NEW r \in Runs, DropGold(r)
        PROVE  GoldCountsBreweries'
    <2>1. gold' = Delete(gold, dagrun[r].ds)
      BY <1>3 DEF DropGold
    <2> QED
      BY <1>1, <2>1 DEF Delete
  <1>4. ASSUME NEW r \in Runs, CommitGold(r)
        PROVE  GoldCountsBreweries'
    <2> DEFINE counts == get_aggregate(FilterRows(silver, latest))
               part == [src |-> latest, counts |-> counts]
    <2>1. gold' = Put(gold, dagrun[r].ds, part)
      BY <1>4 DEF CommitGold
    <2>2. part.counts = counts
      OBVIOUS
    <2>3. ~SharedDirectory => OneListing(FilterRows(silver, latest))
      <3>1. CASE latest = {}
        BY <3>1 DEF FilterRows, OneListing
      <3>2. ASSUME ~SharedDirectory, NEW s \in latest
            PROVE  OneListing(FilterRows(silver, latest))
        <4>1. latest = LatestDate(silver)
          BY <3>2 DEF Latest
        <4>2. s \in DOMAIN silver /\ FilterRows(silver, latest) = silver[s]
          BY <3>2, <4>1, LatestOnly
        <4> QED
          BY <3>2, <4>2 DEF SilverOnce
      <3> QED
        BY <3>1, <3>2
    <2>4. ~SharedDirectory => CountsFit(counts)
      BY <2>3, OneListingFits DEF SteadyListing
    <2> HIDE DEF counts, part
    <2>5. \A d \in DOMAIN gold' :
            \/ d \in DOMAIN gold /\ gold'[d] = gold[d]
            \/ gold'[d] = part
      BY <2>1 DEF Put
    <2> QED
      BY <1>1, <2>2, <2>4, <2>5
  <1> QED
    BY <1>2, <1>3, <1>4, GoldElsewhere

Counting ==
  /\ TypeInv /\ Slot /\ Validated /\ Latest
  /\ BronzeOnce /\ SilverOnce /\ GoldCountsBreweries

(* For runs of every kind: a group of Gold counts no more breweries than   *)
(* it has, while no directory is shared by runs of different ds.           *)
THEOREM DAGGoldCountsBreweries ==
  ASSUME SteadyListing
  PROVE  Spec => []GoldCountsBreweries
  <1>1. Init => Counting
    <2> SUFFICES ASSUME Init PROVE Counting
      OBVIOUS
    <2>1. Latest /\ BronzeOnce /\ SilverOnce /\ GoldCountsBreweries
      BY DEF Init, Latest, BronzeOnce, Extracting, SilverOnce, GoldCountsBreweries
    <2> QED
      BY <2>1, TypeInit, SlotInit DEF Counting
  <1>2. Counting /\ [Next]_vars => Counting'
    <2> SUFFICES ASSUME Counting, [Next]_vars PROVE Counting'
      OBVIOUS
    <2>1. TypeInv' /\ Slot' /\ Validated' /\ Latest'
      BY TypeStep, SlotStep, ValidatedStep, LatestStep DEF Counting
    <2>2. BronzeOnce' /\ SilverOnce' /\ GoldCountsBreweries'
      BY BronzeOnceStep, SilverOnceStep, GoldCountsStep DEF Counting
    <2> QED
      BY <2>1, <2>2 DEF Counting
  <1>3. Counting => GoldCountsBreweries
    BY DEF Counting
  <1> QED
    BY <1>1, <1>2, <1>3, PTL DEF Spec
=============================================================================
