------------------------------ MODULE Scheduler ------------------------------
(***************************************************************************)
(* When the schedule of BreweryDAG creates a run.  The DAG says            *)
(*     start_date=datetime.now(), schedule_interval="@daily"               *)
(* and Airflow evaluates it at every parse of the file, every 30 seconds   *)
(* while the scheduler is up.  A parse writes the next data interval to    *)
(* the database: it starts at the first midnight that is neither before    *)
(* start_date nor before the end of the last scheduled interval.  A run is *)
(* created once its interval is over.                                      *)
(***************************************************************************)
EXTENDS Integers

CONSTANTS
  LastDay,   \* bound: the last day of the clock
  MaxStops   \* bound: how often the scheduler is stopped

ASSUME SchedulerAssumption == LastDay \in Nat /\ MaxStops \in Nat

VARIABLES
  today,        \* the date of the wall clock
  up,           \* the scheduler is running
  started,      \* the day it was started last
  stops,        \* how often it was stopped
  start_date,   \* the day of start_date, as of the last parse
  parsed,       \* history: the days on which the file was parsed
  next_dagrun,  \* the first day of the next interval
  runs          \* the scheduled runs created, by the day they are for

vars == <<today, up, started, stops, start_date, parsed, next_dagrun, runs>>

Days == 0..LastDay

(* The scheduler is started, and parses the file, on day 0.                *)
Init ==
  /\ today = 0
  /\ up = TRUE
  /\ started = 0
  /\ stops = 0
  /\ start_date = 0
  /\ parsed = {0}
  /\ next_dagrun = 1
  /\ runs = {}

(* The ends of the intervals created so far.                               *)
Ends == {d + 1 : d \in runs}

(* The first midnight after a moment of day start at which no interval     *)
(* created so far is still open.                                           *)
NextStart(start, ends) ==
  CHOOSE d \in {start + 1} \union ends :
    d >= start + 1 /\ \A e \in ends : d >= e

(* Mutant: start_date=days_ago(1), which the DAG file imports.             *)
ParseDaysAgo ==
  /\ up
  /\ start_date' = today
  /\ parsed' = parsed \union {today}
  /\ next_dagrun' = NextStart(today - 2, Ends \union {1})
  /\ UNCHANGED <<today, up, started, stops, runs>>

(* Mutant: the same, and intervals that have had their run are not heeded. *)
ParseForgets ==
  /\ up
  /\ start_date' = today
  /\ parsed' = parsed \union {today}
  /\ next_dagrun' = NextStart(today - 2, {1})
  /\ UNCHANGED <<today, up, started, stops, runs>>

(* Mutant: an interval may start at the midnight before start_date.        *)
ParseToday ==
  /\ up
  /\ start_date' = today
  /\ parsed' = parsed \union {today}
  /\ next_dagrun' = NextStart(today - 1, Ends)
  /\ UNCHANGED <<today, up, started, stops, runs>>

Parse ==
  /\ up
  /\ start_date' = today
  /\ parsed' = parsed \union {today}
  /\ next_dagrun' = NextStart(today, Ends)
  /\ UNCHANGED <<today, up, started, stops, runs>>

(* The scheduler loop works on what the last parse wrote.  It may run      *)
(* before the first parse after a start.                                   *)
Create ==
  /\ up
  /\ next_dagrun + 1 <= today
  /\ runs' = runs \union {next_dagrun}
  /\ next_dagrun' = NextStart(start_date, Ends \union {next_dagrun + 1})
  /\ UNCHANGED <<today, up, started, stops, start_date, parsed>>

(* A scheduler that was up all day has parsed the file on that day.        *)
Midnight ==
  /\ today < LastDay
  /\ up => today \in parsed \/ started = today
  /\ today' = today + 1
  /\ UNCHANGED <<up, started, stops, start_date, parsed, next_dagrun, runs>>

Stop ==
  /\ up
  /\ stops < MaxStops
  /\ up' = FALSE
  /\ stops' = stops + 1
  /\ UNCHANGED <<today, started, start_date, parsed, next_dagrun, runs>>

Start ==
  /\ ~up
  /\ up' = TRUE
  /\ started' = today
  /\ UNCHANGED <<today, stops, start_date, parsed, next_dagrun, runs>>

Next == Parse \/ Create \/ Midnight \/ Stop \/ Start

(* Time passes, and a scheduler that is up parses the file and creates the *)
(* runs that are due.                                                      *)
Spec == /\ Init /\ [][Next]_vars
        /\ WF_vars(Midnight) /\ WF_vars(Parse) /\ WF_vars(Create)

-----------------------------------------------------------------------------
TypeOK ==
  /\ today \in Days
  /\ up \in BOOLEAN
  /\ started \in Days
  /\ stops \in 0..MaxStops
  /\ start_date \in Days
  /\ parsed \in SUBSET Days
  /\ next_dagrun \in 1..(LastDay + 1)
  /\ runs \in SUBSET Days

(* A day gets a scheduled run only if the file was not parsed on that day: *)
(* only a day the scheduler was not up for at all can get one.  Whenever   *)
(* the file is parsed, start_date moves the interval of that day out of    *)
(* reach.                                                                  *)
OnlyMissedDays == runs \intersect parsed = {}

(* What BreweryDAG takes for granted of its CreateScheduled: a run is      *)
(* created for a later day than every scheduled run before it, and so for  *)
(* no day twice, however the outages fall.                                 *)
CreatedInOrder == [][Create => \A d \in runs : d < next_dagrun]_vars

(* The comment of brewery_dag.py beside the schedule: "DAG runs daily".    *)
(* Every whole day but the one the scheduler is first started on gets a    *)
(* run.                                                                    *)
DailyRun == \A d \in 1..(LastDay - 1) : <>(d \in runs)
=============================================================================
