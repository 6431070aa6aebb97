-------------------------- MODULE SchedulerProofs --------------------------
(***************************************************************************)
(* Theorems about Scheduler for every length of time and every pattern of  *)
(* outages.                                                                *)
(***************************************************************************)
EXTENDS Scheduler, TLAPS

(* The parse moves the next interval past the day it happens on; an        *)
(* interval that has had its run is over.                                  *)
Ahead ==
  /\ start_date <= today
  /\ start_date < next_dagrun
  /\ \A p \in parsed : p <= start_date
  /\ \A d \in runs : d < next_dagrun /\ d + 1 <= today

SchedInv == TypeOK /\ Ahead /\ OnlyMissedDays

LEMMA NextStartIs ==
  ASSUME NEW start \in Int, NEW ends \in SUBSET Int, NEW m \in {start + 1} \union ends,
         m >= start + 1, \A e \in ends : m >= e
  PROVE  NextStart(start, ends) = m
  <1> DEFINE P(d) == d >= start + 1 /\ \A e \in ends : d >= e
  <1>1. P(m)
    OBVIOUS
  <1>2. \A d \in {start + 1} \union ends : P(d) => d = m
    OBVIOUS
  <1> QED
    BY <1>1, <1>2 DEF NextStart

LEMMA ParseStep ==
  ASSUME SchedInv, Parse
  PROVE  SchedInv' /\ next_dagrun' = today + 1
  <1> USE SchedulerAssumption DEF SchedInv, TypeOK, Ahead, OnlyMissedDays, Days
  <1>1. Ends \in SUBSET Int /\ \A e \in Ends : today + 1 >= e
    BY DEF Ends
  <1>2. next_dagrun' = today + 1
    <2>1. today \in Int /\ today + 1 \in Int
      OBVIOUS
    <2>2. NextStart(today, Ends) = today + 1
      <3> HIDE DEF SchedInv, TypeOK, Ahead, OnlyMissedDays, Days
      <3> QED
        BY <1>1, <2>1, NextStartIs
    <2> QED
      BY <2>2 DEF Parse
  <1>3. today \notin runs
    OBVIOUS
  <1> QED
    BY <1>2, <1>3 DEF Parse

LEMMA CreateStep ==
  ASSUME SchedInv, Create
  PROVE  SchedInv' /\ next_dagrun' = next_dagrun + 1
  <1> USE SchedulerAssumption DEF SchedInv, TypeOK, Ahead, OnlyMissedDays, Days
  <1> DEFINE ends == Ends \union {next_dagrun + 1}
  <1>1. ends \in SUBSET Int /\ \A e \in ends : next_dagrun + 1 >= e
    BY DEF Ends
  <1>2. next_dagrun' = next_dagrun + 1
    <2>1. NextStart(start_date, ends) = next_dagrun + 1
      <3>1. start_date \in Int /\ next_dagrun + 1 >= start_date + 1
        OBVIOUS
      <3> HIDE DEF Ahead, OnlyMissedDays
      <3>2. next_dagrun + 1 \in {start_date + 1} \union ends
        OBVIOUS
      <3> HIDE DEF ends
      <3> QED
        BY <1>1, <3>1, <3>2, NextStartIs
    <2> QED
      BY <2>1 DEF Create
  <1>3. next_dagrun \notin parsed
    OBVIOUS
  <1>4. /\ next_dagrun + 1 <= today /\ runs' = runs \union {next_dagrun}
        /\ UNCHANGED <<today, up, started, stops, start_date, parsed>>
    BY DEF Create
  <1>5. TypeOK'
    BY <1>2, <1>4
  <1>6. Ahead'
    BY <1>2, <1>4
  <1>7. OnlyMissedDays'
    BY <1>3, <1>4
  <1> QED
    BY <1>2, <1>5, <1>6, <1>7

LEMMA SchedStep ==
  ASSUME SchedInv, [Next]_vars
  PROVE  SchedInv'
  <1> USE SchedulerAssumption DEF SchedInv, TypeOK, Ahead, OnlyMissedDays, Days
  <1>1. CASE Midnight
    <2>1. /\ today' = today + 1 /\ today < LastDay
          /\ UNCHANGED <<up, started, stops, start_date, parsed, next_dagrun, runs>>
      BY <1>1 DEF Midnight
    <2>2. TypeOK'
      BY <2>1
    <2>3. Ahead'
      BY <2>1
    <2> QED
      BY <2>1, <2>2, <2>3
  <1>2. CASE Stop
    <2>1. /\ stops < MaxStops /\ stops' = stops + 1 /\ up' = FALSE /\ started' = started
          /\ UNCHANGED <<today, start_date, parsed, next_dagrun, runs>>
      BY <1>2 DEF Stop
    <2>2. stops' \in 0..MaxStops
      BY <2>1
    <2>3. today' \in Days /\ started' \in Days /\ up' \in BOOLEAN /\ start_date' \in Days
      BY <2>1
    <2>4. parsed' \in SUBSET Days /\ next_dagrun' \in 1..(LastDay + 1) /\ runs' \in SUBSET Days
      BY <2>1
    <2>5. TypeOK'
      BY <2>2, <2>3, <2>4
    <2>6. Ahead' /\ OnlyMissedDays'
      BY <2>1
    <2> QED
      BY <2>5, <2>6
  <1>3. CASE Start
    <2>1. /\ up' = TRUE /\ started' = today /\ stops' = stops
          /\ UNCHANGED <<today, start_date, parsed, next_dagrun, runs>>
      BY <1>3 DEF Start
    <2>2. TypeOK'
      BY <2>1
    <2>3. Ahead' /\ OnlyMissedDays'
      BY <2>1
    <2> QED
      BY <2>2, <2>3
  <1>4. CASE UNCHANGED vars
    BY <1>4 DEF vars
  <1> QED
    BY <1>1, <1>2, <1>3, <1>4, ParseStep, CreateStep DEF Next

LEMMA SchedInit == Init => SchedInv
  BY SchedulerAssumption DEF Init, SchedInv, TypeOK, Ahead, OnlyMissedDays, Days

(* Type correctness.                                                       *)
THEOREM SchedulerTypeCorrect == Spec => []TypeOK
  <1>1. SchedInv => TypeOK
    BY DEF SchedInv
  <1> QED
    BY <1>1, SchedInit, SchedStep, PTL DEF Spec

(* start_date=datetime.now(): no day on which the file is parsed ever gets *)
(* a run of the schedule.                                                  *)
THEOREM NoRunOnParsedDays == Spec => []OnlyMissedDays
  <1>1. SchedInv => OnlyMissedDays
    BY DEF SchedInv
  <1> QED
    BY <1>1, SchedInit, SchedStep, PTL DEF Spec

(* Scheduled runs are created in the order of their days, each once: what  *)
(* BreweryDAG assumes of its CreateScheduled.                              *)
THEOREM RunsCreatedInOrder == Spec => CreatedInOrder
  <1>1. SchedInv /\ [Next]_vars =>
          [Create => \A d \in runs : d < next_dagrun]_vars
    BY DEF SchedInv, Ahead
  <1> QED
    BY <1>1, SchedInit, SchedStep, PTL DEF Spec, CreatedInOrder
=============================================================================
