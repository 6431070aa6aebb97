----------------------------- MODULE Aggregation -----------------------------
(***************************************************************************)
(* The data side of aggregation.py.  The Silver table is a function from   *)
(* the process_date partitions that exist to their rows; a Gold partition  *)
(* counts rows per (brewery_type, country).  The steps of the job are in   *)
(* BreweryDAG.                                                             *)
(***************************************************************************)
EXTENDS Integers, FiniteSets

CONSTANT Group  \* the (brewery_type, country) of each record

required_columns == {"brewery_type", "country", "process_date"}

(* process_date is the partition column Spark adds to the columns of the   *)
(* Parquet file it takes the schema from.                                  *)
validate_aggregation_schema(columns) ==
  required_columns \subseteq columns \union {"process_date"}

(* Mutant: min for max.                                                    *)
EarliestDate(silver) ==
  LET dates == {d \in DOMAIN silver : silver[d] # {}}
  IN  {d \in dates : \A e \in dates : d <= e}

(* df.agg(max(process_date)): the latest date of any row, and none when no *)
(* partition has a row.                                                    *)
LatestDate(silver) ==
  LET dates == {d \in DOMAIN silver : silver[d] # {}}
  IN  {d \in dates : \A e \in dates : e <= d}

(* Mutant: the unfiltered DataFrame is returned.                           *)
AllRows(silver, latest) == UNION {silver[d] : d \in DOMAIN silver}

(* df.filter(process_date == latest_date); the empty DataFrame when there  *)
(* is no latest date.                                                      *)
FilterRows(silver, latest) == UNION {silver[d] : d \in latest}

(* groupBy(brewery_type, country).count().  The order of the result rows   *)
(* is left out.                                                            *)
get_aggregate(rows) ==
  [g \in {Group[row[3]] : row \in rows} |->
     Cardinality({row \in rows : Group[row[3]] = g})]
=============================================================================
