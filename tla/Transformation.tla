--------------------------- MODULE Transformation ---------------------------
(***************************************************************************)
(* The data side of transformation.py: what spark.read.json yields for a   *)
(* Bronze directory and what validate_schema says of it.  The steps of the *)
(* job, and the ways it can die between them, are in BreweryDAG.           *)
(*                                                                         *)
(* A Bronze file is the sequence of its lines; a line is the set of the    *)
(* records of one page.  A line cut short by a crash is not JSON: Spark's  *)
(* permissive mode turns it into one row that only has _corrupt_record.    *)
(***************************************************************************)
EXTENDS Integers, Sequences

CONSTANTS
  Breweries,  \* the records of the API
  Columns,    \* the keys of each record; the API may leave keys out
  Corrupt     \* the row Spark makes of a line that is not JSON

ASSUME TransformationAssumption ==
  /\ Corrupt \notin Breweries
  /\ \A b \in Breweries : "_corrupt_record" \notin Columns[b]
  /\ Columns[Corrupt] = {"_corrupt_record"}

Records == Breweries \union {Corrupt}

expected_columns ==
  {"address_1", "address_2", "address_3", "brewery_type", "city", "country",
   "id", "latitude", "longitude", "name", "phone", "postal_code", "state",
   "state_province", "street", "website_url"}

(* The rows of one file.  A row carries the file (by the date in its name) *)
(* and the line it comes from, so that equal records stay different rows.  *)
FileRows(bronze, path) ==
  UNION {{<<path[2], i, rec>> : rec \in bronze[path][i]} :
           i \in 1..Len(bronze[path])}

(* spark.read.json(src) on the directory extract_date=e: the rows of every *)
(* file in it, whichever run wrote the file.                               *)
ReadJson(bronze, e) ==
  UNION {FileRows(bronze, path) : path \in {p \in DOMAIN bronze : p[1] = e}}

(* df.columns: Spark infers a column from any row that has the key.        *)
DfColumns(rows) == UNION {Columns[row[3]] : row \in rows}

validate_schema(rows) == expected_columns \subseteq DfColumns(rows)
=============================================================================
