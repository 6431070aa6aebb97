--------------------------- MODULE MCSparkSession ---------------------------
(* All programs.                                                            *)
EXTENDS SparkSession

MCPrograms == [overlap : BOOLEAN, again : BOOLEAN]
=============================================================================
