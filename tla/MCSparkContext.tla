--------------------------- MODULE MCSparkContext ---------------------------
(* Programs that construct or that call getOrCreate, and stop a context up  *)
(* to twice, and programs that do both.                                     *)
EXTENDS SparkContext

MCPrograms ==
  {[calls |-> {"SparkContext"}, stops |-> 2], [calls |-> {"getOrCreate"}, stops |-> 2]}
    \union [calls : SUBSET {"SparkContext", "getOrCreate"}, stops : {1}]
=============================================================================
