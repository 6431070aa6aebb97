---------------------------- MODULE MCBreweryDAG ----------------------------
(* BreweryDAG with two breweries of different groups: b1 has every key of   *)
(* the API's records, b2 comes without one of the expected keys, so that a  *)
(* file that only holds b2 fails the validation.                            *)
EXTENDS BreweryDAG, TLC

CONSTANTS b1, b2

MCColumns == (b1 :> expected_columns)
               @@ (b2 :> expected_columns \ {"website_url"})
               @@ (Corrupt :> {"_corrupt_record"})

MCGroup == (b1 :> "micro, US") @@ (b2 :> "large, US") @@ (Corrupt :> "null, null")

(* Nothing, one page without and one with all columns, and two pages.       *)
MCHookResults == {<<>>, <<{b2}>>, <<{b1}>>, <<{b2}, {b1}>>}

(* For the run with liveness: one result of each length.                    *)
MCMainResults == {<<>>, <<{b2}>>, <<{b2}, {b1}>>}

(* The identifiers of runs are interchangeable (safety runs only).          *)
Symmetry == Permutations(Runs)
=============================================================================
