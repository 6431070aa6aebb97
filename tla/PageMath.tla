------------------------------ MODULE PageMath ------------------------------
(***************************************************************************)
(* The page arithmetic shared by BreweryHook.paginate and the standalone   *)
(* script api_extraction.py.  Both ask the API for pages 1..n of a fixed   *)
(* size, and both compute n from a total the API reported beforehand.      *)
(***************************************************************************)
EXTENDS Integers

(* The hook: ceil(total_breweries / self.per_page).  Python's ceil of the  *)
(* quotient is the negated floor of the negated quotient; the float        *)
(* division is exact for every total below 2^53.                           *)
TotalPages(total, perPage) == -((-total) \div perPage)

(* The script: (total_breweries + per_page - 1) // per_page.               *)
ScriptTotalPages(total, perPage) == (total + perPage - 1) \div perPage

(* The page, and the row of that page, that hold the k-th record of a      *)
(* listing served in pages of perPage records.                             *)
PageOf(k, perPage) == ((k - 1) \div perPage) + 1
RowOf(k, perPage)  == ((k - 1) % perPage) + 1
=============================================================================
