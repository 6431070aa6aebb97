---------------------------- MODULE ApiExtraction ----------------------------
(***************************************************************************)
(* The standalone script api_extraction.py: ask for the total, then print  *)
(* page after page.  Its request_api turns every failure into None, so a   *)
(* request never raises here; what the script does with a None is the      *)
(* question.  What it has under the hook's names is called script_..., so  *)
(* that one module can speak of both.                                      *)
(***************************************************************************)
EXTENDS PageMath, Sequences

CONSTANTS
  per_page,  \* 50 in the script
  MaxTotal   \* bound: the largest total the API reports

ASSUME ApiExtractionAssumption == per_page \in Nat \ {0} /\ MaxTotal \in Nat

(* A page printed as null, and a name that no statement has bound.         *)
Null == 0
Unbound == -1

VARIABLES
  script_pc,           \* where the script is
  script_total_pages,  \* total_pages, Unbound until the total is known
  total,               \* history: the total the API reported
  script_page_number,  \* page_number, the next page of the loop
  printed              \* the pages printed, by number, or Null

script_vars == <<script_pc, script_total_pages, total, script_page_number, printed>>

ScriptInit ==
  /\ script_pc = "meta"
  /\ script_total_pages = Unbound
  /\ total = 0
  /\ script_page_number = 1
  /\ printed = <<>>

ScriptMetaTotal ==
  /\ script_pc = "meta"
  /\ total' \in 0..MaxTotal
  /\ script_total_pages' = ScriptTotalPages(total', per_page)
  /\ script_pc' = "range"
  /\ UNCHANGED <<script_page_number, printed>>

(* request_api returned None, or the answer has no 'total'; the script     *)
(* says so and goes on.                                                    *)
ScriptMetaNoTotal ==
  /\ script_pc = "meta"
  /\ script_pc' = "range"
  /\ UNCHANGED <<script_total_pages, total, script_page_number, printed>>

(* for page_number in range(1, total_pages + 1)                            *)
EnterLoop ==
  /\ script_pc = "range"
  /\ script_pc' = IF script_total_pages = Unbound THEN "NameError" ELSE "loop"
  /\ UNCHANGED <<script_total_pages, total, script_page_number, printed>>

(* Mutant: request_api raises for a page that fails.                       *)
PrintPageRaises ==
  /\ script_pc = "loop"
  /\ script_page_number <= script_total_pages
  /\ \/ /\ printed' = Append(printed, script_page_number)
        /\ script_page_number' = script_page_number + 1
        /\ UNCHANGED script_pc
     \/ script_pc' = "raised" /\ UNCHANGED <<printed, script_page_number>>
  /\ UNCHANGED <<script_total_pages, total>>

PrintPage ==
  /\ script_pc = "loop"
  /\ script_page_number <= script_total_pages
  /\ \E page \in {script_page_number, Null} : printed' = Append(printed, page)
  /\ script_page_number' = script_page_number + 1
  /\ UNCHANGED <<script_pc, script_total_pages, total>>

(* Mutant: the upper end of range is exclusive, which is forgotten.        *)
LeaveLoopEarly ==
  /\ script_pc = "loop"
  /\ script_page_number >= script_total_pages
  /\ script_pc' = "done"
  /\ UNCHANGED <<script_total_pages, total, script_page_number, printed>>

LeaveLoop ==
  /\ script_pc = "loop"
  /\ script_page_number > script_total_pages
  /\ script_pc' = "done"
  /\ UNCHANGED <<script_total_pages, total, script_page_number, printed>>

ScriptNext == ScriptMetaTotal \/ ScriptMetaNoTotal \/ EnterLoop \/ PrintPage \/ LeaveLoop

ScriptSpec == ScriptInit /\ [][ScriptNext]_script_vars /\ WF_script_vars(ScriptNext)

-----------------------------------------------------------------------------
(* "Loop through all pages and fetch the data": when the loop is over,     *)
(* each record the API counted is on a page that was printed in its place  *)
(* or failed alone, and no page beyond the last record was asked for.      *)
(* Unlike in the hook, a page that fails costs no other page.              *)
EveryRecordAskedFor ==
  script_pc = "done" =>
    /\ Len(printed) = IF total = 0 THEN 0 ELSE PageOf(total, per_page)
    /\ \A k \in 1..total : printed[PageOf(k, per_page)] \in {PageOf(k, per_page), Null}

(* Once it knows the total the script comes to its last line, whichever    *)
(* pages fail.  (Without the total it prints "The system was unable to     *)
(* retrieve the total", goes on to its loop and ends with a NameError,     *)
(* since total_pages is unbound.)                                          *)
RunsToTheEnd == script_total_pages # Unbound ~> script_pc = "done"
=============================================================================
