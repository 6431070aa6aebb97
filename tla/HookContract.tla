---------------------------- MODULE HookContract ----------------------------
(***************************************************************************)
(* What BreweryOperator.execute relies on when it calls BreweryHook().run():*)
(* one step that either raises or returns a list of pages, each of which   *)
(* holds at least one and at most PerPage records.  Nothing is promised    *)
(* about how many pages there are: that is the weakness the pipeline built *)
(* on this contract has to live with.                                      *)
(***************************************************************************)
EXTENDS Integers, Sequences

CONSTANTS Breweries, PerPage

VARIABLES status, result

PageList(r) ==
  /\ r \in Seq(Seq(Breweries))
  /\ \A i \in 1..Len(r) : Len(r[i]) \in 1..PerPage

Init == status = "running" /\ result = <<>>

Return == /\ status = "running"
          /\ status' = "returned"
          /\ PageList(result')

Raise == /\ status = "running"
         /\ status' = "raised"
         /\ result' = <<>>

Next == Return \/ Raise

Spec == Init /\ [][Next]_<<status, result>>
=============================================================================
