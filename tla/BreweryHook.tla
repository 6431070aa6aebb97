----------------------------- MODULE BreweryHook -----------------------------
(***************************************************************************)
(* One call of BreweryHook.run(): read the total from the meta endpoint,   *)
(* then request page after page, while the Open Brewery DB behind the API  *)
(* keeps changing.  An exception of the meta request leaves paginate and   *)
(* fails the Airflow task; an exception of a page request is caught and    *)
(* only ends the loop, so the pages collected so far are returned as if    *)
(* they were all there is.                                                 *)
(***************************************************************************)
EXTENDS PageMath, Sequences

CONSTANTS
  Breweries,   \* the records the API may list
  Listings,    \* the listings the API may hold when the call begins
  PerPage,     \* self.per_page (50 in the code)
  MaxChanges   \* bound: changes of the listing during one call

(* A brewery is listed once: the records of the Bronze snapshots are       *)
(* pairwise different.                                                     *)
Injective(s) == \A i, j \in 1..Len(s) : s[i] = s[j] => i = j

ASSUME HookAssumption ==
  /\ PerPage \in Nat \ {0}
  /\ MaxChanges \in Nat
  /\ \A s \in Listings : s \in Seq(Breweries) /\ Injective(s)

VARIABLES
  listing,             \* the API's records, in the order it pages through them
  drift,               \* history: the kinds of change made during this call
  pc,                  \* where paginate is, or the way it ended
  total_breweries,     \* the total read from the meta endpoint
  page_number,         \* the next page of the loop
  list_json_response   \* the pages collected so far

vars == <<listing, drift, pc, total_breweries, page_number, list_json_response>>
locals == <<total_breweries, page_number, list_json_response>>

(* The ways paginate returns a list: no total in the answer, every page    *)
(* fetched, an empty page, an exception of a page request.                 *)
Returned == {"noTotal", "complete", "emptyPage", "pageError"}

Init ==
  /\ listing \in Listings
  /\ drift = <<>>
  /\ pc = "meta"
  /\ total_breweries = 0
  /\ page_number = 1
  /\ list_json_response = <<>>

(***************************************************************************)
(* The API.  ?page=n&per_page=p answers with the records (n-1)p+1 .. np of *)
(* the listing as it is when the request arrives.                          *)
(***************************************************************************)
ApiPage(n) ==
  LET last == IF n * PerPage <= Len(listing) THEN n * PerPage ELSE Len(listing)
  IN  SubSeq(listing, (n - 1) * PerPage + 1, last)

(* Changes before the meta answer are covered by Init's choice of listing. *)
Change(kind, new) ==
  /\ pc = "pages"
  /\ Len(drift) < MaxChanges
  /\ listing' = new
  /\ drift' = Append(drift, kind)
  /\ UNCHANGED <<pc, locals>>

Listed == {listing[i] : i \in 1..Len(listing)}

ApiAppend ==
  \E b \in Breweries \ Listed : Change("append", Append(listing, b))

ApiInsert ==
  \E b \in Breweries \ Listed, i \in 1..Len(listing) :
    Change("insert", SubSeq(listing, 1, i - 1) \o <<b>>
                       \o SubSeq(listing, i, Len(listing)))

ApiDelete ==
  \E i \in 1..Len(listing) :
    Change("delete", SubSeq(listing, 1, i - 1)
                       \o SubSeq(listing, i + 1, Len(listing)))

(***************************************************************************)
(* paginate, step 1: the meta request.                                     *)
(***************************************************************************)
MetaTotal ==
  /\ pc = "meta"
  /\ listing # <<>>
  /\ total_breweries' = Len(listing)
  /\ pc' = "pages"
  /\ UNCHANGED <<listing, drift, page_number, list_json_response>>

(* 'total' is missing from the answer, or it is 0.                         *)
MetaNoTotal ==
  /\ pc = "meta"
  /\ pc' = "noTotal"
  /\ UNCHANGED <<listing, drift, locals>>

(* The request, its status check or the JSON decoding raises, outside any  *)
(* try block.                                                              *)
MetaFails ==
  /\ pc = "meta"
  /\ pc' = "raised"
  /\ UNCHANGED <<listing, drift, locals>>

(***************************************************************************)
(* paginate, step 2: one iteration of the page loop.                       *)
(***************************************************************************)
(* Mutant: the quotient is rounded down.                                   *)
total_pagesFloor == total_breweries \div PerPage

total_pages == TotalPages(total_breweries, PerPage)

(* Mutant: extend in place of append, which flattens the list of pages.    *)
FetchPageExtend ==
  /\ pc = "pages"
  /\ ApiPage(page_number) # <<>>
  /\ list_json_response' = list_json_response \o ApiPage(page_number)
  /\ page_number' = page_number + 1
  /\ pc' = IF page_number = total_pages THEN "complete" ELSE "pages"
  /\ UNCHANGED <<listing, drift, total_breweries>>

(* Mutant: 'page' is left out of the parameters, so page 1 is sent.        *)
FetchPageNoParam ==
  /\ pc = "pages"
  /\ ApiPage(1) # <<>>
  /\ list_json_response' = Append(list_json_response, ApiPage(1))
  /\ page_number' = page_number + 1
  /\ pc' = IF page_number = total_pages THEN "complete" ELSE "pages"
  /\ UNCHANGED <<listing, drift, total_breweries>>

FetchPage ==
  /\ pc = "pages"
  /\ ApiPage(page_number) # <<>>
  /\ list_json_response' = Append(list_json_response, ApiPage(page_number))
  /\ page_number' = page_number + 1
  /\ pc' = IF page_number = total_pages THEN "complete" ELSE "pages"
  /\ UNCHANGED <<listing, drift, total_breweries>>

(* Mutant: an empty page makes the loop start over.                        *)
FetchEmptyPageRestart ==
  /\ pc = "pages"
  /\ ApiPage(page_number) = <<>>
  /\ page_number' = 1
  /\ list_json_response' = <<>>
  /\ UNCHANGED <<listing, drift, pc, total_breweries>>

(* Mutant: an empty page is appended like any other.                       *)
FetchEmptyPageKept ==
  /\ pc = "pages"
  /\ ApiPage(page_number) = <<>>
  /\ list_json_response' = Append(list_json_response, <<>>)
  /\ page_number' = page_number + 1
  /\ pc' = IF page_number = total_pages THEN "complete" ELSE "pages"
  /\ UNCHANGED <<listing, drift, total_breweries>>

FetchEmptyPage ==
  /\ pc = "pages"
  /\ ApiPage(page_number) = <<>>
  /\ pc' = "emptyPage"
  /\ UNCHANGED <<listing, drift, locals>>

PageFails ==
  /\ pc = "pages"
  /\ pc' = "pageError"
  /\ UNCHANGED <<listing, drift, locals>>

Paginate == \/ MetaTotal \/ MetaNoTotal \/ MetaFails
            \/ FetchPage \/ FetchEmptyPage \/ PageFails
Api == ApiAppend \/ ApiInsert \/ ApiDelete
Next == Paginate \/ Api

(* The call is sequential Python and every request ends in an answer or an *)
(* exception, so paginate keeps moving; nothing is assumed of the API.     *)
Spec == Init /\ [][Next]_vars /\ WF_vars(Paginate)

-----------------------------------------------------------------------------
TypeOK ==
  /\ listing \in Seq(Breweries)
  /\ drift \in Seq({"append", "insert", "delete"})
  /\ pc \in {"meta", "pages", "raised"} \union Returned
  /\ total_breweries \in Nat
  /\ page_number \in Nat \ {0}
  /\ list_json_response \in Seq(Seq(Breweries))

OnlyDrift(kind) == \A i \in 1..Len(drift) : drift[i] = kind

(* Every record the meta request counted is in the result, at the page and *)
(* row its position in the listing determines, provided every page was     *)
(* fetched and the listing at most grew at its end meanwhile.  A page count *)
(* that is one short, a loop that starts or stops one page off, or a page  *)
(* skipped or fetched twice loses a record.                                *)
AppendOnlyComplete ==
  pc = "complete" /\ OnlyDrift("append") =>
    \A k \in 1..total_breweries :
      /\ PageOf(k, PerPage) \in 1..Len(list_json_response)
      /\ RowOf(k, PerPage) \in 1..Len(list_json_response[PageOf(k, PerPage)])
      /\ list_json_response[PageOf(k, PerPage)][RowOf(k, PerPage)] = listing[k]

Positions == {x \in (1..Len(list_json_response)) \X (1..PerPage) :
                x[2] <= Len(list_json_response[x[1]])}

(* No brewery is extracted twice while the listing only shrinks or only    *)
(* grows at its end: pages fetched by offset move records towards pages    *)
(* already read, never out of them.  (A record inserted before the current *)
(* offset does push a record already read onto the next page.)             *)
NoBreweryTwice ==
  OnlyDrift("delete") \/ OnlyDrift("append") =>
    \A x, y \in Positions :
      list_json_response[x[1]][x[2]] = list_json_response[y[1]][y[2]] => x = y

(* What paginate's docstring says it does: "extract all brewery data from  *)
(* the API".  Once the total is known, and with no change of the listing,  *)
(* whatever is returned holds every record listed.                         *)
ReturnsAllBreweries ==
  pc \in Returned /\ total_breweries # 0 /\ drift = <<>> =>
    \A i \in 1..Len(listing) :
      \E x \in Positions : list_json_response[x[1]][x[2]] = listing[i]

(* The call ends, whatever the API does to the listing: the number of      *)
(* requests is fixed by the total read once, never by the pages' contents. *)
Terminates == <>(pc \in Returned \union {"raised"})

(* What the caller sees of the call.                                       *)
statusBar == IF pc \in Returned THEN "returned"
             ELSE IF pc = "raised" THEN "raised" ELSE "running"
resultBar == IF pc \in Returned THEN list_json_response ELSE <<>>

(* The hook implements the contract its caller relies on: it ends once, and *)
(* what it returns is a list of non-empty pages of at most PerPage records, *)
(* nothing being handed out before the end or when the call raises.         *)
Contract == INSTANCE HookContract WITH status <- statusBar, result <- resultBar

ImplementsContract == Contract!Spec
=============================================================================
