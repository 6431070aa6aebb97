------------------------- MODULE BreweryHookProofs -------------------------
(***************************************************************************)
(* Theorems about one call of BreweryHook.run(), for every set of          *)
(* breweries, every page size and every number of changes of the listing,  *)
(* and about the other paginator of the repository, api_extraction.py.     *)
(* Both rest on the page arithmetic, whose facts come first.               *)
(***************************************************************************)
EXTENDS BreweryHook, ApiExtraction, SequenceTheorems, TLAPS

-----------------------------------------------------------------------------
(* Division with remainder by the page size.                               *)
LEMMA DivMod ==
  ASSUME NEW a \in Int, NEW p \in Nat \ {0}
  PROVE  /\ a \div p \in Int
         /\ a % p \in 0..(p - 1)
         /\ a = p * (a \div p) + (a % p)
  OBVIOUS

(* The k-th record of a listing is in row RowOf(k) of page PageOf(k).      *)
LEMMA Position ==
  ASSUME NEW k \in Nat \ {0}, NEW p \in Nat \ {0}
  PROVE  /\ PageOf(k, p) \in Nat \ {0}
         /\ RowOf(k, p) \in 1..p
         /\ k = (PageOf(k, p) - 1) * p + RowOf(k, p)
  <1> DEFINE q == (k - 1) \div p
             r == (k - 1) % p
  <1>1. /\ q \in Int
        /\ r \in 0..(p - 1)
        /\ k - 1 = p * q + r
    <2>1. k - 1 \in Int
      OBVIOUS
    <2> QED
      BY <2>1, DivMod
  <1> HIDE DEF q, r
  <1>2. q >= 0
    BY <1>1
  <1>3. PageOf(k, p) = q + 1 /\ RowOf(k, p) = r + 1
    BY DEF PageOf, RowOf, q, r
  <1> QED
    BY <1>1, <1>2, <1>3

(* ceil(total / per_page): the last page is the first one that reaches the *)
(* total.                                                                  *)
LEMMA CeilBounds ==
  ASSUME NEW t \in Nat, NEW p \in Nat \ {0}
  PROVE  /\ TotalPages(t, p) \in Nat
         /\ t <= TotalPages(t, p) * p
         /\ t > 0 => TotalPages(t, p) > 0 /\ (TotalPages(t, p) - 1) * p < t
  <1> DEFINE q == (-t) \div p
             r == (-t) % p
  <1>1. /\ q \in Int
        /\ r \in 0..(p - 1)
        /\ -t = p * q + r
    BY DivMod
  <1> HIDE DEF q, r
  <1>2. TotalPages(t, p) = -q
    BY DEF TotalPages, q
  <1>3. q <= 0 /\ (t > 0 => q < 0)
    BY <1>1
  <1>4. p * q = q * p
    BY <1>1
  <1>5. t <= (-q) * p
    BY <1>1, <1>4
  <1>6. (-q - 1) * p < t
    BY <1>1, <1>4
  <1> QED
    BY <1>1, <1>2, <1>3, <1>5, <1>6

(* The first t records all lie on the first TotalPages(t, p) pages.        *)
LEMMA PageInRange ==
  ASSUME NEW t \in Nat, NEW p \in Nat \ {0}, NEW k \in 1..t
  PROVE  PageOf(k, p) <= TotalPages(t, p)
  <1> DEFINE n == PageOf(k, p)
             m == TotalPages(t, p)
  <1>1. k \in Nat \ {0} /\ k <= t
    OBVIOUS
  <1>2. n \in Nat \ {0} /\ (n - 1) * p < k
    <2>1. n \in Nat \ {0} /\ k = (n - 1) * p + RowOf(k, p) /\ RowOf(k, p) \in 1..p
      BY <1>1, Position
    <2> HIDE DEF n
    <2> QED
      BY <2>1
  <1>3. m \in Nat /\ t <= m * p
    BY CeilBounds
  <1> HIDE DEF n, m
  <1>4. ASSUME n > m
        PROVE  FALSE
    <2>1. PICK d \in Nat : n - 1 = m + d
      BY <1>2, <1>3, <1>4
    <2>2. (n - 1) * p = m * p + d * p /\ d * p >= 0
      BY <1>3, <2>1
    <2> QED
      BY <1>1, <1>2, <1>3, <2>2
  <1> QED
    BY <1>2, <1>3, <1>4 DEF n, m

(* Two numbers of pages that both reach the total, and whose last pages are *)
(* both needed, are the same.                                               *)
LEMMA CeilUnique ==
  ASSUME NEW t \in Nat, NEW p \in Nat \ {0}, NEW m \in Int, NEW n \in Int,
         t <= m * p, (m - 1) * p < t, t <= n * p, (n - 1) * p < t
  PROVE  m = n
  <1>1. ASSUME NEW a \in Int, NEW b \in Int, a < b, t <= a * p, (b - 1) * p < t
        PROVE  FALSE
    <2>1. PICK d \in Nat : b - 1 = a + d
      BY <1>1
    <2>2. (b - 1) * p = a * p + d * p /\ d * p >= 0
      BY <2>1
    <2> QED
      BY <1>1, <2>2
  <1> QED
    BY <1>1

(* The hook and the standalone script ask for the same number of pages.    *)
THEOREM SameTotalPages ==
  ASSUME NEW t \in Nat \ {0}, NEW p \in Nat \ {0}
  PROVE  ScriptTotalPages(t, p) = TotalPages(t, p)
  <1> DEFINE q == (t + p - 1) \div p
             r == (t + p - 1) % p
  <1>1. /\ q \in Int
        /\ r \in 0..(p - 1)
        /\ t + p - 1 = p * q + r
    <2>1. t + p - 1 \in Int
      OBVIOUS
    <2> QED
      BY <2>1, DivMod
  <1>2. ScriptTotalPages(t, p) = q
    BY DEF ScriptTotalPages
  <1> HIDE DEF q, r
  <1>3. p * q = q * p /\ (q - 1) * p = q * p - p
    BY <1>1
  <1>4. t <= q * p /\ (q - 1) * p < t
    BY <1>1, <1>3
  <1> DEFINE n == TotalPages(t, p)
  <1>5. n \in Int /\ t <= n * p /\ (n - 1) * p < t
    BY CeilBounds
  <1> HIDE DEF n
  <1>6. q = n
    BY <1>1, <1>4, <1>5, CeilUnique
  <1> QED
    BY <1>2, <1>6 DEF n

-----------------------------------------------------------------------------
(* A page is a piece of the listing: its q-th row is the record at offset  *)
(* (n-1) * per_page + q.                                                   *)
LEMMA PageContents ==
  ASSUME listing \in Seq(Breweries), NEW n \in Nat \ {0}
  PROVE  /\ ApiPage(n) \in Seq(Breweries)
         /\ \A q \in 1..PerPage :
              (n - 1) * PerPage + q <= Len(listing) =>
                /\ q \in 1..Len(ApiPage(n))
                /\ ApiPage(n)[q] = listing[(n - 1) * PerPage + q]
  <1> USE HookAssumption
  <1> DEFINE m == (n - 1) * PerPage
             last == IF n * PerPage <= Len(listing) THEN n * PerPage ELSE Len(listing)
  <1>1. m \in Nat /\ n * PerPage = m + PerPage /\ Len(listing) \in Nat
    OBVIOUS
  <1>2. ApiPage(n) = SubSeq(listing, m + 1, last)
    BY DEF ApiPage
  <1>3. last \in Nat /\ last <= Len(listing) /\ last <= m + PerPage
    BY <1>1
  <1>4. \A q \in 1..PerPage : m + q <= Len(listing) => m + q <= last
    BY <1>1
  <1> HIDE DEF m, last
  <1>5. ApiPage(n) \in Seq(Breweries)
    BY <1>1, <1>2, <1>3
  <1>6. ASSUME NEW q \in 1..PerPage, m + q <= Len(listing)
        PROVE  q \in 1..Len(ApiPage(n)) /\ ApiPage(n)[q] = listing[m + q]
    <2>1. Len(ApiPage(n)) = last - m
      BY <1>1, <1>2, <1>3, <1>4, <1>6
    <2>2. q \in 1..Len(ApiPage(n))
      BY <1>1, <1>3, <1>4, <1>6, <2>1
    <2>3. ApiPage(n)[q] = listing[m + q]
      BY <1>1, <1>2, <1>3, <2>1, <2>2
    <2> QED
      BY <2>2, <2>3
  <1> QED
    BY <1>5, <1>6 DEF m

(* Every action of the API and of paginate keeps the type invariant.       *)
LEMMA TypeOKStep ==
  ASSUME TypeOK, [Next]_vars
  PROVE  TypeOK'
  <1> USE HookAssumption DEF TypeOK
  <1>1. ASSUME NEW b \in Breweries, Change("append", Append(listing, b))
        PROVE  TypeOK'
    BY <1>1 DEF Change, locals
  <1>2. ASSUME NEW b \in Breweries, NEW i \in 1..Len(listing),
               Change("insert", SubSeq(listing, 1, i - 1) \o <<b>>
                                  \o SubSeq(listing, i, Len(listing)))
        PROVE  TypeOK'
    <2>1. /\ SubSeq(listing, 1, i - 1) \in Seq(Breweries)
          /\ SubSeq(listing, i, Len(listing)) \in Seq(Breweries)
          /\ <<b>> \in Seq(Breweries)
      OBVIOUS
    <2>2. SubSeq(listing, 1, i - 1) \o <<b>> \o SubSeq(listing, i, Len(listing))
            \in Seq(Breweries)
      BY <2>1, ConcatProperties
    <2> QED
      BY <1>2, <2>2 DEF Change, locals
  <1>3. ASSUME NEW i \in 1..Len(listing),
               Change("delete", SubSeq(listing, 1, i - 1)
                                  \o SubSeq(listing, i + 1, Len(listing)))
        PROVE  TypeOK'
    <2>1. /\ SubSeq(listing, 1, i - 1) \in Seq(Breweries)
          /\ SubSeq(listing, i + 1, Len(listing)) \in Seq(Breweries)
      OBVIOUS
    <2>2. SubSeq(listing, 1, i - 1) \o SubSeq(listing, i + 1, Len(listing))
            \in Seq(Breweries)
      BY <2>1, ConcatProperties
    <2> QED
      BY <1>3, <2>2 DEF Change, locals
  <1>4. CASE MetaTotal \/ MetaNoTotal \/ MetaFails
    BY <1>4 DEF MetaTotal, MetaNoTotal, MetaFails, locals, Returned
  <1>5. CASE FetchPage
    <2>1. ApiPage(page_number) \in Seq(Breweries)
      BY PageContents
    <2> QED
      BY <1>5, <2>1, AppendProperties DEF FetchPage, Returned
  <1>6. CASE FetchEmptyPage \/ PageFails
    BY <1>6 DEF FetchEmptyPage, PageFails, locals, Returned
  <1>7. CASE UNCHANGED vars
    BY <1>7 DEF vars
  <1> QED
    BY <1>1, <1>2, <1>3, <1>4, <1>5, <1>6, <1>7
    DEF Next, Paginate, Api, ApiAppend, ApiInsert, ApiDelete

(* Type correctness of the hook's local state and of the API's listing.    *)
THEOREM HookTypeCorrect == Spec => []TypeOK
  <1>1. Init => TypeOK
    BY HookAssumption DEF Init, TypeOK, Returned
  <1>2. TypeOK /\ [Next]_vars => TypeOK'
    BY TypeOKStep
  <1> QED
    BY <1>1, <1>2, PTL DEF Spec

-----------------------------------------------------------------------------
(***************************************************************************)
(* Completeness.  AppendOnlyComplete speaks of the end of the call; its    *)
(* inductive form Extracted says what has been extracted at each turn of   *)
(* the loop.                                                               *)
(***************************************************************************)
InPlace(k) ==
  /\ PageOf(k, PerPage) \in 1..Len(list_json_response)
  /\ RowOf(k, PerPage) \in 1..Len(list_json_response[PageOf(k, PerPage)])
  /\ list_json_response[PageOf(k, PerPage)][RowOf(k, PerPage)] = listing[k]

Extracted ==
  /\ pc = "meta" => page_number = 1 /\ list_json_response = <<>>
  /\ pc \in {"pages", "complete"} /\ OnlyDrift("append") =>
       /\ total_breweries \in 1..Len(listing)
       /\ Len(list_json_response) = page_number - 1
       /\ pc = "pages" => page_number <= total_pages
       /\ pc = "complete" => page_number = total_pages + 1
       /\ \A k \in 1..total_breweries :
            PageOf(k, PerPage) < page_number => InPlace(k)

LEMMA ExtractedImplies ==
  ASSUME TypeOK, Extracted
  PROVE  AppendOnlyComplete
  <1> USE HookAssumption DEF TypeOK
  <1> SUFFICES ASSUME pc = "complete", OnlyDrift("append"),
                      NEW k \in 1..total_breweries
               PROVE  InPlace(k)
    BY DEF AppendOnlyComplete, InPlace
  <1>1. PageOf(k, PerPage) \in Nat \ {0}
    <2>1. k \in Nat \ {0}
      OBVIOUS
    <2> QED
      BY <2>1, Position
  <1>2. PageOf(k, PerPage) <= total_pages /\ total_pages \in Nat
    BY PageInRange, CeilBounds DEF total_pages
  <1> QED
    BY <1>1, <1>2 DEF Extracted

(* The API may append records: what was read keeps its place.              *)
LEMMA ExtractedAppend ==
  ASSUME TypeOK, Extracted, ApiAppend
  PROVE  Extracted'
  <1> USE HookAssumption DEF TypeOK
  <1>1. PICK b \in Breweries : Change("append", Append(listing, b))
    BY DEF ApiAppend
  <1>2. /\ pc = "pages" /\ pc' = pc
        /\ listing' = Append(listing, b)
        /\ drift' = Append(drift, "append")
        /\ UNCHANGED locals
    BY <1>1 DEF Change
  <1>3. OnlyDrift("append")' => OnlyDrift("append")
    <2>1. Len(drift') = Len(drift) + 1 /\ \A i \in 1..Len(drift) : drift'[i] = drift[i]
      BY <1>2
    <2> QED
      BY <2>1 DEF OnlyDrift
  <1>4. /\ Len(listing') = Len(listing) + 1
        /\ \A k \in 1..Len(listing) : listing'[k] = listing[k]
    BY <1>2
  <1>5. ASSUME total_breweries \in 1..Len(listing), NEW k \in 1..total_breweries, InPlace(k)
        PROVE  InPlace(k)'
    BY <1>2, <1>4, <1>5 DEF InPlace, locals
  <1>6. /\ UNCHANGED <<total_breweries, page_number, list_json_response>>
        /\ total_pages' = total_pages
    BY <1>2 DEF locals, total_pages
  <1> HIDE DEF TypeOK
  <1> QED
    BY ONLY Extracted, TypeOK, HookAssumption, <1>2, <1>3, <1>4, <1>5, <1>6
    DEF Extracted, TypeOK

(* Any other change of the listing is outside what Extracted speaks of.    *)
LEMMA ExtractedOther ==
  ASSUME TypeOK, Extracted, ApiInsert \/ ApiDelete
  PROVE  Extracted'
  <1>1. PICK kind \in {"insert", "delete"} :
          pc = "pages" /\ pc' = pc /\ drift' = Append(drift, kind)
    BY DEF ApiInsert, ApiDelete, Change
  <1>2. ~OnlyDrift("append")'
    <2>1. Len(drift) + 1 \in 1..Len(drift') /\ drift'[Len(drift) + 1] = kind
      BY <1>1 DEF TypeOK
    <2> QED
      BY <2>1 DEF OnlyDrift
  <1> QED
    BY <1>1, <1>2 DEF Extracted

(* One more page: its records are in place, those of earlier pages stay.   *)
LEMMA ExtractedPage ==
  ASSUME TypeOK, Extracted, FetchPage
  PROVE  Extracted'
  <1> USE HookAssumption DEF TypeOK
  <1> DEFINE n == page_number
             page == ApiPage(n)
  <1>1. /\ pc = "pages"
        /\ list_json_response' = Append(list_json_response, page)
        /\ page_number' = n + 1
        /\ pc' = IF n = total_pages THEN "complete" ELSE "pages"
        /\ UNCHANGED <<listing, drift, total_breweries>>
    BY DEF FetchPage
  <1>2. /\ page \in Seq(Breweries)
        /\ \A q \in 1..PerPage :
             (n - 1) * PerPage + q <= Len(listing) =>
               q \in 1..Len(page) /\ page[q] = listing[(n - 1) * PerPage + q]
    BY PageContents
  <1> HIDE DEF page
  <1>3. total_pages' = total_pages /\ total_pages \in Nat
    BY <1>1, CeilBounds DEF total_pages
  <1>4. CASE ~OnlyDrift("append")
    BY <1>1, <1>4 DEF Extracted, OnlyDrift
  <1>5. CASE OnlyDrift("append")
    <2>1. /\ total_breweries \in 1..Len(listing)
          /\ Len(list_json_response) = n - 1
          /\ n <= total_pages
          /\ \A k \in 1..total_breweries : PageOf(k, PerPage) < n => InPlace(k)
      BY <1>1, <1>5 DEF Extracted
    <2>2. /\ Len(list_json_response') = n
          /\ list_json_response'[n] = page
          /\ \A i \in 1..(n - 1) : list_json_response'[i] = list_json_response[i]
      BY <1>1, <1>2, <2>1, AppendProperties
    <2>3. ASSUME NEW k \in 1..total_breweries, PageOf(k, PerPage) < n + 1
          PROVE  InPlace(k)'
      <3>1. /\ PageOf(k, PerPage) \in Nat \ {0}
            /\ RowOf(k, PerPage) \in 1..PerPage
            /\ k = (PageOf(k, PerPage) - 1) * PerPage + RowOf(k, PerPage)
        <4>1. k \in Nat \ {0}
          BY <2>1
        <4> QED
          BY <4>1, Position
      <3>2. CASE PageOf(k, PerPage) < n
        BY <1>1, <2>1, <2>2, <3>1, <3>2 DEF InPlace
      <3>3. CASE PageOf(k, PerPage) = n
        <4>1. (n - 1) * PerPage + RowOf(k, PerPage) = k /\ k <= Len(listing)
          BY <2>1, <3>1, <3>3
        <4>2. /\ RowOf(k, PerPage) \in 1..Len(page)
              /\ page[RowOf(k, PerPage)] = listing[k]
          BY <1>2, <3>1, <4>1
        <4> QED
          BY <1>1, <2>2, <3>1, <3>3, <4>2 DEF InPlace
      <3> QED
        BY <2>3, <3>1, <3>2, <3>3
    <2>4. pc' = "pages" => n + 1 <= total_pages
      BY <1>1, <1>3, <2>1
    <2>5. pc' = "complete" => n = total_pages
      BY <1>1
    <2>6. pc' # "meta"
      BY <1>1
    <2> QED
      BY <1>1, <1>3, <2>1, <2>2, <2>3, <2>4, <2>5, <2>6 DEF Extracted
  <1> QED
    BY <1>4, <1>5

LEMMA ExtractedStep ==
  ASSUME TypeOK, Extracted, [Next]_vars
  PROVE  Extracted'
  <1> USE HookAssumption
  <1>1. CASE MetaTotal
    <2>1. /\ pc' = "pages" /\ total_breweries' = Len(listing) /\ listing' = listing
          /\ page_number' = 1 /\ list_json_response' = <<>>
      BY <1>1 DEF MetaTotal, Extracted
    <2>2. Len(listing) \in Nat \ {0}
      BY <1>1 DEF MetaTotal, TypeOK
    <2>3. total_pages' >= 1
      BY <2>1, <2>2, CeilBounds DEF total_pages
    <2>4. \A k \in 1..Len(listing) : ~(PageOf(k, PerPage) < 1)
      <3>1. \A k \in 1..Len(listing) : k \in Nat \ {0}
        BY <2>2
      <3>2. \A k \in 1..Len(listing) : PageOf(k, PerPage) \in Nat \ {0}
        BY <3>1, Position
      <3> QED
        BY <3>2
    <2> QED
      BY <2>1, <2>2, <2>3, <2>4 DEF Extracted
  <1>2. CASE MetaNoTotal \/ MetaFails
    BY <1>2 DEF MetaNoTotal, MetaFails, locals, Extracted
  <1>3. CASE FetchPage
    BY <1>3, ExtractedPage
  <1>4. CASE FetchEmptyPage \/ PageFails
    BY <1>4 DEF FetchEmptyPage, PageFails, locals, Extracted
  <1>5. CASE Api
    BY <1>5, ExtractedAppend, ExtractedOther DEF Api
  <1>6. CASE UNCHANGED vars
    BY <1>6 DEF vars, Extracted, InPlace, OnlyDrift, total_pages
  <1> QED
    BY <1>1, <1>2, <1>3, <1>4, <1>5, <1>6 DEF Next, Paginate

(* Every record the meta request counted is in the result, where the page  *)
(* arithmetic says, when every page was fetched and the listing at most    *)
(* grew at its end: for every per_page and every listing.                  *)
THEOREM HookComplete == Spec => []AppendOnlyComplete
  <1>1. Init => TypeOK /\ Extracted
    BY HookAssumption DEF Init, TypeOK, Returned, Extracted
  <1>2. TypeOK /\ Extracted /\ [Next]_vars => (TypeOK /\ Extracted)'
    BY TypeOKStep, ExtractedStep
  <1>3. TypeOK /\ Extracted => AppendOnlyComplete
    BY ExtractedImplies
  <1> QED
    BY <1>1, <1>2, <1>3, PTL DEF Spec

-----------------------------------------------------------------------------
(***************************************************************************)
(* No brewery is read twice.  The inductive form: what was read and is     *)
(* still listed lies on the pages already asked for, so no page to come    *)
(* holds it; and while nothing is deleted all that was read is listed, so  *)
(* that a record appended later is a new one.                              *)
(***************************************************************************)
Read(x) == list_json_response[x[1]][x[2]]

Behind ==
  /\ pc = "meta" => list_json_response = <<>>
  /\ OnlyDrift("delete") \/ OnlyDrift("append") =>
       /\ Injective(listing)
       /\ \A x, y \in Positions : Read(x) = Read(y) => x = y
       /\ \A x \in Positions, i \in 1..Len(listing) :
            listing[i] = Read(x) => i <= (page_number - 1) * PerPage
       /\ OnlyDrift("append") =>
            \A x \in Positions : \E i \in 1..Len(listing) : listing[i] = Read(x)

LEMMA DriftGrows ==
  ASSUME TypeOK, NEW kind \in {"append", "insert", "delete"},
         drift' = Append(drift, kind)
  PROVE  \A k \in {"append", "delete"} :
           OnlyDrift(k)' => k = kind /\ OnlyDrift(k)
  <1>1. /\ Len(drift') = Len(drift) + 1 /\ Len(drift) \in Nat
        /\ drift'[Len(drift) + 1] = kind
        /\ \A i \in 1..Len(drift) : drift'[i] = drift[i]
    BY DEF TypeOK
  <1> QED
    BY <1>1 DEF OnlyDrift

LEMMA PageRows ==
  ASSUME listing \in Seq(Breweries), NEW n \in Nat \ {0}
  PROVE  \A q \in 1..Len(ApiPage(n)) :
           /\ (n - 1) * PerPage + q \in 1..Len(listing)
           /\ q <= PerPage
           /\ ApiPage(n)[q] = listing[(n - 1) * PerPage + q]
  <1> USE HookAssumption
  <1> DEFINE m == (n - 1) * PerPage
             last == IF n * PerPage <= Len(listing) THEN n * PerPage ELSE Len(listing)
  <1>1. m \in Nat /\ n * PerPage = m + PerPage /\ Len(listing) \in Nat
    OBVIOUS
  <1>2. ApiPage(n) = SubSeq(listing, m + 1, last)
    BY DEF ApiPage
  <1>3. last \in Nat /\ last <= Len(listing) /\ last <= m + PerPage
    BY <1>1
  <1> HIDE DEF m, last
  <1>4. ASSUME NEW q \in 1..Len(ApiPage(n))
        PROVE  m + q \in 1..Len(listing) /\ q <= PerPage /\ ApiPage(n)[q] = listing[m + q]
    <2>1. CASE last >= m + 1
      <3>1. Len(ApiPage(n)) = last - m
        BY <1>1, <1>2, <1>3, <2>1
      <3>2. m + q \in 1..Len(listing) /\ q <= PerPage
        BY <1>1, <1>3, <1>4, <3>1
      <3>3. ApiPage(n)[q] = listing[m + q]
        BY <1>1, <1>2, <1>3, <1>4, <2>1, <3>1
      <3> QED
        BY <3>2, <3>3
    <2>2. CASE last < m + 1
      BY <1>1, <1>2, <1>3, <1>4, <2>2
    <2> QED
      BY <1>1, <1>3, <2>1, <2>2
  <1> QED
    BY <1>4 DEF m

LEMMA BehindAppend ==
  ASSUME TypeOK, Behind, ApiAppend
  PROVE  Behind'
  <1> DEFINE m == (page_number - 1) * PerPage
  <1>0. listing \in Seq(Breweries) /\ Len(listing) \in Nat /\ m \in Nat
    BY HookAssumption DEF TypeOK
  <1>1. PICK b \in Breweries \ Listed : Change("append", Append(listing, b))
    BY DEF ApiAppend
  <1>2. /\ pc' = pc /\ pc = "pages"
        /\ listing' = Append(listing, b) /\ drift' = Append(drift, "append")
        /\ UNCHANGED <<page_number, list_json_response>>
    BY <1>1 DEF Change, locals
  <1>3. (OnlyDrift("delete") \/ OnlyDrift("append"))' => OnlyDrift("append")
    BY <1>2, DriftGrows
  <1>4. /\ Len(listing') = Len(listing) + 1 /\ Len(listing) \in Nat
        /\ \A k \in 1..Len(listing) : listing'[k] = listing[k] /\ listing[k] # b
        /\ listing'[Len(listing) + 1] = b
    BY <1>0, <1>2, AppendProperties DEF Listed
  <1>5. Positions' = Positions /\ \A x : Read(x)' = Read(x)
    BY <1>2 DEF Positions, Read
  <1> SUFFICES ASSUME OnlyDrift("append")
               PROVE  Behind'
    BY <1>2, <1>3 DEF Behind
  <1>6. /\ Injective(listing)
        /\ \A x, y \in Positions : Read(x) = Read(y) => x = y
        /\ \A x \in Positions, i \in 1..Len(listing) :
             listing[i] = Read(x) => i <= m
        /\ \A x \in Positions : \E i \in 1..Len(listing) : listing[i] = Read(x)
    BY DEF Behind
  <1> HIDE DEF m
  <1>7. Injective(listing')
    <2> SUFFICES ASSUME NEW i \in 1..(Len(listing) + 1), NEW j \in 1..(Len(listing) + 1),
                        listing'[i] = listing'[j]
                 PROVE  i = j
      BY <1>4 DEF Injective
    <2>1. CASE i \in 1..Len(listing) /\ j \in 1..Len(listing)
      <3>1. listing[i] = listing[j]
        BY <1>4, <2>1
      <3> QED
        BY <1>6, <2>1, <3>1 DEF Injective
    <2>2. CASE i \in 1..Len(listing) /\ j = Len(listing) + 1
      BY <1>4, <2>2
    <2>3. CASE i = Len(listing) + 1 /\ j \in 1..Len(listing)
      BY <1>4, <2>3
    <2> QED
      BY <1>4, <2>1, <2>2, <2>3
  <1>8. \A x \in Positions : Read(x) # b
    BY <1>4, <1>6
  <1>9. ASSUME NEW x \in Positions, NEW i \in 1..Len(listing'), listing'[i] = Read(x)
        PROVE  i <= m
    <2>1. i \in 1..Len(listing) /\ listing[i] = Read(x)
      BY <1>0, <1>4, <1>8, <1>9
    <2> QED
      BY <1>6, <2>1
  <1>10. \A x \in Positions : \E i \in 1..Len(listing') : listing'[i] = Read(x)
    BY <1>4, <1>6
  <1> QED
    BY <1>2, <1>5, <1>6, <1>7, <1>9, <1>10 DEF Behind, m

LEMMA BehindDelete ==
  ASSUME TypeOK, Behind, ApiDelete
  PROVE  Behind'
  <1> DEFINE m == (page_number - 1) * PerPage
  <1>0. listing \in Seq(Breweries) /\ Len(listing) \in Nat /\ m \in Nat
    BY HookAssumption DEF TypeOK
  <1>1. PICK i \in 1..Len(listing) :
          Change("delete", SubSeq(listing, 1, i - 1)
                             \o SubSeq(listing, i + 1, Len(listing)))
    BY DEF ApiDelete
  <1> DEFINE A == SubSeq(listing, 1, i - 1)
             B == SubSeq(listing, i + 1, Len(listing))
  <1>2. /\ pc' = pc /\ pc = "pages"
        /\ listing' = A \o B /\ drift' = Append(drift, "delete")
        /\ UNCHANGED <<page_number, list_json_response>>
    BY <1>1 DEF Change, locals
  <1>3. /\ (OnlyDrift("delete") \/ OnlyDrift("append"))' => OnlyDrift("delete")
        /\ ~OnlyDrift("append")'
    BY <1>2, DriftGrows
  <1>4. /\ A \in Seq(Breweries) /\ Len(A) = i - 1
        /\ \A j \in 1..(i - 1) : A[j] = listing[j]
    BY <1>0
  <1>5. /\ B \in Seq(Breweries) /\ Len(B) = Len(listing) - i
        /\ \A j \in 1..(Len(listing) - i) : B[j] = listing[i + j]
    BY <1>0
  <1> HIDE DEF A, B
  <1>6. /\ Len(listing') = Len(listing) - 1
        /\ \A j \in 1..(Len(listing) - 1) :
             listing'[j] = IF j < i THEN listing[j] ELSE listing[j + 1]
    <2>1. /\ Len(listing') = Len(A) + Len(B)
          /\ \A j \in 1..(Len(A) + Len(B)) :
               listing'[j] = IF j <= Len(A) THEN A[j] ELSE B[j - Len(A)]
      BY <1>2, <1>4, <1>5, ConcatProperties
    <2>2. /\ Len(listing) \in Nat /\ i \in 1..Len(listing)
          /\ Len(A) = i - 1 /\ Len(B) = Len(listing) - i
      BY <1>0, <1>4, <1>5
    <2>3. ASSUME NEW j \in 1..(Len(listing) - 1), j < i
          PROVE  listing'[j] = listing[j]
      <3>1. j \in 1..(Len(A) + Len(B)) /\ j <= Len(A) /\ j \in 1..(i - 1)
        BY <2>2, <2>3
      <3>2. listing'[j] = A[j]
        BY <2>1, <3>1
      <3> QED
        BY <1>4, <3>1, <3>2
    <2>4. ASSUME NEW j \in 1..(Len(listing) - 1), ~(j < i)
          PROVE  listing'[j] = listing[j + 1]
      <3>0. j \in 1..(Len(A) + Len(B)) /\ ~(j <= Len(A))
        BY <2>2, <2>4
      <3>1. listing'[j] = B[j - (i - 1)]
        BY <2>1, <2>2, <3>0
      <3>2. j - (i - 1) \in 1..(Len(listing) - i) /\ i + (j - (i - 1)) = j + 1
        BY <2>2, <2>4
      <3> QED
        BY <1>5, <3>1, <3>2
    <2>5. Len(listing') = Len(listing) - 1
      BY <2>1, <2>2
    <2>6. ASSUME NEW j \in 1..(Len(listing) - 1)
          PROVE  listing'[j] = IF j < i THEN listing[j] ELSE listing[j + 1]
      BY <2>3, <2>4
    <2> QED
      BY <2>5, <2>6
  <1>7. Positions' = Positions /\ \A x : Read(x)' = Read(x)
    BY <1>2 DEF Positions, Read
  <1> SUFFICES ASSUME OnlyDrift("delete")
               PROVE  Behind'
    BY <1>2, <1>3 DEF Behind
  <1>8. /\ Injective(listing)
        /\ \A x, y \in Positions : Read(x) = Read(y) => x = y
        /\ \A x \in Positions, j \in 1..Len(listing) :
             listing[j] = Read(x) => j <= m
    BY DEF Behind
  <1> HIDE DEF m
  <1>9. Injective(listing')
    <2> DEFINE at(j) == IF j < i THEN j ELSE j + 1
    <2>1. \A j \in 1..(Len(listing) - 1) :
            at(j) \in 1..Len(listing) /\ listing'[j] = listing[at(j)]
      BY <1>6
    <2>2. \A j, k \in 1..(Len(listing) - 1) : at(j) = at(k) => j = k
      OBVIOUS
    <2> HIDE DEF at
    <2>3. ASSUME NEW j \in 1..(Len(listing) - 1), NEW k \in 1..(Len(listing) - 1),
                 listing'[j] = listing'[k]
          PROVE  j = k
      <3>1. at(j) = at(k)
        BY <1>8, <2>1, <2>3 DEF Injective
      <3> QED
        BY <2>2, <3>1
    <2> QED
      BY <1>6, <2>3 DEF Injective
  <1>10. ASSUME NEW x \in Positions, NEW j \in 1..Len(listing'), listing'[j] = Read(x)
         PROVE  j <= m
    <2>1. j \in 1..(Len(listing) - 1)
      BY <1>6, <1>10
    <2>2. CASE j < i
      BY <1>0, <1>6, <1>8, <1>10, <2>1, <2>2
    <2>3. CASE ~(j < i)
      <3>1. j + 1 \in 1..Len(listing) /\ listing[j + 1] = Read(x)
        BY <1>0, <1>6, <1>10, <2>1, <2>3
      <3>2. j + 1 <= m
        BY <1>8, <3>1
      <3> QED
        BY <1>0, <2>1, <3>2
    <2> QED
      BY <2>2, <2>3
  <1> QED
    BY <1>2, <1>3, <1>7, <1>8, <1>9, <1>10 DEF Behind, m

LEMMA BehindPage ==
  ASSUME TypeOK, Behind, FetchPage
  PROVE  Behind'
  <1> USE HookAssumption DEF TypeOK
  <1> DEFINE n == page_number
             m == (n - 1) * PerPage
             page == ApiPage(n)
             len == Len(list_json_response)
  <1>1. /\ pc' # "meta"
        /\ list_json_response' = Append(list_json_response, page)
        /\ page_number' = n + 1
        /\ UNCHANGED <<listing, drift>>
    BY DEF FetchPage
  <1>2. /\ page \in Seq(Breweries)
        /\ \A q \in 1..Len(page) :
             m + q \in 1..Len(listing) /\ q <= PerPage /\ page[q] = listing[m + q]
    BY PageContents, PageRows
  <1>3. /\ (page_number' - 1) * PerPage = m + PerPage /\ m \in Nat
        /\ len \in Nat /\ Len(page) \in Nat
    <2>1. n \in Nat \ {0} /\ PerPage \in Nat \ {0}
      OBVIOUS
    <2>2. n * PerPage = m + PerPage /\ m \in Nat
      BY ONLY <2>1
    <2>3. (page_number' - 1) * PerPage = n * PerPage
      BY ONLY <1>1, <2>1
    <2> QED
      BY <1>2, <2>2, <2>3
  <1> HIDE DEF page, m
  <1>4. /\ Len(list_json_response') = len + 1
        /\ list_json_response'[len + 1] = page
        /\ \A k \in 1..len : list_json_response'[k] = list_json_response[k]
    BY <1>1, <1>2, AppendProperties
  <1>5. ASSUME NEW x \in Positions'
        PROVE  \/ x \in Positions /\ Read(x)' = Read(x)
               \/ /\ x[1] = len + 1 /\ x[2] \in 1..Len(page)
                  /\ Read(x)' = listing[m + x[2]]
    <2>1. x[1] \in 1..(len + 1) /\ x[2] \in 1..PerPage /\ x = <<x[1], x[2]>>
      BY <1>4 DEF Positions
    <2>2. x[2] <= Len(list_json_response'[x[1]])
      BY DEF Positions
    <2>3. CASE x[1] = len + 1
      BY <1>2, <1>3, <1>4, <2>1, <2>2, <2>3 DEF Read
    <2>4. CASE x[1] \in 1..len
      BY <1>3, <1>4, <2>1, <2>2, <2>4 DEF Read, Positions
    <2> QED
      BY <1>3, <2>1, <2>3, <2>4
  <1>6. \A x \in Positions' : x = <<x[1], x[2]>>
    BY DEF Positions
  <1> SUFFICES ASSUME OnlyDrift("delete") \/ OnlyDrift("append")
               PROVE  Behind'
    BY <1>1 DEF Behind, OnlyDrift
  <1>7. /\ Injective(listing)
        /\ \A x, y \in Positions : Read(x) = Read(y) => x = y
        /\ \A x \in Positions, i \in 1..Len(listing) : listing[i] = Read(x) => i <= m
        /\ OnlyDrift("append") =>
             \A x \in Positions : \E i \in 1..Len(listing) : listing[i] = Read(x)
    BY DEF Behind, m
  <1>8. ASSUME NEW x \in Positions', NEW y \in Positions', Read(x)' = Read(y)'
        PROVE  x = y
    <2>1. CASE x \in Positions /\ Read(x)' = Read(x)
               /\ y \in Positions /\ Read(y)' = Read(y)
      BY <1>7, <1>8, <2>1
    <2>2. ASSUME NEW u \in Positions, NEW q \in 1..Len(page), Read(u) = listing[m + q]
          PROVE  FALSE
      <3>1. m + q <= m
        BY <1>2, <1>7, <2>2
      <3> QED
        BY <1>3, <3>1
    <2>3. CASE /\ x[1] = len + 1 /\ x[2] \in 1..Len(page) /\ Read(x)' = listing[m + x[2]]
               /\ y[1] = len + 1 /\ y[2] \in 1..Len(page) /\ Read(y)' = listing[m + y[2]]
      <3>1. m + x[2] = m + y[2]
        <4>1. /\ m + x[2] \in 1..Len(listing) /\ m + y[2] \in 1..Len(listing)
              /\ listing[m + x[2]] = listing[m + y[2]]
          BY <1>2, <1>8, <2>3
        <4> QED
          BY <1>7, <4>1 DEF Injective
      <3>2. x[2] = y[2]
        BY <1>3, <2>3, <3>1
      <3> QED
        BY <1>6, <2>3, <3>2
    <2> QED
      BY <1>5, <1>8, <2>1, <2>2, <2>3
  <1>9. ASSUME NEW x \in Positions', NEW i \in 1..Len(listing), listing[i] = Read(x)'
        PROVE  i <= m + PerPage
    <2>1. CASE x \in Positions /\ Read(x)' = Read(x)
      BY <1>3, <1>7, <1>9, <2>1
    <2>2. CASE x[2] \in 1..Len(page) /\ Read(x)' = listing[m + x[2]]
      <3>1. i = m + x[2] /\ x[2] <= PerPage
        BY <1>2, <1>7, <1>9, <2>2 DEF Injective
      <3> QED
        BY <1>3, <2>2, <3>1
    <2> QED
      BY <1>5, <2>1, <2>2
  <1>10. ASSUME OnlyDrift("append"), NEW x \in Positions'
         PROVE  \E i \in 1..Len(listing) : listing[i] = Read(x)'
    <2>1. CASE x \in Positions /\ Read(x)' = Read(x)
      BY <1>7, <1>10, <2>1
    <2>2. CASE x[2] \in 1..Len(page) /\ Read(x)' = listing[m + x[2]]
      BY <1>2, <2>2
    <2> QED
      BY <1>5, <2>1, <2>2
  <1>11. OnlyDrift("append")' <=> OnlyDrift("append")
    BY <1>1 DEF OnlyDrift
  <1> QED
    BY <1>1, <1>3, <1>7, <1>8, <1>9, <1>10, <1>11 DEF Behind

LEMMA BehindStep ==
  ASSUME TypeOK, Behind, [Next]_vars
  PROVE  Behind'
  <1>1. CASE MetaTotal \/ MetaNoTotal \/ MetaFails
    <2>1. list_json_response = <<>> /\ list_json_response' = <<>>
      BY <1>1 DEF MetaTotal, MetaNoTotal, MetaFails, locals, Behind
    <2>2. Positions' = {}
      BY <2>1 DEF Positions
    <2>3. listing' = listing /\ drift' = drift
      BY <1>1 DEF MetaTotal, MetaNoTotal, MetaFails
    <2> QED
      BY <2>1, <2>2, <2>3 DEF Behind, OnlyDrift
  <1>2. CASE FetchPage
    BY <1>2, BehindPage
  <1>3. CASE FetchEmptyPage \/ PageFails
    BY <1>3 DEF FetchEmptyPage, PageFails, locals, Behind, OnlyDrift, Positions, Read
  <1>4. CASE ApiAppend
    BY <1>4, BehindAppend
  <1>5. CASE ApiInsert
    <2>1. pc = "pages" /\ pc' = pc /\ drift' = Append(drift, "insert")
      BY <1>5 DEF ApiInsert, Change
    <2> QED
      BY <2>1, DriftGrows DEF Behind
  <1>6. CASE ApiDelete
    BY <1>6, BehindDelete
  <1>7. CASE UNCHANGED vars
    BY <1>7 DEF vars, Behind, OnlyDrift, Positions, Read
  <1> QED
    BY <1>1, <1>2, <1>3, <1>4, <1>5, <1>6, <1>7 DEF Next, Paginate, Api

(* While the listing only shrinks or only grows at its end, no record is   *)
(* in the result twice, although pages are asked for by offset and every   *)
(* deletion moves the records behind it.                                   *)
THEOREM HookNoDuplicates == Spec => []NoBreweryTwice
  <1>1. Init => TypeOK /\ Behind
    <2> SUFFICES ASSUME Init PROVE TypeOK /\ Behind
      OBVIOUS
    <2>1. TypeOK
      BY HookAssumption DEF Init, TypeOK, Returned
    <2>2. list_json_response = <<>> /\ Injective(listing) /\ Positions = {}
      BY HookAssumption DEF Init, Positions
    <2> QED
      BY <2>1, <2>2 DEF Behind
  <1>2. TypeOK /\ Behind /\ [Next]_vars => (TypeOK /\ Behind)'
    BY TypeOKStep, BehindStep
  <1>3. Behind => NoBreweryTwice
    BY DEF Behind, NoBreweryTwice, Read
  <1> QED
    BY <1>1, <1>2, <1>3, PTL DEF Spec

(***************************************************************************)
(* The contract of the caller.                                             *)
(***************************************************************************)
(* Every page collected holds a record, and no more than were asked for.   *)
PagesFilled ==
  \A i \in 1..Len(list_json_response) : Len(list_json_response[i]) \in 1..PerPage

LEMMA PagesFilledStep ==
  ASSUME TypeOK, PagesFilled, [Next]_vars
  PROVE  PagesFilled'
  <1>1. CASE FetchPage
    <2> DEFINE page == ApiPage(page_number)
               len == Len(list_json_response)
    <2>1. page \in Seq(Breweries) /\ page # <<>> /\ len \in Nat
      BY <1>1, PageContents DEF FetchPage, TypeOK
    <2>2. \A q \in 1..Len(page) : q <= PerPage
      BY PageRows DEF TypeOK
    <2>3. list_json_response' = Append(list_json_response, page)
      BY <1>1 DEF FetchPage
    <2> HIDE DEF page
    <2>4. Len(page) \in 1..PerPage
      <3>1. Len(page) \in Nat /\ Len(page) # 0
        BY <2>1
      <3>2. Len(page) \in 1..Len(page)
        BY <3>1
      <3> QED
        BY <2>2, <3>1, <3>2, HookAssumption
    <2>5. /\ Len(list_json_response') = len + 1
          /\ list_json_response'[len + 1] = page
          /\ \A k \in 1..len : list_json_response'[k] = list_json_response[k]
      BY <2>1, <2>3, AppendProperties DEF TypeOK
    <2> QED
      BY <2>1, <2>4, <2>5 DEF PagesFilled
  <1>2. CASE ~FetchPage
    <2>1. UNCHANGED list_json_response
      BY <1>2 DEF Next, Paginate, Api, MetaTotal, MetaNoTotal, MetaFails, FetchEmptyPage,
                  PageFails, ApiAppend, ApiInsert, ApiDelete, Change, locals, vars
    <2> QED
      BY <2>1 DEF PagesFilled
  <1> QED
    BY <1>1, <1>2

(* A step of the hook is a step of the contract, or one that its caller    *)
(* does not see.                                                           *)
LEMMA ContractStep ==
  ASSUME TypeOK', PagesFilled', [Next]_vars
  PROVE  [Contract!Next]_<<statusBar, resultBar>>
  <1> USE DEF statusBar, resultBar, Returned
  <1>1. CASE MetaTotal
    BY <1>1 DEF MetaTotal
  <1>2. CASE MetaFails
    BY <1>2 DEF MetaFails, Contract!Next, Contract!Raise
  <1>3. CASE MetaNoTotal \/ FetchPage \/ FetchEmptyPage \/ PageFails
    <2>1. Contract!PageList(list_json_response')
      BY DEF Contract!PageList, TypeOK, PagesFilled
    <2>2. statusBar = "running"
      BY <1>3 DEF MetaNoTotal, FetchPage, FetchEmptyPage, PageFails
    <2>3. CASE pc' = "pages"
      <3>1. statusBar' = "running" /\ resultBar = <<>> /\ resultBar' = <<>>
        BY <1>3, <2>3 DEF MetaNoTotal, FetchPage, FetchEmptyPage, PageFails
      <3> QED
        BY <2>2, <3>1
    <2>4. CASE pc' # "pages"
      <3>1. statusBar' = "returned" /\ resultBar' = list_json_response'
        BY <1>3, <2>4 DEF MetaNoTotal, FetchPage, FetchEmptyPage, PageFails
      <3> QED
        BY <2>1, <2>2, <3>1 DEF Contract!Next, Contract!Return
    <2> QED
      BY <2>3, <2>4
  <1>4. CASE Api
    BY <1>4 DEF Api, ApiAppend, ApiInsert, ApiDelete, Change, locals
  <1>5. CASE UNCHANGED vars
    BY <1>5 DEF vars
  <1> QED
    BY <1>1, <1>2, <1>3, <1>4, <1>5 DEF Next, Paginate

(* The hook implements the contract that BreweryOperator.execute relies on: *)
(* the call ends once, and hands out only pages that hold a record and at   *)
(* most as many as were asked for.                                          *)
THEOREM HookImplementsContract == Spec => ImplementsContract
  <1>1. Init => TypeOK /\ PagesFilled
    BY HookAssumption DEF Init, TypeOK, Returned, PagesFilled
  <1>2. TypeOK /\ PagesFilled /\ [Next]_vars => (TypeOK /\ PagesFilled)'
    BY TypeOKStep, PagesFilledStep
  <1>3. Init => Contract!Init
    BY DEF Init, Contract!Init, statusBar, resultBar, Returned
  <1>4. TypeOK' /\ PagesFilled' /\ [Next]_vars => [Contract!Next]_<<statusBar, resultBar>>
    BY ContractStep
  <1> QED
    BY <1>1, <1>2, <1>3, <1>4, PTL DEF Spec, ImplementsContract, Contract!Spec

-----------------------------------------------------------------------------
(***************************************************************************)
(* The standalone script.  The inductive invariant: the pages printed are  *)
(* those below page_number, each in its place; a total that is known gives *)
(* the number of pages, and the loop goes no further than that.            *)
(***************************************************************************)
(* The loop counts up to the page of the last record.                      *)
LEMMA ScriptPages ==
  ASSUME NEW t \in Nat
  PROVE  /\ ScriptTotalPages(t, per_page) \in Nat
         /\ ScriptTotalPages(t, per_page) = IF t = 0 THEN 0 ELSE PageOf(t, per_page)
         /\ \A k \in 1..t : PageOf(k, per_page) \in 1..ScriptTotalPages(t, per_page)
  <1> USE ApiExtractionAssumption
  <1>1. CASE t = 0
    <2> DEFINE q == (per_page - 1) \div per_page
               r == (per_page - 1) % per_page
    <2>1. q \in Int /\ r \in 0..(per_page - 1) /\ per_page - 1 = per_page * q + r
      <3>1. per_page - 1 \in Int /\ per_page \in Nat \ {0}
        OBVIOUS
      <3> QED
        BY <3>1, DivMod
    <2>2. ScriptTotalPages(t, per_page) = q
      BY <1>1 DEF ScriptTotalPages
    <2> HIDE DEF q, r
    <2>3. q = 0
      <3>1. ASSUME q >= 1 PROVE FALSE
        BY <2>1, <3>1
      <3>2. ASSUME q <= -1 PROVE FALSE
        BY <2>1, <3>2
      <3> QED
        BY <2>1, <3>1, <3>2
    <2> QED
      BY <1>1, <2>2, <2>3
  <1>2. CASE t > 0
    <2> DEFINE n == PageOf(t, per_page)
               m == TotalPages(t, per_page)
    <2>1. n \in Nat \ {0} /\ t <= n * per_page /\ (n - 1) * per_page < t
      <3>1. /\ n \in Nat \ {0} /\ RowOf(t, per_page) \in 1..per_page
            /\ t = (n - 1) * per_page + RowOf(t, per_page)
        BY <1>2, Position
      <3> HIDE DEF n
      <3> QED
        BY <3>1
    <2>2. m \in Nat /\ t <= m * per_page /\ (m - 1) * per_page < t
      BY <1>2, CeilBounds
    <2>3. ScriptTotalPages(t, per_page) = m
      BY <1>2, SameTotalPages
    <2>4. ASSUME NEW k \in 1..t
          PROVE  PageOf(k, per_page) \in Nat \ {0} /\ PageOf(k, per_page) <= m
      <3>1. k \in Nat \ {0} /\ per_page \in Nat \ {0}
        OBVIOUS
      <3> QED
        BY <3>1, Position, PageInRange
    <2> HIDE DEF n, m
    <2>5. m = n
      BY <2>1, <2>2, CeilUnique
    <2>6. ScriptTotalPages(t, per_page) = PageOf(t, per_page)
      BY <2>3, <2>5 DEF n
    <2> QED
      BY <1>2, <2>2, <2>3, <2>4, <2>6
  <1> QED
    BY <1>1, <1>2

ScriptInv ==
  /\ total \in Nat
  /\ script_total_pages \in {Unbound, ScriptTotalPages(total, per_page)}
  /\ script_page_number \in Nat \ {0}
  /\ printed \in Seq(Nat) /\ Len(printed) = script_page_number - 1
  /\ \A i \in 1..Len(printed) : printed[i] \in {i, Null}
  /\ script_pc \in {"meta", "range"} => script_page_number = 1
  /\ script_pc = "meta" => script_total_pages = Unbound
  /\ script_pc \in {"loop", "done"} =>
       /\ script_total_pages = ScriptTotalPages(total, per_page)
       /\ script_page_number <= script_total_pages + 1
  /\ script_pc = "done" => script_page_number > script_total_pages

LEMMA ScriptStep ==
  ASSUME ScriptInv, [ScriptNext]_script_vars
  PROVE  ScriptInv'
  <1> USE ApiExtractionAssumption DEF ScriptInv, Null, Unbound
  <1>1. \A t \in Nat : ScriptTotalPages(t, per_page) \in Nat
    BY ScriptPages
  <1>2. CASE ScriptMetaTotal
    <2>1. /\ total' \in Nat
          /\ script_total_pages' = ScriptTotalPages(total', per_page)
      BY <1>2 DEF ScriptMetaTotal
    <2> QED
      BY <1>2, <2>1 DEF ScriptMetaTotal
  <1>3. CASE ScriptMetaNoTotal
    BY <1>3 DEF ScriptMetaNoTotal
  <1>4. CASE EnterLoop
    BY <1>1, <1>4 DEF EnterLoop
  <1>5. CASE PrintPage
    <2>1. PICK page \in {script_page_number, 0} : printed' = Append(printed, page)
      BY <1>5 DEF PrintPage
    <2>2. /\ printed' \in Seq(Nat) /\ Len(printed') = Len(printed) + 1
          /\ \A i \in 1..Len(printed) : printed'[i] = printed[i]
          /\ printed'[Len(printed) + 1] = page
      BY <2>1
    <2>3. \A i \in 1..Len(printed') : printed'[i] \in {i, 0}
      BY <2>2
    <2> QED
      BY <1>5, <2>2, <2>3 DEF PrintPage
  <1>6. CASE LeaveLoop
    BY <1>6 DEF LeaveLoop
  <1>7. CASE UNCHANGED script_vars
    BY <1>7 DEF script_vars
  <1> QED
    BY <1>2, <1>3, <1>4, <1>5, <1>6, <1>7 DEF ScriptNext

(* When the loop of the script is over, each record the API counted is on  *)
(* a page that was printed in its place or failed alone, and no page       *)
(* beyond the last record was asked for.                                   *)
THEOREM ScriptAsksForEveryRecord ==
  ScriptSpec => []EveryRecordAskedFor
  <1>1. ScriptInit => ScriptInv
    BY DEF ScriptInit, ScriptInv, Null, Unbound
  <1>2. ScriptInv /\ [ScriptNext]_script_vars => ScriptInv'
    BY ScriptStep
  <1>3. ScriptInv => EveryRecordAskedFor
    <2> SUFFICES ASSUME ScriptInv, script_pc = "done"
                 PROVE  /\ Len(printed) = IF total = 0 THEN 0
                                          ELSE PageOf(total, per_page)
                        /\ \A k \in 1..total :
                             printed[PageOf(k, per_page)] \in {PageOf(k, per_page), 0}
      BY DEF EveryRecordAskedFor, Null
    <2>1. /\ total \in Nat
          /\ Len(printed) = ScriptTotalPages(total, per_page)
          /\ \A i \in 1..Len(printed) : printed[i] \in {i, 0}
      <3>1. ScriptTotalPages(total, per_page) \in Nat
        BY ScriptPages DEF ScriptInv
      <3> QED
        BY <3>1 DEF ScriptInv, Null
    <2> QED
      BY <2>1, ScriptPages
  <1> QED
    BY <1>1, <1>2, <1>3, PTL DEF ScriptSpec
=============================================================================
