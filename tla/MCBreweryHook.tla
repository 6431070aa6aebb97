--------------------------- MODULE MCBreweryHook ---------------------------
(* BreweryHook on every listing of at most MaxListing of the breweries.     *)
EXTENDS BreweryHook

CONSTANT MaxListing

MCListings ==
  UNION {{s \in [1..n -> Breweries] : Injective(s)} : n \in 0..MaxListing}
=============================================================================
