CONSTANTS
  Breweries = {b1, b2, b3, b4, b5}
  PerPage = 2
  MaxChanges = 0
  MaxListing = 5
  Listings <- MCListings
SPECIFICATION Spec
INVARIANT ReturnsAllBreweries
CHECK_DEADLOCK FALSE
