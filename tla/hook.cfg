CONSTANTS
  Breweries = {b1, b2, b3, b4, b5}
  PerPage = 2
  MaxChanges = 2
  MaxListing = 5
  Listings <- MCListings
SPECIFICATION Spec
INVARIANTS TypeOK AppendOnlyComplete NoBreweryTwice
PROPERTIES Terminates ImplementsContract
CHECK_DEADLOCK FALSE
