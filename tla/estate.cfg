SPECIFICATION EstateSpec
CONSTANTS
  Countries <- MCCountries
  Shares <- MCShares
  Alphabetical <- MCAlphabetical
  Total = 5
  USFirstShopCount = 3
  ChurnPercent = 30
  YearLength = 4
  Founding = 1
  Flagship = 2
  USFirstEraEnd = 7
  ExpansionStart = 6
  ExpansionEnd = 19
  MarketEntry <- MCMarketEntry
  ChurnOpenEnd = 14
  PeakDay = 19
  ClosureYears <- MCClosureYears
  ClosureWeights <- MCClosureWeights
  ClosureDay = 38
  Draws = {0, 50, 99}
  LifeDraws = {4, 12}
INVARIANTS PeakEstate FoundingShops LivesWithinTheBusiness
CHECK_DEADLOCK FALSE
