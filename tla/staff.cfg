SPECIFICATION Spec
CONSTANTS
  Countries <- MCCountries
  Shares <- MCShares
  Alphabetical <- MCAlphabetical
  Total = 4
  USFirstShopCount = 3
  ChurnPercent = 18
  YearLength = 4
  Founding = 1
  Flagship = 2
  USFirstEraEnd = 7
  ExpansionStart = 6
  ExpansionEnd = 19
  MarketEntry <- MCMarketEntry
  ChurnOpenEnd = 14
  PeakDay = 19
  ClosureYears <- MCClosureYears
  ClosureWeights <- MCClosureWeights
  ClosureDay = 38
  Draws = {50}
  LifeDraws = {4}
  AsOf = 44
  Founders <- MCFounders
  Execs <- MCExecs
  FraudNumber = 3
  FraudManagerSpellID = 6
  ManagerFrom = 11
  ManagerTo = 17
  FraudWindowStart = 13
  FraudWindowEnd = 14
  HeadCurve <- MCHeadCurve
  HeadVariance = {0}
  MinHeads = 1
  MaxHeads = 3
  FoundingCrew = 1
  FoundingSpan = 3
  HQDivisor = 4
  HQGrades = {1, 7}
  HQJitter = 4
  Leaders <- MCLeaders
  LeaderEnd = 15
  HireDraws = {0, 99}
  Tenures = {1, 8}
  MaxTenure = 20
  LeaderExits = {33, 34}
  AttritionDays = {14, 30}
  Extension = 8
  Restructuring = 29
  Layoffs = 32
  Chapter11 = 36
  Week = 2
  ShiftsPerWeek = 1
  ShiftHistory = 4
  ShiftTimes <- MCShiftTimes
  MaxShift = 5
  MaxShiftSpan = 6
  Hours = 8
  PayPeriod <- MCPayPeriod
  RetentionDay = 30
  WindDownDay = 37
  BonusYears = {3, 4, 5, 6}
  BonusOffset = 1
INVARIANTS SpellsWithinTheBusiness PaidWhileEmployed OnDutyIsExact KeyedRefundsHaveTheirManager WageFollowsTheLastRise
CHECK_DEADLOCK FALSE
