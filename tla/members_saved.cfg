SPECIFICATION Spec
CONSTANTS
  Countries = {1, 2}
  Allocated <- MCAllocated
  Regime <- MCRegime
  EarliestSignup <- MCEarliestSignup
  Eras <- MCEras
  DayLength = 2
  MonthLength = 4
  YearLength = 12
  YearPrecise = 0
  MonthPrecise = 1
  DayPrecise = 2
  SignupCutoff = 52
  AsOf = 62
  EmailYear = 1
  WorkEmailYear = 2
  SmsYear = 3
  OnlineYear = 3
  ContactlessYear = 4
  StampYears <- MCStampYears
  CardYears <- MCCardYears
  CardFrom = 24
  UnifiedFrom = 40
  EnrolWindow = 6
  GDPRPulse = 45
  CCPAPulse = 55
  MaxSaved = 2
  Draws = {0, 60}
INVARIANTS SavedWhileTrading
CHECK_DEADLOCK FALSE
