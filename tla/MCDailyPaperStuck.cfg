SPECIFICATION Spec
CONSTANTS
  first = first
  second = second
  bought = bought
  bought2 = bought2
  Alerts = {first, second}
  Buys = {bought, bought2}
  TermsOf <- MCTerms
  Days = 3
  Tape <- MCTape
  Offers <- MCOffers
  Mosts = {1, 2}
  MaxRuns <- MCMaxRuns
  Capital = 100
  MaxAttempts = 2
  MaxFaults = 1
  None = None
  SlippageBps = 100
  ParticipationBps = 1000
  CalendarEnd = 4
  NoBar = NoBar
  TradeRiskBps = 1000
  TotalRiskBps = 2000
  PositionBps = 3000
  ExposureBps = 4500
  DailyLossBps = 200
  DrawdownBps = 1000
  MinRewardPercent = 200
  MaxOpen = 3
SYMMETRY Alike
CHECK_DEADLOCK FALSE
INVARIANT
  FailuresCanBeRetried
