\* At most two workers or handlers; three reports; two pages, of which one is read.
SPECIFICATION FairFeedSpec
CONSTANTS
  A = A
  B = B
  Teams = {A, B}
  Tbd = Tbd
  NoTeam = NoTeam
  Lineups <- Listed
  Settings <- Mixes
  StatusFilters = {{}, {"running"}}
  PageSetting = 1
  LastPage = 2
  MaxReports = 3
INVARIANTS WinnersBackedWinner ClosedByProvider
PROPERTIES StakesSettle LobbyCatchesUp
CHECK_DEADLOCK FALSE
