SPECIFICATION FairSpec
CONSTANTS
  r1 = r1
  r2 = r2
  r3 = r3
  p1 = p1
  p2 = p2
  NULL = NULL
  Runs = {r1, r2}
  Processes = {p1}
INVARIANTS
  TypeOK
  CompletedCampaignsAreOff
  OwnCampaignOnly
  NothingLeftReserved
PROPERTIES
  SettledRunsStay
  RunsSettle
