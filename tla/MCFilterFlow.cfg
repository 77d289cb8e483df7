CONSTANTS
  Relays = {"top", "groups", "public"}
  Top = "top"
  Configs <- MCConfigs
  Filters <- MCFilters
  Reqs <- MCReqs
  Events <- MCEvents
  Me = "me"
  MaxMessages = 2
SPECIFICATION FilterSpec
INVARIANTS
  FiltersOK
  QueriesFitPolicies
  SentIsAsked
  AcceptedIsFound
CHECK_DEADLOCK FALSE
