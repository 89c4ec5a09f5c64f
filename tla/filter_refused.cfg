\* The list, with a filter that the API refuses.
SPECIFICATION FairViewSpec
CONSTANTS
  None = None
  all = all  revoked = revoked  expired_card = expired_card  c1 = c1  c2 = c2
  Filters <- MCFilters
  NoFilter = all
  Refused <- MCRefused
  ItemIds <- MCNoItems
  MaxLoads = 2
  MaxAudits = 1
  MaxFailures = 0
PROPERTIES EveryFilterApplies
