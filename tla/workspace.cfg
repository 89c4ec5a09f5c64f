\* Two cases, three filters, requests answered in any order, a browser that goes on loading.
SPECIFICATION FairViewSpec
CONSTANTS
  None = None
  all = all  revoked = revoked  expired_card = expired_card  c1 = c1  c2 = c2
  Filters <- MCFilters
  NoFilter = all
  Refused <- MCRefused
  ItemIds <- MCItemIds
  MaxLoads = 2
  MaxAudits = 1
  MaxFailures = 1
INVARIANTS StateTypeOK OneTimer
PROPERTIES ListCatchesUp
