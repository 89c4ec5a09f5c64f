\* Two cases opened one after the other.
SPECIFICATION ViewSpec
CONSTANTS
  None = None
  all = all  revoked = revoked  expired_card = expired_card  c1 = c1  c2 = c2
  Filters <- MCFilters
  NoFilter = all
  Refused <- MCRefused
  ItemIds <- MCItemIds
  MaxLoads = 2
  MaxAudits = 1
  MaxFailures = 0
INVARIANTS AuditOfSelected
