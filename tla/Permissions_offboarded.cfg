SPECIFICATION CachedSpec
CONSTANTS
  Users = {u}
  Resources = {r}
  Units = {x}
  GrantIds = {g}
  FreshFor = 1
  StaleFor = 1
  Redact = TRUE
  MaxGrants = 2
  MaxTime = 3
  Leads = {0}
INVARIANT OffboardedDenied
CHECK_DEADLOCK FALSE
