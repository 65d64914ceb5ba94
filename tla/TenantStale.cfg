SPECIFICATION TenantSpec
CONSTANTS
  Keys = {k1}  TenantOf <- OneTenant  Limits = {0, 1}  NoKey = NoKey  DefaultLimit = 1
  RefreshInterval = 2  MaxStale = 3  RefreshTimeout = 1  RateWindow = 2  MaxBacklog = 1
INVARIANT StaleIsDenied
CHECK_DEADLOCK FALSE
