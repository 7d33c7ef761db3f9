CONSTANTS
  HaveAuditLogs = TRUE
  Limit = 2
  StoreFaults = FALSE
  AuditFaults = FALSE
  NatsFaults = FALSE
  TenantDeletes = FALSE
SPECIFICATION Spec
CHECK_DEADLOCK FALSE
INVARIANTS
  LimitTold
