CONSTANTS
  HaveAuditLogs = TRUE
  Limit = 2
  StoreFaults = TRUE
  AuditFaults = TRUE
  NatsFaults = TRUE
  TenantDeletes = TRUE
SPECIFICATION FairSpec
CHECK_DEADLOCK FALSE
INVARIANTS
  TypeOK
  AuditInOrder
  AuditComplete
  RowFreed
  NoOrphanShell
PROPERTIES
  SessionEnds
