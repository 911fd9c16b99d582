\* Two objects, one shared quota, two deletion tasks; two sockets of one user.
SPECIFICATION InfrastructureSpec
CONSTANTS
  o1 = o1
  o2 = o2
  Objects = {o1, o2}
  UploadPurposes <- MCUploadPurposes
  MaxObjectsPerPurpose = 1
  DeleteTasks = {t1, t2}
  MaxStorageFaults = 1
  Sockets = {s1, s2}
  MAX_CONNECTIONS_PER_USER = 1
  MaxRevocations = 1
  MaxPending = 1
  MaxSocketFaults = 1
INVARIANTS BoundIsKept QuotaAccountsBytes RevocationReachesSockets 
PROPERTIES DeletionCompletes RevokedSocketsClose
CHECK_DEADLOCK FALSE
