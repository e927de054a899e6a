\* Two processes, at most three starts, pages of two records.
CONSTANTS
  Procs = {p1, p2}
  Nobody = Nobody
  DbTenants = {1, 2}
  Ids = {1, 2, 3, 4, 5}
  TenantOf <- MCTenantOf
  Compatible = {2, 3, 4, 5}
  Legacy = {1, 2, 4, 5}
  Required = {1}
  Manifests <- MCManifests
  BatchSize = 2
  MaxStarts = 3
SPECIFICATION StorageSpec
INVARIANTS OneServer AuditsComplete
PROPERTIES StartSettles
CHECK_DEADLOCK FALSE
