\* One request: twelve catalogues, two policies, four deployments.
CONSTANTS
  s1 = s1
  s2 = s2
  s3 = s3
  t1 = t1
  fast = fast
  unknown = Unknown
  Sites <- MCSites
  CardOf <- MCCardOf
  PolicyOf <- MCPolicyOf
  Requests <- MCRequests
  Secrets = {s1, s2, s3}
  NoBearer = NoBearer
  Scopes <- MCScopes
  Tenants = {t1, Personal}
  NoTenant = NoTenant
  Personal = Personal
  Roles = {fast, auto}
  auto = auto
  NoRole = NoRole
  Unknown = Unknown
SPECIFICATION Spec
INVARIANTS StaysLocal KeysConfined RightCard AnswersTrue
CHECK_DEADLOCK FALSE
