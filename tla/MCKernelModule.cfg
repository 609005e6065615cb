\* The system may stop: panic() under fips_enabled.
SPECIFICATION Spec
CHECK_DEADLOCK FALSE
CONSTANTS
  Size = {0, 2, 3, 8}
  Field = {0, 4}
  MaxField = 3
  alice = alice
  mapped = mapped
  root = root
  init = init
  box = box
  nested = nested
  t1 = t1
  t2 = t2
  t3 = t3
  b1 = b1
  b2 = b2
  b3 = b3
  Tfm <- Tfms
  Caller <- Callers
  Capable <- Admin
  Root = root
  InitPidNs = init
  Privileged <- Boxes
  Bucket <- Buckets
  max_kcapi_instances = 2
  MaxIncarnation = 1
  None = None
SYMMETRY Alike
INVARIANTS
  NoFreeUnderUser
  LoadEndsSound
  BucketsExact
  LimitPerTenant
