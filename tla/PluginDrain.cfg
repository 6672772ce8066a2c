SPECIFICATION Spec
CONSTANTS
  r1 = r1
  r2 = r2
  b1 = b1
  b2 = b2
  t1 = t1
  t2 = t2
  Tenants = {t1, t2}
  SystemTenant = t1
  Blockers = {b1, b2}
  Requests = {r1, r2}
  MaxJobs = 2
  ListLimit = 20
  Setups <- SmallSetups
SYMMETRY RequestSymmetry
INVARIANTS DrainingHasActiveJob AdmittedBeforeDrain StoppedBeforeDrain RemovedIsUnused
