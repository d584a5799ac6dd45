SPECIFICATION Spec
CONSTANTS
  o1 = o1
  o2 = o2
  o3 = o3
  Origins = {o1, o2, o3}
  Confs <- Forgetful
INVARIANT ExclusiveLock
