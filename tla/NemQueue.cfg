SPECIFICATION MCSpec
CONSTANTS Procs = {p1, p2, p3}
          Cells = {c1, c2, c3, c4}
          NULL = NULL
INVARIANTS QueueAssertions EmptyIsHonest LockedEmptyIsExactInBuild
PROPERTY FifoFairSpec
