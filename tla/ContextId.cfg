SPECIFICATION FairSpec
CONSTANTS Procs = {1, 2, 3}
          Ops = {"a", "b", "c"}
          nonblocking = {"a"}
          temporary = {"c"}
          members <- MCmembers
          ignorers <- MCignorers
          parent <- MCparent
          tag <- MCtag
          INT_BITS = 2
          MAX_CONTEXT_MASK = 2
          eager_nelem = 1
          InitialMasks <- MCMasks
INVARIANTS MembersAgree IdsAreDistinct AssertOnlyAfterExhaustion FlagsAreExact ListIsPending
PROPERTY AllocationsEnd
