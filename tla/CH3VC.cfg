SPECIFICATION FairSpec
CONSTANTS N = 3
          MayFail = {1}
          MayQueue = {0, 2}
INVARIANTS TypeOK CleanExit OutstandingCount AssertOnlyAfterFailure ClosedIsQuiet FailureAccuracy NoUnhandledTermination
PROPERTY FinalizeReturns
CHECK_DEADLOCK FALSE
