SPECIFICATION FairSpec
CONSTANTS N = 3
          MayFail = {1}
          MayQueue = {2}
PROPERTY FinalizeSurvivesDeath
CHECK_DEADLOCK FALSE
