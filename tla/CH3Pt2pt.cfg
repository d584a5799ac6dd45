SPECIFICATION Spec
CONSTANTS
  SHandles = {s1, s2}
  RHandles = {q1, q2, q3}
  MsgTags = {t1}
  ANY_TAG = ANY_TAG
  NULL = NULL
  GARBLED = GARBLED
  MaxMsgs = 2
  MaxRecvs = 1
SYMMETRY HandleSymmetry
INVARIANTS HandlesAreValid AssertOnlyAfterRevoke CancelIsHonest SyncMeansMatched CompleteMeansReceived
PROPERTY RecvqSpec
CHECK_DEADLOCK FALSE
