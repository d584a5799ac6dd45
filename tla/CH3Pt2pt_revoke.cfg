SPECIFICATION Spec
CONSTANTS
  SHandles = {s1}
  RHandles = {q1, q2}
  MsgTags = {t1}
  ANY_TAG = ANY_TAG
  NULL = NULL
  GARBLED = GARBLED
  MaxMsgs = 1
  MaxRecvs = 1
INVARIANT NoAssertFails
CHECK_DEADLOCK FALSE
