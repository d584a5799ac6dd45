SPECIFICATION FairSpec
CONSTANTS
  SHandles = {s1}
  RHandles = {q1, q2, q3, q4}
  MsgTags = {t1}
  ANY_TAG = ANY_TAG
  NULL = NULL
  GARBLED = GARBLED
  MaxMsgs = 3
  MaxRecvs = 1
PROPERTY SendReturns
CHECK_DEADLOCK FALSE
