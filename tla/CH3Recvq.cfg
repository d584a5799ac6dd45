SPECIFICATION Spec
CONSTANTS
  Ranks = {r1, r2}
  BaseTags = {t1, agree}
  FTTags = {agree}
  Tagged = {FALSE}
  Comms = {c1}
  Kinds = {"pt2pt", "coll"}
  context_id <- OneId
  recvcontext_id <- OneId
  ErrorBits = {{}, {"error"}}
  Handles = {h1}
  ANY_SOURCE = ANY_SOURCE
  ANY_TAG = ANY_TAG
  MaxRecvs = 2
  MaxMsgs = 2
SYMMETRY RankSymmetry
INVARIANTS NoMissedMatch NonOvertaking FailedNotAwaited RevokedIsClean DroppedIsUnused
CHECK_DEADLOCK FALSE
