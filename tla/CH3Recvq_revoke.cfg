SPECIFICATION Spec
CONSTANTS
  Ranks = {r1}
  BaseTags = {t1, shrink}
  FTTags = {shrink}
  Tagged = {FALSE, TRUE}
  Comms = {"intra", "inter"}
  Kinds = {"pt2pt", "coll"}
  context_id <- MixedId
  recvcontext_id <- MixedRecvId
  ErrorBits = {{}}
  Handles = {h1}
  ANY_SOURCE = ANY_SOURCE
  ANY_TAG = ANY_TAG
  MaxRecvs = 1
  MaxMsgs = 2
INVARIANTS RevokeCommentsHold
CHECK_DEADLOCK FALSE
