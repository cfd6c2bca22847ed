CONSTANTS
  Ids = {i1, i2}
  Query = query
  MaxInbox = 2
  MaxFires = 2
SPECIFICATION FairSpec
INVARIANTS TypeOK SentOnceARun RepliesAgree OkIsExecuted
PROPERTY LinkLossIsNoticed
