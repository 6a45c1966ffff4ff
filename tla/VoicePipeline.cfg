CONSTANTS
  m1 = m1  m2 = m2
  Jobs = {m1, m2}
  Workers = {w1}
  Tokens = {t1, t2}
  NoJob = NoJob
  NoToken = NoToken
  Chat <- SameChat
  MessageID <- Numbers
  Mode <- MixedMode
  Legacy <- OldRow
  Polling = TRUE
  Stalls = FALSE
  MaxFaults = 1
SPECIFICATION FairSpec
INVARIANTS DoneIsDelivered NoOrphanUpload InMessageOrder
PROPERTIES Delivers EventuallyDone
