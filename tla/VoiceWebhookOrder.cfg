CONSTANTS
  m1 = m1  m2 = m2
  Jobs = {m1, m2}
  Workers = {w1}
  Tokens = {t1, t2}
  NoJob = NoJob
  NoToken = NoToken
  Chat <- SameChat
  MessageID <- Numbers
  Mode <- NoteMode
  Legacy <- NoLegacy
  Polling = FALSE
  Stalls = FALSE
  MaxFaults = 0
SPECIFICATION Spec
INVARIANTS InMessageOrder
