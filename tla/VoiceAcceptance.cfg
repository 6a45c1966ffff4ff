CONSTANTS
  Messages = {m1, m2}
  Handlers = {h1, h2}
  Files = {f1}
  Inputs <- NoInputs
  NoFile = NoFile
  Missing = Missing
  NoRow = NoRow
  NoMessage = NoMessage
  NoHandler = NoHandler
  FlakyReads = TRUE
  MaxFaults = 2
SPECIFICATION FairSpec
INVARIANTS TypeOK AckedIsKept AnsweredOnce SnapshotIsCurrent
PROPERTIES DestinationKept EventuallyAcked
