CONSTANTS
  Messages = {m1}
  Handlers = {h1}
  Files = {f1}
  Inputs <- SmartOnly
  NoFile = NoFile
  Missing = Missing
  NoRow = NoRow
  NoMessage = NoMessage
  NoHandler = NoHandler
  FlakyReads = TRUE
  MaxFaults = 1
SPECIFICATION Spec
INVARIANTS SnapshotIsChosen
