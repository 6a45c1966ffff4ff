CONSTANTS
  Notes = {n1}
  Texts = {"short", "long"}
  Chunks <- MCChunks
  OldChunks <- MCOldChunks
  Cards = {"c1", "c2"}
  Nothing = Nothing
  MaxEdits = 2
  MaxFaults = 2
SPECIFICATION FairSpec
INVARIANTS SkippedIsSame VectorsAreCurrent
PROPERTIES DroppedWereGone EventuallyIndexed
