CONSTANTS
  Notes = {n1}
  Texts = {"short"}
  Chunks <- MCChunks
  OldChunks <- MCOldChunks
  Cards = {"c1"}
  Nothing = Nothing
  MaxEdits = 0
  MaxFaults = 1
SPECIFICATION Spec
INVARIANTS ResumesSafely
