SPECIFICATION Spec
CONSTANTS
  n1 = n1
  n2 = n2
  bad = bad
  h1 = h1
  h2 = h2
  Name <- Names
  Valid <- ValidNames
  Handle <- Handles
  Data = {0, 1}
  Zero = 0
  SectorCnt = 7
  Entries = 2
  MaxLen = 2
  FailingAllocs <- Harmless
  None = None
SYMMETRY Symmetry
INVARIANTS
  FilesConsistent
PROPERTIES
  ImplementsFileSys
  LeakOnlyByFailure
