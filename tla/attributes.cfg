SPECIFICATION Spec
CONSTANTS
  None = None
  Lists <- FieldLists
  Sources <- MCSources
  Untokened = {"("}
CHECK_DEADLOCK FALSE
INVARIANTS
  OneReportForAll
  
  OnItsOwn
