SPECIFICATION Spec
INVARIANTS
  
  AcceptedWorks
PROPERTIES
  
  SavesKeepTheRest
CHECK_DEADLOCK FALSE
