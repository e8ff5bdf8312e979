SPECIFICATION Spec
CONSTANTS
  Nil = Nil
INVARIANTS
  
  NothingPrivateIsShown

  
CHECK_DEADLOCK FALSE
