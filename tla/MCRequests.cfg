SPECIFICATION Spec
CONSTANTS
  Nil = Nil

  
PROPERTIES
  LateAnswersAreHarmless
  EveryoneSettles
CHECK_DEADLOCK FALSE
