SPECIFICATION Spec
CONSTANT None = None
INVARIANTS
  
  OwnCommitments
  BuilderIsItsHistory
  
  AckedIsRemembered
  
  ReadsWhatIsStored
  FallbackIsComplete
CHECK_DEADLOCK FALSE
