SPECIFICATION Spec
CONSTANT None = None
INVARIANTS
  LocalCopiesWhole
  OptimisticRootShown
  
  
  
CHECK_DEADLOCK FALSE
