SPECIFICATION Spec
CONSTANT None = None
INVARIANTS
  
  ResultAccounts
  OneIngest
  
 
CHECK_DEADLOCK FALSE
