SPECIFICATION Spec
CONSTANT None = None
PROPERTIES
  ViewsSettle
  SettlesOnline
  
CHECK_DEADLOCK FALSE
