CONSTANTS
  None = None
  Fleet = {"n1"}
  Contacts = {"c1"}
SPECIFICATION MCSpec

  
  
  
PROPERTIES
  SerialAdvances
  ImplementsView
  SweepSparesWithdrawn
CHECK_DEADLOCK FALSE
