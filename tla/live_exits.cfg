CONSTANTS
  Qty = 2
  MaxFaults = 2
  None = None
SPECIFICATION Spec
INVARIANTS NeverOverExits HeldIsProtected
 
CHECK_DEADLOCK FALSE
