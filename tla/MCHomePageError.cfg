SPECIFICATION Spec
CONSTANT
  MaxSockets = 2
PROPERTY ErrorEndsOwnWait
