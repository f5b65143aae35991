SPECIFICATION Spec
CONSTANTS
  Writers = {"out", "ret"}
  Messages <- MCMessages
  Channels = {7, 9}
  Slotted = {7}
  MaxLen = 2
  MaxReads = 2
PROPERTIES
  
  DeliveredOrStuck
CHECK_DEADLOCK FALSE
