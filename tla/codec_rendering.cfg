CONSTANTS
  MaxMessages = 1
  MaxLate = 1
  Samples <- Track
  SeekTimes = {2, 4}
  NumInputs = 2
  NumOutputs = 1
  Devices <- SomeDevices
  MayFail = TRUE
SPECIFICATION Spec
INVARIANTS
  TypeOK
  
  
  SessionServesItsUsers

  
