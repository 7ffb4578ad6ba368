CONSTANTS
  NumRenderers = 1
  Faulty = {1}
  HasTimeSource = FALSE
  AppCalls <- MessageCalls
  MaxInbox = 2
  MaxEvents = 2
  MaxCustom = 2
SPECIFICATION FairSpec
PROPERTIES
  BlockingCallsReturn
  LastValueCommitted
