CONSTANTS
  NumRenderers = 2
  Faulty = {1}
  HasTimeSource = TRUE
  AppCalls <- PlaybackCalls
  MaxInbox = 2
  MaxEvents = 2
  MaxCustom = 0
SPECIFICATION Spec
INVARIANTS
  TypeOK
  NoIllegalTransition
  PlaysExactlyWhenPlaying
  EnabledAsAsked
  WorkIsScheduled
  LetGoMeansReleased
  ViewCatchesUp
  
PROPERTY
  ViewFollowsDiagram
