SPECIFICATION Spec
CONSTANTS
  Utterances <- SomeUtterances
  Answers <- SomeAnswers
  Samples = {}
  MaxSamples = 0
CHECK_DEADLOCK FALSE
PROPERTIES
  OnlyCleanRepliesDecide
