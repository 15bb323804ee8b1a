SPECIFICATION Spec
CONSTANTS
  Utterances <- FewUtterances
  Answers <- FewAnswers
  Samples = {1, 3}
  MaxSamples = 3
CHECK_DEADLOCK FALSE
INVARIANTS
  TypeOK
  ModelsAgree
  PercentilesInOrder
