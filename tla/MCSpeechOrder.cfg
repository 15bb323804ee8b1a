SPECIFICATION Spec
CONSTANTS
  Times <- SomeTimes
  Names <- SomeNames
  Passed <- SomeWords
  Texts <- SomeTexts
  NoMention = NoMention
  MaxLen = 2
  MaxLines = 3
INVARIANTS
  PronounsMeanTheLastMention
