SPECIFICATION Spec
CONSTANT
  MaxEvents = 2
INVARIANT
  TypeOK
PROPERTIES
  AnswerIsAwaited
  QuietQemuIsUnderstood
  CommandEnds
