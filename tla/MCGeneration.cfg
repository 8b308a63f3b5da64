CONSTANTS
  Token = {"a", "b", "stop"}
  Capacity = 4
  Answers <- MCAnswers
  Predict <- MCPredict
  StopToken = {"stop"}
  Warmups = 1
  Measured = 2
SPECIFICATION Spec
INVARIANTS
  GreedyContinuation
  ValidatedIsNeverRefused
  IterationsRepeat
PROPERTY ProgramsEnd
