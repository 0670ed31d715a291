SPECIFICATION Spec
CONSTANT MaxPrompts = 3
INVARIANTS ResponsesAnswerTheirMessage VerdictIsGreetds
  NobodyWaitsForBoth RefusalIsCancelledFirst
