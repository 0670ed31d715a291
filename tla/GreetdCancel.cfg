SPECIFICATION Spec
CONSTANT MaxPrompts = 3
INVARIANT FailureIsCancelledFirst
