SPECIFICATION Spec
CONSTANTS
  MaxPrompts = 3
  MaxBatch = 2
INVARIANTS ResponsesFitTheirMessages ResponsesAreScrubbed SuccessIsReportedLast
