SPECIFICATION Spec
CONSTANTS
  MaxPrompts = 4
  Scripts <- MCScripts
INVARIANT AnswersWereTypedForTheirPrompt
