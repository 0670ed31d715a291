SPECIFICATION MSpec
CONSTANTS
  MaxPrompts = 4
  Scripts <- MCScripts
INVARIANTS OneDrawer ExitTellsTheTruth GreeterIsVisible ConsoleGivenBack
  AnswersReachTheirPrompt VerdictsAgree
PROPERTIES GreeterDoesNotOutlive FaceLearnsOfTheEnd DaemonOutlivesTheGreeter
