SPECIFICATION Spec
CONSTANTS
  Files <- MCFiles
  NoFile = NoFile
  VTs = {0, 1, 7}
  NoVt = NoVt
  FreeNames = {"HINT"}
  Malformed = {"a=b"}
  Accounts <- MCAccounts
  None = "none"
  MaxEdits = 2
INVARIANTS OneWriterPerVariable SearchPathsNameOneAccount ConsoleIsOneFact
  DataDirsPublishedAreTheSessions
