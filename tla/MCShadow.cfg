SPECIFICATION Spec
CONSTANTS
  Secrets = {old, new}
  Numbers <- MCNumbers
  Unset = Unset  Absent = Absent
  Half = 128
  NeverAges = 3
  FirstDay = 4
  LastDay = 6
INVARIANTS OnlyTheChosenOpens TermsAreServed
PROPERTIES NeverBetterByWaiting ChangeRecovers
CHECK_DEADLOCK FALSE
