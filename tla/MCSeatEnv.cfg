SPECIFICATION Spec
CONSTANTS
  root = root  alice = alice  uid0 = uid0  uid1 = uid1  right = right  wrong = wrong
  None = None
  Users <- MCUsers  Uids <- MCUids  Secrets <- MCSecrets
  Root = root
  Shadow0 <- MCShadow  Passwd0 <- MCPasswd
  MaxTxn = 2  MaxSession = 3  MaxEdits = 1
INVARIANTS SessionIsThePrincipals SessionsAreHeld ChildRunsInItsOwnSession
  OneSessionPerLogin CapabilityIsBacked
PROPERTIES VerdictIsFinal UnreadableDecidesNothing ImplementsLoginRight
CHECK_DEADLOCK FALSE
