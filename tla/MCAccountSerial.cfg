SPECIFICATION AccountSpec
CHECK_DEADLOCK FALSE
CONSTANTS
  Users = {u1}
  Requests = {r1}
  OtpTokens = {otp1}
  MagicTokens = {link1}
  NoToken = NoToken
  NoUser = NoUser
  LegacyUsers = {u1}
  RequireVerification = TRUE
  MayAbort = TRUE
  MaxVersion = 4
  MaxPassword = 3
  MaxSessions = 3
INVARIANTS
  AccountTypeOK
  EndedStaysEnded
  SpentTokenCleared
PROPERTIES
  ImplementsStore
