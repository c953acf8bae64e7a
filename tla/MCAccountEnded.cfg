SPECIFICATION AccountSpec
CHECK_DEADLOCK FALSE
CONSTANTS
  Users = {u1}
  Requests = {r1, r2}
  OtpTokens = {otp1}
  MagicTokens = {link1}
  NoToken = NoToken
  NoUser = NoUser
  LegacyUsers = {}
  RequireVerification = TRUE
  MayAbort = TRUE
  MaxVersion = 3
  MaxPassword = 2
  MaxSessions = 3
SYMMETRY Symmetry
INVARIANTS
  EndedStaysEnded
