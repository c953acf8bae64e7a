SPECIFICATION FairBootSpec
CHECK_DEADLOCK FALSE
CONSTANTS
  Users = {u1, u2}
  Requests = {r1}
  OtpTokens = {}
  MagicTokens = {}
  NoToken = NoToken
  NoUser = NoUser
  LegacyUsers = {u1}
  RequireVerification = TRUE
  MayAbort = FALSE
  MaxVersion = 2
  MaxPassword = 1
  MaxSessions = 1
  Operators = {o1, o2}
  NoOperator = NoOperator
  Mailboxes = {"m1"}
  MailboxOf <- OneMailbox
  PriorSuperusers = {u1}
  CommandMayDie = TRUE
INVARIANTS
  BootTypeOK
  ControlRecordsPromotion
  SuperuserAccounted
  PromotedWasVerified
PROPERTIES
  PromotedAsConfirmed
  AttemptEnds
  NoLimboAccount
