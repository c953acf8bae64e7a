SPECIFICATION FairMailSpec
CHECK_DEADLOCK FALSE
CONSTANTS
  MaxRetries = 3
  Ports = {25, 465, 587, 2525}
INVARIANTS
  MailTypeOK
  ReturnMeansDelivered
  PasswordOnlyOverTLS
PROPERTIES
  RefusedLoginIsLast
  DeliveryEnds
