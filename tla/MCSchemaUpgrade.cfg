SPECIFICATION FairSchemaSpec
CHECK_DEADLOCK FALSE
CONSTANTS
  Null = Null
  Installations <- SomeInstallations
  Engines = {"postgresql", "mysql"}
  Deployments <- AnyDeployment
  DefaultsOf <- TwoPermissions
  MaxCrashes = 2
  MaxCommands = 2
INVARIANTS
  SchemaTypeOK
  NothingLost
  OkIsComplete
PROPERTIES
  APIComesUp
