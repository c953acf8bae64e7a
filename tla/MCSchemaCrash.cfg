SPECIFICATION FairSchemaSpec
CHECK_DEADLOCK FALSE
CONSTANTS
  Null = Null
  Installations <- SomeInstallations
  Engines = {"mysql"}
  Deployments <- Migrating
  DefaultsOf <- TwoPermissions
  MaxCrashes = 1
  MaxCommands = 0
INVARIANTS
  HeadIsComplete
