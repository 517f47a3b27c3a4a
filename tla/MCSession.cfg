SPECIFICATION FairSpec
CONSTANTS
  ann = ann
  bob = bob
  t1 = t1
  t2 = t2
  Attempts <- MCAttempts
  Accounts <- MCAccounts
  Nothing = Nothing
  Buttons = {"email", "google", "apple"}
  FStoreKeys <- MCFStoreKeys
INVARIANTS
  LoggedInHasUser
  StoresAgree
  ProfileHasFlag
PROPERTIES
  ComesToRest
