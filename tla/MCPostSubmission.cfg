SPECIFICATION PostFairSpec
CONSTANTS
  a = a
  b = b
  Accounts <- MCAccounts
  Authors <- MCAuthors
  Nothing = Nothing
  MaxLogins = 2
  MaxSubmissions = 2
  MaxTabs = 2
INVARIANTS
  OneAtATime
  TokenFitsAuthor
PROPERTIES
  ButtonComesBack
