CONSTANTS
  Ssids = {"home", "q"}
  Hidden = ""
  Quoted = {"q"}
  Auths = {0, 3}
  Rssis = {0, 1}
  MaxApNum = 4
  MaxString = 4
  Names <- MCNames
  Passwords <- MCPasswords
  Addresses <- MCAddresses
  Queries <- MCQueries
SPECIFICATION MCSpec
INVARIANTS LoopsSound ListIsRight JsonIsWhole PhoneFindsPortal
CHECK_DEADLOCK FALSE
