CONSTANTS
  password = password
  passkey = passkey
  Ways = {password, passkey}
  MaxSessions = 2
  NoCookie = NoCookie
  Undefined = Undefined
  Null = Null
SPECIFICATION SessionSpec
INVARIANTS
  SessionTypeOK
  SignedOutStaysOut
  ShownIsServed
  SignInLands
PROPERTIES
  NavigationEnds
