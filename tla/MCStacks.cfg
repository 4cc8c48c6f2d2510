CONSTANTS
  n1 = n1
  n2 = n2
  web = web
  db = db
  starter = starter
  full = full
  torn = torn
  c1 = c1
  c2 = c2
  Names = {n1, n2}
  Hidden = {}
  Mixed = {n1}
  Skip = {n2}
  Services = {web, db}
  Contents = {starter, full}
  ServicesOf <- MCServicesOf
  Deps <- MCDeps
  Template = starter
  Torn = torn
  Clients = {c1, c2}
  Ops <- EveryOp
SPECIFICATION Spec
CONSTRAINT PairsOverlap
PROPERTIES
  DownBeforeGone
  RenameLands
  
  
SYMMETRY MCClients
