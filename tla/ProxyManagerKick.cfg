CONSTANTS
  Sessions = {s1, s2, s3}
  Acceptors = {a1}
  Users = {"u", "u:x"}
  FirstField <- FieldsOfUsers
  Ips = {i1, i2}
  Domains = {}
  ClientProtos = {"socks"}
  Limits = {0}
  BlackLists = {}
  Updates <- DeliveredUpdates
  Kickers = {"Disconnect", "DeleteUserData"}
  MayStop = FALSE
  NoUser = NoUser
  NoCtx = NoCtx
  NoEntry = NoEntry
  NoDomain = NoDomain
SYMMETRY Symmetry
SPECIFICATION Spec
CONSTRAINT FewClients
ACTION_CONSTRAINT OneWalk
INVARIANTS RefCountExact Reachable 
PROPERTIES OnlyKicksInterrupt
