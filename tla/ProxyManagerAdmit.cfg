CONSTANTS
  Sessions = {s1, s2, s3}
  Acceptors = {a1}
  Users = {"u"}
  FirstField <- FieldsOfUsers
  Ips = {i1}
  Domains = {d1}
  ClientProtos = {"connect", "socks", "plain"}
  Limits = {1, 2}
  BlackLists = {}
  Updates = {}
  Kickers = {}
  MayStop = FALSE
  NoUser = NoUser
  NoCtx = NoCtx
  NoEntry = NoEntry
  NoDomain = NoDomain
SYMMETRY Symmetry
SPECIFICATION Spec
INVARIANTS IpCountExact IpLimit
