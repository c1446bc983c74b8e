CONSTANTS
  Sessions = {s1, s2}
  Acceptors = {a1}
  Users = {"u"}
  FirstField <- FieldsOfUsers
  Ips = {i1}
  Domains = {d1}
  ClientProtos = {"socks"}
  Limits = {0}
  BlackLists = {{d1}}
  Updates = {}
  Kickers = {"Disconnect"}
  MayStop = TRUE
  NoUser = NoUser
  NoCtx = NoCtx
  NoEntry = NoEntry
  NoDomain = NoDomain
SPECIFICATION FairSpec
ACTION_CONSTRAINT WalksOnly
INVARIANTS NoRecordLost CleanStop
PROPERTIES StopCompletes CancelledSessionEnds
