CONSTANTS
  Kinds = {"plain", "named", "bare"}
  Domains = {d1}
  NoDomain = NoDomain
  NoBuf = NoBuf
  MaxUp = 2
SPECIFICATION BoundedSpec
INVARIANTS SniffSeesForwarded NothingLeft
PROPERTIES ImplementsSession RelayEnds BlacklistReachesTunnel
