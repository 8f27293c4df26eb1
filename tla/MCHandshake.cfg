SPECIFICATION Spec
CONSTANTS
  Ids = {1}
  Corporates = {c1}
  Urls = {u1}
  NullUrl = NullUrl
  NoRow = NoRow
  Handshakes = {h1, h2}
  Registrations = {p1}
  NoCall = NoCall
  REVOKE_VERIFY_KEY_AFTER = 2
  MAX_NUMBER_OF_ACTIVE_SESSIONS = 2
  FRESH_FOR = 1
  SESSION_LIFE = 5
  Skew = 1
  MaxLatency = 1
  MaxTime = 5
  MaxKeys = 4
SYMMETRY HandshakeSymmetry
INVARIANTS
  TypeOK
  SessionLimit
  SessionsSpaced
  ExpiryRanksByAge
  AnnouncedExpiry
  SessionsHaveUrl
  AnsweredSessionIsActive
PROPERTIES
  KeyRetention
  SessionRetention
  KeyReuse
  AnswersNewest
  ImplementsKeyRing
