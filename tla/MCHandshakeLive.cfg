SPECIFICATION FairSpec
CONSTANTS
  Ids = {1}
  Corporates = {c1, c2}
  Urls = {u1}
  NullUrl = NullUrl
  NoRow = NoRow
  Handshakes = {h1, h2}
  Registrations = {p1}
  NoCall = NoCall
  REVOKE_VERIFY_KEY_AFTER = 2
  MAX_NUMBER_OF_ACTIVE_SESSIONS = 2
  FRESH_FOR = 1
  SESSION_LIFE = 2
  Skew = 0
  MaxLatency = 0
  MaxTime = 0
  MaxKeys = 4
PROPERTIES
  HandshakeEnds
  RegistrationEnds
  OwnStorageOnly
