SPECIFICATION Spec
CONSTANTS
  Ids = {1}
  Corporates = {c1}
  Urls = {u1}
  NullUrl = NullUrl
  NoRow = NoRow
  Handshakes = {h1}
  Registrations = {p1}
  NoCall = NoCall
  REVOKE_VERIFY_KEY_AFTER = 3
  MAX_NUMBER_OF_ACTIVE_SESSIONS = 3
  FRESH_FOR = 2
  SESSION_LIFE = 3
  Skew = 0
  MaxLatency = 1
  MaxTime = 2
  MaxKeys = 3
PROPERTIES
  OnlyValidKeysSucceed
