SPECIFICATION SessionUseSpec
CONSTANTS
  Ids = {1}
  Corporates = {c1}
  Urls = {u1}
  NullUrl = NullUrl
  NoRow = NoRow
  Handshakes = {h1}
  Registrations = {}
  NoCall = NoCall
  REVOKE_VERIFY_KEY_AFTER = 1
  MAX_NUMBER_OF_ACTIVE_SESSIONS = 2
  FRESH_FOR = 2
  SESSION_LIFE = 3
  Skew = 0
  MaxLatency = 0
  MaxTime = 3
  MaxKeys = 3
  Uses = {}
  MaxAnswers = 1
INVARIANTS
  ActiveUntilAnnounced
