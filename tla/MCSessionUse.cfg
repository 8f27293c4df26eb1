SPECIFICATION SessionUseSpec
CONSTANTS
  Ids = {1}
  Corporates = {c1}
  Urls = {u1, u2}
  NullUrl = NullUrl
  NoRow = NoRow
  Handshakes = {h1, h2}
  Registrations = {}
  NoCall = NoCall
  REVOKE_VERIFY_KEY_AFTER = 1
  MAX_NUMBER_OF_ACTIVE_SESSIONS = 2
  FRESH_FOR = 1
  SESSION_LIFE = 2
  Skew = 0
  MaxLatency = 0
  MaxTime = 2
  MaxKeys = 3
  Uses = {1}
  MaxAnswers = 2
SYMMETRY Symmetric
INVARIANTS
  HeldSessionIsActive
  HolderIsReached
  UrlIsServed
