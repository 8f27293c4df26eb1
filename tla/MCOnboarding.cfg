SPECIFICATION FairOnboardingSpec
CONSTANTS
  Ids = {1}
  Corporates = {c1}
  Urls = {u1}
  NullUrl = NullUrl
  NoRow = NoRow
  Handshakes = {h1}
  Registrations = {p1, p2}
  NoCall = NoCall
  REVOKE_VERIFY_KEY_AFTER = 2
  MAX_NUMBER_OF_ACTIVE_SESSIONS = 1
  FRESH_FOR = 1
  SESSION_LIFE = 2
  Skew = 0
  MaxLatency = 0
  MaxTime = 2
  MaxKeys = 3
  Mails = {1, 2, 3}
  Configurations <- OneProvider
  Reliable = {"Brevo"}
INVARIANTS
  KeylessOnlyIfInterrupted
  MailedKeyWorks
PROPERTIES
  SavedKeyIsMailed
