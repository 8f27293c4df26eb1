SPECIFICATION Spec
CONSTANTS
  g1 = g1
  g2 = g2
  g3 = g3
  s1 = s1
  s2 = s2
  s3 = s3
  MAX_NUMBER_OF_ACTIVE_SESSIONS = 3
  Signers = {g1}
  Storages = {s1, s2, s3}
  StoragesOf <- OneSigner
  NoRow = NoRow
PROPERTIES
  Status404MeansNotFound
