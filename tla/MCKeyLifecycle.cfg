SPECIFICATION FairLifecycleSpec
CONSTANTS
  s1 = s1
  s2 = s2
  k1 = k1
  MAX_NUMBER_OF_ACTIVE_SESSIONS = 1
  Calls = {c1, c2}
  Keys = {k1}
  Storages = {s1, s2}
  StoragesOf <- OneVaultKey
  NoRow = NoRow
  MaxKeyId = 2
INVARIANTS
  TypeOK
  SuccessIsDurable
  RollbackOnlyByGenerator
  HalfKeysAreExplained
  SignsWithWholeKey
  ConfirmedKeyIsFound
  EarlySignerGetsAllOrNothing
PROPERTIES
  FailureIsAnswered
