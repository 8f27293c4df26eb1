SPECIFICATION FairMailSpec
CONSTANTS
  Mails = {1, 2}
  Configurations <- AllOrders
  Reliable = {"SendGrid"}
INVARIANTS
  MailTypeOK
  GivesUpAfterAll
  ExtraCopiesFollowErrors
PROPERTIES
  ReliableIsEnough
