\* Two people, two links, one worker after another.
CONSTANTS
  Participants <- People
  Invites = {i1, i2}
  Workers = {1}
  Limit = 1
  PendingLimit = 1
  MaxAttempts = 2
  MaxRevision = 3
  MaxEvents = 3
  MaxCards = 3
CONSTRAINTS Focus FewRounds
SYMMETRY Links
SPECIFICATION Spec
CHECK_DEADLOCK FALSE
INVARIANTS
  TypeOK
  LinksAdmitOne
  EndedIsUnshared
  HeldDeliveriesAreAuthorised
  ButtonsNameTheirMember
  OneButtonPerGeneration
  SentButtonsWork
PROPERTIES
  CardsGoToMembers
  RecordedIsNotRepeated
