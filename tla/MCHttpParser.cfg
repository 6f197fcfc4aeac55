CONSTANTS
  Builds <- EvaAndStrict
  WordLen = 3
  Radix = 2
  MaxHeader = 2
  MaxLength = 2
  MaxCall = 2
  None = None
SPECIFICATION Spec
INVARIANTS
  TypeOK
  EventsInOrder
  DataPassedOn
  BodyExact
  KeywordsExact
  AssertionsHold
