SPECIFICATION FairSpec
CONSTANTS
  MaxSockets = 2
  MaxEvents = 2
INVARIANTS
  TypeOK
  OneLiveSocket
  SessionAgreement
  ReasonShown
  MessagesOfSession
  InfoLabelled
PROPERTIES
  ViewSettles
  NeverStuck
CHECK_DEADLOCK FALSE
