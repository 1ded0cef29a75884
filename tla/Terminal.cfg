SPECIFICATION FairSpec
CONSTANTS
  Names = {"alice", "bob"}
  Texts = {"t"}
  Me = "alice"
  Lines <- Mixed
  Incoming <- FromServer
  MaxLines = 2
  MaxPackets = 2
INVARIANTS
  TypeOK
  ShownInOrder
  SessionOnTheWire
  AlarmIsTrue
PROPERTIES
  EndsAfterExit
  EndsAtNextLine
