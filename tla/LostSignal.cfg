SPECIFICATION FairSpec
CONSTANTS
  Names = {"alice", "bob"}
  Texts = {"t"}
  Me = "alice"
  Lines <- Short
  Incoming <- Friendly
  MaxLines = 1
  MaxPackets = 1
PROPERTIES
  InterruptsFgets
