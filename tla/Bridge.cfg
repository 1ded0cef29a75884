SPECIFICATION FairSpec
CONSTANTS
  PacketSize = 2
  MaxUnits = 5
  MaxMessages = 2
INVARIANTS
  TypeOK
  WholePackets
  ConversationInOrder
PROPERTIES
  ImplementsPipeToPage
  ImplementsPipeToServer
  EndsTogether
