SPECIFICATION FairSpec
CONSTANTS
  Names = {"alice", "bob"}
  Texts = {"t"}
  MAX_CLIENTS = 2
  Ips = {"ip1", "ip2"}
  Fds = {4, 5}
  Clip <- Whole
  Conns = {"c1", "c2"}
  NameOf <- PairNames
  IpOf <- PairIps
  Strangers = {"c2"}
  Offers = {"REGISTER", "BROADCAST", "DIRECT", "LIST", "INFO", "STATUS", "LOGOUT"}
  Budget <- OnlyFirst
  Leavers = {"c1"}
  Stallable = {}
  INACTIVITY_TIMEOUT = 1
  MaxTime = 2
  Punctual = TRUE
INVARIANTS
  TypeOK
  OwnStatusAccepted
  StatusToldIsStatusHeld
PROPERTIES
  ImplementsPresence
  IdleBecomesInactive
  MarksOnlyIdle
