SPECIFICATION Spec
CONSTANTS
  Names = {"alice", "bob"}
  Texts = {"t"}
  MAX_CLIENTS = 2
  Ips = {"ip1", "ip2"}
  Fds = {4, 5}
  Clip <- Whole
  Conns = {"c1", "c2"}
  NameOf <- PairNames
  IpOf <- PairIps
  Strangers = {}
  Offers = {"LIST"}
  Budget <- OneEach
  Leavers = {"c1", "c2"}
  Stallable = {}
  INACTIVITY_TIMEOUT = 1
  MaxTime = 2
  Punctual = TRUE
PROPERTIES
  AnyCommandReactivates
