SPECIFICATION Spec
CONSTANTS
  Names = {"alice", "bob"}
  Texts = {"t"}
  MAX_CLIENTS = 1
  Ips = {"ip1", "ip2"}
  Fds = {4, 5}
  Clip <- Whole
  Conns = {"c1", "c2"}
  NameOf <- PairNames
  IpOf <- PairIps
  Strangers = {}
  Offers = {}
  Budget <- Silent
  Leavers = {"c1", "c2"}
  Stallable = {}
  INACTIVITY_TIMEOUT = 1
  MaxTime = 0
  Punctual = TRUE
PROPERTIES
  FullMeansFull
