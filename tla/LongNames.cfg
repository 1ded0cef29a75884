SPECIFICATION Spec
CONSTANTS
  Names = {"maria1", "maria2", "maria"}
  Texts = {"t"}
  MAX_CLIENTS = 2
  Ips = {"ip1", "ip2"}
  Fds = {4, 5}
  Clip <- Cut
  Conns = {"c1", "c2"}
  NameOf <- LongNames
  IpOf <- PairIps
  Strangers = {}
  Offers = {}
  Budget <- Silent
  Leavers = {"c1", "c2"}
  Stallable = {}
  INACTIVITY_TIMEOUT = 1
  MaxTime = 0
  Punctual = TRUE
INVARIANTS
  UniqueMembers
