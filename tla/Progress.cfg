SPECIFICATION FairSpec
CONSTANTS
  Names = {"alice", "bob", "carol"}
  Texts = {"t"}
  MAX_CLIENTS = 4
  Ips = {"ip1", "ip2", "ip3"}
  Fds = {4, 5, 6}
  Clip <- Whole
  Conns = {"c1", "c2", "c3"}
  NameOf <- GroupNames
  IpOf <- MembershipIps
  Strangers = {"c3"}
  Offers = {"LOGOUT"}
  Budget <- OnlyFirst
  Leavers = {"c1", "c2"}
  Stallable = {"c2"}
  INACTIVITY_TIMEOUT = 1
  MaxTime = 0
  Punctual = TRUE
PROPERTIES
  EveryClientAnswered
  DepartureFreesName
  EveryoneTold
