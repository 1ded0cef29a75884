SPECIFICATION Spec
CONSTANTS
  Names = {"alice", "maria1", "maria"}
  Texts = {"t"}
  MAX_CLIENTS = 2
  Ips = {"ip1", "ip2"}
  Fds = {4, 5}
  Clip <- Cut
  Conns = {"c1", "c2", "c3"}
  NameOf <- MembershipNames
  IpOf <- MembershipIps
  Strangers = {}
  Offers = {"LOGOUT"}
  Budget <- OnlyFirst
  Leavers = {"c1", "c2", "c3"}
  Stallable = {}
  INACTIVITY_TIMEOUT = 1
  MaxTime = 0
  Punctual = TRUE
INVARIANTS
  DescriptorsOwned
  UniqueMembers
  EntryOwnsSocket
  SessionHasEntry
  MutexProtects
  RefusedGetOnlyError
  NoticeOnce
PROPERTIES
  ImplementsPresence
