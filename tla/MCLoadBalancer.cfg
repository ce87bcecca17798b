CONSTANTS
  u1 = u1  u2 = u2
  r1 = r1  r2 = r2
  ip = ip
  NoUpstream = NoUpstream
  Upstreams <- MCUpstreams
  Requests <- MCRequests
  Ips <- MCIps
  IpOf <- MCIpOf
  HashOf <- MCHashOf
  Methods <- MCMethods
  RetryMaxes <- MCRetryMaxes
SPECIFICATION Spec
INVARIANTS RetriesAreRight StickyAgrees
PROPERTY RequestsEndProxy
CHECK_DEADLOCK FALSE
