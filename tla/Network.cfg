SPECIFICATION Spec
CONSTANTS
  NET_MAX_SOCKETS = 2
  MAX_IP_CONNECTIONS = 3
  Peers = {"x", "y"}
  Handles = {h, k}
  Clients = {c, d}
  HTTP_MAX_CLIENTS = 2
  MAX_DNS_SERVERS = 1
  DefaultServers = 1
  MAX_FDS = 3
  Pipes = {p}
  Socks = {s}
  BufferSize = 2
  FileSize = 1
  MaxFile = 1
  MaxCount = 2
  MaxProcs = 2
  MaxRef = 2
SYMMETRY Symmetry
INVARIANTS
  TypeOK
  TuplesUnique
  TableLive
  SlotsOwned
  RingAgrees
  RefsBounded
  NoOrphans
  NoDangling
