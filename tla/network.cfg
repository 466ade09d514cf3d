SPECIFICATION FairSpec
CONSTANTS
  Conns = 2
  Attempts = 2
  ConnectTime = 2
  RecvTime = 2
  MaxRetx = 1
  RxSize = 2
  MaxBody = 2
  ReqLen = 2
  Header = 1
  Items = 3
  SeqSpace = 8
  Isns = {1, 6}
  MaxWire = 2
  MaxReset = 1
  Faults = {"lose", "dup", "reset", "noroute", "kill"}
  Local = {"gw", "dns", "peer"}
  Far = {"far"}
  Gw = "gw"
  Dns = "dns"
  OwnIp = "self"
  Leases = {"lease1", "lease2"}
  Names = {"one", "many"}
  Addrs <- MCAddrs
  Commands <- MCCommands
  CacheSize = 2
  ArpTries = 2
  EchoTime = 1
  DnsTime = 1
  DhcpTime = 1
  MaxRing = 1
  MaxCalls = 2
  NumRx = 3
  NumTx = 3
  MaxFrames = 7
  Outstanding = 2
INVARIANTS InOrder RequestKept AnswerOwn FramesInOrder
PROPERTIES CacheFresh CallsReturn
CHECK_DEADLOCK FALSE
