SPECIFICATION Spec
CONSTANTS
  Width32 = 8
  AddrWidth = 7
  Ports <- MCPorts
  Addrs <- MCAddrs
  Words <- MCWords
  Flagged <- MCFlagged
INVARIANTS
  TypeOK
  ViewsAgree
  WrittenDecodes
