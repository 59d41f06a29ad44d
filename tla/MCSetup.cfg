SPECIFICATION SetupSpec
CONSTANTS
  Macs <- MCBytes
  VlanIds <- MCVlanIds
  Ports <- MCPorts
  Learnable = {}
  Faulty = {"create_fdb_entry", "remove_fdb_entry"}
  PortCounts = {1, 2, 115, 116}
  Failing <- MCFailing
INVARIANT SetupComplete
INVARIANT TearupEmptiesFdb
