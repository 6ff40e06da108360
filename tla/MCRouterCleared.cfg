SPECIFICATION FairSpec
CONSTANTS
  Nodes = {"n"}
  Chains = {"P", "C"}
  Subnets = {"primary", "subnet"}
  Primary = "primary"
  Subnet <- MCSubnet
  Requests = {"r"}
  To <- MCTo
  From <- MCFrom
PROPERTIES
  EveryRequestIsCleared
CHECK_DEADLOCK FALSE
