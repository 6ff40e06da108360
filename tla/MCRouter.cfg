SPECIFICATION FairSpec
CONSTANTS
  Nodes = {"n"}
  Chains = {"P", "C"}
  Subnets = {"primary", "subnet"}
  Primary = "primary"
  Subnet <- MCSubnet
  Requests = {"r"}
  To <- MCTo
  From <- MCFrom
INVARIANTS
  ToldExactlyOnce
  ConnectedUnlessBenched
PROPERTIES
  EveryRequestEnds
CHECK_DEADLOCK FALSE
