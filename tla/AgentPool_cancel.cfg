\* Delegations that are cancelled while others wait; models and tools answer.
SPECIFICATION FairSpec
CONSTANTS
  d1 = d1
  d2 = d2
  d3 = d3
  d4 = d4
  coder = coder
  writer = writer
  Delegation <- Delegations
  Role <- TwoRoles
  RoleOf <- ThreeCoders
  Limit <- OneEach
  Known <- OnlyCoder
  Specs <- SomeSpecs
  Cancellable <- OneCoder
  MaxSteps = 1
INVARIANTS
  SlotsTally
PROPERTIES
  NoOvertaking
  DelegationReturns
CHECK_DEADLOCK FALSE
