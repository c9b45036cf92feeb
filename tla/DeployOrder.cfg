CONSTANTS
  Registered <- MCRegistered
  Alias <- MCAlias
  After <- MCAfter
  Before <- MCBefore
  MaxListed = 4
SPECIFICATION Spec
INVARIANTS SortedRespectsDeps AllOrNothingDeployed DeclaredOrder
