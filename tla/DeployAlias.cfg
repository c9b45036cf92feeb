CONSTANTS
  Registered <- MCRegistered
  Alias <- MCAlias
  After <- MCAfter
  Before <- MCBefore
  MaxListed = 0
SPECIFICATION Spec
INVARIANT DeclaredOrderOfInstances
