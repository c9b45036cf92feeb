\* Nobody dies: the status is stale when /proc is looked at.
SPECIFICATION Spec
CONSTANTS
  owner = owner
  other = other
  Clients <- MCClients
  Owner = owner
  Kinds <- TaskOnly
  MaxOutput = 1
  Length = 1
  Deaths = FALSE
INVARIANTS
  FinishedIsTrue
