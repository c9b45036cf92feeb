\* Two clients of any kind, deaths included.
SPECIFICATION FairSpec
CONSTANTS
  owner = owner
  other = other
  Clients <- MCClients
  Owner = owner
  Kinds <- AllKinds
  MaxOutput = 3
  Length = 1
  Deaths = TRUE
INVARIANTS
  TypeOK
  ErrorsAreReal
  StoppedIsGone
  OutputReceived
PROPERTIES
  UnreadOutputKept
  PollersEnd
  ImplementsJob
