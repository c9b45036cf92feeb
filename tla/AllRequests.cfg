CONSTANTS
  email = email
  share = share
  postfix = postfix
  monit = monit
  Procs = {p1, p2, p3}
  Objects = {email, share}
  Modules = {postfix, monit}
  Removed = {gone}
  Listeners <- MCListeners
  Backups <- MCBackups
  Ops = {"set", "apply", "revert"}
  Mortal = {}
  Throwers = {monit}
  Unsortable <- MCUnsortable
  None = None
SPECIFICATION FairSpec
INVARIANTS LocksHeld OldestRevisionIsBaseline
PROPERTIES DeployFreezesConfig RevertGoesBack RequestsEnd
CHECK_DEADLOCK FALSE
