CONSTANTS
  email = email
  share = share
  postfix = postfix
  monit = monit
  Procs = {p1, p2, p3, p4}
  Objects = {email, share}
  Modules = {postfix, monit}
  Removed = {gone}
  Listeners <- MCListeners
  Backups = {}
  Ops = {"set", "apply", "revert"}
  Mortal = {}
  Throwers = {}
  Unsortable = {}
  None = None
SPECIFICATION Spec
SYMMETRY Symmetric
INVARIANT CleanIsDeployed
CHECK_DEADLOCK FALSE
