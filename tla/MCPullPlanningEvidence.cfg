CONSTANTS
  home = home
  alpha = alpha
  alias = alias
  backup = backup
  early = early
  late = late
  first = first
  second = second
  out = out
  Absent = Absent
  Path <- MCPath
  Disk <- MCDisk
  PathOrder <- MCPathOrder
  Branch = {"main", "feature"}
  Assessor <- MCAssessor
  Refresher <- MCRefresher
  Trace = {out}
  TracePath <- MCTracePath
  Named <- MCNamed
  ExitCodes <- MCExitCodes
  Repo <- MCRepo
  Lively = {alpha}
  Config <- MCConfig
  MaxTip = 1
  MaxChanges = 1
  MaxUnread = 1
SYMMETRY MCSymmetry
SPECIFICATION Spec
INVARIANT FetchRemainsEvidence
CHECK_DEADLOCK FALSE
