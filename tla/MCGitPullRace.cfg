CONSTANTS
  look = look
  pull = pull
  x1 = x1
  x2 = x2
  repo = repo
  runA = runA
  runC = runC
  Absent = Absent
  MaxTime = 1
  MaxTip = 1
  MaxOwn = 1
  MaxChains = 1
  Plan <- MCPlan
  PlanId <- MCPlanId
  PlanAction <- MCPlanAction
  Runner <- MCRunner
  Policy <- MCPolicy
  EnglishGit = {x1}
  Repo = {repo}
  Toplevel = {repo}
  Approval <- MCApproval
  PreRun <- MCPreRun
  RunProof <- MCRunProof
SPECIFICATION Spec
CONSTRAINT OneAlone
INVARIANTS
  TypeOK
  PassedIsFastForward
  UndisturbedRunIsExact
  OnlyPullsLeaveEvidence
