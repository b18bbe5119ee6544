CONSTANTS
  look = look
  pull1 = pull1
  pull2 = pull2
  x1 = x1
  repoA = repoA
  repoB = repoB
  runA = runA
  runB = runB
  traceA = traceA
  traceB = traceB
  result = result
  u = u
  Absent = Absent
  MaxTime = 0
  MaxTip = 1
  MaxOwn = 0
  MaxChains = 2
  MaxPostchecks = 1
  Limit = 2
  Plan <- MCPlan
  PlanId <- MCPlanId
  PlanAction <- MCPlanAction
  Runner <- MCRunner
  Policy <- MCPolicy
  EnglishGit = {}
  Repo <- MCRepo
  Toplevel <- MCToplevel
  Approval <- MCApproval
  PreRun <- MCPreRun
  RunProof <- MCRunProof
  Input <- MCInput
  Path <- MCPath
  Line <- MCLine
  Statuses <- MCStatuses
  Redacted <- MCRedacted
SPECIFICATION PipelineSpec
CONSTRAINT MixedChains
INVARIANTS
  PullIsAuthorised
  PullGoesBackToMeasurement
