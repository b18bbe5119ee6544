CONSTANTS
  look = look
  pull1 = pull1
  pull2 = pull2
  run1 = run1
  run2 = run2
  trace1 = trace1
  trace2 = trace2
  result1 = result1
  repoA = repoA
  repoB = repoB
  u = u
  v = v
  Absent = Absent
  SharedTrace = FALSE
  Limit = 2
  MaxPostchecks = 1
  MaxChains = 1
  Plan <- MCPlan
  PlanId <- MCPlanId
  PlanAction <- MCPlanAction
  Run <- MCRun
  Input <- MCInput
  Path <- MCPath
  Repo <- MCRepo
  Line <- MCLine
  Redacted <- MCRedacted
  Statuses <- MCStatuses
SPECIFICATION Spec
INVARIANTS
  TypeOK
  ValidChainIsOneRun
  ValidChainCertifiesStatus
  BindingGoesBackToPreflight
