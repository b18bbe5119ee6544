CONSTANTS
  switch1 = switch1
  switch2 = switch2
  pull1 = pull1
  x1 = x1
  x2 = x2
  repoA = repoA
  repoB = repoB
  Absent = Absent
  Plan <- MCPlan
  PlanId <- MCPlanId
  PlanAction <- MCPlanAction
  Runner <- MCRunner
  Policy <- MCPolicy
  Repo <- MCRepo
  Toplevel <- MCToplevel
  Branch <- MCBranch
  Approval <- MCApproval
  Proof <- MCProof
SPECIFICATION Spec
INVARIANTS
  TypeOK
  SwitchIsAuthorised
  OnlySwitchesLeaveEvidence
  LeavesOnlyProvenBranch
  UndisturbedVerdictIsExact
SYMMETRY MCSymmetry
