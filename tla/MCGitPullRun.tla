------------------------------ MODULE MCGitPullRun ------------------------------
(* Two runners in one repository and one approved plan; a read-only run that *)
(* was the preflight of the plan, and one that was nobody's.                *)
EXTENDS GitPullRun

CONSTANTS look, pull, x1, x2, repo, runA, runC

MCPlan == {look, pull}
MCPlanId == [p \in MCPlan |-> IF p = look THEN "look" ELSE "pull"]
MCPlanAction ==
  [p \in MCPlan |-> IF p = look THEN "git-status-read-only" ELSE "git-pull-ff-only"]
MCApproval == {[plan_ref |-> "pull", action |-> "git-pull-ff-only", sha |-> pull,
                decision |-> "approved", decided_at |-> 0, expires_at |-> 1]}
MCRunner == {x1, x2}
MCPolicy == [x \in MCRunner |-> TRUE]
MCPreRun == {runA, runC}
MCRunProof ==
  [r \in MCPreRun |-> IF r = runA THEN ProofMaterial(pull, repo) ELSE Absent]

(* Where time has passed, and where there are or have been local commits, one *)
(* runner has not started.                                                 *)
Committed(h) == h # Absent /\ h.own > 0

OneAlone ==
  \/ \E x \in Runner : pc[x] = "start"
  \/ /\ now = 0
     /\ \A d \in Repo : ~Committed(head[d])
     /\ \A x \in Runner : ~Committed(before[x])
     /\ \A x \in Runner : pulled[x] # Absent => ~Committed(pulled[x].from)
=============================================================================
