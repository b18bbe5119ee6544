----------------------------- MODULE MCSwitchMainRun -----------------------------
(* Two runners nothing tells apart, in one repository with main and two     *)
(* feature branches; two switch plans share an id; the proofs differ from a *)
(* complete one each in what they state: another plan, a branch whose       *)
(* lifecycle is open, another directory, a contradiction, something unknown. *)
EXTENDS SwitchMainRun, TLC

CONSTANTS switch1, switch2, pull1, x1, x2, repoA, repoB

MCPlan == {switch1, switch2, pull1}
MCPlanId == [p \in MCPlan |-> IF p = pull1 THEN "pull" ELSE "switch"]
MCPlanAction ==
  [p \in MCPlan |-> IF p = pull1 THEN "git-pull-ff-only" ELSE "switch-main"]
MCRunner == {x1, x2}
MCSymmetry == Permutations(MCRunner)
MCPolicy == [x \in MCRunner |-> TRUE]
MCRepo == {repoA}
MCToplevel == {repoA, repoB}
MCBranch == {"main", "featureA", "featureB"}

Approve(p, decision) ==
  [plan_ref |-> MCPlanId[p], action |-> MCPlanAction[p], sha |-> p,
   decision |-> decision, decided_at |-> 0, expires_at |-> 1]
MCApproval == {Approve(switch1, "approved"), Approve(switch2, "rejected"),
               Approve(pull1, "approved")}

Complete ==
  [plan_ref |-> "switch", plan_action |-> "switch-main", sha |-> switch1,
   repo_toplevel |-> repoA, current_branch |-> "featureA", default_branch |-> "main",
   lifecycle |-> "true", worktree_clean |-> "true",
   remote_main_fresh |-> "true", ownership_ok |-> "true"]
MCProof ==
  {Complete,
   [Complete EXCEPT !.sha = switch2],
   [Complete EXCEPT !.current_branch = "featureB", !.lifecycle = "false"],
   [Complete EXCEPT !.repo_toplevel = repoB],
   [Complete EXCEPT !.default_branch = "featureB"],
   [Complete EXCEPT !.default_branch = Absent],
   [Complete EXCEPT !.remote_main_fresh = "unknown"],
   [Complete EXCEPT !.worktree_clean = "false"]}
=============================================================================
