----------------------------- MODULE MCPullPipeline -----------------------------
(* Two read-only runs in two repositories, each the preflight of its own     *)
(* pull plan and each with a trace path of its own; the two plans share an  *)
(* id and the runs a result path.  One runner, pointed at the repository of *)
(* the first.                                                              *)
EXTENDS PullPipeline

CONSTANTS look, pull1, pull2, x1, repoA, repoB, runA, runB,
          traceA, traceB, result, u

MCPlan == {look, pull1, pull2}
MCPlanId == [p \in MCPlan |-> IF p = look THEN "look" ELSE "pull"]
MCPlanAction ==
  [p \in MCPlan |-> IF p = look THEN "git-status-read-only" ELSE "git-pull-ff-only"]
Approve(p, decision) ==
  [plan_ref |-> MCPlanId[p], action |-> MCPlanAction[p], sha |-> p,
   decision |-> decision, decided_at |-> 0, expires_at |-> 1]
MCApproval == {Approve(pull1, "approved"), Approve(pull1, "rejected"),
               Approve(pull2, "approved")}
MCRunner == {x1}
MCPolicy == [x \in MCRunner |-> TRUE]
MCPreRun == {runA, runB}
MCInput ==
  [r \in MCPreRun |->
     [plan |-> look,
      preflight |-> IF r = runA THEN pull1 ELSE pull2,
      repo |-> IF r = runA THEN repoA ELSE repoB,
      trace_out |-> IF r = runA THEN traceA ELSE traceB,
      result_out |-> result]]
MCRunProof == [r \in MCPreRun |-> ProofMaterial(MCInput[r].preflight, MCInput[r].repo)]
MCPath == {traceA, traceB, result}
MCLine == {u}
MCStatuses == {<<>>, <<u>>}
MCRedacted == [s \in MCStatuses |-> s]

(* With two chains to choose from, only the gates and the pull are followed,  *)
(* in clean worktrees that nobody else touches.                              *)
MixedChains ==
  Cardinality(evidence) = 2 =>
    /\ disturbed = {} /\ \A d \in Toplevel : worktree[d] = <<>>
    /\ \A x \in Runner : pc[x] \in {"start", "accepted", "clean", "ready", "pulled"}

MCRepo == {repoA}
MCToplevel == {repoA, repoB}
=============================================================================
