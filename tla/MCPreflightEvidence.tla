-------------------------- MODULE MCPreflightEvidence --------------------------
(* Two read-only runs over two repositories, each the preflight of its own  *)
(* pull plan; the two pull plans share an id.  An excerpt holds two lines; *)
(* redaction makes one output longer than that, and a longer one so short   *)
(* that it equals another.                                                 *)
EXTENDS PreflightEvidence

CONSTANTS look, pull1, pull2, run1, run2, trace1, trace2, result1, repoA, repoB,
          u, v, SharedTrace

MCPlan == {look, pull1, pull2}
MCPlanId == [p \in MCPlan |-> IF p = look THEN "look" ELSE "pull"]
MCPlanAction ==
  [p \in MCPlan |-> IF p = look THEN "git-status-read-only" ELSE "git-pull-ff-only"]
MCRun == {run1, run2}
MCRepo == {repoA, repoB}
MCPath == {trace1, trace2, result1}
MCInput ==
  [r \in MCRun |->
     [plan |-> look,
      preflight |-> IF r = run1 THEN pull1 ELSE pull2,
      repo |-> IF r = run1 THEN repoA ELSE repoB,
      trace_out |-> IF r = run1 \/ SharedTrace THEN trace1 ELSE trace2,
      result_out |-> result1]]
MCLine == {u, v}
MCStatuses == {<<>>, <<u>>, <<u, u>>, <<u, v>>, <<u, u, v>>}
MCRedacted ==
  [s \in MCStatuses |-> CASE s = <<u, v>> -> <<u, u, u>>
                          [] s = <<u, u, v>> -> <<u>>
                          [] OTHER -> s]
=============================================================================
