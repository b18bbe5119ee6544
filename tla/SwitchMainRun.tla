----------------------------- MODULE SwitchMainRun -----------------------------
(***************************************************************************)
(* action validate-switch-main-readiness and action run-switch-main: the    *)
(* second operation that is allowed to mutate a repository.  A preflight    *)
(* proof states what was found out about a repository some time ago; the   *)
(* readiness is a function of plan and proof; the runner takes plan,        *)
(* approval validation and readiness, looks at branch and worktree once    *)
(* more, switches once, judges and publishes three artifacts.  Meanwhile    *)
(* people switch branches and edit, and other runners switch too.          *)
(*                                                                         *)
(* The proofs are supplied from outside and state what they state; git     *)
(* switch is external.  "HEAD" stands for a detached HEAD.                  *)
(***************************************************************************)
EXTENDS StageDGates, FiniteSets

CONSTANTS Runner,      \* calls of run_switch_main
          Policy,      \* Policy[x]: the local config of x allows the operation
          Toplevel,    \* directories a proof may name
          Repo,        \* those of them that runners are pointed at
          Branch,      \* branch names
          Approval,    \* action-approval.v1 artifacts
          Proof        \* switch-main-preflight-proof.v1 artifacts

ApprovalTimes == 0..2
Positions == Branch \cup {"HEAD"}
Trees == {"clean", "dirty"}
Claims == {"true", "false", "unknown"}

ASSUME SwitchAssumption ==
  /\ Policy \in [Runner -> BOOLEAN]
  /\ "main" \in Branch /\ "HEAD" \notin Branch
  /\ Approval \subseteq
       [plan_ref : {PlanId[p] : p \in Plan}, action : {PlanAction[p] : p \in Plan},
        sha : Plan, decision : {"approved", "rejected"},
        decided_at : ApprovalTimes, expires_at : ApprovalTimes]
  /\ Proof \subseteq
       [plan_ref : {PlanId[p] : p \in Plan}, plan_action : {PlanAction[p] : p \in Plan},
        sha : Plan, repo_toplevel : Toplevel \cup {Absent},
        current_branch : Positions \cup {Absent},
        default_branch : Branch \cup {Absent},
        lifecycle : Claims, worktree_clean : Claims,
        remote_main_fresh : Claims, ownership_ok : Claims]
  /\ Repo \subseteq Toplevel
  /\ Absent \notin Toplevel \cup Positions \cup Plan

VARIABLES branch,     \* branch[d]: what HEAD of d points at
          tree,       \* tree[d]: whether git status prints anything
          pc,         \* control point of each runner
          job,        \* job[x]: the inputs that passed the gates
          before,     \* before[x]: branch_before
          switched,   \* switched[x]: what the switch of x did
          verdict,    \* verdict[x]: run status and postcheck status
          disturbed,  \* runners whose repository an outsider touched since
                      \* they read the branch (history)
          outcome, seen   \* the publication of each runner's artifacts

repoVars == <<branch, tree>>
runVars == <<pc, job, before, switched, verdict>>
evidenceVars == <<outcome, seen>>
vars == <<repoVars, runVars, disturbed, evidenceVars>>

Evidence == INSTANCE EvidencePublication WITH Run <- Runner

Live == {"start", "accepted", "located", "ready", "switched", "onMain", "judged"}
Phases == Live \cup {"refused", "raised", "returned", "killed"}

Jobs == [plan : Plan, approval : Approval, checked_at : ApprovalTimes,
         proof : Proof, repo : Repo]
Switches == [exit : {0, 1}, from : Positions, left : Trees]
Verdicts == [run : {"success", "failure"},
             postcheck : {"passed", "failed", "inconclusive"}]

ASSUME AbsentAssumption == Absent \notin Jobs \cup Switches \cup Verdicts

TypeOK ==
  /\ branch \in [Repo -> Positions] /\ tree \in [Repo -> Trees]
  /\ pc \in [Runner -> Phases]
  /\ job \in [Runner -> Jobs \cup {Absent}]
  /\ before \in [Runner -> Branch \cup {Absent}]
  /\ switched \in [Runner -> Switches \cup {Absent}]
  /\ verdict \in [Runner -> Verdicts \cup {Absent}]
  /\ disturbed \subseteq Runner
  /\ outcome \in [Runner -> Evidence!Outcomes]
  /\ seen \in [Runner -> Evidence!Extents]

Init ==
  /\ branch \in [Repo -> Branch] /\ tree = [d \in Repo |-> "clean"]
  /\ pc = [x \in Runner |-> "start"]
  /\ job = [x \in Runner |-> Absent]
  /\ before = [x \in Runner |-> Absent]
  /\ switched = [x \in Runner |-> Absent]
  /\ verdict = [x \in Runner |-> Absent]
  /\ disturbed = {}
  /\ Evidence!Init

-----------------------------------------------------------------------------
(* validate_switch_main_readiness.                                         *)

Contradicted(plan, proof) ==
  \/ PlanAction[plan] # "switch-main"
  \/ proof.plan_ref # PlanId[plan]
  \/ proof.plan_action # PlanAction[plan]
  \/ proof.sha # Sha(plan)
  \/ proof.default_branch \notin {"main", Absent}
  \/ proof.current_branch \notin {"main", Absent} /\ proof.lifecycle = "false"
  \/ "false" \in {proof.worktree_clean, proof.remote_main_fresh, proof.ownership_ok}

Unknown(proof) ==
  \/ Absent \in {proof.repo_toplevel, proof.current_branch, proof.default_branch}
  \/ proof.current_branch \notin {"main", Absent} /\ proof.lifecycle = "unknown"
  \/ "unknown" \in {proof.worktree_clean, proof.remote_main_fresh, proof.ownership_ok}

(* sha: the expected value of the recorded content check, when it passed;   *)
(* lifecycle: whether a passed branch_lifecycle_proof check is recorded.    *)
SwitchReadiness(plan, proof) ==
  [plan_ref |-> PlanId[plan],
   action |-> PlanAction[plan],
   sha |-> IF proof.sha = Sha(plan) THEN Sha(plan) ELSE Absent,
   repo_toplevel |-> proof.repo_toplevel,
   current_branch |-> proof.current_branch,
   lifecycle |-> /\ proof.current_branch \notin {"main", Absent}
                 /\ proof.lifecycle = "true",
   status |-> IF Contradicted(plan, proof) THEN "blocked"
              ELSE IF Unknown(proof) THEN "inconclusive" ELSE "ready"]

(* What run_switch_main requires of its three artifacts and of the          *)
(* repository it was pointed at.                                           *)

(* Mutant: the readiness' content check is not compared with the plan.      *)
SwitchGatesById(plan, validation, readiness, toplevel) ==
  /\ PlanAction[plan] = "switch-main"
  /\ validation.binding_state = "binding_valid"
  /\ validation.plan_ref = PlanId[plan]
  /\ validation.action = "switch-main"
  /\ validation.sha = Sha(plan)
  /\ readiness.action = "switch-main"
  /\ readiness.plan_ref = PlanId[plan]
  /\ readiness.status = "ready"
  /\ readiness.repo_toplevel = toplevel

SwitchGates(plan, validation, readiness, toplevel) ==
  /\ PlanAction[plan] = "switch-main"
  /\ validation.binding_state = "binding_valid"
  /\ validation.plan_ref = PlanId[plan]
  /\ validation.action = "switch-main"
  /\ validation.sha = Sha(plan)
  /\ readiness.action = "switch-main"
  /\ readiness.plan_ref = PlanId[plan]
  /\ readiness.status = "ready"
  /\ readiness.sha = Sha(plan)
  /\ readiness.repo_toplevel = toplevel

(* Leaving main needs no proof; another branch must be the one the          *)
(* readiness was computed for, with its lifecycle proven.                   *)
MayLeave(b, readiness) ==
  b # "main" => readiness.current_branch = b /\ readiness.lifecycle

-----------------------------------------------------------------------------
(* The surroundings.                                                       *)

Watching(d) == {x \in Runner : /\ pc[x] \in {"located", "ready", "switched", "onMain"}
                               /\ job[x].repo = d}

(* Somebody edits or cleans the worktree.                                  *)
Edit(d) ==
  /\ \E s \in Trees \ {tree[d]} : tree' = [tree EXCEPT ![d] = s]
  /\ disturbed' = disturbed \cup Watching(d)
  /\ UNCHANGED <<branch, runVars, evidenceVars>>

(* Somebody switches to another branch or detaches HEAD.                    *)
Checkout(d) ==
  /\ \E b \in Positions \ {branch[d]} : branch' = [branch EXCEPT ![d] = b]
  /\ disturbed' = disturbed \cup Watching(d)
  /\ UNCHANGED <<tree, runVars, evidenceVars>>

-----------------------------------------------------------------------------
(* The runner.                                                             *)

(* The artifacts supplied pass the policy and every gate on their content:  *)
(* a validation of some plan at a time the caller names, and a readiness of *)
(* some plan and some proof.                                               *)
AcceptInputs(x) ==
  /\ pc[x] = "start"
  /\ Policy[x]
  /\ \E plan, vplan, rplan \in Plan, approval \in Approval, t \in ApprovalTimes,
        proof \in Proof, d \in Repo :
        /\ SwitchGates(plan, ApprovalValidation(vplan, approval, t),
                       SwitchReadiness(rplan, proof), d)
        /\ job' = [job EXCEPT ![x] = [plan |-> plan, approval |-> approval,
                                      checked_at |-> t, proof |-> proof, repo |-> d]]
  /\ pc' = [pc EXCEPT ![x] = "accepted"]
  /\ UNCHANGED <<repoVars, before, switched, verdict, disturbed, evidenceVars>>

(* A precondition fails before the switch: ValueError, reported as blocked. *)
Refuse(x) ==
  /\ pc[x] \in {"start", "accepted", "located"}
  /\ pc' = [pc EXCEPT ![x] = "refused"]
  /\ Evidence!Withdraw(x)
  /\ UNCHANGED <<repoVars, job, before, switched, verdict, disturbed>>

(* The live branch; a detached HEAD is refused.                            *)
ReadBranch(x) ==
  /\ pc[x] = "accepted"
  /\ branch[job[x].repo] # "HEAD"
  /\ before' = [before EXCEPT ![x] = branch[job[x].repo]]
  /\ pc' = [pc EXCEPT ![x] = "located"]
  /\ UNCHANGED <<repoVars, job, switched, verdict, disturbed, evidenceVars>>

(* Mutant: the branch the readiness was computed for is not compared.       *)
CheckCleanOnly(x) ==
  /\ pc[x] = "located"
  /\ tree[job[x].repo] = "clean"
  /\ before[x] # "main" => SwitchReadiness(job[x].plan, job[x].proof).lifecycle
  /\ pc' = [pc EXCEPT ![x] = "ready"]
  /\ UNCHANGED <<repoVars, job, before, switched, verdict, disturbed, evidenceVars>>

(* git status, then the branch binding, which reads nothing new.            *)
CheckClean(x) ==
  /\ pc[x] = "located"
  /\ tree[job[x].repo] = "clean"
  /\ MayLeave(before[x], SwitchReadiness(job[x].plan, job[x].proof))
  /\ pc' = [pc EXCEPT ![x] = "ready"]
  /\ UNCHANGED <<repoVars, job, before, switched, verdict, disturbed, evidenceVars>>

(* git switch main in repository d: it ends on main with exit code 0, or    *)
(* fails without a move, or a failing post-checkout hook or a signal makes  *)
(* it fail after the move.  Moving, hooks may leave the worktree dirty.     *)
SwitchEffect(d, exit, to, after) ==
  \/ exit = 0 /\ to = "main"
  \/ exit = 1 /\ to = branch[d] /\ after = tree[d]
  \/ exit = 1 /\ to = "main"

Switch(x) ==
  LET d == job[x].repo IN
  /\ pc[x] = "ready"
  /\ \E exit \in {0, 1}, to \in Positions, after \in Trees :
        /\ SwitchEffect(d, exit, to, after)
        /\ branch' = [branch EXCEPT ![d] = to]
        /\ tree' = [tree EXCEPT ![d] = after]
        /\ switched' = [switched EXCEPT ![x] =
                          [exit |-> exit, from |-> branch[d], left |-> after]]
  /\ pc' = [pc EXCEPT ![x] = "switched"]
  /\ UNCHANGED <<job, before, verdict, disturbed, evidenceVars>>

Conclude(x, run, postcheck) ==
  /\ verdict' = [verdict EXCEPT ![x] = [run |-> run, postcheck |-> postcheck]]
  /\ pc' = [pc EXCEPT ![x] = "judged"]

(* Mutants: the exit code is not looked at; a failed switch is reported     *)
(* like a failed precondition.                                             *)
ReadBranchAfterAnySwitch(x) ==
  /\ pc[x] = "switched"
  /\ \/ Conclude(x, "success", "inconclusive")
     \/ branch[job[x].repo] # "main" /\ Conclude(x, "failure", "failed")
     \/ /\ branch[job[x].repo] = "main"
        /\ pc' = [pc EXCEPT ![x] = "onMain"]
        /\ UNCHANGED verdict
  /\ UNCHANGED <<repoVars, job, before, switched, disturbed, evidenceVars>>

RefuseAfterFailedSwitch(x) ==
  /\ pc[x] = "switched"
  /\ \/ /\ switched[x].exit # 0
        /\ pc' = [pc EXCEPT ![x] = "refused"]
        /\ UNCHANGED verdict
     \/ switched[x].exit = 0 /\ Conclude(x, "success", "inconclusive")
  /\ UNCHANGED <<repoVars, job, before, switched, disturbed, evidenceVars>>

(* The exit code, then the branch once more.                               *)
ReadBranchAfter(x) ==
  /\ pc[x] = "switched"
  /\ \/ switched[x].exit # 0 /\ Conclude(x, "failure", "failed")
     \/ /\ switched[x].exit = 0
        /\ \/ Conclude(x, "success", "inconclusive")      \* unreadable
           \/ branch[job[x].repo] # "main" /\ Conclude(x, "failure", "failed")
           \/ /\ branch[job[x].repo] = "main"
              /\ pc' = [pc EXCEPT ![x] = "onMain"]
              /\ UNCHANGED verdict
  /\ UNCHANGED <<repoVars, job, before, switched, disturbed, evidenceVars>>

(* Mutant: an attempted switch is reported as blocked.                      *)
CheckCleanAfterBlocks(x) ==
  /\ pc[x] = "onMain"
  /\ \/ Conclude(x, "success", "inconclusive")
     \/ tree[job[x].repo] = "dirty" /\ Conclude(x, "blocked", "failed")
     \/ tree[job[x].repo] = "clean" /\ Conclude(x, "success", "passed")
  /\ UNCHANGED <<repoVars, job, before, switched, disturbed, evidenceVars>>

(* git status once more, on main.                                          *)
CheckCleanAfter(x) ==
  /\ pc[x] = "onMain"
  /\ \/ Conclude(x, "success", "inconclusive")            \* git status fails
     \/ tree[job[x].repo] = "dirty" /\ Conclude(x, "failure", "failed")
     \/ tree[job[x].repo] = "clean" /\ Conclude(x, "success", "passed")
  /\ UNCHANGED <<repoVars, job, before, switched, disturbed, evidenceVars>>

(* _write_artifacts_atomic, through what it promises.                      *)
WriteArtifacts(x) ==
  /\ pc[x] = "judged"
  /\ \/ Evidence!Expose(x) /\ UNCHANGED pc
     \/ Evidence!Publish(x) /\ pc' = [pc EXCEPT ![x] = "returned"]
     \/ (Evidence!Withdraw(x) \/ Evidence!Tear(x)) /\ pc' = [pc EXCEPT ![x] = "raised"]
  /\ UNCHANGED <<repoVars, job, before, switched, verdict, disturbed>>

(* The process dies.                                                       *)
Kill(x) ==
  /\ pc[x] \in Live
  /\ pc' = [pc EXCEPT ![x] = "killed"]
  /\ Evidence!Withdraw(x) \/ Evidence!Tear(x)
  /\ UNCHANGED <<repoVars, job, before, switched, verdict, disturbed>>

Step(x) ==
  \/ AcceptInputs(x) \/ Refuse(x) \/ ReadBranch(x) \/ CheckClean(x) \/ Switch(x)
  \/ ReadBranchAfter(x) \/ CheckCleanAfter(x) \/ WriteArtifacts(x) \/ Kill(x)

Next ==
  \/ \E d \in Repo : Edit(d) \/ Checkout(d)
  \/ \E x \in Runner : Step(x)

Spec == Init /\ [][Next]_vars

-----------------------------------------------------------------------------
(* Properties.                                                             *)

(* Whatever artifacts were supplied, mixed or old, a switch was approved    *)
(* and ready: for exactly that plan content there is an approval, within    *)
(* its time at the moment the validation names, and a proof of exactly that *)
(* repository that states a clean worktree, a fresh origin/main, ownership  *)
(* and main as default branch (the gates of validate_switch_main_readiness *)
(* and run_switch_main).                                                   *)
SwitchIsAuthorised ==
  \A x \in Runner :
     switched[x] # Absent =>
       LET j == job[x] IN
       /\ Policy[x]
       /\ j.approval.decision = "approved"
       /\ j.approval.sha = j.plan
       /\ j.checked_at < j.approval.expires_at
       /\ j.proof.sha = j.plan
       /\ j.proof.repo_toplevel = j.repo
       /\ j.proof.default_branch = "main"
       /\ {j.proof.worktree_clean, j.proof.remote_main_fresh, j.proof.ownership_ok}
            = {"true"}

(* A readiness for one branch does not authorise leaving another: unless    *)
(* an outsider touched the repository since the live branch was read, the  *)
(* branch a switch left was main or the proven one, although other runners *)
(* switch the same repository meanwhile (precondition 10 of                *)
(* run_switch_main).                                                       *)
LeavesOnlyProvenBranch ==
  \A x \in Runner \ disturbed :
     switched[x] # Absent /\ switched[x].from # "main" =>
       /\ job[x].proof.current_branch = switched[x].from
       /\ job[x].proof.lifecycle = "true"

(* A passed postcheck, in a repository no outsider touched, is about a      *)
(* switch that succeeded, from the branch that was recorded or from main;   *)
(* a run is a failure if git switch failed, and otherwise only over a       *)
(* worktree that some switch left dirty (the post-execution checks of       *)
(* run_switch_main).                                                       *)
UndisturbedVerdictIsExact ==
  \A x \in Runner \ disturbed :
     verdict[x] # Absent =>
       /\ switched[x].exit # 0 => verdict[x].run = "failure"
       /\ verdict[x].postcheck = "passed" =>
            switched[x].exit = 0 /\ switched[x].from \in {before[x], "main"}
       /\ verdict[x].run = "failure" /\ switched[x].exit = 0 =>
            \E y \in Runner : switched[y] # Absent /\ switched[y].left = "dirty"

(* Evidence is about switches and refusals are about none: an artifact of a *)
(* run can only be seen after its switch was judged, and a run that ends as *)
(* a failed precondition, for which the command line reports "blocked",     *)
(* has not switched (docstring of run_switch_main,                         *)
(* _emit_switch_main_blocked).                                             *)
OnlySwitchesLeaveEvidence ==
  \A x \in Runner :
     /\ seen[x] # "none" => switched[x] # Absent /\ verdict[x] # Absent
     /\ pc[x] = "refused" => switched[x] = Absent /\ seen[x] = "none"
=============================================================================
