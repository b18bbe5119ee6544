------------------------------ MODULE StageDGates ------------------------------
(***************************************************************************)
(* The artifact gates of Stage D: pure functions from input artifacts to    *)
(* an output artifact.  They read no file, run no command and keep no      *)
(* state; each operator is the value the function returns, reduced to the  *)
(* fields a later gate reads.                                              *)
(*                                                                         *)
(* A plan is identified with its content, and the SHA-256 of a plan's      *)
(* canonical JSON with the plan (the hash is taken to be injective); plan  *)
(* ids are a separate function because nothing makes them unique.  Every   *)
(* artifact the program writes has redacted = redaction_verified = true,   *)
(* so the redaction checks always pass and are left out.                   *)
(***************************************************************************)
EXTENDS Naturals

CONSTANTS Plan,         \* action-plan.v1 artifacts, by content
          PlanId,       \* plan_id of a plan
          PlanAction,   \* action of a plan
          Absent        \* an optional artifact or field that is not there

ASSUME GatesAssumption ==
  /\ PlanAction \in [Plan -> {"git-pull-ff-only", "git-status-read-only", "switch-main"}]
  /\ DOMAIN PlanId = Plan

Sha(plan) == plan

-----------------------------------------------------------------------------
(* validate_action_approval_binding.  An approval has the fields plan_ref,  *)
(* action, sha, decision, decided_at and expires_at; checked_at is the     *)
(* caller's, no clock is read.                                             *)

ApprovalBinds(plan, approval, checked_at) ==
  /\ approval.decision = "approved"
  /\ approval.plan_ref = PlanId[plan]
  /\ approval.action = PlanAction[plan]
  /\ approval.sha = Sha(plan)
  /\ approval.decided_at < approval.expires_at
  /\ approval.decided_at <= checked_at
  /\ checked_at < approval.expires_at

ApprovalValidation(plan, approval, checked_at) ==
  [plan_ref |-> PlanId[plan],
   sha |-> Sha(plan),
   approval_ref |-> approval,
   action |-> approval.action,
   checked_at |-> checked_at,
   binding_state |-> IF ApprovalBinds(plan, approval, checked_at)
                       THEN "binding_valid" ELSE "binding_invalid"]

-----------------------------------------------------------------------------
(* The proof material a read-only run carries when it was started as the   *)
(* preflight of a pull plan.                                               *)
ProofMaterial(plan, toplevel) ==
  [plan_ref |-> PlanId[plan], plan_action |-> PlanAction[plan],
   sha |-> Sha(plan), repo_toplevel |-> toplevel]

(* Mutant: the plan's content hash is not compared, only its id.           *)
ProofMatchesById(proof, plan) ==
  /\ proof # Absent
  /\ proof.plan_ref = PlanId[plan]
  /\ proof.plan_action = PlanAction[plan]

ProofMatches(proof, plan) ==
  /\ proof # Absent
  /\ proof.plan_ref = PlanId[plan]
  /\ proof.plan_action = PlanAction[plan]
  /\ proof.sha = Sha(plan)

(* bind_preflight_to_action.  A chain has the fields chain_id, action,      *)
(* plan_ref, status and proof.                                             *)
PreflightBinding(plan, chain) ==
  LET supported == PlanAction[plan] = "git-pull-ff-only"
      blocked == \/ ~supported
                 \/ chain.status = "invalid"
                 \/ chain.proof # Absent /\ ~ProofMatches(chain.proof, plan)
      proven == chain.status = "valid" /\ ProofMatches(chain.proof, plan)
  IN [plan_ref |-> PlanId[plan],
      plan_action |-> PlanAction[plan],
      chain_ref |-> chain.chain_id,
      chain_action |-> chain.action,
      proof |-> chain.proof,
      binding_state |-> IF blocked THEN "binding_invalid"
                        ELSE IF proven THEN "binding_valid"
                        ELSE "binding_inconclusive"]

-----------------------------------------------------------------------------
(* validate_execution_readiness.  A binding that names another plan or     *)
(* chain is a ValueError, not a verdict.                                   *)
BindingRefersTo(plan, chain, binding) ==
  binding # Absent =>
    /\ binding.plan_ref = PlanId[plan]
    /\ binding.chain_ref = chain.chain_id
    /\ binding.plan_action = PlanAction[plan]
    /\ binding.chain_action = chain.action

PlanBindingProven(plan, chain, binding) ==
  IF binding = Absent
    THEN chain.action = PlanAction[plan] /\ chain.plan_ref = PlanId[plan]
    ELSE binding.binding_state = "binding_valid" /\ ProofMatches(binding.proof, plan)

Readiness(plan, validation, chain, binding) ==
  LET blocked ==
        \/ PlanAction[plan] # "git-pull-ff-only"
        \/ validation.binding_state # "binding_valid"
        \/ validation.plan_ref # PlanId[plan]
        \/ validation.action # PlanAction[plan]
        \/ chain.status = "invalid"
        \/ binding # Absent /\ binding.binding_state = "binding_invalid"
      open == \/ chain.status = "inconclusive"
              \/ ~PlanBindingProven(plan, chain, binding)
  IN IF blocked THEN "blocked" ELSE IF open THEN "inconclusive" ELSE "ready"

-----------------------------------------------------------------------------
(* What run_git_pull_ff_only requires of its four input artifacts and of    *)
(* the repository it was pointed at, before it looks at the worktree.      *)

(* Mutant: the validation's content hash is not compared with the plan.    *)
PullGatesWithoutSha(plan, validation, chain, binding, toplevel) ==
  /\ PlanAction[plan] = "git-pull-ff-only"
  /\ validation.action = "git-pull-ff-only"
  /\ binding.binding_state = "binding_valid"
  /\ ProofMatches(binding.proof, plan)
  /\ chain.proof # Absent
  /\ chain.proof.repo_toplevel = binding.proof.repo_toplevel
  /\ toplevel = binding.proof.repo_toplevel
  /\ BindingRefersTo(plan, chain, binding)
  /\ Readiness(plan, validation, chain, binding) = "ready"

PullGates(plan, validation, chain, binding, toplevel) ==
  /\ PlanAction[plan] = "git-pull-ff-only"
  /\ validation.action = "git-pull-ff-only"
  /\ validation.sha = Sha(plan)
  /\ binding.binding_state = "binding_valid"
  /\ ProofMatches(binding.proof, plan)
  /\ chain.proof # Absent
  /\ chain.proof.repo_toplevel = binding.proof.repo_toplevel
  /\ toplevel = binding.proof.repo_toplevel
  /\ BindingRefersTo(plan, chain, binding)
  /\ Readiness(plan, validation, chain, binding) = "ready"
=============================================================================
