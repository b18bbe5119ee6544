------------------------------ MODULE PullPipeline ------------------------------
(***************************************************************************)
(* From the measurement to the pull.  The read-only commands (module        *)
(* PreflightEvidence) and the pull runners (module GitPullRun) work on the  *)
(* same repositories and pass each other artifacts: the chains a runner is *)
(* given are the ones validate-run-chain has written, and the worktree a   *)
(* read-only run measures is the one people edit and pulls change.  Either *)
(* module over-approximates the other; here nothing is supplied from        *)
(* outside but plans, approvals and the calls themselves.                  *)
(***************************************************************************)
EXTENDS GitPullRun, Sequences

CONSTANTS Input, Path, Line, Statuses, Redacted, Limit,   \* of PreflightEvidence
          MaxPostchecks

VARIABLES phase, made, file, worktree, postchecks,   \* of PreflightEvidence
          evidence                                   \* its chains, in full

(* The read-only runs are the ones whose chains can be supplied.            *)
Preflight == INSTANCE PreflightEvidence
               WITH Run <- PreRun, Repo <- Toplevel, chains <- evidence

ASSUME PipelineAssumption ==
  /\ Input \in [PreRun -> [plan : Plan, preflight : Plan \cup {Absent}, repo : Toplevel,
                           trace_out : Path, result_out : Path]]
  /\ Absent \notin Plan
  /\ Statuses \subseteq Seq(Line) /\ <<>> \in Statuses
  /\ Redacted \in [Statuses -> Seq(Line)]
  /\ Limit \in Nat
  /\ RunProof = [r \in PreRun |-> Preflight!ResultProof(r)]

runs == <<phase, made, file, postchecks, evidence>>
allVars == <<vars, runs, worktree>>

(* What a runner sees of git status: whether it prints anything.            *)
TreeOf(status) == IF status = <<>> THEN "clean" ELSE "dirty"

(* What the gates of a pull read of a chain.  The plan it names is not read  *)
(* where there is a binding.                                               *)
ChainRead(c) ==
  [chain_id |-> c.chain_id, action |-> c.action, plan_ref |-> "status-plan",
   status |-> c.status, proof |-> c.proof]

PipelineInit == Init /\ Preflight!Init

-----------------------------------------------------------------------------
(* A read-only command that writes no chain.                               *)
ReadOnlyStep ==
  /\ \/ \E r \in PreRun : Preflight!RunStep(r)
     \/ \E tp, rp \in Path, d \in Toplevel : Preflight!Postcheck(tp, rp, d)
  /\ UNCHANGED vars

(* A chain is validated, and there for the runners.                         *)
SupplyEvidence(plan, tp, rp, c) ==
  /\ Preflight!ValidateChain(plan, tp, rp, c)
  /\ chains' = {ChainRead(e) : e \in evidence'}
  /\ UNCHANGED <<now, repoVars, runVars, disturbed, evidenceVars>>

(* Somebody works in a repository; a runner there sees it only when the      *)
(* worktree becomes clean or stops being clean.                            *)
EditWorktree(d) ==
  /\ Preflight!Edit(d)
  /\ \/ d \in Repo /\ TreeOf(worktree'[d]) # tree[d] /\ Edit(d)
     \/ (d \in Repo => TreeOf(worktree'[d]) = tree[d]) /\ UNCHANGED vars

(* A step of a runner; a pull that moves HEAD may change what git status     *)
(* prints.                                                                 *)
RunnerStep(x) ==
  /\ Step(x)
  /\ \/ head' = head /\ UNCHANGED worktree
     \/ /\ head' # head
        /\ \E s \in Statuses :
              /\ TreeOf(s) = tree'[job[x].repo]
              /\ worktree' = [worktree EXCEPT ![job[x].repo] = s]
  /\ UNCHANGED runs

PipelineNext ==
  \/ ReadOnlyStep
  \/ \E plan \in Plan, tp, rp \in Path, c \in postchecks : SupplyEvidence(plan, tp, rp, c)
  \/ \E d \in Toplevel : EditWorktree(d)
  \/ \E x \in Runner : RunnerStep(x)
  \/ /\ Tick \/ \E d \in Repo : MoveHead(d) \/ Push(d)
     /\ UNCHANGED <<runs, worktree>>

PipelineSpec == PipelineInit /\ [][PipelineNext]_allVars

-----------------------------------------------------------------------------
(* Properties.                                                             *)

(* A pull goes back to measurements of its own: a run that was started as    *)
(* the preflight of exactly that plan in exactly that repository has        *)
(* measured its status and returned, a postcheck of that run has passed     *)
(* and, unless another run was given its trace path, it looked at the       *)
(* repository that is pulled and found the status unchanged, apart from     *)
(* redacted text (run_read_only_action through run_git_pull_ff_only).       *)
PullGoesBackToMeasurement ==
  \A x \in Runner :
     pulled[x] # Absent =>
       LET r == job[x].chain.chain_id IN
       /\ Input[r].preflight = job[x].plan /\ Input[r].repo = job[x].repo
       /\ phase[r] = "returned" /\ made[r].exit = 0
       /\ \E c \in evidence :
            /\ c.chain_id = r /\ c.status = "valid"
            /\ c.postcheck.run_id = r /\ c.postcheck.status = "passed"
            /\ Preflight!OwnTracePath(r) =>
                 /\ c.postcheck.repo = job[x].repo
                 /\ Redacted[made[r].out] = Redacted[c.postcheck.out]
=============================================================================
