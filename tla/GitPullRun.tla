------------------------------- MODULE GitPullRun -------------------------------
(***************************************************************************)
(* action run-git-pull-ff-only: the runner that is allowed to mutate a      *)
(* repository.  Several runners are at work, in repositories in which      *)
(* people edit, commit, reset and pull on their own and whose upstream     *)
(* branches advance.  A runner gates its input artifacts (StageDGates),    *)
(* looks at the worktree, reads HEAD, pulls once, judges what it finds     *)
(* afterwards and publishes three artifacts; the publication is the one    *)
(* EvidencePublication describes and ArtifactCommit implements.            *)
(*                                                                         *)
(* A HEAD is the number of upstream commits it contains and the number of  *)
(* local commits on top of them.  git pull itself is external.             *)
(***************************************************************************)
EXTENDS StageDGates, FiniteSets

CONSTANTS Runner,      \* calls of run_git_pull_ff_only
          Policy,      \* Policy[x]: the local config of x allows the operation
          EnglishGit,  \* calls whose git says in English that all is up to date
          Toplevel,    \* git toplevels a proof may name
          Repo,        \* those of them that runners are pointed at
          Approval,    \* action-approval.v1 artifacts
          PreRun,      \* read-only runs whose chains can be supplied
          RunProof,    \* RunProof[r]: the proof material of r, or Absent
          MaxTime, MaxTip, MaxOwn, MaxChains   \* bounds

Times == 0..MaxTime
ApprovalTimes == 0..2
Heads == [up : 0..MaxTip, own : 0..MaxOwn]
Trees == {"clean", "dirty"}

ASSUME PullAssumption ==
  /\ Policy \in [Runner -> BOOLEAN]
  /\ EnglishGit \subseteq Runner
  /\ Approval \subseteq
       [plan_ref : {PlanId[p] : p \in Plan}, action : {PlanAction[p] : p \in Plan},
        sha : Plan, decision : {"approved", "rejected"},
        decided_at : ApprovalTimes, expires_at : ApprovalTimes]
  /\ RunProof \in [PreRun -> {ProofMaterial(p, d) : p \in Plan, d \in Toplevel} \cup {Absent}]
  /\ Absent \notin {ProofMaterial(p, d) : p \in Plan, d \in Toplevel}
  /\ Repo \subseteq Toplevel
  /\ MaxTime \in Nat /\ MaxTip \in Nat /\ MaxOwn \in Nat /\ MaxChains \in Nat

VARIABLES now,        \* real time (history: no runner reads it for a decision)
          chains,     \* run-evidence-chain.v1 artifacts
          head,       \* head[d]: HEAD of the checked-out branch
          tip,        \* tip[d]: commits on the upstream branch
          tree,       \* tree[d]: whether git status prints anything
          pc,         \* control point of each runner
          job,        \* job[x]: the inputs that passed the gates
          before,     \* before[x]: head_before
          pulled,     \* pulled[x]: what the pull of x did
          verdict,    \* verdict[x]: run status and postcheck status
          disturbed,  \* runners whose repository was touched by somebody else
                      \* since they found it clean (history)
          outcome, seen   \* the publication of each runner's artifacts

vars == <<now, chains, head, tip, tree, pc, job, before, pulled, verdict,
          disturbed, outcome, seen>>

Evidence == INSTANCE EvidencePublication WITH Run <- Runner

Live == {"start", "accepted", "clean", "ready", "pulled", "moved", "judged"}
Phases == Live \cup {"refused", "raised", "returned", "killed"}

Chains == [chain_id : PreRun, action : {"git-status-read-only"},
           plan_ref : {"status-plan"},
           status : {"valid", "invalid", "inconclusive"},
           proof : {RunProof[r] : r \in PreRun}]
Jobs == [plan : Plan, approval : Approval, checked_at : ApprovalTimes,
         chain : Chains, repo : Repo]
Pulls == [at : Times, exit : {0, 1}, recognised : BOOLEAN, from : Heads, to : Heads,
          tree : Trees, left : Trees]
Verdicts == [run : {"success", "failure"},
             postcheck : {"passed", "failed", "inconclusive"}]

ASSUME AbsentAssumption == Absent \notin Jobs \cup Pulls \cup Verdicts

TypeOK ==
  /\ now \in Times
  /\ chains \subseteq Chains
  /\ \A c \in chains : c.proof = RunProof[c.chain_id]
  /\ head \in [Repo -> Heads] /\ tip \in [Repo -> 0..MaxTip]
  /\ \A d \in Repo : head[d].up <= tip[d]
  /\ tree \in [Repo -> Trees]
  /\ pc \in [Runner -> Phases]
  /\ job \in [Runner -> Jobs \cup {Absent}]
  /\ before \in [Runner -> Heads \cup {Absent}]
  /\ pulled \in [Runner -> Pulls \cup {Absent}]
  /\ verdict \in [Runner -> Verdicts \cup {Absent}]
  /\ disturbed \subseteq Runner
  /\ outcome \in [Runner -> Evidence!Outcomes]
  /\ seen \in [Runner -> Evidence!Extents]

Init ==
  /\ now = 0
  /\ chains = {}
  /\ head = [d \in Repo |-> [up |-> 0, own |-> 0]]
  /\ tip \in [Repo -> 0..MaxTip]
  /\ tree = [d \in Repo |-> "clean"]
  /\ pc = [x \in Runner |-> "start"]
  /\ job = [x \in Runner |-> Absent]
  /\ before = [x \in Runner |-> Absent]
  /\ pulled = [x \in Runner |-> Absent]
  /\ verdict = [x \in Runner |-> Absent]
  /\ disturbed = {}
  /\ Evidence!Init

repoVars == <<head, tip, tree>>
runVars == <<pc, job, before, pulled, verdict>>
evidenceVars == <<outcome, seen>>

-----------------------------------------------------------------------------
(* The surroundings.                                                       *)

(* Runners whose view of d a change of d by somebody else outdates.        *)
Watching(d) == {x \in Runner : /\ pc[x] \in {"clean", "ready", "pulled", "moved"}
                               /\ job[x].repo = d}

(* Time passes.                                                            *)
Tick ==
  /\ now < MaxTime
  /\ now' = now + 1
  /\ UNCHANGED <<chains, repoVars, runVars, disturbed, evidenceVars>>

(* A read-only run, its postcheck and its chain have been produced (the     *)
(* module PreflightEvidence): the chain carries the proof of its run.      *)
SupplyChain ==
  /\ Cardinality(chains) < MaxChains
  /\ \E r \in PreRun, s \in {"valid", "invalid", "inconclusive"} :
        chains' = chains \cup
          {[chain_id |-> r, action |-> "git-status-read-only",
            plan_ref |-> "status-plan", status |-> s, proof |-> RunProof[r]]}
  /\ UNCHANGED <<now, repoVars, runVars, disturbed, evidenceVars>>

(* Somebody edits or cleans the worktree.                                  *)
Edit(d) ==
  /\ \E s \in Trees \ {tree[d]} : tree' = [tree EXCEPT ![d] = s]
  /\ disturbed' = disturbed \cup Watching(d)
  /\ UNCHANGED <<now, chains, head, tip, runVars, evidenceVars>>

(* Somebody commits, resets or pulls on their own.                         *)
MoveHead(d) ==
  /\ \E h \in Heads : /\ h # head[d] /\ h.up <= tip[d]
                      /\ head' = [head EXCEPT ![d] = h]
  /\ disturbed' = disturbed \cup Watching(d)
  /\ UNCHANGED <<now, chains, tip, tree, runVars, evidenceVars>>

(* The upstream branch advances.                                           *)
Push(d) ==
  /\ tip[d] < MaxTip
  /\ tip' = [tip EXCEPT ![d] = @ + 1]
  /\ UNCHANGED <<now, chains, head, tree, runVars, disturbed, evidenceVars>>

-----------------------------------------------------------------------------
(* The runner.                                                             *)

(* The artifacts supplied pass the policy and every gate on their content:  *)
(* an approval validation of some plan at some time the caller names, a     *)
(* chain, and a binding of some plan and some chain.                       *)
AcceptInputs(x) ==
  /\ pc[x] = "start"
  /\ Policy[x]
  /\ \E plan, vplan, bplan \in Plan, approval \in Approval, t \in ApprovalTimes,
        chain, bchain \in chains, d \in Repo :
        /\ PullGates(plan, ApprovalValidation(vplan, approval, t), chain,
                     PreflightBinding(bplan, bchain), d)
        /\ job' = [job EXCEPT ![x] = [plan |-> plan, approval |-> approval,
                                      checked_at |-> t, chain |-> chain, repo |-> d]]
  /\ pc' = [pc EXCEPT ![x] = "accepted"]
  /\ UNCHANGED <<now, chains, repoVars, before, pulled, verdict, disturbed,
                 evidenceVars>>

(* A precondition fails before the pull: the artifacts do not pass, the     *)
(* worktree is not clean, git status or rev-parse HEAD fails.              *)
Refuse(x) ==
  /\ pc[x] \in {"start", "accepted", "clean"}
  /\ pc' = [pc EXCEPT ![x] = "refused"]
  /\ Evidence!Withdraw(x)
  /\ UNCHANGED <<now, chains, repoVars, job, before, pulled, verdict, disturbed>>

(* Mutant: the worktree is not looked at.                                  *)
SkipCleanCheck(x) ==
  /\ pc[x] = "accepted"
  /\ pc' = [pc EXCEPT ![x] = "clean"]
  /\ UNCHANGED <<now, chains, repoVars, job, before, pulled, verdict, disturbed,
                 evidenceVars>>

CheckClean(x) ==
  /\ pc[x] = "accepted"
  /\ tree[job[x].repo] = "clean"
  /\ pc' = [pc EXCEPT ![x] = "clean"]
  /\ UNCHANGED <<now, chains, repoVars, job, before, pulled, verdict, disturbed,
                 evidenceVars>>

ReadHead(x) ==
  /\ pc[x] = "clean"
  /\ before' = [before EXCEPT ![x] = head[job[x].repo]]
  /\ pc' = [pc EXCEPT ![x] = "ready"]
  /\ UNCHANGED <<now, chains, repoVars, job, pulled, verdict, disturbed,
                 evidenceVars>>

(* git pull --ff-only in repository d: it fast-forwards a HEAD without       *)
(* local commits to the upstream tip, reports a HEAD that contains the tip, *)
(* or fails; killed, it can fail with HEAD already moved.  Having moved,    *)
(* hooks may leave the worktree dirty.                                     *)
FastForwards(d) == head[d].own = 0 /\ head[d].up < tip[d]

(* A pull that had nothing to do says so in the language of the caller's     *)
(* environment; only the English wording is recognised.                     *)
IsAlreadyUpToDateOutput(x, recognised) == x \in EnglishGit => recognised

(* recognised: the output has that wording.  That of a fast-forward names    *)
(* files and holds what hooks print, and may have it, too.                  *)
PullEffect(x, d, exit, recognised, to, left) ==
  \/ exit = 0 /\ FastForwards(d) /\ to = [head[d] EXCEPT !.up = tip[d]]
  \/ /\ exit = 0 /\ head[d].up = tip[d] /\ to = head[d] /\ left = tree[d]
     /\ IsAlreadyUpToDateOutput(x, recognised)
  \/ exit = 1 /\ ~recognised /\ to = head[d] /\ left = tree[d]
  \/ exit = 1 /\ ~recognised /\ FastForwards(d) /\ to = [head[d] EXCEPT !.up = tip[d]]

Pull(x) ==
  LET d == job[x].repo IN
  /\ pc[x] = "ready"
  /\ \E exit \in {0, 1}, recognised \in BOOLEAN, to \in Heads, left \in Trees :
        /\ PullEffect(x, d, exit, recognised, to, left)
        /\ head' = [head EXCEPT ![d] = to]
        /\ tree' = [tree EXCEPT ![d] = left]
        /\ pulled' = [pulled EXCEPT ![x] =
                        [at |-> now, exit |-> exit, recognised |-> recognised,
                         from |-> head[d], to |-> to, tree |-> tree[d],
                         left |-> left]]
        /\ disturbed' = IF to = head[d] THEN disturbed
                        ELSE disturbed \cup (Watching(d) \ {x})
  /\ pc' = [pc EXCEPT ![x] = "pulled"]
  /\ UNCHANGED <<now, chains, tip, job, before, verdict, evidenceVars>>

Conclude(x, run, postcheck) ==
  /\ verdict' = [verdict EXCEPT ![x] = [run |-> run, postcheck |-> postcheck]]
  /\ pc' = [pc EXCEPT ![x] = "judged"]

(* Mutants: the wording is not looked at; HEAD is not compared; a failed     *)
(* pull is reported like a failed precondition.                            *)
ReadHeadAfterAnyPull(x) ==
  /\ pc[x] = "pulled"
  /\ \/ pulled[x].exit # 0 /\ Conclude(x, "failure", "failed")
     \/ /\ pulled[x].exit = 0
        /\ \/ Conclude(x, "success", "inconclusive")
           \/ /\ head[job[x].repo] # before[x]
              /\ pc' = [pc EXCEPT ![x] = "moved"]
              /\ UNCHANGED verdict
  /\ UNCHANGED <<now, chains, repoVars, job, before, pulled, disturbed, evidenceVars>>

ReadHeadAfterUncompared(x) ==
  /\ pc[x] = "pulled"
  /\ \/ pulled[x].exit # 0 /\ Conclude(x, "failure", "failed")
     \/ pulled[x].exit = 0 /\ Conclude(x, "success", "inconclusive")
     \/ /\ pulled[x].exit = 0 /\ ~pulled[x].recognised
        /\ pc' = [pc EXCEPT ![x] = "moved"]
        /\ UNCHANGED verdict
  /\ UNCHANGED <<now, chains, repoVars, job, before, pulled, disturbed, evidenceVars>>

RefuseAfterFailedPull(x) ==
  /\ pc[x] = "pulled"
  /\ \/ /\ pulled[x].exit # 0
        /\ pc' = [pc EXCEPT ![x] = "refused"]
        /\ UNCHANGED verdict
     \/ /\ pulled[x].exit = 0
        /\ Conclude(x, "success", "inconclusive")
  /\ UNCHANGED <<now, chains, repoVars, job, before, pulled, disturbed, evidenceVars>>

(* The exit code, the "already up to date" wording, then HEAD again.        *)
ReadHeadAfter(x) ==
  /\ pc[x] = "pulled"
  /\ \/ pulled[x].exit # 0 /\ Conclude(x, "failure", "failed")
     \/ pulled[x].exit = 0 /\ pulled[x].recognised /\ Conclude(x, "success", "inconclusive")
     \/ /\ pulled[x].exit = 0 /\ ~pulled[x].recognised
        /\ \/ Conclude(x, "success", "inconclusive")   \* unreadable, or unmoved
           \/ /\ head[job[x].repo] # before[x]
              /\ pc' = [pc EXCEPT ![x] = "moved"]
              /\ UNCHANGED verdict
  /\ UNCHANGED <<now, chains, repoVars, job, before, pulled, disturbed, evidenceVars>>

(* Mutant: an attempted pull is reported as blocked.                        *)
CheckCleanAfterBlocks(x) ==
  /\ pc[x] = "moved"
  /\ \/ Conclude(x, "success", "inconclusive")
     \/ tree[job[x].repo] = "dirty" /\ Conclude(x, "blocked", "failed")
     \/ tree[job[x].repo] = "clean" /\ Conclude(x, "success", "passed")
  /\ UNCHANGED <<now, chains, repoVars, job, before, pulled, disturbed, evidenceVars>>

(* git status once more, after HEAD has moved.                             *)
CheckCleanAfter(x) ==
  /\ pc[x] = "moved"
  /\ \/ Conclude(x, "success", "inconclusive")         \* git status fails
     \/ tree[job[x].repo] = "dirty" /\ Conclude(x, "failure", "failed")
     \/ tree[job[x].repo] = "clean" /\ Conclude(x, "success", "passed")
  /\ UNCHANGED <<now, chains, repoVars, job, before, pulled, disturbed, evidenceVars>>

(* _write_artifacts_atomic, through what it promises.                      *)
WriteArtifacts(x) ==
  /\ pc[x] = "judged"
  /\ \/ Evidence!Expose(x) /\ UNCHANGED pc
     \/ Evidence!Publish(x) /\ pc' = [pc EXCEPT ![x] = "returned"]
     \/ (Evidence!Withdraw(x) \/ Evidence!Tear(x)) /\ pc' = [pc EXCEPT ![x] = "raised"]
  /\ UNCHANGED <<now, chains, repoVars, job, before, pulled, verdict, disturbed>>

(* The process dies.                                                       *)
Kill(x) ==
  /\ pc[x] \in Live
  /\ pc' = [pc EXCEPT ![x] = "killed"]
  /\ Evidence!Withdraw(x) \/ Evidence!Tear(x)
  /\ UNCHANGED <<now, chains, repoVars, job, before, pulled, verdict, disturbed>>

Step(x) ==
  \/ AcceptInputs(x) \/ Refuse(x) \/ CheckClean(x) \/ ReadHead(x) \/ Pull(x)
  \/ ReadHeadAfter(x) \/ CheckCleanAfter(x) \/ WriteArtifacts(x) \/ Kill(x)

Next ==
  \/ Tick \/ SupplyChain
  \/ \E d \in Repo : Edit(d) \/ MoveHead(d) \/ Push(d)
  \/ \E x \in Runner : Step(x)

Spec == Init /\ [][Next]_vars

-----------------------------------------------------------------------------
(* Properties.                                                             *)

(* Whatever artifacts were supplied, mixed or old, a pull was approved: for *)
(* exactly that plan content there is an approval, not rejected and within *)
(* its time at the moment the validation names, and a valid chain whose run *)
(* was the preflight of exactly that plan in exactly that repository (the   *)
(* gates of run_git_pull_ff_only, readiness, binding and validation).       *)
PullIsAuthorised ==
  \A x \in Runner :
     pulled[x] # Absent =>
       LET j == job[x] IN
       /\ Policy[x]
       /\ PlanAction[j.plan] = "git-pull-ff-only"
       /\ j.approval.decision = "approved"
       /\ j.approval.sha = j.plan
       /\ j.approval.decided_at <= j.checked_at
       /\ j.checked_at < j.approval.expires_at
       /\ j.chain \in chains /\ j.chain.status = "valid"
       /\ j.chain.proof = ProofMaterial(j.plan, j.repo)

OwnFastForward(p) ==
  p.exit = 0 /\ p.from.own = 0 /\ p.to.own = 0 /\ p.from.up < p.to.up

Passed(x) == verdict[x] # Absent /\ verdict[x].postcheck = "passed"

(* A passed postcheck is about the run's own pull, which exited with 0 and   *)
(* fast-forwarded HEAD, as long as one of the two tests for that can tell:  *)
(* the wording, if git speaks English, whatever others do to HEAD; or the   *)
(* comparison with head_before, in any language, if nobody else touched the *)
(* repository since the run found it clean (_is_already_up_to_date_output,  *)
(* head_after and head_before in run_git_pull_ff_only).  Where neither can   *)
(* tell, the code passes what is no fast-forward.                           *)
PassedIsFastForward ==
  \A x \in Runner :
     Passed(x) => /\ pulled[x].exit = 0
                  /\ x \in EnglishGit \/ x \notin disturbed
                       => OwnFastForward(pulled[x])

(* A run whose repository nobody else touched since it was found clean is   *)
(* exact: it pulled a clean worktree at the recorded HEAD, its result says  *)
(* failure if git pull failed and only if it failed or left the worktree    *)
(* dirty, and its postcheck passes over neither (the two worktree checks   *)
(* and the two HEAD readings of run_git_pull_ff_only).                      *)
UndisturbedRunIsExact ==
  \A x \in Runner \ disturbed :
     pulled[x] # Absent =>
       /\ pulled[x].tree = "clean"
       /\ pulled[x].from = before[x]
       /\ verdict[x] # Absent =>
            /\ pulled[x].exit # 0 => verdict[x].run = "failure"
            /\ verdict[x].run = "failure" =>
                 pulled[x].exit # 0 \/ pulled[x].left = "dirty"
            /\ verdict[x].postcheck = "passed" =>
                 pulled[x].exit = 0 /\ pulled[x].left = "clean"

(* Evidence is about pulls and refusals are about none: an artifact of a    *)
(* run can only be seen after its pull was judged, and a run that ends as a *)
(* failed precondition, for which the command line reports "blocked", has   *)
(* not pulled (docstring of run_git_pull_ff_only, _emit_pull_blocked).      *)
OnlyPullsLeaveEvidence ==
  \A x \in Runner :
     /\ seen[x] # "none" => pulled[x] # Absent /\ verdict[x] # Absent
     /\ pc[x] = "refused" => pulled[x] = Absent /\ seen[x] = "none"

(* "Approval must expire": no pull happens at or after the expiry of the     *)
(* approval it relies on (approval model).                                  *)
PullsBeforeExpiry ==
  \A x \in Runner :
     pulled[x] # Absent => pulled[x].at < job[x].approval.expires_at
=============================================================================
