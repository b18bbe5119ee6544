-------------------------- MODULE SwitchMainRun_proofs --------------------------
(* Every switch is covered by the artifacts that were supplied, leaves only *)
(* main or the proven branch, and is reported right, for any number of      *)
(* runners, repositories, branches, plans, approvals and proofs.            *)
EXTENDS SwitchMainRun, TLAPS

(* What the gates have established about the inputs of x.                   *)
Authorised(x) ==
  /\ job[x] \in Jobs
  /\ Policy[x]
  /\ job[x].approval.decision = "approved"
  /\ job[x].approval.sha = job[x].plan
  /\ job[x].checked_at < job[x].approval.expires_at
  /\ job[x].proof.sha = job[x].plan
  /\ job[x].proof.repo_toplevel = job[x].repo
  /\ job[x].proof.default_branch = "main"
  /\ {job[x].proof.worktree_clean, job[x].proof.remote_main_fresh,
      job[x].proof.ownership_ok} = {"true"}

Accepted == {"accepted", "located", "ready", "switched", "onMain", "judged"}

AuthInv(x) == pc[x] \in Accepted \/ switched[x] # Absent => Authorised(x)

(* Which records a runner has at which control point, and what they say.    *)
SwitchInv(x) ==
  /\ pc[x] \in {"start", "accepted", "located", "ready", "refused"}
       => switched[x] = Absent
  /\ pc[x] \in {"switched", "onMain", "judged"} => switched[x] \in Switches
  /\ pc[x] = "onMain" => switched[x].exit = 0
  /\ pc[x] \in {"start", "accepted", "located", "ready", "switched", "onMain", "refused"}
       => verdict[x] = Absent
  /\ pc[x] = "judged" => verdict[x] \in Verdicts
  /\ verdict[x] # Absent =>
       /\ switched[x] \in Switches
       /\ switched[x].exit # 0 => verdict[x].run = "failure"
       /\ verdict[x].postcheck = "passed" => switched[x].exit = 0

(* Some switch has left a worktree dirty.                                   *)
DirtySwitch == \E y \in Runner : switched[y] # Absent /\ switched[y].left = "dirty"

(* The branch b may be left with the proof of x.                            *)
Proven(x, b) == b # "main" => /\ job[x].proof.current_branch = b
                              /\ job[x].proof.lifecycle = "true"

(* What a runner may rely on while no outsider disturbs it: other runners   *)
(* only ever move the repository to main.                                  *)
ExactInv(x) ==
  x \notin disturbed =>
    /\ pc[x] \in {"located", "ready"} => branch[job[x].repo] \in {before[x], "main"}
    /\ pc[x] = "ready" => Proven(x, before[x])
    /\ pc[x] \in {"ready", "switched", "onMain"} /\ tree[job[x].repo] = "dirty"
         => DirtySwitch
    /\ pc[x] \in {"switched", "onMain"} /\ switched[x].exit = 0
         => branch[job[x].repo] = "main"
    /\ switched[x] # Absent => /\ switched[x].from \in {before[x], "main"}
                               /\ Proven(x, switched[x].from)
    /\ verdict[x] # Absent /\ verdict[x].run = "failure" /\ switched[x].exit = 0
         => DirtySwitch

(* No artifact is visible before the verdict.                               *)
SeenInv(x) ==
  /\ pc[x] \in {"start", "accepted", "located", "ready", "switched", "onMain", "refused"}
       => seen[x] = "none"
  /\ seen[x] # "none" => switched[x] # Absent /\ verdict[x] # Absent

(* The inductive invariant.                                                *)
IInv == /\ TypeOK
        /\ \A x \in Runner : AuthInv(x) /\ SwitchInv(x) /\ ExactInv(x) /\ SeenInv(x)

-----------------------------------------------------------------------------
(* A ready readiness: the proof states everything that is required.         *)
LEMMA ReadyProof ==
  ASSUME NEW plan \in Plan, NEW proof \in Proof,
         SwitchReadiness(plan, proof).status = "ready"
  PROVE  /\ proof.sha = plan
         /\ proof.default_branch = "main"
         /\ {proof.worktree_clean, proof.remote_main_fresh, proof.ownership_ok}
              = {"true"}
  <1>1. ~Contradicted(plan, proof) /\ ~Unknown(proof)
    BY DEF SwitchReadiness
  <1>2. /\ proof.worktree_clean \in Claims /\ proof.remote_main_fresh \in Claims
        /\ proof.ownership_ok \in Claims
    BY SwitchAssumption
  <1>3. proof.sha = plan /\ proof.default_branch = "main"
    BY <1>1 DEF Contradicted, Unknown, Sha
  <1>4. /\ proof.worktree_clean = "true" /\ proof.remote_main_fresh = "true"
        /\ proof.ownership_ok = "true"
    BY <1>1, <1>2 DEF Contradicted, Unknown, Claims
  <1>5. QED
    BY <1>3, <1>4

(* The gates establish the authorisation, whatever plans the validation and *)
(* the readiness were made for.                                            *)
LEMMA GatesAuthorise ==
  ASSUME NEW plan \in Plan, NEW vplan \in Plan, NEW rplan \in Plan,
         NEW approval \in Approval, NEW t \in ApprovalTimes,
         NEW proof \in Proof, NEW d \in Repo,
         SwitchGates(plan, ApprovalValidation(vplan, approval, t),
                     SwitchReadiness(rplan, proof), d)
  PROVE  /\ approval.decision = "approved"
         /\ approval.sha = plan
         /\ t < approval.expires_at
         /\ proof.sha = plan
         /\ proof.repo_toplevel = d
         /\ proof.default_branch = "main"
         /\ {proof.worktree_clean, proof.remote_main_fresh, proof.ownership_ok}
              = {"true"}
  <1> DEFINE validation == ApprovalValidation(vplan, approval, t)
             readiness == SwitchReadiness(rplan, proof)
  <1>1. /\ validation.binding_state = "binding_valid" /\ validation.sha = plan
        /\ readiness.status = "ready" /\ readiness.sha = plan
        /\ readiness.repo_toplevel = d
    BY DEF SwitchGates, Sha
  <1>2. vplan = plan
    BY <1>1 DEF ApprovalValidation, Sha
  <1>3. ApprovalBinds(vplan, approval, t)
    BY <1>1 DEF ApprovalValidation
  <1>4. approval.decision = "approved" /\ approval.sha = plan /\ t < approval.expires_at
    BY <1>2, <1>3 DEF ApprovalBinds, Sha
  <1>5. /\ proof.sha = rplan
        /\ proof.default_branch = "main"
        /\ {proof.worktree_clean, proof.remote_main_fresh, proof.ownership_ok}
             = {"true"}
    BY <1>1, ReadyProof
  <1>6. rplan = plan /\ proof.repo_toplevel = d
    BY <1>1, <1>5 DEF SwitchReadiness, Sha
  <1>7. QED
    BY <1>4, <1>5, <1>6

(* Inputs that pass are well-formed and authorised.                         *)
LEMMA AcceptanceAuthorises ==
  ASSUME TypeOK, NEW x \in Runner, AcceptInputs(x)
  PROVE  /\ Authorised(x)'
         /\ job' \in [Runner -> Jobs \cup {Absent}]
         /\ \A y \in Runner \ {x} : job'[y] = job[y]
  <1>1. PICK plan \in Plan, vplan \in Plan, rplan \in Plan, approval \in Approval,
             t \in ApprovalTimes, proof \in Proof, d \in Repo :
          /\ SwitchGates(plan, ApprovalValidation(vplan, approval, t),
                         SwitchReadiness(rplan, proof), d)
          /\ job' = [job EXCEPT ![x] = [plan |-> plan, approval |-> approval,
                                        checked_at |-> t, proof |-> proof, repo |-> d]]
    BY DEF AcceptInputs
  <1>2. /\ approval.decision = "approved" /\ approval.sha = plan
        /\ t < approval.expires_at
        /\ proof.sha = plan /\ proof.repo_toplevel = d /\ proof.default_branch = "main"
        /\ {proof.worktree_clean, proof.remote_main_fresh, proof.ownership_ok}
             = {"true"}
    BY <1>1, GatesAuthorise, SMTT(60)
  <1> DEFINE j == [plan |-> plan, approval |-> approval, checked_at |-> t,
                   proof |-> proof, repo |-> d]
  <1>3. j \in Jobs
    BY DEF Jobs
  <1>4. job \in [Runner -> Jobs \cup {Absent}]
    BY DEF TypeOK
  <1>5. /\ job'[x] = j /\ job' \in [Runner -> Jobs \cup {Absent}]
        /\ \A y \in Runner \ {x} : job'[y] = job[y]
    <2> HIDE DEF j
    <2> QED
      BY <1>1, <1>3, <1>4 DEF j
  <1>6. Policy[x]
    BY DEF AcceptInputs
  <1>7. QED
    BY <1>2, <1>3, <1>5, <1>6 DEF Authorised

-----------------------------------------------------------------------------
(* The type invariant holds initially.                                     *)
LEMMA TypeInit == Init => TypeOK
  BY DEF Init, TypeOK, Evidence!Init, Evidence!Outcomes, Evidence!Extents,
         Positions, Trees, Phases, Live

(* The publication keeps to its types.                                     *)
LEMMA EvidenceTypes ==
  ASSUME NEW x \in Runner,
         outcome \in [Runner -> Evidence!Outcomes], seen \in [Runner -> Evidence!Extents],
         Evidence!Expose(x) \/ Evidence!Publish(x) \/ Evidence!Withdraw(x)
           \/ Evidence!Tear(x)
  PROVE  outcome' \in [Runner -> Evidence!Outcomes] /\ seen' \in [Runner -> Evidence!Extents]
  BY DEF Evidence!Outcomes, Evidence!Extents, Evidence!Expose, Evidence!Publish,
         Evidence!Withdraw, Evidence!Tear

(* What a switch does: it ends where it was or on main, on main if it        *)
(* succeeds, and is recorded.                                              *)
LEMMA SwitchFacts ==
  ASSUME TypeOK, NEW x \in Runner, AuthInv(x), Switch(x)
  PROVE  /\ job[x].repo \in Repo
         /\ branch'[job[x].repo] \in {branch[job[x].repo], "main"}
         /\ switched'[x] \in Switches
         /\ switched'[x].from = branch[job[x].repo]
         /\ switched'[x].left = tree'[job[x].repo]
         /\ switched'[x].exit = 0 => branch'[job[x].repo] = "main"
         /\ \A e \in Repo \ {job[x].repo} : branch'[e] = branch[e] /\ tree'[e] = tree[e]
         /\ \A y \in Runner \ {x} : switched'[y] = switched[y]
  <1> DEFINE d == job[x].repo
  <1>1. d \in Repo
    BY DEF Switch, AuthInv, Accepted, Authorised, Jobs
  <1>2. PICK exit \in {0, 1}, to \in Positions, after \in Trees :
          /\ SwitchEffect(d, exit, to, after)
          /\ branch' = [branch EXCEPT ![d] = to]
          /\ tree' = [tree EXCEPT ![d] = after]
          /\ switched' = [switched EXCEPT ![x] =
                            [exit |-> exit, from |-> branch[d], left |-> after]]
    BY DEF Switch
  <1>3. [exit |-> exit, from |-> branch[d], left |-> after] \in Switches
    BY <1>1 DEF TypeOK, Switches
  <1>4. /\ switched'[x] = [exit |-> exit, from |-> branch[d], left |-> after]
        /\ branch'[d] = to /\ tree'[d] = after
    BY <1>1, <1>2 DEF TypeOK
  <1>5. /\ \A e \in Repo \ {d} : branch'[e] = branch[e] /\ tree'[e] = tree[e]
        /\ \A y \in Runner \ {x} : switched'[y] = switched[y]
    BY <1>2 DEF TypeOK
  <1>6. to \in {branch[d], "main"} /\ (exit = 0 => to = "main")
    BY <1>2 DEF SwitchEffect
  <1>7. QED
    BY <1>1, <1>3, <1>4, <1>5, <1>6

(* The type invariant is preserved by every step of a run that is           *)
(* authorised when it acts on its repository.                              *)
LEMMA TypeStep ==
  ASSUME TypeOK, \A x \in Runner : AuthInv(x), [Next]_vars
  PROVE  TypeOK'
  <1> USE DEF Phases, Live
  <1>1. CASE UNCHANGED vars
    BY <1>1 DEF TypeOK, vars, repoVars, runVars, evidenceVars
  <1>2. ASSUME NEW d \in Repo, Edit(d) \/ Checkout(d) PROVE TypeOK'
    <2>1. CASE Edit(d)
      BY <2>1 DEF Edit, TypeOK, Watching, runVars, evidenceVars
    <2>2. CASE Checkout(d)
      BY <2>2 DEF Checkout, TypeOK, Watching, runVars, evidenceVars
    <2>3. QED
      BY <1>2, <2>1, <2>2
  <1>3. ASSUME NEW x \in Runner, Step(x) PROVE TypeOK'
    <2>1. CASE AcceptInputs(x)
      <3>1. job' \in [Runner -> Jobs \cup {Absent}]
        BY <2>1, AcceptanceAuthorises
      <3>2. QED
        BY <2>1, <3>1 DEF AcceptInputs, TypeOK, repoVars, evidenceVars
    <2>2. CASE Refuse(x)
      BY <2>2, EvidenceTypes DEF Refuse, TypeOK, repoVars
    <2>3. CASE ReadBranch(x)
      <3>1. job[x].repo \in Repo
        BY <2>3 DEF ReadBranch, AuthInv, Accepted, Authorised, Jobs
      <3>2. branch[job[x].repo] \in Branch
        BY <2>3, <3>1 DEF ReadBranch, TypeOK, Positions
      <3>3. QED
        BY <2>3, <3>2 DEF ReadBranch, TypeOK, repoVars, evidenceVars
    <2>4. CASE CheckClean(x)
      BY <2>4 DEF CheckClean, TypeOK, repoVars, evidenceVars
    <2>5. CASE Switch(x)
      <3>1. PICK exit \in {0, 1}, to \in Positions, after \in Trees :
              /\ branch' = [branch EXCEPT ![job[x].repo] = to]
              /\ tree' = [tree EXCEPT ![job[x].repo] = after]
              /\ switched' = [switched EXCEPT ![x] =
                   [exit |-> exit, from |-> branch[job[x].repo], left |-> after]]
        BY <2>5 DEF Switch
      <3>2. switched' \in [Runner -> Switches \cup {Absent}]
        <4>1. switched'[x] \in Switches
          BY <2>5, SwitchFacts
        <4>2. QED
          BY <3>1, <4>1 DEF TypeOK
      <3>3. branch' \in [Repo -> Positions] /\ tree' \in [Repo -> Trees]
        BY <3>1 DEF TypeOK
      <3>4. QED
        BY <2>5, <3>2, <3>3 DEF Switch, TypeOK, evidenceVars
    <2>6. CASE ReadBranchAfter(x)
      BY <2>6 DEF ReadBranchAfter, Conclude, Verdicts, TypeOK, repoVars, evidenceVars
    <2>7. CASE CheckCleanAfter(x)
      BY <2>7 DEF CheckCleanAfter, Conclude, Verdicts, TypeOK, repoVars, evidenceVars
    <2>8. CASE WriteArtifacts(x)
      <3>1. outcome' \in [Runner -> Evidence!Outcomes] /\ seen' \in [Runner -> Evidence!Extents]
        BY <2>8, EvidenceTypes DEF WriteArtifacts, TypeOK
      <3>2. pc' \in [Runner -> Phases]
        BY <2>8 DEF WriteArtifacts, TypeOK
      <3>3. QED
        BY <2>8, <3>1, <3>2 DEF WriteArtifacts, TypeOK, repoVars
    <2>9. CASE Kill(x)
      BY <2>9, EvidenceTypes DEF Kill, TypeOK, repoVars
    <2>10. QED
      BY <1>3, <2>1, <2>2, <2>3, <2>4, <2>5, <2>6, <2>7, <2>8, <2>9 DEF Step
  <1>4. QED
    BY <1>1, <1>2, <1>3 DEF Next

-----------------------------------------------------------------------------
(* What outsiders and other runs leave alone.                               *)
Outsiders == \E d \in Repo : Edit(d) \/ Checkout(d)

(* Outsiders leave the runners' own state alone.                            *)
LEMMA OutsidersFrame ==
  ASSUME Outsiders
  PROVE  /\ UNCHANGED <<pc, job, before, switched, verdict, outcome, seen>>
         /\ disturbed \subseteq disturbed'
  BY DEF Outsiders, Edit, Checkout, runVars, evidenceVars

(* A step of one runner leaves the state of another alone.                  *)
LEMMA StepFrame ==
  ASSUME TypeOK, NEW x \in Runner, Step(x), NEW y \in Runner, y # x
  PROVE  /\ pc'[y] = pc[y] /\ job'[y] = job[y] /\ before'[y] = before[y]
         /\ switched'[y] = switched[y] /\ verdict'[y] = verdict[y]
         /\ seen'[y] = seen[y] /\ disturbed' = disturbed
  <1>1. CASE AcceptInputs(x)
    BY <1>1, AcceptanceAuthorises DEF AcceptInputs, TypeOK, evidenceVars
  <1>2. CASE Refuse(x) \/ Kill(x)
    BY <1>2 DEF Refuse, Kill, TypeOK, Evidence!Withdraw, Evidence!Tear
  <1>3. CASE ReadBranch(x) \/ CheckClean(x)
    BY <1>3 DEF ReadBranch, CheckClean, TypeOK, evidenceVars
  <1>4. CASE Switch(x)
    BY <1>4 DEF Switch, TypeOK, evidenceVars
  <1>5. CASE ReadBranchAfter(x) \/ CheckCleanAfter(x)
    BY <1>5 DEF ReadBranchAfter, CheckCleanAfter, Conclude, TypeOK, evidenceVars
  <1>6. CASE WriteArtifacts(x)
    BY <1>6 DEF WriteArtifacts, TypeOK, Evidence!Expose, Evidence!Publish,
                Evidence!Withdraw, Evidence!Tear
  <1>7. QED
    BY <1>1, <1>2, <1>3, <1>4, <1>5, <1>6 DEF Step

(* The control points a step of x goes from and to.                         *)
LEMMA Control ==
  ASSUME TypeOK, NEW x \in Runner, Step(x)
  PROVE  /\ AcceptInputs(x) => pc[x] = "start" /\ pc'[x] = "accepted"
         /\ Refuse(x) => pc[x] \in {"start", "accepted", "located"} /\ pc'[x] = "refused"
         /\ ReadBranch(x) => pc[x] = "accepted" /\ pc'[x] = "located"
         /\ CheckClean(x) => pc[x] = "located" /\ pc'[x] = "ready"
         /\ Switch(x) => pc[x] = "ready" /\ pc'[x] = "switched"
         /\ ReadBranchAfter(x) => pc[x] = "switched" /\ pc'[x] \in {"judged", "onMain"}
         /\ CheckCleanAfter(x) => pc[x] = "onMain" /\ pc'[x] = "judged"
         /\ WriteArtifacts(x) => pc[x] = "judged" /\ pc'[x] \in {"judged", "returned", "raised"}
         /\ Kill(x) => pc[x] \in Live /\ pc'[x] = "killed"
  BY DEF TypeOK, AcceptInputs, Refuse, ReadBranch, CheckClean, Switch, ReadBranchAfter,
         CheckCleanAfter, Conclude, WriteArtifacts, Kill

(* The authorisation of a runner is never lost.                             *)
LEMMA AuthStep ==
  ASSUME TypeOK, \A z \in Runner : AuthInv(z), Next, NEW y \in Runner
  PROVE  AuthInv(y)'
  <1> USE DEF AuthInv, Accepted
  <1>1. CASE Outsiders
    BY <1>1, OutsidersFrame DEF Authorised
  <1>2. ASSUME NEW x \in Runner, Step(x), y # x PROVE AuthInv(y)'
    BY <1>2, StepFrame DEF Authorised
  <1>3. ASSUME Step(y) PROVE AuthInv(y)'
    <2>1. CASE AcceptInputs(y)
      BY <2>1, AcceptanceAuthorises
    <2>2. CASE ~AcceptInputs(y)
      <3>1. job' = job
        BY <1>3, <2>2 DEF Step, Refuse, ReadBranch, CheckClean, Switch, ReadBranchAfter,
                          CheckCleanAfter, WriteArtifacts, Kill
      <3>2. pc'[y] \in Accepted \/ switched'[y] # Absent => Authorised(y)
        <4>1. CASE Switch(y)
          BY <4>1 DEF Switch
        <4>2. CASE ~Switch(y)
          <5>1. switched' = switched
            BY <1>3, <2>2, <4>2
            DEF Step, Refuse, ReadBranch, CheckClean, ReadBranchAfter, CheckCleanAfter,
                WriteArtifacts, Kill
          <5>2. pc'[y] \in Accepted => pc[y] \in Accepted
            BY <1>3, <2>2, <4>2, Control DEF Step
          <5>3. QED
            BY <5>1, <5>2
        <4>3. QED
          BY <4>1, <4>2
      <3>3. QED
        BY <3>1, <3>2 DEF Authorised
    <2>3. QED
      BY <2>1, <2>2
  <1>4. QED
    BY <1>1, <1>2, <1>3 DEF Next, Outsiders

(* What the records of a runner say stays true.                             *)
LEMMA SwitchStep ==
  ASSUME TypeOK, \A z \in Runner : AuthInv(z) /\ SwitchInv(z), Next, NEW y \in Runner
  PROVE  SwitchInv(y)'
  <1>1. CASE Outsiders
    BY <1>1, OutsidersFrame DEF SwitchInv
  <1>2. ASSUME NEW x \in Runner, Step(x), y # x PROVE SwitchInv(y)'
    BY <1>2, StepFrame DEF SwitchInv
  <1>3. ASSUME Step(y) PROVE SwitchInv(y)'
    <2>1. CASE AcceptInputs(y) \/ Refuse(y) \/ ReadBranch(y) \/ CheckClean(y)
               \/ WriteArtifacts(y) \/ Kill(y)
      <3>1. switched' = switched /\ verdict' = verdict
        BY <2>1 DEF AcceptInputs, Refuse, ReadBranch, CheckClean, WriteArtifacts, Kill
      <3>2. QED
        BY <1>3, <2>1, <3>1, Control DEF SwitchInv
    <2>2. CASE Switch(y)
      <3>1. switched'[y] \in Switches
        BY <2>2, SwitchFacts
      <3>2. verdict'[y] = Absent /\ pc'[y] = "switched"
        BY <2>2 DEF Switch, SwitchInv, TypeOK
      <3>3. QED
        BY <3>1, <3>2 DEF SwitchInv
    <2>3. CASE ReadBranchAfter(y) \/ CheckCleanAfter(y)
      <3>1. switched'[y] = switched[y] /\ switched[y] \in Switches
        BY <2>3 DEF ReadBranchAfter, CheckCleanAfter, SwitchInv
      <3>2. CASE pc'[y] = "onMain"
        BY <2>3, <3>1, <3>2 DEF ReadBranchAfter, CheckCleanAfter, Conclude, SwitchInv, TypeOK
      <3>3. CASE pc'[y] = "judged"
        <4>1. /\ verdict'[y] \in Verdicts
              /\ switched[y].exit # 0 => verdict'[y].run = "failure"
              /\ verdict'[y].postcheck = "passed" => switched[y].exit = 0
          BY <2>3, <3>3 DEF ReadBranchAfter, CheckCleanAfter, Conclude, SwitchInv, TypeOK,
                            Verdicts
        <4>2. QED
          BY <3>1, <3>3, <4>1 DEF SwitchInv
      <3>4. QED
        BY <1>3, <2>3, <3>2, <3>3, Control
    <2>4. QED
      BY <1>3, <2>1, <2>2, <2>3 DEF Step
  <1>4. QED
    BY <1>1, <1>2, <1>3 DEF Next, Outsiders

(* No artifact becomes visible too early.                                   *)
LEMMA SeenStep ==
  ASSUME TypeOK, \A z \in Runner : SwitchInv(z) /\ SeenInv(z), Next, NEW y \in Runner
  PROVE  SeenInv(y)'
  <1>1. CASE Outsiders
    BY <1>1, OutsidersFrame DEF SeenInv
  <1>2. ASSUME NEW x \in Runner, Step(x), y # x PROVE SeenInv(y)'
    BY <1>2, StepFrame DEF SeenInv
  <1>3. ASSUME Step(y) PROVE SeenInv(y)'
    <2>1. CASE AcceptInputs(y) \/ ReadBranch(y) \/ CheckClean(y) \/ Switch(y)
               \/ ReadBranchAfter(y) \/ CheckCleanAfter(y)
      <3>1. seen' = seen
        BY <2>1 DEF AcceptInputs, ReadBranch, CheckClean, Switch, ReadBranchAfter,
                    CheckCleanAfter, evidenceVars
      <3>2. seen[y] = "none"
        BY <1>3, <2>1, Control DEF SeenInv
      <3>3. QED
        BY <3>1, <3>2 DEF SeenInv
    <2>2. CASE Refuse(y) \/ Kill(y)
      BY <1>3, <2>2, Control
      DEF Refuse, Kill, SeenInv, Evidence!Withdraw, Evidence!Tear
    <2>3. CASE WriteArtifacts(y)
      <3>1. switched' = switched /\ verdict' = verdict
        BY <2>3 DEF WriteArtifacts
      <3>2. switched[y] # Absent /\ verdict[y] # Absent
        BY <2>3, AbsentAssumption DEF WriteArtifacts, SwitchInv
      <3>3. QED
        BY <1>3, <2>3, <3>1, <3>2, Control DEF SeenInv
    <2>4. QED
      BY <1>3, <2>1, <2>2, <2>3 DEF Step
  <1>4. QED
    BY <1>1, <1>2, <1>3 DEF Next, Outsiders

(* A switch that left a worktree dirty stays on record.                     *)
LEMMA DirtySwitchStays ==
  ASSUME TypeOK, \A z \in Runner : AuthInv(z) /\ SwitchInv(z), Next, DirtySwitch
  PROVE  DirtySwitch'
  <1>1. PICK y \in Runner : switched[y] # Absent /\ switched[y].left = "dirty"
    BY DEF DirtySwitch
  <1>2. switched'[y] = switched[y]
    <2>1. CASE Outsiders
      BY <2>1, OutsidersFrame
    <2>2. ASSUME NEW x \in Runner, Step(x) PROVE switched'[y] = switched[y]
      <3>1. CASE Switch(x)
        BY <1>1, <2>2, <3>1, SwitchFacts DEF Switch, SwitchInv
      <3>2. CASE ~Switch(x)
        BY <2>2, <3>2 DEF Step, AcceptInputs, Refuse, ReadBranch, CheckClean,
                          ReadBranchAfter, CheckCleanAfter, WriteArtifacts, Kill
      <3>3. QED
        BY <3>1, <3>2
    <2>3. QED
      BY <2>1, <2>2 DEF Next, Outsiders
  <1>3. QED
    BY <1>1, <1>2 DEF DirtySwitch

(* What an undisturbed runner relies on stays true.                         *)
LEMMA ExactStep ==
  ASSUME TypeOK, \A z \in Runner : AuthInv(z) /\ SwitchInv(z) /\ ExactInv(z), Next,
         NEW y \in Runner
  PROVE  ExactInv(y)'
  <1> SUFFICES ASSUME y \notin disturbed' PROVE ExactInv(y)'
    BY DEF ExactInv
  <1>0. DirtySwitch => DirtySwitch'
    BY DirtySwitchStays
  <1>1. CASE Outsiders
    <2>1. UNCHANGED <<pc, job, before, switched, verdict>> /\ y \notin disturbed
      BY <1>1, OutsidersFrame
    <2>2. ASSUME pc[y] \in {"located", "ready", "switched", "onMain"}
          PROVE  /\ branch'[job[y].repo] = branch[job[y].repo]
                 /\ tree'[job[y].repo] = tree[job[y].repo]
      <3>1. PICK d \in Repo : Edit(d) \/ Checkout(d)
        BY <1>1 DEF Outsiders
      <3>2. job[y].repo # d
        BY <2>2, <3>1 DEF Edit, Checkout, Watching
      <3>3. job[y].repo \in Repo
        BY <2>2 DEF AuthInv, Accepted, Authorised, Jobs
      <3>4. QED
        BY <3>1, <3>2, <3>3 DEF Edit, Checkout, TypeOK
    <2>3. QED
      BY <1>0, <2>1, <2>2 DEF ExactInv, Proven
  <1>2. ASSUME NEW x \in Runner, Step(x), y # x PROVE ExactInv(y)'
    <2>1. /\ pc'[y] = pc[y] /\ job'[y] = job[y] /\ before'[y] = before[y]
          /\ switched'[y] = switched[y] /\ verdict'[y] = verdict[y]
          /\ y \notin disturbed
      BY <1>2, StepFrame
    <2>2. ASSUME pc[y] \in {"located", "ready", "switched", "onMain"}
          PROVE  /\ branch'[job[y].repo] \in {branch[job[y].repo], "main"}
                 /\ tree'[job[y].repo] = "dirty"
                      => tree[job[y].repo] = "dirty" \/ DirtySwitch'
      <3>1. job[y].repo \in Repo
        BY <2>2 DEF AuthInv, Accepted, Authorised, Jobs
      <3>2. CASE Switch(x)
        <4>1. CASE job[x].repo = job[y].repo
          BY <3>2, <4>1, SwitchFacts, AbsentAssumption DEF DirtySwitch
        <4>2. CASE job[x].repo # job[y].repo
          BY <3>1, <3>2, <4>2, SwitchFacts
        <4>3. QED
          BY <4>1, <4>2
      <3>3. CASE ~Switch(x)
        BY <1>2, <3>3 DEF Step, AcceptInputs, Refuse, ReadBranch, CheckClean,
            ReadBranchAfter, CheckCleanAfter, WriteArtifacts, Kill, repoVars
      <3>4. QED
        BY <3>2, <3>3
    <2>3. QED
      BY <1>0, <2>1, <2>2 DEF ExactInv, Proven
  <1>3. ASSUME Step(y) PROVE ExactInv(y)'
    <2>1. CASE AcceptInputs(y) \/ Refuse(y) \/ WriteArtifacts(y) \/ Kill(y)
      <3>1. CASE AcceptInputs(y)
        <4>1. /\ pc'[y] = "accepted" /\ switched'[y] = Absent /\ verdict'[y] = Absent
          BY <1>3, <3>1, Control DEF AcceptInputs, SwitchInv
        <4>2. QED
          BY <4>1 DEF ExactInv
      <3>2. CASE ~AcceptInputs(y)
        <4>1. /\ UNCHANGED <<job, before, switched, verdict, disturbed>>
              /\ pc'[y] \notin {"located", "ready", "switched", "onMain"}
          BY <1>3, <2>1, <3>2, Control DEF Refuse, WriteArtifacts, Kill
        <4>2. QED
          BY <1>0, <4>1 DEF ExactInv, Proven
      <3>3. QED
        BY <3>1, <3>2
    <2>2. CASE ReadBranch(y)
      <3>1. /\ pc'[y] = "located" /\ switched'[y] = Absent /\ verdict'[y] = Absent
            /\ UNCHANGED <<branch, job>> /\ before'[y] = branch[job[y].repo]
        BY <1>3, <2>2, Control DEF ReadBranch, SwitchInv, TypeOK, repoVars
      <3>2. QED
        BY <3>1 DEF ExactInv
    <2>3. CASE CheckClean(y)
      <3>1. /\ pc'[y] = "ready" /\ switched'[y] = Absent /\ verdict'[y] = Absent
            /\ pc[y] = "located" /\ tree[job[y].repo] = "clean"
            /\ UNCHANGED <<branch, tree, job, before, disturbed>>
        BY <1>3, <2>3, Control DEF CheckClean, SwitchInv, repoVars
      <3>2. Proven(y, before[y])
        BY <2>3 DEF CheckClean, MayLeave, SwitchReadiness, Proven
      <3>3. QED
        BY <3>1, <3>2 DEF ExactInv, Proven
    <2>4. CASE Switch(y)
      <3>1. /\ pc[y] = "ready" /\ pc'[y] = "switched" /\ verdict'[y] = Absent
            /\ UNCHANGED <<job, before, disturbed>>
        BY <2>4 DEF Switch, SwitchInv, TypeOK
      <3>2. /\ switched'[y].from = branch[job[y].repo]
            /\ switched'[y].left = tree'[job[y].repo]
            /\ switched'[y].exit = 0 => branch'[job[y].repo] = "main"
            /\ switched'[y] # Absent
        BY <2>4, SwitchFacts, AbsentAssumption
      <3>3. branch[job[y].repo] \in {before[y], "main"} /\ Proven(y, before[y])
        BY <3>1 DEF ExactInv
      <3>4. tree'[job[y].repo] = "dirty" => DirtySwitch'
        BY <3>2 DEF DirtySwitch
      <3>5. QED
        BY <3>1, <3>2, <3>3, <3>4 DEF ExactInv, Proven
    <2>5. CASE ReadBranchAfter(y) \/ CheckCleanAfter(y)
      <3>1. /\ UNCHANGED <<branch, tree, job, before, switched, disturbed>>
            /\ pc[y] \in {"switched", "onMain"} /\ switched[y] \in Switches
            /\ y \notin disturbed
        BY <2>5 DEF ReadBranchAfter, CheckCleanAfter, repoVars, SwitchInv
      <3>2. /\ switched[y].exit = 0 => branch[job[y].repo] = "main"
            /\ tree[job[y].repo] = "dirty" => DirtySwitch
            /\ switched[y] # Absent => /\ switched[y].from \in {before[y], "main"}
                                       /\ Proven(y, switched[y].from)
        BY <3>1 DEF ExactInv
      <3>3. CASE pc'[y] = "onMain"
        <4>1. verdict'[y] = Absent
          BY <2>5, <3>3 DEF ReadBranchAfter, CheckCleanAfter, Conclude, SwitchInv, TypeOK
        <4>2. QED
          BY <1>0, <3>1, <3>2, <3>3, <4>1 DEF ExactInv, Proven
      <3>4. CASE pc'[y] = "judged"
        <4>1. verdict'[y].run = "failure" /\ switched[y].exit = 0 => DirtySwitch
          BY <2>5, <3>1, <3>2, <3>4
          DEF ReadBranchAfter, CheckCleanAfter, Conclude, SwitchInv, TypeOK
        <4>2. QED
          BY <1>0, <3>1, <3>2, <3>4, <4>1 DEF ExactInv, Proven
      <3>5. QED
        BY <1>3, <2>5, <3>3, <3>4, Control
    <2>6. QED
      BY <1>3, <2>1, <2>2, <2>3, <2>4, <2>5 DEF Step
  <1>4. QED
    BY <1>1, <1>2, <1>3 DEF Next, Outsiders

-----------------------------------------------------------------------------
(* The inductive invariant holds initially and is preserved.                *)
LEMMA InvariantInit == Init => IInv
  <1> SUFFICES ASSUME Init PROVE IInv
    OBVIOUS
  <1>1. ASSUME NEW x \in Runner
        PROVE  /\ pc[x] = "start" /\ switched[x] = Absent /\ verdict[x] = Absent
               /\ seen[x] = "none"
    BY DEF Init, Evidence!Init
  <1>2. QED
    BY <1>1, TypeInit DEF IInv, AuthInv, Accepted, SwitchInv, ExactInv, SeenInv

(* Every step keeps the inductive invariant.                                *)
LEMMA InvariantStep == IInv /\ [Next]_vars => IInv'
  <1> SUFFICES ASSUME IInv, [Next]_vars PROVE IInv'
    OBVIOUS
  <1>1. TypeOK /\ \A x \in Runner : AuthInv(x) /\ SwitchInv(x) /\ ExactInv(x) /\ SeenInv(x)
    BY DEF IInv
  <1>2. TypeOK'
    BY <1>1, TypeStep
  <1>3. CASE UNCHANGED vars
    <2>1. ASSUME NEW y \in Runner
          PROVE  (AuthInv(y) /\ SwitchInv(y) /\ ExactInv(y) /\ SeenInv(y))'
      BY <1>1, <1>3
      DEF vars, repoVars, runVars, evidenceVars, AuthInv, Authorised, SwitchInv,
          ExactInv, Proven, DirtySwitch, SeenInv
    <2>2. QED
      BY <1>2, <2>1 DEF IInv
  <1>4. CASE Next
    <2>1. \A y \in Runner : AuthInv(y)'
      BY <1>1, <1>4, AuthStep
    <2>2. \A y \in Runner : SwitchInv(y)'
      BY <1>1, <1>4, SwitchStep
    <2>3. \A y \in Runner : ExactInv(y)'
      BY <1>1, <1>4, ExactStep
    <2>4. \A y \in Runner : SeenInv(y)'
      BY <1>1, <1>4, SeenStep
    <2>5. QED
      BY <1>2, <2>1, <2>2, <2>3, <2>4 DEF IInv
  <1>5. QED
    BY <1>3, <1>4

(* Every reachable state satisfies the inductive invariant.                 *)
THEOREM RunInvariant == Spec => []IInv
  <1>1. QED
    BY InvariantInit, InvariantStep, PTL DEF Spec

(* Type correctness of run_switch_main and its surroundings.                *)
THEOREM TypeCorrect == Spec => []TypeOK
  <1>1. IInv => TypeOK
    BY DEF IInv
  <1>2. QED
    BY <1>1, RunInvariant, PTL

(* No combination of artifacts gets a switch past the gates that was not    *)
(* approved and proven ready as such.                                      *)
THEOREM SwitchesAreAuthorised == Spec => []SwitchIsAuthorised
  <1>1. IInv => SwitchIsAuthorised
    BY DEF IInv, AuthInv, Authorised, SwitchIsAuthorised
  <1>2. QED
    BY <1>1, RunInvariant, PTL

(* Only main or the proven branch is left, also when runners compete.       *)
THEOREM LeavesProven == Spec => []LeavesOnlyProvenBranch
  <1>1. IInv => LeavesOnlyProvenBranch
    BY DEF IInv, ExactInv, Proven, LeavesOnlyProvenBranch
  <1>2. QED
    BY <1>1, RunInvariant, PTL

(* A run no outsider disturbs reports its switch right.                     *)
THEOREM UndisturbedIsExact == Spec => []UndisturbedVerdictIsExact
  <1>1. IInv => UndisturbedVerdictIsExact
    <2>1. SUFFICES ASSUME IInv, NEW x \in Runner \ disturbed, verdict[x] # Absent
                   PROVE  /\ switched[x].exit # 0 => verdict[x].run = "failure"
                          /\ verdict[x].postcheck = "passed" =>
                               /\ switched[x].exit = 0
                               /\ switched[x].from \in {before[x], "main"}
                          /\ verdict[x].run = "failure" /\ switched[x].exit = 0 =>
                               DirtySwitch
      BY DEF UndisturbedVerdictIsExact, DirtySwitch
    <2>2. switched[x] # Absent
      BY <2>1, AbsentAssumption DEF IInv, SwitchInv
    <2>3. QED
      BY <2>1, <2>2 DEF IInv, SwitchInv, ExactInv
  <1>2. QED
    BY <1>1, RunInvariant, PTL

(* Evidence is about switches, and a refused run has not switched.          *)
THEOREM EvidenceIsOfSwitches == Spec => []OnlySwitchesLeaveEvidence
  <1>1. IInv => OnlySwitchesLeaveEvidence
    BY DEF IInv, SwitchInv, SeenInv, OnlySwitchesLeaveEvidence
  <1>2. QED
    BY <1>1, RunInvariant, PTL

-----------------------------------------------------------------------------
(* Readiness and the gates of a switch are exact: of all combinations of a  *)
(* plan, a validation and a readiness, whatever plans, approvals and proofs *)
(* these were made from, they pass those and only those in which all are of *)
(* the one plan content, the approval binds it at the time of the          *)
(* validation, and the proof is complete: of the directory at hand, with   *)
(* main as default branch, a known branch whose lifecycle is proven unless *)
(* it is main, a clean worktree, a fresh origin/main and ownership         *)
(* (validate_switch_main_readiness, run_switch_main).                      *)
THEOREM SwitchGatesAreExact ==
  ASSUME NEW plan \in Plan, NEW vplan \in Plan, NEW rplan \in Plan,
         NEW approval \in Approval, NEW t \in ApprovalTimes,
         NEW proof \in Proof, NEW d \in Repo
  PROVE  SwitchGates(plan, ApprovalValidation(vplan, approval, t),
                     SwitchReadiness(rplan, proof), d)
         <=> /\ PlanAction[plan] = "switch-main"
             /\ vplan = plan /\ rplan = plan
             /\ ApprovalBinds(plan, approval, t)
             /\ proof.plan_ref = PlanId[plan]
             /\ proof.plan_action = "switch-main"
             /\ proof.sha = plan
             /\ proof.repo_toplevel = d
             /\ proof.default_branch = "main"
             /\ proof.current_branch # Absent
             /\ proof.current_branch # "main" => proof.lifecycle = "true"
             /\ proof.worktree_clean = "true" /\ proof.remote_main_fresh = "true"
             /\ proof.ownership_ok = "true"
  <1> DEFINE validation == ApprovalValidation(vplan, approval, t)
             readiness == SwitchReadiness(rplan, proof)
  <1>1. /\ validation.plan_ref = PlanId[vplan] /\ validation.sha = vplan
        /\ validation.action = approval.action
        /\ validation.binding_state = "binding_valid"
             <=> ApprovalBinds(vplan, approval, t)
    BY DEF ApprovalValidation, Sha
  <1>2. /\ readiness.plan_ref = PlanId[rplan] /\ readiness.action = PlanAction[rplan]
        /\ readiness.sha = IF proof.sha = rplan THEN rplan ELSE Absent
        /\ readiness.repo_toplevel = proof.repo_toplevel
        /\ readiness.status = "ready"
             <=> ~Contradicted(rplan, proof) /\ ~Unknown(proof)
    BY DEF SwitchReadiness, Sha
  <1>3. /\ proof.worktree_clean \in Claims /\ proof.remote_main_fresh \in Claims
        /\ proof.ownership_ok \in Claims /\ proof.lifecycle \in Claims
    BY SwitchAssumption
  <1>4. Absent # "main" /\ d # Absent /\ plan # Absent
    BY SwitchAssumption DEF Positions
  <1>5. ASSUME SwitchGates(plan, validation, readiness, d)
        PROVE  /\ PlanAction[plan] = "switch-main"
               /\ vplan = plan /\ rplan = plan
               /\ ApprovalBinds(plan, approval, t)
               /\ proof.plan_ref = PlanId[plan]
               /\ proof.plan_action = "switch-main"
               /\ proof.sha = plan
               /\ proof.repo_toplevel = d
               /\ proof.default_branch = "main"
               /\ proof.current_branch # Absent
               /\ proof.current_branch # "main" => proof.lifecycle = "true"
               /\ proof.worktree_clean = "true" /\ proof.remote_main_fresh = "true"
               /\ proof.ownership_ok = "true"
    <2>1. /\ PlanAction[plan] = "switch-main"
          /\ validation.binding_state = "binding_valid" /\ validation.sha = plan
          /\ readiness.status = "ready" /\ readiness.sha = plan
          /\ readiness.repo_toplevel = d
      BY <1>5 DEF SwitchGates, Sha
    <2>2. vplan = plan /\ ApprovalBinds(plan, approval, t)
      BY <1>1, <2>1
    <2>3. rplan = plan /\ proof.sha = plan /\ proof.repo_toplevel = d
      BY <1>2, <1>4, <2>1
    <2>4. ~Contradicted(plan, proof) /\ ~Unknown(proof)
      BY <1>2, <2>1, <2>3
    <2>5. /\ proof.plan_ref = PlanId[plan] /\ proof.plan_action = "switch-main"
          /\ proof.default_branch = "main" /\ proof.current_branch # Absent
      BY <2>1, <2>4 DEF Contradicted, Unknown
    <2>6. proof.current_branch # "main" => proof.lifecycle = "true"
      BY <1>3, <2>4, <2>5 DEF Contradicted, Unknown, Claims
    <2>7. /\ proof.worktree_clean = "true" /\ proof.remote_main_fresh = "true"
          /\ proof.ownership_ok = "true"
      BY <1>3, <2>4 DEF Contradicted, Unknown, Claims
    <2>8. QED
      BY <2>1, <2>2, <2>3, <2>5, <2>6, <2>7
  <1>6. ASSUME /\ PlanAction[plan] = "switch-main"
               /\ vplan = plan /\ rplan = plan
               /\ ApprovalBinds(plan, approval, t)
               /\ proof.plan_ref = PlanId[plan]
               /\ proof.plan_action = "switch-main"
               /\ proof.sha = plan
               /\ proof.repo_toplevel = d
               /\ proof.default_branch = "main"
               /\ proof.current_branch # Absent
               /\ proof.current_branch # "main" => proof.lifecycle = "true"
               /\ proof.worktree_clean = "true" /\ proof.remote_main_fresh = "true"
               /\ proof.ownership_ok = "true"
        PROVE  SwitchGates(plan, validation, readiness, d)
    <2>1. ~Contradicted(plan, proof)
      BY <1>6 DEF Contradicted, Sha
    <2>2. ~Unknown(proof)
      BY <1>4, <1>6 DEF Unknown
    <2>3. readiness.status = "ready"
      BY <1>2, <1>6, <2>1, <2>2
    <2>4. validation.binding_state = "binding_valid" /\ validation.action = "switch-main"
      BY <1>1, <1>6 DEF ApprovalBinds
    <2>5. QED
      BY <1>1, <1>2, <1>6, <2>3, <2>4 DEF SwitchGates, Sha
  <1>7. QED
    BY <1>5, <1>6

-----------------------------------------------------------------------------
(* What a run has on record belongs to its control point: inputs once it    *)
(* has accepted them, a branch once it has read one, a decided publication  *)
(* once it has ended, the whole evidence exactly when it has returned.      *)
AccountInv(x) ==
  /\ pc[x] = "start" => job[x] = Absent
  /\ pc[x] \in {"start", "accepted"} => before[x] = Absent
  /\ outcome[x] = "pending" <=> pc[x] \in Live
  /\ outcome[x] = "published" <=> pc[x] = "returned"
  /\ seen[x] = "all" <=> pc[x] = "returned"
  /\ pc[x] = "returned" => switched[x] # Absent /\ verdict[x] # Absent

(* The account of the runs: a run has returned exactly when its whole       *)
(* evidence is in place, and then it is evidence of a switch and a verdict. *)
RunsAccount ==
  \A x \in Runner :
     /\ pc[x] = "returned" <=> seen[x] = "all"
     /\ seen[x] = "all" => switched[x] # Absent /\ verdict[x] # Absent

(* What a run has recorded stands: its inputs, branch, switch and verdict   *)
(* are written once, and a run that has ended stays as it ended.            *)
RecordsStand ==
  \A x \in Runner :
     /\ job[x] # Absent => job'[x] = job[x]
     /\ before[x] # Absent => before'[x] = before[x]
     /\ switched[x] # Absent => switched'[x] = switched[x]
     /\ verdict[x] # Absent => verdict'[x] = verdict[x]
     /\ pc[x] \notin Live => /\ pc'[x] = pc[x] /\ outcome'[x] = outcome[x]
                             /\ seen'[x] = seen[x]

(* A step of a runner touches a repository only by its one switch, and only *)
(* the repository it was authorised for.                                    *)
TouchesBySwitching ==
  (\E z \in Runner : Step(z)) /\ <<branch, tree>>' # <<branch, tree>> =>
     \E x \in Runner :
        /\ switched[x] = Absent /\ switched'[x] # Absent
        /\ job'[x] = job[x] /\ Authorised(x)
        /\ \A d \in Repo \ {job[x].repo} : branch'[d] = branch[d] /\ tree'[d] = tree[d]

(* The publication of another run is left alone, too.                       *)
LEMMA OutcomeFrame ==
  ASSUME TypeOK, NEW x \in Runner, Step(x), NEW y \in Runner, y # x
  PROVE  outcome'[y] = outcome[y]
  BY DEF Step, AcceptInputs, Refuse, CheckClean, ReadBranch, Switch, ReadBranchAfter,
         CheckCleanAfter, WriteArtifacts, Kill, evidenceVars, TypeOK,
         Evidence!Expose, Evidence!Publish, Evidence!Withdraw, Evidence!Tear

(* The steps before the publication leave the publication alone.            *)
LEMMA WorkKeepsEvidence ==
  ASSUME NEW x \in Runner,
         AcceptInputs(x) \/ CheckClean(x) \/ ReadBranch(x) \/ Switch(x)
           \/ ReadBranchAfter(x) \/ CheckCleanAfter(x)
  PROVE  outcome' = outcome /\ seen' = seen
  BY DEF AcceptInputs, CheckClean, ReadBranch, Switch, ReadBranchAfter, CheckCleanAfter,
         evidenceVars

(* The account holds initially and every step keeps it.                     *)
LEMMA AccountInit == Init => \A x \in Runner : AccountInv(x)
  BY DEF Init, Evidence!Init, AccountInv, Live

(* Every step keeps the account of every runner.                           *)
LEMMA AccountStep ==
  ASSUME IInv, \A z \in Runner : AccountInv(z), Next, NEW y \in Runner
  PROVE  AccountInv(y)'
  <1>1. TypeOK /\ SwitchInv(y) /\ SeenInv(y) /\ AccountInv(y)
    BY DEF IInv
  <1>2. CASE Outsiders
    BY <1>1, <1>2, OutsidersFrame DEF AccountInv
  <1>3. ASSUME NEW x \in Runner, Step(x), y # x PROVE AccountInv(y)'
    BY <1>1, <1>3, StepFrame, OutcomeFrame DEF AccountInv
  <1>4. ASSUME Step(y) PROVE AccountInv(y)'
    <2>1. CASE AcceptInputs(y) \/ CheckClean(y) \/ ReadBranch(y) \/ Switch(y)
               \/ ReadBranchAfter(y) \/ CheckCleanAfter(y)
      <3>1. outcome' = outcome /\ seen' = seen
        BY <2>1, WorkKeepsEvidence
      <3>2. pc[y] \in Live \ {"judged"} /\ pc'[y] \in Live \ {"start"}
        BY <1>1, <1>4, <2>1, Control DEF Live
      <3>3. pc'[y] = "accepted" => before'[y] = Absent
        <4>1. CASE AcceptInputs(y)
          BY <1>1, <1>4, <4>1, Control DEF AcceptInputs, AccountInv
        <4>2. CASE ~AcceptInputs(y)
          BY <1>1, <1>4, <2>1, <4>2, Control
        <4>3. QED
          BY <4>1, <4>2
      <3>4. QED
        BY <1>1, <3>1, <3>2, <3>3 DEF AccountInv, Live
    <2>2. CASE Refuse(y) \/ Kill(y)
      <3>1. pc[y] \in Live /\ pc'[y] \in {"refused", "killed"}
        BY <1>1, <1>4, <2>2, Control DEF Live
      <3>2. outcome'[y] \in {"withdrawn", "torn"} /\ seen'[y] = seen[y]
        BY <1>1, <2>2 DEF Refuse, Kill, TypeOK, Evidence!Withdraw, Evidence!Tear
      <3>3. QED
        BY <1>1, <3>1, <3>2 DEF AccountInv, Live
    <2>3. CASE WriteArtifacts(y)
      <3>1. /\ job' = job /\ before' = before /\ switched' = switched
            /\ verdict' = verdict /\ pc[y] = "judged"
        BY <2>3 DEF WriteArtifacts
      <3>2. switched[y] # Absent /\ verdict[y] # Absent
        BY <1>1, <3>1, AbsentAssumption DEF SwitchInv
      <3>3. CASE Evidence!Expose(y) /\ UNCHANGED pc
        <4>1. outcome'[y] = outcome[y] /\ seen'[y] # "all"
          BY <1>1, <3>3 DEF Evidence!Expose, TypeOK
        <4>2. QED
          BY <1>1, <3>1, <3>3, <4>1 DEF AccountInv
      <3>4. CASE Evidence!Publish(y) /\ pc' = [pc EXCEPT ![y] = "returned"]
        <4>1. outcome'[y] = "published" /\ seen'[y] = "all" /\ pc'[y] = "returned"
          BY <1>1, <3>4 DEF Evidence!Publish, TypeOK
        <4>2. QED
          BY <3>1, <3>2, <4>1 DEF AccountInv, Live
      <3>5. CASE /\ Evidence!Withdraw(y) \/ Evidence!Tear(y)
                 /\ pc' = [pc EXCEPT ![y] = "raised"]
        <4>1. /\ outcome'[y] \in {"withdrawn", "torn"} /\ seen'[y] = seen[y]
              /\ pc'[y] = "raised"
          BY <1>1, <3>5 DEF Evidence!Withdraw, Evidence!Tear, TypeOK
        <4>2. QED
          BY <1>1, <3>1, <4>1 DEF AccountInv, Live
      <3>6. QED
        BY <2>3, <3>3, <3>4, <3>5 DEF WriteArtifacts
    <2>4. QED
      BY <1>4, <2>1, <2>2, <2>3 DEF Step
  <1>5. QED
    BY <1>2, <1>3, <1>4 DEF Next, Outsiders

(* Every reachable state keeps the account.                                *)
LEMMA AccountInvariant == Spec => [](\A x \in Runner : AccountInv(x))
  <1>1. IInv /\ (\A x \in Runner : AccountInv(x)) /\ [Next]_vars
          => (\A x \in Runner : AccountInv(x))'
    <2> SUFFICES ASSUME IInv, \A x \in Runner : AccountInv(x), [Next]_vars,
                        NEW y \in Runner
                 PROVE  AccountInv(y)'
      OBVIOUS
    <2>1. CASE Next
      BY <2>1, AccountStep
    <2>2. CASE UNCHANGED vars
      <3>1. AccountInv(y)
        OBVIOUS
      <3>2. QED
        BY <2>2, <3>1 DEF vars, runVars, evidenceVars, AccountInv
    <2>3. QED
      BY <2>1, <2>2
  <1>2. QED
    BY <1>1, AccountInit, RunInvariant, PTL DEF Spec

(* A step keeps the records that are there.                                *)
LEMMA StepKeepsRecords ==
  ASSUME IInv, NEW y \in Runner, AccountInv(y), Next
  PROVE  /\ job[y] # Absent => job'[y] = job[y]
         /\ before[y] # Absent => before'[y] = before[y]
         /\ switched[y] # Absent => switched'[y] = switched[y]
         /\ verdict[y] # Absent => verdict'[y] = verdict[y]
         /\ pc[y] \notin Live => /\ pc'[y] = pc[y] /\ outcome'[y] = outcome[y]
                                 /\ seen'[y] = seen[y]
  <1>1. TypeOK /\ SwitchInv(y)
    BY DEF IInv
  <1>2. CASE Outsiders
    BY <1>2, OutsidersFrame
  <1>3. ASSUME NEW x \in Runner, Step(x), y # x
        PROVE  /\ job'[y] = job[y] /\ before'[y] = before[y]
               /\ switched'[y] = switched[y] /\ verdict'[y] = verdict[y]
               /\ pc'[y] = pc[y] /\ outcome'[y] = outcome[y] /\ seen'[y] = seen[y]
    BY <1>1, <1>3, StepFrame, OutcomeFrame
  <1>4. CASE Step(y)
    <2>1. pc[y] \in Live
      BY <1>1, <1>4, Control DEF Live, Step
    <2>2. job[y] # Absent => job'[y] = job[y]
      BY <1>4 DEF Step, AccountInv, AcceptInputs, Refuse, CheckClean, ReadBranch, Switch,
                  ReadBranchAfter, CheckCleanAfter, WriteArtifacts, Kill
    <2>3. before[y] # Absent => before'[y] = before[y]
      BY <1>4 DEF Step, AccountInv, AcceptInputs, Refuse, CheckClean, ReadBranch, Switch,
                  ReadBranchAfter, CheckCleanAfter, WriteArtifacts, Kill
    <2>4. switched[y] # Absent => switched'[y] = switched[y]
      BY <1>1, <1>4 DEF Step, SwitchInv, AcceptInputs, Refuse, CheckClean, ReadBranch, Switch,
                  ReadBranchAfter, CheckCleanAfter, WriteArtifacts, Kill
    <2>5. verdict[y] # Absent => verdict'[y] = verdict[y]
      BY <1>1, <1>4 DEF Step, SwitchInv, AcceptInputs, Refuse, CheckClean, ReadBranch, Switch,
                  ReadBranchAfter, CheckCleanAfter, WriteArtifacts, Kill
    <2>6. QED
      BY <2>1, <2>2, <2>3, <2>4, <2>5
  <1>5. QED
    BY <1>2, <1>3, <1>4 DEF Next, Outsiders

(* A step of a runner that touches a repository is its first switch.         *)
LEMMA StepTouches ==
  ASSUME IInv, NEW x \in Runner, Step(x), <<branch, tree>>' # <<branch, tree>>
  PROVE  /\ switched[x] = Absent /\ switched'[x] # Absent
         /\ job'[x] = job[x] /\ Authorised(x)
         /\ \A d \in Repo \ {job[x].repo} : branch'[d] = branch[d] /\ tree'[d] = tree[d]
  <1>1. Switch(x)
    BY DEF Step, AcceptInputs, Refuse, CheckClean, ReadBranch, ReadBranchAfter,
           CheckCleanAfter, WriteArtifacts, Kill, repoVars
  <1>2. TypeOK /\ SwitchInv(x) /\ AuthInv(x) /\ TypeOK'
    BY InvariantStep DEF IInv, Next
  <1>3. pc[x] = "ready" /\ pc'[x] = "switched"
    BY <1>1, <1>2, Control
  <1>4. switched[x] = Absent /\ Authorised(x)
    BY <1>2, <1>3 DEF SwitchInv, AuthInv, Accepted
  <1>5. switched'[x] # Absent
    <2>1. SwitchInv(x)'
      BY InvariantStep DEF IInv, Next
    <2>2. QED
      BY <1>3, <2>1, AbsentAssumption DEF SwitchInv
  <1>6. \A d \in Repo \ {job[x].repo} : branch'[d] = branch[d] /\ tree'[d] = tree[d]
    BY <1>1, <1>2 DEF Switch, TypeOK
  <1>7. QED
    BY <1>1, <1>4, <1>5, <1>6 DEF Switch

(* The only step by which a runner touches a repository is the one switch   *)
(* it was authorised for; inputs, branch, switch and verdict are recorded   *)
(* once, an ended run is never resumed, and a run has returned exactly when *)
(* the whole evidence of a judged switch is in place.  What a    *)
(* returned run tells its caller is therefore true from then on.            *)
THEOREM RunsSwitchOnce ==
  Spec => [](RunsAccount) /\ [][RecordsStand /\ TouchesBySwitching]_vars
  <1>1. (\A x \in Runner : AccountInv(x)) => RunsAccount
    BY DEF AccountInv, RunsAccount
  <1>2. IInv /\ (\A x \in Runner : AccountInv(x)) /\ [Next]_vars
          => [RecordsStand /\ TouchesBySwitching]_vars
    <2> SUFFICES ASSUME IInv, \A x \in Runner : AccountInv(x), Next
                 PROVE  RecordsStand /\ TouchesBySwitching
      OBVIOUS
    <2>1. RecordsStand
      BY StepKeepsRecords DEF RecordsStand
    <2>2. TouchesBySwitching
      <3> SUFFICES ASSUME NEW x \in Runner, Step(x), <<branch, tree>>' # <<branch, tree>>
                   PROVE  \E z \in Runner :
                            /\ switched[z] = Absent /\ switched'[z] # Absent
                            /\ job'[z] = job[z] /\ Authorised(z)
                            /\ \A d \in Repo \ {job[z].repo} :
                                  branch'[d] = branch[d] /\ tree'[d] = tree[d]
        BY DEF TouchesBySwitching
      <3>1. QED
        BY StepTouches
    <2>3. QED
      BY <2>1, <2>2
  <1>3. QED
    BY <1>1, <1>2, AccountInvariant, RunInvariant, PTL DEF Spec
===============================================================================
