--------------------------- MODULE GitPullRun_proofs ---------------------------
(* Every pull is covered by the artifacts that were supplied, and what a    *)
(* run says of its pull is right, for any number of runners, repositories, *)
(* plans, approvals, chains and pushes.                                    *)
EXTENDS GitPullRun, TLAPS

(* What the gates have established about the inputs of x.                   *)
Authorised(x) ==
  /\ job[x] \in Jobs
  /\ Policy[x]
  /\ PlanAction[job[x].plan] = "git-pull-ff-only"
  /\ job[x].approval.decision = "approved"
  /\ job[x].approval.sha = job[x].plan
  /\ job[x].approval.decided_at <= job[x].checked_at
  /\ job[x].checked_at < job[x].approval.expires_at
  /\ job[x].chain \in chains /\ job[x].chain.status = "valid"
  /\ job[x].chain.proof = ProofMaterial(job[x].plan, job[x].repo)

Accepted == {"accepted", "clean", "ready", "pulled", "moved", "judged"}

AuthInv(x) == pc[x] \in Accepted \/ pulled[x] # Absent => Authorised(x)

(* What a pull that exited with 0 lets one tell: it was a fast-forward if it *)
(* moved HEAD, and if English was spoken without the wording.               *)
Told(x, p) ==
  p.exit = 0 /\ (p.to # p.from \/ (x \in EnglishGit /\ ~p.recognised))
    => OwnFastForward(p)

(* Which records a runner has at which control point, and what they say.    *)
PullInv(x) ==
  /\ pc[x] \in {"start", "accepted", "clean", "ready", "refused"} => pulled[x] = Absent
  /\ pc[x] \in {"pulled", "moved", "judged"} => pulled[x] \in Pulls
  /\ pulled[x] \in Pulls => Told(x, pulled[x])
  /\ pc[x] = "moved" => pulled[x].exit = 0 /\ ~pulled[x].recognised
  /\ pc[x] \in {"start", "accepted", "clean", "ready", "pulled", "moved", "refused"}
       => verdict[x] = Absent
  /\ pc[x] = "judged" => verdict[x] \in Verdicts
  /\ verdict[x] # Absent =>
       /\ pulled[x] \in Pulls
       /\ verdict[x].postcheck = "passed"
            => pulled[x].exit = 0 /\ ~pulled[x].recognised

(* What a runner may rely on while nobody disturbs it.                      *)
ExactInv(x) ==
  x \notin disturbed =>
    /\ pc[x] \in {"clean", "ready"} => tree[job[x].repo] = "clean"
    /\ pc[x] = "ready" => before[x] = head[job[x].repo]
    /\ pc[x] \in {"pulled", "moved"} => tree[job[x].repo] = pulled[x].left
    /\ pc[x] = "pulled" => head[job[x].repo] = pulled[x].to
    /\ pc[x] = "moved" => pulled[x].to # pulled[x].from
    /\ pulled[x] # Absent => /\ pulled[x].tree = "clean"
                             /\ pulled[x].from = before[x]
    /\ pulled[x] # Absent /\ verdict[x] # Absent =>
         /\ verdict[x].postcheck = "passed" => pulled[x].to # pulled[x].from
         /\ pulled[x].exit # 0 => verdict[x].run = "failure"
         /\ verdict[x].run = "failure" => pulled[x].exit # 0 \/ pulled[x].left = "dirty"
         /\ verdict[x].postcheck = "passed" => pulled[x].exit = 0 /\ pulled[x].left = "clean"

(* No artifact is visible before the verdict.                               *)
SeenInv(x) ==
  /\ pc[x] \in {"start", "accepted", "clean", "ready", "pulled", "moved", "refused"}
       => seen[x] = "none"
  /\ seen[x] # "none" => pulled[x] # Absent /\ verdict[x] # Absent

(* The inductive invariant.                                                *)
IInv == /\ TypeOK
        /\ \A x \in Runner : AuthInv(x) /\ PullInv(x) /\ ExactInv(x) /\ SeenInv(x)

-----------------------------------------------------------------------------
(* The gates establish the authorisation: whatever plans the validation and *)
(* the binding were made for, and whatever chains were combined.            *)
LEMMA GatesAuthorise ==
  ASSUME NEW plan \in Plan, NEW vplan \in Plan, NEW bplan \in Plan,
         NEW approval \in Approval, NEW t \in ApprovalTimes,
         NEW chain \in Chains, NEW bchain \in Chains, NEW d \in Repo,
         PullGates(plan, ApprovalValidation(vplan, approval, t), chain,
                   PreflightBinding(bplan, bchain), d),
         chain.proof = RunProof[chain.chain_id],
         bchain.proof = RunProof[bchain.chain_id]
  PROVE  /\ PlanAction[plan] = "git-pull-ff-only"
         /\ approval.decision = "approved"
         /\ approval.sha = plan
         /\ approval.decided_at <= t /\ t < approval.expires_at
         /\ chain.status = "valid"
         /\ chain.proof = ProofMaterial(plan, d)
  <1> DEFINE validation == ApprovalValidation(vplan, approval, t)
             binding == PreflightBinding(bplan, bchain)
  <1>1. /\ PlanAction[plan] = "git-pull-ff-only"
        /\ validation.sha = plan
        /\ binding.binding_state = "binding_valid"
        /\ ProofMatches(binding.proof, plan)
        /\ chain.proof # Absent
        /\ chain.proof.repo_toplevel = binding.proof.repo_toplevel
        /\ d = binding.proof.repo_toplevel
        /\ BindingRefersTo(plan, chain, binding)
        /\ Readiness(plan, validation, chain, binding) = "ready"
    BY DEF PullGates, Sha
  <1>2. vplan = plan
    BY <1>1 DEF ApprovalValidation, Sha
  <1>3. validation.binding_state = "binding_valid" /\ chain.status = "valid"
    <2>1. /\ validation.binding_state = "binding_valid"
          /\ chain.status # "invalid" /\ chain.status # "inconclusive"
      BY <1>1 DEF Readiness
    <2>2. QED
      BY <2>1 DEF Chains
  <1>4. ApprovalBinds(vplan, approval, t)
    BY <1>3 DEF ApprovalValidation
  <1>5. /\ approval.decision = "approved" /\ approval.sha = plan
        /\ approval.decided_at <= t /\ t < approval.expires_at
    BY <1>2, <1>4 DEF ApprovalBinds, Sha
  <1>6. binding.chain_ref = bchain.chain_id /\ binding.proof = bchain.proof
    BY DEF PreflightBinding
  <1>7. chain.chain_id = bchain.chain_id
    <2>1. CASE binding = Absent
      <3>1. PlanBindingProven(plan, chain, binding)
        BY <1>1 DEF Readiness
      <3>2. chain.action = "git-pull-ff-only"
        BY <1>1, <2>1, <3>1 DEF PlanBindingProven
      <3>3. QED
        BY <3>2 DEF Chains
    <2>2. CASE binding # Absent
      BY <2>2, <1>1, <1>6 DEF BindingRefersTo
    <2>3. QED
      BY <2>1, <2>2
  <1>8. chain.proof = binding.proof
    BY <1>6, <1>7
  <1>9. chain.proof = ProofMaterial(plan, d)
    <2>1. chain.chain_id \in PreRun
      BY DEF Chains
    <2>2. chain.proof \in {ProofMaterial(p, e) : p \in Plan, e \in Toplevel}
      BY <1>1, <2>1, PullAssumption
    <2>3. PICK p \in Plan, e \in Toplevel : chain.proof = ProofMaterial(p, e)
      BY <2>2
    <2>4. p = plan
      BY <1>1, <1>8, <2>3 DEF ProofMatches, ProofMaterial, Sha
    <2>5. e = d
      BY <1>1, <1>8, <2>3 DEF ProofMaterial
    <2>6. QED
      BY <2>3, <2>4, <2>5
  <1>10. QED
    BY <1>1, <1>3, <1>5, <1>9

-----------------------------------------------------------------------------
(* The type invariant holds initially.                                     *)
LEMMA TypeInit == Init => TypeOK
  BY PullAssumption
  DEF Init, TypeOK, Evidence!Init, Evidence!Outcomes, Evidence!Extents, Heads,
      Times, Trees, Phases, Live

(* The publication keeps to its types.                                     *)
LEMMA EvidenceTypes ==
  ASSUME NEW x \in Runner,
         outcome \in [Runner -> Evidence!Outcomes], seen \in [Runner -> Evidence!Extents],
         Evidence!Expose(x) \/ Evidence!Publish(x) \/ Evidence!Withdraw(x)
           \/ Evidence!Tear(x)
  PROVE  outcome' \in [Runner -> Evidence!Outcomes] /\ seen' \in [Runner -> Evidence!Extents]
  BY DEF Evidence!Outcomes, Evidence!Extents, Evidence!Expose, Evidence!Publish,
         Evidence!Withdraw, Evidence!Tear

(* Inputs that pass are well-formed and authorised.                         *)
LEMMA AcceptanceAuthorises ==
  ASSUME TypeOK, NEW x \in Runner, AcceptInputs(x)
  PROVE  /\ Authorised(x)'
         /\ job' \in [Runner -> Jobs \cup {Absent}]
         /\ \A y \in Runner \ {x} : job'[y] = job[y]
  <1>1. PICK plan \in Plan, vplan \in Plan, bplan \in Plan, approval \in Approval,
             t \in ApprovalTimes, chain \in chains, bchain \in chains, d \in Repo :
          /\ PullGates(plan, ApprovalValidation(vplan, approval, t), chain,
                       PreflightBinding(bplan, bchain), d)
          /\ job' = [job EXCEPT ![x] = [plan |-> plan, approval |-> approval,
                                        checked_at |-> t, chain |-> chain, repo |-> d]]
    BY DEF AcceptInputs
  <1>2. /\ chain \in Chains /\ bchain \in Chains
        /\ chain.proof = RunProof[chain.chain_id]
        /\ bchain.proof = RunProof[bchain.chain_id]
    BY DEF TypeOK
  <1>3. /\ PlanAction[plan] = "git-pull-ff-only"
        /\ approval.decision = "approved"
        /\ approval.sha = plan
        /\ approval.decided_at <= t /\ t < approval.expires_at
        /\ chain.status = "valid"
        /\ chain.proof = ProofMaterial(plan, d)
    BY <1>1, <1>2, GatesAuthorise
  <1> DEFINE j == [plan |-> plan, approval |-> approval, checked_at |-> t,
                   chain |-> chain, repo |-> d]
  <1>4. j \in Jobs
    BY <1>2 DEF Jobs
  <1>5. job \in [Runner -> Jobs \cup {Absent}]
    BY DEF TypeOK
  <1>6. /\ job'[x] = j /\ job' \in [Runner -> Jobs \cup {Absent}]
        /\ \A y \in Runner \ {x} : job'[y] = job[y]
    <2> HIDE DEF j
    <2> QED
      BY <1>1, <1>4, <1>5 DEF j
  <1>7. Policy[x] /\ chains' = chains
    BY DEF AcceptInputs
  <1>8. QED
    BY <1>3, <1>4, <1>6, <1>7 DEF Authorised

(* The type invariant is preserved by every step of a run that is           *)
(* authorised when it acts on its repository.                              *)
LEMMA TypeStep ==
  ASSUME TypeOK, \A x \in Runner : AuthInv(x), [Next]_vars
  PROVE  TypeOK'
  <1> USE DEF Phases, Live
  <1>1. CASE UNCHANGED vars
    BY <1>1 DEF TypeOK, vars
  <1>2. CASE Tick
    BY <1>2, PullAssumption DEF Tick, TypeOK, Times, repoVars, runVars, evidenceVars
  <1>3. CASE SupplyChain
    <2>1. PICK r \in PreRun, s \in {"valid", "invalid", "inconclusive"} :
            chains' = chains \cup
              {[chain_id |-> r, action |-> "git-status-read-only",
                plan_ref |-> "status-plan", status |-> s, proof |-> RunProof[r]]}
      BY <1>3 DEF SupplyChain
    <2>2. chains' \subseteq Chains /\ \A c \in chains' : c.proof = RunProof[c.chain_id]
      BY <2>1 DEF TypeOK, Chains
    <2>3. QED
      BY <1>3, <2>2 DEF SupplyChain, TypeOK, repoVars, runVars, evidenceVars
  <1>4. ASSUME NEW d \in Repo, Edit(d) \/ MoveHead(d) \/ Push(d) PROVE TypeOK'
    <2>1. CASE Edit(d)
      BY <2>1 DEF Edit, TypeOK, Watching, runVars, evidenceVars
    <2>2. CASE MoveHead(d)
      BY <2>2 DEF MoveHead, TypeOK, Watching, runVars, evidenceVars
    <2>3. CASE Push(d)
      <3>1. tip' \in [Repo -> 0..MaxTip] /\ \A e \in Repo : tip[e] <= tip'[e]
        BY <2>3, PullAssumption DEF Push, TypeOK
      <3>2. \A e \in Repo : head[e].up <= tip'[e]
        BY <3>1, PullAssumption DEF TypeOK, Heads
      <3>3. QED
        BY <2>3, <3>1, <3>2 DEF Push, TypeOK, repoVars, runVars, evidenceVars
    <2>4. QED
      BY <1>4, <2>1, <2>2, <2>3
  <1>5. ASSUME NEW x \in Runner, Step(x) PROVE TypeOK'
    <2>1. CASE AcceptInputs(x)
      <3>1. job' \in [Runner -> Jobs \cup {Absent}]
        BY <2>1, AcceptanceAuthorises
      <3>2. QED
        BY <2>1, <3>1 DEF AcceptInputs, TypeOK, repoVars, evidenceVars
    <2>2. CASE Refuse(x)
      BY <2>2, EvidenceTypes DEF Refuse, TypeOK, repoVars
    <2>3. CASE CheckClean(x)
      BY <2>3 DEF CheckClean, TypeOK, repoVars, evidenceVars
    <2>4. CASE ReadHead(x)
      <3>1. job[x].repo \in Repo
        BY <2>4 DEF ReadHead, AuthInv, Accepted, Authorised, Jobs
      <3>2. QED
        BY <2>4, <3>1 DEF ReadHead, TypeOK, repoVars, evidenceVars
    <2>5. CASE Pull(x)
      <3> DEFINE d == job[x].repo
      <3>1. d \in Repo
        BY <2>5 DEF Pull, AuthInv, Accepted, Authorised, Jobs
      <3>2. PICK exit \in {0, 1}, recognised \in BOOLEAN, to \in Heads, left \in Trees :
              /\ PullEffect(x, d, exit, recognised, to, left)
              /\ head' = [head EXCEPT ![d] = to]
              /\ tree' = [tree EXCEPT ![d] = left]
              /\ pulled' = [pulled EXCEPT ![x] =
                              [at |-> now, exit |-> exit, recognised |-> recognised,
                               from |-> head[d], to |-> to, tree |-> tree[d],
                               left |-> left]]
              /\ disturbed' = IF to = head[d] THEN disturbed
                              ELSE disturbed \cup (Watching(d) \ {x})
        BY <2>5 DEF Pull
      <3>3. to.up <= tip[d]
        BY <3>1, <3>2 DEF PullEffect, FastForwards, TypeOK, Heads
      <3>4. /\ head' \in [Repo -> Heads] /\ tip' = tip
            /\ \A e \in Repo : head'[e].up <= tip'[e]
        BY <2>5, <3>1, <3>2, <3>3 DEF Pull, TypeOK
      <3>5. [at |-> now, exit |-> exit, recognised |-> recognised, from |-> head[d],
             to |-> to, tree |-> tree[d], left |-> left] \in Pulls
        BY <3>1, <3>2 DEF TypeOK, Pulls
      <3>6. pulled' \in [Runner -> Pulls \cup {Absent}]
        BY <3>2, <3>5 DEF TypeOK
      <3>7. tree' \in [Repo -> Trees] /\ disturbed' \subseteq Runner
        BY <3>1, <3>2 DEF TypeOK, Watching
      <3>8. QED
        BY <2>5, <3>4, <3>6, <3>7 DEF Pull, TypeOK, evidenceVars
    <2>6. CASE ReadHeadAfter(x)
      BY <2>6 DEF ReadHeadAfter, Conclude, Verdicts, TypeOK, repoVars, evidenceVars
    <2>7. CASE CheckCleanAfter(x)
      BY <2>7 DEF CheckCleanAfter, Conclude, Verdicts, TypeOK, repoVars, evidenceVars
    <2>8. CASE WriteArtifacts(x)
      <3>1. outcome' \in [Runner -> Evidence!Outcomes] /\ seen' \in [Runner -> Evidence!Extents]
        BY <2>8, EvidenceTypes DEF WriteArtifacts, TypeOK
      <3>2. pc' \in [Runner -> Phases]
        BY <2>8 DEF WriteArtifacts, TypeOK
      <3>3. QED
        BY <2>8, <3>1, <3>2 DEF WriteArtifacts, TypeOK, repoVars
    <2>9. CASE Kill(x)
      BY <2>9, EvidenceTypes DEF Kill, TypeOK, repoVars
    <2>10. QED
      BY <1>5, <2>1, <2>2, <2>3, <2>4, <2>5, <2>6, <2>7, <2>8, <2>9 DEF Step
  <1>6. QED
    BY <1>1, <1>2, <1>3, <1>4, <1>5 DEF Next

-----------------------------------------------------------------------------
(* What the surroundings do, and what one run leaves alone.                 *)
Surroundings ==
  Tick \/ SupplyChain \/ \E d \in Repo : Edit(d) \/ MoveHead(d) \/ Push(d)

(* The surroundings leave the runners' own state alone; chains are only     *)
(* added.                                                                   *)
LEMMA SurroundingsFrame ==
  ASSUME Surroundings
  PROVE  /\ UNCHANGED <<pc, job, before, pulled, verdict, outcome, seen>>
         /\ chains \subseteq chains'
         /\ disturbed \subseteq disturbed'
  BY DEF Surroundings, Tick, SupplyChain, Edit, MoveHead, Push, runVars, evidenceVars

(* A step of one runner leaves the state of another alone.                  *)
LEMMA StepFrame ==
  ASSUME TypeOK, NEW x \in Runner, Step(x), NEW y \in Runner, y # x
  PROVE  /\ pc'[y] = pc[y] /\ job'[y] = job[y] /\ before'[y] = before[y]
         /\ pulled'[y] = pulled[y] /\ verdict'[y] = verdict[y]
         /\ seen'[y] = seen[y]
         /\ chains' = chains /\ disturbed \subseteq disturbed'
  <1>1. CASE AcceptInputs(x)
    BY <1>1, AcceptanceAuthorises DEF AcceptInputs, TypeOK, evidenceVars
  <1>2. CASE Refuse(x) \/ Kill(x)
    BY <1>2 DEF Refuse, Kill, TypeOK, Evidence!Withdraw, Evidence!Tear
  <1>3. CASE CheckClean(x) \/ ReadHead(x)
    BY <1>3 DEF CheckClean, ReadHead, TypeOK, evidenceVars
  <1>4. CASE Pull(x)
    BY <1>4 DEF Pull, TypeOK, evidenceVars
  <1>5. CASE ReadHeadAfter(x) \/ CheckCleanAfter(x)
    BY <1>5 DEF ReadHeadAfter, CheckCleanAfter, Conclude, TypeOK, evidenceVars
  <1>6. CASE WriteArtifacts(x)
    BY <1>6 DEF WriteArtifacts, TypeOK, Evidence!Expose, Evidence!Publish,
                Evidence!Withdraw, Evidence!Tear
  <1>7. QED
    BY <1>1, <1>2, <1>3, <1>4, <1>5, <1>6 DEF Step

(* The control points a step of x goes from and to.                         *)
LEMMA Control ==
  ASSUME TypeOK, NEW x \in Runner, Step(x)
  PROVE  /\ AcceptInputs(x) => pc[x] = "start" /\ pc'[x] = "accepted"
         /\ Refuse(x) => pc[x] \in {"start", "accepted", "clean"} /\ pc'[x] = "refused"
         /\ CheckClean(x) => pc[x] = "accepted" /\ pc'[x] = "clean"
         /\ ReadHead(x) => pc[x] = "clean" /\ pc'[x] = "ready"
         /\ Pull(x) => pc[x] = "ready" /\ pc'[x] = "pulled"
         /\ ReadHeadAfter(x) => pc[x] = "pulled" /\ pc'[x] \in {"judged", "moved"}
         /\ CheckCleanAfter(x) => pc[x] = "moved" /\ pc'[x] = "judged"
         /\ WriteArtifacts(x) => pc[x] = "judged" /\ pc'[x] \in {"judged", "returned", "raised"}
         /\ Kill(x) => pc[x] \in Live /\ pc'[x] = "killed"
  BY DEF TypeOK, AcceptInputs, Refuse, CheckClean, ReadHead, Pull, ReadHeadAfter,
         CheckCleanAfter, Conclude, WriteArtifacts, Kill

(* The authorisation of a runner is never lost.                             *)
LEMMA AuthStep ==
  ASSUME TypeOK, \A z \in Runner : AuthInv(z), Next, NEW y \in Runner
  PROVE  AuthInv(y)'
  <1> USE DEF AuthInv, Accepted
  <1>1. CASE Surroundings
    BY <1>1, SurroundingsFrame DEF Authorised
  <1>2. ASSUME NEW x \in Runner, Step(x), y # x PROVE AuthInv(y)'
    BY <1>2, StepFrame DEF Authorised
  <1>3. ASSUME Step(y) PROVE AuthInv(y)'
    <2>1. CASE AcceptInputs(y)
      BY <2>1, AcceptanceAuthorises
    <2>2. CASE ~AcceptInputs(y)
      <3>1. job' = job /\ chains' = chains
        BY <1>3, <2>2 DEF Step, Refuse, CheckClean, ReadHead, Pull, ReadHeadAfter,
                          CheckCleanAfter, WriteArtifacts, Kill
      <3>2. pc'[y] \in Accepted \/ pulled'[y] # Absent => Authorised(y)
        <4>1. CASE Pull(y)
          BY <4>1 DEF Pull
        <4>2. CASE ~Pull(y)
          <5>1. pulled' = pulled
            BY <1>3, <2>2, <4>2 DEF Step, Refuse, CheckClean, ReadHead, ReadHeadAfter,
                                    CheckCleanAfter, WriteArtifacts, Kill
          <5>2. pc'[y] \in Accepted => pc[y] \in Accepted
            BY <1>3, <2>2, <4>2, Control DEF Step
          <5>3. QED
            BY <5>1, <5>2
        <4>3. QED
          BY <4>1, <4>2
      <3>3. QED
        BY <3>1, <3>2 DEF Authorised
    <2>3. QED
      BY <2>1, <2>2
  <1>4. QED
    BY <1>1, <1>2, <1>3 DEF Next, Surroundings

(* What the records of a runner say stays true.                             *)
LEMMA PullStep ==
  ASSUME TypeOK, \A z \in Runner : AuthInv(z) /\ PullInv(z), Next, TypeOK',
         NEW y \in Runner
  PROVE  PullInv(y)'
  <1>1. CASE Surroundings
    BY <1>1, SurroundingsFrame DEF PullInv
  <1>2. ASSUME NEW x \in Runner, Step(x), y # x PROVE PullInv(y)'
    BY <1>2, StepFrame DEF PullInv
  <1>3. ASSUME Step(y) PROVE PullInv(y)'
    <2>1. CASE AcceptInputs(y) \/ Refuse(y) \/ CheckClean(y) \/ ReadHead(y)
               \/ WriteArtifacts(y) \/ Kill(y)
      <3>1. pulled' = pulled /\ verdict' = verdict
        BY <2>1 DEF AcceptInputs, Refuse, CheckClean, ReadHead, WriteArtifacts, Kill
      <3>2. QED
        BY <1>3, <2>1, <3>1, Control DEF PullInv
    <2>2. CASE Pull(y)
      <3> DEFINE d == job[y].repo
      <3>1. d \in Repo
        BY <2>2 DEF Pull, AuthInv, Accepted, Authorised, Jobs
      <3>2. PICK exit \in {0, 1}, recognised \in BOOLEAN, to \in Heads, left \in Trees :
              /\ PullEffect(y, d, exit, recognised, to, left)
              /\ head' = [head EXCEPT ![d] = to]
              /\ tree' = [tree EXCEPT ![d] = left]
              /\ pulled' = [pulled EXCEPT ![y] =
                              [at |-> now, exit |-> exit, recognised |-> recognised,
                               from |-> head[d], to |-> to, tree |-> tree[d],
                               left |-> left]]
              /\ disturbed' = IF to = head[d] THEN disturbed
                              ELSE disturbed \cup (Watching(d) \ {y})
        BY <2>2 DEF Pull
      <3>3. pulled'[y] = [at |-> now, exit |-> exit, recognised |-> recognised,
                          from |-> head[d], to |-> to, tree |-> tree[d], left |-> left]
        BY <3>2 DEF TypeOK
      <3>4. pulled'[y] \in Pulls
        BY <3>1, <3>3 DEF TypeOK, Pulls
      <3>5. Told(y, pulled'[y])
        <4>1. SUFFICES ASSUME exit = 0, to # head[d] \/ (y \in EnglishGit /\ ~recognised)
                       PROVE  head[d].own = 0 /\ to.own = 0 /\ head[d].up < to.up
          BY <3>3 DEF Told, OwnFastForward
        <4>2. FastForwards(d) /\ to = [head[d] EXCEPT !.up = tip[d]]
          BY <3>2, <4>1 DEF PullEffect, IsAlreadyUpToDateOutput
        <4>3. head[d] \in [up : 0..MaxTip, own : 0..MaxOwn]
          BY <3>1 DEF TypeOK, Heads
        <4>4. to.own = head[d].own /\ to.up = tip[d]
          BY <4>2, <4>3
        <4>5. QED
          BY <4>2, <4>4 DEF FastForwards
      <3>6. verdict'[y] = Absent /\ pc'[y] = "pulled"
        BY <2>2 DEF Pull, PullInv, TypeOK
      <3>7. QED
        BY <3>4, <3>5, <3>6 DEF PullInv
    <2>3. CASE ReadHeadAfter(y) \/ CheckCleanAfter(y)
      <3>1. /\ pulled'[y] = pulled[y] /\ pulled[y] \in Pulls
            /\ Told(y, pulled[y])
        BY <2>3 DEF ReadHeadAfter, CheckCleanAfter, PullInv
      <3>2. CASE pc'[y] = "moved"
        BY <2>3, <3>1, <3>2 DEF ReadHeadAfter, CheckCleanAfter, Conclude, PullInv, TypeOK
      <3>3. CASE pc'[y] = "judged"
        <4>1. /\ verdict'[y] \in Verdicts
              /\ verdict'[y].postcheck = "passed"
                   => pulled[y].exit = 0 /\ ~pulled[y].recognised
          BY <2>3, <3>3 DEF ReadHeadAfter, CheckCleanAfter, Conclude, PullInv, TypeOK,
                            Verdicts
        <4>2. QED
          BY <3>1, <3>3, <4>1 DEF PullInv
      <3>4. QED
        BY <1>3, <2>3, <3>2, <3>3, Control
    <2>4. QED
      BY <1>3, <2>1, <2>2, <2>3 DEF Step
  <1>4. QED
    BY <1>1, <1>2, <1>3 DEF Next, Surroundings

(* No artifact becomes visible too early.                                   *)
LEMMA SeenStep ==
  ASSUME TypeOK, \A z \in Runner : PullInv(z) /\ SeenInv(z), Next, NEW y \in Runner
  PROVE  SeenInv(y)'
  <1>1. CASE Surroundings
    BY <1>1, SurroundingsFrame DEF SeenInv
  <1>2. ASSUME NEW x \in Runner, Step(x), y # x PROVE SeenInv(y)'
    BY <1>2, StepFrame DEF SeenInv
  <1>3. ASSUME Step(y) PROVE SeenInv(y)'
    <2>1. CASE AcceptInputs(y) \/ CheckClean(y) \/ ReadHead(y) \/ Pull(y)
               \/ ReadHeadAfter(y) \/ CheckCleanAfter(y)
      <3>1. seen' = seen
        BY <2>1 DEF AcceptInputs, CheckClean, ReadHead, Pull, ReadHeadAfter,
                    CheckCleanAfter, evidenceVars
      <3>2. seen[y] = "none"
        BY <1>3, <2>1, Control DEF SeenInv
      <3>3. QED
        BY <3>1, <3>2 DEF SeenInv
    <2>2. CASE Refuse(y) \/ Kill(y)
      BY <1>3, <2>2, Control
      DEF Refuse, Kill, SeenInv, Evidence!Withdraw, Evidence!Tear
    <2>3. CASE WriteArtifacts(y)
      <3>1. pulled' = pulled /\ verdict' = verdict
        BY <2>3 DEF WriteArtifacts
      <3>2. pulled[y] # Absent /\ verdict[y] # Absent
        BY <2>3, AbsentAssumption DEF WriteArtifacts, PullInv
      <3>3. QED
        BY <1>3, <2>3, <3>1, <3>2, Control DEF SeenInv
    <2>4. QED
      BY <1>3, <2>1, <2>2, <2>3 DEF Step
  <1>4. QED
    BY <1>1, <1>2, <1>3 DEF Next, Surroundings

(* Others take away what a runner relies on only by disturbing it: a pull   *)
(* that does not move HEAD leaves the worktree alone, too.                  *)
LEMMA OthersDisturb ==
  ASSUME TypeOK, NEW x \in Runner, Step(x), \A z \in Runner : AuthInv(z),
         NEW y \in Runner, y # x, y \notin disturbed',
         pc[y] \in {"clean", "ready", "pulled", "moved"}
  PROVE  head'[job[y].repo] = head[job[y].repo] /\ tree'[job[y].repo] = tree[job[y].repo]
  <1>1. CASE Pull(x)
    <2> DEFINE d == job[x].repo
    <2>1. d \in Repo /\ job[y].repo \in Repo
      BY <1>1 DEF Pull, AuthInv, Accepted, Authorised, Jobs
    <2>2. PICK exit \in {0, 1}, recognised \in BOOLEAN, to \in Heads, left \in Trees :
            /\ PullEffect(x, d, exit, recognised, to, left)
            /\ head' = [head EXCEPT ![d] = to]
            /\ tree' = [tree EXCEPT ![d] = left]
            /\ pulled' = [pulled EXCEPT ![x] =
                            [at |-> now, exit |-> exit, recognised |-> recognised,
                             from |-> head[d], to |-> to, tree |-> tree[d],
                             left |-> left]]
            /\ disturbed' = IF to = head[d] THEN disturbed
                            ELSE disturbed \cup (Watching(d) \ {x})
      BY <1>1 DEF Pull
    <2>3. CASE job[y].repo = d
      <3>1. y \in Watching(d)
        BY <2>3 DEF Watching
      <3>2. to = head[d]
        BY <2>2, <3>1
      <3>3. ~(FastForwards(d) /\ to = [head[d] EXCEPT !.up = tip[d]])
        <4>1. SUFFICES ASSUME FastForwards(d), to = [head[d] EXCEPT !.up = tip[d]]
                       PROVE  FALSE
          OBVIOUS
        <4>2. head[d] \in [up : 0..MaxTip, own : 0..MaxOwn] /\ tip[d] \in 0..MaxTip
          BY <2>1 DEF TypeOK, Heads
        <4>3. to.up = tip[d] /\ head[d].up < tip[d]
          BY <4>1, <4>2 DEF FastForwards
        <4>4. QED
          BY <3>2, <4>2, <4>3, PullAssumption
      <3>4. left = tree[d]
        BY <2>2, <3>3 DEF PullEffect
      <3>5. QED
        BY <2>1, <2>2, <2>3, <3>2, <3>4 DEF TypeOK
    <2>4. CASE job[y].repo # d
      BY <2>1, <2>2, <2>4 DEF TypeOK
    <2>5. QED
      BY <2>3, <2>4
  <1>2. CASE ~Pull(x)
    <2>1. head' = head /\ tree' = tree
      BY <1>2 DEF Step, AcceptInputs, Refuse, CheckClean, ReadHead, ReadHeadAfter,
                  CheckCleanAfter, WriteArtifacts, Kill, repoVars
    <2>2. QED
      BY <2>1
  <1>3. QED
    BY <1>1, <1>2

(* What an undisturbed runner relies on stays true.                         *)
LEMMA ExactStep ==
  ASSUME TypeOK, \A z \in Runner : AuthInv(z) /\ PullInv(z) /\ ExactInv(z), Next,
         NEW y \in Runner
  PROVE  ExactInv(y)'
  <1> SUFFICES ASSUME y \notin disturbed' PROVE ExactInv(y)'
    BY DEF ExactInv
  <1>1. CASE Surroundings
    <2>1. /\ UNCHANGED <<pc, job, before, pulled, verdict>>
          /\ y \notin disturbed
      BY <1>1, SurroundingsFrame
    <2>2. pc[y] \in {"clean", "ready", "pulled", "moved"} =>
            /\ head'[job[y].repo] = head[job[y].repo]
            /\ tree'[job[y].repo] = tree[job[y].repo]
      <3>1. CASE Tick \/ SupplyChain \/ \E d \in Repo : Push(d)
        BY <3>1 DEF Tick, SupplyChain, Push, repoVars
      <3>2. ASSUME NEW d \in Repo, Edit(d) \/ MoveHead(d),
                   pc[y] \in {"clean", "ready", "pulled", "moved"}
            PROVE  /\ head'[job[y].repo] = head[job[y].repo]
                   /\ tree'[job[y].repo] = tree[job[y].repo]
        <4>1. job[y].repo # d
          BY <3>2 DEF Edit, MoveHead, Watching
        <4>2. job[y].repo \in Repo
          BY <3>2 DEF AuthInv, Accepted, Authorised, Jobs
        <4>3. QED
          BY <3>2, <4>1, <4>2 DEF Edit, MoveHead, TypeOK
      <3>3. QED
        BY <1>1, <3>1, <3>2 DEF Surroundings
    <2>3. QED
      BY <2>1, <2>2 DEF ExactInv
  <1>2. ASSUME NEW x \in Runner, Step(x), y # x PROVE ExactInv(y)'
    <2>1. /\ pc'[y] = pc[y] /\ job'[y] = job[y] /\ before'[y] = before[y]
          /\ pulled'[y] = pulled[y] /\ verdict'[y] = verdict[y]
          /\ y \notin disturbed
      BY <1>2, StepFrame
    <2>2. pc[y] \in {"clean", "ready", "pulled", "moved"} =>
            /\ head'[job[y].repo] = head[job[y].repo]
            /\ tree'[job[y].repo] = tree[job[y].repo]
      BY <1>2, OthersDisturb
    <2>3. QED
      BY <2>1, <2>2 DEF ExactInv
  <1>3. ASSUME Step(y) PROVE ExactInv(y)'
    <2>1. CASE AcceptInputs(y) \/ Refuse(y) \/ WriteArtifacts(y) \/ Kill(y)
      <3>1. /\ UNCHANGED <<before, pulled, verdict, disturbed>>
            /\ pc'[y] \notin {"clean", "ready", "pulled", "moved"}
        BY <1>3, <2>1, Control DEF AcceptInputs, Refuse, WriteArtifacts, Kill
      <3>2. QED
        BY <3>1 DEF ExactInv
    <2>2. CASE CheckClean(y)
      BY <1>3, <2>2, Control DEF CheckClean, PullInv, ExactInv, repoVars
    <2>3. CASE ReadHead(y)
      <3>1. /\ UNCHANGED <<tree, head, job, pulled, verdict, disturbed>>
            /\ pc[y] = "clean" /\ pc'[y] = "ready" /\ pulled[y] = Absent
        BY <1>3, <2>3, Control DEF ReadHead, repoVars, PullInv
      <3>2. before'[y] = head[job[y].repo]
        BY <2>3 DEF ReadHead, TypeOK
      <3>3. QED
        BY <3>1, <3>2 DEF ExactInv
    <2>4. CASE Pull(y)
      <3> DEFINE d == job[y].repo
      <3>1. d \in Repo
        BY <2>4 DEF Pull, AuthInv, Accepted, Authorised, Jobs
      <3>2. PICK exit \in {0, 1}, recognised \in BOOLEAN, to \in Heads, left \in Trees :
              /\ PullEffect(y, d, exit, recognised, to, left)
              /\ head' = [head EXCEPT ![d] = to]
              /\ tree' = [tree EXCEPT ![d] = left]
              /\ pulled' = [pulled EXCEPT ![y] =
                              [at |-> now, exit |-> exit, recognised |-> recognised,
                               from |-> head[d], to |-> to, tree |-> tree[d],
                               left |-> left]]
              /\ disturbed' = IF to = head[d] THEN disturbed
                              ELSE disturbed \cup (Watching(d) \ {y})
        BY <2>4 DEF Pull
      <3>3. pulled'[y].from = head[d] /\ pulled'[y].tree = tree[d] /\ pulled'[y].left = left
        BY <3>2 DEF TypeOK
      <3>4. tree'[d] = left /\ head'[d] = pulled'[y].to
        BY <3>1, <3>2 DEF TypeOK
      <3>5. y \notin disturbed /\ tree[d] = "clean" /\ before[y] = head[d]
        BY <2>4, <3>2 DEF Pull, ExactInv
      <3>6. /\ pc'[y] = "pulled" /\ verdict'[y] = Absent
            /\ job' = job /\ before' = before
        BY <2>4 DEF Pull, PullInv, TypeOK
      <3>7. QED
        BY <3>3, <3>4, <3>5, <3>6 DEF ExactInv
    <2>5. CASE ReadHeadAfter(y) \/ CheckCleanAfter(y)
      <3>1. /\ UNCHANGED <<tree, head, job, before, pulled, disturbed>>
            /\ pc[y] \in {"pulled", "moved"} /\ pulled[y] \in Pulls
            /\ tree[job[y].repo] = pulled[y].left
            /\ pulled[y].tree = "clean" /\ pulled[y].from = before[y]
            /\ pc[y] = "pulled" => head[job[y].repo] = pulled[y].to
            /\ pc[y] = "moved" => pulled[y].to # pulled[y].from
        BY <2>5, AbsentAssumption
        DEF ReadHeadAfter, CheckCleanAfter, repoVars, PullInv, ExactInv
      <3>2. CASE pc'[y] = "moved"
        BY <2>5, <3>1, <3>2
        DEF ReadHeadAfter, CheckCleanAfter, Conclude, PullInv, ExactInv, TypeOK
      <3>3. CASE pc'[y] = "judged"
        <4>1. /\ pulled[y].exit # 0 => verdict'[y].run = "failure"
              /\ verdict'[y].run = "failure"
                   => pulled[y].exit # 0 \/ pulled[y].left = "dirty"
              /\ verdict'[y].postcheck = "passed"
                   => /\ pulled[y].exit = 0 /\ pulled[y].left = "clean"
                      /\ pulled[y].to # pulled[y].from
          BY <2>5, <3>1, <3>3
          DEF ReadHeadAfter, CheckCleanAfter, Conclude, PullInv, TypeOK
        <4>2. QED
          BY <3>1, <3>3, <4>1 DEF ExactInv
      <3>4. QED
        BY <1>3, <2>5, <3>2, <3>3, Control
    <2>6. QED
      BY <1>3, <2>1, <2>2, <2>3, <2>4, <2>5 DEF Step
  <1>4. QED
    BY <1>1, <1>2, <1>3 DEF Next, Surroundings

-----------------------------------------------------------------------------
(* The inductive invariant holds initially and is preserved.                *)
LEMMA InvariantInit == Init => IInv
  <1> SUFFICES ASSUME Init PROVE IInv
    OBVIOUS
  <1>1. ASSUME NEW x \in Runner
        PROVE  /\ pc[x] = "start" /\ pulled[x] = Absent /\ verdict[x] = Absent
               /\ seen[x] = "none" /\ Absent \notin Pulls
    BY AbsentAssumption DEF Init, Evidence!Init
  <1>2. QED
    BY <1>1, TypeInit DEF IInv, AuthInv, Accepted, PullInv, ExactInv, SeenInv

(* Every step keeps the inductive invariant.                                *)
LEMMA InvariantStep == IInv /\ [Next]_vars => IInv'
  <1> SUFFICES ASSUME IInv, [Next]_vars PROVE IInv'
    OBVIOUS
  <1>1. TypeOK /\ \A x \in Runner : AuthInv(x) /\ PullInv(x) /\ ExactInv(x) /\ SeenInv(x)
    BY DEF IInv
  <1>2. TypeOK'
    BY <1>1, TypeStep
  <1>3. CASE UNCHANGED vars
    <2>1. ASSUME NEW y \in Runner
          PROVE  (AuthInv(y) /\ PullInv(y) /\ ExactInv(y) /\ SeenInv(y))'
      BY <1>1, <1>3
      DEF vars, AuthInv, Authorised, PullInv, ExactInv, SeenInv
    <2>2. QED
      BY <1>2, <2>1 DEF IInv
  <1>4. CASE Next
    <2>1. \A y \in Runner : AuthInv(y)'
      BY <1>1, <1>4, AuthStep
    <2>2. \A y \in Runner : PullInv(y)'
      BY <1>1, <1>2, <1>4, PullStep
    <2>3. \A y \in Runner : ExactInv(y)'
      BY <1>1, <1>4, ExactStep
    <2>4. \A y \in Runner : SeenInv(y)'
      BY <1>1, <1>4, SeenStep
    <2>5. QED
      BY <1>2, <2>1, <2>2, <2>3, <2>4 DEF IInv
  <1>5. QED
    BY <1>3, <1>4

(* Every reachable state satisfies the inductive invariant.                 *)
THEOREM RunInvariant == Spec => []IInv
  <1>1. QED
    BY InvariantInit, InvariantStep, PTL DEF Spec

(* Type correctness of run_git_pull_ff_only and its surroundings.           *)
THEOREM TypeCorrect == Spec => []TypeOK
  <1>1. IInv => TypeOK
    BY DEF IInv
  <1>2. QED
    BY <1>1, RunInvariant, PTL

(* No combination of artifacts, old, mixed or made for other plans, gets a  *)
(* pull past the gates that was not approved and preflighted as such.       *)
THEOREM PullsAreAuthorised == Spec => []PullIsAuthorised
  <1>1. IInv => PullIsAuthorised
    BY DEF IInv, AuthInv, Authorised, PullIsAuthorised
  <1>2. QED
    BY <1>1, RunInvariant, PTL

(* A passed postcheck is about the run's own fast-forward: whatever others   *)
(* do to HEAD meanwhile if git speaks English, and in any language if nobody *)
(* else touches the repository.                                            *)
THEOREM PassedIsOwn == Spec => []PassedIsFastForward
  <1>1. IInv => PassedIsFastForward
    <2>1. SUFFICES ASSUME IInv, NEW x \in Runner, Passed(x)
                   PROVE  /\ pulled[x].exit = 0
                          /\ x \in EnglishGit \/ x \notin disturbed
                               => OwnFastForward(pulled[x])
      BY DEF PassedIsFastForward
    <2>2. /\ pulled[x] \in Pulls /\ Told(x, pulled[x])
          /\ pulled[x].exit = 0 /\ ~pulled[x].recognised
      BY <2>1 DEF IInv, PullInv, Passed
    <2>3. x \notin disturbed => pulled[x].to # pulled[x].from
      BY <2>1, <2>2, AbsentAssumption DEF IInv, ExactInv, Passed
    <2>4. QED
      BY <2>2, <2>3 DEF Told
  <1>2. QED
    BY <1>1, RunInvariant, PTL

(* A run nobody disturbs pulls what it has looked at and reports it right.  *)
THEOREM UndisturbedIsExact == Spec => []UndisturbedRunIsExact
  <1>1. IInv => UndisturbedRunIsExact
    BY DEF IInv, ExactInv, UndisturbedRunIsExact
  <1>2. QED
    BY <1>1, RunInvariant, PTL

(* Evidence is about pulls, and a refused run has not pulled.               *)
THEOREM EvidenceIsOfPulls == Spec => []OnlyPullsLeaveEvidence
  <1>1. IInv => OnlyPullsLeaveEvidence
    BY DEF IInv, PullInv, SeenInv, OnlyPullsLeaveEvidence
  <1>2. QED
    BY <1>1, RunInvariant, PTL

-----------------------------------------------------------------------------
(* The gates of a pull are exact: of all combinations of a plan, a          *)
(* validation, a chain and a binding, whatever plans, approvals and chains *)
(* these were made from, they pass those and only those in which all are of *)
(* the one plan content, the approval binds it at the time of the          *)
(* validation, and the run behind the chain was its preflight in the       *)
(* repository at hand.  None of the checks of approval validation, binding, *)
(* readiness and run_git_pull_ff_only is missing, and none refuses what the *)
(* others let through for a good reason.  (Absent is no artifact.)          *)
THEOREM PullGatesAreExact ==
  ASSUME NEW plan \in Plan, NEW vplan \in Plan, NEW bplan \in Plan,
         NEW approval \in Approval, NEW t \in ApprovalTimes,
         NEW chain \in Chains, NEW bchain \in Chains, NEW d \in Repo,
         chain.proof = RunProof[chain.chain_id],
         bchain.proof = RunProof[bchain.chain_id],
         PreflightBinding(bplan, bchain) # Absent
  PROVE  PullGates(plan, ApprovalValidation(vplan, approval, t), chain,
                   PreflightBinding(bplan, bchain), d)
         <=> /\ PlanAction[plan] = "git-pull-ff-only"
             /\ vplan = plan /\ bplan = plan
             /\ ApprovalBinds(plan, approval, t)
             /\ chain.chain_id = bchain.chain_id
             /\ chain.status = "valid" /\ bchain.status = "valid"
             /\ chain.proof = ProofMaterial(plan, d)
  <1> DEFINE validation == ApprovalValidation(vplan, approval, t)
             binding == PreflightBinding(bplan, bchain)
  <1>1. /\ binding.plan_ref = PlanId[bplan]
        /\ binding.plan_action = PlanAction[bplan]
        /\ binding.chain_ref = bchain.chain_id
        /\ binding.chain_action = bchain.action
        /\ binding.proof = bchain.proof
    BY DEF PreflightBinding
  <1>2. /\ validation.plan_ref = PlanId[vplan] /\ validation.sha = vplan
        /\ validation.action = approval.action
        /\ validation.binding_state = "binding_valid"
             <=> ApprovalBinds(vplan, approval, t)
    BY DEF ApprovalValidation, Sha
  <1>3. chain.action = bchain.action /\ chain.chain_id \in PreRun
    BY DEF Chains
  <1>4. ASSUME PullGates(plan, validation, chain, binding, d)
        PROVE  /\ PlanAction[plan] = "git-pull-ff-only"
               /\ vplan = plan /\ bplan = plan
               /\ ApprovalBinds(plan, approval, t)
               /\ chain.chain_id = bchain.chain_id
               /\ chain.status = "valid" /\ bchain.status = "valid"
               /\ chain.proof = ProofMaterial(plan, d)
    <2>1. /\ PlanAction[plan] = "git-pull-ff-only"
          /\ validation.sha = plan
          /\ binding.binding_state = "binding_valid"
          /\ ProofMatches(binding.proof, plan)
          /\ BindingRefersTo(plan, chain, binding)
          /\ Readiness(plan, validation, chain, binding) = "ready"
      BY <1>4 DEF PullGates, Sha
    <2>2. vplan = plan
      BY <1>2, <2>1
    <2>3. ApprovalBinds(plan, approval, t)
      BY <1>2, <2>1, <2>2 DEF Readiness
    <2>4. bchain.status = "valid" /\ ProofMatches(bchain.proof, bplan)
      BY <2>1 DEF PreflightBinding
    <2>5. bplan = plan
      BY <1>1, <2>1, <2>4 DEF ProofMatches, Sha
    <2>6. chain.chain_id = bchain.chain_id
      BY <1>1, <2>1 DEF BindingRefersTo
    <2>7. chain.status = "valid" /\ chain.proof = ProofMaterial(plan, d)
      BY <1>4, GatesAuthorise
    <2>8. QED
      BY <2>1, <2>2, <2>3, <2>4, <2>5, <2>6, <2>7
  <1>5. ASSUME /\ PlanAction[plan] = "git-pull-ff-only"
               /\ vplan = plan /\ bplan = plan
               /\ ApprovalBinds(plan, approval, t)
               /\ chain.chain_id = bchain.chain_id
               /\ chain.status = "valid" /\ bchain.status = "valid"
               /\ chain.proof = ProofMaterial(plan, d)
        PROVE  PullGates(plan, validation, chain, binding, d)
    <2>1. bchain.proof = chain.proof
      BY <1>5
    <2>2. chain.proof # Absent
      <3>1. d \in Toplevel
        BY PullAssumption
      <3>2. QED
        BY <1>5, <3>1, PullAssumption
    <2>3. ProofMatches(chain.proof, plan) /\ chain.proof.repo_toplevel = d
      BY <1>5, <2>2 DEF ProofMatches, ProofMaterial
    <2>4. binding.binding_state = "binding_valid"
      BY <1>5, <2>1, <2>3 DEF PreflightBinding
    <2>5. /\ validation.action = "git-pull-ff-only"
          /\ validation.binding_state = "binding_valid"
      BY <1>2, <1>5 DEF ApprovalBinds
    <2>6. PlanBindingProven(plan, chain, binding)
      BY <1>1, <2>1, <2>3, <2>4 DEF PlanBindingProven
    <2>7. Readiness(plan, validation, chain, binding) = "ready"
      BY <1>2, <1>5, <2>4, <2>5, <2>6 DEF Readiness
    <2>8. BindingRefersTo(plan, chain, binding)
      BY <1>1, <1>3, <1>5 DEF BindingRefersTo
    <2>9. QED
      BY <1>1, <1>2, <1>5, <2>1, <2>2, <2>3, <2>4, <2>5, <2>7, <2>8
         DEF PullGates, Sha
  <1>6. QED
    BY <1>4, <1>5

-----------------------------------------------------------------------------
(* What a run has on record belongs to its control point: inputs once it    *)
(* has accepted them, a HEAD once it has read one, a decided publication    *)
(* once it has ended, the whole evidence exactly when it has returned.      *)
AccountInv(x) ==
  /\ pc[x] = "start" => job[x] = Absent
  /\ pc[x] \in {"start", "accepted", "clean"} => before[x] = Absent
  /\ outcome[x] = "pending" <=> pc[x] \in Live
  /\ outcome[x] = "published" <=> pc[x] = "returned"
  /\ seen[x] = "all" <=> pc[x] = "returned"
  /\ pc[x] = "returned" => pulled[x] # Absent /\ verdict[x] # Absent

(* The account of the runs: a run has returned exactly when its whole       *)
(* evidence is in place, and then it is evidence of a pull and a verdict.   *)
RunsAccount ==
  \A x \in Runner :
     /\ pc[x] = "returned" <=> seen[x] = "all"
     /\ seen[x] = "all" => pulled[x] # Absent /\ verdict[x] # Absent

(* What a run has recorded stands: its inputs, its HEAD, its pull and its   *)
(* verdict are written once, and a run that has ended stays as it ended.    *)
RecordsStand ==
  \A x \in Runner :
     /\ job[x] # Absent => job'[x] = job[x]
     /\ before[x] # Absent => before'[x] = before[x]
     /\ pulled[x] # Absent => pulled'[x] = pulled[x]
     /\ verdict[x] # Absent => verdict'[x] = verdict[x]
     /\ pc[x] \notin Live => /\ pc'[x] = pc[x] /\ outcome'[x] = outcome[x]
                             /\ seen'[x] = seen[x]

(* A step of a runner touches a repository only by its one pull, and only   *)
(* the repository it was authorised for.                                    *)
TouchesByPulling ==
  (\E z \in Runner : Step(z)) /\ <<head, tree>>' # <<head, tree>> =>
     \E x \in Runner :
        /\ pulled[x] = Absent /\ pulled'[x] # Absent
        /\ job'[x] = job[x] /\ Authorised(x)
        /\ \A d \in Repo \ {job[x].repo} : head'[d] = head[d] /\ tree'[d] = tree[d]

(* The publication of another run is left alone, too.                       *)
LEMMA OutcomeFrame ==
  ASSUME TypeOK, NEW x \in Runner, Step(x), NEW y \in Runner, y # x
  PROVE  outcome'[y] = outcome[y]
  BY DEF Step, AcceptInputs, Refuse, CheckClean, ReadHead, Pull, ReadHeadAfter,
         CheckCleanAfter, WriteArtifacts, Kill, evidenceVars, TypeOK,
         Evidence!Expose, Evidence!Publish, Evidence!Withdraw, Evidence!Tear

(* The steps before the publication leave the publication alone.            *)
LEMMA WorkKeepsEvidence ==
  ASSUME NEW x \in Runner,
         AcceptInputs(x) \/ CheckClean(x) \/ ReadHead(x) \/ Pull(x)
           \/ ReadHeadAfter(x) \/ CheckCleanAfter(x)
  PROVE  outcome' = outcome /\ seen' = seen
  BY DEF AcceptInputs, CheckClean, ReadHead, Pull, ReadHeadAfter, CheckCleanAfter,
         evidenceVars

(* The account holds initially and every step keeps it.                     *)
LEMMA AccountInit == Init => \A x \in Runner : AccountInv(x)
  BY DEF Init, Evidence!Init, AccountInv, Live

(* Every step keeps the account of every runner.                            *)
LEMMA AccountStep ==
  ASSUME IInv, \A z \in Runner : AccountInv(z), Next, NEW y \in Runner
  PROVE  AccountInv(y)'
  <1>1. TypeOK /\ PullInv(y) /\ SeenInv(y) /\ AccountInv(y)
    BY DEF IInv
  <1>2. CASE Surroundings
    BY <1>1, <1>2, SurroundingsFrame DEF AccountInv
  <1>3. ASSUME NEW x \in Runner, Step(x), y # x PROVE AccountInv(y)'
    BY <1>1, <1>3, StepFrame, OutcomeFrame DEF AccountInv
  <1>4. ASSUME Step(y) PROVE AccountInv(y)'
    <2>1. CASE AcceptInputs(y) \/ CheckClean(y) \/ ReadHead(y) \/ Pull(y)
               \/ ReadHeadAfter(y) \/ CheckCleanAfter(y)
      <3>1. outcome' = outcome /\ seen' = seen
        BY <2>1, WorkKeepsEvidence
      <3>2. pc[y] \in Live \ {"judged"} /\ pc'[y] \in Live \ {"start"}
        BY <1>1, <1>4, <2>1, Control DEF Live
      <3>3. pc'[y] \in {"accepted", "clean"} => before'[y] = Absent
        <4>1. CASE AcceptInputs(y) \/ CheckClean(y)
          BY <1>1, <1>4, <4>1, Control DEF AcceptInputs, CheckClean, AccountInv
        <4>2. CASE ~(AcceptInputs(y) \/ CheckClean(y))
          BY <1>1, <1>4, <2>1, <4>2, Control
        <4>3. QED
          BY <4>1, <4>2
      <3>4. QED
        BY <1>1, <3>1, <3>2, <3>3 DEF AccountInv, Live
    <2>2. CASE Refuse(y) \/ Kill(y)
      <3>1. pc[y] \in Live /\ pc'[y] \in {"refused", "killed"}
        BY <1>1, <1>4, <2>2, Control DEF Live
      <3>2. outcome'[y] \in {"withdrawn", "torn"} /\ seen'[y] = seen[y]
        BY <1>1, <2>2 DEF Refuse, Kill, TypeOK, Evidence!Withdraw, Evidence!Tear
      <3>3. QED
        BY <1>1, <3>1, <3>2 DEF AccountInv, Live
    <2>3. CASE WriteArtifacts(y)
      <3>1. /\ job' = job /\ before' = before /\ pulled' = pulled
            /\ verdict' = verdict /\ pc[y] = "judged"
        BY <2>3 DEF WriteArtifacts
      <3>2. pulled[y] # Absent /\ verdict[y] # Absent
        BY <1>1, <3>1, AbsentAssumption DEF PullInv
      <3>3. CASE Evidence!Expose(y) /\ UNCHANGED pc
        <4>1. outcome'[y] = outcome[y] /\ seen'[y] # "all"
          BY <1>1, <3>3 DEF Evidence!Expose, TypeOK
        <4>2. QED
          BY <1>1, <3>1, <3>3, <4>1 DEF AccountInv
      <3>4. CASE Evidence!Publish(y) /\ pc' = [pc EXCEPT ![y] = "returned"]
        <4>1. outcome'[y] = "published" /\ seen'[y] = "all" /\ pc'[y] = "returned"
          BY <1>1, <3>4 DEF Evidence!Publish, TypeOK
        <4>2. QED
          BY <3>1, <3>2, <4>1 DEF AccountInv, Live
      <3>5. CASE /\ Evidence!Withdraw(y) \/ Evidence!Tear(y)
                 /\ pc' = [pc EXCEPT ![y] = "raised"]
        <4>1. /\ outcome'[y] \in {"withdrawn", "torn"} /\ seen'[y] = seen[y]
              /\ pc'[y] = "raised"
          BY <1>1, <3>5 DEF Evidence!Withdraw, Evidence!Tear, TypeOK
        <4>2. QED
          BY <1>1, <3>1, <4>1 DEF AccountInv, Live
      <3>6. QED
        BY <2>3, <3>3, <3>4, <3>5 DEF WriteArtifacts
    <2>4. QED
      BY <1>4, <2>1, <2>2, <2>3 DEF Step
  <1>5. QED
    BY <1>2, <1>3, <1>4 DEF Next, Surroundings

(* Every reachable state keeps the account.                                *)
LEMMA AccountInvariant == Spec => [](\A x \in Runner : AccountInv(x))
  <1>1. IInv /\ (\A x \in Runner : AccountInv(x)) /\ [Next]_vars
          => (\A x \in Runner : AccountInv(x))'
    <2> SUFFICES ASSUME IInv, \A x \in Runner : AccountInv(x), [Next]_vars,
                        NEW y \in Runner
                 PROVE  AccountInv(y)'
      OBVIOUS
    <2>1. CASE Next
      BY <2>1, AccountStep
    <2>2. CASE UNCHANGED vars
      <3>1. AccountInv(y)
        OBVIOUS
      <3>2. QED
        BY <2>2, <3>1 DEF vars, AccountInv
    <2>3. QED
      BY <2>1, <2>2
  <1>2. QED
    BY <1>1, AccountInit, RunInvariant, PTL DEF Spec

(* A step keeps the records that are there.                                *)
LEMMA StepKeepsRecords ==
  ASSUME IInv, NEW y \in Runner, AccountInv(y), Next
  PROVE  /\ job[y] # Absent => job'[y] = job[y]
         /\ before[y] # Absent => before'[y] = before[y]
         /\ pulled[y] # Absent => pulled'[y] = pulled[y]
         /\ verdict[y] # Absent => verdict'[y] = verdict[y]
         /\ pc[y] \notin Live => /\ pc'[y] = pc[y] /\ outcome'[y] = outcome[y]
                                 /\ seen'[y] = seen[y]
  <1>1. TypeOK /\ PullInv(y)
    BY DEF IInv
  <1>2. CASE Surroundings
    BY <1>2, SurroundingsFrame
  <1>3. ASSUME NEW x \in Runner, Step(x), y # x
        PROVE  /\ job'[y] = job[y] /\ before'[y] = before[y]
               /\ pulled'[y] = pulled[y] /\ verdict'[y] = verdict[y]
               /\ pc'[y] = pc[y] /\ outcome'[y] = outcome[y] /\ seen'[y] = seen[y]
    BY <1>1, <1>3, StepFrame, OutcomeFrame
  <1>4. CASE Step(y)
    <2>1. pc[y] \in Live
      BY <1>1, <1>4, Control DEF Live, Step
    <2>2. job[y] # Absent => job'[y] = job[y]
      BY <1>4 DEF Step, AccountInv, AcceptInputs, Refuse, CheckClean, ReadHead, Pull,
                  ReadHeadAfter, CheckCleanAfter, WriteArtifacts, Kill
    <2>3. before[y] # Absent => before'[y] = before[y]
      BY <1>4 DEF Step, AccountInv, AcceptInputs, Refuse, CheckClean, ReadHead, Pull,
                  ReadHeadAfter, CheckCleanAfter, WriteArtifacts, Kill
    <2>4. pulled[y] # Absent => pulled'[y] = pulled[y]
      BY <1>1, <1>4 DEF Step, PullInv, AcceptInputs, Refuse, CheckClean, ReadHead, Pull,
                  ReadHeadAfter, CheckCleanAfter, WriteArtifacts, Kill
    <2>5. verdict[y] # Absent => verdict'[y] = verdict[y]
      BY <1>1, <1>4 DEF Step, PullInv, AcceptInputs, Refuse, CheckClean, ReadHead, Pull,
                  ReadHeadAfter, CheckCleanAfter, WriteArtifacts, Kill
    <2>6. QED
      BY <2>1, <2>2, <2>3, <2>4, <2>5
  <1>5. QED
    BY <1>2, <1>3, <1>4 DEF Next, Surroundings

(* A step of a runner that touches a repository is its first pull.           *)
LEMMA StepTouches ==
  ASSUME IInv, NEW x \in Runner, Step(x), <<head, tree>>' # <<head, tree>>
  PROVE  /\ pulled[x] = Absent /\ pulled'[x] # Absent
         /\ job'[x] = job[x] /\ Authorised(x)
         /\ \A d \in Repo \ {job[x].repo} : head'[d] = head[d] /\ tree'[d] = tree[d]
  <1>1. Pull(x)
    BY DEF Step, AcceptInputs, Refuse, CheckClean, ReadHead, ReadHeadAfter,
           CheckCleanAfter, WriteArtifacts, Kill, repoVars
  <1>2. TypeOK /\ PullInv(x) /\ AuthInv(x) /\ TypeOK'
    BY InvariantStep DEF IInv, Next
  <1>3. pc[x] = "ready" /\ pc'[x] = "pulled"
    BY <1>1, <1>2, Control
  <1>4. pulled[x] = Absent /\ Authorised(x)
    BY <1>2, <1>3 DEF PullInv, AuthInv, Accepted
  <1>5. pulled'[x] # Absent
    <2>1. PullInv(x)'
      BY InvariantStep DEF IInv, Next
    <2>2. QED
      BY <1>3, <2>1, AbsentAssumption DEF PullInv
  <1>6. \A d \in Repo \ {job[x].repo} : head'[d] = head[d] /\ tree'[d] = tree[d]
    BY <1>1, <1>2 DEF Pull, TypeOK
  <1>7. QED
    BY <1>1, <1>4, <1>5, <1>6 DEF Pull

(* The only step by which a runner touches a repository is the one pull of  *)
(* git_pull_ff_only it was authorised for; inputs, HEAD, pull and verdict   *)
(* are recorded once, an ended run is never resumed, and a run has returned *)
(* exactly when the whole evidence of a judged pull is in place.  What a    *)
(* returned run tells its caller is therefore true from then on.            *)
THEOREM RunsPullOnce ==
  Spec => [](RunsAccount) /\ [][RecordsStand /\ TouchesByPulling]_vars
  <1>1. (\A x \in Runner : AccountInv(x)) => RunsAccount
    BY DEF AccountInv, RunsAccount
  <1>2. IInv /\ (\A x \in Runner : AccountInv(x)) /\ [Next]_vars
          => [RecordsStand /\ TouchesByPulling]_vars
    <2> SUFFICES ASSUME IInv, \A x \in Runner : AccountInv(x), Next
                 PROVE  RecordsStand /\ TouchesByPulling
      OBVIOUS
    <2>1. RecordsStand
      BY StepKeepsRecords DEF RecordsStand
    <2>2. TouchesByPulling
      <3> SUFFICES ASSUME NEW x \in Runner, Step(x), <<head, tree>>' # <<head, tree>>
                   PROVE  \E z \in Runner :
                            /\ pulled[z] = Absent /\ pulled'[z] # Absent
                            /\ job'[z] = job[z] /\ Authorised(z)
                            /\ \A d \in Repo \ {job[z].repo} :
                                  head'[d] = head[d] /\ tree'[d] = tree[d]
        BY DEF TouchesByPulling
      <3>1. QED
        BY StepTouches
    <2>3. QED
      BY <2>1, <2>2
  <1>3. QED
    BY <1>1, <1>2, AccountInvariant, RunInvariant, PTL DEF Spec
===============================================================================
