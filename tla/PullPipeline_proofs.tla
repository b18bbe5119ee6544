--------------------------- MODULE PullPipeline_proofs ---------------------------
(* The read-only commands and the pull runners are each other's              *)
(* surroundings: what either module assumes of its environment, the other   *)
(* one does.  So what has been proved of each holds of both together, and a *)
(* pull can be traced back to the run that measured.                       *)
EXTENDS PullPipeline, GitPullRun_proofs, FiniteSetTheorems

(* The theorems about PreflightEvidence, for the variables here.            *)
Proved == INSTANCE PreflightEvidence_proofs
            WITH Run <- PreRun, Repo <- Toplevel, chains <- evidence

(* What the two modules share says the same in both.                        *)
Shared ==
  /\ chains = {ChainRead(c) : c \in evidence}
  /\ IsFiniteSet(evidence)
  /\ \A c \in evidence : /\ c.action = "git-status-read-only"
                         /\ c.status \in {"valid", "invalid", "inconclusive"}
                         /\ c.proof = RunProof[c.chain_id]
  /\ \A d \in Repo : tree[d] = TreeOf(worktree[d])

(* The inductive invariant: that of either module, and the link.            *)
PipelineInv == IInv /\ Proved!IInv /\ Shared

-----------------------------------------------------------------------------
(* The instance the theorems are about is the one the pipeline steps in.    *)
LEMMA SameInit == Preflight!Init => Proved!Init
  BY DEF Preflight!Init, Proved!Init, Preflight!NoFile, Proved!NoFile

(* The steps of the instance are those the proofs of PreflightEvidence are  *)
(* about.                                                                   *)
LEMMA SameStep == [Preflight!Next]_(Preflight!vars) => [Proved!Next]_(Proved!vars)
  <1>1. ASSUME NEW r \in PreRun, Preflight!RunStep(r) PROVE Proved!RunStep(r)
    BY <1>1
    DEF Preflight!RunStep, Preflight!CheckInputs, Preflight!MeasureStatus,
        Preflight!CommitTrace, Preflight!CommitResult, Preflight!FailStaging,
        Preflight!RollBackTrace, Preflight!Kill, Preflight!NoFile, Preflight!Outputs,
        Proved!RunStep, Proved!CheckInputs, Proved!MeasureStatus, Proved!CommitTrace,
        Proved!CommitResult, Proved!FailStaging, Proved!RollBackTrace, Proved!Kill,
        Proved!NoFile, Proved!Outputs
  <1>2. ASSUME NEW tp \in Path, NEW rp \in Path, NEW d \in Toplevel,
               Preflight!Postcheck(tp, rp, d)
        PROVE  Proved!Postcheck(tp, rp, d)
    BY <1>2
    DEF Preflight!Postcheck, Preflight!ResultStatus, Preflight!NamesTracePath,
        Preflight!Verdict, Preflight!Excerpt, Preflight!Cardinality,
        Proved!Postcheck, Proved!ResultStatus, Proved!NamesTracePath,
        Proved!Verdict, Proved!Excerpt, Proved!Cardinality
  <1>3. ASSUME NEW plan \in Plan, NEW tp \in Path, NEW rp \in Path, NEW c \in postchecks,
               Preflight!ValidateChain(plan, tp, rp, c)
        PROVE  Proved!ValidateChain(plan, tp, rp, c)
    BY <1>3
    DEF Preflight!ValidateChain, Preflight!ChainStatus, Preflight!ResultStatus,
        Preflight!ResultProof, Preflight!NamesTracePath, Preflight!ProofMaterial,
        Preflight!Sha, Preflight!Cardinality,
        Proved!ValidateChain, Proved!ChainStatus, Proved!ResultStatus,
        Proved!ResultProof, Proved!NamesTracePath, Proved!ProofMaterial, Proved!Sha,
        Proved!Cardinality
  <1>4. ASSUME NEW d \in Toplevel, Preflight!Edit(d) PROVE Proved!Edit(d)
    BY <1>4 DEF Preflight!Edit, Proved!Edit
  <1>5. QED
    BY <1>1, <1>2, <1>3, <1>4
    DEF Preflight!Next, Proved!Next, Preflight!vars, Proved!vars

(* Initially both modules are initial, and what they share agrees.          *)
LEMMA PipelineStart == PipelineInit => Init /\ Preflight!Init /\ PipelineInv
  <1> SUFFICES ASSUME PipelineInit PROVE Init /\ Preflight!Init /\ PipelineInv
    OBVIOUS
  <1>1. Init /\ Preflight!Init
    BY DEF PipelineInit
  <1>2. IInv /\ Proved!IInv
    BY <1>1, InvariantInit, SameInit, Proved!InvariantInit, PipelineAssumption,
       GatesAssumption
  <1>3. evidence = {} /\ chains = {}
    BY <1>1 DEF Init, Preflight!Init
  <1>4. \A d \in Repo : tree[d] = "clean" /\ worktree[d] = <<>>
    BY <1>1, PullAssumption DEF Init, Preflight!Init
  <1>5. Shared
    BY <1>3, <1>4, FS_EmptySet DEF Shared, TreeOf
  <1>6. QED
    BY <1>1, <1>2, <1>5 DEF PipelineInv

-----------------------------------------------------------------------------
(* A runner has never more chains to choose from than were validated.       *)
LEMMA FewerRead ==
  ASSUME IsFiniteSet(evidence), chains = {ChainRead(c) : c \in evidence}
  PROVE  IsFiniteSet(chains) /\ Cardinality(chains) <= Cardinality(evidence)
  <1> DEFINE f == [c \in evidence |-> ChainRead(c)]
  <1>1. f \in Surjection(evidence, chains)
    BY DEF Surjection
  <1>2. QED
    BY <1>1, FS_Surjection

(* A validated chain reaches the runners as one that could be supplied.     *)
LEMMA EvidenceIsSupplied ==
  ASSUME PipelineInv, NEW plan \in Plan, NEW tp \in Path, NEW rp \in Path,
         NEW p \in postchecks, SupplyEvidence(plan, tp, rp, p)
  PROVE  SupplyChain /\ Shared'
  <1>1. PICK t \in PreRun, r \in PreRun :
          evidence' = evidence \cup
             {[chain_id |-> r, action |-> "git-status-read-only",
               plan_ref |-> PlanId[plan], plan |-> plan, trace_ref |-> t,
               status |-> Preflight!ChainStatus(plan, t, r, p, tp, rp),
               proof |-> Preflight!ResultProof(r), postcheck |-> p]}
    BY DEF SupplyEvidence, Preflight!ValidateChain
  <1> DEFINE s == Preflight!ChainStatus(plan, t, r, p, tp, rp)
             c == [chain_id |-> r, action |-> "git-status-read-only",
                   plan_ref |-> PlanId[plan], plan |-> plan, trace_ref |-> t,
                   status |-> s, proof |-> Preflight!ResultProof(r), postcheck |-> p]
  <1>2. s \in {"valid", "invalid", "inconclusive"}
    BY DEF Preflight!ChainStatus
  <1>3. c.proof = RunProof[r]
    BY PipelineAssumption
  <1>4. ChainRead(c) = [chain_id |-> r, action |-> "git-status-read-only",
                        plan_ref |-> "status-plan", status |-> s, proof |-> RunProof[r]]
    BY <1>3 DEF ChainRead
  <1>5. chains' = chains \cup {ChainRead(c)}
    BY <1>1 DEF SupplyEvidence, PipelineInv, Shared
  <1>6. Cardinality(chains) < MaxChains
    <2>1. Cardinality(evidence) < MaxChains
      BY DEF SupplyEvidence, Preflight!ValidateChain, Preflight!Cardinality, Cardinality
    <2>2. IsFiniteSet(chains) /\ Cardinality(chains) <= Cardinality(evidence)
      BY FewerRead DEF PipelineInv, Shared
    <2>3. Cardinality(chains) \in Nat /\ Cardinality(evidence) \in Nat
      BY <2>2, FS_CardinalityType DEF PipelineInv, Shared
    <2>4. QED
      BY <2>1, <2>2, <2>3, PullAssumption
  <1>7. SupplyChain
    BY <1>2, <1>4, <1>5, <1>6 DEF SupplyChain, SupplyEvidence
  <1>8. Shared'
    <2>1. IsFiniteSet(evidence')
      BY <1>1, FS_AddElement DEF PipelineInv, Shared
    <2>2. worktree' = worktree /\ tree' = tree
      BY DEF SupplyEvidence, Preflight!ValidateChain, repoVars
    <2>3. chains' = {ChainRead(e) : e \in evidence'}
      BY DEF SupplyEvidence
    <2>4. \A e \in evidence' : /\ e.action = "git-status-read-only"
                               /\ e.status \in {"valid", "invalid", "inconclusive"}
                               /\ e.proof = RunProof[e.chain_id]
      BY <1>1, <1>2, <1>3 DEF PipelineInv, Shared
    <2>5. QED
      BY <2>1, <2>2, <2>3, <2>4 DEF PipelineInv, Shared, TreeOf, ChainRead
  <1>9. QED
    BY <1>7, <1>8

(* Somebody's work is an edit, or nothing, to a runner.                     *)
LEMMA WorkIsEdit ==
  ASSUME PipelineInv, NEW d \in Toplevel, EditWorktree(d)
  PROVE  [Next]_vars /\ Shared'
  <1>1. worktree' \in [Toplevel -> Statuses] /\ \A e \in Toplevel \ {d} : worktree'[e] = worktree[e]
    BY DEF EditWorktree, Preflight!Edit, PipelineInv, Proved!IInv, Proved!TypeOK
  <1>2. evidence' = evidence
    BY DEF EditWorktree, Preflight!Edit
  <1>3. CASE d \in Repo /\ TreeOf(worktree'[d]) # tree[d] /\ Edit(d)
    <2>1. PICK s \in Trees \ {tree[d]} : tree' = [tree EXCEPT ![d] = s]
      BY <1>3 DEF Edit
    <2>2. tree \in [Repo -> Trees] /\ chains' = chains
      BY <1>3 DEF PipelineInv, IInv, TypeOK, Edit
    <2>3. tree'[d] = TreeOf(worktree'[d]) /\ \A e \in Repo \ {d} : tree'[e] = tree[e]
      BY <1>3, <2>1, <2>2 DEF Trees, TreeOf
    <2>4. \A e \in Repo : tree'[e] = TreeOf(worktree'[e])
      BY <1>1, <2>3, PullAssumption DEF PipelineInv, Shared, TreeOf
    <2>5. QED
      BY <1>2, <1>3, <2>2, <2>4 DEF Next, PipelineInv, Shared, ChainRead, TreeOf
  <1>4. CASE (d \in Repo => TreeOf(worktree'[d]) = tree[d]) /\ UNCHANGED vars
    <2>1. tree' = tree /\ chains' = chains
      BY <1>4 DEF vars
    <2>2. \A e \in Repo : tree'[e] = TreeOf(worktree'[e])
      BY <1>1, <1>4, <2>1, PullAssumption DEF PipelineInv, Shared, TreeOf
    <2>3. QED
      BY <1>2, <1>4, <2>1, <2>2 DEF PipelineInv, Shared, ChainRead, TreeOf
  <1>5. QED
    BY <1>3, <1>4 DEF EditWorktree

(* A pull is somebody's work, or nothing, to the read-only commands.         *)
LEMMA PullIsWork ==
  ASSUME PipelineInv, NEW x \in Runner, RunnerStep(x)
  PROVE  [Preflight!Next]_(Preflight!vars) /\ Shared'
  <1>1. UNCHANGED <<phase, made, file, postchecks, evidence>>
    BY DEF RunnerStep, runs
  <1>2. chains' = chains
    BY DEF RunnerStep, Step, AcceptInputs, Refuse, CheckClean, ReadHead, Pull,
           ReadHeadAfter, CheckCleanAfter, WriteArtifacts, Kill
  <1>3. CASE ~Pull(x)
    <2>1. head' = head /\ tree' = tree
      BY <1>3 DEF RunnerStep, Step, AcceptInputs, Refuse, CheckClean, ReadHead,
           ReadHeadAfter, CheckCleanAfter, WriteArtifacts, Kill, repoVars
    <2>2. worktree' = worktree
      BY <2>1 DEF RunnerStep
    <2>3. QED
      BY <1>1, <1>2, <2>1, <2>2 DEF Preflight!vars, PipelineInv, Shared, TreeOf, ChainRead
  <1>4. CASE Pull(x)
    <2> DEFINE d == job[x].repo
    <2>1. d \in Repo /\ d \in Toplevel
      BY <1>4, PullAssumption
      DEF Pull, PipelineInv, IInv, AuthInv, Accepted, Authorised, Jobs
    <2>2. PICK exit \in {0, 1}, recognised \in BOOLEAN, to \in Heads, left \in Trees :
            /\ PullEffect(x, d, exit, recognised, to, left)
            /\ head' = [head EXCEPT ![d] = to]
            /\ tree' = [tree EXCEPT ![d] = left]
            /\ pulled' = [pulled EXCEPT ![x] =
                            [at |-> now, exit |-> exit, recognised |-> recognised,
                             from |-> head[d], to |-> to, tree |-> tree[d],
                             left |-> left]]
            /\ disturbed' = IF to = head[d] THEN disturbed
                            ELSE disturbed \cup (Watching(d) \ {x})
      BY <1>4 DEF Pull
    <2>3. /\ head \in [Repo -> Heads] /\ tree \in [Repo -> Trees]
          /\ worktree \in [Toplevel -> Statuses]
      <3>1. TypeOK /\ Proved!TypeOK
        BY DEF PipelineInv, IInv, Proved!IInv
      <3>2. head \in [Repo -> Heads] /\ tree \in [Repo -> Trees]
        BY <3>1 DEF TypeOK
      <3>3. QED
        BY <3>1, <3>2 DEF Proved!TypeOK
    <2>4. CASE head' = head /\ UNCHANGED worktree
      <3>1. to = head[d]
        BY <2>1, <2>2, <2>3, <2>4
      <3>2. ~ (FastForwards(d) /\ to = [head[d] EXCEPT !.up = tip[d]])
        BY <2>1, <2>3, <3>1, PullAssumption DEF FastForwards, Heads, PipelineInv, IInv, TypeOK
      <3>3. left = tree[d]
        BY <2>2, <3>2 DEF PullEffect
      <3>4. tree' = tree
        BY <2>1, <2>2, <2>3, <3>3
      <3>5. QED
        BY <1>1, <1>2, <2>4, <3>4 DEF Preflight!vars, PipelineInv, Shared, TreeOf, ChainRead
    <2>5. CASE \E s \in Statuses : /\ TreeOf(s) = tree'[d]
                                   /\ worktree' = [worktree EXCEPT ![d] = s]
      <3>1. PICK s \in Statuses : /\ TreeOf(s) = tree'[d]
                                  /\ worktree' = [worktree EXCEPT ![d] = s]
        BY <2>5
      <3>2. \A e \in Repo : tree'[e] = TreeOf(worktree'[e])
        BY <2>1, <2>2, <2>3, <3>1, PullAssumption DEF PipelineInv, Shared, TreeOf
      <3>3. Shared'
        BY <1>1, <1>2, <3>2 DEF PipelineInv, Shared, TreeOf, ChainRead
      <3>4. CASE s = worktree[d]
        BY <1>1, <2>1, <2>3, <3>1, <3>3, <3>4 DEF Preflight!vars
      <3>5. CASE s # worktree[d]
        BY <1>1, <2>1, <3>1, <3>3, <3>5 DEF Preflight!Next, Preflight!Edit
      <3>6. QED
        BY <3>4, <3>5
    <2>6. QED
      BY <2>4, <2>5 DEF RunnerStep
  <1>5. QED
    BY <1>3, <1>4

(* Every step of the pipeline is a step of either module, or nothing to it.  *)
LEMMA PipelineStep ==
  ASSUME PipelineInv, [PipelineNext]_allVars
  PROVE  [Next]_vars /\ [Preflight!Next]_(Preflight!vars) /\ Shared'
  <1>1. CASE UNCHANGED allVars
    <2>1. UNCHANGED <<vars, chains, tree, phase, made, file, postchecks, evidence, worktree>>
      BY <1>1 DEF allVars, vars, runs
    <2>2. QED
      BY <2>1 DEF Preflight!vars, PipelineInv, Shared, TreeOf, ChainRead
  <1>2. CASE ReadOnlyStep
    <2>1. UNCHANGED vars /\ chains' = chains /\ tree' = tree
      BY <1>2 DEF ReadOnlyStep, vars
    <2>2. Preflight!Next
      BY <1>2 DEF ReadOnlyStep, Preflight!Next
    <2>3. evidence' = evidence /\ worktree' = worktree
      BY <1>2
      DEF ReadOnlyStep, Preflight!RunStep, Preflight!CheckInputs, Preflight!MeasureStatus,
          Preflight!CommitTrace, Preflight!CommitResult, Preflight!FailStaging,
          Preflight!RollBackTrace, Preflight!Kill, Preflight!Postcheck
    <2>4. QED
      BY <2>1, <2>2, <2>3 DEF PipelineInv, Shared, TreeOf, ChainRead
  <1>3. ASSUME NEW plan \in Plan, NEW tp \in Path, NEW rp \in Path, NEW c \in postchecks,
               SupplyEvidence(plan, tp, rp, c)
        PROVE  [Next]_vars /\ [Preflight!Next]_(Preflight!vars) /\ Shared'
    <2>1. Next /\ Shared'
      BY <1>3, EvidenceIsSupplied DEF Next
    <2>2. Preflight!Next
      BY <1>3 DEF SupplyEvidence, Preflight!Next
    <2>3. QED
      BY <2>1, <2>2
  <1>4. ASSUME NEW d \in Toplevel, EditWorktree(d)
        PROVE  [Next]_vars /\ [Preflight!Next]_(Preflight!vars) /\ Shared'
    <2>1. Preflight!Next
      BY <1>4 DEF EditWorktree, Preflight!Next
    <2>2. QED
      BY <1>4, <2>1, WorkIsEdit
  <1>5. ASSUME NEW x \in Runner, RunnerStep(x)
        PROVE  [Next]_vars /\ [Preflight!Next]_(Preflight!vars) /\ Shared'
    <2>1. Next
      BY <1>5 DEF RunnerStep, Next
    <2>2. QED
      BY <1>5, <2>1, PullIsWork
  <1>6. CASE (Tick \/ \E d \in Repo : MoveHead(d) \/ Push(d)) /\ UNCHANGED <<runs, worktree>>
    <2>1. Next
      BY <1>6 DEF Next
    <2>2. UNCHANGED <<chains, tree, phase, made, file, postchecks, evidence, worktree>>
      BY <1>6 DEF Tick, MoveHead, Push, repoVars, runs
    <2>3. QED
      BY <2>1, <2>2 DEF Preflight!vars, PipelineInv, Shared, TreeOf, ChainRead
  <1>7. QED
    BY <1>1, <1>2, <1>3, <1>4, <1>5, <1>6 DEF PipelineNext

(* Every step preserves the invariant.                                      *)
LEMMA PipelineInvStep == PipelineInv /\ [PipelineNext]_allVars => PipelineInv'
  <1> SUFFICES ASSUME PipelineInv, [PipelineNext]_allVars PROVE PipelineInv'
    OBVIOUS
  <1>1. [Next]_vars /\ [Preflight!Next]_(Preflight!vars) /\ Shared'
    BY PipelineStep
  <1>2. IInv'
    BY <1>1, InvariantStep DEF PipelineInv
  <1>3. Proved!IInv'
    BY <1>1, SameStep, Proved!InvariantStep, PipelineAssumption, GatesAssumption
    DEF PipelineInv
  <1>4. QED
    BY <1>1, <1>2, <1>3 DEF PipelineInv

(* Every reachable state satisfies the inductive invariant.                 *)
THEOREM PipelineInvariant == PipelineSpec => []PipelineInv
  <1>1. PipelineInit => PipelineInv
    BY PipelineStart
  <1>2. QED
    BY <1>1, PipelineInvStep, PTL DEF PipelineSpec

(* Among the read-only commands, a runner meets nothing GitPullRun does not  *)
(* allow for.                                                              *)
THEOREM PipelineRefinesGitPullRun == PipelineSpec => Spec
  <1>1. PipelineInit => Init
    BY PipelineStart
  <1>2. PipelineInv /\ [PipelineNext]_allVars => [Next]_vars
    BY PipelineStep
  <1>3. QED
    BY <1>1, <1>2, PipelineInvariant, PTL DEF PipelineSpec, Spec

(* Among the runners, a read-only command meets nothing PreflightEvidence    *)
(* does not allow for.                                                     *)
THEOREM PipelineRefinesPreflight == PipelineSpec => Preflight!Spec
  <1>1. PipelineInit => Preflight!Init
    BY PipelineStart
  <1>2. PipelineInv /\ [PipelineNext]_allVars => [Preflight!Next]_(Preflight!vars)
    BY PipelineStep
  <1>3. QED
    BY <1>1, <1>2, PipelineInvariant, PTL DEF PipelineSpec, Preflight!Spec

-----------------------------------------------------------------------------
(* Whatever is produced, mixed and supplied, no pull gets past the gates     *)
(* that was not approved and preflighted as such.                          *)
THEOREM PipelinePullsAreAuthorised == PipelineSpec => []PullIsAuthorised
  <1>1. QED
    BY PipelineRefinesGitPullRun, PullsAreAuthorised, PTL

(* A run the gates were satisfied with has measured, and its postcheck has   *)
(* passed.                                                                 *)
LEMMA ChainMeansMeasured ==
  ASSUME PipelineInv, NEW x \in Runner, pulled[x] # Absent
  PROVE  LET r == job[x].chain.chain_id IN
         /\ Input[r].preflight = job[x].plan /\ Input[r].repo = job[x].repo
         /\ phase[r] = "returned" /\ made[r].exit = 0
         /\ \E c \in evidence :
              /\ c.chain_id = r /\ c.status = "valid"
              /\ c.postcheck.run_id = r /\ c.postcheck.status = "passed"
              /\ Preflight!OwnTracePath(r) =>
                   /\ c.postcheck.repo = job[x].repo
                   /\ Redacted[made[r].out] = Redacted[c.postcheck.out]
  <1> DEFINE j == job[x]
             r == j.chain.chain_id
  <1>1. /\ j.chain \in chains /\ j.chain.status = "valid"
        /\ j.chain.proof = ProofMaterial(j.plan, j.repo)
        /\ j \in Jobs
    BY DEF PipelineInv, IInv, AuthInv, Authorised
  <1>2. PICK c \in evidence : j.chain = ChainRead(c)
    BY <1>1 DEF PipelineInv, Shared
  <1>3. c.chain_id = r /\ c.status = "valid" /\ c.proof = ProofMaterial(j.plan, j.repo)
    BY <1>1, <1>2 DEF ChainRead
  <1>4. Proved!ChainInv(c) /\ c.chain_id \in PreRun /\ c.trace_ref \in PreRun
    BY DEF PipelineInv, Proved!IInv, Proved!TypeOK
  <1>5. /\ c.postcheck \in postchecks
        /\ c.postcheck.run_id = r /\ c.postcheck.status = "passed"
        /\ c.postcheck.trace_ref = c.trace_ref
        /\ Input[c.trace_ref].trace_out = Input[r].trace_out
        /\ phase[r] = "returned" /\ made[r].exit = 0
    BY <1>3, <1>4 DEF Proved!ChainInv
  <1>6. Input[r].preflight = j.plan /\ Input[r].repo = j.repo
    <2>1. c.proof = Preflight!ResultProof(r)
      BY <1>3, <1>4, PipelineAssumption DEF PipelineInv, Shared
    <2>2. Input[r].preflight # Absent
      <3>1. j.plan \in Plan /\ j.repo \in Toplevel
        BY <1>1, PullAssumption DEF Jobs
      <3>2. ProofMaterial(j.plan, j.repo) # Absent
        BY <3>1, PullAssumption
      <3>3. QED
        BY <1>3, <2>1, <3>2 DEF Preflight!ResultProof
    <2>3. ProofMaterial(Input[r].preflight, Input[r].repo) = ProofMaterial(j.plan, j.repo)
      BY <1>3, <2>1, <2>2
      DEF Preflight!ResultProof, Preflight!ProofMaterial, Preflight!Sha, ProofMaterial, Sha
    <2>4. QED
      BY <2>3 DEF ProofMaterial, Sha
  <1>7. ASSUME Preflight!OwnTracePath(r)
        PROVE  /\ c.postcheck.repo = j.repo
               /\ Redacted[made[r].out] = Redacted[c.postcheck.out]
    <2>1. c.trace_ref = r
      BY <1>3, <1>4, <1>5, <1>7 DEF Preflight!OwnTracePath, Preflight!Outputs
    <2>2. Proved!PostcheckInv(c.postcheck)
      BY <1>5 DEF PipelineInv, Proved!IInv
    <2>3. QED
      BY <1>5, <1>6, <2>1, <2>2 DEF Proved!PostcheckInv
  <1>8. QED
    BY <1>3, <1>5, <1>6, <1>7

(* A pull goes back to measurements of its own plan in its own repository.  *)
THEOREM PullsGoBack == PipelineSpec => []PullGoesBackToMeasurement
  <1>1. PipelineInv => PullGoesBackToMeasurement
    BY ChainMeansMeasured DEF PullGoesBackToMeasurement
  <1>2. QED
    BY <1>1, PipelineInvariant, PTL
===============================================================================
