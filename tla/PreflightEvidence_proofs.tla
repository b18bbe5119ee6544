------------------------ MODULE PreflightEvidence_proofs ------------------------
(* What a valid evidence chain and a valid preflight binding certify, for   *)
(* any number of runs, plans, repositories and paths, any excerpt limit and *)
(* any redaction.                                                          *)
EXTENDS PreflightEvidence, SequenceTheorems, TLAPS

Past == {"measured", "half", "returned", "ended"}

(* An artifact at a path goes back to a run that was given the path.        *)
FileInv ==
  \A p \in Path, r \in Run :
     /\ file[p] = <<"trace", r>> =>
          p = Input[r].trace_out /\ phase[r] \in {"half", "returned", "ended"}
     /\ file[p] = <<"result", r>> => phase[r] = "returned"

(* What a postcheck says of the run whose trace it read.                    *)
PostcheckInv(c) ==
  /\ c.trace_ref \in Run /\ phase[c.trace_ref] \in Past
  /\ made[c.trace_ref].exit = 0
  /\ c.repo = Input[c.trace_ref].repo
  /\ c.status = "passed" => Redacted[made[c.trace_ref].out] = Redacted[c.out]

(* What a valid chain has been checked for.                                 *)
ChainInv(c) ==
  c.status = "valid" =>
    /\ c.postcheck \in postchecks
    /\ c.postcheck.run_id = c.chain_id
    /\ c.postcheck.trace_ref = c.trace_ref
    /\ c.postcheck.status = "passed"
    /\ Input[c.trace_ref].trace_out = Input[c.chain_id].trace_out
    /\ phase[c.chain_id] = "returned"
    /\ made[c.chain_id].exit = 0
    /\ c.proof = ResultProof(c.chain_id)

(* The inductive invariant.                                                *)
IInv == /\ TypeOK /\ FileInv
        /\ \A c \in postchecks : PostcheckInv(c)
        /\ \A c \in chains : ChainInv(c)

-----------------------------------------------------------------------------
(* An excerpt shorter than the limit is the whole redacted output.          *)
LEMMA ShortExcerpt ==
  ASSUME NEW s \in Statuses, Len(Excerpt(s)) < Limit
  PROVE  Excerpt(s) = Redacted[s]
  <1> DEFINE q == Redacted[s]
  <1>1. q \in Seq(Line) /\ Len(q) \in Nat /\ Limit \in Nat
    BY PreflightAssumption, LenProperties
  <1> HIDE DEF q
  <1>2. CASE Len(q) <= Limit
    <2>1. Excerpt(s) = SubSeq(q, 1, Len(q))
      BY <1>2 DEF Excerpt, q
    <2>2. SubSeq(q, 1, Len(q)) = q
      BY <1>1
    <2>3. QED
      BY <2>1, <2>2 DEF q
  <1>3. CASE ~(Len(q) <= Limit)
    <2>1. Excerpt(s) = SubSeq(q, 1, Limit)
      BY <1>3 DEF Excerpt, q
    <2>2. Len(SubSeq(q, 1, Limit)) = Limit
      BY <1>1, <1>3
    <2>3. QED
      BY <1>1, <2>1, <2>2
  <1>4. QED
    BY <1>2, <1>3

(* A passed verdict compares whole outputs, although it looks at excerpts.  *)
LEMMA PassedMeansUnchanged ==
  ASSUME NEW s \in Statuses, NEW now \in Statuses, NEW exit \in {0, 1},
         Verdict(Excerpt(s), exit, now) = "passed"
  PROVE  Redacted[s] = Redacted[now]
  <1>1. ~(Len(Excerpt(s)) >= Limit) /\ Excerpt(now) = Excerpt(s)
    BY DEF Verdict
  <1>2. Len(Excerpt(s)) < Limit
    <2>1. Redacted[s] \in Seq(Line) /\ Limit \in Nat
      BY PreflightAssumption
    <2>2. Excerpt(s) \in Seq(Line)
      BY <2>1 DEF Excerpt
    <2>3. Len(Excerpt(s)) \in Nat
      BY <2>2, LenProperties
    <2>4. QED
      BY <1>1, <2>1, <2>3
  <1>3. Excerpt(s) = Redacted[s] /\ Excerpt(now) = Redacted[now]
    BY <1>1, <1>2, ShortExcerpt
  <1>4. QED
    BY <1>1, <1>3

-----------------------------------------------------------------------------
(* The artifacts of different runs, and of different kinds, are different.  *)
LEMMA ArtifactsDiffer ==
  /\ \A r, q \in Run : /\ <<"trace", r>> = <<"trace", q>> => r = q
                       /\ <<"result", r>> = <<"result", q>> => r = q
                       /\ <<"trace", r>> # <<"result", q>>
                       /\ <<"trace", r>> # NoFile /\ <<"result", r>> # NoFile
  BY DEF NoFile

(* The invariant holds initially.                                          *)
LEMMA InvariantInit == Init => IInv
  <1> SUFFICES ASSUME Init PROVE IInv
    OBVIOUS
  <1>1. TypeOK
    BY PreflightAssumption DEF Init, TypeOK, Artifacts
  <1>2. FileInv
    BY ArtifactsDiffer DEF Init, FileInv
  <1>3. QED
    BY <1>1, <1>2 DEF Init, IInv

(* A step of a run keeps the types.                                        *)
LEMMA RunStepType ==
  ASSUME TypeOK, NEW r \in Run, RunStep(r)
  PROVE  TypeOK'
  <1>0. /\ Input[r].trace_out \in Path /\ Input[r].result_out \in Path
        /\ Input[r].repo \in Repo
    BY PreflightAssumption
  <1>1. CASE CheckInputs(r)
    BY <1>1 DEF CheckInputs, TypeOK
  <1>2. CASE MeasureStatus(r)
    <2>1. PICK exit \in {0, 1} :
            made' = [made EXCEPT ![r] =
                       [exit |-> exit,
                        out |-> IF exit = 0 THEN worktree[Input[r].repo] ELSE <<>>]]
      BY <1>2 DEF MeasureStatus
    <2>2. (IF exit = 0 THEN worktree[Input[r].repo] ELSE <<>>) \in Statuses
      BY <1>0, PreflightAssumption DEF TypeOK
    <2>3. made' \in [Run -> [exit : {0, 1}, out : Statuses]]
      BY <2>1, <2>2 DEF TypeOK
    <2>4. QED
      BY <1>2, <2>3 DEF MeasureStatus, TypeOK
  <1>3. CASE CommitTrace(r)
    BY <1>0, <1>3 DEF CommitTrace, TypeOK, Artifacts
  <1>4. CASE CommitResult(r)
    BY <1>0, <1>4 DEF CommitResult, TypeOK, Artifacts
  <1>5. CASE FailStaging(r)
    BY <1>5 DEF FailStaging, TypeOK
  <1>6. CASE RollBackTrace(r)
    BY <1>0, <1>6 DEF RollBackTrace, TypeOK, Artifacts
  <1>7. CASE Kill(r)
    BY <1>7 DEF Kill, TypeOK
  <1>8. QED
    BY <1>1, <1>2, <1>3, <1>4, <1>5, <1>6, <1>7 DEF RunStep

(* A step of a run keeps what its past artifacts rest on: phases move       *)
(* forward, and what git status returned is written once.                  *)
LEMMA RunStepKeeps ==
  ASSUME TypeOK, NEW r \in Run, RunStep(r), NEW q \in Run
  PROVE  /\ phase[q] \in Past => phase'[q] \in Past /\ made'[q] = made[q]
         /\ phase[q] = "returned" => phase'[q] = "returned"
         /\ phase[q] \in {"half", "returned", "ended"}
              => phase'[q] \in {"half", "returned", "ended"}
  BY DEF Past, RunStep, CheckInputs, MeasureStatus, CommitTrace, CommitResult,
         FailStaging, RollBackTrace, Kill, TypeOK

(* A run makes neither postchecks nor chains.                               *)
LEMMA RunStepFrame ==
  ASSUME NEW r \in Run, RunStep(r)
  PROVE  UNCHANGED <<postchecks, chains>>
  BY DEF RunStep, CheckInputs, MeasureStatus, CommitTrace, CommitResult,
         FailStaging, RollBackTrace, Kill

(* A step of a run keeps every artifact explained.                         *)
LEMMA RunStepFile ==
  ASSUME TypeOK, FileInv, NEW r \in Run, RunStep(r)
  PROVE  FileInv'
  <1>0. /\ Input[r].trace_out \in Path /\ Input[r].result_out \in Path
    BY PreflightAssumption
  <1>k. \A q \in Run :
          /\ phase[q] = "returned" => phase'[q] = "returned"
          /\ phase[q] \in {"half", "returned", "ended"}
               => phase'[q] \in {"half", "returned", "ended"}
    BY RunStepKeeps
  <1>1. CASE CommitTrace(r)
    <2>1. SUFFICES ASSUME NEW p \in Path, NEW q \in Run
          PROVE  /\ file'[p] = <<"trace", q>> =>
                      p = Input[q].trace_out /\ phase'[q] \in {"half", "returned", "ended"}
                 /\ file'[p] = <<"result", q>> => phase'[q] = "returned"
      BY DEF FileInv
    <2>2. /\ file'[Input[r].trace_out] = <<"trace", r>> /\ phase'[r] = "half"
          /\ p # Input[r].trace_out => file'[p] = file[p]
      BY <1>0, <1>1 DEF CommitTrace, TypeOK
    <2>3. CASE p = Input[r].trace_out
      BY <2>2, <2>3, ArtifactsDiffer
    <2>4. CASE p # Input[r].trace_out
      BY <2>2, <2>4, <1>k DEF FileInv
    <2>5. QED
      BY <2>3, <2>4
  <1>2. CASE CommitResult(r)
    <2>1. SUFFICES ASSUME NEW p \in Path, NEW q \in Run
          PROVE  /\ file'[p] = <<"trace", q>> =>
                      p = Input[q].trace_out /\ phase'[q] \in {"half", "returned", "ended"}
                 /\ file'[p] = <<"result", q>> => phase'[q] = "returned"
      BY DEF FileInv
    <2>2. /\ file'[Input[r].result_out] = <<"result", r>> /\ phase'[r] = "returned"
          /\ p # Input[r].result_out => file'[p] = file[p]
      BY <1>0, <1>2 DEF CommitResult, TypeOK
    <2>3. CASE p = Input[r].result_out
      BY <2>2, <2>3, ArtifactsDiffer
    <2>4. CASE p # Input[r].result_out
      BY <2>2, <2>4, <1>k DEF FileInv
    <2>5. QED
      BY <2>3, <2>4
  <1>3. CASE RollBackTrace(r)
    <2>1. ASSUME NEW p \in Path PROVE file'[p] = file[p] \/ file'[p] = NoFile
      BY <1>3 DEF RollBackTrace, TypeOK
    <2>2. QED
      BY <2>1, ArtifactsDiffer, <1>k DEF FileInv
  <1>4. CASE CheckInputs(r) \/ MeasureStatus(r) \/ FailStaging(r) \/ Kill(r)
    <2>1. file' = file
      BY <1>4 DEF CheckInputs, MeasureStatus, FailStaging, Kill
    <2>2. QED
      BY <2>1, <1>k DEF FileInv
  <1>5. QED
    BY <1>1, <1>2, <1>3, <1>4 DEF RunStep

(* A step of a run preserves the invariant.                                *)
LEMMA RunStepInv ==
  ASSUME IInv, NEW r \in Run, RunStep(r)
  PROVE  IInv'
  <1>1. TypeOK' /\ FileInv'
    BY RunStepType, RunStepFile DEF IInv
  <1>k. \A q \in Run :
          /\ phase[q] \in Past => phase'[q] \in Past /\ made'[q] = made[q]
          /\ phase[q] = "returned" => phase'[q] = "returned"
    BY RunStepKeeps DEF IInv
  <1>2. ASSUME NEW c \in postchecks PROVE PostcheckInv(c)'
    BY <1>2, <1>k DEF IInv, PostcheckInv
  <1>3. ASSUME NEW c \in chains PROVE ChainInv(c)'
    <2>1. c.chain_id \in Run /\ ChainInv(c)
      BY <1>3 DEF IInv, TypeOK
    <2>2. "returned" \in Past
      BY DEF Past
    <2>3. postchecks' = postchecks
      BY RunStepFrame
    <2>4. QED
      BY <1>k, <2>1, <2>2, <2>3 DEF ChainInv, ResultProof
  <1>4. postchecks' = postchecks /\ chains' = chains
    BY RunStepFrame
  <1>5. QED
    BY <1>1, <1>2, <1>3, <1>4 DEF IInv

(* A new postcheck says what the invariant claims of it.                    *)
LEMMA PostcheckStep ==
  ASSUME IInv, NEW tp \in Path, NEW rp \in Path, NEW d \in Repo, Postcheck(tp, rp, d)
  PROVE  IInv'
  <1>1. PICK t \in Run, r \in Run, exit \in {0, 1} :
          /\ file[tp] = <<"trace", t>> /\ file[rp] = <<"result", r>>
          /\ ResultStatus(r) = "success"
          /\ NamesTracePath(r, tp)
          /\ made[t].exit = 0
          /\ d = Input[t].repo
          /\ postchecks' = postchecks \cup
               {[run_id |-> r, trace_ref |-> t, repo |-> d,
                 status |-> Verdict(Excerpt(made[t].out), exit, worktree[d]),
                 trace_path |-> tp, result_path |-> rp, out |-> worktree[d]]}
    BY DEF Postcheck
  <1> DEFINE c == [run_id |-> r, trace_ref |-> t, repo |-> d,
                   status |-> Verdict(Excerpt(made[t].out), exit, worktree[d]),
                   trace_path |-> tp, result_path |-> rp, out |-> worktree[d]]
  <1>2. UNCHANGED <<phase, made, file, worktree, chains>>
    BY DEF Postcheck
  <1>3. made[t].out \in Statuses /\ worktree[d] \in Statuses
    BY DEF IInv, TypeOK
  <1>4. TypeOK'
    <2>1. c.status \in {"passed", "failed", "inconclusive"}
      BY DEF Verdict
    <2>2. c \in [run_id : Run, trace_ref : Run, repo : Repo,
                 status : {"passed", "failed", "inconclusive"},
                 trace_path : Path, result_path : Path, out : Statuses]
      BY <1>3, <2>1
    <2>3. QED
      BY <1>1, <1>2, <2>2 DEF IInv, TypeOK
  <1>5. FileInv'
    BY <1>2 DEF IInv, FileInv
  <1>6. PostcheckInv(c)
    <2>1. phase[t] \in Past
      BY <1>1 DEF IInv, FileInv, Past
    <2>2. c.status = "passed" => Redacted[made[t].out] = Redacted[worktree[d]]
      BY <1>3, PassedMeansUnchanged
    <2>3. QED
      BY <1>1, <2>1, <2>2 DEF PostcheckInv
  <1>7. \A b \in postchecks' : PostcheckInv(b)'
    BY <1>1, <1>2, <1>6 DEF IInv, PostcheckInv
  <1>8. \A b \in chains' : ChainInv(b)'
    BY <1>1, <1>2 DEF IInv, ChainInv, ResultProof
  <1>9. QED
    BY <1>4, <1>5, <1>7, <1>8 DEF IInv

(* A new valid chain has been checked for what the invariant claims of it.  *)
LEMMA ValidateStep ==
  ASSUME IInv, NEW plan \in Plan, NEW tp \in Path, NEW rp \in Path,
         NEW pc \in postchecks, ValidateChain(plan, tp, rp, pc)
  PROVE  IInv'
  <1>1. PICK t \in Run, r \in Run :
          /\ file[tp] = <<"trace", t>> /\ file[rp] = <<"result", r>>
          /\ chains' = chains \cup
               {[chain_id |-> r, action |-> "git-status-read-only",
                 plan_ref |-> PlanId[plan], plan |-> plan, trace_ref |-> t,
                 status |-> ChainStatus(plan, t, r, pc, tp, rp),
                 proof |-> ResultProof(r), postcheck |-> pc]}
    BY DEF ValidateChain
  <1> DEFINE c == [chain_id |-> r, action |-> "git-status-read-only",
                   plan_ref |-> PlanId[plan], plan |-> plan, trace_ref |-> t,
                   status |-> ChainStatus(plan, t, r, pc, tp, rp),
                   proof |-> ResultProof(r), postcheck |-> pc]
  <1>2. UNCHANGED <<phase, made, file, worktree, postchecks>>
    BY DEF ValidateChain
  <1>3. ChainInv(c)
    <2>1. SUFFICES ASSUME ChainStatus(plan, t, r, pc, tp, rp) = "valid" PROVE ChainInv(c)
      BY DEF ChainInv
    <2>2. /\ ResultStatus(r) = "success" /\ pc.run_id = r /\ NamesTracePath(r, tp)
          /\ pc.trace_ref = t /\ pc.status # "failed" /\ pc.status # "inconclusive"
      BY <2>1 DEF ChainStatus
    <2>3. pc.status = "passed"
      BY <2>2 DEF IInv, TypeOK
    <2>4. tp = Input[t].trace_out /\ phase[r] = "returned"
      BY <1>1 DEF IInv, FileInv
    <2>5. made[r].exit = 0
      BY <2>2 DEF ResultStatus
    <2>6. QED
      BY <2>2, <2>3, <2>4, <2>5 DEF ChainInv, NamesTracePath
  <1>4. TypeOK'
    BY <1>1, <1>2 DEF IInv, TypeOK
  <1>5. FileInv' /\ \A b \in postchecks' : PostcheckInv(b)'
    BY <1>2 DEF IInv, FileInv, PostcheckInv
  <1>6. \A b \in chains' : ChainInv(b)'
    BY <1>1, <1>2, <1>3 DEF IInv, ChainInv, ResultProof
  <1>7. QED
    BY <1>4, <1>5, <1>6 DEF IInv

(* Every step preserves the invariant.                                      *)
LEMMA InvariantStep == IInv /\ [Next]_vars => IInv'
  <1> SUFFICES ASSUME IInv, [Next]_vars PROVE IInv'
    OBVIOUS
  <1>1. CASE UNCHANGED vars
    BY <1>1 DEF vars, IInv, TypeOK, FileInv, PostcheckInv, ChainInv, ResultProof
  <1>2. ASSUME NEW d \in Repo, Edit(d) PROVE IInv'
    BY <1>2 DEF Edit, IInv, TypeOK, FileInv, PostcheckInv, ChainInv, ResultProof
  <1>3. QED
    BY <1>1, <1>2, RunStepInv, PostcheckStep, ValidateStep DEF Next

-----------------------------------------------------------------------------
(* Every reachable state satisfies the inductive invariant.                 *)
THEOREM EvidenceInvariant == Spec => []IInv
  <1>1. QED
    BY InvariantInit, InvariantStep, PTL DEF Spec

(* Type correctness of the read-only evidence.                              *)
THEOREM TypeCorrect == Spec => []TypeOK
  <1>1. IInv => TypeOK
    BY DEF IInv
  <1>2. QED
    BY <1>1, EvidenceInvariant, PTL

(* A valid chain is about one run, unless another run was pointed at its    *)
(* trace path.                                                             *)
THEOREM ChainIsOneRun == Spec => []ValidChainIsOneRun
  <1>1. IInv => ValidChainIsOneRun
    <2>1. SUFFICES ASSUME IInv, NEW c \in ValidChains, OwnTracePath(c.chain_id)
                   PROVE  /\ c.trace_ref = c.chain_id
                          /\ c.postcheck.repo = Input[c.chain_id].repo
                          /\ c.proof # Absent
                               => c.proof.repo_toplevel = c.postcheck.repo
      BY DEF ValidChainIsOneRun
    <2>2. /\ ChainInv(c) /\ c.status = "valid" /\ c.chain_id \in Run
          /\ c.trace_ref \in Run
      BY <2>1 DEF IInv, TypeOK, ValidChains
    <2>3. Input[c.trace_ref].trace_out = Input[c.chain_id].trace_out
      BY <2>2 DEF ChainInv
    <2>4. c.trace_ref = c.chain_id
      BY <2>1, <2>2, <2>3 DEF OwnTracePath, Outputs
    <2>5. c.postcheck.repo = Input[c.trace_ref].repo
      BY <2>1, <2>2 DEF IInv, ChainInv, PostcheckInv
    <2>6. c.proof # Absent => c.proof.repo_toplevel = Input[c.chain_id].repo
      BY <2>2 DEF ChainInv, ResultProof, ProofMaterial
    <2>7. QED
      BY <2>4, <2>5, <2>6
  <1>2. QED
    BY <1>1, EvidenceInvariant, PTL

(* A valid chain certifies that git status printed the same twice, up to    *)
(* redaction, for every excerpt limit.                                     *)
THEOREM ChainCertifiesStatus == Spec => []ValidChainCertifiesStatus
  <1>1. IInv => ValidChainCertifiesStatus
    BY DEF IInv, ValidChains, ChainInv, PostcheckInv, ValidChainCertifiesStatus
  <1>2. QED
    BY <1>1, EvidenceInvariant, PTL

(* A valid binding goes back to a completed preflight of exactly its plan.  *)
THEOREM BindingIsOfPreflight == Spec => []BindingGoesBackToPreflight
  <1>1. IInv => BindingGoesBackToPreflight
    <2>1. SUFFICES ASSUME IInv, NEW plan \in Plan, NEW c \in chains,
                          PreflightBinding(plan, c).binding_state = "binding_valid"
                   PROVE  /\ Input[c.chain_id].preflight = plan
                          /\ phase[c.chain_id] = "returned"
                          /\ made[c.chain_id].exit = 0
                          /\ c.postcheck.run_id = c.chain_id
                          /\ c.postcheck.status = "passed"
      BY DEF BindingGoesBackToPreflight
    <2>2. c.status = "valid" /\ ProofMatches(c.proof, plan)
      BY <2>1 DEF PreflightBinding
    <2>3. ChainInv(c)
      BY <2>1 DEF IInv
    <2>4. Input[c.chain_id].preflight = plan
      BY <2>2, <2>3 DEF ChainInv, ResultProof, ProofMaterial, ProofMatches, Sha
    <2>5. QED
      BY <2>2, <2>3, <2>4 DEF ChainInv
  <1>2. QED
    BY <1>1, EvidenceInvariant, PTL
=============================================================================
