--------------------------- MODULE PreflightEvidence ---------------------------
(***************************************************************************)
(* The read-only evidence that a pull plan needs before it can run:         *)
(*   action run-read-only       git status of a repository, published as a  *)
(*                              trace file and a result file,               *)
(*   action postcheck-read-only the same status again, compared,            *)
(*   action validate-run-chain  plan, trace, result and postcheck together. *)
(* The runs are processes of their own: several may be given the same       *)
(* output paths, and the repositories change under them.  The staging of   *)
(* the two files is the business of ArtifactCommit; here a commit is the    *)
(* two os.replace calls and the rollback of the first.                     *)
(*                                                                         *)
(* What git status prints is a sequence of lines; redaction may make it    *)
(* longer or shorter.                                                      *)
(***************************************************************************)
EXTENDS StageDGates, Integers, Sequences, FiniteSets

CONSTANTS Run,            \* calls of run_read_only_action
          Input,          \* Input[r]: plan, preflight (a plan or Absent),
                          \*           repo, trace_out and result_out of r
          Path,           \* artifact paths
          Repo,           \* git toplevels
          Line,           \* lines of text
          Statuses,       \* outputs of git status
          Redacted,       \* Redacted[s]: s after _redact_text
          Limit,          \* _EXCERPT_LIMIT, in lines
          MaxPostchecks,  \* bounds on the artifacts a behaviour produces
          MaxChains

ASSUME PreflightAssumption ==
  /\ Input \in [Run -> [plan : Plan, preflight : Plan \cup {Absent}, repo : Repo,
                        trace_out : Path, result_out : Path]]
  /\ Absent \notin Plan
  /\ Statuses \subseteq Seq(Line) /\ <<>> \in Statuses
  /\ Redacted \in [Statuses -> Seq(Line)]
  /\ Limit \in Nat

VARIABLES phase,       \* control point of each run
          made,        \* made[r]: what git status returned to r
          file,        \* file[p]: <<kind, run>> of the artifact at p
          worktree,    \* worktree[d]: what git status would print now
          postchecks,  \* run-postcheck.v1 artifacts
          chains       \* run-evidence-chain.v1 artifacts

vars == <<phase, made, file, worktree, postchecks, chains>>

NoFile == <<"none">>
Artifacts == {NoFile} \cup ({"trace", "result"} \X Run)
Outputs(r) == {Input[r].trace_out, Input[r].result_out}

TypeOK ==
  /\ phase \in [Run -> {"start", "checked", "measured", "half", "returned",
                        "ended"}]
  /\ made \in [Run -> [exit : {0, 1}, out : Statuses]]
  /\ file \in [Path -> Artifacts]
  /\ worktree \in [Repo -> Statuses]
  /\ postchecks \subseteq
       [run_id : Run, trace_ref : Run, repo : Repo,
        status : {"passed", "failed", "inconclusive"},
        trace_path : Path, result_path : Path, out : Statuses]
  /\ \A c \in chains : c.chain_id \in Run /\ c.trace_ref \in Run

Init ==
  /\ phase = [r \in Run |-> "start"]
  /\ made = [r \in Run |-> [exit |-> 0, out |-> <<>>]]
  /\ file = [p \in Path |-> NoFile]
  /\ worktree = [d \in Repo |-> <<>>]
  /\ postchecks = {} /\ chains = {}

-----------------------------------------------------------------------------
(* _excerpt(_redact_text(s)): redacted, then cut at the limit.              *)
Excerpt(s) ==
  SubSeq(Redacted[s], 1, IF Len(Redacted[s]) <= Limit THEN Len(Redacted[s]) ELSE Limit)

(* run-result.v1 of run r.                                                 *)
ResultStatus(r) == IF made[r].exit = 0 THEN "success" ELSE "failure"
ResultProof(r) ==
  IF Input[r].preflight = Absent
    THEN Absent
    ELSE ProofMaterial(Input[r].preflight, Input[r].repo)

(* Mutant: the binding of a trace to a result by its path is not checked.  *)
AnyTracePath(r, path) == path \in Path

(* The evidence paths of a run result name its own trace output.           *)
NamesTracePath(r, path) == path = Input[r].trace_out

-----------------------------------------------------------------------------
(* run_read_only_action: the plan must be the read-only one, a preflight    *)
(* target must be a pull plan, and nothing may be at the two paths.        *)
CheckInputs(r) ==
  /\ phase[r] = "start"
  /\ LET in == Input[r]
         accepted == /\ PlanAction[in.plan] = "git-status-read-only"
                     /\ in.preflight # Absent
                          => PlanAction[in.preflight] = "git-pull-ff-only"
                     /\ in.trace_out # in.result_out
                     /\ \A p \in Outputs(r) : file[p] = NoFile
     IN phase' = [phase EXCEPT ![r] = IF accepted THEN "checked" ELSE "ended"]
  /\ UNCHANGED <<made, file, worktree, postchecks, chains>>

(* Mutant: a git that a signal ended keeps its negative return code.        *)
MeasureRawExit(r) ==
  /\ phase[r] = "checked"
  /\ \E exit \in {0, 1, 0 - 9} :
        made' = [made EXCEPT ![r] =
                   [exit |-> exit,
                    out |-> IF exit = 0 THEN worktree[Input[r].repo] ELSE <<>>]]
  /\ phase' = [phase EXCEPT ![r] = "measured"]
  /\ UNCHANGED <<file, worktree, postchecks, chains>>

(* The bounded git status, whose output becomes trace and result.          *)
MeasureStatus(r) ==
  /\ phase[r] = "checked"
  /\ \E exit \in {0, 1} :
        made' = [made EXCEPT ![r] =
                   [exit |-> exit,
                    out |-> IF exit = 0 THEN worktree[Input[r].repo] ELSE <<>>]]
  /\ phase' = [phase EXCEPT ![r] = "measured"]
  /\ UNCHANGED <<file, worktree, postchecks, chains>>

CommitTrace(r) ==
  /\ phase[r] = "measured"
  /\ file' = [file EXCEPT ![Input[r].trace_out] = <<"trace", r>>]
  /\ phase' = [phase EXCEPT ![r] = "half"]
  /\ UNCHANGED <<made, worktree, postchecks, chains>>

CommitResult(r) ==
  /\ phase[r] = "half"
  /\ file' = [file EXCEPT ![Input[r].result_out] = <<"result", r>>]
  /\ phase' = [phase EXCEPT ![r] = "returned"]
  /\ UNCHANGED <<made, worktree, postchecks, chains>>

(* Staging or the first os.replace raises: nothing is at the paths.        *)
FailStaging(r) ==
  /\ phase[r] = "measured"
  /\ phase' = [phase EXCEPT ![r] = "ended"]
  /\ UNCHANGED <<made, file, worktree, postchecks, chains>>

(* The second os.replace raises: the trace is unlinked, unless that fails   *)
(* too.                                                                    *)
RollBackTrace(r) ==
  /\ phase[r] = "half"
  /\ file' \in {file, [file EXCEPT ![Input[r].trace_out] = NoFile]}
  /\ phase' = [phase EXCEPT ![r] = "ended"]
  /\ UNCHANGED <<made, worktree, postchecks, chains>>

(* The process dies.                                                       *)
Kill(r) ==
  /\ phase[r] \in {"checked", "measured", "half"}
  /\ phase' = [phase EXCEPT ![r] = "ended"]
  /\ UNCHANGED <<made, file, worktree, postchecks, chains>>

(* Somebody works in a repository.                                         *)
Edit(d) ==
  /\ \E s \in Statuses \ {worktree[d]} : worktree' = [worktree EXCEPT ![d] = s]
  /\ UNCHANGED <<phase, made, file, postchecks, chains>>

-----------------------------------------------------------------------------
(* run_read_only_postcheck.                                                *)

(* Mutant: an excerpt that fills the limit is taken for the whole output.  *)
VerdictTrustingFullExcerpt(recorded, exit, now) ==
  IF exit # 0 THEN "inconclusive"
  ELSE IF Len(now) > Limit \/ Len(recorded) > Limit THEN "inconclusive"
  ELSE IF Excerpt(now) = recorded THEN "passed"
  ELSE "failed"

(* recorded: the excerpt in the trace; now: what git status prints now.     *)
Verdict(recorded, exit, now) ==
  IF exit # 0 THEN "inconclusive"
  ELSE IF Len(now) > Limit \/ Len(recorded) >= Limit THEN "inconclusive"
  ELSE IF Excerpt(now) = recorded THEN "passed"
  ELSE "failed"

(* The files at the given paths are read; every ValueError leaves no        *)
(* artifact, so it is not a step.                                          *)
Postcheck(tp, rp, d) ==
  /\ Cardinality(postchecks) < MaxPostchecks
  /\ \E t, r \in Run, exit \in {0, 1} :
        /\ file[tp] = <<"trace", t>> /\ file[rp] = <<"result", r>>
        /\ ResultStatus(r) = "success"
        /\ NamesTracePath(r, tp)
        /\ made[t].exit = 0
        /\ d = Input[t].repo
        /\ postchecks' = postchecks \cup
             {[run_id |-> r, trace_ref |-> t, repo |-> d,
               status |-> Verdict(Excerpt(made[t].out), exit, worktree[d]),
               trace_path |-> tp, result_path |-> rp, out |-> worktree[d]]}
  /\ UNCHANGED <<phase, made, file, worktree, chains>>

(* validate_run_evidence_chain over trace t, result r and postcheck c.      *)
ChainStatus(plan, t, r, c, tp, rp) ==
  LET broken ==
        \/ PlanAction[plan] # "git-status-read-only"
        \/ made[t].exit # 0
        \/ ResultStatus(r) # "success"
        \/ c.run_id # r
        \/ ~NamesTracePath(r, tp)
        \/ c.trace_path # tp \/ c.result_path # rp
        \/ c.trace_ref # t
        \/ PlanId[Input[r].plan] # PlanId[plan]
        \/ Sha(Input[r].plan) # Sha(plan)
        \/ c.status = "failed"
  IN IF broken THEN "invalid"
     ELSE IF c.status = "inconclusive" THEN "inconclusive"
     ELSE "valid"

ValidateChain(plan, tp, rp, c) ==
  /\ Cardinality(chains) < MaxChains
  /\ \E t, r \in Run :
        /\ file[tp] = <<"trace", t>> /\ file[rp] = <<"result", r>>
        /\ chains' = chains \cup
             {[chain_id |-> r, action |-> "git-status-read-only",
               plan_ref |-> PlanId[plan], plan |-> plan, trace_ref |-> t,
               status |-> ChainStatus(plan, t, r, c, tp, rp),
               proof |-> ResultProof(r), postcheck |-> c]}
  /\ UNCHANGED <<phase, made, file, worktree, postchecks>>

RunStep(r) ==
  \/ CheckInputs(r) \/ MeasureStatus(r) \/ CommitTrace(r) \/ CommitResult(r)
  \/ FailStaging(r) \/ RollBackTrace(r) \/ Kill(r)

Next ==
  \/ \E r \in Run : RunStep(r)
  \/ \E d \in Repo : Edit(d)
  \/ \E tp, rp \in Path, d \in Repo : Postcheck(tp, rp, d)
  \/ \E plan \in Plan, tp, rp \in Path, c \in postchecks :
        ValidateChain(plan, tp, rp, c)

Spec == Init /\ [][Next]_vars

-----------------------------------------------------------------------------
(* Properties.                                                             *)

(* No other run was given the trace path of r.                             *)
OwnTracePath(r) == \A q \in Run \ {r} : Input[r].trace_out \notin Outputs(q)

ValidChains == {c \in chains : c.status = "valid"}

(* A chain verdict "valid" is about one run, when no other run was pointed  *)
(* at its trace path: the trace is the run's own, so the status that was    *)
(* measured and rechecked is the one of the repository the run's proof      *)
(* material names.  Only the path ties trace and result together            *)
(* (validate_run_evidence_chain, run_read_only_postcheck).                 *)
ValidChainIsOneRun ==
  \A c \in ValidChains :
     OwnTracePath(c.chain_id)
       => /\ c.trace_ref = c.chain_id
          /\ c.postcheck.repo = Input[c.chain_id].repo
          /\ c.proof # Absent => c.proof.repo_toplevel = c.postcheck.repo

(* A valid chain certifies an unchanged worktree: what git status printed   *)
(* for the trace and what it printed at the postcheck are the same, apart  *)
(* from redacted text, although only excerpts were compared and the rules   *)
(* for a truncated excerpt measure one before and one after redaction      *)
(* (run_read_only_postcheck).                                              *)
ValidChainCertifiesStatus ==
  \A c \in ValidChains :
     /\ made[c.trace_ref].exit = 0
     /\ Redacted[made[c.trace_ref].out] = Redacted[c.postcheck.out]

(* A valid preflight binding to a plan goes back to a run that completed,   *)
(* that succeeded, and that was started as the preflight of exactly that    *)
(* plan content, whatever plan ids are shared (the proof material of        *)
(* run_read_only_action through chain and binding).                        *)
BindingGoesBackToPreflight ==
  \A plan \in Plan, c \in chains :
     PreflightBinding(plan, c).binding_state = "binding_valid"
       => /\ Input[c.chain_id].preflight = plan
          /\ phase[c.chain_id] = "returned"
          /\ made[c.chain_id].exit = 0
          /\ c.postcheck.run_id = c.chain_id
          /\ c.postcheck.status = "passed"

(* The chain verifier's documentation: the four artifacts are validated as  *)
(* one coherent chain, so trace and result of a valid chain are of one run. *)
ValidChainIsCoherent == \A c \in ValidChains : c.trace_ref = c.chain_id
=============================================================================
