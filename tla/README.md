# steuerboard in TLA+

This directory holds a model of steuerboard (`src/steuerboard/`), the TLC
configurations that check it on small instances and the TLAPS proofs of what
matters most for every instance. `PROJECT.json` lists components, runs, mutants,
hazards and theorems, and maps every definition to the lines it models.

Check a run with `tlc -config <cfg> <module>.tla`, a proof with `tlapm <module>.tla`.

## The system

steuerboard is a command line program over git repositories. Every command is one
process; there is no daemon and no lock. Commands communicate through JSON
artifacts on disk (schema `*.v1`) that the caller names on the command line, and
the repositories they look at belong to people who work in them at the same time.
The rule of the design is *observation ≠ derivation ≠ decision ≠ action*:

```
 inventory / local config ──► observe ──► assess ──► plan
                                                      │ action-plan.v1
     human ──► action-approval.v1 ──► validate-approval
                                                      │
   plan(status) ─► run-read-only ─► postcheck ─► validate-run-chain ─► bind-preflight
                                                      │
   switch-main-preflight-proof.v1 ─► validate-switch-main-readiness
                                                      ▼
                      run-git-pull-ff-only      run-switch-main        (Stage D)
   assessment id ─► remote-refresh fetch-origin-prune ─► refresh result ─► plan
   runbooks ─► read-only gates with one set of outputs each
```

| component | state it keeps | operations | what makes it correct |
|---|---|---|---|
| artifact commit (`_write_artifacts_atomic`, `_write_json_atomic`, … in eight files) | temporaries and final files | check targets absent, stage, `os.replace` in order, unwind | a torn set can be told from a complete one; a failed commit leaves nothing |
| Stage D gates (`action_approval_validations`, `action_preflight_bindings`, `action_execution_readiness`, `canonical_json`) | none, pure | artifact(s) → artifact | nothing but the exact approved content passes, whatever is combined |
| read-only evidence (`action_runs`, `run_postchecks`, `run_evidence_chains`) | artifacts; reads the worktree twice | run, postcheck, validate chain | a valid chain is about one run and an unchanged worktree |
| git-pull-ff-only runner (`action_git_pull`) | HEAD and worktree of a repository, three artifacts | gate, check, pull, judge, publish | only authorised pulls; verdicts are about the run's own pull |
| switch-main readiness and runner (`action_switch_main_readiness`, `action_switch_main`) | branch and worktree, three artifacts | readiness; gate, check, switch, judge, publish | only authorised switches, only from a proven branch |
| remote refresh (`remote_refresh`, `remote_refresh_results`) | remote-tracking refs, a trace; returns a result | gate, read, fetch, read again, write the trace, judge | the result says what the fetch did; only in a canonical checkout |
| planner (`action_plans`), observation and assessment (`observation`, `assessment*`) | none; reads git several times | observe, assess, plan | an assessment says what is there; a plan follows from it |
| runbooks (`runbooks`) | a result, a trace and for two kinds an artifact beside the trace | observe or check, decide, publish | verdicts are earned; all-or-nothing outputs |
| heimserver service gate (`heimserver_service_gate*`) | one artifact | read three artifacts by hash, derive, write | a verdict on the approved bytes; no overwrite of somebody else's file |
| inventory, scope, local config (`inventory`, `local_config`) | none | discover, classify, rank duplicates, allow | one canonical checkout per repository |
| reports (`operator_report`, `omnipull_*`, `recent_problem_repos`, `branch_drift`) | none | aggregate documents | – |
| schema validation, command line | none | – | exceptions map to the blocked answer |

**What is hard here.** Several processes with the same output paths; files and
repositories that change between two reads; a commit that fails or dies between
two `os.replace` calls, and an unlink that fails while the first failure is
undone; artifacts made for different plans, runs or repositories and combined in
one call; plan ids that are not unique; a validation that is older than the
expiry of its approval; excerpts at their limit; git commands that fail after
they have moved HEAD; a git command that fails and whose silence reads as an
answer; two observations of one repository in one call; a fixed file name that
calls in one directory share; input artifacts replaced while they are read. There are no retries in the program, no messages, no
shared memory. `PROJECT.json` lists every hazard at its line.

## Modules

| module | models | kind |
|---|---|---|
| `EvidencePublication` | what a run promises about its set of artifacts | abstract specification |
| `ArtifactCommit` | the staged multi-file commit, with failures, unwinding and kills | state machine, implements `EvidencePublication` |
| `StageDGates` | the pure artifact gates | operators |
| `PreflightEvidence` | read-only runs, postchecks, chains and bindings | state machine over `StageDGates` |
| `GitPullRun` | the pull runner, several of them, in repositories others work in | state machine over `StageDGates` and `EvidencePublication` |
| `SwitchMainRun` | readiness and the switch runner | state machine over `StageDGates` and `EvidencePublication` |
| `PullPipeline` | both together: the chains a pull is given are produced by the runs and postchecks | composition of `PreflightEvidence` and `GitPullRun` |
| `RepoScope` | local config, policy, scope of a path, inventory and shadows | operators |
| `AssessmentRules` | assessment rules, provenance, refresh validity, the two planners | operators over `RepoScope` |
| `PullPlanning` | observing, assessing and refreshing, in repositories others work in | state machine over `AssessmentRules` |
| `GateChecks` | the verdicts of the six runbook kinds, the service gate's producer | operators over `AssessmentRules` |
| `RunbookRun` | runbook calls of all kinds, their artifacts and their commit | state machine over `GateChecks` and `EvidencePublication` |
| `*_proofs` | theorems about the module of the same name (`AssessmentRules_proofs`: about `RepoScope`, too) | proofs |
| `MC*` | small instances | model checking |

`ArtifactCommit` shows once that the file protocol keeps the promise of
`EvidencePublication`; the two runners then publish through the actions of
`EvidencePublication`, so their state spaces hold no temporaries. `RunbookRun` has
a commit of its own shape (a third artifact written earlier, a handler that reports
what it could not undo), so it keeps its temporaries and is itself shown to
implement `EvidencePublication`.

### ArtifactCommit

A writer is one call. `phase` is its control point, `next` the index of the loop,
`file[p]` whose artifact is at path `p`, `partial`/`full` the temporaries being
written or complete, `tracked` those the exception handler knows, `committed`
the targets it has moved. `RequireOutputPath` is one existence check, `MakeTemp`
and `WriteTemp` are one temporary, `Replace` one `os.replace` (it overwrites),
`Fail` any handled exception, `UnlinkTarget`/`UnlinkTemp` one step of the handler,
each with a branch where the unlink fails and is swallowed, `Kill` the death of
the process or an interrupt the handlers do not catch. The one difference between
the writers of the program, whether the temporary being written is already known
to the handler, is the constant `TracksOpenTemp`.

### StageDGates

A plan is identified with its content and its SHA-256 with the plan: the hash is
taken to be injective. Plan ids are a separate function, not injective. Fields no
later gate reads are left out, as are schema validation and the redaction flags
(every writer sets them to true).

### PreflightEvidence

`made[r]` is what git status gave run `r`; `file`, `worktree`, `postchecks` and
`chains` are the world. Text is a sequence of lines; `Redacted` may lengthen or
shorten it; `Excerpt` cuts after redaction, `Verdict` measures the old text after
and the new text before redaction, as the code does. A call that ends in
ValueError writes nothing and is no step.

### GitPullRun and SwitchMainRun

`AcceptInputs` passes *any* combination of a plan, a validation (of any plan and
approval at any time the caller names), a chain or readiness and a binding through
the gates; `Refuse` is every failed precondition (the command line answers
"blocked"). Then one action per look at the repository and one for the git
command, so anything may happen between. `git pull --ff-only` and `git switch main`
are external: they succeed, report nothing to do, fail, or fail after they have
moved HEAD (hooks, signals), and after a move the worktree may be dirty.
What `git pull` prints is read by the runner as one question, whether it has the English
wording for "already up to date" (`recognised`): git speaks the language of the caller's
environment, so this is certain only for the runs in `EnglishGit`
(`IsAlreadyUpToDateOutput`), and the output of a fast-forward may have the wording, too.
Outsiders edit, commit, reset, switch and push. `disturbed`, `now` and the records
`pulled`/`switched` are history: no action of a runner decides on `disturbed` or
`now`.

### PullPipeline

`GitPullRun` takes any chain that a read-only run could have left; here the runs and
postchecks of `PreflightEvidence` make it. The two modules share one state: the
worktree of a repository (`tree` as the runners see it, `worktree` as the lines of
git status print it, `TreeOf` between them) and the chains, where the record a runner
reads (`ChainRead`) is what validation wrote, without the fields no gate looks at.
A step is a run or a postcheck (`ReadOnlyStep`), the validation of a chain, which is then
there for the runners (`SupplyEvidence`), an edit (`EditWorktree`), of which a runner sees
only whether the worktree has become clean or dirty, a step of a runner, whose pull may
change what git status prints (`RunnerStep`), or one of another outsider.

### RepoScope and AssessmentRules

A path is a directory of the host; `Disk[p]` holds what the file system and git say
about it (its ancestors, whether a segment of its name says backup or Google Drive,
whether it is a link, has a `.git` entry, is a worktree, and of which toplevel), so
`ClassifyScope`, the walk of the inventory, the shadow ranking and the duplicates
report are functions of it and of the local config. `DerivedStatus` to
`FreshnessRefs` are `assess_repo` with its provenance; `PlanSwitchMain` and
`PlanGitPull` are the planners, `SwitchPlannable` and `PullPlannable` every
ValueError of theirs. Lists are sets: no reader depends on their order.

### PullPlanning

An assessor is one call of `assess_repo`: `ProbeWorktree`, `ReadStatus`,
`ReadBranch`, `ReadUpstream`, `ReadCounts` are the git commands of `observe_repo`,
each of which may fail, and `Conclude` the rules. A refresher is one call of
`run_fetch_origin_prune`: `Admit` (policy, trace path, scope, origin), three
readings, `Fetch`, the three readings again, `WriteTrace`. `complaint[r]` stands
for the postcheck messages, `before[r]` for the values not yet compared.
Outsiders edit, check out, commit, fetch and push. Planning is a function of the
documents there are, so properties about plans quantify over every pair of them
and it is no step. `unread`, `disturbed`, `contested` and what remains of `fetched`
after the call are history.

### GateChecks and RunbookRun

A call is one `run_runbook`. `kind[c]` is fixed by `Admit`; then the steps of the
kind: two observations (`Observe`, `Assess`), one `EvaluateCheck` per check of the
plan, `CollectFacts`/`WriteFacts`/`PlaceFacts`, or `LoadInput` once per input
artifact, `Derive`, `WriteAssessment`, `RecheckTarget`, `PlaceAssessment`. An input
artifact has versions; the plan names the hashes of one (`approved`), somebody may
have put any other at the path when it is read. The technical errors of adapter and
writer are one action each. `BuildResult` to `PlaceResult` are the commit,
`PublishFails`, `CleanUp` and `Raise` its handler, where each unlink may fail, and
`Unexpected` the service gate's handler, which unlinks whatever is at the path of
the assessment. `server-facts.json` and the assessment have fixed names beside the
trace, so two calls may share them.

## Runs

Liveness is checked for `ArtifactCommit` only. Its fairness is weak fairness of
`Proceed(w)`: a process that is alive and not blocked is scheduled by the operating
system. No fairness is assumed of `Kill`, of failures or of the order of writers.
The other modules have no liveness claim: a command waits for git (or, in a runbook,
for the resolver), for which the code has no timeout, and everything else is a
straight line. The half of `EveryCallEnds` that needs no fairness is proved: a call that
has not ended always has a step to take (`CallsNeverWait`) and has at most 6n+2 of them
for n artifacts (`CallsEndInBoundedSteps`).

| run | instance | shows |
|---|---|---|
| `commit` | three writers of the three shapes (3, 2 and 1 files; two share a path) | type, commit marker, unwinding, refinement of `EvidencePublication`, every call ends |
| `commit_partial` | same | **violated**: after an exception nothing of the set is in place |
| `preflight` | two runs, own trace paths, common result path; two pull plans with one id; excerpt limit 2 with outputs of 0–3 lines, redaction that lengthens and shortens; one postcheck, one chain | what a valid chain and a valid binding certify |
| `preflight_mixed` | the two runs share the trace path | **violated**: trace and result of a valid chain are of one run |
| `pull_race` | two runners, one with an English git, and outsiders in one repository; local commits; a read-only run that was nobody's preflight | type, passed means own fast-forward (English, or undisturbed), exact verdicts, evidence only of pulls |
| `pull_expiry` | time passes | **violated**: no pull at or after the expiry of its approval |
| `switch` | two symmetric runners, outsiders, three branches; proofs that differ from a complete one in one statement, two switch plans with one id, one foreign plan | type, every switch authorised, only proven branches are left, exact verdicts, evidence only of switches |
| `pull_pipeline` | two read-only runs, one of them in another repository, one postcheck, one runner, outsiders; three plans, three approvals, up to two chains | every pull of the composed system is authorised and goes back to a run that measured its repository for its plan |
| `planning` | one assessor, two symmetric refreshers with one trace path; two repositories and a link to one of them, four local configs; any one kind of readable command may fail | type, what an assessment says of an undisturbed repository, the planners take every assessment, what a plan and its freshness rest on, what result and trace tell, one acting checkout |
| `refresh_evidence` | same | **violated**: a call that has fetched leaves evidence of it |
| `runbooks` | a call of each kind and one of the two kinds with an artifact, traces in one directory; plans of 0–2 checks, six answers, eight observations, six versions of the inputs | type, verdicts are earned, the commit marker, clean-ups, no interference, refinement of `EvidencePublication` |
| `sync_gate` | same | **violated**: a diagnosis that looks unblocked passes |

Bounds. Two writers are enough to interfere on a path, the third writer supplies
the third shape and is undisturbed. Two runners in one repository
give every order of their steps; a third adds no new pair. `MaxTip = 1` distinguishes
"something to pull" from "nothing"; `MaxOwn = 1` is a diverged branch; `MaxTime = 1`
is before and at the expiry; `MaxChains = 2` lets plan and binding use different
chains. In `pull_race` the constraint `OneAlone` lets only one runner start where
there are or have been local commits, or where time has passed (the second adds no
race of its own to either: the theorems cover it); one runner's git is English there,
the other's is not. In `planning`, `MaxTip = 1` again is "something to fetch", `MaxChanges = 1`
lets one outside change fall between any two commands (what is claimed about a
disturbed call does not depend on how many there were), and `MaxUnread = 1` lets one
kind of command fail in one call, which tells each failure apart; the constraint
`Pairwise` gives up the states where a command has failed, somebody has worked here and
a second refresher starts before the first has returned, all three, which only the
theorems cover; `ExitCodes` are
success and a signal. Calls name the root `home` and the link `alias`, so that scope is
asked of paths that are no toplevel. The four configs are: two roots of which one is the
link, an excluded original, an excluded link under a policy that forbids the fetch, and no config. In
`runbooks` the constraint `Alone` leaves the second call out while the first is of a kind that
shares no output with anybody. In `switch`, policy lets every runner through, and the
proof of a checkout that is on main already is left out; the theorems cover both. In
`pull_pipeline` there are one runner, two runs, `MaxPostchecks = 1`, `MaxChains = 2`,
`MaxTip = 1`, `MaxOwn = MaxTime = 0`: what is asked there is who made the chain and
whether the pull was approved (the time of the validation is the caller's, not `now`);
real time, local commits and a second runner are the business of the runs above, and a
runner its policy refuses that of the theorem. Where there are two chains, the constraint
`MixedChains` follows only the gates and the pull, in clean worktrees nobody else touches.
The proofs (below) need none of these bounds; they only serve TLC. `CHECK_DEADLOCK` is off
for `ArtifactCommit`, `PullPlanning` and `RunbookRun`, where every call ends and nothing
is left to do.

Every property of a passing run has a mutant in `PROJECT.json`: a definition changed
the way a plausible bug would change it, under which TLC finds the property violated.
The mutated forms stand next to the definitions they mutate.

### Disagreements between code and documents

1. The docstring of `_write_artifacts_atomic` (`action_git_pull.py:133-135`) says a
   caller *never* observes a partial set; an unlink that fails during the unwinding
   leaves one (`CallerNeverSeesPartialSet`). What does hold in every case is weaker and
   proved: the last artifact is there only with all the others and after the call has
   returned (`LastArtifactIsCommitMarker`).
2. `docs/action-model.md:180,211` call a valid chain coherent. Trace and result are
   tied by the trace's path alone, so two concurrent runs with one trace path can make
   a valid chain of the trace of one and the result of the other
   (`ValidChainIsCoherent`). With a trace path of its own a run is safe
   (`ValidChainIsOneRun`, proved).
3. `docs/approval-model.md:14`: "Approval must expire." The runners read the verdict of a
   validation, not the approval's expiry and no clock (`PullsBeforeExpiry`).
4. `docs/remote-refresh-model.md:54`: "failed fetches or postcheck mismatches remain
   explicit evidence". When the branch cannot be read after the fetch
   (`remote_refresh.py:166`), the call ends in ValueError with neither trace nor result
   (`FetchRemainsEvidence`).
5. `docs/runbook-model.md:89`: "`passed` means local diagnosis looked unblocked at check
   time"; the text for a passed gate (`runbooks.py:463-464`) calls missing remote freshness
   expected, and `examples/runbook-results/repo-sync-gate-passed.json` shows the case. But
   `check_decision_state` passes only on `assessment_clear`, which `assess_repo` never
   concludes, for want of that freshness. The gate ends inconclusive
   (`UnblockedDiagnosisPasses`); that it never passes at all is proved (`SyncNeverPasses`).

Smaller things met while modelling, for which no run is spent:

- The comment on the passed branch of `run_git_pull_ff_only` (`action_git_pull.py:514`)
  says "fast-forward confirmed". An up-to-date pull is recognised by English words
  (`:77-80`), and `_run_git` (`:93-94`) does not set the language. With another language
  the code falls through to the comparison with `head_before`, and if somebody else has
  moved HEAD since that was read, the run passes without having fast-forwarded anything.
  `PassedIsFastForward` excepts exactly that, and is proved.
- `assess_repo` never concludes `assessment_clear` (`docs/assessment-model.md:28` lists
  it), so the switch planner's "not applicable" answer comes only next to statuses of the
  pull.
- `explain_scope` never says `scope_shadow`: only the inventory compares checkouts. A
  refresh is therefore not refused in a checkout the inventory calls a shadow.
- A pull plan may carry `not_observed_no_fetch` (of the assessment) and
  `fetch_origin_prune.fresh` (of the refresh) side by side.
- The kinds that list steps let a blocked step outweigh an inconclusive one, the kinds
  that evaluate checks the other way round (`OverallStatus`, `RequiredVerdict`).
- The handler of the service gate and the rollback of the facts unlink by path; where
  two calls overlap they remove the other's file. `OthersAreLeftAlone` says that only then.
- An unlink of the temporary file of an auxiliary artifact that fails is swallowed
  (`runbooks.py:1453`, `heimserver_service_gate_writer.py:348`).

## Proofs

TLAPS checks, for all values of the constants under the named assumptions
`CommitAssumption`, `GatesAssumption`, `PreflightAssumption`, `PullAssumption`,
`SwitchAssumption`, `PipelineAssumption`, `RunbookAssumption`, `ScopeAssumption`,
`PlanningAssumption` and `AbsentAssumption` (the shape of the inputs, of the disk and of the repositories; there
are finitely many paths; `Absent` is none of the records):

- `ArtifactCommit_proofs`: `CommitInvariant`, `TypeCorrect`, `CommitMarker`,
  `UnwindingRestores`, `AtomicPublication`. `LastArtifactIsCommitMarker` is not
  inductive: it needs that in phase "committing" exactly the outputs before `next`
  are committed (`StageInv`), that what is visible of a writer is among what it has
  committed, and that an output once overwritten never comes back (`VisibleInv`).
  The refinement maps each step to a step of `EvidencePublication` or a stutter.
  `OnlyCompleteIsPublished`: `os.replace` moves only what was written completely, and a
  call that returns leaves no temporary (`TempInv`: which temporaries there are at each
  control point). `CallsEndInBoundedSteps` and `CallsNeverWait` are about progress: `Rank`
  counts the steps a call has at most before it, phase by phase in the order of the code,
  and while unwinding one for each file still to be unlinked. Every step of the call
  lowers it, whatever fails, no step of another changes it, it is at most 6n+2 for n
  artifacts and 0 exactly at the end; and no guard of a call asks about another call.
- `PreflightEvidence_proofs`: `EvidenceInvariant`, `ChainIsOneRun`,
  `ChainCertifiesStatus`, `BindingIsOfPreflight`. The invariant says that an artifact
  at a path goes back to a run that was given that path (`FileInv`), what a postcheck
  says of the run it read (`PostcheckInv`) and what a valid chain was checked for
  (`ChainInv`); it is inductive because what git status returned is written once.
  Lemmas `ShortExcerpt` and `PassedMeansUnchanged` carry the argument about excerpts:
  a recorded excerpt shorter than the limit is the whole redacted text, and an equal
  excerpt is then the whole, too.
- `GitPullRun_proofs`: `TypeCorrect`, `PullsAreAuthorised`, `PassedIsOwn`,
  `UndisturbedIsExact`, `EvidenceIsOfPulls`. `GatesAuthorise` is the pure part: the
  gates together force validation, binding and chain to be of the one plan content.
  `AuthInv` keeps that while the runner goes on, `PullInv` ties records to control
  points and says what a pull's exit code, the wording and a moved HEAD let one tell
  (`Told`), `ExactInv` states what an undisturbed runner may rely on, and the frame
  lemmas that others take it away only by disturbing it. `PassedIsOwn` rests on both: on `Told` alone
  where git speaks English, on `Told` and `ExactInv` (HEAD is where the pull has left it, so
  the comparison is with the run's own pull) where it may not. `PullGatesAreExact` is the
  converse of `GatesAuthorise`, too: it lists, once, what artifacts the gates of four
  modules together let through, and that they refuse nothing on that list. `RunsPullOnce`
  is an action property: a runner touches a repository only by the one pull it was
  authorised for, what it has recorded is never rewritten, and it has returned exactly
  when its whole evidence is in place (`AccountInv`: which records and which state of
  the publication belong to which control point).
- `SwitchMainRun_proofs`: `TypeCorrect`, `SwitchesAreAuthorised`, `LeavesProven`,
  `UndisturbedIsExact`, `EvidenceIsOfSwitches`. Here other runners are *not* counted
  as a disturbance; the invariant that makes the theorems go through is that they only
  ever move the repository to main (`ExactInv`, `DirtySwitch`). `SwitchGatesAreExact` and
  `RunsSwitchOnce` are the counterparts of those of the pull.
- `PullPipeline_proofs`: `PipelineInvariant`, `PipelineRefinesPreflight`,
  `PipelineRefinesGitPullRun`, `PipelinePullsAreAuthorised`, `PullsGoBack`. Each of the
  two modules does what the other one assumes of its surroundings: a validation is a
  `SupplyChain` to the runners (`EvidenceIsSupplied`; there is room for it, because a
  runner has no more chains to choose from than were validated, `FewerRead`), a pull is an
  `Edit` to the read-only commands (`PullIsWork`), and somebody's edit is one for both
  (`WorkIsEdit`). So the composition implements both specifications and inherits their
  theorems. What neither says alone follows from both invariants: the chain of a pull
  goes back to a run of exactly its plan and repository, and to a postcheck of that run
  that has passed (`ChainMeansMeasured`).
- `RunbookRun_proofs`: `TypeCorrect`, `PassedEarned`, `BlockedSeen`, `SyncNeverPasses`,
  `CommitMarker`, `NothingLeft`, `LeavesOthersAlone`, `Publishes`. Two invariants. `IInv`
  is about files: what a call may own on disk at each control point (`Commit`,
  `Elsewhere`), which temporaries it has (`Temporaries`), which control points its kind
  allows (`Fits`), and that two calls that are engaged on one output are in `contested`
  (`Contest`), which is what makes the artifact a result names its own (`Named`). The
  steps of all kinds fall into three groups (`Work`, `Settle`, `Deliver`), so most of the
  proof is per group. `DataInv` is about verdicts: once loaded, the inputs are of the
  approved version (`Loaded`), and the verdict is what the readings earn (`Earned`,
  `Refused`); `CheckMeans`, `BundleMeans` and `DerivedBlocks` are the pure part. The
  refinement maps a step of a call to one step of `EvidencePublication`
  (`RefinementStep`); that of another call is a stutter because outputs are apart (`Apart`).

- `AssessmentRules_proofs` is the pure part of what follows: `DerivedMeans` and
  `ClaimsMean` say what a derived status goes back to, `DerivedSorts` that statuses of
  both sorts never meet, and from these `AssessmentNotFetched`,
  `EveryAssessmentSwitchPlanned` and `EveryAssessmentPullPlanned` are the planners'
  decision tables over every observation. `OneCheckoutActs` is the shadow ranking: two
  candidates always outrank one another one way (`OneOutranked`), and as ranks and the
  paths' order are numbers, somebody is outranked by nobody (`SomeUnshadowed`).
- `PullPlanning_proofs`: `TypeCorrect`, `AssessmentsPlannable`, `PreviewRestsOnFetch`,
  `FreshnessEarned`, `ResultTellsFetch`, `TraceOwned`, `AssessmentExact`,
  `OneCanonical`. `IInv` ties documents to control points: what an assessor holds
  (`Assessed`), what a refresher was admitted for (`Gated`) and what its fetch has made
  known here, which no later step takes back (`Achieved`). Three invariants stand on it.
  `Steady`: what a refresher read before the fetch is still so while nobody disturbs it,
  so it has nothing to complain of. `Own`: an uncontested call under way has its trace
  path for itself and free; once it has returned its file is there, so nobody is admitted
  any more. `Exact`: what an undisturbed assessor has seen is so, and what it has not
  seen is not so or among what it could not read; each step of an outsider or a fetch
  either leaves its repository alone or disturbs it (`OutsideTruthful`,
  `RefreshTruthful`).

Only model-checked: `EveryCallEnds` (liveness under fairness is out of the prover's
reach) and the five violations. Out of reach as well, and not needed: induction over
data and recursive operators; no module uses one.

## Not modelled

- JSON syntax, schemas, canonical serialisation, timestamps' format, printing, and
  argument parsing: conversions no property is about.
- `git` itself, beyond the effects above. Two `git` processes contending for
  `index.lock` show as a failing command.
- How a switch-main preflight proof comes about: nothing under `src/` produces one,
  so the model takes any proof for what it states.
- Reports and explanations: pure aggregation of documents supplied by the caller.
- The favorites report and the operational profile of the local config: nothing else
  reads them.
- What the observation and the facts snapshot record but nothing decides on (toplevel,
  HEAD and remote URL of an observation; the facts themselves).
- The order of the resolver's answers and the timing of connections: one answer per check.

## Plan

The composition of `PreflightEvidence` and `GitPullRun` is done. What remains is worth
less and stands by itself:

- the bound on the steps of a call, as for `ArtifactCommit`, for `RunbookRun` (after its
  admission: the rest of the checks or inputs, the commit, the clean-up) and for
  `PullPlanning`, and that a refresher fetches once;
- the commit marker of a read-only run with paths of its own, in `PreflightEvidence`;
- a composition of the runners with `ArtifactCommit` in place of `EvidencePublication`:
  the refinement of the one and the use of the other's actions make it a substitution,
  which no theorem states yet.
