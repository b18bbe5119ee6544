---------------------------- MODULE AssessmentRules ----------------------------
(***************************************************************************)
(* What steuerboard concludes: assess_repo from an observation and a scope, *)
(* the provenance of each status, the validation of a refresh result and    *)
(* the two planners.  Pure functions; lists are sets, since no planner      *)
(* looks at their order.                                                   *)
(***************************************************************************)
EXTENDS RepoScope, Integers

CONSTANT Branch      \* branch names, main among them

DefaultSources == {"remote_origin_head", "local_branch_heuristic", "unavailable"}
Counts == Nat \cup {Absent}

Observations ==
  [is_git_repo : BOOLEAN, dirty : BOOLEAN,
   current_branch : Branch \cup {Absent}, upstream : BOOLEAN,
   ahead : Counts, behind : Counts,
   default_branch : Branch \cup {Absent}, default_source : DefaultSources]

-----------------------------------------------------------------------------
(* The vocabulary.                                                         *)

ScopeStatuses == Scopes \ {"scope_canonical"}

BlockingSwitchMainStatuses ==
  ScopeStatuses \cup {"not_git_repo", "dirty_worktree", "detached_head",
                      "default_branch_unknown", "non_default_branch"}

NotApplicableSwitchMainStatuses == {"clean_default_current"}

KnownSwitchMainStatuses ==
  BlockingSwitchMainStatuses \cup NotApplicableSwitchMainStatuses

LocalClear == "git_pull_ff_only_local_preflight_clear"
NoRemoteFreshness == "git_pull_ff_only_evidence_missing_remote_freshness"
NoPreflight == "git_pull_ff_only_assessment_missing_preflight"
PreviewOnly == "git_pull_ff_only_preview_only_execution_out_of_scope"

BlockedPullStatuses ==
  {"git_pull_ff_only_blocked_missing_upstream",
   "git_pull_ff_only_evidence_missing_tracking_counts",
   "git_pull_ff_only_blocked_branch_ahead",
   "git_pull_ff_only_blocked_branch_diverged",
   NoRemoteFreshness}

KnownGitPullStatuses == BlockedPullStatuses \cup {LocalClear}
BlockingGitPullStatuses == BlockingSwitchMainStatuses \cup BlockedPullStatuses
KnownActionPlanStatuses == KnownSwitchMainStatuses \cup KnownGitPullStatuses

DecisionStates == {"action_blocked", "evidence_missing", "assessment_clear"}

-----------------------------------------------------------------------------
(* assess_repo.                                                            *)

Positive(n) == n # Absent /\ n > 0

(* Mutant: somewhere behind is taken for diverged.                          *)
AnyCountDiverges(obs) ==
  CASE ~obs.upstream -> {"git_pull_ff_only_blocked_missing_upstream"}
    [] obs.upstream /\ Positive(obs.behind) ->
         {"git_pull_ff_only_blocked_branch_diverged"}
    [] OTHER -> {LocalClear, NoRemoteFreshness}

(* Counts that are not known count as none.                                *)
PullReadiness(obs) ==
  CASE ~obs.upstream -> {"git_pull_ff_only_blocked_missing_upstream"}
    [] obs.upstream /\ Positive(obs.ahead) /\ Positive(obs.behind) ->
         {"git_pull_ff_only_blocked_branch_diverged"}
    [] obs.upstream /\ Positive(obs.ahead) /\ ~Positive(obs.behind) ->
         {"git_pull_ff_only_blocked_branch_ahead"}
    [] OTHER -> {LocalClear, NoRemoteFreshness}

(* Mutant: a dirty worktree does not end the derivation.                    *)
DerivedStatusThroughDirt(obs, scope) ==
  LET dirt == IF obs.dirty THEN {"dirty_worktree"} ELSE {} IN
  CASE ~obs.is_git_repo -> {"not_git_repo"}
    [] obs.is_git_repo /\ scope # "scope_canonical" -> {scope} \cup dirt
    [] OTHER ->
         dirt \cup
         (IF obs.current_branch = Absent THEN {"detached_head"}
          ELSE IF obs.default_branch = Absent THEN {"default_branch_unknown"}
          ELSE IF obs.current_branch # obs.default_branch THEN {"non_default_branch"}
          ELSE {"clean_default_current"} \cup PullReadiness(obs))

DerivedStatus(obs, scope) ==
  LET dirt == IF obs.dirty THEN {"dirty_worktree"} ELSE {} IN
  CASE ~obs.is_git_repo -> {"not_git_repo"}
    [] obs.is_git_repo /\ scope # "scope_canonical" -> {scope} \cup dirt
    [] obs.is_git_repo /\ scope = "scope_canonical" /\ obs.dirty -> dirt
    [] OTHER ->
         IF obs.current_branch = Absent THEN {"detached_head"}
         ELSE IF obs.default_branch = Absent THEN {"default_branch_unknown"}
         ELSE IF obs.current_branch # obs.default_branch THEN {"non_default_branch"}
         ELSE {"clean_default_current"} \cup PullReadiness(obs)

DecisionState(derived) ==
  IF derived \cap {"default_branch_unknown", "non_default_branch", NoRemoteFreshness} # {}
  THEN "evidence_missing" ELSE "action_blocked"

MissingEvidence(obs, derived) ==
  (IF "default_branch_unknown" \in derived THEN {"default_branch"} ELSE {})
    \cup (IF "non_default_branch" \in derived
          THEN {"branch_contains_origin_main_or_pr_merged", "fresh_origin_main"} ELSE {})
    \cup (IF /\ "clean_default_current" \in derived
             /\ obs.default_source # "remote_origin_head"
          THEN {"default_branch_source"} ELSE {})
    \cup (IF NoRemoteFreshness \in derived THEN {"remote_freshness"} ELSE {})

MissingWords ==
  {"default_branch", "branch_contains_origin_main_or_pr_merged", "fresh_origin_main",
   "default_branch_source", "remote_freshness"}

-----------------------------------------------------------------------------
(* Provenance: what the facts behind a status are worth.                    *)

ConfigRead == "freshness.local_scope_config.current_invocation"
ConfigUnavailable == "freshness.local_scope_config.unavailable"
NotFetched == "freshness.remote_tracking.not_observed_no_fetch"
FetchedFresh == "freshness.remote_tracking.fetch_origin_prune.fresh"

StatusFreshness(status) ==
  CASE status = "not_git_repo" -> {"freshness.local_git_probe.current_invocation"}
    [] status \in ScopeStatuses -> {ConfigRead}
    [] status = "dirty_worktree" -> {"freshness.local_git_status.current_invocation"}
    [] status = "detached_head" -> {"freshness.local_git_branch.current_invocation"}
    [] status = "default_branch_unknown" ->
         {"freshness.default_branch_candidate.unavailable"}
    [] status = "non_default_branch" ->
         {"freshness.local_git_branch.current_invocation",
          "freshness.remote_branch_lifecycle.not_observed_no_fetch"}
    [] status = "clean_default_current" ->
         {"freshness.local_git_status.current_invocation",
          "freshness.default_branch_source.unverified"}
    [] status = LocalClear ->
         {"freshness.local_git_status.current_invocation",
          "freshness.local_git_upstream.current_invocation",
          "freshness.local_git_tracking.current_invocation"}
    [] status = "git_pull_ff_only_blocked_missing_upstream" ->
         {"freshness.local_git_upstream.current_invocation"}
    [] status \in {"git_pull_ff_only_blocked_branch_ahead",
                   "git_pull_ff_only_blocked_branch_diverged",
                   "git_pull_ff_only_evidence_missing_tracking_counts"} ->
         {"freshness.local_git_tracking.current_invocation"}
    [] status = NoRemoteFreshness -> {NotFetched}

Replaced(set, old, new) == IF old \in set THEN (set \ {old}) \cup {new} ELSE set

(* Mutant: a config that was not found is still called freshly read.        *)
FreshnessRefsKeepingConfig(derived, configSeen, source) ==
  LET Of(status) ==
        IF status = "clean_default_current" /\ source = "remote_origin_head"
        THEN Replaced(StatusFreshness(status), "freshness.default_branch_source.unverified",
                      "freshness.default_branch_source.remote_origin_head_local_observed")
        ELSE IF status = "scope_unknown" /\ ~configSeen
        THEN StatusFreshness(status) \cup {ConfigUnavailable}
        ELSE StatusFreshness(status)
  IN UNION {Of(status) : status \in derived}

FreshnessRefs(derived, configSeen, source) ==
  LET Of(status) ==
        IF status = "clean_default_current" /\ source = "remote_origin_head"
        THEN Replaced(StatusFreshness(status), "freshness.default_branch_source.unverified",
                      "freshness.default_branch_source.remote_origin_head_local_observed")
        ELSE IF status = "scope_unknown" /\ ~configSeen
        THEN Replaced(StatusFreshness(status), ConfigRead, ConfigUnavailable)
        ELSE StatusFreshness(status)
  IN UNION {Of(status) : status \in derived}

FreshnessWords ==
  (UNION {StatusFreshness(status) : status \in KnownActionPlanStatuses})
    \cup {ConfigUnavailable,
          "freshness.default_branch_source.remote_origin_head_local_observed"}

(* repo-assessment.v1 of an observation; scope_unknown when no config was   *)
(* named and none was found.                                               *)
Assessment(id, obs, config, path) ==
  LET scope == IF config.found THEN ClassifyScope(config, path) ELSE "scope_unknown"
      derived == DerivedStatus(obs, scope)
  IN [assessment_id |-> id,
      derived_status |-> derived,
      decision_state |-> DecisionState(derived),
      missing_evidence |-> MissingEvidence(obs, derived),
      freshness_refs |-> FreshnessRefs(derived, config.found, obs.default_source)]

-----------------------------------------------------------------------------
(* remote-refresh-result.v1, as the planner reads it.                      *)

Freshness == {"fresh", "stale", "unknown", "unavailable"}

ValidRefresh(refresh) ==
  /\ refresh.exit_code \in Nat
  /\ refresh.mutates_refs \in BOOLEAN
  /\ refresh.remote_freshness \in Freshness
  /\ refresh.exit_code = 0 <=> refresh.remote_freshness = "fresh"

RefreshSucceeded(refresh) ==
  refresh.exit_code = 0 /\ refresh.remote_freshness = "fresh"

-----------------------------------------------------------------------------
(* plan_switch_main.                                                       *)

SwitchBlockers(assessment) ==
  assessment.derived_status \cap BlockingSwitchMainStatuses

SwitchNotApplicable(assessment) ==
  assessment.derived_status \cap NotApplicableSwitchMainStatuses

(* Contradictions and unknown words raise ValueError.  A lone               *)
(* clean_default_current must be clear; next to statuses of another action  *)
(* it need not be.                                                         *)
SwitchPlannable(assessment) ==
  LET blocking == SwitchBlockers(assessment)
      notApplicable == SwitchNotApplicable(assessment)
      irrelevant == assessment.derived_status \ KnownSwitchMainStatuses
  IN /\ assessment.decision_state \in DecisionStates
     /\ assessment.derived_status \subseteq KnownActionPlanStatuses
     /\ blocking = {} \/ notApplicable = {}
     /\ ~(blocking # {} /\ assessment.decision_state = "assessment_clear")
     /\ notApplicable # {} /\ irrelevant = {} =>
          assessment.decision_state = "assessment_clear"
     /\ blocking # {} \/ notApplicable # {}

PlanSwitchMain(assessment) ==
  [action |-> "switch-main",
   assessment_ref |-> assessment.assessment_id,
   decision |-> IF SwitchBlockers(assessment) # {} THEN "blocked" ELSE "not_applicable",
   blocked_because |-> SwitchBlockers(assessment)]

-----------------------------------------------------------------------------
(* plan_git_pull_ff_only; refresh is Absent when none was supplied.         *)

PullPlannable(assessment, refresh) ==
  /\ assessment.decision_state \in DecisionStates
  /\ assessment.derived_status # {}
  /\ assessment.derived_status \subseteq KnownActionPlanStatuses
  /\ refresh # Absent =>
       ValidRefresh(refresh) /\ refresh.repo_ref = assessment.assessment_id

(* Mutant: a refresh that failed counts as one that succeeded.              *)
PullBlockersAnyRefresh(assessment, refresh) ==
  LET derived == assessment.derived_status
      clear == LocalClear \in derived
      initial == derived \cap BlockingGitPullStatuses
      local == IF initial = {} /\ ~clear THEN {NoPreflight} ELSE initial
      remote == IF refresh = Absent THEN local
                ELSE IF local = {NoRemoteFreshness} /\ ~clear
                THEN {NoPreflight} ELSE local \ {NoRemoteFreshness}
  IN IF remote = {} /\ clear THEN {PreviewOnly} ELSE remote

PullBlockers(assessment, refresh) ==
  LET derived == assessment.derived_status
      clear == LocalClear \in derived
      initial == derived \cap BlockingGitPullStatuses
      local == IF initial = {} /\ ~clear THEN {NoPreflight} ELSE initial
      remote == IF refresh = Absent THEN local
                ELSE IF ~RefreshSucceeded(refresh) THEN local \cup {NoRemoteFreshness}
                ELSE IF local = {NoRemoteFreshness} /\ ~clear
                THEN {NoPreflight} ELSE local \ {NoRemoteFreshness}
  IN IF remote = {} /\ clear THEN {PreviewOnly} ELSE remote

PullFreshness(assessment, refresh) ==
  IF refresh # Absent /\ RefreshSucceeded(refresh)
  THEN assessment.freshness_refs \cup {FetchedFresh} ELSE assessment.freshness_refs

PullMissing(assessment, refresh) ==
  LET blockers == PullBlockers(assessment, refresh)
      stated == IF refresh # Absent /\ RefreshSucceeded(refresh)
                THEN assessment.missing_evidence \ {"remote_freshness"}
                ELSE IF refresh # Absent \/ NoRemoteFreshness \in assessment.derived_status
                THEN assessment.missing_evidence \cup {"remote_freshness"}
                ELSE assessment.missing_evidence
  IN stated
       \cup (IF NoPreflight \in blockers THEN {"git_pull_ff_only_assessment"} ELSE {})
       \cup (IF PreviewOnly \in blockers
             THEN {"execution_authorization", "runner_contract", "user_approval"} ELSE {})

PlanGitPull(assessment, refresh) ==
  [action |-> "git-pull-ff-only",
   assessment_ref |-> assessment.assessment_id,
   decision |-> "blocked",
   blocked_because |-> PullBlockers(assessment, refresh),
   missing_evidence |-> PullMissing(assessment, refresh),
   freshness_refs |-> PullFreshness(assessment, refresh)]
=============================================================================
