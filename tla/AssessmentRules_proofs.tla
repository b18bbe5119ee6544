------------------------- MODULE AssessmentRules_proofs -------------------------
(* What follows from an assessment whatever was observed: the statuses it    *)
(* may consist of, what their provenance never claims, and what the two      *)
(* planners make of it with and without a refresh result.                   *)
EXTENDS AssessmentRules, FiniteSetTheorems, WellFoundedInduction, TLAPS

(* As much of an observation's shape as the rules look at.                   *)
Observation(obs) ==
  /\ obs.is_git_repo \in BOOLEAN /\ obs.dirty \in BOOLEAN /\ obs.upstream \in BOOLEAN
  /\ obs.default_source \in DefaultSources

(* The statuses a pull readiness may consist of, each with its reason.       *)
Unpullable(obs, derived) ==
  \/ derived = {"git_pull_ff_only_blocked_missing_upstream"} /\ ~obs.upstream
  \/ /\ derived = {"git_pull_ff_only_blocked_branch_diverged"}
     /\ obs.upstream /\ Positive(obs.ahead) /\ Positive(obs.behind)
  \/ /\ derived = {"git_pull_ff_only_blocked_branch_ahead"}
     /\ obs.upstream /\ Positive(obs.ahead) /\ ~Positive(obs.behind)

Pullable(obs, derived) ==
  derived = {LocalClear, NoRemoteFreshness} /\ obs.upstream /\ ~Positive(obs.ahead)

(* Local preflight is evaluated.                                            *)
Ready(obs, scope) ==
  /\ obs.is_git_repo /\ scope = "scope_canonical" /\ ~obs.dirty
  /\ obs.current_branch # Absent /\ obs.default_branch # Absent
  /\ obs.current_branch = obs.default_branch

(* The reasons for not evaluating it.                                       *)
Stopped(obs, scope, derived) ==
  \/ derived = {"not_git_repo"} /\ ~obs.is_git_repo
  \/ /\ obs.is_git_repo /\ scope # "scope_canonical"
     /\ derived = {scope} \/ (derived = {scope, "dirty_worktree"} /\ obs.dirty)
  \/ derived = {"dirty_worktree"} /\ obs.is_git_repo /\ obs.dirty
  \/ derived = {"detached_head"} /\ obs.is_git_repo /\ obs.current_branch = Absent
  \/ derived = {"default_branch_unknown"} /\ obs.is_git_repo /\ obs.default_branch = Absent
  \/ /\ derived = {"non_default_branch"} /\ obs.is_git_repo
     /\ obs.current_branch # Absent /\ obs.default_branch # Absent
     /\ obs.current_branch # obs.default_branch

(* Every path is in one of the known scopes.                                *)
LEMMA ScopeOfPath ==
  ASSUME NEW config, NEW p
  PROVE  ClassifyScope(config, p) \in Scopes
  BY DEF ClassifyScope, Scopes

(* What the pull rules say of an observation: nothing speaks for a pull, or *)
(* nothing against it.                                                      *)
LEMMA PullReadinessMeans ==
  ASSUME NEW obs, Observation(obs)
  PROVE  Unpullable(obs, PullReadiness(obs)) \/ Pullable(obs, PullReadiness(obs))
  <1>1. CASE ~obs.upstream
    BY <1>1 DEF PullReadiness, Unpullable
  <1>2. CASE obs.upstream /\ Positive(obs.ahead) /\ Positive(obs.behind)
    BY <1>2 DEF PullReadiness, Unpullable
  <1>3. CASE obs.upstream /\ Positive(obs.ahead) /\ ~Positive(obs.behind)
    BY <1>3 DEF PullReadiness, Unpullable
  <1>4. CASE obs.upstream /\ ~Positive(obs.ahead)
    BY <1>4 DEF PullReadiness, Pullable
  <1>5. QED
    BY <1>1, <1>2, <1>3, <1>4

(* Either a reason to stop, or the one status of a clean default branch      *)
(* together with a pull readiness.                                          *)
LEMMA DerivedMeans ==
  ASSUME NEW obs, Observation(obs), NEW scope \in Scopes
  PROVE  \/ Stopped(obs, scope, DerivedStatus(obs, scope))
         \/ /\ Ready(obs, scope)
            /\ DerivedStatus(obs, scope) = {"clean_default_current"} \cup PullReadiness(obs)
  <1>1. CASE ~obs.is_git_repo
    BY <1>1 DEF DerivedStatus, Stopped
  <1>2. CASE obs.is_git_repo /\ scope # "scope_canonical"
    <2>1. DerivedStatus(obs, scope) =
            {scope} \cup (IF obs.dirty THEN {"dirty_worktree"} ELSE {})
      BY <1>2 DEF DerivedStatus
    <2>2. CASE obs.dirty
      BY <1>2, <2>1, <2>2 DEF Stopped
    <2>3. CASE ~obs.dirty
      BY <1>2, <2>1, <2>3 DEF Stopped
    <2>4. QED
      BY <2>2, <2>3
  <1>3. CASE obs.is_git_repo /\ scope = "scope_canonical" /\ obs.dirty
    BY <1>3 DEF DerivedStatus, Stopped
  <1>4. CASE obs.is_git_repo /\ scope = "scope_canonical" /\ ~obs.dirty
    <2>1. DerivedStatus(obs, scope) =
            IF obs.current_branch = Absent THEN {"detached_head"}
            ELSE IF obs.default_branch = Absent THEN {"default_branch_unknown"}
            ELSE IF obs.current_branch # obs.default_branch THEN {"non_default_branch"}
            ELSE {"clean_default_current"} \cup PullReadiness(obs)
      BY <1>4 DEF DerivedStatus
    <2>2. QED
      BY <1>4, <2>1 DEF Stopped, Ready
  <1>5. QED
    BY <1>1, <1>2, <1>3, <1>4 DEF Observation

(* What a status goes back to.                                             *)
LEMMA ClaimsMean ==
  ASSUME NEW obs, Observation(obs), NEW scope \in Scopes
  PROVE  LET derived == DerivedStatus(obs, scope) IN
         /\ "not_git_repo" \in derived <=> ~obs.is_git_repo
         /\ "dirty_worktree" \in derived => obs.is_git_repo /\ obs.dirty
         /\ "detached_head" \in derived => obs.is_git_repo /\ obs.current_branch = Absent
         /\ "non_default_branch" \in derived =>
              /\ obs.is_git_repo /\ obs.current_branch # Absent
              /\ obs.default_branch # Absent /\ obs.current_branch # obs.default_branch
         /\ "git_pull_ff_only_blocked_branch_ahead" \in derived =>
              obs.is_git_repo /\ Positive(obs.ahead) /\ ~Positive(obs.behind)
         /\ "git_pull_ff_only_blocked_branch_diverged" \in derived =>
              obs.is_git_repo /\ Positive(obs.ahead) /\ Positive(obs.behind)
         /\ LocalClear \in derived => Ready(obs, scope) /\ ~Positive(obs.ahead)
  <1> DEFINE derived == DerivedStatus(obs, scope)
  <1>1. CASE Stopped(obs, scope, derived)
    BY <1>1 DEF Stopped, Scopes, LocalClear
  <1>2. CASE /\ Ready(obs, scope)
             /\ derived = {"clean_default_current"} \cup PullReadiness(obs)
    <2>1. CASE Unpullable(obs, PullReadiness(obs))
      BY <1>2, <2>1 DEF Unpullable, Ready, LocalClear
    <2>2. CASE Pullable(obs, PullReadiness(obs))
      BY <1>2, <2>2 DEF Pullable, Ready, LocalClear, NoRemoteFreshness
    <2>3. QED
      BY <2>1, <2>2, PullReadinessMeans
  <1>3. QED
    BY <1>1, <1>2, DerivedMeans

-----------------------------------------------------------------------------
(* The planners' view of the statuses.                                      *)

(* All the statuses of one sort or of the other.                            *)
StopsSwitch(derived) ==
  /\ derived # {} /\ derived \subseteq BlockingSwitchMainStatuses
  /\ derived \cap NotApplicableSwitchMainStatuses = {}
  /\ LocalClear \notin derived /\ NoRemoteFreshness \notin derived

OnDefault(derived) ==
  /\ derived \cap BlockingSwitchMainStatuses = {}
  /\ "clean_default_current" \in derived
  /\ derived \ KnownSwitchMainStatuses # {}
  /\ derived \subseteq KnownActionPlanStatuses
  /\ derived \cap BlockingGitPullStatuses # {}
  /\ LocalClear \in derived => derived \cap BlockingGitPullStatuses = {NoRemoteFreshness}
  /\ LocalClear \notin derived => NoRemoteFreshness \notin derived

(* An assessment that stopped early carries a status that stops the switch. *)
LEMMA StoppedMeans ==
  ASSUME NEW obs, NEW scope \in Scopes, NEW derived, Stopped(obs, scope, derived)
  PROVE  StopsSwitch(derived)
  <1>1. derived # {} /\ derived \subseteq ScopeStatuses \cup
          {"not_git_repo", "dirty_worktree", "detached_head", "default_branch_unknown",
           "non_default_branch"}
    BY DEF Stopped, ScopeStatuses
  <1>2. QED
    BY <1>1 DEF StopsSwitch, BlockingSwitchMainStatuses, NotApplicableSwitchMainStatuses,
                LocalClear, NoRemoteFreshness, ScopeStatuses, Scopes

(* One that went on says that the checkout is on its default branch.        *)
LEMMA ReadyMeans ==
  ASSUME NEW obs, NEW pull, Unpullable(obs, pull) \/ Pullable(obs, pull)
  PROVE  OnDefault({"clean_default_current"} \cup pull)
  <1> DEFINE derived == {"clean_default_current"} \cup pull
  <1>1. CASE Unpullable(obs, pull)
    <2>1. PICK s \in {"git_pull_ff_only_blocked_missing_upstream",
                      "git_pull_ff_only_blocked_branch_diverged",
                      "git_pull_ff_only_blocked_branch_ahead"} : pull = {s}
      BY <1>1 DEF Unpullable
    <2>2. derived = {"clean_default_current", s} /\ s \in BlockedPullStatuses
      BY <2>1 DEF BlockedPullStatuses
    <2>3. s \notin KnownSwitchMainStatuses
      BY <2>1 DEF KnownSwitchMainStatuses, BlockingSwitchMainStatuses, ScopeStatuses, Scopes,
                  NotApplicableSwitchMainStatuses
    <2>4. LocalClear \notin derived /\ NoRemoteFreshness \notin derived
      BY <2>1, <2>2 DEF LocalClear, NoRemoteFreshness
    <2>5. "clean_default_current" \notin BlockingSwitchMainStatuses
      BY DEF BlockingSwitchMainStatuses, ScopeStatuses, Scopes
    <2>6. QED
      BY <2>2, <2>3, <2>4, <2>5
         DEF OnDefault, KnownActionPlanStatuses, KnownSwitchMainStatuses, KnownGitPullStatuses,
             NotApplicableSwitchMainStatuses, BlockingGitPullStatuses
  <1>2. CASE Pullable(obs, pull)
    <2>1. derived = {"clean_default_current", LocalClear, NoRemoteFreshness}
      BY <1>2 DEF Pullable
    <2>2. /\ "clean_default_current" \notin BlockingGitPullStatuses
          /\ LocalClear \notin BlockingGitPullStatuses \cup KnownSwitchMainStatuses
          /\ NoRemoteFreshness \in BlockingGitPullStatuses \ KnownSwitchMainStatuses
      BY DEF BlockingGitPullStatuses, BlockingSwitchMainStatuses, ScopeStatuses, Scopes,
             BlockedPullStatuses, LocalClear, NoRemoteFreshness, KnownSwitchMainStatuses,
             NotApplicableSwitchMainStatuses
    <2>3. QED
      BY <2>1, <2>2
         DEF OnDefault, KnownActionPlanStatuses, KnownSwitchMainStatuses, KnownGitPullStatuses,
             NotApplicableSwitchMainStatuses, BlockingGitPullStatuses, BlockedPullStatuses
  <1>3. QED
    BY <1>1, <1>2

(* Statuses of the two sorts never meet in one assessment.                  *)
LEMMA DerivedSorts ==
  ASSUME NEW obs, Observation(obs), NEW scope \in Scopes
  PROVE  \/ StopsSwitch(DerivedStatus(obs, scope))
         \/ Ready(obs, scope) /\ OnDefault(DerivedStatus(obs, scope))
  BY DerivedMeans, StoppedMeans, ReadyMeans, PullReadinessMeans

-----------------------------------------------------------------------------
(* What an assessment says of the freshness of its facts.                   *)

(* The references of one status, as FreshnessRefs collects them.            *)
RefsOf(status, configSeen, source) ==
  IF status = "clean_default_current" /\ source = "remote_origin_head"
  THEN Replaced(StatusFreshness(status), "freshness.default_branch_source.unverified",
                "freshness.default_branch_source.remote_origin_head_local_observed")
  ELSE IF status = "scope_unknown" /\ ~configSeen
  THEN Replaced(StatusFreshness(status), ConfigRead, ConfigUnavailable)
  ELSE StatusFreshness(status)

(* What the freshness of a status may say, status by status.                *)
LEMMA StatusRefs ==
  ASSUME NEW status \in KnownActionPlanStatuses
  PROVE  /\ StatusFreshness(status) \subseteq FreshnessWords
         /\ FetchedFresh \notin StatusFreshness(status)
         /\ ConfigUnavailable \notin StatusFreshness(status)
         /\ ConfigRead \in StatusFreshness(status) => status \in ScopeStatuses
         /\ status \in ScopeStatuses => StatusFreshness(status) = {ConfigRead}
  <1>0. StatusFreshness(status) \subseteq FreshnessWords
    BY DEF FreshnessWords
  <1>1. CASE status \in ScopeStatuses
    <2>1. status # "not_git_repo"
      BY <1>1 DEF ScopeStatuses, Scopes
    <2>2. StatusFreshness(status) = {ConfigRead}
      BY <1>1, <2>1 DEF StatusFreshness, ScopeStatuses, Scopes, LocalClear, NoRemoteFreshness
    <2>3. QED
      BY <1>1, <2>2, <1>0 DEF ConfigRead, ConfigUnavailable, FetchedFresh
  <1>2. CASE status \notin ScopeStatuses
    <2>1. status \in {"not_git_repo", "dirty_worktree", "detached_head",
                      "default_branch_unknown", "non_default_branch", "clean_default_current",
                      "git_pull_ff_only_blocked_missing_upstream",
                      "git_pull_ff_only_evidence_missing_tracking_counts",
                      "git_pull_ff_only_blocked_branch_ahead",
                      "git_pull_ff_only_blocked_branch_diverged",
                      NoRemoteFreshness, LocalClear}
      BY <1>2 DEF KnownActionPlanStatuses, KnownSwitchMainStatuses, KnownGitPullStatuses,
                  BlockingSwitchMainStatuses, NotApplicableSwitchMainStatuses,
                  BlockedPullStatuses
    <2>2. StatusFreshness(status) \in
            {{"freshness.local_git_probe.current_invocation"},
             {"freshness.local_git_status.current_invocation"},
             {"freshness.local_git_branch.current_invocation"},
             {"freshness.default_branch_candidate.unavailable"},
             {"freshness.local_git_branch.current_invocation",
              "freshness.remote_branch_lifecycle.not_observed_no_fetch"},
             {"freshness.local_git_status.current_invocation",
              "freshness.default_branch_source.unverified"},
             {"freshness.local_git_status.current_invocation",
              "freshness.local_git_upstream.current_invocation",
              "freshness.local_git_tracking.current_invocation"},
             {"freshness.local_git_upstream.current_invocation"},
             {"freshness.local_git_tracking.current_invocation"},
             {NotFetched}}
      BY <1>2, <2>1 DEF StatusFreshness, LocalClear, NoRemoteFreshness
    <2>3. QED
      BY <1>0, <1>2, <2>2 DEF ConfigRead, ConfigUnavailable, FetchedFresh, NotFetched
  <1>3. QED
    BY <1>1, <1>2

(* And what its references may say, given whether a config was found.       *)
LEMMA RefsOfStatus ==
  ASSUME NEW status \in KnownActionPlanStatuses, NEW configSeen \in BOOLEAN, NEW source
  PROVE  /\ RefsOf(status, configSeen, source) \subseteq FreshnessWords
         /\ FetchedFresh \notin RefsOf(status, configSeen, source)
         /\ ConfigUnavailable \in RefsOf(status, configSeen, source) => ~configSeen
         /\ ConfigRead \in RefsOf(status, configSeen, source) =>
              /\ status \in ScopeStatuses
              /\ status = "scope_unknown" => configSeen
  <1>0. /\ ConfigUnavailable \in FreshnessWords
        /\ "freshness.default_branch_source.remote_origin_head_local_observed"
             \in FreshnessWords
    BY DEF FreshnessWords
  <1>1. CASE status = "clean_default_current" /\ source = "remote_origin_head"
    <2>1. status \notin ScopeStatuses
      BY <1>1 DEF ScopeStatuses, Scopes
    <2>2. QED
      BY <1>0, <1>1, <2>1, StatusRefs
         DEF RefsOf, Replaced, FetchedFresh, ConfigUnavailable, ConfigRead
  <1>2. CASE status = "scope_unknown" /\ ~configSeen
    <2>1. status \in ScopeStatuses /\ status # "clean_default_current"
      BY <1>2 DEF ScopeStatuses, Scopes
    <2>2. RefsOf(status, configSeen, source) = {ConfigUnavailable}
      BY <1>2, <2>1, StatusRefs DEF RefsOf, Replaced
    <2>3. QED
      BY <1>0, <1>2, <2>2 DEF FetchedFresh, ConfigUnavailable, ConfigRead
  <1>3. CASE /\ ~(status = "clean_default_current" /\ source = "remote_origin_head")
             /\ ~(status = "scope_unknown" /\ ~configSeen)
    <2>1. RefsOf(status, configSeen, source) = StatusFreshness(status)
      BY <1>3 DEF RefsOf
    <2>2. QED
      BY <1>3, <2>1, StatusRefs
  <1>4. QED
    BY <1>1, <1>2, <1>3

(* The references of an assessment are those of its statuses.               *)
LEMMA RefsCollected ==
  ASSUME NEW derived, NEW configSeen, NEW source
  PROVE  FreshnessRefs(derived, configSeen, source) =
           UNION {RefsOf(status, configSeen, source) : status \in derived}
  BY DEF FreshnessRefs, RefsOf

-----------------------------------------------------------------------------
(* Assessments.                                                            *)

ScopeFor(config, path) ==
  IF config.found THEN ClassifyScope(config, path) ELSE "scope_unknown"

(* The fields of an assessment, spelled out.                                *)
LEMMA StatusOf ==
  ASSUME NEW id, NEW obs, NEW config, NEW path
  PROVE  LET m == Assessment(id, obs, config, path) IN
         /\ m.assessment_id = id
         /\ m.derived_status = DerivedStatus(obs, ScopeFor(config, path))
         /\ m.decision_state = DecisionState(m.derived_status)
         /\ m.missing_evidence = MissingEvidence(obs, m.derived_status)
         /\ m.freshness_refs =
              FreshnessRefs(m.derived_status, config.found, obs.default_source)
         /\ ScopeFor(config, path) \in Scopes
  BY ScopeOfPath DEF Assessment, ScopeFor, Scopes

(* Every status of an assessment is known to the planners.                  *)
LEMMA KnownStatuses ==
  ASSUME NEW id, NEW obs, Observation(obs), NEW config, NEW path
  PROVE  LET m == Assessment(id, obs, config, path) IN
         /\ StopsSwitch(m.derived_status) \/ OnDefault(m.derived_status)
         /\ m.derived_status \subseteq KnownActionPlanStatuses
  <1>1. \A derived : StopsSwitch(derived) => derived \subseteq KnownActionPlanStatuses
    BY DEF StopsSwitch, KnownActionPlanStatuses, KnownSwitchMainStatuses
  <1>2. QED
    BY <1>1, StatusOf, DerivedSorts DEF OnDefault

(* No assessment claims remote freshness, and none claims to have read a      *)
(* config that was not there.                                              *)
THEOREM AssessmentNotFetched ==
  ASSUME NEW id, NEW obs, Observation(obs), NEW config, config.found \in BOOLEAN, NEW path
  PROVE  LET m == Assessment(id, obs, config, path) IN
         /\ m.freshness_refs \subseteq FreshnessWords
         /\ FetchedFresh \notin m.freshness_refs
         /\ ~({ConfigRead, ConfigUnavailable} \subseteq m.freshness_refs)
  <1> DEFINE m == Assessment(id, obs, config, path)
             Refs(status) == RefsOf(status, config.found, obs.default_source)
  <1>1. m.freshness_refs = UNION {Refs(status) : status \in m.derived_status}
    BY StatusOf, RefsCollected
  <1>2. m.derived_status \subseteq KnownActionPlanStatuses
    BY KnownStatuses
  <1>3. \A status \in m.derived_status :
          /\ Refs(status) \subseteq FreshnessWords /\ FetchedFresh \notin Refs(status)
          /\ ConfigUnavailable \in Refs(status) => ~config.found
          /\ ConfigRead \in Refs(status) =>
               status \in ScopeStatuses /\ (status = "scope_unknown" => config.found)
    BY <1>2, RefsOfStatus
  <1>4. ~config.found => m.derived_status \cap ScopeStatuses \subseteq {"scope_unknown"}
    <2>1. SUFFICES ASSUME ~config.found
                   PROVE  m.derived_status \cap ScopeStatuses \subseteq {"scope_unknown"}
      OBVIOUS
    <2>2. ScopeFor(config, path) = "scope_unknown"
      BY <2>1 DEF ScopeFor
    <2>3. Stopped(obs, "scope_unknown", m.derived_status)
      <3>1. ~Ready(obs, "scope_unknown") /\ "scope_unknown" \in Scopes
        BY DEF Ready, Scopes
      <3>2. QED
        BY <2>2, <3>1, StatusOf, DerivedMeans
    <2>4. QED
      BY <2>3 DEF Stopped, ScopeStatuses, Scopes
  <1>5. QED
    BY <1>1, <1>3, <1>4

(* The switch planner takes every assessment, and its plan is blocked exactly *)
(* off a clean default branch.                                              *)
THEOREM EveryAssessmentSwitchPlanned ==
  ASSUME NEW id, NEW obs, Observation(obs), NEW config, NEW path
  PROVE  LET m == Assessment(id, obs, config, path) IN
         /\ SwitchPlannable(m)
         /\ PlanSwitchMain(m).decision = "blocked" <=>
              "clean_default_current" \notin m.derived_status
  <1> DEFINE m == Assessment(id, obs, config, path)
  <1>1. m.decision_state \in {"evidence_missing", "action_blocked"}
    BY StatusOf DEF DecisionState
  <1>2. m.derived_status \subseteq KnownActionPlanStatuses
    BY KnownStatuses
  <1>3. CASE StopsSwitch(m.derived_status)
    <2>1. SwitchBlockers(m) # {} /\ SwitchNotApplicable(m) = {}
      BY <1>3 DEF StopsSwitch, SwitchBlockers, SwitchNotApplicable
    <2>2. "clean_default_current" \notin m.derived_status
      BY <1>3 DEF StopsSwitch, NotApplicableSwitchMainStatuses
    <2>3. QED
      BY <1>1, <1>2, <2>1, <2>2 DEF SwitchPlannable, PlanSwitchMain, DecisionStates
  <1>4. CASE OnDefault(m.derived_status)
    <2>1. SwitchBlockers(m) = {} /\ SwitchNotApplicable(m) # {}
      BY <1>4 DEF OnDefault, SwitchBlockers, SwitchNotApplicable,
                  NotApplicableSwitchMainStatuses
    <2>2. m.derived_status \ KnownSwitchMainStatuses # {}
          /\ "clean_default_current" \in m.derived_status
      BY <1>4 DEF OnDefault
    <2>3. QED
      BY <1>1, <1>2, <2>1, <2>2 DEF SwitchPlannable, PlanSwitchMain, DecisionStates
  <1>5. QED
    BY <1>3, <1>4, KnownStatuses

(* So does the pull planner, with every refresh result made for it; a pull    *)
(* plan always names a blocker, and only a clear local preflight together    *)
(* with a fetch that succeeded leaves none but the preview.                  *)
THEOREM EveryAssessmentPullPlanned ==
  ASSUME NEW id, NEW obs, Observation(obs), NEW config, NEW path, NEW refresh,
         refresh = Absent \/ (ValidRefresh(refresh) /\ refresh.repo_ref = id)
  PROVE  LET m == Assessment(id, obs, config, path) IN
         /\ PullPlannable(m, refresh)
         /\ PullBlockers(m, refresh) # {}
         /\ PreviewOnly \in PullBlockers(m, refresh) =>
              /\ PullBlockers(m, refresh) = {PreviewOnly}
              /\ LocalClear \in m.derived_status
              /\ refresh # Absent /\ RefreshSucceeded(refresh)
  <1> DEFINE m == Assessment(id, obs, config, path)
             initial == m.derived_status \cap BlockingGitPullStatuses
  <1>1. m.decision_state \in DecisionStates /\ m.assessment_id = id
    BY StatusOf DEF DecisionState, DecisionStates
  <1>2. m.derived_status \subseteq KnownActionPlanStatuses
    BY KnownStatuses
  <1>3. m.derived_status # {}
    BY KnownStatuses DEF StopsSwitch, OnDefault
  <1>4. PullPlannable(m, refresh)
    BY <1>1, <1>2, <1>3 DEF PullPlannable
  <1>5. PreviewOnly \notin BlockingGitPullStatuses
    BY DEF PreviewOnly, BlockingGitPullStatuses, BlockingSwitchMainStatuses, ScopeStatuses,
           Scopes, BlockedPullStatuses, NoRemoteFreshness
  <1>6. CASE LocalClear \in m.derived_status
    <2>1. initial = {NoRemoteFreshness}
      BY <1>6, KnownStatuses DEF StopsSwitch, OnDefault
    <2>2. PreviewOnly # NoRemoteFreshness
      BY DEF PreviewOnly, NoRemoteFreshness
    <2>3. CASE refresh # Absent /\ RefreshSucceeded(refresh)
      <3>1. PullBlockers(m, refresh) = {PreviewOnly}
        BY <1>6, <2>1, <2>3 DEF PullBlockers
      <3>2. QED
        BY <1>4, <1>6, <2>3, <3>1
    <2>4. CASE ~(refresh # Absent /\ RefreshSucceeded(refresh))
      <3>1. PullBlockers(m, refresh) = {NoRemoteFreshness}
        BY <1>6, <2>1, <2>4 DEF PullBlockers
      <3>2. QED
        BY <1>4, <2>2, <3>1
    <2>5. QED
      BY <2>3, <2>4
  <1>7. CASE LocalClear \notin m.derived_status
    <2>1. initial # {} /\ NoRemoteFreshness \notin initial
      BY <1>7, KnownStatuses DEF StopsSwitch, OnDefault, BlockingGitPullStatuses
    <2>2. /\ PullBlockers(m, refresh) # {}
          /\ PullBlockers(m, refresh) \subseteq initial \cup {NoRemoteFreshness}
      BY <1>7, <2>1 DEF PullBlockers
    <2>3. PreviewOnly \notin PullBlockers(m, refresh)
      BY <1>5, <2>2 DEF BlockingGitPullStatuses, BlockedPullStatuses
    <2>4. QED
      BY <1>4, <2>2, <2>3
  <1>8. QED
    BY <1>6, <1>7

-----------------------------------------------------------------------------
(* Several checkouts of one repository.                                    *)

(* A set of natural numbers has a least one.                                *)
LEMMA LeastNumber ==
  ASSUME NEW S \in SUBSET Nat, S # {}
  PROVE  \E n \in S : \A m \in S : ~(m < n)
  <1>1. PICK n \in S : \A m \in S : <<m, n>> \notin OpToRel(<, Nat)
    BY WFMin, NatLessThanWellFounded
  <1>2. \A m \in S : m < n => <<m, n>> \in OpToRel(<, Nat)
    BY DEF OpToRel
  <1>3. QED
    BY <1>1, <1>2

(* The rank of a scope, and which scopes are safe.                          *)
LEMMA RankOf ==
  ASSUME NEW config, NEW p
  PROVE  LET scope == ClassifyScope(config, p) IN
         /\ scope \in Scopes /\ scope # "scope_shadow" /\ ScopeRank[scope] \in Nat
         /\ scope \notin UnsafePrimary => scope \in {"scope_canonical", "scope_unknown"}
  BY DEF ClassifyScope, Scopes, ScopeRank, UnsafePrimary

(* Of two candidates of one repository one outranks the other.               *)
LEMMA OneOutranked ==
  ASSUME ScopeAssumption, NEW config, NEW p \in Path, NEW q \in Path \ {p},
         NEW t, p \in Candidates(config, t), q \in Candidates(config, t)
  PROVE  Outranks(config, p, q) \/ Outranks(config, q, p)
  <1>1. /\ PathOrder[p] \in Nat /\ PathOrder[q] \in Nat /\ PathOrder[p] # PathOrder[q]
    BY DEF ScopeAssumption
  <1>2. QED
    BY <1>1, RankOf DEF Outranks

(* Where there are candidates, there is one that nobody outranks.            *)
LEMMA SomeUnshadowed ==
  ASSUME ScopeAssumption, NEW config, NEW t, Candidates(config, t) # {},
         Candidates(config, t) \subseteq Path
  PROVE  \E k \in Candidates(config, t) :
           \A q \in Candidates(config, t) : ~Outranks(config, q, k)
  <1> DEFINE C == Candidates(config, t)
             Rank(p) == ScopeRank[ClassifyScope(config, p)]
             Ranks == {Rank(p) : p \in C}
  <1>1. Ranks \in SUBSET Nat /\ Ranks # {}
    BY RankOf
  <1>2. PICK m \in Ranks : \A n \in Ranks : ~(n < m)
    BY <1>1, LeastNumber
  <1> DEFINE Best == {p \in C : Rank(p) = m}
             Orders == {PathOrder[p] : p \in Best}
  <1>3. Orders \in SUBSET Nat /\ Orders # {}
    BY <1>2 DEF ScopeAssumption
  <1>4. PICK n \in Orders : \A o \in Orders : ~(o < n)
    BY <1>3, LeastNumber
  <1>5. PICK k \in Best : PathOrder[k] = n
    BY <1>4
  <1>6. ASSUME NEW q \in C, Outranks(config, q, k)
        PROVE  FALSE
    <2>1. Rank(q) \in Ranks /\ Rank(k) = m
      BY <1>5
    <2>2. ~(Rank(q) < Rank(k))
      BY <1>2, <2>1
    <2>3. Rank(q) = m /\ PathOrder[q] < PathOrder[k]
      BY <1>6, <2>1, <2>2 DEF Outranks
    <2>4. QED
      BY <1>4, <1>5, <2>3
  <1>7. QED
    BY <1>5, <1>6

(* A set with two different elements has more than one.                     *)
LEMMA TwoOrMore ==
  ASSUME NEW S, IsFiniteSet(S), NEW x \in S, NEW y \in S, x # y
  PROVE  Cardinality(S) > 1
  <1>1. IsFiniteSet({x}) /\ Cardinality({x}) = 1
    BY FS_Singleton
  <1>2. Cardinality({x} \cup {y}) = 2
    BY <1>1, FS_AddElement
  <1>3. ({x} \cup {y}) \in SUBSET S
    OBVIOUS
  <1>4. Cardinality({x} \cup {y}) <= Cardinality(S) /\ Cardinality(S) \in Nat
    BY <1>3, FS_Subset, FS_CardinalityType
  <1>5. QED
    BY <1>2, <1>4

(* Of the listed checkouts of a repository at most one stays canonical, and a *)
(* shadow has one that is no shadow in its duplicate group                   *)
(* (_mark_shadow_duplicates, build_duplicates_report).                      *)
THEOREM OneCheckoutActs ==
  ASSUME ScopeAssumption, NEW config \in LocalConfigs,
         NEW p \in Listed(config), Disk[p].git, Disk[p].top \in Path
  PROVE  /\ InventoryScope(config, p) = "scope_canonical" =>
              \A q \in Listed(config) \ {p} :
                Disk[q].git /\ Disk[p].top = Disk[q].top =>
                  InventoryScope(config, q) # "scope_canonical"
         /\ InventoryScope(config, p) = "scope_shadow" =>
              \E k \in Listed(config) :
                /\ Disk[k].git
                /\ InventoryScope(config, k) \in {"scope_canonical", "scope_unknown"}
                /\ \E g \in DuplicateGroups(config) : {k, p} \subseteq g
  <1> DEFINE t == Disk[p].top
             C == Candidates(config, t)
  <1>1. Listed(config) \subseteq Path /\ C \subseteq Path /\ t # Absent
    BY DEF Listed, Candidates, CheckoutsOf, LocalConfigs, ScopeAssumption
  <1>2. ASSUME InventoryScope(config, p) = "scope_canonical", NEW q \in Listed(config) \ {p},
               Disk[q].git, t = Disk[q].top, InventoryScope(config, q) = "scope_canonical"
        PROVE  FALSE
    <2>1. /\ ~Shadowed(config, p) /\ ClassifyScope(config, p) = "scope_canonical"
          /\ ~Shadowed(config, q) /\ ClassifyScope(config, q) = "scope_canonical"
      BY <1>2 DEF InventoryScope
    <2>2. p \in C /\ q \in C
      BY <1>2, <2>1 DEF Candidates, CheckoutsOf, UnsafePrimary
    <2>3. Outranks(config, p, q) \/ Outranks(config, q, p)
      BY <1>1, <1>2, <2>2, OneOutranked
    <2>4. QED
      BY <1>1, <1>2, <2>1, <2>2, <2>3 DEF Shadowed
  <1>3. ASSUME InventoryScope(config, p) = "scope_shadow"
        PROVE  \E k \in Listed(config) :
                 /\ Disk[k].git
                 /\ InventoryScope(config, k) \in {"scope_canonical", "scope_unknown"}
                 /\ \E g \in DuplicateGroups(config) : {k, p} \subseteq g
    <2>1. Shadowed(config, p)
      BY <1>3, RankOf DEF InventoryScope
    <2>2. PICK k \in C : \A q \in C : ~Outranks(config, q, k)
      BY <1>1, <2>1, SomeUnshadowed DEF Shadowed
    <2>3. /\ k \in Listed(config) /\ Disk[k].git /\ Disk[k].top = t
          /\ ClassifyScope(config, k) \notin UnsafePrimary /\ k # p
      BY <2>1, <2>2 DEF Candidates, CheckoutsOf, Shadowed
    <2>4. ~Shadowed(config, k)
      BY <2>2, <2>3 DEF Shadowed
    <2>5. InventoryScope(config, k) \in {"scope_canonical", "scope_unknown"}
      BY <2>3, <2>4, RankOf DEF InventoryScope
    <2> DEFINE g == CheckoutsOf(config, t)
    <2>6. k \in g /\ p \in g /\ g \in SUBSET Path
      BY <1>1, <2>3 DEF CheckoutsOf
    <2>7. IsFiniteSet(g)
      BY <2>6, FS_Subset DEF ScopeAssumption
    <2>8. g \in DuplicateGroups(config)
      BY <2>3, <2>6, <2>7, TwoOrMore DEF DuplicateGroups
    <2>9. QED
      BY <2>3, <2>5, <2>6, <2>8
  <1>4. QED
    BY <1>2, <1>3
===============================================================================
