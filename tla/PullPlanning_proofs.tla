-------------------------- MODULE PullPlanning_proofs --------------------------
(* Whatever the calls, the repositories and the people who work in them: an  *)
(* assessment of an undisturbed repository is exact, a refresh result tells  *)
(* the fetch, and a plan rests on both.                                     *)
EXTENDS PullPlanning, AssessmentRules_proofs

Jobs == [id : Assessor, repo : Repo]
Fetches == [exit : Int, upto : Nat]
Readings == [head : [of : Branch, tip : Nat, own : Nat] \cup {Absent},
             branch : Branch \cup {Absent}, tree : Trees \cup {Absent}]

Looking == {"branch", "status", "fetch", "headAfter", "branchAfter", "statusAfter"}
Running == Looking \cup {"head", "trace"}
Past == {"headAfter", "branchAfter", "statusAfter", "trace", "returned"}
Observing == {"status", "branch", "upstream", "counts", "default"}

-----------------------------------------------------------------------------
(* Every variable keeps its type.                                          *)

WorldShape ==
  /\ config \in Config
  /\ branch \in [Repo -> Positions] /\ tree \in [Repo -> Trees]
  /\ head \in [Repo -> Heads]
  /\ tracked \in [Repo -> 0..MaxTip] /\ remote \in [Repo -> 0..MaxTip]
  /\ \A d \in Repo : head[d].tip <= tracked[d] /\ tracked[d] <= remote[d]
  /\ changes \in 0..MaxChanges

HistoryShape ==
  /\ unread \in [Call -> SUBSET Commands]
  /\ disturbed \subseteq Call /\ contested \subseteq Refresher

AssessShape ==
  /\ apc \in [Assessor -> AssessPhases]
  /\ obs \in [Assessor -> ObservationSoFar \cup {Absent}]
  /\ made \in [Assessor -> Assessments \cup {Absent}]

RefreshShape ==
  /\ rpc \in [Refresher -> RefreshPhases]
  /\ job \in [Refresher -> Jobs \cup {Absent}]
  /\ before \in [Refresher -> Readings \cup {Absent}]
  /\ fetched \in [Refresher -> Fetches \cup {Absent}]
  /\ complaint \in [Refresher -> BOOLEAN]
  /\ result \in [Refresher -> Results \cup {Absent}]
  /\ trace \in [Trace -> Traces \cup {Absent}]

(* What an assessor holds at which control point.                           *)
Assessed(a) ==
  /\ apc[a] = "start" => obs[a] = Absent
  /\ apc[a] # "start" => obs[a] \in ObservationSoFar
  /\ apc[a] \in Observing /\ obs[a].is_git_repo => Disk[obs[a].path].git
  /\ apc[a] \in Observing \ {"default"} => obs[a].is_git_repo
  /\ apc[a] # "done" => made[a] = Absent
  /\ apc[a] = "done" =>
       \E o \in ObservationSoFar : made[a] = Assessment(a, o, config, o.path)

(* What a refresher has passed, holds and has achieved at which one.         *)
Gated(r) ==
  rpc[r] \in Running \cup {"returned"} =>
    /\ job[r] \in Jobs
    /\ config.policy["allow_network_fetch"]
    /\ ClassifyScope(config, job[r].repo) = "scope_canonical"

Achieved(r) ==
  rpc[r] \in Past =>
    /\ fetched[r] \in Fetches
    /\ fetched[r].exit = 0 => fetched[r].upto <= tracked[job[r].repo]

Refreshed(r) ==
  /\ Gated(r) /\ Achieved(r)
  /\ rpc[r] \in Looking => before[r] \in Readings
  /\ rpc[r] = "returned" => result[r] = RefreshResult(r)
  /\ rpc[r] # "returned" => result[r] = Absent

IInv ==
  /\ WorldShape /\ HistoryShape /\ AssessShape /\ RefreshShape
  /\ \A a \in Assessor : Assessed(a)
  /\ \A r \in Refresher : Refreshed(r)

-----------------------------------------------------------------------------
(* The constants.                                                          *)

(* A path with a .git entry belongs to a repository.                        *)
LEMMA Toplevels ==
  ASSUME NEW p \in Path, Disk[p].git
  PROVE  Disk[p].top \in Repo /\ Repo \subseteq Path
  BY PlanningAssumption DEF PlanningAssumption

(* What is held of an observation under way is an observation of some path. *)
LEMMA Observed ==
  ASSUME NEW o \in ObservationSoFar
  PROVE  Observation(o) /\ o.path \in Path
  BY DEF ObservationSoFar, Observation

(* What assess_repo concludes is an assessment.                             *)
LEMMA AssessmentShape ==
  ASSUME NEW a \in Assessor, NEW o \in ObservationSoFar, NEW c \in Config
  PROVE  Assessment(a, o, c, o.path) \in Assessments
  <1> DEFINE m == Assessment(a, o, c, o.path)
  <1>1. Observation(o) /\ c.found \in BOOLEAN
    BY Observed, PlanningAssumption DEF PlanningAssumption, LocalConfigs
  <1>2. m.derived_status \subseteq KnownActionPlanStatuses
    BY <1>1, KnownStatuses
  <1>3. m.decision_state \in DecisionStates /\ m.assessment_id = a
    BY StatusOf DEF DecisionState, DecisionStates
  <1>4. m.missing_evidence \subseteq MissingWords
    BY StatusOf DEF MissingEvidence, MissingWords
  <1>5. m.freshness_refs \subseteq FreshnessWords
    BY <1>1, AssessmentNotFetched
  <1>6. m = [assessment_id |-> m.assessment_id, derived_status |-> m.derived_status,
             decision_state |-> m.decision_state, missing_evidence |-> m.missing_evidence,
             freshness_refs |-> m.freshness_refs]
    BY DEF Assessment
  <1>7. QED
    BY <1>2, <1>3, <1>4, <1>5, <1>6 DEF Assessments

(* What a refresh returns is a valid result, and fresh exactly after a fetch  *)
(* that succeeded and was not contradicted.                                 *)
LEMMA ResultMeans ==
  ASSUME NEW r, job[r] \in Jobs, fetched[r] \in Fetches, complaint[r] \in BOOLEAN
  PROVE  LET x == RefreshResult(r) IN
         /\ x \in Results /\ ValidRefresh(x) /\ x.repo_ref = job[r].id
         /\ x.exit_code = ExitCode(r) /\ ExitCode(r) \in Nat
         /\ RefreshSucceeded(x) <=> fetched[r].exit = 0 /\ ~complaint[r]
         /\ x.mutates_refs <=> fetched[r].exit = 0 /\ ~complaint[r]
  <1>1. fetched[r].exit \in Int /\ job[r].id \in Assessor
    BY DEF Jobs, Fetches
  <1>2. ExitCode(r) \in Nat /\ (ExitCode(r) = 0 <=> fetched[r].exit = 0 /\ ~complaint[r])
    BY <1>1 DEF ExitCode
  <1>3. QED
    BY <1>1, <1>2 DEF RefreshResult, Results, ValidRefresh, RefreshSucceeded, Freshness

-----------------------------------------------------------------------------
(* What a step of one actor leaves to the others.                           *)

(* What an assessor holds stands while its own variables do.                *)
LEMMA AssessedKept ==
  ASSUME NEW a \in Assessor, Assessed(a), config' = config,
         apc'[a] = apc[a], obs'[a] = obs[a], made'[a] = made[a]
  PROVE  Assessed(a)'
  BY DEF Assessed

(* So does what a refresher holds, while no remote-tracking ref goes back.  *)
LEMMA RefreshedKept ==
  ASSUME NEW r \in Refresher, Refreshed(r), WorldShape, WorldShape', config' = config,
         rpc'[r] = rpc[r], job'[r] = job[r], before'[r] = before[r],
         fetched'[r] = fetched[r], complaint'[r] = complaint[r], result'[r] = result[r],
         \A d \in Repo : tracked[d] <= tracked'[d]
  PROVE  Refreshed(r)'
  <1>1. Gated(r)'
    BY DEF Refreshed, Gated
  <1>2. Achieved(r)'
    <2>1. SUFFICES ASSUME rpc[r] \in Past
                   PROVE  /\ fetched[r] \in Fetches
                          /\ fetched[r].exit = 0 => fetched[r].upto <= tracked'[job[r].repo]
      BY DEF Achieved
    <2>2. fetched[r] \in Fetches /\ job[r] \in Jobs
          /\ (fetched[r].exit = 0 => fetched[r].upto <= tracked[job[r].repo])
      BY <2>1 DEF Refreshed, Gated, Achieved, Past, Running, Looking
    <2>3. fetched[r].upto \in Nat /\ job[r].repo \in Repo
      BY <2>2 DEF Fetches, Jobs
    <2>4. /\ tracked[job[r].repo] \in Int /\ tracked'[job[r].repo] \in Int
          /\ tracked[job[r].repo] <= tracked'[job[r].repo]
      BY <2>3 DEF WorldShape
    <2>5. QED
      BY <2>2, <2>3, <2>4
  <1>3. QED
    BY <1>1, <1>2 DEF Refreshed, RefreshResult, ExitCode

(* Outsiders change one repository; who is reading it is disturbed.          *)
LEMMA OutsideEffect ==
  ASSUME WorldShape, NEW d \in Lively, Outside(d)
  PROVE  /\ WorldShape'
         /\ \A e \in Repo : tracked[e] <= tracked'[e]
         /\ \A e \in Repo \ {d} :
              /\ branch'[e] = branch[e] /\ tree'[e] = tree[e] /\ head'[e] = head[e]
              /\ tracked'[e] = tracked[e]
         /\ \/ disturbed' = disturbed \cup Reading(d)
            \/ UNCHANGED <<branch, tree, head, tracked, disturbed>>
         /\ UNCHANGED <<config, assessVars, refreshVars, unread, contested>>
  <1>1. d \in Repo /\ MaxTip \in Nat /\ MaxChanges \in Nat
    BY PlanningAssumption DEF PlanningAssumption
  <1>2. Change(d) => /\ changes' \in 0..MaxChanges
                     /\ disturbed' = disturbed \cup Reading(d)
                     /\ UNCHANGED <<config, assessVars, refreshVars, unread, contested>>
    BY <1>1 DEF Change, WorldShape
  <1>3. CASE Edit(d)
    BY <1>1, <1>2, <1>3 DEF Edit, WorldShape
  <1>4. CASE Checkout(d)
    BY <1>1, <1>2, <1>4 DEF Checkout, WorldShape
  <1>5. CASE Commit(d)
    <2>1. head' = [head EXCEPT ![d].own = 1] /\ head[d] \in Heads
          /\ UNCHANGED <<branch, tree, tracked, remote>>
      BY <1>1, <1>5 DEF Commit, WorldShape
    <2>2. head' \in [Repo -> Heads] /\ \A e \in Repo : head'[e].tip = head[e].tip
      BY <1>1, <2>1 DEF Heads, WorldShape
    <2>3. QED
      BY <1>1, <1>2, <1>5, <2>1, <2>2 DEF Commit, WorldShape
  <1>6. CASE FetchElsewhere(d)
    <2>1. tracked' = [tracked EXCEPT ![d] = remote[d]] /\ tracked[d] < remote[d]
          /\ UNCHANGED <<branch, tree, head, remote>>
      BY <1>6 DEF FetchElsewhere
    <2>2. \A e \in Repo : /\ tracked[e] \in Nat /\ remote[e] \in Nat /\ head[e].tip \in Nat
                          /\ tracked[e] <= tracked'[e] /\ tracked'[e] <= remote[e]
      BY <1>1, <2>1 DEF WorldShape, Heads
    <2>3. QED
      BY <1>1, <1>2, <1>6, <2>1, <2>2 DEF FetchElsewhere, WorldShape
  <1>7. CASE Publish(d)
    <2>1. /\ remote' = [remote EXCEPT ![d] = @ + 1] /\ remote[d] < MaxTip
          /\ changes < MaxChanges /\ changes' = changes + 1
          /\ UNCHANGED <<config, branch, tree, head, tracked, assessVars, refreshVars,
                         unread, disturbed, contested>>
      BY <1>7 DEF Publish, historyVars
    <2>2. /\ changes' \in 0..MaxChanges /\ remote' \in [Repo -> 0..MaxTip]
          /\ \A e \in Repo : tracked[e] \in Nat /\ tracked[e] <= remote'[e]
      BY <1>1, <2>1 DEF WorldShape
    <2>3. QED
      BY <1>1, <2>1, <2>2 DEF WorldShape
  <1>8. QED
    BY <1>3, <1>4, <1>5, <1>6, <1>7 DEF Outside

(* A step of an outsider keeps the invariant.                               *)
LEMMA OutsideInv ==
  ASSUME IInv, NEW d \in Lively, Outside(d)
  PROVE  IInv'
  <1>1. /\ WorldShape' /\ \A e \in Repo : tracked[e] <= tracked'[e]
        /\ UNCHANGED <<config, assessVars, refreshVars, unread, contested>>
    BY OutsideEffect DEF IInv
  <1>2. HistoryShape'
    <2>1. disturbed' = disturbed \/ disturbed' = disturbed \cup Reading(d)
      BY OutsideEffect DEF IInv
    <2>2. Reading(d) \subseteq Call
      BY DEF Reading, Call
    <2>3. QED
      BY <1>1, <2>1, <2>2 DEF IInv, HistoryShape
  <1>3. AssessShape' /\ RefreshShape'
    BY <1>1 DEF IInv, AssessShape, RefreshShape, assessVars, refreshVars
  <1>4. \A a \in Assessor : Assessed(a)'
    BY <1>1, AssessedKept DEF IInv, assessVars
  <1>5. \A r \in Refresher : Refreshed(r)'
    BY <1>1, RefreshedKept DEF IInv, refreshVars
  <1>6. QED
    BY <1>1, <1>2, <1>3, <1>4, <1>5 DEF IInv

-----------------------------------------------------------------------------
(* The steps of an assessor.                                               *)

(* So does a reading, whatever it yields.                                   *)
LEMMA LearnInv ==
  ASSUME IInv, NEW a \in Assessor, NEW phase \in Observing, NEW o \in ObservationSoFar,
         NEW lost \in SUBSET Commands, Learn(a, phase, o, lost), apc[a] # "done",
         o.is_git_repo => Disk[o.path].git, phase # "default" => o.is_git_repo
  PROVE  IInv'
  <1>1. /\ UNCHANGED <<config, worldVars, made, refreshVars, disturbed, contested>>
        /\ apc' = [apc EXCEPT ![a] = phase] /\ obs' = [obs EXCEPT ![a] = o]
        /\ unread' = [unread EXCEPT ![a] = @ \cup lost]
    BY DEF Learn, Unread
  <1>2. WorldShape' /\ RefreshShape'
    BY <1>1 DEF IInv, WorldShape, RefreshShape, worldVars, refreshVars
  <1>3. HistoryShape'
    BY <1>1 DEF IInv, HistoryShape, Call
  <1>4. AssessShape'
    <2>1. phase \in AssessPhases
      BY DEF Observing, AssessPhases
    <2>2. QED
      BY <1>1, <2>1 DEF IInv, AssessShape
  <1>5. ASSUME NEW b \in Assessor
        PROVE  Assessed(b)'
    <2>1. CASE b = a
      <3>1. apc'[a] = phase /\ obs'[a] = o /\ made'[a] = made[a]
        BY <1>1 DEF IInv, AssessShape
      <3>2. made[a] = Absent
        BY DEF IInv, Assessed
      <3>3. QED
        BY <2>1, <3>1, <3>2 DEF Assessed, Observing
    <2>2. CASE b # a
      BY <1>1, <2>2, AssessedKept DEF IInv, AssessShape
    <2>3. QED
      BY <2>1, <2>2
  <1>6. \A d \in Repo : tracked[d] <= tracked'[d]
    BY <1>1 DEF IInv, WorldShape, worldVars
  <1>7. \A r \in Refresher : Refreshed(r)'
    BY <1>1, <1>2, <1>6, RefreshedKept DEF IInv, refreshVars
  <1>8. QED
    BY <1>2, <1>3, <1>4, <1>5, <1>7 DEF IInv

(* What an assessor may learn at each step.                                 *)
Learned(a, phase, o, lost) ==
  /\ Learn(a, phase, o, lost)
  /\ phase \in Observing /\ o \in ObservationSoFar /\ lost \subseteq Commands
  /\ apc[a] \in {"start"} \cup Observing
  /\ o.is_git_repo => Disk[o.path].git
  /\ phase # "default" => o.is_git_repo

(* What the probe for a worktree yields.                                    *)
LEMMA ProbeLearns ==
  ASSUME NEW a \in Assessor, ProbeWorktree(a)
  PROVE  \E p \in Path, lost \in SUBSET {"probe"} :
           /\ apc[a] = "start"
           /\ \/ Disk[p].git /\ Learned(a, "status", Nothing(p, TRUE), {})
              \/ /\ ~Disk[p].git \/ "probe" \in lost
                 /\ Learned(a, "default", Nothing(p, FALSE), lost)
  <1>1. \A p \in Path, b \in BOOLEAN :
          /\ Nothing(p, b) \in ObservationSoFar
          /\ Nothing(p, b).path = p /\ Nothing(p, b).is_git_repo = b
    BY DEF Nothing, ObservationSoFar, DefaultSources
  <1>2. Named \subseteq Path
    BY PlanningAssumption DEF PlanningAssumption
  <1>3. QED
    BY <1>1, <1>2 DEF ProbeWorktree, Learned, Observing, Commands

(* Where an assessor is in between.                                         *)
LEMMA Underway ==
  ASSUME IInv, NEW a \in Assessor, apc[a] \in Observing \ {"default"}
  PROVE  /\ obs[a] \in ObservationSoFar /\ obs[a].is_git_repo /\ Disk[obs[a].path].git
         /\ RepoOf(a) \in Repo /\ RepoOf(a) = Disk[obs[a].path].top
         /\ apc[a] \in {"start"} \cup Observing
  <1>1. /\ obs[a] \in ObservationSoFar /\ obs[a].is_git_repo /\ Disk[obs[a].path].git
    BY DEF IInv, Assessed, Observing
  <1>2. QED
    BY <1>1, Toplevels, Observed DEF RepoOf

(* What git status yields.                                                  *)
LEMMA StatusLearns ==
  ASSUME IInv, NEW a \in Assessor, ReadStatus(a)
  PROVE  /\ apc[a] = "status"
         /\ \/ Learned(a, "branch", [obs[a] EXCEPT !.dirty = (tree[RepoOf(a)] = "dirty")], {})
            \/ Learned(a, "branch", obs[a], {"status"})
  BY Underway DEF ReadStatus, Learned, ObservationSoFar, Observing, Commands

(* What the reading of the branch yields.                                   *)
LEMMA BranchLearns ==
  ASSUME IInv, NEW a \in Assessor, ReadBranch(a)
  PROVE  /\ apc[a] = "branch"
         /\ \/ Learned(a, "upstream",
                       [obs[a] EXCEPT !.current_branch =
                          IF branch[RepoOf(a)] = "HEAD" THEN Absent ELSE branch[RepoOf(a)]],
                       {})
            \/ Learned(a, "upstream", obs[a], {"branch"})
  <1>1. apc[a] = "branch"
    BY DEF ReadBranch
  <1>2. branch[RepoOf(a)] \in Branch \cup {"HEAD"}
    BY <1>1, Underway DEF IInv, WorldShape, Positions, Observing
  <1>3. QED
    BY <1>1, <1>2, Underway DEF ReadBranch, Learned, ObservationSoFar, Observing, Commands

(* What the reading of the upstream yields.                                 *)
LEMMA UpstreamLearns ==
  ASSUME IInv, NEW a \in Assessor, ReadUpstream(a)
  PROVE  /\ apc[a] = "upstream"
         /\ \/ Learned(a, "counts",
                       [obs[a] EXCEPT !.upstream = (branch[RepoOf(a)] = "main")], {})
            \/ Learned(a, "counts", obs[a], {"upstream"})
  BY Underway DEF ReadUpstream, Learned, ObservationSoFar, Observing, Commands

(* What the reading of ahead and behind yields.                             *)
LEMMA CountsLearns ==
  ASSUME IInv, NEW a \in Assessor, ReadCounts(a)
  PROVE  /\ apc[a] = "counts"
         /\ \/ /\ branch[RepoOf(a)] = "main"
               /\ Learned(a, "default",
                          [obs[a] EXCEPT !.ahead = head[RepoOf(a)].own,
                             !.behind = tracked[RepoOf(a)] - head[RepoOf(a)].tip], {})
            \/ branch[RepoOf(a)] # "main" /\ Learned(a, "default", obs[a], {})
            \/ Learned(a, "default", obs[a], {"counts"})
  <1> DEFINE d == RepoOf(a)
  <1>1. apc[a] = "counts"
    BY DEF ReadCounts
  <1>2. d \in Repo
    BY <1>1, Underway DEF Observing
  <1>3. head[d].own \in 0..1 /\ tracked[d] - head[d].tip \in 0..MaxTip
    BY <1>2, PlanningAssumption DEF IInv, WorldShape, Heads, PlanningAssumption
  <1>4. [obs[a] EXCEPT !.ahead = head[d].own, !.behind = tracked[d] - head[d].tip]
          \in ObservationSoFar
    BY <1>1, <1>3, Underway DEF ObservationSoFar, Observing
  <1>5. QED
    BY <1>1, <1>4, Underway DEF ReadCounts, Learned, ObservationSoFar, Observing, Commands

(* What an assessment rests on: what was seen, and the default branch.       *)
Completed(o, source) ==
  IF source = "unavailable" \/ ~o.is_git_repo
  THEN o ELSE [o EXCEPT !.default_branch = "main", !.default_source = source]

(* What the last step of an assessor makes of its readings.                 *)
LEMMA ConcludeMeans ==
  ASSUME IInv, NEW a \in Assessor, Conclude(a)
  PROVE  /\ apc[a] = "default" /\ obs[a] \in ObservationSoFar
         /\ apc' = [apc EXCEPT ![a] = "done"]
         /\ obs' = [obs EXCEPT ![a] = Nothing(obs[a].path, obs[a].is_git_repo)]
         /\ UNCHANGED <<config, worldVars, refreshVars, historyVars>>
         /\ \E source \in DefaultSources :
              /\ Completed(obs[a], source) \in ObservationSoFar
              /\ Completed(obs[a], source).path = obs[a].path
              /\ made' = [made EXCEPT ![a] =
                   Assessment(a, Completed(obs[a], source), config, obs[a].path)]
  <1>1. apc[a] = "default" /\ obs[a] \in ObservationSoFar
    BY DEF Conclude, IInv, Assessed
  <1>2. \A source \in DefaultSources :
          /\ Completed(obs[a], source) \in ObservationSoFar
          /\ Completed(obs[a], source).path = obs[a].path
    BY <1>1 DEF Completed, ObservationSoFar
  <1>3. QED
    BY <1>1, <1>2 DEF Conclude, Completed

(* The last step of an assessor keeps the invariant.                        *)
LEMMA ConcludeInv ==
  ASSUME IInv, NEW a \in Assessor, Conclude(a) \/ ConfigNotFound(a)
  PROVE  IInv'
  <1>1. UNCHANGED <<config, worldVars, refreshVars, historyVars>>
    BY DEF Conclude, ConfigNotFound
  <1>2. WorldShape' /\ RefreshShape' /\ HistoryShape'
    BY <1>1 DEF IInv, WorldShape, RefreshShape, HistoryShape, worldVars, refreshVars,
                historyVars
  <1>3. \A d \in Repo : tracked[d] <= tracked'[d]
    BY <1>1 DEF IInv, WorldShape, worldVars
  <1>4. \A r \in Refresher : Refreshed(r)'
    BY <1>1, <1>2, <1>3, RefreshedKept DEF IInv, refreshVars
  <1>5. config \in Config
    BY DEF IInv, WorldShape
  <1>6. CASE Conclude(a)
    <2>1. PICK source \in DefaultSources :
            /\ Completed(obs[a], source) \in ObservationSoFar
            /\ Completed(obs[a], source).path = obs[a].path
            /\ made' = [made EXCEPT ![a] =
                 Assessment(a, Completed(obs[a], source), config, obs[a].path)]
      BY <1>6, ConcludeMeans
    <2>2. Assessment(a, Completed(obs[a], source), config, obs[a].path) \in Assessments
      BY <1>5, <2>1, AssessmentShape
    <2>3. Nothing(obs[a].path, obs[a].is_git_repo) \in ObservationSoFar
      BY <1>6, ConcludeMeans DEF Nothing, ObservationSoFar, DefaultSources
    <2>4. AssessShape'
      BY <1>6, <2>1, <2>2, <2>3, ConcludeMeans DEF IInv, AssessShape, AssessPhases
    <2>5. Assessed(a)'
      <3>1. /\ apc'[a] = "done" /\ config' = config
            /\ obs'[a] \in ObservationSoFar
            /\ made'[a] = Assessment(a, Completed(obs[a], source), config,
                                     Completed(obs[a], source).path)
        BY <1>1, <1>6, <2>1, <2>3, ConcludeMeans DEF IInv, AssessShape
      <3>2. QED
        BY <2>1, <3>1 DEF Assessed, Observing
    <2>6. \A b \in Assessor \ {a} : Assessed(b)'
      BY <1>1, <1>6, <2>1, ConcludeMeans, AssessedKept DEF IInv, AssessShape
    <2>7. QED
      BY <1>2, <1>4, <2>4, <2>5, <2>6 DEF IInv
  <1>7. CASE ConfigNotFound(a)
    <2>1. /\ apc[a] = "default" /\ apc' = [apc EXCEPT ![a] = "raised"]
          /\ obs' = obs /\ made' = made
      BY <1>7 DEF ConfigNotFound
    <2>2. AssessShape'
      BY <2>1 DEF IInv, AssessShape, AssessPhases
    <2>3. Assessed(a)'
      BY <2>1 DEF IInv, AssessShape, Assessed, Observing
    <2>4. \A b \in Assessor \ {a} : Assessed(b)'
      BY <1>1, <2>1, AssessedKept DEF IInv, AssessShape
    <2>5. QED
      BY <1>2, <1>4, <2>2, <2>3, <2>4 DEF IInv
  <1>8. QED
    BY <1>6, <1>7

(* Every step of an assessor keeps the invariant.                           *)
LEMMA AssessInv ==
  ASSUME IInv, NEW a \in Assessor, Assess(a)
  PROVE  IInv'
  <1>1. ASSUME NEW phase, NEW o, NEW lost, Learned(a, phase, o, lost)
        PROVE  IInv'
    BY <1>1, LearnInv DEF Learned, Observing
  <1>2. CASE ProbeWorktree(a)
    BY <1>1, <1>2, ProbeLearns
  <1>3. CASE ReadStatus(a)
    BY <1>1, <1>3, StatusLearns
  <1>4. CASE ReadBranch(a)
    BY <1>1, <1>4, BranchLearns
  <1>5. CASE ReadUpstream(a)
    BY <1>1, <1>5, UpstreamLearns
  <1>6. CASE ReadCounts(a)
    BY <1>1, <1>6, CountsLearns
  <1>7. QED
    BY <1>2, <1>3, <1>4, <1>5, <1>6, ConcludeInv DEF Assess

-----------------------------------------------------------------------------
(* The steps of a refresher.                                               *)

(* The others keep what they have.                                          *)
Apart(r) ==
  \A q \in Refresher \ {r} :
    /\ rpc'[q] = rpc[q] /\ job'[q] = job[q] /\ before'[q] = before[q]
    /\ fetched'[q] = fetched[q] /\ complaint'[q] = complaint[q] /\ result'[q] = result[q]

(* A step of a refresher that keeps what is known of it keeps the           *)
(* invariant.                                                               *)
LEMMA RefreshKept ==
  ASSUME IInv, NEW r \in Refresher, UNCHANGED <<config, assessVars>>,
         WorldShape', HistoryShape', RefreshShape',
         \A d \in Repo : tracked[d] <= tracked'[d], Apart(r), Refreshed(r)'
  PROVE  IInv'
  <1>1. AssessShape' /\ \A a \in Assessor : Assessed(a)'
    BY AssessedKept DEF IInv, AssessShape, assessVars
  <1>2. \A q \in Refresher \ {r} : Refreshed(q)'
    BY RefreshedKept DEF IInv, Apart
  <1>3. QED
    BY <1>1, <1>2 DEF IInv

(* All steps but the fetch leave the repository alone.                       *)
LEMMA RepoKept ==
  ASSUME IInv, UNCHANGED <<config, worldVars>>
  PROVE  WorldShape' /\ \A d \in Repo : tracked[d] <= tracked'[d]
  BY DEF IInv, WorldShape, worldVars

(* The admission of a refresher keeps the invariant.                        *)
LEMMA AdmitInv ==
  ASSUME IInv, NEW r \in Refresher, Admit(r)
  PROVE  IInv'
  <1>1. /\ UNCHANGED <<config, worldVars, assessVars, before, fetched, complaint, result,
                       trace, unread, disturbed>>
        /\ rpc' = [rpc EXCEPT ![r] = "head"] /\ rpc[r] = "start"
        /\ contested' = contested \cup Overlap(r)
    BY DEF Admit, Goto
  <1>2. PICK a \in Assessor, p \in Named :
          /\ Disk[p].git /\ ClassifyScope(config, Disk[p].top) = "scope_canonical"
          /\ job' = [job EXCEPT ![r] = [id |-> a, repo |-> Disk[p].top]]
    BY DEF Admit
  <1>3. [id |-> a, repo |-> Disk[p].top] \in Jobs
    BY <1>2, Toplevels, PlanningAssumption DEF PlanningAssumption, Jobs
  <1>4. RefreshShape'
    BY <1>1, <1>2, <1>3 DEF IInv, RefreshShape, RefreshPhases
  <1>5. HistoryShape'
    BY <1>1 DEF IInv, HistoryShape, Overlap
  <1>6. Apart(r)
    BY <1>1, <1>2 DEF Apart, IInv, RefreshShape
  <1>7. Refreshed(r)'
    <2>1. /\ rpc'[r] = "head" /\ job'[r] = [id |-> a, repo |-> Disk[p].top]
          /\ result'[r] = result[r] /\ result[r] = Absent /\ config' = config
      BY <1>1, <1>2 DEF IInv, RefreshShape, Refreshed
    <2>2. config.policy["allow_network_fetch"]
      BY DEF Admit, OperationAllowed, Required
    <2>3. QED
      BY <1>2, <1>3, <2>1, <2>2 DEF Refreshed, Gated, Achieved, Looking, Past
  <1>8. QED
    BY <1>1, <1>4, <1>5, <1>6, <1>7, RepoKept, RefreshKept

(* A call that ends without a result.                                       *)
LEMMA GiveUpInv ==
  ASSUME IInv, NEW r \in Refresher, NEW end \in {"refused", "raised", "killed"},
         GiveUp(r, end), rpc[r] # "returned", UNCHANGED <<config, worldVars, assessVars>>,
         UNCHANGED <<fetched, result>>, HistoryShape',
         trace' \in [Trace -> Traces \cup {Absent}]
  PROVE  IInv'
  <1>1. /\ rpc' = [rpc EXCEPT ![r] = end] /\ job' = [job EXCEPT ![r] = Absent]
        /\ before' = [before EXCEPT ![r] = Absent]
        /\ complaint' = [complaint EXCEPT ![r] = FALSE]
    BY DEF GiveUp, Goto
  <1>2. RefreshShape'
    BY <1>1 DEF IInv, RefreshShape, RefreshPhases
  <1>3. Apart(r)
    BY <1>1 DEF Apart, IInv, RefreshShape
  <1>4. Refreshed(r)'
    BY <1>1 DEF IInv, RefreshShape, Refreshed, Gated, Achieved, Looking, Running, Past
  <1>5. QED
    BY <1>2, <1>3, <1>4, RepoKept, RefreshKept

(* A reading before the fetch: r goes on with what it has.                   *)
LEMMA ReadBeforeInv ==
  ASSUME IInv, NEW r \in Refresher,
         ReadHeadBefore(r) \/ ReadBranchBefore(r) \/ ReadStatusBefore(r)
  PROVE  IInv'
  <1>1. /\ UNCHANGED <<config, worldVars, assessVars, job, fetched, complaint, result, trace,
                       disturbed, contested>>
        /\ rpc[r] \in {"head", "branch", "status"}
        /\ \E phase \in {"branch", "status", "fetch"} : rpc' = [rpc EXCEPT ![r] = phase]
    BY DEF ReadHeadBefore, ReadBranchBefore, ReadStatusBefore, Goto, historyVars
  <1>2. job[r] \in Jobs /\ job[r].repo \in Repo /\ result[r] = Absent
    BY <1>1 DEF IInv, Refreshed, Gated, Running, Looking, Jobs
  <1>3. HistoryShape'
    BY <1>1 DEF IInv, HistoryShape, ReadHeadBefore, ReadBranchBefore, ReadStatusBefore,
                Unread, historyVars, Call, Commands
  <1>4. \E x \in Readings : before' = [before EXCEPT ![r] = x]
    <2>1. HeadOf(job[r].repo) \in [of : Branch, tip : Nat, own : Nat]
      BY <1>2, PlanningAssumption DEF IInv, WorldShape, HeadOf, Heads, Positions,
                                      PlanningAssumption
    <2>2. CASE ReadHeadBefore(r)
      BY <2>1, <2>2 DEF ReadHeadBefore, Readings
    <2>3. CASE ReadBranchBefore(r)
      <3>1. before[r] \in Readings /\ branch[job[r].repo] \in Branch
        BY <1>2, <2>3 DEF ReadBranchBefore, IInv, Refreshed, Looking, WorldShape, Positions
      <3>2. before' = [before EXCEPT ![r] = [before[r] EXCEPT !.branch = branch[job[r].repo]]]
        BY <2>3 DEF ReadBranchBefore
      <3>3. [before[r] EXCEPT !.branch = branch[job[r].repo]] \in Readings
        BY <3>1 DEF Readings
      <3>4. QED
        BY <3>2, <3>3
    <2>4. CASE ReadStatusBefore(r)
      <3>1. before[r] \in Readings /\ tree[job[r].repo] \in Trees
        BY <1>2, <2>4 DEF ReadStatusBefore, IInv, Refreshed, Looking, WorldShape
      <3>2. before' = [before EXCEPT ![r] = [before[r] EXCEPT !.tree = tree[job[r].repo]]]
        BY <2>4 DEF ReadStatusBefore
      <3>3. [before[r] EXCEPT !.tree = tree[job[r].repo]] \in Readings
        BY <3>1 DEF Readings
      <3>4. QED
        BY <3>2, <3>3
    <2>5. QED
      BY <2>2, <2>3, <2>4
  <1>5. RefreshShape'
    BY <1>1, <1>4 DEF IInv, RefreshShape, RefreshPhases
  <1>6. Apart(r)
    BY <1>1, <1>4 DEF Apart, IInv, RefreshShape
  <1>7. Refreshed(r)'
    BY <1>1, <1>2, <1>4 DEF IInv, RefreshShape, Refreshed, Gated, Achieved, Looking, Running,
                            Past
  <1>8. QED
    BY <1>1, <1>3, <1>5, <1>6, <1>7, RepoKept, RefreshKept

(* The fetch keeps the invariant.                                           *)
LEMMA FetchInv ==
  ASSUME IInv, NEW r \in Refresher, Fetch(r)
  PROVE  IInv'
  <1> DEFINE d == job[r].repo
  <1>1. /\ rpc[r] = "fetch" /\ rpc' = [rpc EXCEPT ![r] = "headAfter"]
        /\ UNCHANGED <<config, branch, tree, head, remote, changes, assessVars, job, before,
                       complaint, result, trace, unread, contested>>
    BY DEF Fetch, Goto
  <1>2. PICK exit \in ExitCodes, to \in {tracked[d], remote[d]} :
          /\ exit = 0 => to = remote[d]
          /\ tracked' = [tracked EXCEPT ![d] = to]
          /\ fetched' = [fetched EXCEPT ![r] = [exit |-> exit, upto |-> remote[d]]]
          /\ disturbed' = IF to = tracked[d] THEN disturbed
                          ELSE disturbed \cup (Reading(d) \cap Assessor)
    BY DEF Fetch
  <1>3. job[r] \in Jobs /\ d \in Repo /\ result[r] = Absent /\ before[r] \in Readings
    BY <1>1 DEF IInv, Refreshed, Gated, Running, Looking, Jobs
  <1>4. /\ tracked[d] \in Nat /\ remote[d] \in Nat /\ head[d].tip \in Nat
        /\ head[d].tip <= tracked[d] /\ tracked[d] <= remote[d]
        /\ to \in 0..MaxTip /\ tracked[d] <= to /\ to <= remote[d]
    BY <1>2, <1>3 DEF IInv, WorldShape, Heads
  <1>5. WorldShape' /\ \A e \in Repo : tracked[e] <= tracked'[e]
    <2>1. /\ \A e \in Repo \ {d} : tracked'[e] = tracked[e]
          /\ tracked'[d] = to
      BY <1>2, <1>3 DEF IInv, WorldShape
    <2>2. \A e \in Repo : /\ tracked[e] \in Nat /\ tracked[e] <= tracked'[e]
                          /\ head'[e].tip <= tracked'[e] /\ tracked'[e] <= remote'[e]
      BY <1>1, <1>3, <1>4, <2>1 DEF IInv, WorldShape, Heads
    <2>3. QED
      BY <1>1, <1>2, <1>4, <2>2 DEF IInv, WorldShape
  <1>6. [exit |-> exit, upto |-> remote[d]] \in Fetches
    BY <1>4, PlanningAssumption DEF PlanningAssumption, Fetches
  <1>7. RefreshShape'
    BY <1>1, <1>2, <1>6 DEF IInv, RefreshShape, RefreshPhases
  <1>8. HistoryShape'
    BY <1>1, <1>2 DEF IInv, HistoryShape, Call
  <1>9. Apart(r)
    BY <1>1, <1>2 DEF Apart, IInv, RefreshShape
  <1>10. Refreshed(r)'
    <2>1. /\ rpc'[r] = "headAfter" /\ job'[r] = job[r] /\ result'[r] = Absent
          /\ before'[r] = before[r] /\ config' = config
          /\ fetched'[r] = [exit |-> exit, upto |-> remote[d]]
      BY <1>1, <1>2, <1>3 DEF IInv, RefreshShape
    <2>2. Gated(r)'
      BY <1>1, <2>1 DEF IInv, Refreshed, Gated, Running, Looking
    <2>3. Achieved(r)'
      <3>1. exit = 0 => tracked'[d] = remote[d]
        BY <1>2, <1>3 DEF IInv, WorldShape
      <3>2. QED
        BY <1>4, <1>6, <2>1, <3>1 DEF Achieved
    <2>4. QED
      BY <1>3, <2>1, <2>2, <2>3 DEF Refreshed
  <1>11. QED
    BY <1>1, <1>5, <1>7, <1>8, <1>9, <1>10, RefreshKept

(* A reading after the fetch.                                               *)
LEMMA PostcheckInv ==
  ASSUME IInv, NEW r \in Refresher, NEW value \in {"head", "branch", "tree"},
         NEW phase \in {"branchAfter", "statusAfter", "trace"}, NEW bad \in BOOLEAN,
         rpc[r] \in {"headAfter", "branchAfter", "statusAfter"},
         Postcheck(r, value, phase, bad), HistoryShape'
  PROVE  IInv'
  <1>1. /\ UNCHANGED <<config, worldVars, assessVars, job, fetched, result, trace, disturbed,
                       contested>>
        /\ rpc' = [rpc EXCEPT ![r] = phase]
        /\ complaint' = [complaint EXCEPT ![r] = @ \/ bad]
        /\ before' = [before EXCEPT ![r] = [before[r] EXCEPT ![value] = Absent]]
    BY DEF Postcheck, Goto
  <1>2. /\ job[r] \in Jobs /\ fetched[r] \in Fetches /\ before[r] \in Readings
        /\ result[r] = Absent
    BY DEF IInv, Refreshed, Gated, Achieved, Running, Looking, Past
  <1>3. [before[r] EXCEPT ![value] = Absent] \in Readings
    BY <1>2 DEF Readings
  <1>4. complaint' \in [Refresher -> BOOLEAN]
    BY <1>1 DEF IInv, RefreshShape
  <1>5. RefreshShape'
    BY <1>1, <1>3, <1>4 DEF IInv, RefreshShape, RefreshPhases
  <1>6. Apart(r)
    BY <1>1 DEF Apart, IInv, RefreshShape
  <1>7. Refreshed(r)'
    <2>1. /\ rpc'[r] = phase /\ job'[r] = job[r] /\ fetched'[r] = fetched[r]
          /\ result'[r] = Absent /\ before'[r] \in Readings /\ config' = config
          /\ tracked' = tracked
      BY <1>1, <1>2, <1>3 DEF IInv, RefreshShape, worldVars
    <2>2. QED
      BY <2>1 DEF IInv, Refreshed, Gated, Achieved, Looking, Running, Past
  <1>8. QED
    BY <1>1, <1>5, <1>6, <1>7, RepoKept, RefreshKept

(* The readings after the fetch keep the invariant.                         *)
LEMMA ReadAfterInv ==
  ASSUME IInv, NEW r \in Refresher, ReadHeadAfter(r) \/ ReadBranchAfter(r) \/ ReadStatusAfter(r)
  PROVE  IInv'
  <1>1. \E value \in {"head", "branch", "tree"},
           phase \in {"branchAfter", "statusAfter", "trace"}, bad \in BOOLEAN :
          Postcheck(r, value, phase, bad)
    BY DEF ReadHeadAfter, ReadBranchAfter, ReadStatusAfter
  <1>2. rpc[r] \in {"headAfter", "branchAfter", "statusAfter"}
    BY DEF ReadHeadAfter, ReadBranchAfter, ReadStatusAfter
  <1>3. disturbed' = disturbed /\ contested' = contested
    BY <1>1 DEF Postcheck
  <1>4. HistoryShape'
    <2>1. unread' = unread \/ \E lost \in {{}, {"head"}, {"status"}} :
                                unread' = [unread EXCEPT ![r] = @ \cup lost]
      BY DEF ReadHeadAfter, ReadBranchAfter, ReadStatusAfter, Unread
    <2>2. unread' \in [Call -> SUBSET Commands]
      BY <2>1 DEF IInv, HistoryShape, Call, Commands
    <2>3. QED
      BY <1>3, <2>2 DEF IInv, HistoryShape
  <1>5. QED
    BY <1>1, <1>2, <1>4, PostcheckInv

(* Writing the trace keeps the invariant.                                   *)
LEMMA WriteTraceInv ==
  ASSUME IInv, NEW r \in Refresher, WriteTrace(r)
  PROVE  IInv'
  <1>1. /\ rpc[r] = "trace"
        /\ UNCHANGED <<config, worldVars, assessVars, fetched, disturbed, contested>>
    BY DEF WriteTrace
  <1>2. job[r] \in Jobs /\ fetched[r] \in Fetches /\ complaint[r] \in BOOLEAN
    BY <1>1 DEF IInv, Refreshed, Gated, Achieved, Running, Past, RefreshShape
  <1>3. RefreshResult(r) \in Results /\ ExitCode(r) \in Nat
    BY <1>2, ResultMeans
  <1>4. \A whole \in BOOLEAN : TraceFile(r, whole) \in Traces
    BY <1>3 DEF TraceFile, Traces
  <1>5. trace' \in [Trace -> Traces \cup {Absent}]
    BY <1>4 DEF WriteTrace, IInv, RefreshShape
  <1>6. CASE /\ result' = [result EXCEPT ![r] = RefreshResult(r)]
             /\ Goto(r, "returned") /\ UNCHANGED <<job, before, complaint, unread>>
    <2>1. rpc' = [rpc EXCEPT ![r] = "returned"]
      BY <1>6 DEF Goto
    <2>2. RefreshShape'
      BY <1>1, <1>3, <1>5, <1>6, <2>1 DEF IInv, RefreshShape, RefreshPhases
    <2>3. HistoryShape'
      BY <1>1, <1>6 DEF IInv, HistoryShape
    <2>4. Apart(r)
      BY <1>1, <1>6, <2>1 DEF Apart, IInv, RefreshShape
    <2>5. Refreshed(r)'
      <3>1. /\ rpc'[r] = "returned" /\ job' = job /\ fetched' = fetched
            /\ complaint' = complaint /\ config' = config /\ tracked' = tracked
            /\ result'[r] = RefreshResult(r)
        BY <1>1, <1>6, <2>1 DEF IInv, RefreshShape, worldVars
      <3>2. RefreshResult(r)' = RefreshResult(r)
        BY <3>1 DEF RefreshResult, ExitCode
      <3>3. Gated(r)' /\ Achieved(r)'
        BY <1>1, <3>1 DEF IInv, Refreshed, Gated, Achieved, Running, Past
      <3>4. QED
        BY <3>1, <3>2, <3>3 DEF Refreshed, Looking
    <2>6. QED
      BY <1>1, <2>2, <2>3, <2>4, <2>5, RepoKept, RefreshKept
  <1>7. CASE /\ \E end \in {"raised", "killed"} : GiveUp(r, end)
             /\ unread' = [unread EXCEPT ![r] = @ \cup {"trace"}] /\ result' = result
    <2>1. HistoryShape'
      BY <1>1, <1>7 DEF IInv, HistoryShape, Call, Commands
    <2>2. QED
      BY <1>1, <1>5, <1>7, <2>1, GiveUpInv
  <1>8. QED
    BY <1>6, <1>7 DEF WriteTrace

(* Ending without a result keeps the invariant.                             *)
LEMMA EndInv ==
  ASSUME IInv, NEW r \in Refresher, Refuse(r) \/ BranchUnreadable(r) \/ Kill(r)
  PROVE  IInv'
  <1>1. \E end \in {"refused", "raised", "killed"} : GiveUp(r, end)
    BY DEF Refuse, BranchUnreadable, Kill
  <1>2. /\ rpc[r] # "returned"
        /\ UNCHANGED <<config, worldVars, assessVars, fetched, result, trace, historyVars>>
    BY DEF Refuse, BranchUnreadable, Kill, Ended
  <1>3. HistoryShape' /\ trace' \in [Trace -> Traces \cup {Absent}]
    BY <1>2 DEF IInv, HistoryShape, RefreshShape, historyVars
  <1>4. QED
    BY <1>1, <1>2, <1>3, GiveUpInv

(* Every step of a refresher keeps the invariant.                           *)
LEMMA RefreshInv ==
  ASSUME IInv, NEW r \in Refresher, Refresh(r)
  PROVE  IInv'
  BY AdmitInv, ReadBeforeInv, FetchInv, ReadAfterInv, WriteTraceInv, EndInv DEF Refresh

-----------------------------------------------------------------------------
(* The invariant.                                                          *)

(* The inductive invariant holds initially.                                 *)
LEMMA InvInit == Init => IInv
  <1> SUFFICES ASSUME Init
               PROVE  IInv
    OBVIOUS
  <1>1. WorldShape
    <2>1. "main" \in Positions /\ "clean" \in Trees /\ MaxTip \in Nat /\ MaxChanges \in Nat
      BY PlanningAssumption DEF PlanningAssumption, Positions, Trees
    <2>2. [tip |-> 0, own |-> 0] \in Heads
      BY <2>1 DEF Heads
    <2>3. PICK tip \in 0..MaxTip : remote = [d \in Repo |-> tip]
      BY DEF Init
    <2>4. \A d \in Repo : /\ head[d].tip = 0 /\ tracked[d] = 0 /\ remote[d] = tip
      BY <2>3 DEF Init
    <2>5. branch \in [Repo -> Positions]
      BY <2>1 DEF Init
    <2>6. QED
      BY <2>1, <2>2, <2>3, <2>4, <2>5 DEF Init, WorldShape
  <1>2. HistoryShape
    BY DEF Init, HistoryShape
  <1>3. AssessShape /\ RefreshShape
    BY DEF Init, AssessShape, RefreshShape, AssessPhases, RefreshPhases
  <1>4. \A a \in Assessor : Assessed(a)
    BY DEF Init, Assessed, Observing
  <1>5. \A r \in Refresher : Refreshed(r)
    BY DEF Init, Refreshed, Gated, Achieved, Running, Looking, Past
  <1>6. QED
    BY <1>1, <1>2, <1>3, <1>4, <1>5 DEF IInv

(* Every step keeps the inductive invariant.                                *)
LEMMA InvStep == IInv /\ [Next]_vars => IInv'
  <1> SUFFICES ASSUME IInv, [Next]_vars
               PROVE  IInv'
    OBVIOUS
  <1>1. CASE Next
    BY <1>1, OutsideInv, AssessInv, RefreshInv DEF Next
  <1>2. CASE UNCHANGED vars
    <2>1. /\ WorldShape' /\ HistoryShape' /\ AssessShape' /\ RefreshShape'
          /\ UNCHANGED <<config, assessVars, refreshVars>>
          /\ \A d \in Repo : tracked[d] <= tracked'[d]
      BY <1>2 DEF IInv, WorldShape, HistoryShape, AssessShape, RefreshShape, vars, worldVars,
                  assessVars, refreshVars, historyVars
    <2>2. QED
      BY <2>1, AssessedKept, RefreshedKept DEF IInv, assessVars, refreshVars
  <1>3. QED
    BY <1>1, <1>2

(* What assessors and refreshers hold at each control point, in every        *)
(* reachable state.                                                        *)
THEOREM PlanningInvariant == Spec => []IInv
  BY InvInit, InvStep, PTL DEF Spec

(* No assessment is missing that was made, and none is there that was not.    *)
LEMMA MadeWhenDone ==
  ASSUME IInv, NEW a \in Assessor
  PROVE  /\ made[a] # Absent <=> apc[a] = "done"
         /\ made[a] # Absent => made[a] \in Assessments
  <1>1. apc[a] = "done" => made[a] \in Assessments
    BY AssessmentShape DEF IInv, Assessed, WorldShape
  <1>2. QED
    BY <1>1, PlanningAssumption DEF IInv, Assessed, PlanningAssumption

(* A result is there exactly when its call has returned, and says what the  *)
(* call did.                                                                *)
LEMMA ReturnedResult ==
  ASSUME IInv, NEW r \in Refresher
  PROVE  /\ result[r] # Absent <=> rpc[r] = "returned"
         /\ result[r] # Absent =>
              /\ result[r] = RefreshResult(r)
              /\ job[r] \in Jobs /\ fetched[r] \in Fetches /\ complaint[r] \in BOOLEAN
              /\ result[r] \in Results /\ ValidRefresh(result[r])
              /\ result[r].repo_ref = job[r].id /\ result[r].exit_code = ExitCode(r)
              /\ RefreshSucceeded(result[r]) <=> fetched[r].exit = 0 /\ ~complaint[r]
              /\ result[r].mutates_refs <=> fetched[r].exit = 0 /\ ~complaint[r]
  <1>1. CASE rpc[r] = "returned"
    <2>1. /\ job[r] \in Jobs /\ fetched[r] \in Fetches /\ complaint[r] \in BOOLEAN
          /\ result[r] = RefreshResult(r)
      BY <1>1 DEF IInv, Refreshed, Gated, Achieved, Past, RefreshShape
    <2>2. result[r] \in Results
      BY <2>1, ResultMeans
    <2>3. result[r] # Absent
      BY <2>2, PlanningAssumption DEF PlanningAssumption
    <2>4. QED
      BY <1>1, <2>1, <2>2, <2>3, ResultMeans
  <1>2. CASE rpc[r] # "returned"
    BY <1>2 DEF IInv, Refreshed
  <1>3. QED
    BY <1>1, <1>2

(* Every variable keeps its type.                                          *)
THEOREM TypeCorrect == Spec => []TypeOK
  <1>1. ASSUME IInv
        PROVE  TypeOK
    <2>1. /\ \A a \in Assessor : obs[a] = Absent \/ obs[a] \in ObservationSoFar
          /\ \A r \in Refresher : job[r] = Absent \/ job[r] \in Jobs
          /\ \A t \in Trace : trace[t] = Absent \/ trace[t] \in Traces
      BY <1>1 DEF IInv, AssessShape, RefreshShape
    <2>2. \A a \in Assessor : /\ made[a] # Absent <=> apc[a] = "done"
                              /\ made[a] = Absent \/ made[a] \in Assessments
      BY <1>1, MadeWhenDone
    <2>3. \A r \in Refresher :
            /\ result[r] # Absent <=> rpc[r] = "returned"
            /\ result[r] = Absent \/ (result[r] \in Results /\ ValidRefresh(result[r]))
      BY <1>1, ReturnedResult
    <2>4. QED
      BY <1>1, <2>1, <2>2, <2>3
         DEF TypeOK, IInv, WorldShape, HistoryShape, AssessShape, RefreshShape, Jobs
  <1>2. QED
    BY <1>1, PlanningInvariant, PTL

(* Plans are made of what was assessed.                                     *)
LEMMA MadeOf ==
  ASSUME IInv, NEW a \in Assessor, made[a] # Absent
  PROVE  \E o \in ObservationSoFar :
           /\ made[a] = Assessment(a, o, config, o.path)
           /\ Observation(o) /\ config.found \in BOOLEAN
  <1>1. config.found \in BOOLEAN
    BY PlanningAssumption DEF IInv, WorldShape, PlanningAssumption, LocalConfigs
  <1>2. QED
    BY <1>1, MadeWhenDone, Observed DEF IInv, Assessed

(* The planners take every assessment with every refresh result made for it.  *)
THEOREM AssessmentsPlannable == Spec => []EveryAssessmentIsPlannable
  <1>1. ASSUME IInv
        PROVE  EveryAssessmentIsPlannable
    <2>1. SUFFICES ASSUME NEW a \in Assessor, made[a] # Absent
                   PROVE  /\ SwitchPlannable(made[a])
                          /\ PlanSwitchMain(made[a]).decision = "blocked" <=>
                               "clean_default_current" \notin ClaimsOf(a)
                          /\ \A r \in Refresher :
                               LET given == IF result[r] # Absent /\ result[r].repo_ref = a
                                            THEN result[r] ELSE Absent
                               IN /\ PullPlannable(made[a], given)
                                  /\ PlanGitPull(made[a], given).blocked_because # {}
      BY DEF EveryAssessmentIsPlannable
    <2>2. PICK o \in ObservationSoFar : /\ made[a] = Assessment(a, o, config, o.path)
                                        /\ Observation(o) /\ config.found \in BOOLEAN
      BY <1>1, <2>1, MadeOf
    <2>3. ASSUME NEW r \in Refresher, NEW given,
                 given = IF result[r] # Absent /\ result[r].repo_ref = a
                         THEN result[r] ELSE Absent
          PROVE  PullPlannable(made[a], given) /\ PullBlockers(made[a], given) # {}
      <3>1. given = Absent \/ (ValidRefresh(given) /\ given.repo_ref = a)
        BY <1>1, <2>3, ReturnedResult
      <3>2. QED
        BY <2>2, <3>1, EveryAssessmentPullPlanned
    <2>4. QED
      BY <2>2, <2>3, EveryAssessmentSwitchPlanned DEF ClaimsOf, PlanGitPull
  <1>2. QED
    BY <1>1, PlanningInvariant, PTL

(* A plan blocked by its being a preview only rests on a clear preflight and  *)
(* a fetch that succeeded, in scope and allowed, made for its assessment.    *)
THEOREM PreviewRestsOnFetch == Spec => []PreviewOnlyRestsOnFetch
  <1>1. ASSUME IInv
        PROVE  PreviewOnlyRestsOnFetch
    <2>1. SUFFICES ASSUME NEW a \in Assessor, NEW r \in Refresher, made[a] # Absent,
                          PullPlannable(made[a], result[r]),
                          PreviewOnly \in PullBlockers(made[a], result[r])
                   PROVE  /\ PullBlockers(made[a], result[r]) = {PreviewOnly}
                          /\ LocalClear \in ClaimsOf(a)
                          /\ result[r] # Absent
                          /\ job[r].id = a /\ fetched[r].exit = 0 /\ ~complaint[r]
                          /\ ClassifyScope(config, job[r].repo) = "scope_canonical"
                          /\ config.policy["allow_network_fetch"]
      BY DEF PreviewOnlyRestsOnFetch, PlanGitPull
    <2>2. PICK o \in ObservationSoFar : /\ made[a] = Assessment(a, o, config, o.path)
                                        /\ Observation(o)
      BY <1>1, <2>1, MadeOf
    <2>3. made[a].assessment_id = a
      BY <2>2, StatusOf
    <2>4. result[r] # Absent => ValidRefresh(result[r]) /\ result[r].repo_ref = a
      BY <2>1, <2>3 DEF PullPlannable
    <2>5. /\ PullBlockers(made[a], result[r]) = {PreviewOnly}
          /\ LocalClear \in made[a].derived_status
          /\ result[r] # Absent /\ RefreshSucceeded(result[r])
      BY <2>1, <2>2, <2>4, EveryAssessmentPullPlanned
    <2>6. job[r].id = a /\ fetched[r].exit = 0 /\ ~complaint[r]
      BY <1>1, <2>4, <2>5, ReturnedResult
    <2>7. rpc[r] = "returned"
      BY <1>1, <2>5, ReturnedResult
    <2>8. QED
      BY <1>1, <2>5, <2>6, <2>7 DEF ClaimsOf, IInv, Refreshed, Gated
  <1>2. QED
    BY <1>1, PlanningInvariant, PTL

(* No document claims a freshness nobody earned.                             *)
THEOREM FreshnessEarned == Spec => []FreshnessIsEarned
  <1>1. ASSUME IInv
        PROVE  FreshnessIsEarned
    <2>1. ASSUME NEW a \in Assessor, made[a] # Absent
          PROVE  /\ FetchedFresh \notin made[a].freshness_refs
                 /\ ~({ConfigRead, ConfigUnavailable} \subseteq made[a].freshness_refs)
      BY <1>1, <2>1, MadeOf, AssessmentNotFetched
    <2>2. ASSUME NEW a \in Assessor, made[a] # Absent, NEW r \in Refresher,
                 FetchedFresh \in PullFreshness(made[a], result[r])
          PROVE  fetched[r].exit = 0 /\ tracked[job[r].repo] >= fetched[r].upto
      <3>1. result[r] # Absent /\ RefreshSucceeded(result[r])
        BY <2>1, <2>2 DEF PullFreshness
      <3>2. fetched[r].exit = 0 /\ rpc[r] = "returned"
        BY <1>1, <3>1, ReturnedResult
      <3>3. fetched[r].upto <= tracked[job[r].repo]
        BY <1>1, <3>2 DEF IInv, Refreshed, Achieved, Past
      <3>4. QED
        BY <3>2, <3>3
    <2>3. QED
      BY <2>1, <2>2 DEF FreshnessIsEarned, PlanGitPull
  <1>2. QED
    BY <1>1, PlanningInvariant, PTL

-----------------------------------------------------------------------------
(* A result tells the fetch.  What a refresher has read is still so while     *)
(* nobody disturbs it, so that it has nothing to complain of.                *)

Steady(r) ==
  LET d == job[r].repo IN
  r \notin disturbed =>
    /\ rpc[r] \in {"branch", "status", "fetch", "headAfter"} =>
         before[r].head \in {Absent, HeadOf(d)}
    /\ rpc[r] \in {"status", "fetch", "headAfter", "branchAfter"} =>
         before[r].branch = branch[d]
    /\ rpc[r] \in {"fetch", "headAfter", "branchAfter", "statusAfter"} =>
         before[r].tree = tree[d]
    /\ complaint[r] => "status" \in unread[r]

(* What a refresher has read stays so while nobody disturbs its repository. *)
LEMMA SteadyKept ==
  ASSUME NEW r \in Refresher, Steady(r),
         rpc'[r] = rpc[r], job'[r] = job[r], before'[r] = before[r],
         complaint'[r] = complaint[r], unread[r] \subseteq unread'[r],
         disturbed \subseteq disturbed',
         r \notin disturbed' /\ rpc[r] \in Looking =>
           /\ branch'[job[r].repo] = branch[job[r].repo]
           /\ tree'[job[r].repo] = tree[job[r].repo]
           /\ head'[job[r].repo] = head[job[r].repo]
  PROVE  Steady(r)'
  BY DEF Steady, Looking, HeadOf

(* An outsider keeps it, or disturbs.                                       *)
LEMMA OutsideSteady ==
  ASSUME IInv, NEW r \in Refresher, Steady(r), NEW d \in Lively, Outside(d)
  PROVE  Steady(r)'
  <1>1. /\ UNCHANGED <<refreshVars, unread>>
        /\ \A e \in Repo \ {d} :
             branch'[e] = branch[e] /\ tree'[e] = tree[e] /\ head'[e] = head[e]
        /\ \/ disturbed' = disturbed \cup Reading(d)
           \/ UNCHANGED <<branch, tree, head, disturbed>>
    BY OutsideEffect DEF IInv
  <1>2. rpc[r] \in Looking => job[r].repo \in Repo
    BY DEF IInv, Refreshed, Gated, Running, Jobs
  <1>3. rpc[r] \in Looking /\ job[r].repo = d => r \in Reading(d)
    BY DEF Reading, Looking
  <1>4. QED
    BY <1>1, <1>2, <1>3, SteadyKept DEF refreshVars

(* An assessor keeps it.                                                    *)
LEMMA AssessSteady ==
  ASSUME IInv, NEW r \in Refresher, Steady(r), NEW a \in Assessor, Assess(a)
  PROVE  Steady(r)'
  <1>1. /\ UNCHANGED <<worldVars, refreshVars, disturbed>>
        /\ \/ unread' = unread
           \/ \E lost : unread' = [unread EXCEPT ![a] = @ \cup lost]
    BY DEF Assess, ProbeWorktree, ReadStatus, ReadBranch, ReadUpstream, ReadCounts, Conclude,
           ConfigNotFound, Learn, Unread, historyVars
  <1>2. unread[r] \subseteq unread'[r]
    BY <1>1 DEF IInv, HistoryShape, Call
  <1>3. QED
    BY <1>1, <1>2, SteadyKept DEF worldVars, refreshVars

(* A refresher leaves the others' repositories as they are, but for the       *)
(* remote-tracking refs.                                                    *)
LEMMA RefreshEffect ==
  ASSUME IInv, NEW r \in Refresher, Refresh(r)
  PROVE  /\ UNCHANGED <<config, branch, tree, head, remote, changes, assessVars>>
         /\ Apart(r)
         /\ disturbed \subseteq disturbed' /\ contested \subseteq contested'
         /\ \A c \in Call : unread[c] \subseteq unread'[c]
         /\ \A c \in Call : unread'[c] \subseteq unread[c] \cup {"head", "status", "trace"}
  <1>1. /\ UNCHANGED <<config, branch, tree, head, remote, changes, assessVars>>
        /\ disturbed \subseteq disturbed' /\ contested \subseteq contested'
    BY DEF Refresh, Admit, Refuse, ReadHeadBefore, ReadBranchBefore, ReadStatusBefore, Fetch,
           ReadHeadAfter, ReadBranchAfter, BranchUnreadable, ReadStatusAfter, WriteTrace, Kill,
           Postcheck, worldVars, historyVars
  <1>2. \/ unread' = unread
        \/ \E lost \in SUBSET {"head", "status", "trace"} :
             unread' = [unread EXCEPT ![r] = @ \cup lost]
    BY DEF Refresh, Admit, Refuse, ReadHeadBefore, ReadBranchBefore, ReadStatusBefore, Fetch,
           ReadHeadAfter, ReadBranchAfter, BranchUnreadable, ReadStatusAfter, WriteTrace, Kill,
           Postcheck, Unread, historyVars
  <1>3. /\ \A c \in Call : unread[c] \subseteq unread'[c]
        /\ \A c \in Call : unread'[c] \subseteq unread[c] \cup {"head", "status", "trace"}
    BY <1>2 DEF IInv, HistoryShape, Call
  <1>4. Apart(r)
    BY DEF Refresh, Admit, Refuse, ReadHeadBefore, ReadBranchBefore, ReadStatusBefore, Fetch,
           ReadHeadAfter, ReadBranchAfter, BranchUnreadable, ReadStatusAfter, WriteTrace, Kill,
           Postcheck, GiveUp, Goto, Apart, IInv, RefreshShape
  <1>5. QED
    BY <1>1, <1>3, <1>4

(* So does another refresher: a fetch moves no branch.                      *)
LEMMA RefreshSteadyOthers ==
  ASSUME IInv, NEW r \in Refresher, Refresh(r), NEW q \in Refresher \ {r}, Steady(q)
  PROVE  Steady(q)'
  BY RefreshEffect, SteadyKept DEF Apart, Call

(* And so do the steps of the refresher itself.                             *)
LEMMA RefreshSteadyOwn ==
  ASSUME IInv, NEW r \in Refresher, Refresh(r), Steady(r)
  PROVE  Steady(r)'
  <1> DEFINE d == job[r].repo
  <1>1. /\ UNCHANGED <<branch, tree, head>> /\ disturbed \subseteq disturbed'
        /\ unread[r] \subseteq unread'[r] /\ HeadOf(d)' = HeadOf(d')
    BY RefreshEffect DEF Call, HeadOf
  <1>2. CASE Admit(r)
    <2>1. rpc'[r] = "head" /\ complaint' = complaint
      BY <1>2 DEF Admit, Goto, IInv, RefreshShape
    <2>2. QED
      BY <1>1, <2>1 DEF Steady
  <1>3. CASE \E end \in {"refused", "raised", "killed"} : GiveUp(r, end)
    <2>1. rpc'[r] \in {"refused", "raised", "killed"} /\ ~complaint'[r]
      BY <1>3 DEF GiveUp, Goto, IInv, RefreshShape
    <2>2. QED
      BY <2>1 DEF Steady
  <1>4. CASE ReadHeadBefore(r)
    <2>1. /\ rpc'[r] = "branch" /\ job' = job /\ complaint' = complaint
          /\ before'[r].head \in {HeadOf(d), Absent}
      BY <1>4 DEF ReadHeadBefore, Goto, IInv, RefreshShape
    <2>2. HeadOf(d)' = HeadOf(d)
      BY <1>1, <2>1 DEF HeadOf
    <2>3. QED
      BY <1>1, <2>1, <2>2 DEF Steady
  <1>5. CASE ReadBranchBefore(r)
    <2>1. /\ rpc[r] = "branch" /\ rpc'[r] = "status" /\ job' = job /\ complaint' = complaint
          /\ before'[r] = [before[r] EXCEPT !.branch = branch[d]] /\ before[r] \in Readings
      BY <1>5 DEF ReadBranchBefore, Goto, IInv, RefreshShape, Refreshed, Looking
    <2>2. before'[r].head = before[r].head /\ before'[r].branch = branch[d]
      BY <2>1 DEF Readings
    <2>3. HeadOf(d)' = HeadOf(d)
      BY <1>1, <2>1 DEF HeadOf
    <2>4. QED
      BY <1>1, <2>1, <2>2, <2>3 DEF Steady
  <1>6. CASE ReadStatusBefore(r)
    <2>1. /\ rpc[r] = "status" /\ rpc'[r] = "fetch" /\ job' = job /\ complaint' = complaint
          /\ before'[r] = [before[r] EXCEPT !.tree = tree[d]] /\ before[r] \in Readings
      BY <1>6 DEF ReadStatusBefore, Goto, IInv, RefreshShape, Refreshed, Looking
    <2>2. /\ before'[r].head = before[r].head /\ before'[r].branch = before[r].branch
          /\ before'[r].tree = tree[d]
      BY <2>1 DEF Readings
    <2>3. HeadOf(d)' = HeadOf(d)
      BY <1>1, <2>1 DEF HeadOf
    <2>4. QED
      BY <1>1, <2>1, <2>2, <2>3 DEF Steady
  <1>7. CASE Fetch(r)
    <2>1. /\ rpc[r] = "fetch" /\ rpc'[r] = "headAfter" /\ job' = job /\ before' = before
          /\ complaint' = complaint
      BY <1>7 DEF Fetch, Goto, IInv, RefreshShape
    <2>2. HeadOf(d)' = HeadOf(d)
      BY <1>1, <2>1 DEF HeadOf
    <2>3. QED
      BY <1>1, <2>1, <2>2 DEF Steady
  <1>8. CASE ReadHeadAfter(r)
    <2>1. /\ rpc[r] = "headAfter" /\ rpc'[r] = "branchAfter" /\ job' = job
          /\ before'[r] = [before[r] EXCEPT !["head"] = Absent] /\ before[r] \in Readings
          /\ \E h \in {HeadOf(d), Absent} :
               complaint'[r] = (complaint[r] \/ (Absent \notin {h, before[r].head}
                                                 /\ h # before[r].head))
      BY <1>8 DEF ReadHeadAfter, Postcheck, Goto, IInv, RefreshShape, Refreshed, Looking
    <2>2. before'[r].branch = before[r].branch /\ before'[r].tree = before[r].tree
      BY <2>1 DEF Readings
    <2>3. QED
      BY <1>1, <2>1, <2>2 DEF Steady
  <1>9. CASE ReadBranchAfter(r)
    <2>1. /\ rpc[r] = "branchAfter" /\ rpc'[r] = "statusAfter" /\ job' = job
          /\ before'[r] = [before[r] EXCEPT !["branch"] = Absent] /\ before[r] \in Readings
          /\ complaint'[r] = (complaint[r] \/ branch[d] # before[r].branch)
      BY <1>9 DEF ReadBranchAfter, Postcheck, Goto, IInv, RefreshShape, Refreshed, Looking
    <2>2. before'[r].tree = before[r].tree
      BY <2>1 DEF Readings
    <2>3. QED
      BY <1>1, <2>1, <2>2 DEF Steady
  <1>10. CASE ReadStatusAfter(r)
    <2>1. /\ rpc[r] = "statusAfter" /\ rpc'[r] = "trace"
          /\ \/ complaint'[r] = (complaint[r] \/ tree[d] # before[r].tree)
             \/ "status" \in unread'[r]
      BY <1>10 DEF ReadStatusAfter, Postcheck, Goto, Unread, IInv, RefreshShape, HistoryShape,
                   Call
    <2>2. QED
      BY <1>1, <2>1 DEF Steady
  <1>11. CASE WriteTrace(r) /\ Goto(r, "returned") /\ complaint' = complaint
    <2>1. rpc'[r] = "returned"
      BY <1>11 DEF Goto, IInv, RefreshShape
    <2>2. QED
      BY <1>1, <1>11, <2>1 DEF Steady
  <1>12. Refuse(r) \/ BranchUnreadable(r) \/ Kill(r) =>
           \E end \in {"refused", "raised", "killed"} : GiveUp(r, end)
    BY DEF Refuse, BranchUnreadable, Kill
  <1>13. WriteTrace(r) => \/ Goto(r, "returned") /\ complaint' = complaint
                          \/ \E end \in {"refused", "raised", "killed"} : GiveUp(r, end)
    BY DEF WriteTrace
  <1>14. QED
    BY <1>2, <1>3, <1>4, <1>5, <1>6, <1>7, <1>8, <1>9, <1>10, <1>11, <1>12, <1>13 DEF Refresh

SteadyInv == \A r \in Refresher : Steady(r)

(* Every step keeps it.                                                     *)
LEMMA SteadyStep == IInv /\ SteadyInv /\ [Next]_vars => SteadyInv'
  <1> SUFFICES ASSUME IInv, SteadyInv, [Next]_vars, NEW r \in Refresher
               PROVE  Steady(r)'
    BY DEF SteadyInv
  <1>1. CASE UNCHANGED vars
    BY <1>1 DEF SteadyInv, Steady, HeadOf, vars, worldVars, refreshVars, historyVars
  <1>2. CASE \E d \in Lively : Outside(d)
    BY <1>2, OutsideSteady DEF SteadyInv
  <1>3. CASE \E a \in Assessor : Assess(a)
    BY <1>3, AssessSteady DEF SteadyInv
  <1>4. CASE \E q \in Refresher : Refresh(q)
    BY <1>4, RefreshSteadyOthers, RefreshSteadyOwn DEF SteadyInv
  <1>5. QED
    BY <1>1, <1>2, <1>3, <1>4 DEF Next

(* A fresh result belongs to a fetch that succeeded; undisturbed, a result is *)
(* fresh exactly when it did.                                               *)
THEOREM ResultTellsFetch == Spec => []RefreshTellsTheFetch
  <1>1. Init => SteadyInv
    BY DEF Init, SteadyInv, Steady
  <1>2. ASSUME IInv, SteadyInv
        PROVE  RefreshTellsTheFetch
    <2>1. SUFFICES ASSUME NEW r \in Refresher, result[r] # Absent
                   PROVE  /\ RefreshSucceeded(result[r]) =>
                               /\ fetched[r].exit = 0 /\ ~complaint[r]
                               /\ result[r].mutates_refs
                               /\ tracked[job[r].repo] >= fetched[r].upto
                          /\ r \notin disturbed /\ "status" \notin unread[r] =>
                               /\ RefreshSucceeded(result[r]) <=> fetched[r].exit = 0
                               /\ result[r].mutates_refs <=> fetched[r].exit = 0
      BY DEF RefreshTellsTheFetch
    <2>2. rpc[r] = "returned"
      BY <1>2, <2>1, ReturnedResult
    <2>3. fetched[r].exit = 0 => fetched[r].upto <= tracked[job[r].repo]
      BY <1>2, <2>2 DEF IInv, Refreshed, Achieved, Past
    <2>4. r \notin disturbed /\ "status" \notin unread[r] => ~complaint[r]
      BY <1>2 DEF SteadyInv, Steady
    <2>5. QED
      BY <1>2, <2>1, <2>3, <2>4, ReturnedResult
  <1>3. QED
    BY <1>1, <1>2, SteadyStep, PlanningInvariant, PTL DEF Spec

-----------------------------------------------------------------------------
(* The trace of a call nobody contested is its own.  While it is under way    *)
(* the path is free and nobody else is under way with it; when it has        *)
(* returned, its file is there, so that nobody is admitted any more.         *)

Own(r) ==
  r \notin contested =>
    /\ rpc[r] \in Running \cup {"returned"} =>
         \A q \in Refresher \ {r} : TracePath[q] = TracePath[r] => rpc[q] \notin Running
    /\ rpc[r] \in Running => trace[TracePath[r]] = Absent
    /\ rpc[r] = "returned" => trace[TracePath[r]] = TraceFile(r, TRUE)

OwnInv == \A r \in Refresher : Own(r)

(* A call is under way between its admission and its end.                   *)
LEMMA UnderWay ==
  ASSUME RefreshShape, NEW r \in Refresher
  PROVE  rpc[r] \notin Ended \cup {"start"} <=> rpc[r] \in Running
  BY DEF RefreshShape, RefreshPhases, Ended, Running, Looking

(* What a step does to the path of its caller, when it is no admission.      *)
LEMMA WriteEffect ==
  ASSUME IInv, NEW r \in Refresher, Refresh(r), ~Admit(r)
  PROVE  /\ contested' = contested
         /\ rpc'[r] \in Running => rpc[r] \in Running /\ trace' = trace
         /\ \/ trace' = trace
            \/ /\ rpc[r] = "trace"
               /\ \E file : trace' = [trace EXCEPT ![TracePath[r]] = file]
         /\ rpc'[r] = "returned" =>
              /\ rpc[r] = "trace" /\ trace'[TracePath[r]] = TraceFile(r, TRUE)
              /\ fetched' = fetched /\ complaint' = complaint
  <1>1. TracePath[r] \in Trace
    BY PlanningAssumption DEF PlanningAssumption
  <1>2. CASE WriteTrace(r)
    <2>1. /\ rpc[r] = "trace" /\ contested' = contested /\ fetched' = fetched
          /\ rpc'[r] \notin Running
      BY <1>2 DEF WriteTrace, GiveUp, Goto, IInv, RefreshShape, Running, Looking
    <2>2. \/ trace' = trace
          \/ \E file : trace' = [trace EXCEPT ![TracePath[r]] = file]
      BY <1>2 DEF WriteTrace
    <2>3. CASE Goto(r, "returned")
      <3>1. rpc'[r] = "returned"
        BY <2>3 DEF Goto, IInv, RefreshShape
      <3>2. ~ \E end \in {"raised", "killed"} : GiveUp(r, end)
        BY <3>1 DEF GiveUp, Goto, IInv, RefreshShape
      <3>3. /\ trace' = [trace EXCEPT ![TracePath[r]] = TraceFile(r, TRUE)]
            /\ complaint' = complaint
        BY <1>2, <3>2 DEF WriteTrace
      <3>4. QED
        BY <1>1, <2>1, <3>1, <3>3 DEF IInv, RefreshShape
    <2>4. CASE \E end \in {"raised", "killed"} : GiveUp(r, end)
      <3>1. rpc'[r] # "returned"
        BY <2>4 DEF GiveUp, Goto, IInv, RefreshShape
      <3>2. QED
        BY <2>1, <2>2, <3>1
    <2>5. QED
      BY <1>2, <2>3, <2>4 DEF WriteTrace
  <1>3. CASE Refuse(r) \/ BranchUnreadable(r) \/ Kill(r)
    BY <1>3 DEF Refuse, BranchUnreadable, Kill, GiveUp, Goto, historyVars, IInv, RefreshShape,
                Running, Looking
  <1>4. CASE ReadHeadBefore(r) \/ ReadBranchBefore(r) \/ ReadStatusBefore(r) \/ Fetch(r)
    BY <1>4 DEF ReadHeadBefore, ReadBranchBefore, ReadStatusBefore, Fetch, Goto, historyVars,
                IInv, RefreshShape, Running, Looking
  <1>5. CASE ReadHeadAfter(r) \/ ReadBranchAfter(r) \/ ReadStatusAfter(r)
    BY <1>5 DEF ReadHeadAfter, ReadBranchAfter, ReadStatusAfter, Postcheck, Goto, IInv,
                RefreshShape, Running, Looking
  <1>6. QED
    BY <1>2, <1>3, <1>4, <1>5 DEF Refresh

(* The file of a call that has returned is a file.                           *)
LEMMA FileThere ==
  ASSUME IInv, NEW r \in Refresher, rpc[r] = "returned"
  PROVE  TraceFile(r, TRUE) # Absent
  <1>1. job[r] \in Jobs /\ fetched[r] \in Fetches /\ complaint[r] \in BOOLEAN
    BY DEF IInv, RefreshShape, Refreshed, Gated, Achieved, Past
  <1>2. TraceFile(r, TRUE) \in Traces
    BY <1>1, ResultMeans DEF TraceFile, Traces
  <1>3. QED
    BY <1>2, PlanningAssumption DEF PlanningAssumption

(* An admission leaves every uncontested call its trace path.               *)
LEMMA AdmitOwn ==
  ASSUME IInv, OwnInv, NEW r \in Refresher, Admit(r), NEW q \in Refresher
  PROVE  Own(q)'
  <1>1. /\ rpc' = [rpc EXCEPT ![r] = "head"] /\ trace[TracePath[r]] = Absent
        /\ trace' = trace /\ fetched' = fetched /\ complaint' = complaint
        /\ contested' = contested \cup Overlap(r)
    BY DEF Admit, Goto
  <1>2. \A p \in Refresher \ {r} : TracePath[p] = TracePath[r] /\ rpc[p] \in Running =>
          p \in contested' /\ r \in contested'
    BY <1>1, UnderWay DEF Overlap, IInv
  <1>3. \A p \in Refresher \ {r} : rpc'[p] = rpc[p]
    BY <1>1 DEF IInv, RefreshShape
  <1>4. rpc'[r] = "head"
    BY <1>1 DEF IInv, RefreshShape
  <1>5. SUFFICES ASSUME q \notin contested'
                 PROVE  Own(q)'
    BY DEF Own
  <1>6. q \notin contested
    BY <1>1, <1>5
  <1>7. CASE q = r
    BY <1>1, <1>2, <1>3, <1>4, <1>5, <1>7 DEF Own
  <1>8. CASE q # r
    <2>1. rpc[q] \in Running \cup {"returned"} => TracePath[q] # TracePath[r]
      BY <1>1, <1>2, <1>5, <1>6, <1>8, FileThere DEF OwnInv, Own
    <2>2. TraceFile(q, TRUE)' = TraceFile(q, TRUE)
      BY <1>1 DEF TraceFile, ExitCode
    <2>3. QED
      BY <1>1, <1>3, <1>6, <1>8, <2>1, <2>2 DEF OwnInv, Own
  <1>9. QED
    BY <1>7, <1>8

(* So does every other step of a refresher.                                 *)
LEMMA RefreshOwn ==
  ASSUME IInv, OwnInv, NEW r \in Refresher, Refresh(r), ~Admit(r), NEW q \in Refresher
  PROVE  Own(q)'
  <1>1. /\ contested' = contested
        /\ rpc'[r] \in Running => rpc[r] \in Running /\ trace' = trace
        /\ \/ trace' = trace
           \/ /\ rpc[r] \in Running
              /\ \E file : trace' = [trace EXCEPT ![TracePath[r]] = file]
        /\ rpc'[r] = "returned" =>
             /\ rpc[r] \in Running /\ trace'[TracePath[r]] = TraceFile(r, TRUE)
             /\ fetched' = fetched /\ complaint' = complaint
    BY WriteEffect DEF Running
  <1>2. /\ Apart(r)
        /\ \A p \in Refresher \ {r} : rpc'[p] \in Running <=> rpc[p] \in Running
    BY RefreshEffect DEF Apart
  <1>3. SUFFICES ASSUME q \notin contested
                 PROVE  Own(q)'
    BY <1>1 DEF Own
  <1>4. CASE q = r
    <2>1. rpc'[r] = "returned" => TraceFile(r, TRUE)' = TraceFile(r, TRUE)
      BY <1>1 DEF TraceFile, ExitCode
    <2>2. QED
      BY <1>1, <1>2, <1>3, <1>4, <2>1 DEF OwnInv, Own
  <1>5. CASE q # r
    <2>1. TraceFile(q, TRUE)' = TraceFile(q, TRUE)
      BY <1>2, <1>5 DEF TraceFile, ExitCode, Apart
    <2>2. rpc'[q] = rpc[q]
      BY <1>2, <1>5 DEF Apart
    <2>3. rpc[q] \in Running \cup {"returned"} =>
            /\ TracePath[q] = TracePath[r] => rpc[r] \notin Running
            /\ trace'[TracePath[q]] = trace[TracePath[q]]
      <3>1. rpc[q] \in Running \cup {"returned"} /\ TracePath[q] = TracePath[r] =>
              rpc[r] \notin Running
        BY <1>3, <1>5 DEF OwnInv, Own
      <3>2. TracePath[q] \in Trace /\ trace \in [Trace -> Traces \cup {Absent}]
        BY PlanningAssumption DEF PlanningAssumption, IInv, RefreshShape
      <3>3. QED
        BY <1>1, <3>1, <3>2
    <2>4. QED
      BY <1>1, <1>2, <1>3, <1>5, <2>1, <2>2, <2>3 DEF OwnInv, Own
  <1>6. QED
    BY <1>4, <1>5

(* And so does every step.                                                  *)
LEMMA OwnStep == IInv /\ OwnInv /\ [Next]_vars => OwnInv'
  <1> SUFFICES ASSUME IInv, OwnInv, [Next]_vars
               PROVE  OwnInv'
    OBVIOUS
  <1>1. ASSUME UNCHANGED <<refreshVars, contested>>
        PROVE  OwnInv'
    BY <1>1 DEF OwnInv, Own, TraceFile, ExitCode, refreshVars
  <1>2. CASE UNCHANGED vars
    BY <1>1, <1>2 DEF vars, historyVars
  <1>3. CASE \E d \in Lively : Outside(d)
    BY <1>1, <1>3, OutsideEffect DEF IInv
  <1>4. CASE \E a \in Assessor : Assess(a)
    <2>1. UNCHANGED <<refreshVars, contested>>
      BY <1>4 DEF Assess, ProbeWorktree, ReadStatus, ReadBranch, ReadUpstream, ReadCounts,
                  Conclude, ConfigNotFound, Learn, historyVars
    <2>2. QED
      BY <1>1, <2>1
  <1>5. CASE \E r \in Refresher : Refresh(r)
    BY <1>5, AdmitOwn, RefreshOwn DEF OwnInv
  <1>6. QED
    BY <1>2, <1>3, <1>4, <1>5 DEF Next

(* The trace of a returned result is its own, unless the path was contested.  *)
THEOREM TraceOwned == Spec => []TraceTellsResult
  <1>1. Init => OwnInv
    BY DEF Init, OwnInv, Own, Running, Looking
  <1>2. ASSUME IInv, OwnInv
        PROVE  TraceTellsResult
    <2>1. SUFFICES ASSUME NEW r \in Refresher, result[r] # Absent, r \notin contested
                   PROVE  trace[TracePath[r]] =
                            [by |-> r, exit_code |-> result[r].exit_code, whole |-> TRUE]
      BY DEF TraceTellsResult
    <2>2. rpc[r] = "returned" /\ result[r] = RefreshResult(r)
      BY <1>2, <2>1 DEF IInv, Refreshed
    <2>3. trace[TracePath[r]] = TraceFile(r, TRUE)
      BY <1>2, <2>1, <2>2 DEF OwnInv, Own
    <2>4. result[r].exit_code = ExitCode(r)
      BY <2>2 DEF RefreshResult
    <2>5. QED
      BY <2>3, <2>4 DEF TraceFile
  <1>3. QED
    BY <1>1, <1>2, OwnStep, PlanningInvariant, PTL DEF Spec

-----------------------------------------------------------------------------
(* An assessment is exact.  In a repository nobody disturbs, what an          *)
(* assessor has seen is so, and what it has not seen is either not so or      *)
(* among what it could not read.                                            *)

Exact(o, phase, missed) ==
  LET d == Disk[o.path].top IN
  /\ o.is_git_repo <=> Disk[o.path].git /\ "probe" \notin missed
  /\ o.is_git_repo =>
       /\ o.dirty => tree[d] = "dirty"
       /\ o.current_branch # Absent => branch[d] = o.current_branch
       /\ o.ahead # Absent => o.ahead = head[d].own /\ o.behind = tracked[d] - head[d].tip
       /\ phase # "status" => o.dirty \/ tree[d] = "clean" \/ "status" \in missed
       /\ phase \notin {"status", "branch"} =>
            o.current_branch # Absent \/ branch[d] = "HEAD" \/ "branch" \in missed
       /\ phase = "default" => o.ahead # Absent \/ branch[d] # "main" \/ "counts" \in missed

Truthful(a) ==
  /\ apc[a] = "start" => "probe" \notin unread[a]
  /\ a \notin disturbed =>
       /\ apc[a] \in Observing => Exact(obs[a], apc[a], unread[a])
       /\ apc[a] = "done" =>
            \E o \in ObservationSoFar :
              /\ o.path = obs[a].path /\ Exact(o, "default", unread[a])
              /\ made[a] = Assessment(a, o, config, o.path)

TruthfulInv == \A a \in Assessor : Truthful(a)

(* Nothing that has been seen changes, and only "probe" counts against it.    *)
LEMMA ExactKept ==
  ASSUME NEW o, NEW phase, NEW missed, NEW more, Exact(o, phase, missed),
         missed \subseteq more, "probe" \in more => "probe" \in missed,
         Disk[o.path].git =>
           LET d == Disk[o.path].top IN
           /\ branch'[d] = branch[d] /\ tree'[d] = tree[d]
           /\ head'[d] = head[d] /\ tracked'[d] = tracked[d]
  PROVE  LET d == Disk[o.path].top IN
         /\ o.is_git_repo <=> Disk[o.path].git /\ "probe" \notin more
         /\ o.is_git_repo =>
              /\ o.dirty => tree'[d] = "dirty"
              /\ o.current_branch # Absent => branch'[d] = o.current_branch
              /\ o.ahead # Absent =>
                   o.ahead = head'[d].own /\ o.behind = tracked'[d] - head'[d].tip
              /\ phase # "status" => o.dirty \/ tree'[d] = "clean" \/ "status" \in more
              /\ phase \notin {"status", "branch"} =>
                   o.current_branch # Absent \/ branch'[d] = "HEAD" \/ "branch" \in more
              /\ phase = "default" =>
                   o.ahead # Absent \/ branch'[d] # "main" \/ "counts" \in more
  BY DEF Exact

(* What an assessor has seen stays so while nobody disturbs its repository. *)
LEMMA TruthfulKept ==
  ASSUME IInv, NEW a \in Assessor, Truthful(a), config' = config,
         apc'[a] = apc[a], obs'[a] = obs[a], made'[a] = made[a],
         unread[a] \subseteq unread'[a], "probe" \in unread'[a] => "probe" \in unread[a],
         disturbed \subseteq disturbed',
         a \notin disturbed' /\ obs[a] # Absent /\ apc[a] # "start" /\ Disk[obs[a].path].git =>
           LET d == Disk[obs[a].path].top IN
           /\ branch'[d] = branch[d] /\ tree'[d] = tree[d]
           /\ head'[d] = head[d] /\ tracked'[d] = tracked[d]
  PROVE  Truthful(a)'
  <1>1. apc[a] # "start" => obs[a] # Absent
    BY PlanningAssumption DEF IInv, Assessed, PlanningAssumption
  <1>2. ASSUME a \notin disturbed', apc[a] \in Observing
        PROVE  Exact(obs[a], apc[a], unread[a])'
    <2>1. Exact(obs[a], apc[a], unread[a])
      BY <1>2 DEF Truthful
    <2>2. QED
      BY <1>1, <1>2, <2>1, ExactKept DEF Exact, Observing
  <1>3. ASSUME a \notin disturbed', apc[a] = "done",
               NEW o \in ObservationSoFar, o.path = obs[a].path, Exact(o, "default", unread[a])
        PROVE  Exact(o, "default", unread[a])'
    BY <1>1, <1>3, ExactKept DEF Exact
  <1>4. QED
    BY <1>2, <1>3 DEF Truthful

(* What it comes to know, in a world that stands still meanwhile.            *)
LEMMA LearnTruthful ==
  ASSUME IInv, TruthfulInv, NEW a \in Assessor,
         NEW phase, NEW o, NEW lost, Learned(a, phase, o, lost),
         a \notin disturbed => Exact(o, phase, unread[a] \cup lost)
  PROVE  TruthfulInv'
  <1>1. /\ UNCHANGED <<config, worldVars, made, disturbed>>
        /\ apc' = [apc EXCEPT ![a] = phase] /\ obs' = [obs EXCEPT ![a] = o]
        /\ unread' = [unread EXCEPT ![a] = @ \cup lost] /\ phase \in Observing
    BY DEF Learned, Learn, Unread
  <1>2. apc'[a] = phase /\ obs'[a] = o /\ unread'[a] = unread[a] \cup lost
    BY <1>1 DEF IInv, AssessShape, HistoryShape, Call
  <1>3. Truthful(a)'
    <2>1. a \notin disturbed => Exact(o, phase, unread[a] \cup lost)'
      BY <1>1 DEF Exact, worldVars
    <2>2. QED
      BY <1>1, <1>2 DEF Truthful, Observing, Exact, worldVars
  <1>4. ASSUME NEW b \in Assessor \ {a}
        PROVE  Truthful(b)'
    <2>1. apc'[b] = apc[b] /\ obs'[b] = obs[b] /\ made'[b] = made[b] /\ unread'[b] = unread[b]
      BY <1>1 DEF IInv, AssessShape, HistoryShape, Call
    <2>2. QED
      BY <1>1, <2>1, TruthfulKept DEF TruthfulInv, worldVars
  <1>5. QED
    BY <1>3, <1>4 DEF TruthfulInv

(* The probe sees what is there.                                            *)
LEMMA ProbeTruthful ==
  ASSUME IInv, TruthfulInv, NEW a \in Assessor, ProbeWorktree(a)
  PROVE  TruthfulInv'
  <1>1. "probe" \notin unread[a]
    BY ProbeLearns DEF TruthfulInv, Truthful
  <1>2. ASSUME NEW p \in Path, Disk[p].git
        PROVE  Exact(Nothing(p, TRUE), "status", unread[a] \cup {})
    BY <1>1, <1>2 DEF Exact, Nothing
  <1>3. ASSUME NEW p \in Path, NEW lost \in SUBSET {"probe"}, ~Disk[p].git \/ "probe" \in lost
        PROVE  Exact(Nothing(p, FALSE), "default", unread[a] \cup lost)
    BY <1>3 DEF Exact, Nothing
  <1>4. QED
    BY <1>2, <1>3, ProbeLearns, LearnTruthful

(* git status sees what is there.                                           *)
LEMMA StatusTruthful ==
  ASSUME IInv, TruthfulInv, NEW a \in Assessor, ReadStatus(a)
  PROVE  TruthfulInv'
  <1> DEFINE d == RepoOf(a)
             o == [obs[a] EXCEPT !.dirty = (tree[d] = "dirty")]
  <1>1. /\ apc[a] = "status" /\ obs[a] \in ObservationSoFar /\ d = Disk[obs[a].path].top
        /\ tree[d] \in Trees
    BY StatusLearns, Underway DEF Observing, IInv, WorldShape
  <1>2. a \notin disturbed => Exact(obs[a], "status", unread[a])
    BY <1>1 DEF TruthfulInv, Truthful, Observing
  <1>3. /\ o.path = obs[a].path /\ o.is_git_repo = obs[a].is_git_repo
        /\ o.dirty <=> tree[d] = "dirty"
        /\ o.current_branch = obs[a].current_branch
        /\ o.ahead = obs[a].ahead /\ o.behind = obs[a].behind
    BY <1>1 DEF ObservationSoFar
  <1>4. a \notin disturbed => Exact(o, "branch", unread[a] \cup {})
    BY <1>1, <1>2, <1>3 DEF Exact, Trees
  <1>5. a \notin disturbed => Exact(obs[a], "branch", unread[a] \cup {"status"})
    BY <1>2 DEF Exact
  <1>6. QED
    BY <1>4, <1>5, StatusLearns, LearnTruthful

(* The reading of the branch sees what is there.                            *)
LEMMA BranchTruthful ==
  ASSUME IInv, TruthfulInv, NEW a \in Assessor, ReadBranch(a)
  PROVE  TruthfulInv'
  <1> DEFINE d == RepoOf(a)
             o == [obs[a] EXCEPT !.current_branch = IF branch[d] = "HEAD" THEN Absent
                                                    ELSE branch[d]]
  <1>1. apc[a] = "branch" /\ obs[a] \in ObservationSoFar /\ d = Disk[obs[a].path].top
    BY BranchLearns, Underway DEF Observing
  <1>2. a \notin disturbed => Exact(obs[a], "branch", unread[a])
    BY <1>1 DEF TruthfulInv, Truthful, Observing
  <1>3. /\ o.path = obs[a].path /\ o.is_git_repo = obs[a].is_git_repo /\ o.dirty = obs[a].dirty
        /\ o.current_branch = IF branch[d] = "HEAD" THEN Absent ELSE branch[d]
        /\ o.ahead = obs[a].ahead /\ o.behind = obs[a].behind
    BY <1>1 DEF ObservationSoFar
  <1>4. branch[d] # Absent
    BY <1>1, Underway, PlanningAssumption
       DEF IInv, WorldShape, Positions, Observing, PlanningAssumption
  <1>5. a \notin disturbed => Exact(o, "upstream", unread[a] \cup {})
    BY <1>1, <1>2, <1>3, <1>4 DEF Exact
  <1>6. a \notin disturbed => Exact(obs[a], "upstream", unread[a] \cup {"branch"})
    BY <1>2 DEF Exact
  <1>7. QED
    BY <1>5, <1>6, BranchLearns, LearnTruthful

(* The reading of the upstream sees what is there.                          *)
LEMMA UpstreamTruthful ==
  ASSUME IInv, TruthfulInv, NEW a \in Assessor, ReadUpstream(a)
  PROVE  TruthfulInv'
  <1> DEFINE o == [obs[a] EXCEPT !.upstream = (branch[RepoOf(a)] = "main")]
  <1>1. apc[a] = "upstream" /\ obs[a] \in ObservationSoFar
    BY UpstreamLearns, Underway DEF Observing
  <1>2. a \notin disturbed => Exact(obs[a], "upstream", unread[a])
    BY <1>1 DEF TruthfulInv, Truthful, Observing
  <1>3. /\ o.path = obs[a].path /\ o.is_git_repo = obs[a].is_git_repo /\ o.dirty = obs[a].dirty
        /\ o.current_branch = obs[a].current_branch
        /\ o.ahead = obs[a].ahead /\ o.behind = obs[a].behind
    BY <1>1 DEF ObservationSoFar
  <1>4. a \notin disturbed => Exact(o, "counts", unread[a] \cup {})
    BY <1>2, <1>3 DEF Exact
  <1>5. a \notin disturbed => Exact(obs[a], "counts", unread[a] \cup {"upstream"})
    BY <1>2 DEF Exact
  <1>6. QED
    BY <1>4, <1>5, UpstreamLearns, LearnTruthful

(* The reading of ahead and behind sees what is there.                      *)
LEMMA CountsTruthful ==
  ASSUME IInv, TruthfulInv, NEW a \in Assessor, ReadCounts(a)
  PROVE  TruthfulInv'
  <1> DEFINE d == RepoOf(a)
             o == [obs[a] EXCEPT !.ahead = head[d].own, !.behind = tracked[d] - head[d].tip]
  <1>1. apc[a] = "counts" /\ obs[a] \in ObservationSoFar /\ d = Disk[obs[a].path].top
    BY CountsLearns, Underway DEF Observing
  <1>2. a \notin disturbed => Exact(obs[a], "counts", unread[a])
    BY <1>1 DEF TruthfulInv, Truthful, Observing
  <1>3. /\ o.path = obs[a].path /\ o.is_git_repo = obs[a].is_git_repo /\ o.dirty = obs[a].dirty
        /\ o.current_branch = obs[a].current_branch
        /\ o.ahead = head[d].own /\ o.behind = tracked[d] - head[d].tip
    BY <1>1 DEF ObservationSoFar
  <1>4. head[d].own \in Nat /\ Absent \notin Nat
    BY <1>1, Underway, PlanningAssumption
       DEF IInv, WorldShape, Heads, Observing, PlanningAssumption
  <1>5. a \notin disturbed => Exact(o, "default", unread[a] \cup {})
    BY <1>1, <1>2, <1>3, <1>4 DEF Exact
  <1>6. a \notin disturbed /\ branch[d] # "main" => Exact(obs[a], "default", unread[a] \cup {})
    BY <1>1, <1>2 DEF Exact
  <1>7. a \notin disturbed => Exact(obs[a], "default", unread[a] \cup {"counts"})
    BY <1>2 DEF Exact
  <1>8. QED
    BY <1>5, <1>6, <1>7, CountsLearns, LearnTruthful

(* The conclusion says what was seen.                                       *)
LEMMA ConcludeTruthful ==
  ASSUME IInv, TruthfulInv, NEW a \in Assessor, Conclude(a) \/ ConfigNotFound(a)
  PROVE  TruthfulInv'
  <1>1. UNCHANGED <<config, worldVars, historyVars>>
    BY DEF Conclude, ConfigNotFound
  <1>2. ASSUME NEW b \in Assessor \ {a}
        PROVE  Truthful(b)'
    <2>1. apc'[b] = apc[b] /\ obs'[b] = obs[b] /\ made'[b] = made[b]
      BY DEF Conclude, ConfigNotFound, IInv, AssessShape
    <2>2. QED
      BY <1>1, <2>1, TruthfulKept DEF TruthfulInv, worldVars, historyVars
  <1>3. CASE Conclude(a)
    <2>1. /\ apc[a] = "default" /\ obs[a] \in ObservationSoFar
          /\ apc'[a] = "done" /\ obs'[a].path = obs[a].path
      BY <1>3, ConcludeMeans DEF IInv, AssessShape, Nothing
    <2>2. \E source \in DefaultSources :
            /\ Completed(obs[a], source) \in ObservationSoFar
            /\ Completed(obs[a], source).path = obs[a].path
            /\ made'[a] = Assessment(a, Completed(obs[a], source), config, obs[a].path)
      BY <1>3, ConcludeMeans DEF IInv, AssessShape
    <2>3. \A source : LET o == Completed(obs[a], source) IN
            /\ o.path = obs[a].path /\ o.is_git_repo = obs[a].is_git_repo
            /\ o.dirty = obs[a].dirty /\ o.current_branch = obs[a].current_branch
            /\ o.ahead = obs[a].ahead /\ o.behind = obs[a].behind
      BY <2>1 DEF Completed, ObservationSoFar
    <2>4. PICK o \in ObservationSoFar :
            /\ o.path = obs[a].path /\ o.is_git_repo = obs[a].is_git_repo
            /\ o.dirty = obs[a].dirty /\ o.current_branch = obs[a].current_branch
            /\ o.ahead = obs[a].ahead /\ o.behind = obs[a].behind
            /\ made'[a] = Assessment(a, o, config, o.path)
      BY <2>2, <2>3
    <2>5. a \notin disturbed => Exact(obs[a], "default", unread[a])
      BY <2>1 DEF TruthfulInv, Truthful, Observing
    <2>6. a \notin disturbed => Exact(o, "default", unread[a])
      BY <2>4, <2>5 DEF Exact
    <2>7. a \notin disturbed' => Exact(o, "default", unread[a])'
      BY <1>1, <2>6 DEF Exact, worldVars, historyVars
    <2>8. Truthful(a)'
      BY <1>1, <2>1, <2>4, <2>7 DEF Truthful, Observing
    <2>9. QED
      BY <1>2, <2>8 DEF TruthfulInv
  <1>4. CASE ConfigNotFound(a)
    <2>1. apc'[a] = "raised"
      BY <1>4 DEF ConfigNotFound, IInv, AssessShape
    <2>2. QED
      BY <1>2, <2>1 DEF TruthfulInv, Truthful, Observing
  <1>5. QED
    BY <1>3, <1>4

(* Every step of an assessor keeps assessors truthful.                      *)
LEMMA AssessTruthful ==
  ASSUME IInv, TruthfulInv, NEW a \in Assessor, Assess(a)
  PROVE  TruthfulInv'
  BY ProbeTruthful, StatusTruthful, BranchTruthful, UpstreamTruthful, CountsTruthful,
     ConcludeTruthful DEF Assess

(* Who is reading a repository that changes is disturbed.                    *)
LEMMA OutsideTruthful ==
  ASSUME IInv, NEW a \in Assessor, Truthful(a), NEW d \in Lively, Outside(d)
  PROVE  Truthful(a)'
  <1>1. /\ UNCHANGED <<config, assessVars, unread>>
        /\ \A e \in Repo \ {d} : /\ branch'[e] = branch[e] /\ tree'[e] = tree[e]
                                 /\ head'[e] = head[e] /\ tracked'[e] = tracked[e]
        /\ \/ disturbed' = disturbed \cup Reading(d)
           \/ UNCHANGED <<branch, tree, head, tracked, disturbed>>
    BY OutsideEffect DEF IInv
  <1>2. apc[a] # "start" => obs[a] \in ObservationSoFar
    BY DEF IInv, Assessed
  <1>3. apc[a] # "start" /\ Disk[obs[a].path].git => Disk[obs[a].path].top \in Repo
    BY <1>2, Observed, Toplevels
  <1>4. apc[a] # "start" /\ obs[a] # Absent /\ Disk[obs[a].path].top = d => a \in Reading(d)
    BY DEF Reading
  <1>5. QED
    BY <1>1, <1>3, <1>4, TruthfulKept DEF assessVars

(* A fetch that moves origin/main disturbs who has read it.                   *)
LEMMA RefreshTruthful ==
  ASSUME IInv, NEW a \in Assessor, Truthful(a), NEW r \in Refresher, Refresh(r)
  PROVE  Truthful(a)'
  <1>1. /\ UNCHANGED <<config, branch, tree, head, assessVars>>
        /\ disturbed \subseteq disturbed'
        /\ unread[a] \subseteq unread'[a]
        /\ unread'[a] \subseteq unread[a] \cup {"head", "status", "trace"}
    BY RefreshEffect DEF Call
  <1>2. "probe" \in unread'[a] => "probe" \in unread[a]
    BY <1>1
  <1>3. apc[a] # "start" => obs[a] \in ObservationSoFar
    BY DEF IInv, Assessed
  <1>4. apc[a] # "start" /\ Disk[obs[a].path].git => Disk[obs[a].path].top \in Repo
    BY <1>3, Observed, Toplevels
  <1>5. CASE Fetch(r)
    <2> DEFINE d == job[r].repo
    <2>1. PICK to : /\ tracked' = [tracked EXCEPT ![d] = to]
                    /\ disturbed' = IF to = tracked[d] THEN disturbed
                                    ELSE disturbed \cup (Reading(d) \cap Assessor)
      BY <1>5 DEF Fetch
    <2>2. tracked \in [Repo -> 0..MaxTip]
      BY DEF IInv, WorldShape
    <2>3. \A e \in Repo : e # d \/ to = tracked[d] => tracked'[e] = tracked[e]
      BY <2>1, <2>2
    <2>4. /\ apc[a] # "start" /\ obs[a] # Absent /\ Disk[obs[a].path].top = d
          => a \in Reading(d) \cap Assessor
      BY DEF Reading
    <2>5. QED
      BY <1>1, <1>2, <1>4, <2>1, <2>3, <2>4, TruthfulKept DEF assessVars
  <1>6. CASE ~Fetch(r)
    <2>1. tracked' = tracked
      BY <1>6 DEF Refresh, Admit, Refuse, ReadHeadBefore, ReadBranchBefore, ReadStatusBefore,
                  ReadHeadAfter, ReadBranchAfter, BranchUnreadable, ReadStatusAfter, WriteTrace,
                  Kill, Postcheck, worldVars
    <2>2. QED
      BY <1>1, <1>2, <2>1, TruthfulKept DEF assessVars
  <1>7. QED
    BY <1>5, <1>6

(* And so does every step.                                                  *)
LEMMA TruthfulStep == IInv /\ TruthfulInv /\ [Next]_vars => TruthfulInv'
  <1> SUFFICES ASSUME IInv, TruthfulInv, [Next]_vars
               PROVE  TruthfulInv'
    OBVIOUS
  <1>1. CASE UNCHANGED vars
    BY <1>1 DEF TruthfulInv, Truthful, Exact, vars, worldVars, assessVars, historyVars
  <1>2. CASE \E d \in Lively : Outside(d)
    BY <1>2, OutsideTruthful DEF TruthfulInv
  <1>3. CASE \E a \in Assessor : Assess(a)
    BY <1>3, AssessTruthful
  <1>4. CASE \E r \in Refresher : Refresh(r)
    BY <1>4, RefreshTruthful DEF TruthfulInv
  <1>5. QED
    BY <1>1, <1>2, <1>3, <1>4 DEF Next

(* What an assessment of an undisturbed repository claims is so, or excused   *)
(* by a command that failed.                                                *)
THEOREM AssessmentExact == Spec => []UndisturbedAssessmentIsExact
  <1>1. Init => TruthfulInv
    BY DEF Init, TruthfulInv, Truthful, Observing, Call
  <1>2. ASSUME IInv, TruthfulInv, NEW a \in Assessor, made[a] # Absent, a \notin disturbed
        PROVE  LET d == RepoOf(a)
                   sure == unread[a] = {}
               IN /\ "not_git_repo" \in ClaimsOf(a) <=>
                       ~Disk[obs[a].path].git \/ "probe" \in unread[a]
                  /\ "dirty_worktree" \in ClaimsOf(a) => tree[d] = "dirty"
                  /\ "detached_head" \in ClaimsOf(a) /\ sure => branch[d] = "HEAD"
                  /\ "non_default_branch" \in ClaimsOf(a) => branch[d] \notin {"main", "HEAD"}
                  /\ "git_pull_ff_only_blocked_branch_ahead" \in ClaimsOf(a) =>
                       head[d].own > 0 /\ head[d].tip = tracked[d]
                  /\ "git_pull_ff_only_blocked_branch_diverged" \in ClaimsOf(a) =>
                       head[d].own > 0 /\ head[d].tip < tracked[d]
                  /\ LocalClear \in ClaimsOf(a) =>
                       /\ ClassifyScope(config, obs[a].path) = "scope_canonical"
                       /\ branch[d] = "main"
                       /\ tree[d] = "clean" \/ "status" \in unread[a]
                       /\ head[d].own = 0 \/ "counts" \in unread[a]
    <2>1. PICK o \in ObservationSoFar :
            /\ o.path = obs[a].path /\ Exact(o, "default", unread[a])
            /\ made[a] = Assessment(a, o, config, o.path)
      BY <1>2, MadeWhenDone DEF TruthfulInv, Truthful
    <2> DEFINE d == RepoOf(a)
               scope == ScopeFor(config, o.path)
    <2>2. d = Disk[o.path].top
      BY <2>1 DEF RepoOf
    <2>3. /\ ClaimsOf(a) = DerivedStatus(o, scope) /\ scope \in Scopes /\ Observation(o)
          /\ scope = "scope_canonical" => ClassifyScope(config, o.path) = "scope_canonical"
      BY <2>1, StatusOf, ScopeOfPath, Observed DEF ClaimsOf, ScopeFor, Scopes
    <2>4. o.is_git_repo => d \in Repo
      BY <2>1, <2>2, Observed, Toplevels DEF Exact
    <2>5. o.is_git_repo => /\ head[d].own \in 0..1 /\ head[d].tip \in Nat
                           /\ tracked[d] \in Nat /\ head[d].tip <= tracked[d]
      BY <1>2, <2>4 DEF IInv, WorldShape, Heads
    <2>6. /\ o.default_branch \in {"main", Absent} /\ "main" # Absent
          /\ "HEAD" # Absent /\ "HEAD" \notin Branch
          /\ o.current_branch \in Branch \cup {Absent}
      BY PlanningAssumption DEF ObservationSoFar, PlanningAssumption
    <2>7. /\ "not_git_repo" \in ClaimsOf(a) <=>
               ~Disk[obs[a].path].git \/ "probe" \in unread[a]
          /\ "dirty_worktree" \in ClaimsOf(a) => tree[d] = "dirty"
          /\ "detached_head" \in ClaimsOf(a) /\ unread[a] = {} => branch[d] = "HEAD"
          /\ "non_default_branch" \in ClaimsOf(a) => branch[d] \notin {"main", "HEAD"}
      BY <2>1, <2>2, <2>3, <2>6, ClaimsMean DEF Exact
    <2>8. /\ "git_pull_ff_only_blocked_branch_ahead" \in ClaimsOf(a) =>
               head[d].own > 0 /\ head[d].tip = tracked[d]
          /\ "git_pull_ff_only_blocked_branch_diverged" \in ClaimsOf(a) =>
               head[d].own > 0 /\ head[d].tip < tracked[d]
      <3>1. o.is_git_repo /\ Positive(o.ahead) =>
              /\ head[d].own > 0 /\ o.behind = tracked[d] - head[d].tip
              /\ Positive(o.behind) <=> head[d].tip < tracked[d]
        <4>1. o.behind \in Nat \cup {Absent} /\ Absent \notin Nat
          BY PlanningAssumption DEF ObservationSoFar, PlanningAssumption
        <4>2. o.is_git_repo /\ Positive(o.ahead) =>
                o.ahead = head[d].own /\ o.ahead > 0 /\ o.behind = tracked[d] - head[d].tip
          BY <2>1, <2>2 DEF Exact, Positive
        <4>3. QED
          BY <2>5, <4>1, <4>2 DEF Positive
      <3>2. QED
        BY <2>3, <2>5, <3>1, ClaimsMean
    <2>9. LocalClear \in ClaimsOf(a) =>
            /\ ClassifyScope(config, obs[a].path) = "scope_canonical"
            /\ branch[d] = "main"
            /\ tree[d] = "clean" \/ "status" \in unread[a]
            /\ head[d].own = 0 \/ "counts" \in unread[a]
      <3>1. SUFFICES ASSUME LocalClear \in ClaimsOf(a)
                     PROVE  /\ ClassifyScope(config, obs[a].path) = "scope_canonical"
                            /\ branch[d] = "main"
                            /\ tree[d] = "clean" \/ "status" \in unread[a]
                            /\ head[d].own = 0 \/ "counts" \in unread[a]
        OBVIOUS
      <3>2. Ready(o, scope) /\ ~Positive(o.ahead)
        BY <2>3, <3>1, ClaimsMean
      <3>3. branch[d] = "main" /\ (tree[d] = "clean" \/ "status" \in unread[a])
        BY <2>1, <2>2, <2>6, <3>2 DEF Exact, Ready
      <3>4. o.ahead # Absent \/ "counts" \in unread[a]
        BY <2>1, <2>2, <3>2, <3>3 DEF Exact, Ready
      <3>5. o.ahead # Absent => head[d].own = 0
        BY <2>1, <2>2, <2>5, <3>2 DEF Exact, Ready, Positive
      <3>6. QED
        BY <2>1, <2>3, <3>2, <3>3, <3>4, <3>5 DEF Ready
    <2>10. QED
      BY <2>7, <2>8, <2>9
  <1>3. IInv /\ TruthfulInv => UndisturbedAssessmentIsExact
    BY <1>2 DEF UndisturbedAssessmentIsExact
  <1>4. QED
    BY <1>1, <1>3, TruthfulStep, PlanningInvariant, PTL DEF Spec

(* At most one listed checkout of a repository is canonical, and every shadow *)
(* has the checkout that is not one beside it in the duplicates report.      *)
THEOREM OneCanonical == Spec => []OneActingCheckout
  <1>1. ASSUME IInv
        PROVE  OneActingCheckout
    <2> DEFINE real == {p \in Listed(config) : Disk[p].git}
    <2>1. config \in LocalConfigs
      BY <1>1, PlanningAssumption DEF IInv, WorldShape, PlanningAssumption
    <2>2. Listed(config) \subseteq Path
      BY <2>1 DEF Listed, LocalConfigs
    <2>3. ASSUME NEW p \in real
          PROVE  /\ InventoryScope(config, p) = "scope_canonical" =>
                      \A q \in real \ {p} :
                        Disk[p].top = Disk[q].top =>
                          InventoryScope(config, q) # "scope_canonical"
                 /\ InventoryScope(config, p) = "scope_shadow" =>
                      \E k \in real :
                        /\ InventoryScope(config, k) \in {"scope_canonical", "scope_unknown"}
                        /\ \E g \in DuplicateGroups(config) : {k, p} \subseteq g
      <3>1. Disk[p].top \in Path
        BY <2>2, Toplevels
      <3>2. QED
        BY <2>1, <3>1, ScopeAssumption, OneCheckoutActs
    <2>4. QED
      BY <2>3 DEF OneActingCheckout
  <1>2. QED
    BY <1>1, PlanningInvariant, PTL
===============================================================================
