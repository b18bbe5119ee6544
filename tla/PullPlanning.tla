------------------------------ MODULE PullPlanning ------------------------------
(***************************************************************************)
(* From a repository to a plan: assess repo reads a repository with several *)
(* git commands and concludes; remote-refresh fetch-origin-prune, given the *)
(* id of an assessment, fetches once and says what the fetch was worth; the *)
(* planners combine the two documents.  People work in the repository in    *)
(* between.  A plan is a function of the documents there are, so it needs   *)
(* no step of its own: properties about plans speak of every pair.          *)
(*                                                                         *)
(* git is external.  What an observation reads but nothing concludes from   *)
(* (toplevel, HEAD, remote URL) is left out.                               *)
(***************************************************************************)
EXTENDS AssessmentRules

CONSTANTS Assessor,    \* calls of assess_repo; a call is its assessment id
          Refresher,   \* calls of run_fetch_origin_prune
          Trace,       \* paths for command traces
          TracePath,   \* TracePath[r]: the command_trace_out of r
          Named,       \* the paths that calls name
          Repo,        \* toplevels of git repositories
          Lively,      \* those of them that people work in
          Config,      \* the local config there may be
          MaxTip, MaxChanges,  \* bounds: commits at origin, outside changes
          ExitCodes,   \* how git fetch may end; negative: by a signal
          MaxUnread    \* bound: kinds of command that fail, git fetch aside

Positions == Branch \cup {"HEAD"}      \* "HEAD": detached
Trees == {"clean", "dirty"}

ObservationSoFar ==
  [path : Path, is_git_repo : BOOLEAN, dirty : BOOLEAN,
   current_branch : Branch \cup {Absent}, upstream : BOOLEAN,
   ahead : 0..1 \cup {Absent}, behind : 0..MaxTip \cup {Absent},
   default_branch : {"main", Absent}, default_source : DefaultSources]

Assessments ==
  [assessment_id : Assessor, derived_status : SUBSET KnownActionPlanStatuses,
   decision_state : DecisionStates, missing_evidence : SUBSET MissingWords,
   freshness_refs : SUBSET FreshnessWords]

Results == [repo_ref : Assessor, exit_code : Nat, mutates_refs : BOOLEAN,
            remote_freshness : Freshness]

Traces == [by : Refresher, exit_code : Nat, whole : BOOLEAN]

ASSUME PlanningAssumption ==
  /\ TracePath \in [Refresher -> Trace]
  /\ Named \subseteq Path /\ Repo \subseteq Path /\ Lively \subseteq Repo
  /\ \A p \in Path : Disk[p].git <=> Disk[p].top \in Repo
  /\ \A d \in Repo : Disk[d].top = d
  /\ Config \subseteq LocalConfigs
  /\ "main" \in Branch /\ "HEAD" \notin Branch
  /\ ExitCodes \subseteq Int
  /\ MaxTip \in Nat /\ MaxChanges \in Nat /\ MaxUnread \in Nat
  /\ Absent \notin Branch \cup Trees \cup {"HEAD"} \cup Nat
  /\ Absent \notin ObservationSoFar \cup Assessments \cup Results \cup Traces

VARIABLES config,     \* the local config of this host
          branch, tree, head, tracked,   \* a repository: HEAD, worktree, main, origin/main
          remote,     \* the tip of main at origin
          changes,    \* outside changes so far (bound)
          apc, obs, made,      \* assessors: control, observation so far, assessment
          rpc, job, before, fetched, complaint, result,   \* refreshers
          trace,      \* the file at each trace path
          unread,     \* unread[c]: what call c could not read or write (history)
          disturbed,  \* calls in whose repository somebody worked (history)
          contested   \* refreshers that overlapped on a trace path (history)

worldVars == <<branch, tree, head, tracked, remote, changes>>
assessVars == <<apc, obs, made>>
refreshVars == <<rpc, job, before, fetched, complaint, result, trace>>
historyVars == <<unread, disturbed, contested>>
vars == <<config, worldVars, assessVars, refreshVars, historyVars>>

Heads == [tip : 0..MaxTip, own : 0..1]
Call == Assessor \cup Refresher
Commands == {"head", "probe", "status", "branch", "upstream", "counts", "trace"}
Ended == {"returned", "refused", "raised", "killed"}

AssessPhases == {"start", "status", "branch", "upstream", "counts", "default",
                 "done", "raised"}
RefreshPhases == {"start", "head", "branch", "status", "fetch", "headAfter",
                  "branchAfter", "statusAfter", "trace", "returned", "refused",
                  "raised", "killed"}
TypeOK ==
  /\ config \in Config
  /\ branch \in [Repo -> Positions] /\ tree \in [Repo -> Trees]
  /\ head \in [Repo -> Heads]
  /\ tracked \in [Repo -> 0..MaxTip] /\ remote \in [Repo -> 0..MaxTip]
  /\ \A d \in Repo : head[d].tip <= tracked[d] /\ tracked[d] <= remote[d]
  /\ changes \in 0..MaxChanges
  /\ apc \in [Assessor -> AssessPhases]
  /\ \A a \in Assessor : obs[a] = Absent \/ obs[a] \in ObservationSoFar
  /\ \A a \in Assessor : made[a] # Absent <=> apc[a] = "done"
  /\ \A a \in Assessor : made[a] = Absent \/ made[a] \in Assessments
  /\ rpc \in [Refresher -> RefreshPhases]
  /\ \A r \in Refresher : job[r] = Absent \/ job[r] \in [id : Assessor, repo : Repo]
  /\ complaint \in [Refresher -> BOOLEAN]
  /\ \A r \in Refresher : result[r] # Absent <=> rpc[r] = "returned"
  /\ \A r \in Refresher :
       result[r] = Absent \/ (result[r] \in Results /\ ValidRefresh(result[r]))
  /\ \A t \in Trace : trace[t] = Absent \/ trace[t] \in Traces
  /\ unread \in [Call -> SUBSET Commands]
  /\ disturbed \subseteq Call /\ contested \subseteq Refresher

Init ==
  /\ config \in Config
  /\ branch \in [Repo -> {"main"}] /\ tree = [d \in Repo |-> "clean"]
  /\ head = [d \in Repo |-> [tip |-> 0, own |-> 0]]
  /\ tracked = [d \in Repo |-> 0]
  /\ \E tip \in 0..MaxTip : remote = [d \in Repo |-> tip]
  /\ changes = 0
  /\ apc = [a \in Assessor |-> "start"]
  /\ obs = [a \in Assessor |-> Absent] /\ made = [a \in Assessor |-> Absent]
  /\ rpc = [r \in Refresher |-> "start"]
  /\ job = [r \in Refresher |-> Absent] /\ before = [r \in Refresher |-> Absent]
  /\ fetched = [r \in Refresher |-> Absent]
  /\ complaint = [r \in Refresher |-> FALSE]
  /\ result = [r \in Refresher |-> Absent] /\ trace = [t \in Trace |-> Absent]
  /\ unread = [c \in Call |-> {}] /\ disturbed = {} /\ contested = {}

-----------------------------------------------------------------------------
(* The surroundings.                                                       *)

(* The commit HEAD of d is at; a detached HEAD stays where main was.         *)
HeadOf(d) ==
  IF branch[d] \in Branch \ {"main"} THEN [of |-> branch[d], tip |-> 0, own |-> 0]
  ELSE [of |-> "main", tip |-> head[d].tip, own |-> head[d].own]

Reading(d) ==
  {a \in Assessor : apc[a] # "start" /\ obs[a] # Absent /\ Disk[obs[a].path].top = d}
    \cup {r \in Refresher : /\ rpc[r] \in {"branch", "status", "fetch", "headAfter",
                                           "branchAfter", "statusAfter"}
                            /\ job[r].repo = d}

(* Somebody works in d, or origin moves.                                    *)
Change(d) ==
  /\ changes < MaxChanges /\ changes' = changes + 1
  /\ disturbed' = disturbed \cup Reading(d)
  /\ UNCHANGED <<config, assessVars, refreshVars, unread, contested>>

Edit(d) ==
  /\ \E s \in Trees \ {tree[d]} : tree' = [tree EXCEPT ![d] = s]
  /\ Change(d)
  /\ UNCHANGED <<branch, head, tracked, remote>>

Checkout(d) ==
  /\ \E b \in Positions \ {branch[d]} : branch' = [branch EXCEPT ![d] = b]
  /\ Change(d)
  /\ UNCHANGED <<tree, head, tracked, remote>>

Commit(d) ==
  /\ branch[d] = "main" /\ head[d].own = 0
  /\ head' = [head EXCEPT ![d].own = 1]
  /\ Change(d)
  /\ UNCHANGED <<branch, tree, tracked, remote>>

FetchElsewhere(d) ==
  /\ tracked[d] < remote[d]
  /\ tracked' = [tracked EXCEPT ![d] = remote[d]]
  /\ Change(d)
  /\ UNCHANGED <<branch, tree, head, remote>>

Publish(d) ==
  /\ remote[d] < MaxTip /\ changes < MaxChanges
  /\ remote' = [remote EXCEPT ![d] = @ + 1]
  /\ changes' = changes + 1
  /\ UNCHANGED <<config, branch, tree, head, tracked, assessVars, refreshVars,
                 historyVars>>

-----------------------------------------------------------------------------
(* assess_repo: observe_repo, command by command, then the conclusion.      *)

(* The call c cannot read what the commands lost would have said.            *)
Unread(c, lost) ==
  /\ lost # {} => \A b \in Call : Cardinality(unread[b] \cup lost) <= MaxUnread
  /\ unread' = [unread EXCEPT ![c] = @ \cup lost]

(* a goes on to phase, having learned what updated holds; lost names the     *)
(* commands that failed.                                                   *)
Learn(a, phase, updated, lost) ==
  /\ Unread(a, lost)
  /\ apc' = [apc EXCEPT ![a] = phase]
  /\ obs' = [obs EXCEPT ![a] = updated]
  /\ UNCHANGED <<config, worldVars, made, refreshVars, disturbed, contested>>

RepoOf(a) == Disk[obs[a].path].top

Nothing(p, isRepo) ==
  [path |-> p, is_git_repo |-> isRepo, dirty |-> FALSE, current_branch |-> Absent,
   upstream |-> FALSE, ahead |-> Absent, behind |-> Absent,
   default_branch |-> Absent, default_source |-> "unavailable"]

ProbeWorktree(a) ==
  /\ apc[a] = "start"
  /\ \E p \in Named :
       \/ Disk[p].git /\ Learn(a, "status", Nothing(p, TRUE), {})
       \/ Disk[p].git /\ Learn(a, "default", Nothing(p, FALSE), {"probe"})
       \/ ~Disk[p].git /\ Learn(a, "default", Nothing(p, FALSE), {})

(* A git status that fails prints nothing.                                  *)
ReadStatus(a) ==
  /\ apc[a] = "status"
  /\ \/ Learn(a, "branch", [obs[a] EXCEPT !.dirty = (tree[RepoOf(a)] = "dirty")], {})
     \/ Learn(a, "branch", obs[a], {"status"})

ReadBranch(a) ==
  LET b == branch[RepoOf(a)] IN
  /\ apc[a] = "branch"
  /\ \/ Learn(a, "upstream",
              [obs[a] EXCEPT !.current_branch = IF b = "HEAD" THEN Absent ELSE b], {})
     \/ Learn(a, "upstream", obs[a], {"branch"})

(* The upstream of whatever branch is checked out now; main tracks          *)
(* origin/main, the others track nothing.                                   *)
ReadUpstream(a) ==
  /\ apc[a] = "upstream"
  /\ \/ Learn(a, "counts", [obs[a] EXCEPT !.upstream = (branch[RepoOf(a)] = "main")], {})
     \/ Learn(a, "counts", obs[a], {"upstream"})

ReadCounts(a) ==
  LET d == RepoOf(a) IN
  /\ apc[a] = "counts"
  /\ \/ /\ branch[d] = "main"
        /\ Learn(a, "default", [obs[a] EXCEPT !.ahead = head[d].own,
                                              !.behind = tracked[d] - head[d].tip], {})
     \/ branch[d] # "main" /\ Learn(a, "default", obs[a], {})
     \/ Learn(a, "default", obs[a], {"counts"})

(* The default branch by origin/HEAD, by name, or not at all; then the scope *)
(* of the path as it was given and the assessment.  The other commands'       *)
(* output is not kept.                                                     *)
Conclude(a) ==
  /\ apc[a] = "default"
  /\ \E source \in DefaultSources :
       LET found == IF source = "unavailable" \/ ~obs[a].is_git_repo
                    THEN obs[a] ELSE [obs[a] EXCEPT !.default_branch = "main",
                                                    !.default_source = source]
       IN made' = [made EXCEPT ![a] =
                     Assessment(a, found, config, obs[a].path)]
  /\ apc' = [apc EXCEPT ![a] = "done"]
  /\ obs' = [obs EXCEPT ![a] = Nothing(obs[a].path, obs[a].is_git_repo)]
  /\ UNCHANGED <<config, worldVars, refreshVars, historyVars>>

(* A config that was named and is missing: FileNotFoundError.               *)
ConfigNotFound(a) ==
  /\ apc[a] = "default" /\ ~config.found
  /\ apc' = [apc EXCEPT ![a] = "raised"]
  /\ UNCHANGED <<config, worldVars, obs, made, refreshVars, historyVars>>

-----------------------------------------------------------------------------
(* run_fetch_origin_prune.                                                 *)

Goto(r, phase) == rpc' = [rpc EXCEPT ![r] = phase]

(* The call ends without a result; its local values are gone.                *)
GiveUp(r, phase) ==
  /\ Goto(r, phase)
  /\ job' = [job EXCEPT ![r] = Absent]
  /\ before' = [before EXCEPT ![r] = Absent]
  /\ complaint' = [complaint EXCEPT ![r] = FALSE]

(* r and the calls under way with the trace path of r, if there are any.    *)
Overlap(r) ==
  LET peers == {q \in Refresher \ {r} : /\ TracePath[q] = TracePath[r]
                                        /\ rpc[q] \notin Ended \cup {"start"}}
  IN IF peers = {} THEN {} ELSE peers \cup {r}

(* Mutant: a file at the trace path is no obstacle.                         *)
AdmitOverTrace(r) ==
  /\ rpc[r] = "start"
  /\ config.found /\ OperationAllowed(config.policy, "remote-refresh.fetch-origin-prune")
  /\ \E a \in Assessor, p \in Named :
       /\ made[a] # Absent
       /\ Disk[p].git
       /\ ClassifyScope(config, Disk[p].top) = "scope_canonical"
       /\ job' = [job EXCEPT ![r] = [id |-> a, repo |-> Disk[p].top]]
  /\ Goto(r, "head")
  /\ contested' = contested \cup Overlap(r)
  /\ UNCHANGED <<config, worldVars, assessVars, before, fetched, complaint, result,
                 trace, unread, disturbed>>

(* The gates: policy, no file at the trace path, a repository in canonical   *)
(* scope, by its toplevel, that has an origin.  The id is an argument: any   *)
(* assessment there is.                                                    *)
Admit(r) ==
  /\ rpc[r] = "start"
  /\ config.found /\ OperationAllowed(config.policy, "remote-refresh.fetch-origin-prune")
  /\ trace[TracePath[r]] = Absent
  /\ \E a \in Assessor, p \in Named :
       /\ made[a] # Absent
       /\ Disk[p].git
       /\ ClassifyScope(config, Disk[p].top) = "scope_canonical"
       /\ job' = [job EXCEPT ![r] = [id |-> a, repo |-> Disk[p].top]]
  /\ Goto(r, "head")
  /\ contested' = contested \cup Overlap(r)
  /\ UNCHANGED <<config, worldVars, assessVars, before, fetched, complaint, result,
                 trace, unread, disturbed>>

(* A gate fails or git cannot be read before the fetch: ValueError.         *)
Refuse(r) ==
  /\ rpc[r] \in {"start", "head", "branch", "status"}
  /\ GiveUp(r, "refused")
  /\ UNCHANGED <<config, worldVars, assessVars, fetched, result, trace, historyVars>>

(* head_before may be missing; a detached HEAD and a failing status may not. *)
ReadHeadBefore(r) ==
  /\ rpc[r] = "head"
  /\ \E h \in {HeadOf(job[r].repo), Absent} :
       /\ before' = [before EXCEPT ![r] = [head |-> h, branch |-> Absent, tree |-> Absent]]
       /\ Unread(r, IF h = Absent THEN {"head"} ELSE {})
  /\ Goto(r, "branch")
  /\ UNCHANGED <<config, worldVars, assessVars, job, fetched, complaint, result, trace,
                 disturbed, contested>>

ReadBranchBefore(r) ==
  /\ rpc[r] = "branch"
  /\ branch[job[r].repo] # "HEAD"
  /\ before' = [before EXCEPT ![r].branch = branch[job[r].repo]]
  /\ Goto(r, "status")
  /\ UNCHANGED <<config, worldVars, assessVars, job, fetched, complaint, result, trace,
                 historyVars>>

ReadStatusBefore(r) ==
  /\ rpc[r] = "status"
  /\ before' = [before EXCEPT ![r].tree = tree[job[r].repo]]
  /\ Goto(r, "fetch")
  /\ UNCHANGED <<config, worldVars, assessVars, job, fetched, complaint, result, trace,
                 historyVars>>

(* git fetch origin --prune: on success origin/main is what origin has; a    *)
(* fetch that fails may have moved it all the same.                         *)
Fetch(r) ==
  LET d == job[r].repo IN
  /\ rpc[r] = "fetch"
  /\ \E exit \in ExitCodes, to \in {tracked[d], remote[d]} :
       /\ exit = 0 => to = remote[d]
       /\ tracked' = [tracked EXCEPT ![d] = to]
       /\ fetched' = [fetched EXCEPT ![r] = [exit |-> exit, upto |-> remote[d]]]
       /\ disturbed' = IF to = tracked[d] THEN disturbed
                       ELSE disturbed \cup (Reading(d) \cap Assessor)
  /\ Goto(r, "headAfter")
  /\ UNCHANGED <<config, branch, tree, head, remote, changes, assessVars, job, before,
                 complaint, result, trace, unread, contested>>

(* The postchecks, in their order, each of one value read before the fetch,  *)
(* which is not looked at again; complaint: one of them has a message.       *)
Postcheck(r, value, phase, bad) ==
  /\ complaint' = [complaint EXCEPT ![r] = @ \/ bad]
  /\ before' = [before EXCEPT ![r][value] = Absent]
  /\ Goto(r, phase)
  /\ UNCHANGED <<config, worldVars, assessVars, job, fetched, result, trace, disturbed,
                 contested>>

(* Mutant: a HEAD that is missing once is taken for one that moved.          *)
ReadHeadAfterStrict(r) ==
  /\ rpc[r] = "headAfter"
  /\ \E h \in {HeadOf(job[r].repo), Absent} :
       /\ Postcheck(r, "head", "branchAfter", h # before[r].head)
       /\ Unread(r, IF h = Absent THEN {"head"} ELSE {})

ReadHeadAfter(r) ==
  /\ rpc[r] = "headAfter"
  /\ \E h \in {HeadOf(job[r].repo), Absent} :
       /\ Postcheck(r, "head", "branchAfter",
                    Absent \notin {h, before[r].head} /\ h # before[r].head)
       /\ Unread(r, IF h = Absent THEN {"head"} ELSE {})

ReadBranchAfter(r) ==
  /\ rpc[r] = "branchAfter"
  /\ branch[job[r].repo] # "HEAD"
  /\ Postcheck(r, "branch", "statusAfter", branch[job[r].repo] # before[r].branch)
  /\ UNCHANGED unread

(* No branch to read after the fetch: ValueError, and nobody is told that    *)
(* there was a fetch.                                                      *)
BranchUnreadable(r) ==
  /\ rpc[r] = "branchAfter"
  /\ GiveUp(r, "raised")
  /\ UNCHANGED <<config, worldVars, assessVars, fetched, result, trace, historyVars>>

ReadStatusAfter(r) ==
  /\ rpc[r] = "statusAfter"
  /\ \/ Postcheck(r, "tree", "trace", tree[job[r].repo] # before[r].tree) /\ UNCHANGED unread
     \/ /\ Postcheck(r, "tree", "trace", TRUE)                     \* git status fails
        /\ Unread(r, {"status"})

(* 96: the fetch succeeded and a postcheck did not; signals become 128 + n. *)
ExitCode(r) ==
  IF complaint[r] /\ fetched[r].exit = 0 THEN 96
  ELSE IF fetched[r].exit < 0 THEN 128 - fetched[r].exit
  ELSE fetched[r].exit

(* Mutant: the freshness goes by the exit code of git alone.                *)
RefreshResultByGit(r) ==
  [repo_ref |-> job[r].id,
   exit_code |-> fetched[r].exit,
   mutates_refs |-> fetched[r].exit = 0,
   remote_freshness |-> IF fetched[r].exit = 0 THEN "fresh" ELSE "unavailable"]

RefreshResult(r) ==
  [repo_ref |-> job[r].id,
   exit_code |-> ExitCode(r),
   mutates_refs |-> fetched[r].exit = 0 /\ ~complaint[r],
   remote_freshness |-> IF ExitCode(r) = 0 THEN "fresh" ELSE "unavailable"]

TraceFile(r, whole) == [by |-> r, exit_code |-> ExitCode(r), whole |-> whole]

(* The trace is written in place, over whatever is there by now, and the     *)
(* result is returned; a write that fails, or a process that dies writing,  *)
(* leaves what was written.                                                *)
WriteTrace(r) ==
  /\ rpc[r] = "trace"
  /\ \/ /\ trace' = [trace EXCEPT ![TracePath[r]] = TraceFile(r, TRUE)]
        /\ result' = [result EXCEPT ![r] = RefreshResult(r)]
        /\ Goto(r, "returned")
        /\ UNCHANGED <<job, before, complaint, unread>>
     \/ /\ \/ UNCHANGED trace
           \/ \E whole \in BOOLEAN :
                trace' = [trace EXCEPT ![TracePath[r]] = TraceFile(r, whole)]
        /\ \E end \in {"raised", "killed"} : GiveUp(r, end)
        /\ unread' = [unread EXCEPT ![r] = @ \cup {"trace"}]
        /\ UNCHANGED result
  /\ UNCHANGED <<config, worldVars, assessVars, fetched, disturbed, contested>>

(* The process dies.                                                       *)
Kill(r) ==
  /\ rpc[r] \notin Ended
  /\ GiveUp(r, "killed")
  /\ UNCHANGED <<config, worldVars, assessVars, fetched, result, trace, historyVars>>

-----------------------------------------------------------------------------
Outside(d) == Edit(d) \/ Checkout(d) \/ Commit(d) \/ FetchElsewhere(d) \/ Publish(d)

Assess(a) == \/ ProbeWorktree(a) \/ ReadStatus(a) \/ ReadBranch(a) \/ ReadUpstream(a)
             \/ ReadCounts(a) \/ Conclude(a) \/ ConfigNotFound(a)

Refresh(r) == \/ Admit(r) \/ Refuse(r)
              \/ ReadHeadBefore(r) \/ ReadBranchBefore(r) \/ ReadStatusBefore(r)
              \/ Fetch(r)
              \/ ReadHeadAfter(r) \/ ReadBranchAfter(r) \/ BranchUnreadable(r)
              \/ ReadStatusAfter(r)
              \/ WriteTrace(r) \/ Kill(r)

Next == \/ \E d \in Lively : Outside(d)
        \/ \E a \in Assessor : Assess(a)
        \/ \E r \in Refresher : Refresh(r)

Spec == Init /\ [][Next]_vars

-----------------------------------------------------------------------------
(* Properties.                                                             *)

ClaimsOf(a) == made[a].derived_status

(* An assessment of a repository nobody touched since its first command says *)
(* what is there: local preflight is clear only for a canonical checkout on *)
(* main without own commits, clean unless git status failed, and counted     *)
(* unless the counts failed; blockers are there when they are said to be     *)
(* (observe_repo and assess_repo together; a status that fails reads clean, *)
(* unknown counts read zero).                                              *)
UndisturbedAssessmentIsExact ==
  \A a \in Assessor : made[a] # Absent /\ a \notin disturbed =>
    LET d == RepoOf(a)
        sure == unread[a] = {}
    IN /\ "not_git_repo" \in ClaimsOf(a) <=> ~Disk[obs[a].path].git \/ "probe" \in unread[a]
       /\ "dirty_worktree" \in ClaimsOf(a) => tree[d] = "dirty"
       /\ "detached_head" \in ClaimsOf(a) /\ sure => branch[d] = "HEAD"
       /\ "non_default_branch" \in ClaimsOf(a) => branch[d] \notin {"main", "HEAD"}
       /\ "git_pull_ff_only_blocked_branch_ahead" \in ClaimsOf(a) =>
            head[d].own > 0 /\ head[d].tip = tracked[d]
       /\ "git_pull_ff_only_blocked_branch_diverged" \in ClaimsOf(a) =>
            head[d].own > 0 /\ head[d].tip < tracked[d]
       /\ LocalClear \in ClaimsOf(a) =>
            /\ ClassifyScope(config, obs[a].path) = "scope_canonical"
            /\ branch[d] = "main"
            /\ tree[d] = "clean" \/ "status" \in unread[a]
            /\ head[d].own = 0 \/ "counts" \in unread[a]

(* The planners take every assessment assess_repo makes, with every refresh  *)
(* result made for it: no contradiction, no unknown word, and a decision     *)
(* state that fits (the ValueErrors of plan_switch_main and                 *)
(* plan_git_pull_ff_only).  The switch plan is blocked exactly off a clean   *)
(* default branch, and the pull plan always names a blocker.                *)
EveryAssessmentIsPlannable ==
  \A a \in Assessor : made[a] # Absent =>
    /\ SwitchPlannable(made[a])
    /\ PlanSwitchMain(made[a]).decision = "blocked" <=>
         "clean_default_current" \notin ClaimsOf(a)
    /\ \A r \in Refresher :
         LET given == IF result[r] # Absent /\ result[r].repo_ref = a
                      THEN result[r] ELSE Absent
         IN /\ PullPlannable(made[a], given)
            /\ PlanGitPull(made[a], given).blocked_because # {}

(* A pull plan blocked by nothing but its being a preview goes back to a     *)
(* clear local preflight and to a fetch that succeeded in a repository of    *)
(* canonical scope, allowed by the policy, called with the id of exactly     *)
(* this assessment and with no complaint of a postcheck.                    *)
PreviewOnlyRestsOnFetch ==
  \A a \in Assessor, r \in Refresher :
    LET plan == PlanGitPull(made[a], result[r]) IN
    /\ made[a] # Absent
    /\ PullPlannable(made[a], result[r])
    /\ PreviewOnly \in plan.blocked_because
    => /\ plan.blocked_because = {PreviewOnly}
       /\ LocalClear \in ClaimsOf(a)
       /\ result[r] # Absent
       /\ job[r].id = a /\ fetched[r].exit = 0 /\ ~complaint[r]
       /\ ClassifyScope(config, job[r].repo) = "scope_canonical"
       /\ config.policy["allow_network_fetch"]

(* No document claims remote freshness without a fetch that succeeded, and   *)
(* none claims to have read a config that was not there                     *)
(* (docs/assessment-model.md:113-116, attach_assessment_provenance and the  *)
(* planner's freshness marker).                                            *)
FreshnessIsEarned ==
  \A a \in Assessor : made[a] # Absent =>
    /\ FetchedFresh \notin made[a].freshness_refs
    /\ ~({ConfigRead, ConfigUnavailable} \subseteq made[a].freshness_refs)
    /\ \A r \in Refresher :
         /\ PullPlannable(made[a], result[r])
         /\ FetchedFresh \in PlanGitPull(made[a], result[r]).freshness_refs
         => fetched[r].exit = 0 /\ tracked[job[r].repo] >= fetched[r].upto

(* A result that says fresh belongs to a fetch that succeeded and was not    *)
(* contradicted by a postcheck, and what origin had then is known here; in   *)
(* a repository nobody touched meanwhile, the result is fresh and admits     *)
(* the mutation of refs exactly when the fetch succeeded, unless the last   *)
(* git status failed.                                                      *)
RefreshTellsTheFetch ==
  \A r \in Refresher : result[r] # Absent =>
    /\ RefreshSucceeded(result[r]) =>
         /\ fetched[r].exit = 0 /\ ~complaint[r] /\ result[r].mutates_refs
         /\ tracked[job[r].repo] >= fetched[r].upto
    /\ r \notin disturbed /\ "status" \notin unread[r] =>
         /\ RefreshSucceeded(result[r]) <=> fetched[r].exit = 0
         /\ result[r].mutates_refs <=> fetched[r].exit = 0

(* The trace a returned result names is whole, is its own and records the    *)
(* same exit code, unless two calls with that path overlapped: then both     *)
(* found no file and the later write won (command_trace_out must not         *)
(* already exist).                                                         *)
TraceTellsResult ==
  \A r \in Refresher : result[r] # Absent /\ r \notin contested =>
    trace[TracePath[r]] = [by |-> r, exit_code |-> result[r].exit_code, whole |-> TRUE]

(* docs/remote-refresh-model.md:54: failed fetches or postcheck mismatches   *)
(* remain explicit evidence.  A call that has fetched, was not killed and    *)
(* could write leaves a trace.                                             *)
FetchRemainsEvidence ==
  \A r \in Refresher :
    fetched[r] # Absent /\ rpc[r] = "raised" /\ "trace" \notin unread[r] =>
      trace[TracePath[r]] # Absent

(* Of the listed checkouts of one repository the inventory leaves at most    *)
(* one canonical, and none is called a shadow unless another one, canonical *)
(* or unknown, stays that outranks it (_mark_shadow_duplicates); the         *)
(* duplicates report shows both in one group.  The config of a host does not *)
(* change, so it is enough to look before the first call.                   *)
OneActingCheckout ==
  LET real == {p \in Listed(config) : Disk[p].git}
      scope == [p \in real |-> InventoryScope(config, p)]
  IN (\A a \in Assessor : apc[a] = "start") /\ (\A r \in Refresher : rpc[r] = "start") =>
     \A p \in real :
       /\ scope[p] = "scope_canonical" =>
            \A q \in real \ {p} :
              Disk[p].top = Disk[q].top => scope[q] # "scope_canonical"
       /\ scope[p] = "scope_shadow" =>
            \E k \in real : /\ scope[k] \in {"scope_canonical", "scope_unknown"}
                            /\ \E g \in DuplicateGroups(config) : {k, p} \subseteq g
=============================================================================
