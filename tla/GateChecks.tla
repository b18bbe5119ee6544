------------------------------ MODULE GateChecks ------------------------------
(***************************************************************************)
(* How a read-only runbook comes to its verdict, kind by kind, given what   *)
(* it read: the repo-sync gate from two observations, the DNS, SSH and      *)
(* overlay gates from one answer of the resolver or the network per check,  *)
(* and the service gate from three artifacts.  Pure functions.              *)
(***************************************************************************)
EXTENDS AssessmentRules, Sequences

CONSTANTS Ip,        \* addresses; an overlay prefix is a set of them
          Host,      \* host names in the artifacts
          Service    \* service names in the artifacts

Statuses == {"passed", "blocked", "inconclusive"}

(* The verdict of the kinds that list what they did as steps.               *)
OverallStatus(steps) ==
  IF "blocked" \in steps THEN "blocked"
  ELSE IF "inconclusive" \in steps THEN "inconclusive" ELSE "passed"

(* Mutant: whoever passed decides, when nothing is blocked.                 *)
RequiredVerdictLenient(required) ==
  IF "blocked" \in required THEN "blocked"
  ELSE IF "passed" \in required THEN "passed" ELSE "inconclusive"

(* Mutant: when nothing is required, nothing is decided.                     *)
RequiredVerdictOfSome(required) ==
  IF required = {} THEN Absent
  ELSE IF "inconclusive" \in required THEN "inconclusive"
  ELSE IF "blocked" \in required THEN "blocked" ELSE "passed"

(* The verdict of the kinds that evaluate checks; only the required ones     *)
(* count, and here a doubt outweighs a refusal.                             *)
RequiredVerdict(required) ==
  IF required = {} \/ "inconclusive" \in required THEN "inconclusive"
  ELSE IF "blocked" \in required THEN "blocked" ELSE "passed"

-----------------------------------------------------------------------------
(* repo-sync-gate; seen is the first observation, Absent when it raised.     *)

CheckIsGitRepo(seen) ==
  IF seen = Absent THEN "inconclusive"
  ELSE IF seen.is_git_repo THEN "passed" ELSE "blocked"

(* An observation of a directory without a repository has no "dirty".        *)
CheckWorktreeClean(seen) ==
  IF seen = Absent THEN "inconclusive"
  ELSE IF ~seen.is_git_repo THEN "inconclusive"
  ELSE IF seen.dirty THEN "blocked" ELSE "passed"

CheckNotDetachedHead(seen) ==
  IF seen = Absent THEN "inconclusive"
  ELSE IF ~seen.is_git_repo THEN "inconclusive"
  ELSE IF seen.current_branch = Absent THEN "blocked" ELSE "passed"

CheckOnDefaultBranch(seen) ==
  IF seen = Absent THEN "inconclusive"
  ELSE IF ~seen.is_git_repo \/ Absent \in {seen.current_branch, seen.default_branch}
  THEN "inconclusive"
  ELSE IF seen.current_branch = seen.default_branch THEN "passed" ELSE "blocked"

CheckDecisionState(decision) ==
  CASE decision = "assessment_clear" -> "passed"
    [] decision = "action_blocked" -> "blocked"
    [] decision = "evidence_missing" -> "inconclusive"

(* assess_repo observes anew: derived is what it concludes, Absent when it   *)
(* raised.                                                                 *)
SyncSteps(seen, derived) ==
  LET Went(x) == IF x = Absent THEN "inconclusive" ELSE "passed"
      decision == IF derived = Absent THEN "evidence_missing" ELSE DecisionState(derived)
  IN {Went(seen), Went(derived), CheckIsGitRepo(seen), CheckWorktreeClean(seen),
      CheckNotDetachedHead(seen), CheckOnDefaultBranch(seen),
      CheckDecisionState(decision)}

-----------------------------------------------------------------------------
(* Name resolution and TCP.                                                *)

ResolverErrors == {"EAI_NONAME", "EAI_NODATA", "EAI_AGAIN", "OSError"}

Resolve(answer) ==
  IF answer.error \in {"EAI_NONAME", "EAI_NODATA"} THEN "not_found"
  ELSE IF answer.error # Absent THEN "error"
  ELSE IF answer.ips = {} THEN "not_found" ELSE "ok"

BlockedErrnos == {"ECONNREFUSED", "ETIMEDOUT", "ENETUNREACH", "EHOSTUNREACH",
                  "ENETDOWN", "EHOSTDOWN"}

ClassifyTcpOsError(errno) ==
  IF errno \in BlockedErrnos THEN "blocked" ELSE "inconclusive"

(* connected: Absent, or the error that came instead.                       *)
CheckTcp(error) ==
  IF error = Absent THEN "passed"
  ELSE IF error \in {"timeout", "EAI_NONAME", "EAI_NODATA"} THEN "blocked"
  ELSE ClassifyTcpOsError(error)

(* dns-gate: the addresses found are exactly the expected ones.              *)
DnsStatus(check, answer) ==
  IF ~check.supported \/ ~check.named \/ check.values = {} THEN "inconclusive"
  ELSE CASE Resolve(answer) = "ok" ->
              IF answer.ips = check.values THEN "passed" ELSE "blocked"
         [] Resolve(answer) = "not_found" -> "blocked"
         [] OTHER -> "inconclusive"

(* ssh-gate: a port that answers.                                           *)
SshStatus(check, answer) ==
  IF ~check.named \/ ~check.port THEN "inconclusive" ELSE CheckTcp(answer.tcp)

(* tailscale-preflight: the name resolves; if values are expected one of     *)
(* them was found, if prefixes are expected one address lies in one of them; *)
(* and if a port is given it answers.  supported: values and prefixes parse. *)
TailscaleStatus(check, answer) ==
  IF ~check.supported \/ ~check.named THEN "inconclusive"
  ELSE CASE Resolve(answer) = "not_found" -> "blocked"
         [] Resolve(answer) = "error" -> "inconclusive"
         [] OTHER ->
              IF check.values # {} /\ answer.ips \cap check.values = {} THEN "blocked"
              ELSE IF check.prefixes # {} /\ answer.ips \cap UNION check.prefixes = {}
              THEN "blocked"
              ELSE IF check.port THEN CheckTcp(answer.tcp) ELSE "passed"

CheckStatus(kind, check, answer) ==
  CASE kind = "dns-gate" -> DnsStatus(check, answer)
    [] kind = "ssh-gate" -> SshStatus(check, answer)
    [] kind = "tailscale-preflight" -> TailscaleStatus(check, answer)

-----------------------------------------------------------------------------
(* heimserver-service-gate: the producer.                                   *)

EvidenceStatuses == {"present", "missing", "unknown", "mismatch"}
EvidenceFreshness == {"fresh", "stale", "unknown"}

(* The three artifacts; twice: a service is listed more than once.           *)
Bundles ==
  [facts_host : Host,
   expected_host : Host, expected : SUBSET Service,
   evidence_host : Host, evidence : [Service -> EvidenceStatuses \cup {Absent}],
   freshness : EvidenceFreshness, twice : BOOLEAN]

ServiceStatus(bundle, s) ==
  CASE bundle.evidence[s] = "mismatch" -> "blocked"
    [] bundle.evidence[s] = "present" ->
         IF bundle.freshness = "fresh" THEN "passed" ELSE "inconclusive"
    [] OTHER -> "inconclusive"

ServiceReason(bundle, s) ==
  CASE bundle.evidence[s] = "mismatch" -> "service_gate_service_evidence_mismatch"
    [] bundle.evidence[s] = "present" ->
         (CASE bundle.freshness = "fresh" -> "service_gate_artifact_only_scope"
            [] bundle.freshness = "stale" -> "service_gate_artifacts_stale"
            [] bundle.freshness = "unknown" -> "service_gate_freshness_unknown")
    [] OTHER -> "service_gate_no_service_evidence"

SameHost(bundle) ==
  bundle.facts_host = bundle.expected_host /\ bundle.expected_host = bundle.evidence_host

ServiceGateStatus(bundle) ==
  IF ~SameHost(bundle) THEN "blocked"
  ELSE IF bundle.expected = {} THEN "inconclusive"
  ELSE OverallStatus({ServiceStatus(bundle, s) : s \in bundle.expected})

(* The reasons of the services that have the status of the whole.            *)
ServiceGateReasons(bundle) ==
  IF ~SameHost(bundle) THEN {"service_gate_subject_mismatch"}
  ELSE IF bundle.expected = {} THEN {"service_gate_expectation_missing"}
  ELSE {ServiceReason(bundle, s) :
          s \in {e \in bundle.expected :
                   ServiceStatus(bundle, e) = ServiceGateStatus(bundle)}}
=============================================================================
