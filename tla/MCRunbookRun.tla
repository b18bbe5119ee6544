----------------------------- MODULE MCRunbookRun -----------------------------
(* Two calls whose traces are in one directory, so that they share the path  *)
(* of server-facts.json and that of the assessment.  The first may be of any *)
(* kind, the second of the two kinds that write there.                      *)
EXTENDS RunbookRun, TLC

CONSTANTS early, late, result1, trace1, result2, trace2, factsJson, assessmentJson,
          ip1, ip2, server, laptop, web, mail

MCDisk == [p \in {} |-> 0]    \* no path matters here
MCCall == {early, late}
MCKindsOf == early :> SupportedRunbookKinds
               @@ late :> {"server-facts-snapshot", "heimserver-service-gate"}
MCFile == {result1, trace1, result2, trace2, factsJson, assessmentJson}
MCResultOut == early :> result1 @@ late :> result2
MCTraceOut == early :> trace1 @@ late :> trace2
MCFactsOut == [c \in MCCall |-> factsJson]
MCAssessmentOut == [c \in MCCall |-> assessmentJson]

Check(required, values, prefixes, port) ==
  [required |-> required, supported |-> TRUE, named |-> TRUE,
   values |-> values, prefixes |-> prefixes, port |-> port]

MCPlans ==
  [k \in CheckKinds |->
     CASE k = "dns-gate" ->
            {<<>>, <<Check(TRUE, {ip1}, {}, FALSE), Check(FALSE, {ip2}, {}, FALSE)>>,
             <<Check(TRUE, {ip1}, {}, FALSE), Check(TRUE, {ip1, ip2}, {}, FALSE)>>}
       [] k = "ssh-gate" ->
            {<<Check(TRUE, {}, {}, TRUE), Check(TRUE, {}, {}, FALSE)>>,
             <<Check(FALSE, {}, {}, TRUE), Check(TRUE, {}, {}, TRUE)>>}
       [] k = "tailscale-preflight" ->
            {<<[Check(TRUE, {ip1}, {}, FALSE) EXCEPT !.supported = FALSE]>>,
             <<Check(TRUE, {ip1}, {{ip2}}, TRUE), Check(FALSE, {}, {}, FALSE)>>}]

Answer(error, ips, tcp) == [error |-> error, ips |-> ips, tcp |-> tcp]
MCAnswers ==
  {Answer(Absent, {ip1}, Absent), Answer(Absent, {ip1, ip2}, Absent),
   Answer(Absent, {ip1, ip2}, "ECONNREFUSED"), Answer(Absent, {}, "EAI_AGAIN"),
   Answer("EAI_NONAME", {}, "EAI_NONAME"), Answer("EAI_AGAIN", {}, "EAI_AGAIN")}

Clean == [is_git_repo |-> TRUE, dirty |-> FALSE, current_branch |-> "main",
          upstream |-> TRUE, ahead |-> 0, behind |-> 1, default_branch |-> "main",
          default_source |-> "remote_origin_head"]
MCObserved ==
  {Clean, [Clean EXCEPT !.dirty = TRUE], [Clean EXCEPT !.current_branch = "feature"],
   [Clean EXCEPT !.current_branch = Absent], [Clean EXCEPT !.ahead = 1],
   [Clean EXCEPT !.default_branch = Absent], [Clean EXCEPT !.upstream = FALSE],
   [Clean EXCEPT !.is_git_repo = FALSE, !.current_branch = Absent,
                 !.upstream = FALSE, !.default_branch = Absent]}

(* Versions of the input artifacts: fresh and stale evidence, a mismatch,     *)
(* another host, no expectation, a service listed twice.                    *)
MCContent ==
  LET good == [facts_host |-> server, expected_host |-> server, expected |-> {web},
               evidence_host |-> server, freshness |-> "fresh", twice |-> FALSE,
               evidence |-> web :> "present" @@ mail :> Absent]
  IN "fresh" :> good @@ "stale" :> [good EXCEPT !.freshness = "stale"]
     @@ "mismatch" :> [good EXCEPT !.evidence = web :> "mismatch" @@ mail :> "present",
                                   !.expected = {web, mail}]
     @@ "moved" :> [good EXCEPT !.evidence_host = laptop]
     @@ "empty" :> [good EXCEPT !.expected = {}] @@ "twice" :> [good EXCEPT !.twice = TRUE]
MCVersions == {"fresh", "stale", "mismatch", "moved", "empty", "twice"}

(* A kind without an artifact of its own shares no output with another call:  *)
(* the first call has it alone.                                            *)
Alone == AuxOut(early, kind[early]) = Absent /\ kind[early] # Absent => pc[late] = "start"
=============================================================================
