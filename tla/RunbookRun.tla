------------------------------ MODULE RunbookRun ------------------------------
(***************************************************************************)
(* runbook run: a read-only runbook of one of six kinds observes, decides   *)
(* and publishes a result and a trace.  Two kinds also write an artifact of *)
(* their own, server-facts.json or heimserver-service-gate-assessment.json, *)
(* beside the trace, where another call may want to write too.  A call may  *)
(* fail at every write and clean-up, or be killed between any two steps.    *)
(***************************************************************************)
EXTENDS GateChecks

CONSTANTS Call,        \* calls of run_runbook
          KindsOf,     \* KindsOf[c]: the kinds the plan of c may have
          File,        \* paths of outputs
          ResultOut, TraceOut,       \* [Call -> File]
          FactsOut, AssessmentOut,   \* [Call -> File], derived from TraceOut
          Plans,       \* Plans[k]: sequences of checks a plan of kind k may have
          Answers,     \* what the resolver and the network may answer
          Observed,    \* what an observation may say
          Versions,    \* the bytes of the input artifacts in different versions
          Content      \* Content[v]: what they say in version v

CheckKinds == {"dns-gate", "ssh-gate", "tailscale-preflight"}
SupportedRunbookKinds ==
  CheckKinds \cup {"repo-sync-gate", "server-facts-snapshot", "heimserver-service-gate"}

(* What an output says: who wrote it, a status, and the artifact it names.   *)
Written == [by : Call, says : Statuses \cup {"written"}, names : File \cup {Absent}]

ASSUME RunbookAssumption ==
  /\ KindsOf \in [Call -> SUBSET SupportedRunbookKinds]
  /\ ResultOut \in [Call -> File] /\ TraceOut \in [Call -> File]
  /\ FactsOut \in [Call -> File] /\ AssessmentOut \in [Call -> File]
  /\ \A c, d \in Call :
       /\ c # d => {ResultOut[c], TraceOut[c]} \cap {ResultOut[d], TraceOut[d]} = {}
       /\ {ResultOut[c], TraceOut[c]} \cap {FactsOut[d], AssessmentOut[d]} = {}
       /\ FactsOut[c] # AssessmentOut[d] /\ ResultOut[c] # TraceOut[c]
  /\ Observed \subseteq Observations
  /\ Content \in [Versions -> Bundles]
  /\ Absent \notin File /\ Absent \notin Observed /\ Absent \notin Versions
  /\ Absent \notin SupportedRunbookKinds \cup Statuses \cup ResolverErrors \cup Written

VARIABLES pc, kind,
          asked,     \* checks evaluated so far, each with its answer
          todo,      \* checks still to evaluate
          seen, derived,   \* repo-sync: first observation, second one's statuses
          approved,  \* service gate: the version the plan has the hashes of
          loaded,    \* and what was read so far: facts, expectation, evidence
          verdict,
          named,     \* the artifact of its own the call has written, or Absent
          tracked,   \* it is there when the result is built
          temp,      \* temporary files on disk
          owed,      \* what the exception handler has still to unlink
          stuck,     \* what could not be unlinked
          file,      \* the outputs on disk
          contested  \* pairs of calls that overlapped on an output (history)

verdictVars == <<asked, todo, seen, derived, approved, loaded>>
handlerVars == <<tracked, owed, stuck>>
vars == <<pc, kind, verdictVars, verdict, named, handlerVars, temp, file, contested>>

Publishing == <<"trace", "result", "placeTrace", "placeResult">>
Ended == {"returned", "refused", "raised", "rollbackFailed", "killed"}
Deciding == {"start", "observe", "assess", "check", "collect", "writeFacts", "placeFacts",
             "load", "derive", "writeAssessment", "recheck", "placeAssessment"}
             \cup (Ended \ {"returned"})
Phases == Deciding \cup {"build", "cleanup", "returned"} \cup {Publishing[i] : i \in 1..4}

Temps == {"traceTemp", "resultTemp", "auxTemp"}
Debts == <<"traceTemp", "resultTemp", "trace", "aux">>    \* in the handler's order

TypeOK ==
  /\ pc \in [Call -> Phases]
  /\ \A c \in Call : kind[c] = Absent <=> pc[c] \in (Ended \cup {"start"}) \ {"returned"}
  /\ \A c \in Call : kind[c] # Absent => kind[c] \in KindsOf[c]
  /\ \A c \in Call : pc[c] = "check" => kind[c] \in CheckKinds
  /\ \A c \in Call : seen[c] \in Observed \cup {Absent}
  /\ \A c \in Call : approved[c] \in Versions \cup {Absent} /\ Len(loaded[c]) \in 0..3
  /\ \A c \in Call : verdict[c] \in IF pc[c] \in Deciding THEN {Absent} ELSE Statuses
  /\ \A c \in Call : named[c] \in {Absent, FactsOut[c], AssessmentOut[c]}
  /\ \A c \in Call : named[c] # Absent => verdict[c] # Absent
  /\ tracked \in [Call -> BOOLEAN]
  /\ temp \in [Call -> SUBSET Temps]
  /\ owed \in [Call -> SUBSET {Debts[i] : i \in 1..4}]
  /\ stuck \in [Call -> SUBSET {Debts[i] : i \in 1..4}]
  /\ \A f \in File : file[f] = Absent \/ file[f] \in Written
  /\ contested \subseteq SUBSET Call

Init ==
  /\ pc = [c \in Call |-> "start"] /\ kind = [c \in Call |-> Absent]
  /\ asked = [c \in Call |-> {}] /\ todo = [c \in Call |-> <<>>]
  /\ seen = [c \in Call |-> Absent] /\ derived = [c \in Call |-> Absent]
  /\ approved = [c \in Call |-> Absent] /\ loaded = [c \in Call |-> <<>>]
  /\ verdict = [c \in Call |-> Absent] /\ named = [c \in Call |-> Absent]
  /\ tracked = [c \in Call |-> FALSE] /\ temp = [c \in Call |-> {}]
  /\ owed = [c \in Call |-> {}] /\ stuck = [c \in Call |-> {}]
  /\ file = [f \in File |-> Absent]
  /\ contested = {}

Goto(c, phase) == pc' = [pc EXCEPT ![c] = phase]

(* The call ends without a result; its local values are gone.                *)
Leave(c, phase) ==
  /\ Goto(c, phase)
  /\ kind' = [kind EXCEPT ![c] = Absent]
  /\ asked' = [asked EXCEPT ![c] = {}] /\ todo' = [todo EXCEPT ![c] = <<>>]
  /\ seen' = [seen EXCEPT ![c] = Absent] /\ derived' = [derived EXCEPT ![c] = Absent]
  /\ approved' = [approved EXCEPT ![c] = Absent] /\ loaded' = [loaded EXCEPT ![c] = <<>>]
  /\ verdict' = [verdict EXCEPT ![c] = Absent] /\ named' = [named EXCEPT ![c] = Absent]
  /\ tracked' = [tracked EXCEPT ![c] = FALSE] /\ owed' = [owed EXCEPT ![c] = {}]
  /\ UNCHANGED <<stuck, contested>>

-----------------------------------------------------------------------------
(* Preconditions.                                                          *)

(* The artifact of its own a call of kind k writes, if any.                  *)
AuxOut(c, k) ==
  CASE k = "server-facts-snapshot" -> FactsOut[c]
    [] k = "heimserver-service-gate" -> AssessmentOut[c]
    [] OTHER -> Absent

FirstPhase(k) ==
  CASE k = "repo-sync-gate" -> "observe" [] k \in CheckKinds -> "check"
    [] k = "server-facts-snapshot" -> "collect"
    [] k = "heimserver-service-gate" -> "load"

Peers(c, k) ==
  {d \in Call \ {c} : /\ pc[d] \notin Ended \cup {"start"}
                      /\ AuxOut(c, k) # Absent /\ AuxOut(d, kind[d]) = AuxOut(c, k)}

(* Result and trace must not exist; the service gate looks for its           *)
(* assessment here too.                                                    *)
Admit(c) ==
  /\ pc[c] = "start"
  /\ file[ResultOut[c]] = Absent /\ file[TraceOut[c]] = Absent
  /\ \E k \in KindsOf[c] :
       /\ k = "heimserver-service-gate" => file[AssessmentOut[c]] = Absent
       /\ kind' = [kind EXCEPT ![c] = k]
       /\ Goto(c, FirstPhase(k))
       /\ \E checks \in (IF k \in CheckKinds THEN Plans[k] ELSE {<<>>}) :
            todo' = [todo EXCEPT ![c] = checks]
       /\ \E v \in (IF k = "heimserver-service-gate" THEN Versions ELSE {Absent}) :
            approved' = [approved EXCEPT ![c] = v]
       /\ contested' = contested \cup {{c, d} : d \in Peers(c, k)}
  /\ UNCHANGED <<asked, seen, derived, loaded, verdict, named, handlerVars, temp, file>>

(* ValueError before anything was written.                                  *)
Refuse(c) ==
  /\ pc[c] = "start"
  /\ Leave(c, "refused")
  /\ UNCHANGED <<temp, file>>

(* The kind's own part is over: its status, and the artifact it has written. *)
Decide(c, status, path) ==
  /\ Goto(c, "build")
  /\ verdict' = [verdict EXCEPT ![c] = status]
  /\ named' = [named EXCEPT ![c] = path]
  /\ UNCHANGED <<kind, handlerVars, contested>>

(* The steps of one kind go on.                                             *)
Proceed(c, phase) ==
  /\ Goto(c, phase)
  /\ UNCHANGED <<kind, verdict, named, handlerVars, contested>>

-----------------------------------------------------------------------------
(* repo-sync-gate.                                                         *)

Observe(c) ==
  /\ pc[c] = "observe"
  /\ \E o \in Observed \cup {Absent} : seen' = [seen EXCEPT ![c] = o]
  /\ Proceed(c, "assess")
  /\ UNCHANGED <<asked, todo, derived, approved, loaded, temp, file>>

(* assess_repo observes the repository a second time.                       *)
Conclusions == {DerivedStatus(o, s) : o \in Observed, s \in Scopes} \cup {Absent}

Assess(c) ==
  /\ pc[c] = "assess"
  /\ \E d \in Conclusions :
       /\ derived' = [derived EXCEPT ![c] = d]
       /\ Decide(c, OverallStatus(SyncSteps(seen[c], d)), Absent)
  /\ UNCHANGED <<asked, todo, seen, approved, loaded, temp, file>>

-----------------------------------------------------------------------------
(* dns-gate, ssh-gate, tailscale-preflight.                                 *)

EvaluateCheck(c) ==
  /\ pc[c] = "check" /\ todo[c] # <<>>
  /\ \E answer \in Answers :
       asked' = [asked EXCEPT ![c] = @ \cup {[check |-> Head(todo[c]), answer |-> answer]}]
  /\ todo' = [todo EXCEPT ![c] = Tail(@)]
  /\ Proceed(c, "check")
  /\ UNCHANGED <<seen, derived, approved, loaded, temp, file>>

RequiredStatuses(c) ==
  {CheckStatus(kind[c], a.check, a.answer) : a \in {b \in asked[c] : b.check.required}}

ConcludeChecks(c) ==
  /\ pc[c] = "check" /\ todo[c] = <<>>
  /\ Decide(c, RequiredVerdict(RequiredStatuses(c)), Absent)
  /\ UNCHANGED <<verdictVars, temp, file>>

-----------------------------------------------------------------------------
(* server-facts-snapshot.                                                  *)

(* Mutant: server-facts.json may exist.                                     *)
CollectFactsOver(c) ==
  /\ pc[c] = "collect"
  /\ \/ Proceed(c, "writeFacts")
     \/ Decide(c, "inconclusive", Absent)
  /\ UNCHANGED <<verdictVars, temp, file>>

(* Facts that cannot be collected, or do not fit the schema, are no facts.   *)
CollectFacts(c) ==
  /\ pc[c] = "collect"
  /\ file[FactsOut[c]] = Absent
  /\ \/ Proceed(c, "writeFacts")
     \/ Decide(c, "inconclusive", Absent)
  /\ UNCHANGED <<verdictVars, temp, file>>

(* server-facts.json is there already: ValueError.                          *)
RefuseFacts(c) ==
  /\ pc[c] = "collect" /\ file[FactsOut[c]] # Absent
  /\ Leave(c, "raised")
  /\ UNCHANGED <<temp, file>>

(* What is written goes to a temporary file; the one of an artifact that     *)
(* cannot be written is removed, and if that fails nobody is told.           *)
WriteFails(c) ==
  /\ Decide(c, "inconclusive", Absent)
  /\ \E left \in SUBSET {"auxTemp"} : temp' = [temp EXCEPT ![c] = left]
  /\ UNCHANGED file

WriteFacts(c) ==
  /\ pc[c] = "writeFacts"
  /\ \/ Proceed(c, "placeFacts") /\ temp' = [temp EXCEPT ![c] = {"auxTemp"}] /\ UNCHANGED file
     \/ WriteFails(c)
  /\ UNCHANGED verdictVars

Place(c, path, says) ==
  /\ temp' = [temp EXCEPT ![c] = {}]
  /\ file' = [file EXCEPT ![path] = [by |-> c, says |-> says, names |-> Absent]]

PlaceFacts(c) ==
  /\ pc[c] = "placeFacts"
  /\ \/ Place(c, FactsOut[c], "written") /\ Decide(c, "passed", FactsOut[c])
     \/ WriteFails(c)
  /\ UNCHANGED verdictVars

-----------------------------------------------------------------------------
(* heimserver-service-gate.                                                *)

(* The documents as they were read.                                        *)
BundleOf(c) ==
  LET facts == Content[loaded[c][1]]
      expectation == Content[loaded[c][2]]
  IN [Content[loaded[c][3]] EXCEPT !.facts_host = facts.facts_host,
        !.expected_host = expectation.expected_host,
        !.expected = expectation.expected,
        !.twice = @ \/ expectation.twice]

(* A technical error of the adapter: no verdict on the services.             *)
AdapterFails(c) ==
  /\ pc[c] \in {"load", "derive"}
  /\ Decide(c, "inconclusive", Absent)
  /\ UNCHANGED <<verdictVars, temp, file>>

(* In the adapter's order.  Before the first input: the root is no directory, *)
(* a schema is missing or does not fit the adapter, a reference is malformed. *)
RootFails(c) == pc[c] = "load" /\ loaded[c] = <<>> /\ AdapterFails(c)
ContractFails(c) == pc[c] = "load" /\ loaded[c] = <<>> /\ AdapterFails(c)
RefsFail(c) == pc[c] = "load" /\ loaded[c] = <<>> /\ AdapterFails(c)

(* Of each input: its path leaves the root or leads to no regular file; its   *)
(* bytes are unreadable or not the approved ones, or no valid document; it    *)
(* has a shape that its schema should have refused.                          *)
PathFails(c) == pc[c] = "load" /\ AdapterFails(c)
InputFails(c) == pc[c] = "load" /\ AdapterFails(c)
ShapeFails(c) == pc[c] = "load" /\ AdapterFails(c)

(* And what was derived does not fit the schema.                            *)
OutputFails(c) == pc[c] = "derive" /\ ~BundleOf(c).twice /\ AdapterFails(c)

Loading(c, v) ==
  /\ pc[c] = "load"
  /\ loaded' = [loaded EXCEPT ![c] = Append(@, v)]
  /\ Proceed(c, IF Len(loaded[c]) = 2 THEN "derive" ELSE "load")
  /\ UNCHANGED <<asked, todo, seen, derived, approved, temp, file>>

(* Mutant: only the first input is held against its hash.                   *)
LoadInputTrusting(c) ==
  \E v \in Versions : (loaded[c] = <<>> => v = approved[c]) /\ Loading(c, v)

(* The inputs in their order, each read once.  Somebody may have replaced one *)
(* at any time; the bytes read must have the hash the plan names (otherwise   *)
(* InputFails).                                                            *)
LoadInput(c) ==
  \E v \in Versions : v = approved[c] /\ Loading(c, v)

Derive(c) ==
  /\ pc[c] = "derive" /\ ~BundleOf(c).twice
  /\ Proceed(c, "writeAssessment")
  /\ UNCHANGED <<verdictVars, temp, file>>

WriterFails(c) ==
  /\ Decide(c, "inconclusive", Absent)
  /\ UNCHANGED <<verdictVars, temp, file>>

(* The writer fails before it has a temporary file: the parent of its target  *)
(* is no directory, or the schema is missing or does not fit.                *)
TargetFails(c) == pc[c] = "writeAssessment" /\ WriterFails(c)
WriterSchemaFails(c) == pc[c] = "writeAssessment" /\ WriterFails(c)

(* write_heimserver_service_gate_assessment: the target must not exist, a    *)
(* temporary file is written, the target must still not exist, and then it   *)
(* is replaced.                                                            *)
WriteAssessment(c) ==
  /\ pc[c] = "writeAssessment"
  /\ \/ /\ file[AssessmentOut[c]] = Absent
        /\ Proceed(c, "recheck")
        /\ temp' = [temp EXCEPT ![c] = {"auxTemp"}]
        /\ UNCHANGED file
     \/ WriteFails(c)
  /\ UNCHANGED verdictVars

RecheckTarget(c) ==
  /\ pc[c] = "recheck"
  /\ \/ /\ file[AssessmentOut[c]] = Absent
        /\ Proceed(c, "placeAssessment")
        /\ UNCHANGED <<temp, file>>
     \/ file[AssessmentOut[c]] # Absent /\ WriteFails(c)
  /\ UNCHANGED verdictVars

PlaceAssessment(c) ==
  /\ pc[c] = "placeAssessment"
  /\ \/ /\ Place(c, AssessmentOut[c], ServiceGateStatus(BundleOf(c)))
        /\ Decide(c, OverallStatus({"passed", ServiceGateStatus(BundleOf(c))}),
                  AssessmentOut[c])
     \/ WriteFails(c)
  /\ UNCHANGED verdictVars

(* A service listed twice is a ValueError nobody turns into a status; so is  *)
(* any other exception in these steps.  The handler unlinks whatever is at   *)
(* the path of the assessment; if that fails: RuntimeError.                  *)
Unexpected(c) ==
  /\ pc[c] \in {"load", "derive", "writeAssessment", "recheck", "placeAssessment"}
  /\ \/ /\ Leave(c, "raised")
        /\ file' = [file EXCEPT ![AssessmentOut[c]] = Absent]
     \/ /\ file[AssessmentOut[c]] # Absent
        /\ Leave(c, "rollbackFailed")
        /\ UNCHANGED file
  /\ \E left \in SUBSET temp[c] : temp' = [temp EXCEPT ![c] = left]

-----------------------------------------------------------------------------
(* The result and the commit.                                              *)

(* The local values of the kind's part are not looked at again.             *)
BuildResult(c) ==
  /\ pc[c] = "build"
  /\ Goto(c, "trace")
  /\ tracked' = [tracked EXCEPT ![c] = named[c] # Absent /\ file[named[c]] # Absent]
  /\ asked' = [asked EXCEPT ![c] = {}] /\ seen' = [seen EXCEPT ![c] = Absent]
  /\ derived' = [derived EXCEPT ![c] = Absent] /\ approved' = [approved EXCEPT ![c] = Absent]
  /\ loaded' = [loaded EXCEPT ![c] = <<>>]
  /\ UNCHANGED <<kind, todo, verdict, named, owed, stuck, temp, file, contested>>

publishVars == <<kind, verdictVars, verdict, named, tracked, stuck, contested>>

(* Each in a temporary file of its own; the result is validated in between.  *)
WriteTrace(c) ==
  /\ pc[c] = "trace" /\ Goto(c, "result")
  /\ temp' = [temp EXCEPT ![c] = @ \cup {"traceTemp"}]
  /\ UNCHANGED <<publishVars, owed, file>>

WriteResult(c) ==
  /\ pc[c] = "result" /\ Goto(c, "placeTrace")
  /\ temp' = [temp EXCEPT ![c] = @ \cup {"resultTemp"}]
  /\ UNCHANGED <<publishVars, owed, file>>

Replace(c, tempFile, path, content) ==
  /\ temp' = [temp EXCEPT ![c] = @ \ {tempFile}]
  /\ file' = [file EXCEPT ![path] = content]
  /\ UNCHANGED <<publishVars, owed>>

TraceOf(c) == [by |-> c, says |-> "written", names |-> Absent]
ResultOf(c) == [by |-> c, says |-> verdict[c], names |-> named[c]]

(* Mutant: a trace that cannot be put in place does not stop the result.     *)
PlaceTraceOrGoOn(c) ==
  /\ pc[c] = "placeTrace" /\ Goto(c, "placeResult")
  /\ \/ Replace(c, "traceTemp", TraceOut[c], TraceOf(c))
     \/ UNCHANGED <<publishVars, owed, temp, file>>

PlaceTrace(c) ==
  /\ pc[c] = "placeTrace" /\ Goto(c, "placeResult")
  /\ Replace(c, "traceTemp", TraceOut[c], TraceOf(c))

PlaceResult(c) ==
  /\ pc[c] = "placeResult" /\ Goto(c, "returned")
  /\ Replace(c, "resultTemp", ResultOut[c], ResultOf(c))

(* Mutant: the artifact of its own is forgotten.                            *)
DebtsOfPublisher(c, left) ==
  left \cup (IF pc[c] = "placeResult" THEN {"trace"} ELSE {})

(* What the handler has to unlink when a step of the commit fails: temporary *)
(* files, a trace in place, and the artifact if it was there.               *)
DebtsOf(c, left) ==
  left \cup (IF pc[c] = "placeResult" THEN {"trace"} ELSE {})
       \cup (IF tracked[c] THEN {"aux"} ELSE {})

PublishFails(c) ==
  /\ pc[c] \in {Publishing[i] : i \in 1..4}
  /\ \E new \in SUBSET (CASE pc[c] = "trace" -> {"traceTemp"}
                          [] pc[c] = "result" -> {"resultTemp"}
                          [] OTHER -> {}) :
       /\ temp' = [temp EXCEPT ![c] = @ \cup new]
       /\ owed' = [owed EXCEPT ![c] = DebtsOf(c, (temp[c] \cup new) \ {"auxTemp"})]
  /\ Goto(c, "cleanup")
  /\ UNCHANGED <<publishVars, file>>

PathOf(c, debt) == IF debt = "trace" THEN TraceOut[c] ELSE named[c]

(* One unlink; what is gone already is no failure.                          *)
CleanUp(c) ==
  LET debt == Debts[CHOOSE i \in 1..4 : /\ Debts[i] \in owed[c]
                                        /\ \A j \in 1..(i - 1) : Debts[j] \notin owed[c]]
  IN /\ pc[c] = "cleanup" /\ owed[c] # {}
     /\ owed' = [owed EXCEPT ![c] = @ \ {debt}]
     /\ \/ debt \in Temps /\ temp' = [temp EXCEPT ![c] = @ \ {debt}] /\ UNCHANGED <<file, stuck>>
        \/ /\ debt \notin Temps
           /\ file' = [file EXCEPT ![PathOf(c, debt)] = Absent]
           /\ UNCHANGED <<temp, stuck>>
        \/ /\ debt \notin Temps => file[PathOf(c, debt)] # Absent
           /\ stuck' = [stuck EXCEPT ![c] = @ \cup {debt}]
           /\ UNCHANGED <<temp, file>>
     /\ UNCHANGED <<pc, kind, verdictVars, verdict, named, tracked, contested>>

(* The original exception, or RuntimeError when something could not be        *)
(* unlinked.                                                               *)
Raise(c) ==
  /\ pc[c] = "cleanup" /\ owed[c] = {}
  /\ Leave(c, IF stuck[c] = {} THEN "raised" ELSE "rollbackFailed")
  /\ UNCHANGED <<temp, file>>

(* The process dies, or is interrupted.                                     *)
Kill(c) ==
  /\ pc[c] \notin Ended \cup {"start"}
  /\ Leave(c, "killed")
  /\ UNCHANGED <<temp, file>>

-----------------------------------------------------------------------------
Evaluate(c) ==
  \/ Observe(c) \/ Assess(c) \/ EvaluateCheck(c) \/ ConcludeChecks(c)
  \/ CollectFacts(c) \/ RefuseFacts(c) \/ WriteFacts(c) \/ PlaceFacts(c)
  \/ RootFails(c) \/ ContractFails(c) \/ RefsFail(c)
  \/ PathFails(c) \/ InputFails(c) \/ ShapeFails(c) \/ OutputFails(c)
  \/ LoadInput(c) \/ Derive(c)
  \/ TargetFails(c) \/ WriterSchemaFails(c)
  \/ WriteAssessment(c) \/ RecheckTarget(c) \/ PlaceAssessment(c) \/ Unexpected(c)

Publish(c) ==
  \/ BuildResult(c) \/ WriteTrace(c) \/ WriteResult(c) \/ PlaceTrace(c) \/ PlaceResult(c)
  \/ PublishFails(c) \/ CleanUp(c) \/ Raise(c)

Step(c) == Admit(c) \/ Refuse(c) \/ Evaluate(c) \/ Publish(c)

Next == \E c \in Call : Step(c) \/ Kill(c)

Spec == Init /\ [][Next]_vars

-----------------------------------------------------------------------------
(* Properties.                                                             *)

(* What a check asks for, and what would refute it, said without the order   *)
(* in which the code looks.                                                *)
Holds(k, check, answer) ==
  CASE k = "dns-gate" ->
         answer.error = Absent /\ answer.ips = check.values /\ answer.ips # {}
    [] k = "ssh-gate" -> check.port /\ answer.tcp = Absent
    [] k = "tailscale-preflight" ->
         /\ answer.error = Absent /\ answer.ips # {}
         /\ check.values # {} => answer.ips \cap check.values # {}
         /\ check.prefixes # {} => \E p \in check.prefixes : answer.ips \cap p # {}
         /\ check.port => answer.tcp = Absent

(* A verdict of passed was earned, whatever kind: the required checks, of    *)
(* which there is one, hold by what was just read; the service gate rests on *)
(* the bytes the plan has the hashes of, one host, and for each expected      *)
(* service evidence that it is present, fresh; the facts are in place        *)
(* (docs/runbook-model.md, status rules of each kind).                      *)
PassedIsEarned ==
  \A c \in Call : pc[c] = "build" /\ verdict[c] = "passed" =>
    /\ kind[c] \in CheckKinds =>
         /\ \E a \in asked[c] : a.check.required
         /\ \A a \in asked[c] : a.check.required => Holds(kind[c], a.check, a.answer)
    /\ kind[c] = "heimserver-service-gate" =>
         LET bundle == Content[approved[c]] IN
         /\ named[c] = AssessmentOut[c]
         /\ bundle.facts_host = bundle.evidence_host
         /\ bundle.facts_host = bundle.expected_host
         /\ bundle.expected # {} /\ bundle.freshness = "fresh"
         /\ \A s \in bundle.expected : bundle.evidence[s] = "present"
    /\ kind[c] = "server-facts-snapshot" => named[c] = FactsOut[c]

(* A verdict of blocked was seen and is no guess: some required check was    *)
(* evaluated and does not hold, and no required one was left in doubt; the   *)
(* repository was seen in a state that blocks; the approved artifacts        *)
(* contradict each other.  A facts snapshot never blocks.                   *)
BlockedIsSeen ==
  \A c \in Call : pc[c] = "build" /\ verdict[c] = "blocked" =>
    /\ kind[c] \in CheckKinds =>
         /\ \E a \in asked[c] : a.check.required /\ ~Holds(kind[c], a.check, a.answer)
         /\ \A a \in asked[c] : a.check.required =>
              /\ a.check.named
              /\ kind[c] # "ssh-gate" => a.answer.error \notin {"EAI_AGAIN", "OSError"}
    /\ kind[c] = "repo-sync-gate" =>
         \/ /\ seen[c] # Absent
            /\ \/ ~seen[c].is_git_repo \/ seen[c].dirty
               \/ seen[c].current_branch = Absent
               \/ seen[c].current_branch # seen[c].default_branch
         \/ derived[c] # Absent /\ derived[c] \cap BlockingGitPullStatuses # {}
    /\ kind[c] = "heimserver-service-gate" =>
         \/ ~SameHost(Content[approved[c]])
         \/ \E s \in Content[approved[c]].expected :
              Content[approved[c]].evidence[s] = "mismatch"
    /\ kind[c] # "server-facts-snapshot"

(* "passed means local diagnosis looked unblocked at check time"            *)
(* (docs/runbook-model.md): a repo-sync gate that saw a clean worktree on    *)
(* the default branch, and whose assessment names no obstacle but the       *)
(* remote freshness that a local check cannot have, passes (check_*,        *)
(* _derive_overall_status, _build_repo_sync_short_assessment).              *)
LooksUnblocked(c) ==
  /\ seen[c] # Absent
  /\ seen[c].is_git_repo /\ ~seen[c].dirty
  /\ seen[c].current_branch # Absent /\ seen[c].current_branch = seen[c].default_branch
  /\ derived[c] # Absent
  /\ LocalClear \in derived[c]
  /\ derived[c] \cap BlockingGitPullStatuses \subseteq {NoRemoteFreshness}

UnblockedDiagnosisPasses ==
  \A c \in Call :
    pc[c] = "build" /\ kind[c] = "repo-sync-gate" /\ LooksUnblocked(c) =>
      verdict[c] = "passed"

(* The result is the commit marker: where one is visible, also after its     *)
(* call was killed, the trace of the same call is visible, it says what was  *)
(* decided, and the artifact it names is there and its own, with the same    *)
(* status for the service gate, unless another call overlapped there.        *)
ResultIsCommitMarker ==
  \A c \in Call :
    LET result == file[ResultOut[c]] IN
    result # Absent =>
      /\ result = ResultOf(c) /\ file[TraceOut[c]] = TraceOf(c)
      /\ result.names # Absent /\ c \notin UNION contested =>
           /\ file[result.names] # Absent /\ file[result.names].by = c
           /\ kind[c] = "heimserver-service-gate" => file[result.names].says = verdict[c]

OwnOutputs(c) == {f \in File : file[f] # Absent /\ file[f].by = c}

(* A call that ends with the exception that stopped it has left nothing: no  *)
(* output, no temporary file of the commit.  What a RuntimeError leaves is    *)
(* what it names; the service gate's own handler leaves a foreign file.       *)
FailureLeavesNothing ==
  \A c \in Call :
    /\ pc[c] \in {"raised", "refused"} => OwnOutputs(c) = {} /\ temp[c] \subseteq {"auxTemp"}
    /\ pc[c] = "rollbackFailed" =>
         /\ ResultOut[c] \notin OwnOutputs(c)
         /\ TraceOut[c] \in OwnOutputs(c) => "trace" \in stuck[c]
         /\ OwnOutputs(c) \ {TraceOut[c]} # {} => "aux" \in stuck[c]
         /\ temp[c] \subseteq stuck[c] \cup {"auxTemp"}

(* No step overwrites or removes an output of another call, unless the two   *)
(* overlapped on it (the existence checks, the rollback of facts and of the  *)
(* assessment).                                                            *)
Moved(c) == pc'[c] # pc[c] \/ owed'[c] # owed[c]

OthersAreLeftAlone ==
  [][\A c \in Call, f \in File :
       Moved(c) /\ file[f] # Absent /\ file[f].by # c /\ file'[f] # file[f] =>
         {c, file[f].by} \in contested]_vars

(* The trace and the result of a call, seen as one set.                     *)
Visible(c) == {f \in {TraceOut[c], ResultOut[c]} : file[f] # Absent}

OutcomeOf(c) ==
  CASE pc[c] = "returned" -> "published"
    [] pc[c] \in {"refused", "raised", "rollbackFailed", "killed"} ->
         IF Visible(c) = {} THEN "withdrawn" ELSE "torn"
    [] OTHER -> "pending"

SeenOf(c) ==
  IF Visible(c) = {} THEN "none"
  ELSE IF ResultOut[c] \in Visible(c) /\ TraceOut[c] \in Visible(c) THEN "all" ELSE "some"

Publication ==
  INSTANCE EvidencePublication WITH
     Run <- Call,
     outcome <- [c \in Call |-> OutcomeOf(c)],
     seen <- [c \in Call |-> SeenOf(c)]

(* The commit of a runbook implements EvidencePublication: its trace and its *)
(* result appear as one, or a part of them ends torn and never looks whole   *)
(* (docs/runbook-model.md, atomic writes via temp file and os.replace).      *)
PublishesAtomically == Publication!Spec
=============================================================================
