--------------------------- MODULE RunbookRun_proofs ---------------------------
(* Whatever calls share a directory, whatever their plans ask and whatever   *)
(* fails: verdicts are earned, the result marks a complete set, a failure    *)
(* leaves nothing, and calls that do not overlap leave each other alone.     *)
EXTENDS RunbookRun, TLAPS

(* The phases in which a call of kind k comes to its verdict.                *)
PhasesOf(k) ==
  CASE k = "repo-sync-gate" -> {"observe", "assess"}
    [] k \in CheckKinds -> {"check"}
    [] k = "server-facts-snapshot" -> {"collect", "writeFacts", "placeFacts"}
    [] k = "heimserver-service-gate" ->
         {"load", "derive", "writeAssessment", "recheck", "placeAssessment"}
    [] OTHER -> {}

Working == UNION {PhasesOf(k) : k \in SupportedRunbookKinds}
PublishPhases == {"trace", "result", "placeTrace", "placeResult"}
DebtSet == {"traceTemp", "resultTemp", "trace", "aux"}
Gone == {"start", "refused", "raised", "rollbackFailed", "killed"}

(* Every variable keeps its type.                                          *)
ControlShape ==
  /\ pc \in [Call -> Phases]
  /\ kind \in [Call -> SupportedRunbookKinds \cup {Absent}]
  /\ verdict \in [Call -> Statuses \cup {Absent}]
  /\ named \in [Call -> File \cup {Absent}]
  /\ tracked \in [Call -> BOOLEAN]
  /\ temp \in [Call -> SUBSET Temps]
  /\ owed \in [Call -> SUBSET DebtSet]
  /\ stuck \in [Call -> SUBSET DebtSet]
  /\ file \in [File -> Written \cup {Absent}]
  /\ contested \subseteq SUBSET Call

(* A step of c leaves the local state of the others alone.                   *)
ControlFrame(c) ==
  \A d \in Call \ {c} :
    /\ pc'[d] = pc[d] /\ kind'[d] = kind[d] /\ verdict'[d] = verdict[d]
    /\ named'[d] = named[d] /\ tracked'[d] = tracked[d] /\ temp'[d] = temp[d]
    /\ owed'[d] = owed[d] /\ stuck'[d] = stuck[d]

(* The steps of a call on its way to the verdict do one of three things: go   *)
(* on, decide without an artifact, or put the artifact in place and decide.  *)
Work(c) ==
  /\ pc[c] \in Working
  /\ \E phase \in Working :
       Proceed(c, phase) /\ (pc[c] \in PhasesOf(kind[c]) => phase \in PhasesOf(kind[c]))
  /\ pc[c] = "collect" => file[FactsOut[c]] = Absent
  /\ file' = file
  /\ temp' = temp \/ temp' = [temp EXCEPT ![c] = {"auxTemp"}]

Settle(c) ==
  /\ pc[c] \in Working
  /\ \E s \in Statuses : Decide(c, s, Absent) /\ (s = "passed" => pc[c] = "check")
  /\ pc[c] = "collect" => file[FactsOut[c]] = Absent
  /\ file' = file
  /\ temp' = temp \/ \E left \in SUBSET {"auxTemp"} : temp' = [temp EXCEPT ![c] = left]

Deliver(c) ==
  \E s \in Statuses, says \in Statuses \cup {"written"},
     k \in {"server-facts-snapshot", "heimserver-service-gate"} :
    /\ k = "server-facts-snapshot" => pc[c] = "placeFacts"
    /\ k = "heimserver-service-gate" => pc[c] = "placeAssessment" /\ says = s
    /\ Decide(c, s, AuxOut(c, k)) /\ Place(c, AuxOut(c, k), says)

-----------------------------------------------------------------------------
(* The constants.                                                          *)

(* The phases and debts, spelled out.                                       *)
LEMMA Sets ==
  /\ {Publishing[i] : i \in 1..4} = PublishPhases
  /\ {Debts[i] : i \in 1..4} = DebtSet
  /\ Working = {"observe", "assess", "check", "collect", "writeFacts", "placeFacts",
                "load", "derive", "writeAssessment", "recheck", "placeAssessment"}
  /\ Deciding = Working \cup Gone
  /\ Phases = Working \cup Gone \cup PublishPhases \cup {"build", "cleanup", "returned"}
  /\ Ended \cup {"start"} = Gone \cup {"returned"}
  <1>1. 1..4 = {1, 2, 3, 4}
    OBVIOUS
  <1>2. {Publishing[i] : i \in 1..4} = PublishPhases
    BY <1>1 DEF Publishing, PublishPhases
  <1>3. {Debts[i] : i \in 1..4} = DebtSet
    BY <1>1 DEF Debts, DebtSet
  <1>4. Working = {"observe", "assess", "check", "collect", "writeFacts", "placeFacts",
                "load", "derive", "writeAssessment", "recheck", "placeAssessment"}
    BY DEF Working, PhasesOf, SupportedRunbookKinds, CheckKinds
  <1>5. Deciding = Working \cup Gone
    BY <1>4 DEF Deciding, Ended, Gone
  <1>6. Phases = Working \cup Gone \cup PublishPhases \cup {"build", "cleanup", "returned"}
    BY <1>2, <1>5 DEF Phases
  <1>7. QED
    BY <1>2, <1>3, <1>4, <1>5, <1>6 DEF Ended, Gone

(* No phase belongs to two of the groups.                                   *)
LEMMA Groups ==
  /\ \A p \in Working : /\ p \notin Gone /\ p \notin PublishPhases
                        /\ p \notin {"build", "cleanup", "returned", "killed",
                                     "placeResult", "rollbackFailed"}
                        /\ p \in Phases
  /\ \A p \in Gone : p \notin PublishPhases /\ p \notin {"build", "cleanup", "returned"}
  /\ \A p \in PublishPhases : p \notin Gone /\ p \notin {"build", "cleanup", "returned"}
  /\ Phases = Working \cup Gone \cup PublishPhases \cup {"build", "cleanup", "returned"}
  /\ "build" \notin Gone /\ "cleanup" \notin Gone /\ "returned" \notin Gone
  /\ PublishPhases \subseteq Phases
  BY Sets DEF Gone, PublishPhases

(* Which phase tells of which kind.                                         *)
LEMMA KindPhases ==
  ASSUME NEW k
  PROVE  /\ "check" \in PhasesOf(k) => k \in CheckKinds
         /\ "collect" \in PhasesOf(k) => k = "server-facts-snapshot"
         /\ "placeFacts" \in PhasesOf(k) => k = "server-facts-snapshot"
         /\ \A p \in {"load", "derive", "writeAssessment", "recheck", "placeAssessment"} :
              p \in PhasesOf(k) => k = "heimserver-service-gate"
         /\ "repo-sync-gate" \notin CheckKinds
  BY DEF PhasesOf, CheckKinds

(* The verdicts are statuses.                                              *)
LEMMA VerdictTypes ==
  /\ \A s : OverallStatus(s) \in Statuses
  /\ \A s : RequiredVerdict(s) \in Statuses
  /\ \A b : ServiceGateStatus(b) \in Statuses
  /\ \A b : OverallStatus({"passed", ServiceGateStatus(b)}) = ServiceGateStatus(b)
  BY DEF OverallStatus, RequiredVerdict, ServiceGateStatus, Statuses

(* The paths of different purposes are different.                           *)
LEMMA Paths ==
  ASSUME NEW c \in Call, NEW d \in Call, NEW k
  PROVE  /\ ResultOut[c] \in File /\ TraceOut[c] \in File /\ ResultOut[c] # TraceOut[c]
         /\ c # d => /\ ResultOut[c] # ResultOut[d] /\ ResultOut[c] # TraceOut[d]
                     /\ TraceOut[c] # TraceOut[d]
         /\ AuxOut(c, k) \in File \cup {Absent}
         /\ AuxOut(c, k) # Absent => AuxOut(c, k) \notin {ResultOut[d], TraceOut[d]}
         /\ FactsOut[c] \in File /\ AssessmentOut[c] \in File
         /\ k = "server-facts-snapshot" => AuxOut(c, k) = FactsOut[c]
         /\ k = "heimserver-service-gate" => AuxOut(c, k) = AssessmentOut[c]
         /\ Absent \notin File
  BY RunbookAssumption DEF AuxOut

-----------------------------------------------------------------------------
(* Types and frame.                                                        *)

(* The repo-sync gate has no way to pass: no assessment is clear.            *)
LEMMA SyncSettles ==
  ASSUME NEW o, NEW d
  PROVE  OverallStatus(SyncSteps(o, d)) \in {"blocked", "inconclusive"}
  BY DEF OverallStatus, SyncSteps, CheckDecisionState, DecisionState

(* Every step of a kind on its way to the verdict is of one of the groups.  *)
LEMMA EvaluateEffects ==
  ASSUME ControlShape, NEW c \in Call, Evaluate(c)
  PROVE  Work(c) \/ Settle(c) \/ Deliver(c) \/ RefuseFacts(c) \/ Unexpected(c)
  <1>1. CASE Observe(c) \/ EvaluateCheck(c) \/ Derive(c)
    BY <1>1, Sets DEF Observe, EvaluateCheck, Derive, Work, PhasesOf
  <1>2. CASE LoadInput(c)
    BY <1>2, Sets DEF LoadInput, Loading, Work, PhasesOf
  <1>3. CASE Assess(c)
    <2>1. PICK d : Decide(c, OverallStatus(SyncSteps(seen[c], d)), Absent)
      BY <1>3 DEF Assess
    <2>2. OverallStatus(SyncSteps(seen[c], d)) \in {"blocked", "inconclusive"}
      BY SyncSettles
    <2>3. QED
      BY <1>3, <2>1, <2>2, Sets DEF Assess, Settle, Statuses
  <1>4. CASE ConcludeChecks(c)
    BY <1>4, Sets, VerdictTypes DEF ConcludeChecks, Settle
  <1>5. CASE AdapterFails(c) \/ (pc[c] = "writeAssessment" /\ WriterFails(c))
    BY <1>5, Sets DEF AdapterFails, WriterFails, Settle, Statuses
  <1>6. ASSUME pc[c] \in Working \ {"collect"}, WriteFails(c) PROVE Settle(c)
    BY <1>6 DEF WriteFails, Settle, Statuses
  <1>7. CASE CollectFacts(c)
    BY <1>7, Sets DEF CollectFacts, Work, Settle, PhasesOf, Statuses
  <1>8. CASE WriteFacts(c)
    BY <1>6, <1>8, Sets DEF WriteFacts, Work, PhasesOf
  <1>9. CASE WriteAssessment(c)
    BY <1>6, <1>9, Sets DEF WriteAssessment, Work, PhasesOf
  <1>10. CASE RecheckTarget(c)
    BY <1>6, <1>10, Sets DEF RecheckTarget, Work, PhasesOf
  <1>11. CASE PlaceFacts(c)
    BY <1>6, <1>11, Sets, Paths DEF PlaceFacts, Deliver, Statuses
  <1>12. CASE PlaceAssessment(c)
    BY <1>6, <1>12, Sets, Paths, VerdictTypes DEF PlaceAssessment, Deliver
  <1>13. QED
    BY <1>1, <1>2, <1>3, <1>4, <1>5, <1>7, <1>8, <1>9, <1>10, <1>11, <1>12
    DEF Evaluate, RootFails, ContractFails, RefsFail, PathFails, InputFails, ShapeFails,
        OutputFails, TargetFails, WriterSchemaFails

-----------------------------------------------------------------------------
(* What each sort of step does, value by value.                             *)

(* A call that leaves has no local values any more.                         *)
LEMMA Leaving ==
  ASSUME ControlShape, NEW c \in Call, NEW phase \in Gone, Leave(c, phase),
         temp' \in [Call -> SUBSET Temps], file' \in [File -> Written \cup {Absent}],
         \A d \in Call \ {c} : temp'[d] = temp[d]
  PROVE  /\ ControlShape' /\ ControlFrame(c)
         /\ pc'[c] = phase /\ kind'[c] = Absent /\ verdict'[c] = Absent
         /\ named'[c] = Absent /\ tracked'[c] = FALSE /\ owed'[c] = {}
         /\ stuck' = stuck /\ contested' = contested
  <1>1. phase \in Phases
    BY Sets
  <1>2. /\ pc'[c] = phase /\ kind'[c] = Absent /\ verdict'[c] = Absent
        /\ named'[c] = Absent /\ tracked'[c] = FALSE /\ owed'[c] = {}
        /\ stuck' = stuck /\ contested' = contested
    BY DEF Leave, Goto, ControlShape
  <1>3. ControlFrame(c)
    BY DEF Leave, Goto, ControlShape, ControlFrame
  <1>4. ControlShape'
    BY <1>1 DEF Leave, Goto, ControlShape
  <1>5. QED
    BY <1>2, <1>3, <1>4

(* A call that decides goes on to build its result.                          *)
LEMMA Concluding ==
  ASSUME ControlShape, NEW c \in Call, NEW s \in Statuses, NEW n \in File \cup {Absent},
         Decide(c, s, n),
         temp' \in [Call -> SUBSET Temps], file' \in [File -> Written \cup {Absent}],
         \A d \in Call \ {c} : temp'[d] = temp[d]
  PROVE  /\ ControlShape' /\ ControlFrame(c)
         /\ pc'[c] = "build" /\ verdict'[c] = s /\ named'[c] = n
         /\ kind' = kind /\ tracked' = tracked /\ owed' = owed /\ stuck' = stuck
         /\ contested' = contested
  <1>1. "build" \in Phases
    BY Sets
  <1>2. /\ pc'[c] = "build" /\ verdict'[c] = s /\ named'[c] = n
        /\ kind' = kind /\ tracked' = tracked /\ owed' = owed /\ stuck' = stuck
        /\ contested' = contested
    BY DEF Decide, Goto, ControlShape, handlerVars
  <1>3. ControlFrame(c)
    BY DEF Decide, Goto, ControlShape, ControlFrame, handlerVars
  <1>4. ControlShape'
    BY <1>1, <1>2 DEF Decide, Goto, ControlShape
  <1>5. QED
    BY <1>2, <1>3, <1>4

(* A call that only moves on keeps its values.                              *)
LEMMA Moving ==
  ASSUME ControlShape, NEW c \in Call, NEW phase \in Phases, Goto(c, phase),
         UNCHANGED <<kind, verdict, named, contested>>,
         tracked' \in [Call -> BOOLEAN], owed' \in [Call -> SUBSET DebtSet],
         stuck' \in [Call -> SUBSET DebtSet],
         temp' \in [Call -> SUBSET Temps], file' \in [File -> Written \cup {Absent}],
         \A d \in Call \ {c} : /\ temp'[d] = temp[d] /\ tracked'[d] = tracked[d]
                               /\ owed'[d] = owed[d] /\ stuck'[d] = stuck[d]
  PROVE  ControlShape' /\ ControlFrame(c) /\ pc'[c] = phase
  <1>1. pc'[c] = phase /\ pc' \in [Call -> Phases] /\ \A d \in Call \ {c} : pc'[d] = pc[d]
    BY DEF Goto, ControlShape
  <1>2. QED
    BY <1>1 DEF ControlShape, ControlFrame

-----------------------------------------------------------------------------
(* The inductive invariant.                                                *)

Engaged == Phases \ (Gone \cup {"returned"})

(* How the local values of a call fit its phase.                            *)
Fits(c) ==
  /\ kind[c] = Absent <=> pc[c] \in Gone
  /\ kind[c] # Absent => kind[c] \in KindsOf[c]
  /\ pc[c] \in Working => pc[c] \in PhasesOf(kind[c])
  /\ pc[c] \in Working \cup Gone => verdict[c] = Absent /\ named[c] = Absent
  /\ pc[c] \notin Working \cup Gone => verdict[c] \in Statuses
  /\ named[c] \in {Absent, AuxOut(c, kind[c])}
  /\ tracked[c] => named[c] # Absent /\ pc[c] \in PublishPhases \cup {"cleanup", "returned"}
  /\ owed[c] # {} => pc[c] = "cleanup"
  /\ "aux" \in owed[c] \cup stuck[c] => tracked[c] \/ pc[c] \in Gone
  /\ stuck[c] # {} => pc[c] \in {"cleanup", "rollbackFailed", "killed"}
  /\ kind[c] = "repo-sync-gate" => verdict[c] # "passed"

(* What temporary files a call can still answer for.                        *)
Temporaries(c) ==
  /\ pc[c] \in {"start", "refused", "raised", "build"} \cup Working => temp[c] \subseteq {"auxTemp"}
  /\ pc[c] = "cleanup" => temp[c] \subseteq owed[c] \cup stuck[c] \cup {"auxTemp"}
  /\ pc[c] = "rollbackFailed" => temp[c] \subseteq stuck[c] \cup {"auxTemp"}

(* What is at the paths of the trace and the result.                         *)
Commit(c) ==
  /\ file[TraceOut[c]] # Absent =>
       /\ file[TraceOut[c]] = TraceOf(c)
       /\ \/ pc[c] \in {"placeResult", "returned", "killed"}
          \/ pc[c] = "cleanup" /\ "trace" \in owed[c] \cup stuck[c]
          \/ pc[c] = "rollbackFailed" /\ "trace" \in stuck[c]
  /\ pc[c] \in {"placeResult", "returned"} => file[TraceOut[c]] = TraceOf(c)
  /\ file[ResultOut[c]] # Absent => pc[c] = "returned"
  /\ pc[c] = "returned" => file[ResultOut[c]] = ResultOf(c)

(* Where else a call has left an output of its own.                          *)
Elsewhere(c) ==
  \A f \in File \ {ResultOut[c], TraceOut[c]} : file[f] # Absent /\ file[f].by = c =>
    \/ pc[c] = "killed"
    \/ pc[c] = "rollbackFailed" /\ "aux" \in stuck[c]
    \/ /\ f = named[c]
       /\ \/ pc[c] = "build"
          \/ pc[c] \in PublishPhases \cup {"returned"} /\ tracked[c]
          \/ pc[c] = "cleanup" /\ "aux" \in owed[c] \cup stuck[c]

(* An output of another call where c writes one is the output of a call that  *)
(* overlapped with c.                                                      *)
Apart(c) ==
  LET f == AuxOut(c, kind[c]) IN
  pc[c] \in Engaged \ {"collect"} /\ f # Absent /\ file[f] # Absent /\ file[f].by # c =>
    {c, file[f].by} \in contested

(* The artifact that the result is going to name is there.                   *)
Named(c) ==
  /\ pc[c] \in PublishPhases \cup {"build", "returned"}
  /\ named[c] # Absent /\ c \notin UNION contested
  => /\ file[named[c]] # Absent /\ file[named[c]].by = c
     /\ kind[c] = "heimserver-service-gate" => file[named[c]].says = verdict[c]

Local(c) ==
  Fits(c) /\ Temporaries(c) /\ Commit(c) /\ Elsewhere(c) /\ Apart(c) /\ Named(c)

(* Calls that write at one path know it.                                    *)
Contest ==
  \A c, d \in Call :
    /\ c # d /\ pc[c] \in Engaged /\ pc[d] \in Engaged
    /\ AuxOut(c, kind[c]) # Absent /\ AuxOut(c, kind[c]) = AuxOut(d, kind[d])
    => {c, d} \in contested

IInv == ControlShape /\ Contest /\ \A c \in Call : Local(c)

(* A step of c changes no file but its own paths, and writes in its name.     *)
FileEffect(c) ==
  \A f \in File : file'[f] # file[f] =>
    /\ \/ f \in {TraceOut[c], ResultOut[c]}
       \/ pc[c] \in Engaged \ {"collect"} /\ f = AuxOut(c, kind[c])
    /\ file'[f] = Absent \/ file'[f].by = c

(* What a step of c does, and that c itself comes out right.                 *)
Good(c) ==
  /\ ControlShape' /\ ControlFrame(c) /\ Local(c)' /\ FileEffect(c)
  /\ contested \subseteq contested'

-----------------------------------------------------------------------------
(* The own step of a call.                                                 *)

(* The kind of a call is one that is supported.                              *)
LEMMA KindTypes ==
  ASSUME NEW c \in Call, NEW k \in KindsOf[c]
  PROVE  k \in SupportedRunbookKinds /\ k # Absent
  BY RunbookAssumption

(* Nothing that is there is absent.                                         *)
LEMMA Present ==
  Absent \notin Statuses /\ Absent # "passed" /\ Absent \notin File /\ Absent \notin Written
  BY RunbookAssumption DEF Statuses

(* An admission keeps what is known of its call.                            *)
LEMMA AdmitGood ==
  ASSUME IInv, NEW c \in Call, Admit(c)
  PROVE  Good(c)
  <1>1. PICK k \in KindsOf[c] :
          /\ k = "heimserver-service-gate" => file[AssessmentOut[c]] = Absent
          /\ kind' = [kind EXCEPT ![c] = k]
          /\ Goto(c, FirstPhase(k))
          /\ contested' = contested \cup {{c, d} : d \in Peers(c, k)}
    BY DEF Admit
  <1>2. /\ pc[c] = "start" /\ file[ResultOut[c]] = Absent /\ file[TraceOut[c]] = Absent
        /\ UNCHANGED <<verdict, named, tracked, owed, stuck, temp, file>>
    BY DEF Admit, handlerVars
  <1>3. k \in SupportedRunbookKinds /\ k # Absent
    BY <1>1, KindTypes
  <1>4. FirstPhase(k) \in PhasesOf(k) /\ FirstPhase(k) \in Working
    BY <1>3, Sets DEF FirstPhase, PhasesOf, SupportedRunbookKinds, CheckKinds
  <1>5. FirstPhase(k) = "collect" \/ AuxOut(c, k) = Absent \/ file[AuxOut(c, k)] = Absent
    BY <1>1, <1>3 DEF FirstPhase, AuxOut, SupportedRunbookKinds, CheckKinds
  <1>6. /\ pc'[c] = FirstPhase(k) /\ kind'[c] = k /\ pc' \in [Call -> Phases]
        /\ kind' \in [Call -> SupportedRunbookKinds \cup {Absent}]
        /\ \A d \in Call \ {c} : pc'[d] = pc[d] /\ kind'[d] = kind[d]
    BY <1>1, <1>3, <1>4, Sets DEF IInv, ControlShape, Goto
  <1>7. ControlShape' /\ ControlFrame(c) /\ contested \subseteq contested'
    <2>1. {{c, d} : d \in Peers(c, k)} \subseteq SUBSET Call
      BY DEF Peers
    <2>2. contested' \subseteq SUBSET Call
      BY <1>1, <2>1 DEF IInv, ControlShape
    <2>3. QED
      BY <1>1, <1>2, <1>6, <2>2 DEF IInv, ControlShape, ControlFrame
  <1>8. Fits(c) /\ Temporaries(c) /\ Commit(c) /\ Elsewhere(c)
    BY DEF IInv, Local
  <1>9. Fits(c)' /\ Temporaries(c)'
    <2>1. AuxOut(c, kind[c])' = AuxOut(c, k)
      BY <1>6 DEF AuxOut
    <2>2. pc[c] \in Gone /\ pc'[c] \in Working /\ pc'[c] \notin Gone
      BY <1>2, <1>4, <1>6, Sets DEF Gone
    <2>3. Fits(c)'
      BY <1>1, <1>2, <1>3, <1>4, <1>6, <1>8, <2>1, <2>2, Present DEF Fits, Gone
    <2>4. QED
      BY <1>2, <1>6, <1>8, <2>2, <2>3, Sets DEF Temporaries, Gone
  <1>10. Commit(c)' /\ Elsewhere(c)'
    BY <1>2, <1>4, <1>6, <1>8, Sets DEF Commit, Elsewhere, Gone, PublishPhases, TraceOf, ResultOf
  <1>11. Apart(c)' /\ Named(c)'
    <2>1. AuxOut(c, kind[c])' = AuxOut(c, k)
      BY <1>6 DEF AuxOut
    <2>2. Named(c)'
      BY <1>2, <1>8 DEF Named, Fits, Gone
    <2>3. QED
      BY <1>2, <1>5, <1>6, <2>1, <2>2 DEF Apart
  <1>12. QED
    BY <1>2, <1>7, <1>9, <1>10, <1>11 DEF Good, Local, FileEffect

(* Leaving without an output on disk, or with one nobody can take back.       *)
LEMMA LeaveGood ==
  ASSUME IInv, NEW c \in Call, UNCHANGED <<temp, file>>,
         \/ pc[c] \in Working /\ Leave(c, "raised")
         \/ Refuse(c) \/ Raise(c) \/ Kill(c)
  PROVE  Good(c)
  <1>1. PICK phase \in Gone \ {"start"} :
          /\ Leave(c, phase)
          /\ \/ pc[c] \in Working \cup {"start"} /\ phase \in {"raised", "refused"}
             \/ /\ pc[c] = "cleanup" /\ owed[c] = {}
                /\ phase = IF stuck[c] = {} THEN "raised" ELSE "rollbackFailed"
             \/ pc[c] \notin Gone \cup {"returned"} /\ phase = "killed"
    BY Sets DEF Refuse, Raise, Kill, Gone
  <1>2. Fits(c) /\ Temporaries(c) /\ Commit(c) /\ Elsewhere(c) /\ ControlShape
    BY DEF IInv, Local
  <1>3. /\ ControlShape' /\ ControlFrame(c)
        /\ pc'[c] = phase /\ kind'[c] = Absent /\ verdict'[c] = Absent
        /\ named'[c] = Absent /\ tracked'[c] = FALSE /\ owed'[c] = {}
        /\ stuck' = stuck /\ contested' = contested
    <2>1. temp' \in [Call -> SUBSET Temps] /\ file' \in [File -> Written \cup {Absent}]
      BY <1>2 DEF ControlShape
    <2>2. QED
      BY <1>1, <1>2, <2>1, Leaving
  <1>4. Fits(c)' /\ Temporaries(c)'
    BY <1>1, <1>2, <1>3, Sets DEF Fits, Temporaries, Gone, Statuses, PublishPhases
  <1>5. Commit(c)'
    BY <1>1, <1>2, <1>3, Sets DEF Commit, Fits, Gone, TraceOf
  <1>6. Elsewhere(c)'
    BY <1>1, <1>2, <1>3, Sets DEF Elsewhere, Fits, Gone, PublishPhases
  <1>7. Apart(c)' /\ Named(c)' /\ FileEffect(c)
    BY <1>1, <1>3, Sets DEF Apart, Named, Engaged, FileEffect
  <1>8. QED
    BY <1>3, <1>4, <1>5, <1>6, <1>7 DEF Good, Local

(* A step on the way to the verdict.                                        *)
LEMMA WorkGood ==
  ASSUME IInv, NEW c \in Call, Work(c)
  PROVE  Good(c)
  <1>1. PICK phase \in Working :
          Proceed(c, phase) /\ (pc[c] \in PhasesOf(kind[c]) => phase \in PhasesOf(kind[c]))
    BY DEF Work
  <1>2. /\ pc[c] \in Working /\ (pc[c] = "collect" => file[FactsOut[c]] = Absent)
        /\ UNCHANGED <<kind, verdict, named, tracked, owed, stuck, contested, file>>
    BY <1>1 DEF Work, Proceed, handlerVars
  <1>3. Fits(c) /\ Temporaries(c) /\ Commit(c) /\ Elsewhere(c) /\ Apart(c) /\ ControlShape
    BY DEF IInv, Local
  <1>4. /\ temp' \in [Call -> SUBSET Temps] /\ \A d \in Call \ {c} : temp'[d] = temp[d]
        /\ temp'[c] = temp[c] \/ temp'[c] = {"auxTemp"}
    BY <1>3 DEF Work, ControlShape, Temps
  <1>5. ControlShape' /\ ControlFrame(c) /\ pc'[c] = phase
    <2>1. phase \in Phases /\ Goto(c, phase)
      BY <1>1, Groups DEF Proceed
    <2>2. /\ tracked' \in [Call -> BOOLEAN] /\ owed' \in [Call -> SUBSET DebtSet]
          /\ stuck' \in [Call -> SUBSET DebtSet] /\ file' \in [File -> Written \cup {Absent}]
      BY <1>2, <1>3 DEF ControlShape
    <2>3. QED
      BY <1>2, <1>3, <1>4, <2>1, <2>2, Moving
  <1>6. AuxOut(c, kind[c])' = AuxOut(c, kind[c])
    BY <1>2 DEF AuxOut
  <1>7. Fits(c)' /\ Temporaries(c)'
    <2>1. pc[c] \notin Gone /\ pc'[c] \notin Gone
      BY <1>1, <1>2, <1>5, Groups
    <2>2. /\ ~tracked[c] /\ owed[c] = {} /\ stuck[c] = {}
      BY <1>2, <1>3, Groups DEF Fits
    <2>3. Fits(c)'
      BY <1>1, <1>2, <1>3, <1>5, <1>6, <2>1, <2>2 DEF Fits
    <2>4. Temporaries(c)'
      BY <1>1, <1>2, <1>3, <1>4, <1>5, Groups DEF Temporaries
    <2>5. QED
      BY <2>3, <2>4
  <1>8. Commit(c)' /\ Elsewhere(c)'
    <2>1. TraceOf(c)' = TraceOf(c)
      BY DEF TraceOf
    <2>2. Commit(c)'
      BY <1>1, <1>2, <1>3, <1>5, <2>1, Groups DEF Commit
    <2>3. Elsewhere(c)'
      BY <1>1, <1>2, <1>3, <1>5, Groups DEF Elsewhere
    <2>4. QED
      BY <2>2, <2>3
  <1>9. Apart(c)' /\ Named(c)'
    <2>1. Named(c)'
      BY <1>1, <1>5, Groups DEF Named
    <2>2. CASE pc[c] = "collect"
      <3>1. kind[c] = "server-facts-snapshot"
        BY <1>2, <1>3, <2>2, KindPhases DEF Fits
      <3>2. file[AuxOut(c, kind[c])] = Absent
        BY <1>2, <2>2, <3>1, Paths
      <3>3. QED
        BY <1>2, <1>6, <2>1, <3>2 DEF Apart
    <2>3. CASE pc[c] # "collect"
      <3>1. pc[c] \in Engaged \ {"collect"}
        BY <1>2, <2>3, Groups DEF Engaged
      <3>2. QED
        BY <1>2, <1>3, <1>6, <2>1, <3>1 DEF Apart
    <2>4. QED
      BY <2>2, <2>3
  <1>10. QED
    BY <1>2, <1>5, <1>7, <1>8, <1>9 DEF Good, Local, FileEffect

(* A verdict without an artifact.                                           *)
LEMMA SettleGood ==
  ASSUME IInv, NEW c \in Call, Settle(c)
  PROVE  Good(c)
  <1>1. PICK s \in Statuses : Decide(c, s, Absent) /\ (s = "passed" => pc[c] = "check")
    BY DEF Settle
  <1>2. pc[c] \in Working /\ file' = file /\ (pc[c] = "collect" => file[FactsOut[c]] = Absent)
    BY DEF Settle
  <1>3. Fits(c) /\ Temporaries(c) /\ Commit(c) /\ Elsewhere(c) /\ Apart(c) /\ ControlShape
    BY DEF IInv, Local
  <1>4. /\ temp' \in [Call -> SUBSET Temps] /\ \A d \in Call \ {c} : temp'[d] = temp[d]
        /\ temp'[c] = temp[c] \/ temp'[c] \subseteq {"auxTemp"}
    <2>1. CASE temp' = temp
      BY <1>3, <2>1 DEF ControlShape
    <2>2. ASSUME NEW left \in SUBSET {"auxTemp"}, temp' = [temp EXCEPT ![c] = left]
          PROVE  /\ temp' \in [Call -> SUBSET Temps]
                 /\ \A d \in Call \ {c} : temp'[d] = temp[d]
                 /\ temp'[c] \subseteq {"auxTemp"}
      BY <1>3, <2>2 DEF ControlShape, Temps
    <2>3. QED
      BY <2>1, <2>2 DEF Settle
  <1>5. /\ ControlShape' /\ ControlFrame(c)
        /\ pc'[c] = "build" /\ verdict'[c] = s /\ named'[c] = Absent
        /\ kind' = kind /\ tracked' = tracked /\ owed' = owed /\ stuck' = stuck
        /\ contested' = contested
    <2>1. file' \in [File -> Written \cup {Absent}]
      BY <1>2, <1>3 DEF ControlShape
    <2>2. QED
      BY <1>1, <1>3, <1>4, <2>1, Concluding
  <1>6. AuxOut(c, kind[c])' = AuxOut(c, kind[c])
    BY <1>5 DEF AuxOut
  <1>7. Fits(c)' /\ Temporaries(c)'
    <2>1. pc[c] \notin Gone /\ pc'[c] \notin Gone /\ pc'[c] \notin Working
      BY <1>2, <1>5, Groups
    <2>2. ~tracked[c] /\ owed[c] = {} /\ stuck[c] = {}
      BY <1>2, <1>3, Groups DEF Fits
    <2>3. kind[c] = "repo-sync-gate" => pc[c] # "check"
      BY <1>2, <1>3, KindPhases DEF Fits
    <2>4. Fits(c)'
      BY <1>1, <1>2, <1>3, <1>5, <2>1, <2>2, <2>3 DEF Fits
    <2>5. Temporaries(c)'
      BY <1>2, <1>3, <1>4, <1>5 DEF Temporaries
    <2>6. QED
      BY <2>4, <2>5
  <1>8. Commit(c)' /\ Elsewhere(c)'
    <2>1. TraceOf(c)' = TraceOf(c)
      BY DEF TraceOf
    <2>2. Commit(c)'
      BY <1>2, <1>3, <1>5, <2>1, Groups DEF Commit
    <2>3. Elsewhere(c)'
      BY <1>2, <1>3, <1>5, Groups DEF Elsewhere
    <2>4. QED
      BY <2>2, <2>3
  <1>9. Apart(c)' /\ Named(c)'
    <2>1. Named(c)'
      BY <1>5 DEF Named
    <2>2. CASE pc[c] = "collect"
      <3>1. kind[c] = "server-facts-snapshot"
        BY <1>2, <1>3, <2>2, KindPhases DEF Fits
      <3>2. file[AuxOut(c, kind[c])] = Absent
        BY <1>2, <2>2, <3>1, Paths
      <3>3. QED
        BY <1>2, <1>6, <2>1, <3>2 DEF Apart
    <2>3. CASE pc[c] # "collect"
      <3>1. pc[c] \in Engaged \ {"collect"}
        BY <1>2, <2>3, Groups DEF Engaged
      <3>2. QED
        BY <1>2, <1>3, <1>5, <1>6, <2>1, <3>1 DEF Apart
    <2>4. QED
      BY <2>2, <2>3
  <1>10. QED
    BY <1>2, <1>5, <1>7, <1>8, <1>9 DEF Good, Local, FileEffect

(* A verdict with an artifact, put in place.                                *)
LEMMA DeliverGood ==
  ASSUME IInv, NEW c \in Call, Deliver(c)
  PROVE  Good(c)
  <1>1. PICK s \in Statuses, says \in Statuses \cup {"written"},
             k \in {"server-facts-snapshot", "heimserver-service-gate"} :
          /\ k = "server-facts-snapshot" => pc[c] = "placeFacts"
          /\ k = "heimserver-service-gate" => pc[c] = "placeAssessment" /\ says = s
          /\ Decide(c, s, AuxOut(c, k)) /\ Place(c, AuxOut(c, k), says)
    BY DEF Deliver
  <1> DEFINE out == AuxOut(c, k)
             content == [by |-> c, says |-> says, names |-> Absent]
  <1>2. Fits(c) /\ Temporaries(c) /\ Commit(c) /\ Elsewhere(c) /\ Apart(c) /\ ControlShape
    BY DEF IInv, Local
  <1>3. pc[c] \in Working /\ pc[c] \in Engaged \ {"collect"}
    BY <1>1, Sets DEF Engaged, Gone
  <1>4. kind[c] = k
    BY <1>1, <1>2, <1>3, KindPhases DEF Fits
  <1>5. out \in File /\ out # Absent /\ out \notin {TraceOut[c], ResultOut[c]}
    BY <1>1, Paths
  <1>6. /\ file' = [file EXCEPT ![out] = content]
        /\ file' \in [File -> Written \cup {Absent}]
        /\ file'[out] = content
        /\ content # Absent /\ content.by = c /\ content.says = says
        /\ \A f \in File : f # out => file'[f] = file[f]
    <2>1. content \in Written /\ content # Absent
      BY <1>1, Present DEF Written
    <2>2. QED
      BY <1>1, <1>2, <1>5, <2>1 DEF Place, ControlShape
  <1> HIDE DEF content
  <1>7. /\ temp' \in [Call -> SUBSET Temps] /\ \A d \in Call \ {c} : temp'[d] = temp[d]
        /\ temp'[c] = {}
    BY <1>1, <1>2 DEF Place, ControlShape
  <1>8. /\ ControlShape' /\ ControlFrame(c)
        /\ pc'[c] = "build" /\ verdict'[c] = s /\ named'[c] = out
        /\ kind' = kind /\ tracked' = tracked /\ owed' = owed /\ stuck' = stuck
        /\ contested' = contested
    BY <1>1, <1>2, <1>5, <1>6, <1>7, Concluding
  <1>9. AuxOut(c, kind[c])' = out
    BY <1>4, <1>8 DEF AuxOut
  <1>10. Fits(c)' /\ Temporaries(c)'
    <2>1. pc[c] \notin Gone /\ pc'[c] \notin Gone /\ pc'[c] \notin Working
      BY <1>3, <1>8, Groups
    <2>2. ~tracked[c] /\ owed[c] = {} /\ stuck[c] = {}
      BY <1>2, <1>3, Groups DEF Fits
    <2>3. kind[c] # "repo-sync-gate"
      BY <1>1, <1>4
    <2>4. Fits(c)'
      BY <1>1, <1>2, <1>8, <1>9, <2>1, <2>2, <2>3 DEF Fits
    <2>5. Temporaries(c)'
      BY <1>7, <1>8 DEF Temporaries
    <2>6. QED
      BY <2>4, <2>5
  <1>11. Commit(c)' /\ Elsewhere(c)'
    <2>1. TraceOf(c)' = TraceOf(c)
      BY DEF TraceOf
    <2>2. file'[TraceOut[c]] = file[TraceOut[c]] /\ file'[ResultOut[c]] = file[ResultOut[c]]
      BY <1>5, <1>6, Paths
    <2>3. Commit(c)'
      BY <1>2, <1>3, <1>8, <2>1, <2>2, Groups DEF Commit
    <2>4. Elsewhere(c)'
      BY <1>2, <1>3, <1>6, <1>8, Groups DEF Elsewhere
    <2>5. QED
      BY <2>3, <2>4
  <1>12. Apart(c)' /\ Named(c)'
    <2>1. Apart(c)'
      BY <1>6, <1>9 DEF Apart
    <2>2. Named(c)'
      BY <1>1, <1>4, <1>6, <1>8, <1>5 DEF Named
    <2>3. QED
      BY <2>1, <2>2
  <1>13. FileEffect(c)
    BY <1>3, <1>4, <1>6 DEF FileEffect
  <1>14. QED
    BY <1>8, <1>10, <1>11, <1>12, <1>13 DEF Good, Local

(* An exception nobody turns into a status.                                 *)
LEMMA UnexpectedGood ==
  ASSUME IInv, NEW c \in Call, Unexpected(c)
  PROVE  Good(c)
  <1>1. PICK phase \in {"raised", "rollbackFailed"} :
          /\ Leave(c, phase)
          /\ file' = [file EXCEPT ![AssessmentOut[c]] = Absent] \/ file' = file
    BY DEF Unexpected
  <1>2. Fits(c) /\ Temporaries(c) /\ Commit(c) /\ Elsewhere(c) /\ ControlShape
    BY DEF IInv, Local
  <1>3. pc[c] \in {"load", "derive", "writeAssessment", "recheck", "placeAssessment"}
    BY DEF Unexpected
  <1>4. pc[c] \in Working /\ pc[c] \in Engaged \ {"collect"}
    BY <1>3, Sets DEF Engaged, Gone
  <1>5. AuxOut(c, kind[c]) = AssessmentOut[c]
    BY <1>2, <1>3, <1>4, KindPhases, Paths DEF Fits
  <1>6. AssessmentOut[c] \in File /\ AssessmentOut[c] \notin {TraceOut[c], ResultOut[c]}
    BY <1>5, Paths
  <1>7. /\ file' \in [File -> Written \cup {Absent}]
        /\ \A f \in File : file'[f] # file[f] => f = AssessmentOut[c] /\ file'[f] = Absent
    BY <1>1, <1>2, <1>6 DEF ControlShape
  <1>8. /\ temp' \in [Call -> SUBSET Temps] /\ \A d \in Call \ {c} : temp'[d] = temp[d]
        /\ temp'[c] \subseteq temp[c]
    <2>1. PICK left \in SUBSET temp[c] : temp' = [temp EXCEPT ![c] = left]
      BY DEF Unexpected
    <2>2. QED
      BY <1>2, <2>1 DEF ControlShape
  <1>9. /\ ControlShape' /\ ControlFrame(c)
        /\ pc'[c] = phase /\ kind'[c] = Absent /\ verdict'[c] = Absent
        /\ named'[c] = Absent /\ tracked'[c] = FALSE /\ owed'[c] = {}
        /\ stuck' = stuck /\ contested' = contested
    <2>1. phase \in Gone
      BY DEF Gone
    <2>2. QED
      BY <1>1, <1>2, <1>7, <1>8, <2>1, Leaving
  <1>10. Fits(c)' /\ Temporaries(c)'
    <2>1. pc'[c] \in Gone /\ pc'[c] \notin Working
      BY <1>9, Sets DEF Gone
    <2>2. stuck[c] = {} /\ temp[c] \subseteq {"auxTemp"}
      BY <1>2, <1>4, Groups DEF Fits, Temporaries
    <2>3. Fits(c)'
      BY <1>9, <2>1, <2>2, Present DEF Fits
    <2>4. Temporaries(c)'
      BY <1>8, <1>9, <2>1, <2>2 DEF Temporaries
    <2>5. QED
      BY <2>3, <2>4
  <1>11. Commit(c)' /\ Elsewhere(c)'
    <2>1. file'[TraceOut[c]] = file[TraceOut[c]] /\ file'[ResultOut[c]] = file[ResultOut[c]]
      BY <1>6, <1>7, Paths
    <2>2. Commit(c)'
      BY <1>2, <1>4, <1>9, <2>1, Groups DEF Commit
    <2>3. Elsewhere(c)'
      BY <1>2, <1>4, <1>7, Groups DEF Elsewhere
    <2>4. QED
      BY <2>2, <2>3
  <1>12. Apart(c)' /\ Named(c)'
    BY <1>9, Sets DEF Apart, Named, Engaged, Gone, PublishPhases
  <1>13. FileEffect(c)
    BY <1>4, <1>5, <1>7 DEF FileEffect
  <1>14. QED
    BY <1>9, <1>10, <1>11, <1>12, <1>13 DEF Good, Local

(* From the verdict on.                                                     *)
LEMMA BuildGood ==
  ASSUME IInv, NEW c \in Call, BuildResult(c)
  PROVE  Good(c)
  <1>1. Fits(c) /\ Temporaries(c) /\ Commit(c) /\ Elsewhere(c) /\ Apart(c) /\ Named(c)
        /\ ControlShape
    BY DEF IInv, Local
  <1>2. /\ pc[c] = "build" /\ Goto(c, "trace")
        /\ UNCHANGED <<kind, verdict, named, owed, stuck, temp, file, contested>>
    BY DEF BuildResult
  <1>3. /\ tracked' \in [Call -> BOOLEAN] /\ \A d \in Call \ {c} : tracked'[d] = tracked[d]
        /\ tracked'[c] <=> named[c] # Absent /\ file[named[c]] # Absent
    BY <1>1 DEF BuildResult, ControlShape
  <1>4. "trace" \in PublishPhases
    BY DEF PublishPhases
  <1>5. ControlShape' /\ ControlFrame(c) /\ pc'[c] = "trace"
    <2>1. "trace" \in Phases
      BY <1>4, Groups
    <2>2. /\ owed' \in [Call -> SUBSET DebtSet] /\ stuck' \in [Call -> SUBSET DebtSet]
          /\ file' \in [File -> Written \cup {Absent}] /\ temp' \in [Call -> SUBSET Temps]
      BY <1>1, <1>2 DEF ControlShape
    <2>3. QED
      BY <1>1, <1>2, <1>3, <2>1, <2>2, Moving
  <1>6. AuxOut(c, kind[c])' = AuxOut(c, kind[c])
    BY <1>2 DEF AuxOut
  <1>7. Fits(c)' /\ Temporaries(c)'
    <2>1. /\ pc[c] \notin Gone /\ pc[c] \notin Working
          /\ pc'[c] \notin Gone /\ pc'[c] \notin Working
      BY <1>2, <1>4, <1>5, Groups
    <2>2. owed[c] = {} /\ stuck[c] = {}
      BY <1>1, <1>2 DEF Fits
    <2>3. Fits(c)'
      BY <1>1, <1>2, <1>3, <1>4, <1>5, <1>6, <2>1, <2>2 DEF Fits
    <2>4. Temporaries(c)'
      BY <1>5, <2>1 DEF Temporaries
    <2>5. QED
      BY <2>3, <2>4
  <1>8. Commit(c)' /\ Elsewhere(c)'
    <2>1. Commit(c)'
      BY <1>1, <1>2, <1>5 DEF Commit
    <2>2. Elsewhere(c)'
      BY <1>1, <1>2, <1>3, <1>4, <1>5, Present DEF Elsewhere
    <2>3. QED
      BY <2>1, <2>2
  <1>9. Apart(c)' /\ Named(c)'
    <2>1. pc[c] \in Engaged \ {"collect"}
      BY <1>2, Groups DEF Engaged
    <2>2. Apart(c)'
      BY <1>1, <1>2, <1>6, <2>1 DEF Apart
    <2>3. Named(c)'
      BY <1>1, <1>2 DEF Named
    <2>4. QED
      BY <2>2, <2>3
  <1>10. QED
    BY <1>2, <1>5, <1>7, <1>8, <1>9 DEF Good, Local, FileEffect

(* Temporary files of the commit.                                           *)
LEMMA WritesGood ==
  ASSUME IInv, NEW c \in Call, WriteTrace(c) \/ WriteResult(c)
  PROVE  Good(c)
  <1>1. Fits(c) /\ Commit(c) /\ Elsewhere(c) /\ Apart(c) /\ Named(c) /\ ControlShape
    BY DEF IInv, Local
  <1>2. PICK phase \in {"result", "placeTrace"}, t \in {"traceTemp", "resultTemp"} :
          Goto(c, phase) /\ temp' = [temp EXCEPT ![c] = @ \cup {t}]
    BY DEF WriteTrace, WriteResult
  <1>3. /\ pc[c] \in {"trace", "result"}
        /\ UNCHANGED <<kind, verdict, named, tracked, owed, stuck, file, contested>>
    BY DEF WriteTrace, WriteResult, publishVars
  <1>4. pc[c] \in PublishPhases /\ phase \in PublishPhases
    BY <1>2, <1>3 DEF PublishPhases
  <1>5. temp' \in [Call -> SUBSET Temps] /\ \A d \in Call \ {c} : temp'[d] = temp[d]
    BY <1>1, <1>2 DEF ControlShape, Temps
  <1>6. ControlShape' /\ ControlFrame(c) /\ pc'[c] = phase
    <2>1. phase \in Phases
      BY <1>4, Groups
    <2>2. /\ owed' \in [Call -> SUBSET DebtSet] /\ stuck' \in [Call -> SUBSET DebtSet]
          /\ file' \in [File -> Written \cup {Absent}] /\ tracked' \in [Call -> BOOLEAN]
      BY <1>1, <1>3 DEF ControlShape
    <2>3. QED
      BY <1>1, <1>2, <1>3, <1>5, <2>1, <2>2, Moving
  <1>7. AuxOut(c, kind[c])' = AuxOut(c, kind[c])
    BY <1>3 DEF AuxOut
  <1>8. Fits(c)' /\ Temporaries(c)'
    <2>1. /\ pc[c] \notin Gone /\ pc[c] \notin Working
          /\ pc'[c] \notin Gone /\ pc'[c] \notin Working
          /\ pc'[c] \notin {"cleanup", "build", "start", "refused", "raised", "rollbackFailed"}
      BY <1>4, <1>6, Groups DEF Gone
    <2>2. owed[c] = {} /\ stuck[c] = {}
      BY <1>1, <1>3 DEF Fits
    <2>3. Fits(c)'
      BY <1>1, <1>3, <1>4, <1>6, <1>7, <2>1, <2>2 DEF Fits
    <2>4. Temporaries(c)'
      BY <1>6, <2>1 DEF Temporaries
    <2>5. QED
      BY <2>3, <2>4
  <1>9. Commit(c)' /\ Elsewhere(c)'
    <2>1. Commit(c)'
      BY <1>1, <1>2, <1>3, <1>6 DEF Commit
    <2>2. Elsewhere(c)'
      BY <1>1, <1>3, <1>4, <1>6 DEF Elsewhere
    <2>3. QED
      BY <2>1, <2>2
  <1>10. Apart(c)' /\ Named(c)'
    <2>1. pc[c] \in Engaged \ {"collect"}
      BY <1>3, <1>4, Groups DEF Engaged
    <2>2. Apart(c)'
      BY <1>1, <1>3, <1>7, <2>1 DEF Apart
    <2>3. Named(c)'
      BY <1>1, <1>3, <1>4 DEF Named
    <2>4. QED
      BY <2>2, <2>3
  <1>11. QED
    BY <1>3, <1>6, <1>8, <1>9, <1>10 DEF Good, Local, FileEffect

(* The trace goes to its path.                                              *)
LEMMA PlaceTraceGood ==
  ASSUME IInv, NEW c \in Call, PlaceTrace(c)
  PROVE  Good(c)
  <1>1. Fits(c) /\ Commit(c) /\ Elsewhere(c) /\ Apart(c) /\ Named(c) /\ ControlShape
    BY DEF IInv, Local
  <1>2. /\ pc[c] = "placeTrace" /\ Goto(c, "placeResult")
        /\ UNCHANGED <<kind, verdict, named, tracked, owed, stuck, contested>>
        /\ temp' = [temp EXCEPT ![c] = @ \ {"traceTemp"}]
    BY DEF PlaceTrace, Replace, publishVars
  <1>3. /\ file' \in [File -> Written \cup {Absent}]
        /\ file'[TraceOut[c]] = TraceOf(c)
        /\ \A f \in File : f # TraceOut[c] => file'[f] = file[f]
    <2>1. TraceOf(c) \in Written
      BY DEF TraceOf, Written
    <2>2. QED
      BY <1>1, <2>1, Paths DEF PlaceTrace, Replace, ControlShape
  <1>4. pc[c] \in PublishPhases /\ "placeResult" \in PublishPhases
    BY <1>2 DEF PublishPhases
  <1>5. temp' \in [Call -> SUBSET Temps] /\ \A d \in Call \ {c} : temp'[d] = temp[d]
    BY <1>1, <1>2 DEF ControlShape
  <1>6. ControlShape' /\ ControlFrame(c) /\ pc'[c] = "placeResult"
    <2>1. "placeResult" \in Phases
      BY <1>4, Groups
    <2>2. /\ owed' \in [Call -> SUBSET DebtSet] /\ stuck' \in [Call -> SUBSET DebtSet]
          /\ tracked' \in [Call -> BOOLEAN]
      BY <1>1, <1>2 DEF ControlShape
    <2>3. QED
      BY <1>1, <1>2, <1>3, <1>5, <2>1, <2>2, Moving
  <1>7. AuxOut(c, kind[c])' = AuxOut(c, kind[c])
    BY <1>2 DEF AuxOut
  <1>8. Fits(c)' /\ Temporaries(c)'
    <2>1. /\ pc[c] \notin Gone /\ pc[c] \notin Working
          /\ pc'[c] \notin Gone /\ pc'[c] \notin Working
      BY <1>4, <1>6, Groups
    <2>2. owed[c] = {} /\ stuck[c] = {}
      BY <1>1, <1>2 DEF Fits
    <2>3. Fits(c)'
      BY <1>1, <1>2, <1>4, <1>6, <1>7, <2>1, <2>2 DEF Fits
    <2>4. Temporaries(c)'
      BY <1>6, <2>1 DEF Temporaries
    <2>5. QED
      BY <2>3, <2>4
  <1>9. Commit(c)' /\ Elsewhere(c)'
    <2>1. TraceOf(c)' = TraceOf(c)
      BY DEF TraceOf
    <2>2. Commit(c)'
      BY <1>1, <1>2, <1>3, <1>6, <2>1, Paths DEF Commit
    <2>3. Elsewhere(c)'
      BY <1>1, <1>2, <1>3, <1>4, <1>6 DEF Elsewhere
    <2>4. QED
      BY <2>2, <2>3
  <1>10. \A k : AuxOut(c, k) # Absent => AuxOut(c, k) \in File /\ AuxOut(c, k) # TraceOut[c]
    BY Paths
  <1>11. Apart(c)' /\ Named(c)'
    <2>1. pc[c] \in Engaged \ {"collect"}
      BY <1>2, <1>4, Groups DEF Engaged
    <2>2. Apart(c)'
      BY <1>1, <1>2, <1>3, <1>7, <1>10, <2>1 DEF Apart
    <2>3. named[c] # Absent => file'[named[c]] = file[named[c]]
      BY <1>1, <1>3, <1>10 DEF Fits
    <2>4. Named(c)'
      BY <1>1, <1>2, <1>4, <2>3 DEF Named
    <2>5. QED
      BY <2>2, <2>4
  <1>12. FileEffect(c)
    BY <1>3 DEF FileEffect, TraceOf
  <1>13. QED
    BY <1>2, <1>6, <1>8, <1>9, <1>11, <1>12 DEF Good, Local

(* And then the result.                                                     *)
LEMMA PlaceResultGood ==
  ASSUME IInv, NEW c \in Call, PlaceResult(c)
  PROVE  Good(c)
  <1>1. Fits(c) /\ Commit(c) /\ Elsewhere(c) /\ Apart(c) /\ Named(c) /\ ControlShape
    BY DEF IInv, Local
  <1>2. /\ pc[c] = "placeResult" /\ Goto(c, "returned")
        /\ UNCHANGED <<kind, verdict, named, tracked, owed, stuck, contested>>
        /\ temp' = [temp EXCEPT ![c] = @ \ {"resultTemp"}]
    BY DEF PlaceResult, Replace, publishVars
  <1>3. pc[c] \in PublishPhases /\ pc[c] \notin Gone /\ pc[c] \notin Working
    BY <1>2, Groups DEF PublishPhases
  <1>4. /\ file' \in [File -> Written \cup {Absent}]
        /\ file'[ResultOut[c]] = ResultOf(c)
        /\ \A f \in File : f # ResultOut[c] => file'[f] = file[f]
    <2>1. verdict[c] \in Statuses /\ named[c] \in File \cup {Absent}
      BY <1>1, <1>3 DEF Fits, ControlShape
    <2>2. ResultOf(c) \in Written
      BY <2>1 DEF ResultOf, Written
    <2>3. QED
      BY <1>1, <2>2, Paths DEF PlaceResult, Replace, ControlShape
  <1>5. temp' \in [Call -> SUBSET Temps] /\ \A d \in Call \ {c} : temp'[d] = temp[d]
    BY <1>1, <1>2 DEF ControlShape
  <1>6. ControlShape' /\ ControlFrame(c) /\ pc'[c] = "returned"
    <2>1. "returned" \in Phases
      BY Groups
    <2>2. /\ owed' \in [Call -> SUBSET DebtSet] /\ stuck' \in [Call -> SUBSET DebtSet]
          /\ tracked' \in [Call -> BOOLEAN]
      BY <1>1, <1>2 DEF ControlShape
    <2>3. QED
      BY <1>1, <1>2, <1>4, <1>5, <2>1, <2>2, Moving
  <1>7. AuxOut(c, kind[c])' = AuxOut(c, kind[c])
    BY <1>2 DEF AuxOut
  <1>8. Fits(c)' /\ Temporaries(c)'
    <2>1. pc'[c] \notin Gone /\ pc'[c] \notin Working
      BY <1>6, Groups
    <2>2. owed[c] = {} /\ stuck[c] = {}
      BY <1>1, <1>2 DEF Fits
    <2>3. Fits(c)'
      BY <1>1, <1>2, <1>3, <1>6, <1>7, <2>1, <2>2 DEF Fits
    <2>4. Temporaries(c)'
      BY <1>6, <2>1 DEF Temporaries
    <2>5. QED
      BY <2>3, <2>4
  <1>9. Commit(c)' /\ Elsewhere(c)'
    <2>1. TraceOf(c)' = TraceOf(c) /\ ResultOf(c)' = ResultOf(c)
      BY <1>2 DEF TraceOf, ResultOf
    <2>2. file'[TraceOut[c]] = file[TraceOut[c]]
      BY <1>4, Paths
    <2>3. Commit(c)'
      BY <1>1, <1>2, <1>4, <1>6, <2>1, <2>2 DEF Commit
    <2>4. Elsewhere(c)'
      BY <1>1, <1>2, <1>3, <1>4, <1>6 DEF Elsewhere
    <2>5. QED
      BY <2>3, <2>4
  <1>10. \A k : AuxOut(c, k) # Absent => AuxOut(c, k) \in File /\ AuxOut(c, k) # ResultOut[c]
    BY Paths
  <1>11. Apart(c)' /\ Named(c)'
    <2>1. Apart(c)'
      BY <1>6 DEF Apart, Engaged
    <2>2. named[c] # Absent => file'[named[c]] = file[named[c]]
      BY <1>1, <1>4, <1>10 DEF Fits
    <2>3. Named(c)'
      BY <1>1, <1>2, <1>3, <2>2 DEF Named
    <2>4. QED
      BY <2>1, <2>3
  <1>12. FileEffect(c)
    BY <1>4 DEF FileEffect, ResultOf
  <1>13. QED
    BY <1>2, <1>6, <1>8, <1>9, <1>11, <1>12 DEF Good, Local

(* A step of the commit fails: what there is becomes a debt.                 *)
LEMMA PublishFailsGood ==
  ASSUME IInv, NEW c \in Call, PublishFails(c)
  PROVE  Good(c)
  <1>1. Fits(c) /\ Commit(c) /\ Elsewhere(c) /\ Apart(c) /\ ControlShape
    BY DEF IInv, Local
  <1>2. /\ pc[c] \in PublishPhases /\ Goto(c, "cleanup")
        /\ UNCHANGED <<kind, verdict, named, tracked, stuck, file, contested>>
    BY Sets DEF PublishFails, publishVars
  <1>3. PICK new \in SUBSET Temps :
          /\ temp' = [temp EXCEPT ![c] = @ \cup new]
          /\ owed' = [owed EXCEPT ![c] = DebtsOf(c, (temp[c] \cup new) \ {"auxTemp"})]
    BY <1>2, Sets DEF PublishFails, Temps
  <1> DEFINE left == (temp[c] \cup new) \ {"auxTemp"}
  <1>4. left \subseteq {"traceTemp", "resultTemp"}
    BY <1>1, <1>3 DEF ControlShape, Temps
  <1>5. /\ left \subseteq DebtsOf(c, left) /\ DebtsOf(c, left) \subseteq DebtSet
        /\ pc[c] = "placeResult" => "trace" \in DebtsOf(c, left)
        /\ "aux" \in DebtsOf(c, left) <=> tracked[c]
    BY <1>1, <1>4 DEF DebtsOf, DebtSet, ControlShape
  <1>6. /\ temp' \in [Call -> SUBSET Temps] /\ temp'[c] = temp[c] \cup new
        /\ \A d \in Call \ {c} : temp'[d] = temp[d]
    BY <1>1, <1>3 DEF ControlShape
  <1>7. /\ owed' \in [Call -> SUBSET DebtSet] /\ owed'[c] = DebtsOf(c, left)
        /\ \A d \in Call \ {c} : owed'[d] = owed[d]
    BY <1>1, <1>3, <1>5 DEF ControlShape
  <1> HIDE DEF left
  <1>8. ControlShape' /\ ControlFrame(c) /\ pc'[c] = "cleanup"
    <2>1. "cleanup" \in Phases
      BY Groups
    <2>2. /\ stuck' \in [Call -> SUBSET DebtSet] /\ tracked' \in [Call -> BOOLEAN]
          /\ file' \in [File -> Written \cup {Absent}]
      BY <1>1, <1>2 DEF ControlShape
    <2>3. QED
      BY <1>1, <1>2, <1>6, <1>7, <2>1, <2>2, Moving
  <1>9. AuxOut(c, kind[c])' = AuxOut(c, kind[c])
    BY <1>2 DEF AuxOut
  <1>10. /\ pc[c] \notin Gone /\ pc[c] \notin Working /\ pc[c] \notin {"cleanup", "returned"}
         /\ pc'[c] \notin Gone /\ pc'[c] \notin Working
    BY <1>2, <1>8, Groups
  <1>11. stuck[c] = {}
    BY <1>1, <1>10 DEF Fits, Gone
  <1>12. Fits(c)' /\ Temporaries(c)'
    <2>1. Fits(c)'
      BY <1>1, <1>2, <1>5, <1>7, <1>8, <1>9, <1>10, <1>11 DEF Fits
    <2>2. Temporaries(c)'
      BY <1>4, <1>5, <1>6, <1>7, <1>8, <1>10 DEF Temporaries, left
    <2>3. QED
      BY <2>1, <2>2
  <1>13. Commit(c)' /\ Elsewhere(c)'
    <2>1. TraceOf(c)' = TraceOf(c)
      BY DEF TraceOf
    <2>2. pc[c] # "killed" /\ pc[c] # "rollbackFailed" /\ pc[c] # "build"
      BY <1>2, Groups DEF Gone
    <2>3. Commit(c)'
      BY <1>1, <1>2, <1>5, <1>7, <1>8, <1>10, <2>1, <2>2 DEF Commit
    <2>4. Elsewhere(c)'
      BY <1>1, <1>2, <1>5, <1>7, <1>8, <1>10, <2>2 DEF Elsewhere
    <2>5. QED
      BY <2>3, <2>4
  <1>14. Apart(c)' /\ Named(c)'
    <2>1. pc[c] \in Engaged \ {"collect"}
      BY <1>2, <1>10, Groups, Sets DEF Engaged, PublishPhases
    <2>2. Apart(c)'
      BY <1>1, <1>2, <1>9, <2>1 DEF Apart
    <2>3. Named(c)'
      BY <1>8, Groups DEF Named
    <2>4. QED
      BY <2>2, <2>3
  <1>15. QED
    BY <1>2, <1>8, <1>12, <1>13, <1>14 DEF Good, Local, FileEffect

(* The debt that the handler turns to next is one it has.                    *)
LEMMA NextDebt ==
  ASSUME NEW debts \in SUBSET DebtSet, debts # {}
  PROVE  LET i == CHOOSE i \in 1..4 : /\ Debts[i] \in debts
                                      /\ \A j \in 1..(i - 1) : Debts[j] \notin debts
         IN Debts[i] \in debts
  <1>1. Debts[1] = "traceTemp" /\ Debts[2] = "resultTemp" /\ Debts[3] = "trace" /\ Debts[4] = "aux"
    BY DEF Debts
  <1>2. \E i \in 1..4 : Debts[i] \in debts /\ \A j \in 1..(i - 1) : Debts[j] \notin debts
    <2>1. CASE "traceTemp" \in debts
      <3>1. 1 \in 1..4 /\ \A j \in 1..(1 - 1) : Debts[j] \notin debts
        OBVIOUS
      <3>2. QED
        BY <1>1, <2>1, <3>1
    <2>2. CASE "traceTemp" \notin debts /\ "resultTemp" \in debts
      <3>1. 2 \in 1..4 /\ \A j \in 1..(2 - 1) : j = 1
        OBVIOUS
      <3>2. QED
        BY <1>1, <2>2, <3>1
    <2>3. CASE "traceTemp" \notin debts /\ "resultTemp" \notin debts /\ "trace" \in debts
      <3>1. 3 \in 1..4 /\ \A j \in 1..(3 - 1) : j = 1 \/ j = 2
        OBVIOUS
      <3>2. QED
        BY <1>1, <2>3, <3>1
    <2>4. CASE "traceTemp" \notin debts /\ "resultTemp" \notin debts /\ "trace" \notin debts
      <3>1. 4 \in 1..4 /\ \A j \in 1..(4 - 1) : j = 1 \/ j = 2 \/ j = 3
        OBVIOUS
      <3>2. "aux" \in debts
        BY <2>4 DEF DebtSet
      <3>3. QED
        BY <1>1, <2>4, <3>1, <3>2
    <2>5. QED
      BY <2>1, <2>2, <2>3, <2>4
  <1>3. QED
    BY <1>2

(* One unlink of the handler.                                               *)
LEMMA CleanUpGood ==
  ASSUME IInv, NEW c \in Call, CleanUp(c)
  PROVE  Good(c)
  <1>1. Fits(c) /\ Temporaries(c) /\ Commit(c) /\ Elsewhere(c) /\ Apart(c) /\ ControlShape
    BY DEF IInv, Local
  <1>2. /\ pc[c] = "cleanup" /\ owed[c] # {} /\ owed[c] \in SUBSET DebtSet
        /\ UNCHANGED <<pc, kind, verdict, named, tracked, contested>>
    BY <1>1 DEF CleanUp, ControlShape
  <1>3. PICK debt \in owed[c] :
          /\ owed' = [owed EXCEPT ![c] = @ \ {debt}]
          /\ \/ debt \in Temps /\ temp' = [temp EXCEPT ![c] = @ \ {debt}]
                /\ UNCHANGED <<file, stuck>>
             \/ /\ debt \notin Temps
                /\ file' = [file EXCEPT ![PathOf(c, debt)] = Absent]
                /\ UNCHANGED <<temp, stuck>>
             \/ /\ stuck' = [stuck EXCEPT ![c] = @ \cup {debt}]
                /\ UNCHANGED <<temp, file>>
    BY <1>2, NextDebt DEF CleanUp
  <1>4. debt \in DebtSet /\ (debt \notin Temps <=> debt \in {"trace", "aux"})
    BY <1>2 DEF DebtSet, Temps
  <1>5. pc[c] \notin Gone /\ pc[c] \notin Working /\ pc[c] \in Engaged \ {"collect"}
        /\ pc[c] \notin PublishPhases
    BY <1>2, Groups, Sets DEF Engaged
  <1>6. "aux" \in owed[c] => tracked[c] /\ named[c] # Absent /\ named[c] = AuxOut(c, kind[c])
    BY <1>1, <1>5 DEF Fits
  <1>7. /\ file' \in [File -> Written \cup {Absent}]
        /\ \A f \in File : file'[f] # file[f] =>
             /\ file'[f] = Absent /\ debt \in {"trace", "aux"}
             /\ debt = "trace" => f = TraceOut[c]
             /\ debt = "aux" => f = named[c] /\ f = AuxOut(c, kind[c])
    BY <1>1, <1>3, <1>4, <1>6 DEF ControlShape, PathOf
  <1>8. /\ temp' \in [Call -> SUBSET Temps] /\ owed' \in [Call -> SUBSET DebtSet]
        /\ stuck' \in [Call -> SUBSET DebtSet]
        /\ \A d \in Call \ {c} : /\ temp'[d] = temp[d] /\ owed'[d] = owed[d]
                                 /\ stuck'[d] = stuck[d]
        /\ owed'[c] = owed[c] \ {debt}
    BY <1>1, <1>3, <1>4 DEF ControlShape
  <1>9. \/ /\ debt \in Temps /\ temp'[c] = temp[c] \ {debt} /\ stuck'[c] = stuck[c]
        \/ /\ debt \notin Temps /\ temp'[c] = temp[c] /\ stuck'[c] = stuck[c]
           /\ \A f \in File : f = PathOf(c, debt) => file'[f] = Absent
        \/ temp'[c] = temp[c] /\ stuck'[c] = stuck[c] \cup {debt}
    BY <1>1, <1>3 DEF ControlShape
  <1>10. ControlShape' /\ ControlFrame(c)
    BY <1>1, <1>2, <1>7, <1>8 DEF ControlShape, ControlFrame
  <1>11. AuxOut(c, kind[c])' = AuxOut(c, kind[c])
    BY <1>2 DEF AuxOut
  <1>12. Fits(c)' /\ Temporaries(c)'
    <2>1. owed'[c] \cup stuck'[c] \subseteq owed[c] \cup stuck[c]
      BY <1>3, <1>8, <1>9
    <2>2. Fits(c)'
      BY <1>1, <1>2, <1>5, <1>11, <2>1 DEF Fits
    <2>3. temp'[c] \subseteq owed'[c] \cup stuck'[c] \cup {"auxTemp"}
      BY <1>1, <1>2, <1>8, <1>9 DEF Temporaries, ControlShape
    <2>4. Temporaries(c)'
      BY <1>2, <1>5, <2>3, Groups DEF Temporaries, Gone
    <2>5. QED
      BY <2>2, <2>4
  <1>13. Commit(c)' /\ Elsewhere(c)'
    <2>1. TraceOf(c)' = TraceOf(c)
      BY DEF TraceOf
    <2>2. TraceOut[c] \in File /\ ResultOut[c] \in File /\ ResultOut[c] # TraceOut[c]
          /\ \A k : AuxOut(c, k) # Absent => AuxOut(c, k) \notin {ResultOut[c], TraceOut[c]}
      BY Paths
    <2>3. file'[ResultOut[c]] = file[ResultOut[c]]
      BY <1>6, <1>7, <1>3, <2>2
    <2>4. file'[TraceOut[c]] # Absent =>
            file'[TraceOut[c]] = file[TraceOut[c]] /\ "trace" \in owed'[c] \cup stuck'[c]
      <3>1. SUFFICES ASSUME file'[TraceOut[c]] # Absent
                     PROVE  /\ file'[TraceOut[c]] = file[TraceOut[c]]
                            /\ "trace" \in owed'[c] \cup stuck'[c]
        OBVIOUS
      <3>2. file'[TraceOut[c]] = file[TraceOut[c]]
        BY <1>7, <2>2, <3>1
      <3>3. "trace" \in owed[c] \cup stuck[c]
        BY <1>1, <1>2, <3>1, <3>2 DEF Commit
      <3>4. CASE debt = "trace"
        BY <1>1, <1>4, <1>9, <2>2, <3>1, <3>2, <3>4 DEF PathOf, ControlShape
      <3>5. CASE debt # "trace"
        <4>1. "trace" \in owed[c] => "trace" \in owed'[c]
          BY <1>8, <3>5
        <4>2. "trace" \in stuck[c] => "trace" \in stuck'[c]
          BY <1>9
        <4>3. QED
          BY <3>2, <3>3, <4>1, <4>2
      <3>6. QED
        BY <3>2, <3>4, <3>5
    <2>5. Commit(c)'
      BY <1>1, <1>2, <2>1, <2>3, <2>4 DEF Commit
    <2>6. ASSUME NEW f \in File \ {ResultOut[c], TraceOut[c]},
                 file'[f] # Absent, file'[f].by = c
          PROVE  f = named'[c] /\ "aux" \in owed'[c] \cup stuck'[c]
      <3>1. file'[f] = file[f]
        BY <1>7, <2>6
      <3>2. f = named[c] /\ "aux" \in owed[c] \cup stuck[c]
        BY <1>1, <1>2, <1>5, <2>6, <3>1 DEF Elsewhere
      <3>3. CASE debt = "aux"
        BY <1>1, <1>2, <1>4, <1>9, <2>6, <3>2, <3>3 DEF PathOf, ControlShape
      <3>4. CASE debt # "aux"
        <4>1. "aux" \in owed[c] => "aux" \in owed'[c]
          BY <1>8, <3>4
        <4>2. "aux" \in stuck[c] => "aux" \in stuck'[c]
          BY <1>9
        <4>3. QED
          BY <1>2, <3>2, <4>1, <4>2
      <3>5. QED
        BY <1>2, <3>2, <3>3, <3>4
    <2>7. Elsewhere(c)'
      BY <1>2, <2>6 DEF Elsewhere
    <2>8. QED
      BY <2>5, <2>7
  <1>14. Apart(c)' /\ Named(c)'
    <2>1. \A f \in File : file'[f] # Absent => file'[f] = file[f]
      BY <1>7
    <2>2. AuxOut(c, kind[c]) \in File \cup {Absent}
      BY Paths
    <2>3. Apart(c)'
      BY <1>1, <1>2, <1>5, <1>11, <2>1, <2>2 DEF Apart
    <2>4. Named(c)'
      BY <1>2, <1>5 DEF Named
    <2>5. QED
      BY <2>3, <2>4
  <1>15. FileEffect(c)
    BY <1>5, <1>7 DEF FileEffect
  <1>16. QED
    BY <1>2, <1>10, <1>12, <1>13, <1>14, <1>15 DEF Good, Local

(* Every step of a call is good.                                            *)
LEMMA StepGood ==
  ASSUME IInv, NEW c \in Call, Step(c) \/ Kill(c)
  PROVE  Good(c)
  <1>1. CASE Admit(c)
    BY <1>1, AdmitGood
  <1>2. CASE Refuse(c) \/ Raise(c) \/ Kill(c)
    <2>1. UNCHANGED <<temp, file>>
      BY <1>2 DEF Refuse, Raise, Kill
    <2>2. QED
      BY <1>2, <2>1, LeaveGood
  <1>3. CASE Evaluate(c)
    <2>1. CASE RefuseFacts(c)
      <3>1. pc[c] \in Working /\ Leave(c, "raised") /\ UNCHANGED <<temp, file>>
        BY <2>1, Sets DEF RefuseFacts
      <3>2. QED
        BY <3>1, LeaveGood
    <2>2. ControlShape
      BY DEF IInv
    <2>3. QED
      BY <1>3, <2>1, <2>2, EvaluateEffects, WorkGood, SettleGood, DeliverGood, UnexpectedGood
  <1>4. CASE Publish(c) /\ ~Raise(c)
    BY <1>4, BuildGood, WritesGood, PlaceTraceGood, PlaceResultGood, PublishFailsGood, CleanUpGood
    DEF Publish
  <1>5. QED
    BY <1>1, <1>2, <1>3, <1>4 DEF Step

-----------------------------------------------------------------------------
(* The other calls.                                                        *)

(* A step of c changes another call's output only where both write.          *)
LEMMA ActsApart ==
  ASSUME IInv, NEW c \in Call, FileEffect(c), NEW f \in File,
         file[f] # Absent, file[f].by # c, file'[f] # file[f]
  PROVE  {c, file[f].by} \in contested
  <1>1. Commit(c) /\ Apart(c)
    BY DEF IInv, Local
  <1>2. CASE f = TraceOut[c]
    BY <1>1, <1>2 DEF Commit, TraceOf
  <1>3. CASE f = ResultOut[c]
    BY <1>1, <1>3 DEF Commit, ResultOf
  <1>4. CASE pc[c] \in Engaged \ {"collect"} /\ f = AuxOut(c, kind[c])
    <2>1. f # Absent
      BY Present
    <2>2. QED
      BY <1>1, <1>4, <2>1 DEF Apart
  <1>5. QED
    BY <1>2, <1>3, <1>4 DEF FileEffect

(* A step of one call keeps what is known of another.                       *)
LEMMA OthersKept ==
  ASSUME IInv, NEW c \in Call, Good(c), NEW d \in Call \ {c}
  PROVE  Local(d)'
  <1>1. /\ Fits(d) /\ Temporaries(d) /\ Commit(d) /\ Elsewhere(d) /\ Apart(d) /\ Named(d)
        /\ FileEffect(c) /\ contested \subseteq contested'
    BY DEF IInv, Local, Good
  <1>2. /\ pc'[d] = pc[d] /\ kind'[d] = kind[d] /\ verdict'[d] = verdict[d]
        /\ named'[d] = named[d] /\ tracked'[d] = tracked[d] /\ temp'[d] = temp[d]
        /\ owed'[d] = owed[d] /\ stuck'[d] = stuck[d]
    BY DEF Good, ControlFrame
  <1>3. AuxOut(d, kind[d])' = AuxOut(d, kind[d])
    BY <1>2 DEF AuxOut
  <1>4. Fits(d)' /\ Temporaries(d)'
    BY <1>1, <1>2, <1>3 DEF Fits, Temporaries
  <1>5. Commit(d)'
    <2>1. TraceOf(d)' = TraceOf(d) /\ ResultOf(d)' = ResultOf(d)
      BY <1>2 DEF TraceOf, ResultOf
    <2>2. file'[TraceOut[d]] = file[TraceOut[d]] /\ file'[ResultOut[d]] = file[ResultOut[d]]
      <3>1. /\ TraceOut[d] \in File /\ ResultOut[d] \in File
            /\ {TraceOut[d], ResultOut[d]} \cap {TraceOut[c], ResultOut[c]} = {}
        BY Paths
      <3>2. AuxOut(c, kind[c]) = Absent \/ AuxOut(c, kind[c]) \notin {TraceOut[d], ResultOut[d]}
        BY Paths
      <3>3. QED
        BY <1>1, <3>1, <3>2, Present DEF FileEffect
    <2>3. QED
      BY <1>1, <1>2, <2>1, <2>2 DEF Commit
  <1>6. Elsewhere(d)'
    <2>1. ASSUME NEW f \in File, file'[f] # Absent, file'[f].by = d
          PROVE  file'[f] = file[f]
      BY <1>1, <2>1 DEF FileEffect
    <2>2. QED
      BY <1>1, <1>2, <2>1 DEF Elsewhere
  <1>7. Apart(d)'
    <2>1. SUFFICES ASSUME pc[d] \in Engaged \ {"collect"}, AuxOut(d, kind[d]) # Absent,
                          file'[AuxOut(d, kind[d])] # Absent,
                          file'[AuxOut(d, kind[d])].by # d
                   PROVE  {d, file'[AuxOut(d, kind[d])].by} \in contested'
      BY <1>2, <1>3 DEF Apart
    <2> DEFINE f == AuxOut(d, kind[d])
    <2>2. f \in File /\ f \notin {TraceOut[c], ResultOut[c]}
      BY <2>1, Paths
    <2>3. CASE file'[f] = file[f]
      BY <1>1, <2>1, <2>3 DEF Apart
    <2>4. CASE file'[f] # file[f]
      <3>1. pc[c] \in Engaged /\ f = AuxOut(c, kind[c]) /\ file'[f].by = c
        BY <1>1, <2>1, <2>2, <2>4 DEF FileEffect
      <3>2. {d, c} \in contested
        BY <2>1, <3>1 DEF IInv, Contest
      <3>3. QED
        BY <1>1, <3>1, <3>2
    <2>5. QED
      BY <2>3, <2>4
  <1>8. Named(d)'
    <2>1. SUFFICES ASSUME pc[d] \in PublishPhases \cup {"build", "returned"},
                          named[d] # Absent, d \notin UNION contested'
                   PROVE  /\ file'[named[d]] # Absent /\ file'[named[d]].by = d
                          /\ kind[d] = "heimserver-service-gate" =>
                               file'[named[d]].says = verdict[d]
      BY <1>2 DEF Named
    <2>2. d \notin UNION contested
      BY <1>1, <2>1
    <2>3. /\ file[named[d]] # Absent /\ file[named[d]].by = d
          /\ kind[d] = "heimserver-service-gate" => file[named[d]].says = verdict[d]
      BY <1>1, <2>1, <2>2 DEF Named
    <2>4. named[d] \in File
      BY <2>1 DEF IInv, ControlShape
    <2>5. CASE file'[named[d]] # file[named[d]]
      <3>1. {c, d} \in contested
        BY <1>1, <2>3, <2>4, <2>5, ActsApart
      <3>2. QED
        BY <2>2, <3>1
    <2>6. QED
      BY <2>3, <2>5
  <1>9. QED
    BY <1>4, <1>5, <1>6, <1>7, <1>8 DEF Local

(* Only an admission engages a call, and it counts the calls it meets.       *)
LEMMA Engaging ==
  ASSUME IInv, NEW c \in Call, Step(c) \/ Kill(c), pc'[c] \in Engaged
  PROVE  \/ pc[c] \in Engaged /\ kind'[c] = kind[c]
         \/ \A d \in Call \ {c} :
              /\ pc[d] \in Engaged
              /\ AuxOut(c, kind'[c]) # Absent /\ AuxOut(c, kind'[c]) = AuxOut(d, kind[d])
              => {c, d} \in contested'
  <1>1. ControlShape
    BY DEF IInv
  <1>2. CASE Admit(c)
    <2>1. PICK k \in KindsOf[c] :
            kind' = [kind EXCEPT ![c] = k]
            /\ contested' = contested \cup {{c, d} : d \in Peers(c, k)}
      BY <1>2 DEF Admit
    <2>2. kind'[c] = k
      BY <1>1, <2>1 DEF ControlShape
    <2>3. \A d \in Call : pc[d] \in Engaged => pc[d] \notin Ended \cup {"start"}
      BY Sets DEF Engaged
    <2>4. QED
      BY <2>1, <2>2, <2>3 DEF Peers
  <1>3. ASSUME NEW phase \in Gone, Leave(c, phase) PROVE FALSE
    BY <1>1, <1>3 DEF Leave, Goto, ControlShape, Engaged
  <1>4. CASE Refuse(c) \/ Raise(c) \/ Kill(c) \/ RefuseFacts(c) \/ Unexpected(c)
    BY <1>3, <1>4 DEF Refuse, Raise, Kill, RefuseFacts, Unexpected, Gone
  <1>5. CASE Work(c) \/ Settle(c)
    <2>1. pc[c] \in Working /\ kind' = kind
      BY <1>5 DEF Work, Settle, Proceed, Decide
    <2>2. QED
      BY <2>1, Groups DEF Engaged
  <1>6. CASE Deliver(c)
    <2>1. pc[c] \in {"placeFacts", "placeAssessment"} /\ kind' = kind
      BY <1>6 DEF Deliver, Decide
    <2>2. QED
      BY <2>1, Sets DEF Engaged, Gone
  <1>7. CASE Publish(c) /\ ~Raise(c)
    <2>1. pc[c] \in PublishPhases \cup {"build", "cleanup"} /\ kind' = kind
      BY <1>7, Sets DEF Publish, BuildResult, WriteTrace, WriteResult, PlaceTrace, PlaceResult,
         PublishFails, CleanUp, Replace, publishVars, PublishPhases
    <2>2. QED
      BY <2>1, Groups DEF Engaged
  <1>8. QED
    BY <1>1, <1>2, <1>4, <1>5, <1>6, <1>7, EvaluateEffects DEF Step

(* And it keeps the record of which calls overlapped.                       *)
LEMMA ContestKept ==
  ASSUME IInv, NEW c \in Call, Step(c) \/ Kill(c), Good(c)
  PROVE  Contest'
  <1>1. contested \subseteq contested' /\ Contest
        /\ \A d \in Call \ {c} : pc'[d] = pc[d] /\ kind'[d] = kind[d]
    BY DEF IInv, Good, ControlFrame
  <1>2. SUFFICES ASSUME NEW x \in Call, NEW y \in Call, x # y,
                        pc'[x] \in Engaged, pc'[y] \in Engaged,
                        AuxOut(x, kind'[x]) # Absent,
                        AuxOut(x, kind'[x]) = AuxOut(y, kind'[y])
                 PROVE  {x, y} \in contested'
    BY DEF Contest, AuxOut
  <1>3. CASE x # c /\ y # c
    BY <1>1, <1>2, <1>3 DEF Contest
  <1>4. CASE x = c
    BY <1>1, <1>2, <1>4, Engaging DEF Contest
  <1>5. CASE y = c
    <2>1. {x, y} = {y, x}
      OBVIOUS
    <2>2. {y, x} \in contested'
      BY <1>1, <1>2, <1>5, Engaging DEF Contest
    <2>3. QED
      BY <2>1, <2>2
  <1>6. QED
    BY <1>3, <1>4, <1>5

-----------------------------------------------------------------------------
(* The invariant.                                                          *)

(* The inductive invariant holds initially.                                 *)
LEMMA InvInit == Init => IInv
  <1> SUFFICES ASSUME Init PROVE IInv
    OBVIOUS
  <1>1. ControlShape
    BY Sets DEF Init, ControlShape, Gone
  <1>2. Contest
    BY DEF Init, Contest, Engaged, Gone
  <1>3. ASSUME NEW c \in Call PROVE Local(c)
    <2>1. "start" \notin Working /\ "start" \notin PublishPhases
      BY Groups DEF Gone
    <2>2. Fits(c)
      BY <2>1, Present DEF Init, Fits, Gone
    <2>3. Temporaries(c)
      BY DEF Init, Temporaries
    <2>4. Commit(c) /\ Elsewhere(c) /\ Apart(c) /\ Named(c)
      BY <2>1, Paths DEF Init, Commit, Elsewhere, Apart, Named, Engaged, Gone
    <2>5. QED
      BY <2>2, <2>3, <2>4 DEF Local
  <1>4. QED
    BY <1>1, <1>2, <1>3 DEF IInv

(* Every step keeps the inductive invariant.                                *)
LEMMA InvStep == IInv /\ [Next]_vars => IInv'
  <1> SUFFICES ASSUME IInv, [Next]_vars PROVE IInv'
    OBVIOUS
  <1>1. CASE UNCHANGED vars
    <2>1. ControlShape'
      BY <1>1 DEF IInv, ControlShape, vars, handlerVars
    <2>2. Contest'
      BY <1>1 DEF IInv, Contest, AuxOut, vars
    <2>3. ASSUME NEW c \in Call PROVE Local(c)'
      <3>1. Fits(c)' /\ Temporaries(c)' /\ Commit(c)'
        BY <1>1 DEF IInv, Local, Fits, Temporaries, Commit, TraceOf, ResultOf, AuxOut,
           vars, handlerVars
      <3>2. Elsewhere(c)' /\ Apart(c)' /\ Named(c)'
        BY <1>1 DEF IInv, Local, Elsewhere, Apart, Named, AuxOut, vars, handlerVars
      <3>3. QED
        BY <3>1, <3>2 DEF Local
    <2>4. QED
      BY <2>1, <2>2, <2>3 DEF IInv
  <1>2. ASSUME NEW c \in Call, Step(c) \/ Kill(c) PROVE IInv'
    <2>1. Good(c)
      BY <1>2, StepGood
    <2>2. ControlShape' /\ Local(c)'
      BY <2>1 DEF Good
    <2>3. \A d \in Call \ {c} : Local(d)'
      BY <2>1, OthersKept
    <2>4. Contest'
      BY <1>2, <2>1, ContestKept
    <2>5. QED
      BY <2>2, <2>3, <2>4 DEF IInv
  <1>3. QED
    BY <1>1, <1>2 DEF Next

(* What the publication of a call rests on holds in every reachable state.   *)
THEOREM RunbookInvariant == Spec => []IInv
  BY InvInit, InvStep, PTL DEF Spec

(* How far the code is from the documented meaning of passed: no repo-sync   *)
(* gate ever passes, whatever is observed (check_decision_state on top of    *)
(* assess_repo, which never concludes assessment_clear).                     *)
SyncGatePassed(c) == kind[c] = "repo-sync-gate" /\ verdict[c] = "passed"

THEOREM SyncNeverPasses == Spec => []~(\E c \in Call : SyncGatePassed(c))
  <1>1. IInv => ~(\E c \in Call : SyncGatePassed(c))
    BY DEF IInv, Local, Fits, SyncGatePassed
  <1>2. QED
    BY <1>1, RunbookInvariant, PTL

(* The result marks a complete set of this call.                             *)
THEOREM CommitMarker == Spec => []ResultIsCommitMarker
  <1>1. ASSUME IInv, NEW c \in Call, file[ResultOut[c]] # Absent
        PROVE  /\ file[ResultOut[c]] = ResultOf(c) /\ file[TraceOut[c]] = TraceOf(c)
               /\ ResultOf(c).names # Absent /\ c \notin UNION contested =>
                    /\ file[ResultOf(c).names] # Absent /\ file[ResultOf(c).names].by = c
                    /\ kind[c] = "heimserver-service-gate" =>
                         file[ResultOf(c).names].says = verdict[c]
    BY <1>1 DEF IInv, Local, Commit, Named, ResultOf
  <1>2. IInv => ResultIsCommitMarker
    BY <1>1 DEF ResultIsCommitMarker
  <1>3. QED
    BY <1>2, RunbookInvariant, PTL

(* A call that ends with the exception that stopped it has left nothing.     *)
THEOREM NothingLeft == Spec => []FailureLeavesNothing
  <1>1. ASSUME IInv, NEW c \in Call, pc[c] \in {"raised", "refused", "rollbackFailed"}
        PROVE  /\ ResultOut[c] \notin OwnOutputs(c)
               /\ TraceOut[c] \in OwnOutputs(c) =>
                    pc[c] = "rollbackFailed" /\ "trace" \in stuck[c]
               /\ OwnOutputs(c) \ {TraceOut[c]} # {} =>
                    pc[c] = "rollbackFailed" /\ "aux" \in stuck[c]
    <2>1. Commit(c) /\ Elsewhere(c)
      BY <1>1 DEF IInv, Local
    <2>2. file[ResultOut[c]] = Absent
      BY <1>1, <2>1 DEF Commit
    <2>3. pc[c] \notin PublishPhases /\ pc[c] \in Gone
      BY <1>1 DEF PublishPhases, Gone
    <2>4. QED
      BY <1>1, <2>1, <2>2, <2>3, Groups DEF OwnOutputs, Commit, Elsewhere
  <1>2. ASSUME IInv, NEW c \in Call
        PROVE  /\ pc[c] \in {"raised", "refused"} => temp[c] \subseteq {"auxTemp"}
               /\ pc[c] = "rollbackFailed" => temp[c] \subseteq stuck[c] \cup {"auxTemp"}
    BY <1>2 DEF IInv, Local, Temporaries
  <1>3. IInv => FailureLeavesNothing
    BY <1>1, <1>2 DEF FailureLeavesNothing
  <1>4. QED
    BY <1>3, RunbookInvariant, PTL

(* Calls that do not overlap on an output leave each other's outputs alone.  *)
THEOREM LeavesOthersAlone == Spec => OthersAreLeftAlone
  <1>1. ASSUME IInv, [Next]_vars, NEW c \in Call, NEW f \in File,
               Moved(c), file[f] # Absent, file[f].by # c, file'[f] # file[f]
        PROVE  {c, file[f].by} \in contested
    <2>1. PICK d \in Call : Step(d) \/ Kill(d)
      BY <1>1 DEF Next, vars
    <2>2. Good(d)
      BY <1>1, <2>1, StepGood
    <2>3. d = c
      BY <1>1, <2>2 DEF Good, ControlFrame, Moved
    <2>4. QED
      BY <1>1, <2>2, <2>3, ActsApart DEF Good
  <1>2. IInv /\ [Next]_vars =>
          [\A c \in Call, f \in File :
             Moved(c) /\ file[f] # Absent /\ file[f].by # c /\ file'[f] # file[f] =>
               {c, file[f].by} \in contested]_vars
    BY <1>1
  <1>3. QED
    BY <1>2, RunbookInvariant, PTL DEF Spec, OthersAreLeftAlone

-----------------------------------------------------------------------------
(* What the verdicts rest on.                                               *)

(* The variables that hold what was read.                                   *)
DataShape ==
  /\ asked = [c \in Call |-> asked[c]]
  /\ derived = [c \in Call |-> derived[c]]
  /\ seen \in [Call -> Observed \cup {Absent}]
  /\ approved \in [Call -> Versions \cup {Absent}]
  /\ loaded \in [Call -> Seq(Versions)]

DataFrame(c) ==
  \A d \in Call \ {c} :
    /\ asked'[d] = asked[d] /\ seen'[d] = seen[d] /\ derived'[d] = derived[d]
    /\ approved'[d] = approved[d] /\ loaded'[d] = loaded[d]

AfterLoading == {"derive", "writeAssessment", "recheck", "placeAssessment"}

(* The service gate has loaded nothing but what was approved.                *)
Loaded(c) ==
  /\ Len(loaded[c]) \in 0..3
  /\ pc[c] \in AfterLoading => Len(loaded[c]) = 3
  /\ pc[c] \in AfterLoading \cup {"load"} =>
       /\ approved[c] \in Versions
       /\ \A i \in 1..Len(loaded[c]) : loaded[c][i] = approved[c]
  /\ pc[c] = "load" => Len(loaded[c]) \in 0..2
  /\ pc[c] = "start" => loaded[c] = << >>

Unread(c) == UNCHANGED <<asked, derived, seen, approved, loaded>>

(* Steps that read nothing keep the data of every call.                     *)
LEMMA UnreadKept ==
  ASSUME DataShape, NEW c \in Call, Unread(c)
  PROVE  DataShape' /\ DataFrame(c)
  BY DEF DataShape, DataFrame, Unread

(* A step changes what its own call has read, and nothing else.              *)
LEMMA DataStep ==
  ASSUME DataShape, NEW c \in Call, Step(c) \/ Kill(c)
  PROVE  DataShape' /\ DataFrame(c)
  <1>1. ASSUME NEW phase, Leave(c, phase) PROVE DataShape' /\ DataFrame(c)
    <2>1. << >> \in Seq(Versions)
      OBVIOUS
    <2>2. QED
      BY <1>1, <2>1 DEF Leave, DataShape, DataFrame
  <1>2. CASE Refuse(c) \/ Raise(c) \/ Kill(c) \/ RefuseFacts(c) \/ Unexpected(c)
    BY <1>1, <1>2 DEF Refuse, Raise, Kill, RefuseFacts, Unexpected
  <1>3. CASE Admit(c)
    <2>1. PICK v \in Versions \cup {Absent} : approved' = [approved EXCEPT ![c] = v]
      BY <1>3 DEF Admit
    <2>2. UNCHANGED <<asked, derived, seen, loaded>>
      BY <1>3 DEF Admit
    <2>3. QED
      BY <2>1, <2>2 DEF DataShape, DataFrame
  <1>4. CASE Observe(c)
    BY <1>4 DEF Observe, DataShape, DataFrame
  <1>5. CASE Assess(c)
    <2>1. PICK d \in Conclusions : derived' = [derived EXCEPT ![c] = d]
      BY <1>5 DEF Assess
    <2>2. UNCHANGED <<asked, seen, approved, loaded>>
      BY <1>5 DEF Assess
    <2>3. QED
      BY <2>1, <2>2 DEF DataShape, DataFrame
  <1>6. CASE EvaluateCheck(c)
    <2>1. PICK new : asked' = [asked EXCEPT ![c] = new]
      BY <1>6 DEF EvaluateCheck
    <2>2. UNCHANGED <<derived, seen, approved, loaded>>
      BY <1>6 DEF EvaluateCheck
    <2>3. QED
      BY <2>1, <2>2 DEF DataShape, DataFrame
  <1>7. CASE LoadInput(c)
    <2>1. PICK v \in Versions : loaded' = [loaded EXCEPT ![c] = Append(@, v)]
      BY <1>7 DEF LoadInput, Loading
    <2>2. UNCHANGED <<asked, derived, seen, approved>>
      BY <1>7 DEF LoadInput, Loading
    <2>3. loaded[c] \in Seq(Versions) /\ Append(loaded[c], v) \in Seq(Versions)
      BY DEF DataShape
    <2>4. QED
      BY <2>1, <2>2, <2>3 DEF DataShape, DataFrame
  <1>8. CASE BuildResult(c)
    <2>1. << >> \in Seq(Versions)
      OBVIOUS
    <2>2. /\ asked' = [asked EXCEPT ![c] = {}] /\ seen' = [seen EXCEPT ![c] = Absent]
          /\ derived' = [derived EXCEPT ![c] = Absent]
          /\ approved' = [approved EXCEPT ![c] = Absent]
          /\ loaded' = [loaded EXCEPT ![c] = << >>]
      BY <1>8 DEF BuildResult
    <2>3. QED
      BY <2>1, <2>2 DEF DataShape, DataFrame
  <1>9. CASE ConcludeChecks(c) \/ CollectFacts(c) \/ WriteFacts(c) \/ PlaceFacts(c)
    <2>1. Unread(c)
      BY <1>9 DEF ConcludeChecks, CollectFacts, WriteFacts, PlaceFacts, Unread, verdictVars
    <2>2. QED
      BY <2>1, UnreadKept
  <1>10. CASE \/ RootFails(c) \/ ContractFails(c) \/ RefsFail(c)
              \/ PathFails(c) \/ InputFails(c) \/ ShapeFails(c) \/ OutputFails(c)
              \/ TargetFails(c) \/ WriterSchemaFails(c)
    <2>1. Unread(c)
      BY <1>10 DEF RootFails, ContractFails, RefsFail, PathFails, InputFails, ShapeFails,
         OutputFails, TargetFails, WriterSchemaFails, AdapterFails, WriterFails, Unread,
         verdictVars
    <2>2. QED
      BY <2>1, UnreadKept
  <1>11. CASE Derive(c) \/ WriteAssessment(c) \/ RecheckTarget(c) \/ PlaceAssessment(c)
    <2>1. Unread(c)
      BY <1>11 DEF Derive, WriteAssessment, RecheckTarget, PlaceAssessment, Unread, verdictVars
    <2>2. QED
      BY <2>1, UnreadKept
  <1>12. CASE \/ WriteTrace(c) \/ WriteResult(c) \/ PlaceTrace(c) \/ PlaceResult(c)
              \/ PublishFails(c) \/ CleanUp(c)
    <2>1. Unread(c)
      BY <1>12 DEF WriteTrace, WriteResult, PlaceTrace, PlaceResult, Replace, PublishFails,
         CleanUp, Unread, verdictVars, publishVars
    <2>2. QED
      BY <2>1, UnreadKept
  <1>13. QED
    BY <1>2, <1>3, <1>4, <1>5, <1>6, <1>7, <1>8, <1>9, <1>10, <1>11, <1>12
    DEF Step, Evaluate, Publish

(* Only the loading touches what was loaded.                                *)
LEMMA LoadedStep ==
  ASSUME IInv, DataShape, NEW c \in Call, Loaded(c), Step(c) \/ Kill(c)
  PROVE  Loaded(c)'
  <1>1. ControlShape
    BY DEF IInv
  <1>2. ASSUME NEW phase \in Gone, Leave(c, phase) PROVE Loaded(c)'
    <2>1. pc'[c] = phase /\ loaded'[c] = << >>
      BY <1>1, <1>2 DEF Leave, Goto, ControlShape, DataShape
    <2>2. phase \notin AfterLoading \cup {"load"}
      BY DEF Gone, AfterLoading
    <2>3. QED
      BY <2>1, <2>2 DEF Loaded
  <1>3. CASE Refuse(c) \/ Raise(c) \/ Kill(c) \/ RefuseFacts(c) \/ Unexpected(c)
    BY <1>2, <1>3 DEF Refuse, Raise, Kill, RefuseFacts, Unexpected, Gone
  <1>4. ASSUME pc'[c] \notin AfterLoading \cup {"load", "start"}, loaded' = loaded PROVE Loaded(c)'
    BY <1>4 DEF Loaded
  <1>5. ASSUME NEW s, NEW n, Decide(c, s, n), loaded' = loaded PROVE Loaded(c)'
    <2>1. pc'[c] = "build"
      BY <1>1, <1>5 DEF Decide, Goto, ControlShape
    <2>2. QED
      BY <1>4, <1>5, <2>1 DEF AfterLoading
  <1>6. CASE WriteFails(c) /\ UNCHANGED verdictVars
    BY <1>5, <1>6 DEF WriteFails, verdictVars
  <1>7. CASE \/ AdapterFails(c) \/ WriterFails(c) \/ ConcludeChecks(c) \/ Assess(c)
    BY <1>5, <1>7 DEF AdapterFails, WriterFails, ConcludeChecks, Assess, verdictVars
  <1>8. CASE Observe(c) \/ EvaluateCheck(c) \/ CollectFacts(c) \/ WriteFacts(c) \/ PlaceFacts(c)
    <2>1. loaded' = loaded
      BY <1>8 DEF Observe, EvaluateCheck, CollectFacts, WriteFacts, PlaceFacts, verdictVars
    <2>2. pc'[c] \in {"assess", "check", "writeFacts", "placeFacts", "build"}
      BY <1>1, <1>8 DEF Observe, EvaluateCheck, CollectFacts, WriteFacts, PlaceFacts,
         WriteFails, Proceed, Decide, Goto, ControlShape
    <2>3. QED
      BY <1>4, <2>1, <2>2 DEF AfterLoading
  <1>9. CASE Derive(c) \/ WriteAssessment(c) \/ RecheckTarget(c) \/ PlaceAssessment(c)
    <2>1. loaded' = loaded /\ approved' = approved /\ pc[c] \in AfterLoading
      BY <1>9 DEF Derive, WriteAssessment, RecheckTarget, PlaceAssessment, verdictVars,
         AfterLoading
    <2>2. pc'[c] \in AfterLoading \cup {"build"}
      BY <1>1, <1>9 DEF Derive, WriteAssessment, RecheckTarget, PlaceAssessment, WriteFails,
         Proceed, Decide, Goto, ControlShape, AfterLoading
    <2>3. pc'[c] # "load" /\ pc'[c] # "start"
      BY <2>2 DEF AfterLoading
    <2>4. QED
      BY <2>1, <2>2, <2>3 DEF Loaded
  <1>10. CASE LoadInput(c)
    <2>1. /\ pc[c] = "load" /\ loaded' = [loaded EXCEPT ![c] = Append(@, approved[c])]
          /\ Goto(c, IF Len(loaded[c]) = 2 THEN "derive" ELSE "load")
          /\ approved' = approved
      BY <1>10 DEF LoadInput, Loading, Proceed
    <2>2. /\ approved[c] \in Versions /\ loaded[c] \in Seq(Versions)
          /\ Len(loaded[c]) \in 0..2
          /\ \A i \in 1..Len(loaded[c]) : loaded[c][i] = approved[c]
      BY <2>1 DEF Loaded, DataShape
    <2>3. loaded'[c] = Append(loaded[c], approved[c])
      BY <2>1 DEF DataShape
    <2>4. /\ Len(loaded'[c]) = Len(loaded[c]) + 1
          /\ \A i \in 1..Len(loaded'[c]) : loaded'[c][i] = approved[c]
      BY <2>2, <2>3
    <2>5. pc'[c] = IF Len(loaded[c]) = 2 THEN "derive" ELSE "load"
      BY <1>1, <2>1 DEF Goto, ControlShape
    <2>6. CASE Len(loaded[c]) = 2
      BY <2>1, <2>2, <2>4, <2>5, <2>6 DEF Loaded, AfterLoading
    <2>7. CASE Len(loaded[c]) # 2
      BY <2>1, <2>2, <2>4, <2>5, <2>7 DEF Loaded, AfterLoading
    <2>8. QED
      BY <2>6, <2>7
  <1>11. CASE Admit(c)
    <2>1. PICK k \in KindsOf[c] : Goto(c, FirstPhase(k))
            /\ \E v \in (IF k = "heimserver-service-gate" THEN Versions ELSE {Absent}) :
                 approved' = [approved EXCEPT ![c] = v]
      BY <1>11 DEF Admit
    <2>2. pc'[c] = FirstPhase(k) /\ loaded' = loaded
      BY <1>1, <1>11, <2>1 DEF Goto, ControlShape, Admit
    <2>3. k \in SupportedRunbookKinds
      BY KindTypes
    <2>4. FirstPhase(k) \notin AfterLoading /\ FirstPhase(k) # "start"
      BY <2>3 DEF FirstPhase, AfterLoading, SupportedRunbookKinds, CheckKinds
    <2>5. FirstPhase(k) = "load" => k = "heimserver-service-gate"
      BY <2>3 DEF FirstPhase, SupportedRunbookKinds, CheckKinds
    <2>6. FirstPhase(k) = "load" => approved'[c] \in Versions
      BY <2>1, <2>5 DEF DataShape
    <2>7. loaded'[c] = << >>
      BY <1>11, <2>2 DEF Loaded, Admit
    <2>8. QED
      BY <2>2, <2>4, <2>6, <2>7 DEF Loaded
  <1>12. CASE BuildResult(c)
    <2>1. pc'[c] = "trace" /\ loaded'[c] = << >>
      BY <1>1, <1>12 DEF BuildResult, Goto, ControlShape, DataShape
    <2>2. QED
      BY <2>1 DEF Loaded, AfterLoading
  <1>13. CASE \/ WriteTrace(c) \/ WriteResult(c) \/ PlaceTrace(c) \/ PlaceResult(c)
              \/ PublishFails(c) \/ CleanUp(c)
    <2>1. loaded' = loaded
      BY <1>13 DEF WriteTrace, WriteResult, PlaceTrace, PlaceResult, Replace, PublishFails,
         CleanUp, verdictVars, publishVars
    <2>2. pc'[c] \in {"result", "placeTrace", "placeResult", "returned", "cleanup"}
      BY <1>1, <1>13 DEF WriteTrace, WriteResult, PlaceTrace, PlaceResult, PublishFails,
         CleanUp, Goto, ControlShape
    <2>3. QED
      BY <1>4, <2>1, <2>2 DEF AfterLoading
  <1>14. QED
    BY <1>3, <1>7, <1>8, <1>9, <1>10, <1>11, <1>12, <1>13
    DEF Step, Evaluate, Publish, RootFails, ContractFails, RefsFail, PathFails, InputFails,
        ShapeFails, OutputFails, TargetFails, WriterSchemaFails

-----------------------------------------------------------------------------
(* What a verdict of each kind means.                                       *)

(* A check that evaluates to passed holds; one that evaluates to blocked has  *)
(* a name, was answered, and does not hold.                                 *)
LEMMA CheckMeans ==
  ASSUME NEW k \in CheckKinds, NEW check, NEW answer
  PROVE  /\ CheckStatus(k, check, answer) \in Statuses
         /\ CheckStatus(k, check, answer) = "passed" => Holds(k, check, answer)
         /\ CheckStatus(k, check, answer) = "blocked" => ~Holds(k, check, answer)
         /\ CheckStatus(k, check, answer) # "inconclusive" =>
              /\ check.named
              /\ k # "ssh-gate" => answer.error \notin {"EAI_AGAIN", "OSError"}
  <1>1. Absent \notin ResolverErrors
    BY RunbookAssumption
  <1>2. /\ CheckTcp(answer.tcp) \in Statuses
        /\ CheckTcp(answer.tcp) = "passed" <=> answer.tcp = Absent
    BY DEF CheckTcp, ClassifyTcpOsError, Statuses
  <1>3. /\ Resolve(answer) \in {"ok", "not_found", "error"}
        /\ Resolve(answer) = "ok" => answer.error = Absent /\ answer.ips # {}
        /\ Resolve(answer) = "not_found" => ~(answer.error = Absent /\ answer.ips # {})
        /\ answer.error \in {"EAI_AGAIN", "OSError"} => Resolve(answer) = "error"
    BY <1>1 DEF Resolve, ResolverErrors
  <1>4. CASE k = "dns-gate"
    BY <1>3, <1>4 DEF CheckStatus, DnsStatus, Holds, Statuses
  <1>5. CASE k = "ssh-gate"
    BY <1>2, <1>5 DEF CheckStatus, SshStatus, Holds, Statuses
  <1>6. CASE k = "tailscale-preflight"
    <2>1. CheckStatus(k, check, answer) = TailscaleStatus(check, answer)
      BY <1>6 DEF CheckStatus
    <2>2. Holds(k, check, answer) <=>
            /\ answer.error = Absent /\ answer.ips # {}
            /\ check.values # {} => answer.ips \cap check.values # {}
            /\ check.prefixes # {} => \E p \in check.prefixes : answer.ips \cap p # {}
            /\ check.port => answer.tcp = Absent
      BY <1>6 DEF Holds
    <2>3. (\E p \in check.prefixes : answer.ips \cap p # {})
            <=> answer.ips \cap UNION check.prefixes # {}
      OBVIOUS
    <2>4. QED
      BY <1>2, <1>3, <1>6, <2>1, <2>2, <2>3 DEF TailscaleStatus, Statuses
  <1>7. QED
    BY <1>4, <1>5, <1>6 DEF CheckKinds

(* A bundle that passes is about one host, and all is present and fresh; one  *)
(* that blocks has two hosts or a mismatch.                                 *)
LEMMA BundleMeans ==
  ASSUME NEW bundle
  PROVE  /\ ServiceGateStatus(bundle) = "passed" =>
              /\ SameHost(bundle) /\ bundle.expected # {}
              /\ \A s \in bundle.expected :
                   bundle.evidence[s] = "present" /\ bundle.freshness = "fresh"
         /\ ServiceGateStatus(bundle) = "blocked" =>
              \/ ~SameHost(bundle)
              \/ \E s \in bundle.expected : bundle.evidence[s] = "mismatch"
  <1>1. \A s : /\ ServiceStatus(bundle, s) \in Statuses
               /\ ServiceStatus(bundle, s) = "passed" =>
                    bundle.evidence[s] = "present" /\ bundle.freshness = "fresh"
               /\ ServiceStatus(bundle, s) = "blocked" => bundle.evidence[s] = "mismatch"
    BY DEF ServiceStatus, Statuses
  <1> DEFINE all == {ServiceStatus(bundle, s) : s \in bundle.expected}
  <1>2. /\ OverallStatus(all) = "passed" => \A t \in all : t \notin {"blocked", "inconclusive"}
        /\ OverallStatus(all) = "blocked" => "blocked" \in all
    BY DEF OverallStatus
  <1>3. \A s \in bundle.expected : ServiceStatus(bundle, s) \in all
    OBVIOUS
  <1>4. \A t \in all : \E s \in bundle.expected : t = ServiceStatus(bundle, s)
    OBVIOUS
  <1> HIDE DEF all
  <1>5. ServiceGateStatus(bundle) = "passed" =>
          SameHost(bundle) /\ bundle.expected # {} /\ OverallStatus(all) = "passed"
    BY DEF ServiceGateStatus, all
  <1>6. ServiceGateStatus(bundle) = "blocked" => ~SameHost(bundle) \/ OverallStatus(all) = "blocked"
    BY DEF ServiceGateStatus, all
  <1>7. QED
    BY <1>1, <1>2, <1>3, <1>4, <1>5, <1>6 DEF Statuses

(* Three inputs of one version are that version.                            *)
LEMMA OneBundle ==
  ASSUME NEW c \in Call, approved[c] \in Versions, loaded[c][1] = approved[c],
         loaded[c][2] = approved[c], loaded[c][3] = approved[c]
  PROVE  LET b == BundleOf(c)
             a == Content[approved[c]]
         IN /\ b.facts_host = a.facts_host /\ b.expected_host = a.expected_host
            /\ b.evidence_host = a.evidence_host /\ b.expected = a.expected
            /\ b.evidence = a.evidence /\ b.freshness = a.freshness
  <1>1. Content[approved[c]] \in Bundles
    BY RunbookAssumption
  <1>2. QED
    BY <1>1 DEF BundleOf, Bundles

(* An assessment that blocks has a blocking status.                          *)
LEMMA DerivedBlocks ==
  ASSUME NEW o \in Observations, NEW s \in Scopes,
         DecisionState(DerivedStatus(o, s)) = "action_blocked"
  PROVE  DerivedStatus(o, s) \cap BlockingGitPullStatuses # {}
  <1>1. o.is_git_repo \in BOOLEAN /\ o.dirty \in BOOLEAN /\ o.upstream \in BOOLEAN
    BY DEF Observations
  <1>2. /\ {"not_git_repo", "dirty_worktree", "detached_head", "default_branch_unknown",
            "non_default_branch"} \subseteq BlockingGitPullStatuses
        /\ s # "scope_canonical" => s \in BlockingGitPullStatuses
    BY DEF BlockingGitPullStatuses, BlockingSwitchMainStatuses, ScopeStatuses
  <1>3. PullReadiness(o) \cap BlockingGitPullStatuses # {}
    <2>1. \E p \in PullReadiness(o) : p \in BlockedPullStatuses
      BY DEF PullReadiness, BlockedPullStatuses
    <2>2. QED
      BY <2>1 DEF BlockingGitPullStatuses
  <1>4. CASE ~o.is_git_repo
    BY <1>2, <1>4 DEF DerivedStatus
  <1>5. CASE o.is_git_repo /\ s # "scope_canonical"
    BY <1>2, <1>5 DEF DerivedStatus
  <1>6. CASE o.is_git_repo /\ s = "scope_canonical" /\ o.dirty
    BY <1>2, <1>6 DEF DerivedStatus
  <1>7. CASE o.is_git_repo /\ s = "scope_canonical" /\ ~o.dirty
    BY <1>2, <1>3, <1>7 DEF DerivedStatus
  <1>8. QED
    BY <1>1, <1>4, <1>5, <1>6, <1>7

(* A repo-sync gate that blocks has seen something that blocks.              *)
LEMMA SyncBlocked ==
  ASSUME NEW o, NEW d \in Conclusions, OverallStatus(SyncSteps(o, d)) = "blocked"
  PROVE  \/ /\ o # Absent
            /\ \/ ~o.is_git_repo \/ o.dirty
               \/ o.current_branch = Absent \/ o.current_branch # o.default_branch
         \/ d # Absent /\ d \cap BlockingGitPullStatuses # {}
  <1>1. "blocked" \in SyncSteps(o, d)
    BY DEF OverallStatus
  <1>2. CASE /\ d # Absent /\ DecisionState(d) = "action_blocked"
    <2>1. PICK x \in Observed, s \in Scopes : d = DerivedStatus(x, s)
      BY <1>2 DEF Conclusions
    <2>2. x \in Observations
      BY RunbookAssumption
    <2>3. QED
      BY <1>2, <2>1, <2>2, DerivedBlocks
  <1>3. CASE d = Absent \/ DecisionState(d) # "action_blocked"
    <2> DEFINE decision == IF d = Absent THEN "evidence_missing" ELSE DecisionState(d)
    <2>1. CheckDecisionState(decision) # "blocked"
      BY <1>3 DEF DecisionState, CheckDecisionState
    <2>2. "blocked" \in {CheckIsGitRepo(o), CheckWorktreeClean(o), CheckNotDetachedHead(o),
                         CheckOnDefaultBranch(o)}
      BY <1>1, <2>1 DEF SyncSteps
    <2>3. QED
      BY <2>2 DEF CheckIsGitRepo, CheckWorktreeClean, CheckNotDetachedHead, CheckOnDefaultBranch
  <1>4. QED
    BY <1>2, <1>3

(* The verdict of the required checks.                                      *)
LEMMA ChecksMean ==
  ASSUME NEW c \in Call, kind[c] \in CheckKinds
  PROVE  LET v == RequiredVerdict(RequiredStatuses(c)) IN
         /\ v = "passed" =>
              /\ \E a \in asked[c] : a.check.required
              /\ \A a \in asked[c] : a.check.required => Holds(kind[c], a.check, a.answer)
         /\ v = "blocked" =>
              /\ \E a \in asked[c] : a.check.required /\ ~Holds(kind[c], a.check, a.answer)
              /\ \A a \in asked[c] : a.check.required =>
                   /\ a.check.named
                   /\ kind[c] # "ssh-gate" => a.answer.error \notin {"EAI_AGAIN", "OSError"}
  <1> DEFINE S == RequiredStatuses(c)
             Status(a) == CheckStatus(kind[c], a.check, a.answer)
  <1>1. \A a \in asked[c] : a.check.required => Status(a) \in S
    BY DEF RequiredStatuses
  <1>2. \A t \in S : \E a \in asked[c] : a.check.required /\ t = Status(a)
    BY DEF RequiredStatuses
  <1>3. \A a \in asked[c] :
          /\ Status(a) \in Statuses
          /\ Status(a) = "passed" => Holds(kind[c], a.check, a.answer)
          /\ Status(a) = "blocked" => ~Holds(kind[c], a.check, a.answer)
          /\ Status(a) # "inconclusive" =>
               /\ a.check.named
               /\ kind[c] # "ssh-gate" => a.answer.error \notin {"EAI_AGAIN", "OSError"}
    BY CheckMeans
  <1> HIDE DEF S, Status
  <1>4. /\ RequiredVerdict(S) = "passed" => S # {} /\ "inconclusive" \notin S /\ "blocked" \notin S
        /\ RequiredVerdict(S) = "blocked" => "inconclusive" \notin S /\ "blocked" \in S
    BY DEF RequiredVerdict
  <1>5. RequiredVerdict(S) = "passed" =>
          /\ \E a \in asked[c] : a.check.required
          /\ \A a \in asked[c] : a.check.required => Holds(kind[c], a.check, a.answer)
    BY <1>1, <1>2, <1>3, <1>4 DEF Statuses
  <1>6. RequiredVerdict(S) = "blocked" =>
          /\ \E a \in asked[c] : a.check.required /\ ~Holds(kind[c], a.check, a.answer)
          /\ \A a \in asked[c] : a.check.required =>
               /\ a.check.named
               /\ kind[c] # "ssh-gate" => a.answer.error \notin {"EAI_AGAIN", "OSError"}
    BY <1>1, <1>2, <1>3, <1>4
  <1>7. QED
    BY <1>5, <1>6 DEF S

-----------------------------------------------------------------------------
(* Verdicts are earned and seen.                                            *)

Earned(c) ==
  pc[c] = "build" /\ verdict[c] = "passed" =>
    /\ kind[c] \in CheckKinds =>
         /\ \E a \in asked[c] : a.check.required
         /\ \A a \in asked[c] : a.check.required => Holds(kind[c], a.check, a.answer)
    /\ kind[c] = "heimserver-service-gate" =>
         LET bundle == Content[approved[c]] IN
         /\ named[c] = AssessmentOut[c]
         /\ bundle.facts_host = bundle.evidence_host
         /\ bundle.facts_host = bundle.expected_host
         /\ bundle.expected # {} /\ bundle.freshness = "fresh"
         /\ \A s \in bundle.expected : bundle.evidence[s] = "present"
    /\ kind[c] = "server-facts-snapshot" => named[c] = FactsOut[c]

Refused(c) ==
  pc[c] = "build" /\ verdict[c] = "blocked" =>
    /\ kind[c] \in CheckKinds =>
         /\ \E a \in asked[c] : a.check.required /\ ~Holds(kind[c], a.check, a.answer)
         /\ \A a \in asked[c] : a.check.required =>
              /\ a.check.named
              /\ kind[c] # "ssh-gate" => a.answer.error \notin {"EAI_AGAIN", "OSError"}
    /\ kind[c] = "repo-sync-gate" =>
         \/ /\ seen[c] # Absent
            /\ \/ ~seen[c].is_git_repo \/ seen[c].dirty
               \/ seen[c].current_branch = Absent
               \/ seen[c].current_branch # seen[c].default_branch
         \/ derived[c] # Absent /\ derived[c] \cap BlockingGitPullStatuses # {}
    /\ kind[c] = "heimserver-service-gate" =>
         \/ ~SameHost(Content[approved[c]])
         \/ \E s \in Content[approved[c]].expected :
              Content[approved[c]].evidence[s] = "mismatch"
    /\ kind[c] # "server-facts-snapshot"

DataInv == DataShape /\ \A c \in Call : Loaded(c) /\ Earned(c) /\ Refused(c)

(* A decision is one of four, or without a verdict either way.               *)
LEMMA Decisions ==
  ASSUME ControlShape, NEW c \in Call, Step(c) \/ Kill(c), pc'[c] = "build"
  PROVE  \/ Decide(c, "inconclusive", Absent)
         \/ Assess(c) \/ ConcludeChecks(c)
         \/ PlaceFacts(c) /\ Decide(c, "passed", FactsOut[c])
         \/ PlaceAssessment(c)
              /\ Decide(c, OverallStatus({"passed", ServiceGateStatus(BundleOf(c))}),
                        AssessmentOut[c])
  <1>1. ASSUME NEW phase \in Phases \ {"build"}, Goto(c, phase) PROVE FALSE
    BY <1>1 DEF Goto, ControlShape
  <1>2. ASSUME NEW phase \in Gone, Leave(c, phase) PROVE FALSE
    BY <1>1, <1>2, Groups DEF Leave
  <1>3. CASE Refuse(c) \/ Raise(c) \/ Kill(c) \/ RefuseFacts(c) \/ Unexpected(c)
    BY <1>2, <1>3 DEF Refuse, Raise, Kill, RefuseFacts, Unexpected, Gone
  <1>4. CASE Admit(c)
    <2>1. PICK k \in KindsOf[c] : Goto(c, FirstPhase(k))
      BY <1>4 DEF Admit
    <2>2. k \in SupportedRunbookKinds
      BY KindTypes
    <2>3. FirstPhase(k) \in {"observe", "check", "collect", "load"}
      BY <2>2 DEF FirstPhase, SupportedRunbookKinds, CheckKinds
    <2>4. QED
      BY <1>1, <2>1, <2>3, Sets
  <1>5. ASSUME NEW phase \in {"assess", "check", "writeFacts", "placeFacts", "load", "derive",
                              "writeAssessment", "recheck", "placeAssessment"},
               Proceed(c, phase)
        PROVE  FALSE
    BY <1>1, <1>5, Sets DEF Proceed
  <1>6. CASE Observe(c) \/ EvaluateCheck(c) \/ Derive(c) \/ LoadInput(c)
    BY <1>5, <1>6 DEF Observe, EvaluateCheck, Derive, LoadInput, Loading
  <1>7. CASE CollectFacts(c) \/ WriteFacts(c) \/ WriteAssessment(c) \/ RecheckTarget(c)
    BY <1>5, <1>7 DEF CollectFacts, WriteFacts, WriteAssessment, RecheckTarget, WriteFails
  <1>8. CASE AdapterFails(c) \/ WriterFails(c)
    BY <1>8 DEF AdapterFails, WriterFails
  <1>9. CASE PlaceFacts(c) \/ PlaceAssessment(c)
    BY <1>9 DEF PlaceFacts, PlaceAssessment, WriteFails
  <1>10. CASE BuildResult(c) \/ WriteTrace(c) \/ WriteResult(c) \/ PlaceTrace(c)
              \/ PlaceResult(c) \/ PublishFails(c)
    <2>1. PICK phase \in {"trace", "result", "placeTrace", "placeResult", "returned", "cleanup"} :
            Goto(c, phase)
      BY <1>10 DEF BuildResult, WriteTrace, WriteResult, PlaceTrace, PlaceResult, PublishFails
    <2>2. QED
      BY <1>1, <2>1, Sets DEF PublishPhases
  <1>11. CASE CleanUp(c)
    BY <1>11 DEF CleanUp
  <1>12. QED
    BY <1>3, <1>4, <1>6, <1>7, <1>8, <1>9, <1>10, <1>11
    DEF Step, Evaluate, Publish, RootFails, ContractFails, RefsFail, PathFails, InputFails,
        ShapeFails, OutputFails, TargetFails, WriterSchemaFails

(* The step that comes to a verdict has earned it.                          *)
LEMMA VerdictStep ==
  ASSUME IInv, DataShape, NEW c \in Call, Loaded(c), Step(c) \/ Kill(c), pc'[c] = "build"
  PROVE  Earned(c)' /\ Refused(c)'
  <1>1. ControlShape /\ Fits(c)
    BY DEF IInv, Local
  <1>2. ASSUME NEW s, NEW n, Decide(c, s, n)
        PROVE  verdict'[c] = s /\ named'[c] = n /\ kind'[c] = kind[c]
    BY <1>1, <1>2 DEF Decide, ControlShape
  <1>3. CASE Decide(c, "inconclusive", Absent)
    BY <1>2, <1>3 DEF Earned, Refused
  <1>4. CASE Assess(c)
    <2>1. PICK d \in Conclusions :
            /\ derived' = [derived EXCEPT ![c] = d]
            /\ Decide(c, OverallStatus(SyncSteps(seen[c], d)), Absent)
      BY <1>4 DEF Assess
    <2>2. /\ derived'[c] = d /\ seen' = seen
          /\ verdict'[c] = OverallStatus(SyncSteps(seen[c], d)) /\ kind'[c] = kind[c]
      BY <1>2, <1>4, <2>1 DEF Assess, DataShape
    <2>3. kind[c] = "repo-sync-gate"
      BY <1>1, <1>4, Sets DEF Assess, Fits, PhasesOf, CheckKinds
    <2>4. Earned(c)'
      BY <2>2, <2>3, SyncSettles DEF Earned, CheckKinds
    <2>5. Refused(c)'
      BY <2>2, <2>3, SyncBlocked DEF Refused, CheckKinds
    <2>6. QED
      BY <2>4, <2>5
  <1>5. CASE ConcludeChecks(c)
    <2>1. /\ verdict'[c] = RequiredVerdict(RequiredStatuses(c)) /\ kind'[c] = kind[c]
          /\ asked' = asked
      BY <1>2, <1>5 DEF ConcludeChecks, verdictVars
    <2>2. kind[c] \in CheckKinds
      BY <1>1, <1>5, Sets, KindPhases DEF ConcludeChecks, Fits
    <2>3. Earned(c)'
      BY <2>1, <2>2, ChecksMean DEF Earned, CheckKinds
    <2>4. Refused(c)'
      BY <2>1, <2>2, ChecksMean DEF Refused, CheckKinds
    <2>5. QED
      BY <2>3, <2>4
  <1>6. CASE PlaceFacts(c) /\ Decide(c, "passed", FactsOut[c])
    <2>1. verdict'[c] = "passed" /\ named'[c] = FactsOut[c] /\ kind'[c] = kind[c]
      BY <1>2, <1>6
    <2>2. kind[c] = "server-facts-snapshot"
      BY <1>1, <1>6, Sets, KindPhases DEF PlaceFacts, Fits
    <2>3. QED
      BY <2>1, <2>2 DEF Earned, Refused, CheckKinds
  <1>7. CASE PlaceAssessment(c)
             /\ Decide(c, OverallStatus({"passed", ServiceGateStatus(BundleOf(c))}),
                       AssessmentOut[c])
    <2>1. /\ verdict'[c] = ServiceGateStatus(BundleOf(c)) /\ named'[c] = AssessmentOut[c]
          /\ kind'[c] = kind[c] /\ approved' = approved
      BY <1>2, <1>7, VerdictTypes DEF PlaceAssessment, verdictVars
    <2>2. kind[c] = "heimserver-service-gate" /\ pc[c] \in AfterLoading
      BY <1>1, <1>7, Sets, KindPhases DEF PlaceAssessment, Fits, AfterLoading
    <2>3. /\ approved[c] \in Versions /\ loaded[c][1] = approved[c]
          /\ loaded[c][2] = approved[c] /\ loaded[c][3] = approved[c]
      BY <2>2 DEF Loaded
    <2> DEFINE b == BundleOf(c)
               a == Content[approved[c]]
    <2>4. /\ b.facts_host = a.facts_host /\ b.expected_host = a.expected_host
          /\ b.evidence_host = a.evidence_host /\ b.expected = a.expected
          /\ b.evidence = a.evidence /\ b.freshness = a.freshness
      BY <2>3, OneBundle
    <2>5. /\ ServiceGateStatus(b) = "passed" =>
               /\ SameHost(b) /\ b.expected # {}
               /\ \A s \in b.expected : b.evidence[s] = "present" /\ b.freshness = "fresh"
          /\ ServiceGateStatus(b) = "blocked" =>
               ~SameHost(b) \/ \E s \in b.expected : b.evidence[s] = "mismatch"
      BY BundleMeans
    <2> HIDE DEF a, b
    <2>6. SameHost(b) <=> SameHost(a)
      BY <2>4 DEF SameHost
    <2>7. Content[approved'[c]] = a /\ verdict'[c] = ServiceGateStatus(b)
      BY <2>1 DEF a, b
    <2>8. Earned(c)'
      BY <2>1, <2>2, <2>4, <2>5, <2>6, <2>7 DEF Earned, CheckKinds, SameHost
    <2>9. Refused(c)'
      BY <2>1, <2>2, <2>4, <2>5, <2>6, <2>7 DEF Refused, CheckKinds
    <2>10. QED
      BY <2>8, <2>9
  <1>8. QED
    BY <1>1, <1>3, <1>4, <1>5, <1>6, <1>7, Decisions

(* The invariant about verdicts holds initially.                            *)
LEMMA DataInit == Init => DataInv
  <1> SUFFICES ASSUME Init PROVE DataInv
    OBVIOUS
  <1>1. << >> \in Seq(Versions) /\ Len(<< >>) = 0
    OBVIOUS
  <1>2. DataShape
    BY <1>1 DEF Init, DataShape
  <1>3. ASSUME NEW c \in Call PROVE Loaded(c) /\ Earned(c) /\ Refused(c)
    BY <1>1 DEF Init, Loaded, Earned, Refused, AfterLoading
  <1>4. QED
    BY <1>2, <1>3 DEF DataInv

(* Every step keeps the invariant about verdicts.                           *)
LEMMA DataInvStep == IInv /\ DataInv /\ [Next]_vars => DataInv'
  <1> SUFFICES ASSUME IInv, DataInv, [Next]_vars PROVE DataInv'
    OBVIOUS
  <1>1. CASE UNCHANGED vars
    <2>1. DataShape' /\ \A c \in Call : Loaded(c)'
      BY <1>1 DEF DataInv, DataShape, Loaded, vars, verdictVars
    <2>2. \A c \in Call : Earned(c)' /\ Refused(c)'
      BY <1>1 DEF DataInv, Earned, Refused, vars, verdictVars
    <2>3. QED
      BY <2>1, <2>2 DEF DataInv
  <1>2. ASSUME NEW c \in Call, Step(c) \/ Kill(c) PROVE DataInv'
    <2>1. DataShape' /\ DataFrame(c)
      BY <1>2, DataStep DEF DataInv
    <2>2. Good(c)
      BY <1>2, StepGood
    <2>3. Loaded(c)'
      BY <1>2, LoadedStep DEF DataInv
    <2>4. Earned(c)' /\ Refused(c)'
      <3>1. CASE pc'[c] = "build"
        BY <1>2, <3>1, VerdictStep DEF DataInv
      <3>2. CASE pc'[c] # "build"
        BY <3>2 DEF Earned, Refused
      <3>3. QED
        BY <3>1, <3>2
    <2>5. ASSUME NEW d \in Call \ {c} PROVE Loaded(d)' /\ Earned(d)' /\ Refused(d)'
      <3>1. /\ pc'[d] = pc[d] /\ kind'[d] = kind[d] /\ verdict'[d] = verdict[d]
            /\ named'[d] = named[d] /\ asked'[d] = asked[d] /\ seen'[d] = seen[d]
            /\ derived'[d] = derived[d] /\ approved'[d] = approved[d] /\ loaded'[d] = loaded[d]
        BY <2>1, <2>2 DEF Good, ControlFrame, DataFrame
      <3>2. Loaded(d) /\ Earned(d) /\ Refused(d)
        BY DEF DataInv
      <3>3. Loaded(d)'
        BY <3>1, <3>2 DEF Loaded
      <3>4. Earned(d)'
        BY <3>1, <3>2 DEF Earned
      <3>5. Refused(d)'
        BY <3>1, <3>2 DEF Refused
      <3>6. QED
        BY <3>3, <3>4, <3>5
    <2>6. QED
      BY <2>1, <2>3, <2>4, <2>5 DEF DataInv
  <1>3. QED
    BY <1>1, <1>2 DEF Next

(* And so does what its verdict rests on.                                   *)
THEOREM DataInvariant == Spec => []DataInv
  BY DataInit, DataInvStep, RunbookInvariant, PTL DEF Spec

(* A verdict of passed was earned, whatever is asked and answered, whoever    *)
(* else runs.                                                              *)
THEOREM PassedEarned == Spec => []PassedIsEarned
  <1>1. DataInv => PassedIsEarned
    BY DEF DataInv, Earned, PassedIsEarned
  <1>2. QED
    BY <1>1, DataInvariant, PTL

(* A verdict of blocked was seen.                                           *)
THEOREM BlockedSeen == Spec => []BlockedIsSeen
  <1>1. DataInv => BlockedIsSeen
    BY DEF DataInv, Refused, BlockedIsSeen
  <1>2. QED
    BY <1>1, DataInvariant, PTL

(* Every variable keeps its type.                                          *)
THEOREM TypeCorrect == Spec => []TypeOK
  <1>1. IInv /\ DataInv => TypeOK
    <2> SUFFICES ASSUME IInv, DataInv PROVE TypeOK
      OBVIOUS
    <2>1. /\ pc \in [Call -> Phases] /\ tracked \in [Call -> BOOLEAN]
          /\ temp \in [Call -> SUBSET Temps] /\ contested \subseteq SUBSET Call
          /\ owed \in [Call -> SUBSET {Debts[i] : i \in 1..4}]
          /\ stuck \in [Call -> SUBSET {Debts[i] : i \in 1..4}]
          /\ \A f \in File : file[f] = Absent \/ file[f] \in Written
      BY Sets DEF IInv, ControlShape
    <2>2. ASSUME NEW c \in Call
          PROVE  /\ kind[c] = Absent <=> pc[c] \in (Ended \cup {"start"}) \ {"returned"}
                 /\ kind[c] # Absent => kind[c] \in KindsOf[c]
                 /\ pc[c] = "check" => kind[c] \in CheckKinds
                 /\ verdict[c] \in IF pc[c] \in Deciding THEN {Absent} ELSE Statuses
                 /\ named[c] \in {Absent, FactsOut[c], AssessmentOut[c]}
                 /\ named[c] # Absent => verdict[c] # Absent
      <3>1. Fits(c)
        BY DEF IInv, Local
      <3>2. (Ended \cup {"start"}) \ {"returned"} = Gone
        BY DEF Ended, Gone
      <3>3. pc[c] \in Deciding <=> pc[c] \in Working \cup Gone
        BY Sets
      <3>4. AuxOut(c, kind[c]) \in {Absent, FactsOut[c], AssessmentOut[c]}
        BY DEF AuxOut
      <3>5. pc[c] = "check" => kind[c] \in CheckKinds
        BY <3>1, Sets, KindPhases DEF Fits
      <3>6. QED
        BY <3>1, <3>2, <3>3, <3>4, <3>5, Present DEF Fits
    <2>3. ASSUME NEW c \in Call
          PROVE  /\ seen[c] \in Observed \cup {Absent}
                 /\ approved[c] \in Versions \cup {Absent} /\ Len(loaded[c]) \in 0..3
      BY DEF DataInv, DataShape, Loaded
    <2>4. QED
      BY <2>1, <2>2, <2>3 DEF TypeOK
  <1>2. QED
    BY <1>1, RunbookInvariant, DataInvariant, PTL

-----------------------------------------------------------------------------
(* The refinement: what a step of a call looks like through the mapping, and  *)
(* that the steps of the others are stutters.                               *)

(* A call that ends without a result leaves its trace as it is.              *)
LEMMA Ending ==
  ASSUME ControlShape, NEW c \in Call, Step(c) \/ Kill(c), pc'[c] \in Gone
  PROVE  file' = file \/ file' = [file EXCEPT ![AssessmentOut[c]] = Absent]
  <1>1. ASSUME NEW phase \in Phases \ Gone, Goto(c, phase) PROVE FALSE
    BY <1>1 DEF Goto, ControlShape
  <1>2. CASE Admit(c) \/ Refuse(c) \/ Raise(c) \/ Kill(c) \/ RefuseFacts(c)
    BY <1>2 DEF Admit, Refuse, Raise, Kill, RefuseFacts
  <1>3. CASE Unexpected(c)
    BY <1>3 DEF Unexpected
  <1>4. CASE Work(c) \/ Settle(c)
    BY <1>4 DEF Work, Settle
  <1>5. CASE Deliver(c)
    BY <1>1, <1>5, Groups DEF Deliver, Decide
  <1>6. CASE BuildResult(c) \/ WriteTrace(c) \/ WriteResult(c) \/ PublishFails(c)
    BY <1>6 DEF BuildResult, WriteTrace, WriteResult, PublishFails
  <1>7. CASE PlaceTrace(c) \/ PlaceResult(c)
    BY <1>1, <1>7, Groups DEF PlaceTrace, PlaceResult, PublishPhases
  <1>8. CASE CleanUp(c)
    BY <1>8 DEF CleanUp, Gone
  <1>9. QED
    BY <1>2, <1>3, <1>4, <1>5, <1>6, <1>7, <1>8, EvaluateEffects DEF Step, Publish

(* Nothing visible, a part, or everything.                                 *)
LEMMA SeenFacts ==
  ASSUME NEW c \in Call
  PROVE  /\ Visible(c) = {} <=> SeenOf(c) = "none"
         /\ ResultOut[c] \notin Visible(c) => SeenOf(c) \in {"none", "some"}
         /\ TraceOut[c] \in Visible(c) /\ ResultOut[c] \in Visible(c) => SeenOf(c) = "all"
  BY DEF SeenOf

(* The outcome of a call at each control point.                             *)
LEMMA OutcomeFacts ==
  ASSUME NEW c \in Call
  PROVE  /\ pc[c] = "returned" => OutcomeOf(c) = "published"
         /\ pc[c] \in Engaged \cup {"start"} => OutcomeOf(c) = "pending"
         /\ pc[c] \in Gone \ {"start"} =>
              OutcomeOf(c) = IF Visible(c) = {} THEN "withdrawn" ELSE "torn"
  <1>1. pc[c] \in Engaged => pc[c] \notin Gone \cup {"returned"}
    BY DEF Engaged
  <1>2. QED
    BY <1>1 DEF OutcomeOf, Gone

(* A step of a call, seen through its outcome and its extent, is an action  *)
(* of EvidencePublication or a stutter.                                     *)
LEMMA OwnStep ==
  ASSUME IInv, NEW c \in Call, Step(c) \/ Kill(c)
  PROVE  /\ OutcomeOf(c) = "pending"
         /\ \/ OutcomeOf(c)' = "pending" /\ SeenOf(c)' \in {"none", "some"}
            \/ OutcomeOf(c)' = "published" /\ SeenOf(c)' = "all"
            \/ OutcomeOf(c)' = "withdrawn" /\ SeenOf(c) = "none" /\ SeenOf(c)' = "none"
            \/ OutcomeOf(c)' = "torn" /\ SeenOf(c) = "some" /\ SeenOf(c)' = "some"
  <1>1. Good(c) /\ ControlShape /\ Commit(c)
    BY StepGood DEF IInv, Local
  <1>2. Commit(c)' /\ pc'[c] \in Phases
    BY <1>1 DEF Good, Local, ControlShape
  <1>3. pc[c] \in Engaged \cup {"start"}
    <2>1. pc[c] \notin Ended
      <3>1. CASE Admit(c) \/ Refuse(c) \/ Raise(c) \/ Kill(c) \/ RefuseFacts(c)
        BY <3>1 DEF Admit, Refuse, Raise, Kill, RefuseFacts, Ended
      <3>2. CASE Work(c) \/ Settle(c) \/ Deliver(c) \/ Unexpected(c)
        BY <3>2, Sets DEF Work, Settle, Deliver, Unexpected, Ended
      <3>3. CASE Publish(c)
        BY <3>3, Sets DEF Publish, BuildResult, WriteTrace, WriteResult, PlaceTrace,
           PlaceResult, PublishFails, CleanUp, Raise, PublishPhases, Ended
      <3>4. QED
        BY <1>1, <3>1, <3>2, <3>3, EvaluateEffects DEF Step
    <2>2. QED
      BY <1>1, <2>1 DEF ControlShape, Engaged, Ended, Gone
  <1>4. pc[c] # "returned" /\ ResultOut[c] \notin Visible(c)
    BY <1>1, <1>3 DEF Commit, Visible, Engaged
  <1>5. OutcomeOf(c) = "pending" /\ SeenOf(c) \in {"none", "some"}
    BY <1>3, <1>4, OutcomeFacts, SeenFacts
  <1>6. /\ Visible(c)' = {} <=> SeenOf(c)' = "none"
        /\ ResultOut[c] \notin Visible(c)' => SeenOf(c)' \in {"none", "some"}
        /\ TraceOut[c] \in Visible(c)' /\ ResultOut[c] \in Visible(c)' => SeenOf(c)' = "all"
    BY DEF SeenOf
  <1>7. /\ pc'[c] = "returned" => OutcomeOf(c)' = "published"
        /\ pc'[c] \in Engaged \cup {"start"} => OutcomeOf(c)' = "pending"
        /\ pc'[c] \in Gone \ {"start"} =>
             OutcomeOf(c)' = IF Visible(c)' = {} THEN "withdrawn" ELSE "torn"
    <2>1. pc'[c] \in Engaged => pc'[c] \notin Gone \cup {"returned"}
      BY DEF Engaged
    <2>2. QED
      BY <2>1 DEF OutcomeOf, Gone
  <1>8. pc'[c] # "returned" => ResultOut[c] \notin Visible(c)'
    BY <1>2 DEF Commit, Visible
  <1>9. CASE pc'[c] = "returned"
    <2>1. file'[TraceOut[c]] = TraceOf(c)' /\ file'[ResultOut[c]] = ResultOf(c)'
      BY <1>2, <1>9 DEF Commit
    <2>2. TraceOut[c] \in File /\ ResultOut[c] \in File
      BY Paths
    <2>3. file' \in [File -> Written \cup {Absent}] /\ Absent \notin Written
          /\ named'[c] \in File \cup {Absent} /\ verdict'[c] \in Statuses
      <3>1. ControlShape' /\ Fits(c)'
        BY <1>1 DEF Good, Local
      <3>2. pc'[c] \notin Working \cup Gone
        BY <1>9, Groups
      <3>3. QED
        BY <3>1, <3>2, Present DEF ControlShape, Fits
    <2>4. TraceOf(c)' \in Written /\ ResultOf(c)' \in Written
      BY <2>3 DEF TraceOf, ResultOf, Written
    <2>5. TraceOut[c] \in Visible(c)' /\ ResultOut[c] \in Visible(c)'
      BY <2>1, <2>2, <2>3, <2>4 DEF Visible
    <2>6. QED
      BY <1>5, <1>6, <1>7, <1>9, <2>5
  <1>10. CASE pc'[c] \in Engaged \cup {"start"}
    <2>1. pc'[c] # "returned"
      BY <1>10 DEF Engaged
    <2>2. QED
      BY <1>5, <1>6, <1>7, <1>8, <1>10, <2>1
  <1>11. CASE pc'[c] \in Gone \ {"start"}
    <2>1. Visible(c)' = Visible(c)
      <3>1. file' = file \/ file' = [file EXCEPT ![AssessmentOut[c]] = Absent]
        BY <1>1, <1>11, Ending
      <3>2. /\ AssessmentOut[c] # TraceOut[c] /\ AssessmentOut[c] # ResultOut[c]
            /\ TraceOut[c] \in File /\ ResultOut[c] \in File
        BY RunbookAssumption
      <3>3. file'[TraceOut[c]] = file[TraceOut[c]] /\ file'[ResultOut[c]] = file[ResultOut[c]]
        BY <1>1, <3>1, <3>2 DEF ControlShape
      <3>4. QED
        BY <3>3 DEF Visible
    <2>2. pc'[c] # "returned"
      BY <1>11, Groups
    <2>3. OutcomeOf(c)' = IF Visible(c)' = {} THEN "withdrawn" ELSE "torn"
      BY <1>7, <1>11
    <2>4. /\ Visible(c) = {} <=> SeenOf(c) = "none"
          /\ SeenOf(c)' \in {"none", "some"}
      BY <1>6, <1>8, <2>2, SeenFacts
    <2>5. QED
      BY <1>5, <1>6, <2>1, <2>3, <2>4
  <1>12. QED
    BY <1>2, <1>9, <1>10, <1>11 DEF Engaged

(* For every other call it is a stutter.                                    *)
LEMMA OthersStutter ==
  ASSUME IInv, NEW c \in Call, Good(c), NEW d \in Call \ {c}
  PROVE  OutcomeOf(d)' = OutcomeOf(d) /\ SeenOf(d)' = SeenOf(d)
  <1>1. pc'[d] = pc[d] /\ FileEffect(c)
    BY DEF Good, ControlFrame
  <1>2. file'[TraceOut[d]] = file[TraceOut[d]] /\ file'[ResultOut[d]] = file[ResultOut[d]]
    <2>1. /\ TraceOut[d] \in File /\ ResultOut[d] \in File
          /\ {TraceOut[d], ResultOut[d]} \cap {TraceOut[c], ResultOut[c]} = {}
      BY Paths
    <2>2. AuxOut(c, kind[c]) = Absent \/ AuxOut(c, kind[c]) \notin {TraceOut[d], ResultOut[d]}
      BY Paths
    <2>3. QED
      BY <1>1, <2>1, <2>2, Present DEF FileEffect
  <1>3. Visible(d)' = Visible(d)
    BY <1>2 DEF Visible
  <1>4. QED
    BY <1>1, <1>3 DEF OutcomeOf, SeenOf

(* A step maps to a step of EvidencePublication or to a stutter.            *)
LEMMA RefinementStep ==
  IInv /\ [Next]_vars
     => [Publication!Next]_<<[c \in Call |-> OutcomeOf(c)], [c \in Call |-> SeenOf(c)]>>
  <1> DEFINE out == [c \in Call |-> OutcomeOf(c)]
             sn == [c \in Call |-> SeenOf(c)]
  <1> SUFFICES ASSUME IInv, [Next]_vars
               PROVE  Publication!Next \/ (out' = out /\ sn' = sn)
    OBVIOUS
  <1>1. CASE UNCHANGED vars
    <2>1. \A c \in Call : OutcomeOf(c)' = OutcomeOf(c) /\ SeenOf(c)' = SeenOf(c)
      BY <1>1 DEF vars, OutcomeOf, SeenOf, Visible
    <2>2. QED
      BY <2>1
  <1>2. ASSUME NEW c \in Call, Step(c) \/ Kill(c) PROVE Publication!Next
    <2>1. Good(c)
      BY <1>2, StepGood
    <2>2. \A d \in Call \ {c} : OutcomeOf(d)' = OutcomeOf(d) /\ SeenOf(d)' = SeenOf(d)
      BY <2>1, OthersStutter
    <2>3. /\ out' = [out EXCEPT ![c] = OutcomeOf(c)']
          /\ sn' = [sn EXCEPT ![c] = SeenOf(c)']
      BY <2>2
    <2>4. /\ OutcomeOf(c) = "pending"
          /\ \/ OutcomeOf(c)' = "pending" /\ SeenOf(c)' \in {"none", "some"}
             \/ OutcomeOf(c)' = "published" /\ SeenOf(c)' = "all"
             \/ OutcomeOf(c)' = "withdrawn" /\ SeenOf(c) = "none" /\ SeenOf(c)' = "none"
             \/ OutcomeOf(c)' = "torn" /\ SeenOf(c) = "some" /\ SeenOf(c)' = "some"
      BY <1>2, OwnStep
    <2>5. out[c] = OutcomeOf(c) /\ sn[c] = SeenOf(c)
      OBVIOUS
    <2>6. \/ Publication!Expose(c) \/ Publication!Publish(c)
          \/ Publication!Withdraw(c) \/ Publication!Tear(c)
      <3>1. CASE OutcomeOf(c)' = "pending" /\ SeenOf(c)' \in {"none", "some"}
        <4>1. out' = out
          BY <2>3, <2>4, <3>1
        <4>2. QED
          BY <2>3, <2>4, <2>5, <3>1, <4>1 DEF Publication!Expose
      <3>2. CASE OutcomeOf(c)' = "published" /\ SeenOf(c)' = "all"
        BY <2>3, <2>4, <2>5, <3>2 DEF Publication!Publish
      <3>3. CASE OutcomeOf(c)' = "withdrawn" /\ SeenOf(c) = "none" /\ SeenOf(c)' = "none"
        <4>1. sn' = sn
          BY <2>3, <3>3
        <4>2. QED
          BY <2>3, <2>4, <2>5, <3>3, <4>1 DEF Publication!Withdraw
      <3>4. CASE OutcomeOf(c)' = "torn" /\ SeenOf(c) = "some" /\ SeenOf(c)' = "some"
        <4>1. sn' = sn
          BY <2>3, <3>4
        <4>2. QED
          BY <2>3, <2>4, <2>5, <3>4, <4>1 DEF Publication!Tear
      <3>5. QED
        BY <2>4, <3>1, <3>2, <3>3, <3>4
    <2>7. QED
      BY <2>6 DEF Publication!Next
  <1>3. QED
    BY <1>1, <1>2 DEF Next

(* Initial states map to initial states.                                    *)
LEMMA RefinementInit == Init => Publication!Init
  <1> SUFFICES ASSUME Init PROVE Publication!Init
    OBVIOUS
  <1>1. ASSUME NEW c \in Call PROVE OutcomeOf(c) = "pending" /\ SeenOf(c) = "none"
    <2>1. TraceOut[c] \in File /\ ResultOut[c] \in File
      BY Paths
    <2>2. Visible(c) = {} /\ pc[c] = "start"
      BY <2>1 DEF Init, Visible
    <2>3. QED
      BY <2>2 DEF OutcomeOf, SeenOf
  <1>2. QED
    BY <1>1 DEF Publication!Init

(* The commit of a runbook implements EvidencePublication.                   *)
THEOREM Publishes == Spec => PublishesAtomically
  BY RefinementInit, RefinementStep, RunbookInvariant, PTL
  DEF Spec, PublishesAtomically, Publication!Spec
=============================================================================
