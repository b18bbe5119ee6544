CONSTANTS
  early = early
  late = late
  result1 = result1
  trace1 = trace1
  result2 = result2
  trace2 = trace2
  factsJson = factsJson
  assessmentJson = assessmentJson
  ip1 = ip1
  ip2 = ip2
  server = server
  laptop = laptop
  web = web
  mail = mail
  Absent = Absent
  Path = {}
  Disk <- MCDisk
  PathOrder <- MCDisk
  Branch = {"main", "feature"}
  Ip = {ip1, ip2}
  Host = {server, laptop}
  Service = {web, mail}
  Call <- MCCall
  KindsOf <- MCKindsOf
  File <- MCFile
  ResultOut <- MCResultOut
  TraceOut <- MCTraceOut
  FactsOut <- MCFactsOut
  AssessmentOut <- MCAssessmentOut
  Plans <- MCPlans
  Answers <- MCAnswers
  Observed <- MCObserved
  Content <- MCContent
  Versions <- MCVersions
SPECIFICATION Spec
CONSTRAINT Alone
INVARIANTS
  UnblockedDiagnosisPasses
CHECK_DEADLOCK FALSE
