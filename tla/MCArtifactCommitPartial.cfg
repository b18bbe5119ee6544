CONSTANTS
  pull = pull
  status = status
  chain = chain
  trace = trace
  result = result
  postcheck = postcheck
  trace2 = trace2
  result2 = result2
  NoFile = NoFile
  Writer <- MCWriter
  Path <- MCPath
  Outputs <- MCOutputs
  TracksOpenTemp <- MCTracksOpenTemp
SPECIFICATION Spec
INVARIANT
  CallerNeverSeesPartialSet
CHECK_DEADLOCK FALSE
