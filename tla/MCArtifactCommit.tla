---------------------------- MODULE MCArtifactCommit ----------------------------
(* Three calls of the three shapes: a mutating runner with three outputs of *)
(* its own, a read-only run with two, and a one-file writer that was given *)
(* the path of the read-only run's trace.                                  *)
EXTENDS ArtifactCommit

CONSTANTS pull, status, chain, trace, result, postcheck, trace2, result2

MCWriter == {pull, status, chain}
MCPath == {trace, result, postcheck, trace2, result2}
MCOutputs ==
  [w \in MCWriter |-> CASE w = pull -> <<trace, result, postcheck>>
                        [] w = status -> <<trace2, result2>>
                        [] w = chain -> <<trace2>>]
MCTracksOpenTemp == [w \in MCWriter |-> w # pull]
=============================================================================
