------------------------- MODULE EvidencePublication -------------------------
(***************************************************************************)
(* What a steuerboard run promises about its set of output artifacts,      *)
(* without temporary files, loops or handlers.  A pending run may expose a *)
(* part of its set; the whole set appears in the step that publishes it    *)
(* and stays from then on; a withdrawn run has left nothing; a torn run    *)
(* ended with a part of its set in place, which is never the whole.        *)
(***************************************************************************)
CONSTANT Run

VARIABLES outcome,   \* how the run stands
          seen       \* how much of its set is at the final paths

Outcomes == {"pending", "published", "withdrawn", "torn"}
Extents == {"none", "some", "all"}

Init == /\ outcome = [r \in Run |-> "pending"]
        /\ seen = [r \in Run |-> "none"]

Expose(r) == /\ outcome[r] = "pending"
             /\ \E x \in {"none", "some"} : seen' = [seen EXCEPT ![r] = x]
             /\ UNCHANGED outcome

Publish(r) == /\ outcome[r] = "pending"
              /\ outcome' = [outcome EXCEPT ![r] = "published"]
              /\ seen' = [seen EXCEPT ![r] = "all"]

Withdraw(r) == /\ outcome[r] = "pending"
               /\ seen[r] = "none"
               /\ outcome' = [outcome EXCEPT ![r] = "withdrawn"]
               /\ UNCHANGED seen

Tear(r) == /\ outcome[r] = "pending"
           /\ seen[r] = "some"
           /\ outcome' = [outcome EXCEPT ![r] = "torn"]
           /\ UNCHANGED seen

Next == \E r \in Run : Expose(r) \/ Publish(r) \/ Withdraw(r) \/ Tear(r)

Spec == Init /\ [][Next]_<<outcome, seen>>
=============================================================================
