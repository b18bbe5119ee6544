---------------------------- MODULE ArtifactCommit ----------------------------
(***************************************************************************)
(* How a steuerboard command publishes its output artifacts: every target  *)
(* is required to be absent, the command does its work, every artifact is  *)
(* staged in a temporary file beside its target, and the temporaries are   *)
(* moved over the targets in order with os.replace.  A handled exception   *)
(* unwinds: the targets already moved are unlinked, then the temporaries   *)
(* the handler knows of.  A failing unlink is swallowed.  Nothing unwinds  *)
(* when the process is killed or interrupted, because the handlers catch   *)
(* Exception only.                                                         *)
(*                                                                         *)
(* One writer is one call of one of these functions:                       *)
(*   - _write_artifacts_atomic of the two mutating runners (three files),  *)
(*   - _write_artifacts_atomic of the read-only runner (two files),        *)
(*   - the one-file writers of the postcheck, chain, binding and readiness *)
(*     artifacts.                                                          *)
(* They differ in the number of files and in whether the handler already   *)
(* knows the temporary whose write is in progress (TracksOpenTemp).        *)
(***************************************************************************)
EXTENDS Naturals, Sequences, Functions

CONSTANTS Writer,          \* the calls that publish artifacts
          Path,            \* final artifact paths
          NoFile,          \* "nothing at this path"
          Outputs,         \* Outputs[w]: the targets of w, in commit order
          TracksOpenTemp   \* TracksOpenTemp[w]: see above

ASSUME CommitAssumption ==
  /\ NoFile \notin Writer
  /\ TracksOpenTemp \in [Writer -> BOOLEAN]
  /\ Outputs \in [Writer -> Seq(Path)]
  /\ \A w \in Writer : /\ Len(Outputs[w]) > 0
                       /\ IsInjective(Outputs[w])

VARIABLES phase,         \* control point of each writer
          next,          \* index of the output the current loop works on
          file,          \* file[p]: the writer whose artifact is at p
          partial,       \* outputs whose temporary exists and is incomplete
          full,          \* outputs whose temporary exists and is complete
          tracked,       \* outputs whose temporary the handler knows
          committed,     \* outputs moved to their target and not undone
          unlinkFailed   \* writers with a swallowed unlink error (history)

vars == <<phase, next, file, partial, full, tracked, committed, unlinkFailed>>

Items(w) == 1..Len(Outputs[w])
Target(w, i) == Outputs[w][i]

Ended == {"returned", "raised", "refused", "killed"}
Phases == {"checking", "running", "staging", "writing", "committing",
           "unwinding"} \cup Ended

TypeOK ==
  /\ phase \in [Writer -> Phases]
  /\ next \in [Writer -> Nat]
  /\ \A w \in Writer : next[w] \in Items(w)
  /\ file \in [Path -> Writer \cup {NoFile}]
  /\ partial \in [Writer -> SUBSET Nat]
  /\ full \in [Writer -> SUBSET Nat]
  /\ tracked \in [Writer -> SUBSET Nat]
  /\ committed \in [Writer -> SUBSET Nat]
  /\ \A w \in Writer : partial[w] \cup full[w] \cup tracked[w] \cup committed[w]
                          \subseteq Items(w)
  /\ unlinkFailed \subseteq Writer

Init ==
  /\ phase = [w \in Writer |-> "checking"]
  /\ next = [w \in Writer |-> 1]
  /\ file = [p \in Path |-> NoFile]
  /\ partial = [w \in Writer |-> {}]
  /\ full = [w \in Writer |-> {}]
  /\ tracked = [w \in Writer |-> {}]
  /\ committed = [w \in Writer |-> {}]
  /\ unlinkFailed = {}

-----------------------------------------------------------------------------
(* Helpers: the index steps to the next output, or the phase changes and   *)
(* the index starts again.                                                 *)

(* Mutant: the loop runs one item too far.                                 *)
AdvanceTooFar(w, to) ==
  IF next[w] <= Len(Outputs[w])
    THEN /\ next' = [next EXCEPT ![w] = @ + 1]
         /\ UNCHANGED phase
    ELSE /\ next' = [next EXCEPT ![w] = 1]
         /\ phase' = [phase EXCEPT ![w] = to]

Advance(w, to) ==
  IF next[w] < Len(Outputs[w])
    THEN /\ next' = [next EXCEPT ![w] = @ + 1]
         /\ UNCHANGED phase
    ELSE /\ next' = [next EXCEPT ![w] = 1]
         /\ phase' = [phase EXCEPT ![w] = to]

Goto(w, to) ==
  /\ phase' = [phase EXCEPT ![w] = to]
  /\ next' = [next EXCEPT ![w] = 1]

First(i, S) == i \in S /\ \A j \in S : i <= j

-----------------------------------------------------------------------------
(* _require_output_path, one target after the other: refuse when something *)
(* is at the target.                                                       *)
RequireOutputPath(w) ==
  /\ phase[w] = "checking"
  /\ IF file[Target(w, next[w])] = NoFile
       THEN Advance(w, "running")
       ELSE Goto(w, "refused")
  /\ UNCHANGED <<file, partial, full, tracked, committed, unlinkFailed>>

(* A later precondition raises ValueError before anything is written.      *)
Abandon(w) ==
  /\ phase[w] = "running"
  /\ Goto(w, "refused")
  /\ UNCHANGED <<file, partial, full, tracked, committed, unlinkFailed>>

(* The command has done its work and built its artifacts.                  *)
StartStaging(w) ==
  /\ phase[w] = "running"
  /\ Goto(w, "staging")
  /\ UNCHANGED <<file, partial, full, tracked, committed, unlinkFailed>>

(* tempfile.mkstemp in the target's directory.                             *)
MakeTemp(w) ==
  /\ phase[w] = "staging"
  /\ partial' = [partial EXCEPT ![w] = @ \cup {next[w]}]
  /\ tracked' = [tracked EXCEPT
                   ![w] = IF TracksOpenTemp[w] THEN @ \cup {next[w]} ELSE @]
  /\ phase' = [phase EXCEPT ![w] = "writing"]
  /\ UNCHANGED <<next, file, full, committed, unlinkFailed>>

(* The artifact is serialised into the temporary, which is closed.         *)
WriteTemp(w) ==
  /\ phase[w] = "writing"
  /\ partial' = [partial EXCEPT ![w] = @ \ {next[w]}]
  /\ full' = [full EXCEPT ![w] = @ \cup {next[w]}]
  /\ tracked' = [tracked EXCEPT ![w] = @ \cup {next[w]}]
  /\ IF next[w] < Len(Outputs[w])
       THEN /\ phase' = [phase EXCEPT ![w] = "staging"]
            /\ next' = [next EXCEPT ![w] = @ + 1]
       ELSE Goto(w, "committing")
  /\ UNCHANGED <<file, committed, unlinkFailed>>

(* Mutants: the artifacts are moved last one first; the call returns after *)
(* the first os.replace.                                                   *)
ReplaceLastFirst(w) ==
  LET i == Len(Outputs[w]) + 1 - next[w] IN
  /\ phase[w] = "committing"
  /\ file' = [file EXCEPT ![Target(w, i)] = w]
  /\ full' = [full EXCEPT ![w] = @ \ {i}]
  /\ tracked' = [tracked EXCEPT ![w] = @ \ {i}]
  /\ committed' = [committed EXCEPT ![w] = @ \cup {i}]
  /\ Advance(w, "returned")
  /\ UNCHANGED <<partial, unlinkFailed>>

ReplaceReturnsEarly(w) ==
  /\ phase[w] = "committing"
  /\ file' = [file EXCEPT ![Target(w, next[w])] = w]
  /\ full' = [full EXCEPT ![w] = @ \ {next[w]}]
  /\ tracked' = [tracked EXCEPT ![w] = @ \ {next[w]}]
  /\ committed' = [committed EXCEPT ![w] = @ \cup {next[w]}]
  /\ Goto(w, "returned")
  /\ UNCHANGED <<partial, unlinkFailed>>

(* os.replace: the temporary becomes the target, whatever was there.       *)
Replace(w) ==
  /\ phase[w] = "committing"
  /\ file' = [file EXCEPT ![Target(w, next[w])] = w]
  /\ full' = [full EXCEPT ![w] = @ \ {next[w]}]
  /\ tracked' = [tracked EXCEPT ![w] = @ \ {next[w]}]
  /\ committed' = [committed EXCEPT ![w] = @ \cup {next[w]}]
  /\ Advance(w, "returned")
  /\ UNCHANGED <<partial, unlinkFailed>>

(* Mutant: the handler has lost the list of the targets already moved.      *)
FailForgetsCommitted(w) ==
  /\ phase[w] \in {"staging", "writing", "committing"}
  /\ committed' = [committed EXCEPT ![w] = {}]
  /\ Goto(w, "unwinding")
  /\ UNCHANGED <<file, partial, full, tracked, unlinkFailed>>

(* mkstemp, the write or os.replace raises: the handler runs.              *)
Fail(w) ==
  /\ phase[w] \in {"staging", "writing", "committing"}
  /\ Goto(w, "unwinding")
  /\ UNCHANGED <<file, partial, full, tracked, committed, unlinkFailed>>

(* The handler unlinks (missing_ok) the targets it has moved, in order.    *)
UnlinkTarget(w) ==
  /\ phase[w] = "unwinding"
  /\ \E i \in Items(w) :
        /\ First(i, committed[w])
        /\ committed' = [committed EXCEPT ![w] = @ \ {i}]
        /\ \/ /\ file' = [file EXCEPT ![Target(w, i)] = NoFile]
              /\ UNCHANGED unlinkFailed
           \/ /\ unlinkFailed' = unlinkFailed \cup {w}
              /\ UNCHANGED file
  /\ UNCHANGED <<phase, next, partial, full, tracked>>

(* Then the temporaries it knows of.                                       *)
UnlinkTemp(w) ==
  /\ phase[w] = "unwinding"
  /\ committed[w] = {}
  /\ \E i \in Items(w) :
        /\ First(i, tracked[w])
        /\ tracked' = [tracked EXCEPT ![w] = @ \ {i}]
        /\ \/ /\ partial' = [partial EXCEPT ![w] = @ \ {i}]
              /\ full' = [full EXCEPT ![w] = @ \ {i}]
              /\ UNCHANGED unlinkFailed
           \/ /\ unlinkFailed' = unlinkFailed \cup {w}
              /\ UNCHANGED <<partial, full>>
  /\ UNCHANGED <<phase, next, file, committed>>

(* Mutant: a swallowed unlink error keeps the call from ending.            *)
ReraiseUnlessUnlinkFailed(w) ==
  /\ phase[w] = "unwinding"
  /\ committed[w] = {} /\ tracked[w] = {}
  /\ w \notin unlinkFailed
  /\ Goto(w, "raised")
  /\ UNCHANGED <<file, partial, full, tracked, committed, unlinkFailed>>

(* Nothing is left to undo: the exception leaves the function.             *)
Reraise(w) ==
  /\ phase[w] = "unwinding"
  /\ committed[w] = {} /\ tracked[w] = {}
  /\ Goto(w, "raised")
  /\ UNCHANGED <<file, partial, full, tracked, committed, unlinkFailed>>

(* The process dies, or an interrupt passes the handlers.                  *)
Kill(w) ==
  /\ phase[w] \notin Ended
  /\ Goto(w, "killed")
  /\ UNCHANGED <<file, partial, full, tracked, committed, unlinkFailed>>

Proceed(w) ==
  \/ RequireOutputPath(w) \/ Abandon(w) \/ StartStaging(w)
  \/ MakeTemp(w) \/ WriteTemp(w) \/ Replace(w) \/ Fail(w)
  \/ UnlinkTarget(w) \/ UnlinkTemp(w) \/ Reraise(w)

Next == \E w \in Writer : Proceed(w) \/ Kill(w)

(* A live process is eventually scheduled; nothing else is assumed fair.   *)
Spec == Init /\ [][Next]_vars /\ \A w \in Writer : WF_vars(Proceed(w))

-----------------------------------------------------------------------------
(* Properties.                                                             *)

(* Outputs of w whose target holds the artifact w wrote.                   *)
Visible(w) == {i \in Items(w) : file[Target(w, i)] = w}

(* No other writer has a target in common with w.                          *)
Alone(w) == \A v \in Writer \ {w} : \A i \in Items(w), j \in Items(v) :
               Target(w, i) # Target(v, j)

(* The last artifact of a set is its commit marker: with nobody else at its *)
(* paths, a writer's last artifact is in place only together with all the  *)
(* others and only when the call has returned, whatever failed, was undone *)
(* badly or was killed on the way (the order of os.replace and of the      *)
(* unwinding in _write_artifacts_atomic).                                  *)
LastArtifactIsCommitMarker ==
  \A w \in Writer :
     Alone(w) /\ Len(Outputs[w]) \in Visible(w)
        => phase[w] = "returned" /\ Visible(w) = Items(w)

(* An unwinding whose unlinks all worked leaves nothing of the call behind: *)
(* no artifact at a target, shared or not, and no temporary but the one    *)
(* whose write was interrupted, in the writers that do not know it yet (the *)
(* handlers of the _write_artifacts_atomic functions and one-file writers). *)
UnwindRestores ==
  \A w \in Writer :
     phase[w] = "raised" /\ w \notin unlinkFailed
        => /\ Visible(w) = {}
           /\ full[w] = {}
           /\ TracksOpenTemp[w] => partial[w] = {}
           /\ \A i, j \in partial[w] : i = j

(* A caller that got an exception finds no part of the set: what the       *)
(* docstring of the mutating runners' _write_artifacts_atomic says of every *)
(* failed commit.                                                          *)
CallerNeverSeesPartialSet ==
  \A w \in Writer :
     phase[w] = "raised" /\ ~TracksOpenTemp[w] => Visible(w) = {}

(* Every call ends, by returning, refusing or raising, unless it is killed. *)
EveryCallEnds == \A w \in Writer : <>(phase[w] \in Ended)

(* The promise of EvidencePublication, for the writers nobody interferes   *)
(* with.                                                                   *)
SoleWriter == {w \in Writer : Alone(w)}

OutcomeOf(w) ==
  IF phase[w] = "returned" THEN "published"
  ELSE IF phase[w] \notin Ended THEN "pending"
  ELSE IF Visible(w) = {} THEN "withdrawn"
  ELSE "torn"

SeenOf(w) ==
  IF Visible(w) = {} THEN "none"
  ELSE IF Visible(w) = Items(w) THEN "all"
  ELSE "some"

Publication ==
  INSTANCE EvidencePublication WITH
     Run <- SoleWriter,
     outcome <- [w \in SoleWriter |-> OutcomeOf(w)],
     seen <- [w \in SoleWriter |-> SeenOf(w)]

(* ArtifactCommit implements EvidencePublication under this mapping: read   *)
(* through its set of visible targets, the staged multi-file commit is one *)
(* atomic publication.                                                     *)
PublishesAtomically == Publication!Spec
=============================================================================
