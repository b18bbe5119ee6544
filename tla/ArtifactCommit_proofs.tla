------------------------ MODULE ArtifactCommit_proofs ------------------------
(* The commit protocol keeps its promises for every set of writers, every  *)
(* assignment of outputs and every pattern of failures and kills.          *)
EXTENDS ArtifactCommit, FiniteSetTheorems, WellFoundedInduction, TLAPS

(* What is in progress: temporaries and moved targets of one writer.       *)
StageInv(w) ==
  /\ phase[w] \in {"checking", "running", "refused", "staging", "writing"}
        => committed[w] = {}
  /\ phase[w] = "committing" => committed[w] = 1..(next[w] - 1)
  /\ phase[w] = "raised" => committed[w] = {} /\ tracked[w] = {}
  /\ phase[w] \in {"checking", "running", "refused", "staging", "committing"}
        => partial[w] = {}
  /\ phase[w] = "writing" => partial[w] = {next[w]}
  /\ \A i, j \in partial[w] : i = j
  /\ w \notin unlinkFailed => /\ full[w] \subseteq tracked[w]
                              /\ TracksOpenTemp[w] => partial[w] \subseteq tracked[w]

(* What is at the final paths: how the files of one writer relate to its    *)
(* control point.                                                          *)
VisibleInv(w) ==
  /\ phase[w] \in {"checking", "running", "refused", "staging", "writing"}
        => Visible(w) = {}
  /\ phase[w] = "committing" => Visible(w) \subseteq committed[w]
  /\ phase[w] = "unwinding" /\ w \notin unlinkFailed
        => Visible(w) \subseteq committed[w]
  /\ phase[w] = "raised" /\ w \notin unlinkFailed => Visible(w) = {}
  /\ phase[w] # "returned" => Len(Outputs[w]) \notin Visible(w)
  /\ Alone(w) /\ phase[w] = "committing" => committed[w] \subseteq Visible(w)
  /\ Alone(w) /\ phase[w] = "returned" => Visible(w) = Items(w)

(* The inductive invariant.                                                *)
IInv == TypeOK /\ \A w \in Writer : StageInv(w) /\ VisibleInv(w)

-----------------------------------------------------------------------------
(* The outputs of a writer are a non-empty sequence of distinct paths.     *)
LEMMA OutputsFacts ==
  ASSUME NEW w \in Writer
  PROVE  /\ Len(Outputs[w]) \in Nat /\ Len(Outputs[w]) > 0
         /\ Items(w) = 1..Len(Outputs[w])
         /\ \A i \in Items(w) : Target(w, i) \in Path
         /\ \A i, j \in Items(w) : Target(w, i) = Target(w, j) => i = j
  <1>1. Outputs[w] \in Seq(Path) /\ Len(Outputs[w]) > 0 /\ IsInjective(Outputs[w])
    BY CommitAssumption
  <1>2. DOMAIN Outputs[w] = 1..Len(Outputs[w])
    BY <1>1
  <1>3. QED
    BY <1>1, <1>2 DEF Items, Target, IsInjective

(* Indexes of outputs: the first, the next one, and that they are naturals. *)
LEMMA ItemsFacts ==
  ASSUME NEW w \in Writer
  PROVE  /\ 1 \in Items(w)
         /\ Items(w) \subseteq Nat
         /\ \A i \in Items(w) : i < Len(Outputs[w]) => i + 1 \in Items(w)
         /\ \A i \in Items(w) : ~(i < Len(Outputs[w])) => i = Len(Outputs[w])
  BY OutputsFacts DEF Items

(* Moving the index keeps phase and index in their types.                  *)
LEMMA MoveTypes ==
  ASSUME TypeOK, NEW w \in Writer, NEW to \in Phases,
         Advance(w, to) \/ Goto(w, to)
  PROVE  /\ phase' \in [Writer -> Phases]
         /\ next' \in [Writer -> Nat]
         /\ \A v \in Writer : next'[v] \in Items(v)
  <1>1. CASE next' = [next EXCEPT ![w] = 1] /\ phase' = [phase EXCEPT ![w] = to]
    BY <1>1, ItemsFacts DEF TypeOK
  <1>2. CASE next' = [next EXCEPT ![w] = @ + 1] /\ next[w] < Len(Outputs[w])
             /\ UNCHANGED phase
    BY <1>2, ItemsFacts DEF TypeOK
  <1>3. QED
    BY <1>1, <1>2 DEF Advance, Goto

(* The type invariant holds initially.                                     *)
LEMMA TypeInit == Init => TypeOK
  BY ItemsFacts DEF Init, TypeOK, Phases, Ended

(* The type invariant is preserved by every step.                          *)
LEMMA TypeStep == TypeOK /\ [Next]_vars => TypeOK'
  <1> SUFFICES ASSUME TypeOK, [Next]_vars PROVE TypeOK'
    OBVIOUS
  <1>1. CASE UNCHANGED vars
    BY <1>1 DEF TypeOK, vars
  <1>2. ASSUME NEW w \in Writer, Proceed(w) \/ Kill(w) PROVE TypeOK'
    <2>0. \A v \in Writer : Items(v) \subseteq Nat
      BY ItemsFacts
    <2>1. CASE RequireOutputPath(w)
      <3>1. Advance(w, "running") \/ Goto(w, "refused")
        BY <2>1 DEF RequireOutputPath
      <3>2. "running" \in Phases /\ "refused" \in Phases
        BY DEF Phases, Ended
      <3>3. /\ phase' \in [Writer -> Phases] /\ next' \in [Writer -> Nat]
            /\ \A v \in Writer : next'[v] \in Items(v)
        BY <3>1, <3>2, MoveTypes
      <3>4. QED
        BY <2>1, <3>3 DEF TypeOK, RequireOutputPath
    <2>2. CASE Abandon(w) \/ StartStaging(w) \/ Fail(w) \/ Reraise(w) \/ Kill(w)
      <3>1. PICK to \in Phases : Goto(w, to)
        BY <2>2 DEF Abandon, StartStaging, Fail, Reraise, Kill, Phases, Ended
      <3>2. /\ phase' \in [Writer -> Phases] /\ next' \in [Writer -> Nat]
            /\ \A v \in Writer : next'[v] \in Items(v)
        BY <3>1, MoveTypes
      <3>3. UNCHANGED <<file, partial, full, tracked, committed, unlinkFailed>>
        BY <2>2 DEF Abandon, StartStaging, Fail, Reraise, Kill
      <3>4. QED
        BY <3>2, <3>3 DEF TypeOK
    <2>3. CASE MakeTemp(w)
      BY <2>0, <2>3 DEF MakeTemp, TypeOK, Phases
    <2>4. CASE WriteTemp(w)
      <3>1. next[w] \in Items(w) /\ next[w] \in Nat
        BY DEF TypeOK
      <3>2. /\ phase' \in [Writer -> Phases] /\ next' \in [Writer -> Nat]
            /\ \A v \in Writer : next'[v] \in Items(v)
        <4>1. CASE next[w] < Len(Outputs[w])
          <5>1. next[w] + 1 \in Items(w) /\ next[w] + 1 \in Nat
            BY <3>1, <4>1, ItemsFacts
          <5>2. /\ phase' = [phase EXCEPT ![w] = "staging"]
                /\ next' = [next EXCEPT ![w] = @ + 1]
            BY <2>4, <4>1 DEF WriteTemp
          <5>3. QED
            BY <5>1, <5>2 DEF TypeOK, Phases
        <4>2. CASE Goto(w, "committing")
          BY <4>2, MoveTypes DEF Phases
        <4>3. QED
          BY <2>4, <4>1, <4>2 DEF WriteTemp
      <3>3. /\ full' \in [Writer -> SUBSET Nat] /\ tracked' \in [Writer -> SUBSET Nat]
            /\ partial' \in [Writer -> SUBSET Nat]
            /\ \A v \in Writer : partial'[v] \cup full'[v] \cup tracked'[v]
                                   \subseteq Items(v)
        BY <2>4, <3>1 DEF WriteTemp, TypeOK
      <3>4. file' = file /\ committed' = committed /\ unlinkFailed' = unlinkFailed
        BY <2>4 DEF WriteTemp
      <3>5. QED
        BY <3>2, <3>3, <3>4 DEF TypeOK
    <2>5. CASE Replace(w)
      <3>1. /\ phase' \in [Writer -> Phases] /\ next' \in [Writer -> Nat]
            /\ \A v \in Writer : next'[v] \in Items(v)
        BY <2>5, MoveTypes DEF Replace, Phases, Ended
      <3>2. file' \in [Path -> Writer \cup {NoFile}]
        BY <2>5, OutputsFacts DEF Replace, TypeOK
      <3>3. next[w] \in Items(w) /\ next[w] \in Nat
        BY DEF TypeOK
      <3>4. /\ full' \in [Writer -> SUBSET Nat] /\ tracked' \in [Writer -> SUBSET Nat]
            /\ committed' \in [Writer -> SUBSET Nat]
            /\ \A v \in Writer : full'[v] \cup tracked'[v] \cup committed'[v]
                                   \subseteq Items(v)
        BY <2>5, <3>3 DEF Replace, TypeOK
      <3>5. partial' = partial /\ unlinkFailed' = unlinkFailed
        BY <2>5 DEF Replace
      <3>6. QED
        BY <3>1, <3>2, <3>4, <3>5 DEF TypeOK
    <2>6. CASE UnlinkTarget(w)
      <3>1. PICK i \in Items(w) :
               /\ committed' = [committed EXCEPT ![w] = @ \ {i}]
               /\ \/ /\ file' = [file EXCEPT ![Target(w, i)] = NoFile]
                     /\ UNCHANGED unlinkFailed
                  \/ unlinkFailed' = unlinkFailed \cup {w} /\ UNCHANGED file
        BY <2>6 DEF UnlinkTarget
      <3>2. file' \in [Path -> Writer \cup {NoFile}] /\ unlinkFailed' \subseteq Writer
        BY <3>1, OutputsFacts DEF TypeOK
      <3>3. QED
        BY <2>6, <3>1, <3>2 DEF UnlinkTarget, TypeOK
    <2>7. CASE UnlinkTemp(w)
      BY <2>7 DEF UnlinkTemp, TypeOK
    <2>8. QED
      BY <1>2, <2>1, <2>2, <2>3, <2>4, <2>5, <2>6, <2>7 DEF Proceed
  <1>3. QED
    BY <1>1, <1>2 DEF Next

-----------------------------------------------------------------------------
(* A step of one writer leaves the own state of the others alone and can   *)
(* only take their artifacts away, not where they are alone.               *)
LEMMA OthersUntouched ==
  ASSUME TypeOK, NEW w \in Writer, NEW v \in Writer, v # w,
         Proceed(w) \/ Kill(w)
  PROVE  /\ phase'[v] = phase[v] /\ next'[v] = next[v]
         /\ partial'[v] = partial[v] /\ full'[v] = full[v]
         /\ tracked'[v] = tracked[v] /\ committed'[v] = committed[v]
         /\ v \in unlinkFailed' <=> v \in unlinkFailed
         /\ Visible(v)' \subseteq Visible(v)
         /\ Alone(v) => Visible(v)' = Visible(v)
  <1> USE DEF TypeOK
  <1>1. /\ phase'[v] = phase[v] /\ next'[v] = next[v]
        /\ partial'[v] = partial[v] /\ full'[v] = full[v]
        /\ tracked'[v] = tracked[v] /\ committed'[v] = committed[v]
    BY DEF Proceed, RequireOutputPath, Abandon, StartStaging, MakeTemp, WriteTemp,
           Replace, Fail, UnlinkTarget, UnlinkTemp, Reraise, Kill, Advance, Goto
  <1>2. v \in unlinkFailed' <=> v \in unlinkFailed
    BY DEF Proceed, RequireOutputPath, Abandon, StartStaging, MakeTemp, WriteTemp,
           Replace, Fail, UnlinkTarget, UnlinkTemp, Reraise, Kill
  <1>3. \/ file' = file
        \/ \E i \in Items(w), x \in {w, NoFile} :
              file' = [file EXCEPT ![Target(w, i)] = x]
    <2>1. next[w] \in Items(w)
      OBVIOUS
    <2>2. CASE Replace(w)
      BY <2>1, <2>2 DEF Replace
    <2>3. CASE UnlinkTarget(w)
      BY <2>3 DEF UnlinkTarget
    <2>4. CASE ~Replace(w) /\ ~UnlinkTarget(w)
      BY <2>4 DEF Proceed, RequireOutputPath, Abandon, StartStaging, MakeTemp,
                  WriteTemp, Fail, UnlinkTemp, Reraise, Kill
    <2>5. QED
      BY <2>2, <2>3, <2>4
  <1>4. CASE file' = file
    BY <1>1, <1>2, <1>4 DEF Visible
  <1>5. ASSUME NEW i \in Items(w), NEW x \in {w, NoFile},
               file' = [file EXCEPT ![Target(w, i)] = x]
        PROVE  /\ Visible(v)' \subseteq Visible(v)
               /\ Alone(v) => Visible(v)' = Visible(v)
    <2>1. x # v
      BY CommitAssumption
    <2>2. \A j \in Items(v) : Target(v, j) \in Path
      BY OutputsFacts
    <2>3. ASSUME NEW j \in Items(v), file'[Target(v, j)] = v
          PROVE  file[Target(v, j)] = v
      BY <1>5, <2>1, <2>2, <2>3
    <2>4. ASSUME Alone(v), NEW j \in Items(v)
          PROVE  file'[Target(v, j)] = file[Target(v, j)]
      <3>1. Target(v, j) # Target(w, i)
        BY <2>4 DEF Alone
      <3>2. QED
        BY <1>5, <2>2, <3>1
    <2>5. Visible(v)' = {j \in Items(v) : file'[Target(v, j)] = v}
      BY DEF Visible, Items, Target
    <2>6. QED
      BY <2>3, <2>4, <2>5 DEF Visible
  <1>6. QED
    BY <1>1, <1>2, <1>3, <1>4, <1>5

(* Stutterers keep their part of the invariant.                            *)
LEMMA OthersInv ==
  ASSUME IInv, NEW w \in Writer, NEW v \in Writer, v # w,
         Proceed(w) \/ Kill(w)
  PROVE  StageInv(v)' /\ VisibleInv(v)'
  <1>1. /\ phase'[v] = phase[v] /\ next'[v] = next[v]
        /\ partial'[v] = partial[v] /\ full'[v] = full[v]
        /\ tracked'[v] = tracked[v] /\ committed'[v] = committed[v]
        /\ v \in unlinkFailed' <=> v \in unlinkFailed
        /\ Visible(v)' \subseteq Visible(v)
        /\ Alone(v) => Visible(v)' = Visible(v)
    BY OthersUntouched DEF IInv
  <1>2. StageInv(v) /\ VisibleInv(v)
    BY DEF IInv
  <1>3. StageInv(v)'
    BY <1>1, <1>2 DEF StageInv
  <1>4. VisibleInv(v)'
    BY <1>1, <1>2 DEF VisibleInv, Alone, Items, Target
  <1>5. QED
    BY <1>3, <1>4

(* The acting writer keeps its part of the invariant: the steps that move  *)
(* no file.                                                                *)
LEMMA OwnQuietInv ==
  ASSUME IInv, NEW w \in Writer,
         \/ RequireOutputPath(w) \/ Abandon(w) \/ StartStaging(w) \/ MakeTemp(w)
         \/ WriteTemp(w) \/ Fail(w) \/ UnlinkTemp(w) \/ Reraise(w) \/ Kill(w)
  PROVE  StageInv(w)' /\ VisibleInv(w)'
  <1> DEFINE N == Len(Outputs[w])
  <1>1. StageInv(w) /\ VisibleInv(w) /\ TypeOK
    BY DEF IInv
  <1>2. Visible(w)' = Visible(w)
    BY DEF RequireOutputPath, Abandon, StartStaging, MakeTemp, WriteTemp, Fail,
           UnlinkTemp, Reraise, Kill, Visible, Items, Target
  <1>3. /\ N \in Nat /\ N > 0 /\ Items(w) = 1..N
        /\ next[w] \in 1..N /\ next[w] \in Nat
    BY <1>1, OutputsFacts DEF TypeOK
  <1>4. CASE RequireOutputPath(w)
    <2>1. phase[w] = "checking" /\ phase'[w] \in {"checking", "running", "refused"}
      BY <1>1, <1>4 DEF RequireOutputPath, Advance, Goto, TypeOK
    <2>2. QED
      BY <1>1, <1>2, <1>4, <2>1 DEF RequireOutputPath, StageInv, VisibleInv
  <1>5. CASE Abandon(w) \/ StartStaging(w)
    <2>1. phase[w] = "running" /\ phase'[w] \in {"refused", "staging"}
      BY <1>1, <1>5 DEF Abandon, StartStaging, Goto, TypeOK
    <2>2. QED
      BY <1>1, <1>2, <1>5, <2>1 DEF Abandon, StartStaging, StageInv, VisibleInv
  <1>6. CASE MakeTemp(w)
    <2>1. phase[w] = "staging" /\ phase'[w] = "writing"
          /\ partial'[w] = {next[w]} /\ full'[w] = full[w] /\ next' = next
          /\ committed'[w] = committed[w] /\ unlinkFailed' = unlinkFailed
          /\ tracked'[w] = IF TracksOpenTemp[w] THEN tracked[w] \cup {next[w]}
                                                ELSE tracked[w]
      BY <1>1, <1>6 DEF MakeTemp, StageInv, TypeOK
    <2>2. QED
      BY <1>1, <1>2, <2>1 DEF StageInv, VisibleInv
  <1>7. CASE WriteTemp(w)
    <2>1. phase[w] = "writing" /\ phase'[w] \in {"staging", "committing"}
          /\ committed'[w] = committed[w] /\ unlinkFailed' = unlinkFailed
          /\ partial'[w] = partial[w] \ {next[w]}
          /\ full'[w] = full[w] \cup {next[w]}
          /\ tracked'[w] = tracked[w] \cup {next[w]}
      BY <1>1, <1>7 DEF WriteTemp, Goto, TypeOK
    <2>2. phase'[w] = "committing" => next'[w] = 1
      BY <1>1, <1>7 DEF WriteTemp, Goto, TypeOK
    <2>3. partial[w] \subseteq {next[w]}
      BY <1>1, <1>7, <2>1 DEF StageInv
    <2>4. partial'[w] = {} /\ committed[w] = {}
      BY <1>1, <2>1, <2>3 DEF StageInv
    <2>5. 1..(1 - 1) = {}
      OBVIOUS
    <2>6. QED
      BY <1>1, <1>2, <2>1, <2>2, <2>4, <2>5 DEF StageInv, VisibleInv
  <1>8. CASE Fail(w)
    <2>1. phase[w] \in {"staging", "writing", "committing"} /\ phase'[w] = "unwinding"
      BY <1>1, <1>8 DEF Fail, Goto, TypeOK
    <2>2. QED
      BY <1>1, <1>2, <1>8, <2>1 DEF Fail, StageInv, VisibleInv
  <1>9. CASE UnlinkTemp(w)
    <2>1. PICK i \in Items(w) :
             /\ tracked'[w] = tracked[w] \ {i}
             /\ \/ /\ partial'[w] = partial[w] \ {i} /\ full'[w] = full[w] \ {i}
                   /\ UNCHANGED unlinkFailed
                \/ /\ unlinkFailed' = unlinkFailed \cup {w}
                   /\ UNCHANGED <<partial, full>>
      BY <1>1, <1>9 DEF UnlinkTemp, TypeOK
    <2>2. phase[w] = "unwinding" /\ phase'[w] = "unwinding" /\ committed' = committed
      BY <1>9 DEF UnlinkTemp
    <2>3. QED
      BY <1>1, <1>2, <2>1, <2>2 DEF StageInv, VisibleInv
  <1>10. CASE Reraise(w)
    <2>1. phase[w] = "unwinding" /\ phase'[w] = "raised"
      BY <1>1, <1>10 DEF Reraise, Goto, TypeOK
    <2>2. QED
      BY <1>1, <1>2, <1>10, <2>1 DEF Reraise, StageInv, VisibleInv
  <1>11. CASE Kill(w)
    <2>1. phase[w] # "returned" /\ phase'[w] = "killed"
      BY <1>1, <1>11 DEF Kill, Goto, TypeOK, Ended
    <2>2. QED
      BY <1>1, <1>2, <1>11, <2>1 DEF Kill, StageInv, VisibleInv
  <1>12. QED
    BY <1>4, <1>5, <1>6, <1>7, <1>8, <1>9, <1>10, <1>11

(* os.replace: the commit proceeds by one output.                          *)
LEMMA OwnReplaceInv ==
  ASSUME IInv, NEW w \in Writer, Replace(w)
  PROVE  StageInv(w)' /\ VisibleInv(w)'
  <1> DEFINE N == Len(Outputs[w])
             n == next[w]
  <1>1. StageInv(w) /\ VisibleInv(w) /\ TypeOK
    BY DEF IInv
  <1>2. /\ N \in Nat /\ N > 0 /\ Items(w) = 1..N
        /\ n \in 1..N /\ n \in Nat
        /\ \A i \in Items(w) : Target(w, i) \in Path
        /\ \A i, j \in Items(w) : Target(w, i) = Target(w, j) => i = j
    BY <1>1, OutputsFacts DEF TypeOK
  <1>3. /\ phase[w] = "committing" /\ committed[w] = 1..(n - 1)
        /\ partial[w] = {} /\ partial'[w] = {} /\ unlinkFailed' = unlinkFailed
        /\ committed'[w] = committed[w] \cup {n}
        /\ full'[w] = full[w] \ {n} /\ tracked'[w] = tracked[w] \ {n}
        /\ file' = [file EXCEPT ![Target(w, n)] = w]
    BY <1>1 DEF Replace, StageInv, TypeOK
  <1>4. \/ n < N /\ phase'[w] = "committing" /\ next'[w] = n + 1
        \/ n = N /\ phase'[w] = "returned"
    BY <1>1, <1>2 DEF Replace, Advance, TypeOK
  <1>5. committed'[w] = 1..n
    BY <1>2, <1>3
  <1>6. StageInv(w)'
    BY <1>1, <1>2, <1>3, <1>4, <1>5 DEF StageInv
  <1>7. Visible(w)' = Visible(w) \cup {n}
    <2>1. Visible(w)' = {i \in Items(w) : file'[Target(w, i)] = w}
      BY DEF Visible, Items, Target
    <2>2. \A i \in Items(w) : file'[Target(w, i)] = w
                                <=> file[Target(w, i)] = w \/ i = n
      BY <1>1, <1>2, <1>3 DEF TypeOK
    <2>3. QED
      BY <1>2, <2>1, <2>2 DEF Visible
  <1>8. VisibleInv(w)'
    <2>1. Visible(w) \subseteq 1..(n - 1)
      BY <1>1, <1>3 DEF VisibleInv
    <2>2. Visible(w)' \subseteq 1..n /\ Visible(w)' \subseteq committed'[w]
      BY <1>2, <1>5, <1>7, <2>1
    <2>3. Alone(w) => Visible(w)' = 1..n
      BY <1>1, <1>2, <1>3, <1>7, <2>2 DEF VisibleInv
    <2>4. phase'[w] # "returned" => N \notin Visible(w)'
      BY <1>2, <1>4, <2>2
    <2>5. (Alone(w) <=> Alone(w)') /\ Items(w)' = Items(w)
      BY DEF Alone, Items, Target
    <2>6. QED
      BY <1>2, <1>4, <1>5, <2>2, <2>3, <2>4, <2>5 DEF VisibleInv
  <1>9. QED
    BY <1>6, <1>8

(* Unlinking a target that was moved.                                      *)
LEMMA OwnUnlinkTargetInv ==
  ASSUME IInv, NEW w \in Writer, UnlinkTarget(w)
  PROVE  StageInv(w)' /\ VisibleInv(w)'
  <1>1. StageInv(w) /\ VisibleInv(w) /\ TypeOK
    BY DEF IInv
  <1>2. PICK i \in Items(w) :
           /\ committed' = [committed EXCEPT ![w] = @ \ {i}]
           /\ \/ /\ file' = [file EXCEPT ![Target(w, i)] = NoFile]
                 /\ UNCHANGED unlinkFailed
              \/ unlinkFailed' = unlinkFailed \cup {w} /\ UNCHANGED file
    BY DEF UnlinkTarget
  <1>3. /\ phase[w] = "unwinding" /\ UNCHANGED <<phase, next, partial, full, tracked>>
        /\ committed'[w] = committed[w] \ {i}
    BY <1>1, <1>2 DEF UnlinkTarget, TypeOK
  <1>4. unlinkFailed \subseteq unlinkFailed'
    BY <1>2
  <1>5. StageInv(w)'
    BY <1>1, <1>3, <1>4 DEF StageInv
  <1>6. \A j \in Items(w) : Target(w, j) \in Path
    BY OutputsFacts
  <1>7. Visible(w)' = {j \in Items(w) : file'[Target(w, j)] = w}
    BY DEF Visible, Items, Target
  <1>8. Visible(w)' \subseteq Visible(w)
    BY <1>1, <1>2, <1>6, <1>7, CommitAssumption DEF Visible, TypeOK
  <1>9. w \notin unlinkFailed' => i \notin Visible(w)'
    BY <1>1, <1>2, <1>6, <1>7, CommitAssumption DEF TypeOK
  <1>10. VisibleInv(w)'
    BY <1>1, <1>3, <1>4, <1>8, <1>9 DEF VisibleInv
  <1>11. QED
    BY <1>5, <1>10

-----------------------------------------------------------------------------
(* The inductive invariant holds in every reachable state.                 *)
LEMMA InvInit == Init => IInv
  <1> SUFFICES ASSUME Init PROVE IInv
    OBVIOUS
  <1>1. TypeOK
    BY TypeInit
  <1>2. ASSUME NEW w \in Writer PROVE StageInv(w) /\ VisibleInv(w)
    <2>1. Visible(w) = {}
      BY OutputsFacts, CommitAssumption DEF Init, Visible
    <2>2. QED
      BY <2>1 DEF Init, StageInv, VisibleInv
  <1>3. QED
    BY <1>1, <1>2 DEF IInv

(* Every step keeps the inductive invariant.                                *)
LEMMA InvStep == IInv /\ [Next]_vars => IInv'
  <1> SUFFICES ASSUME IInv, [Next]_vars PROVE IInv'
    OBVIOUS
  <1>1. TypeOK'
    BY TypeStep DEF IInv
  <1>2. ASSUME UNCHANGED vars, NEW v \in Writer
        PROVE  StageInv(v)' /\ VisibleInv(v)'
    <2>1. StageInv(v) /\ VisibleInv(v)
      BY DEF IInv
    <2>2. Visible(v)' = Visible(v) /\ (Alone(v)' <=> Alone(v)) /\ Items(v)' = Items(v)
      BY <1>2 DEF vars, Visible, Alone, Items, Target
    <2>3. StageInv(v)'
      BY <1>2, <2>1 DEF vars, StageInv
    <2>4. VisibleInv(v)'
      BY <1>2, <2>1, <2>2 DEF vars, VisibleInv
    <2>5. QED
      BY <2>3, <2>4
  <1>3. ASSUME NEW w \in Writer, Proceed(w) \/ Kill(w), NEW v \in Writer
        PROVE  StageInv(v)' /\ VisibleInv(v)'
    <2>1. CASE v # w
      BY <1>3, <2>1, OthersInv
    <2>2. CASE v = w
      BY <1>3, <2>2, OwnQuietInv, OwnReplaceInv, OwnUnlinkTargetInv DEF Proceed
    <2>3. QED
      BY <2>1, <2>2
  <1>4. QED
    BY <1>1, <1>2, <1>3 DEF Next, IInv

(* Every reachable state of the commit satisfies the inductive invariant.   *)
THEOREM CommitInvariant == Spec => []IInv
  BY InvInit, InvStep, PTL DEF Spec

(* Every variable keeps its type: no loop of the commit or of the unwinding *)
(* leaves the outputs it was given.                                        *)
THEOREM TypeCorrect == Spec => []TypeOK
  <1>1. IInv => TypeOK
    BY DEF IInv
  <1>2. QED
    BY <1>1, CommitInvariant, PTL

(* The last artifact of a set marks the complete set, for any number of    *)
(* writers and outputs.                                                    *)
THEOREM CommitMarker == Spec => []LastArtifactIsCommitMarker
  <1>1. IInv => LastArtifactIsCommitMarker
    BY DEF IInv, VisibleInv, LastArtifactIsCommitMarker
  <1>2. QED
    BY <1>1, CommitInvariant, PTL

(* An unwinding whose unlinks worked leaves nothing of the call behind.    *)
THEOREM UnwindingRestores == Spec => []UnwindRestores
  <1>1. IInv => UnwindRestores
    BY DEF IInv, StageInv, VisibleInv, UnwindRestores
  <1>2. QED
    BY <1>1, CommitInvariant, PTL

-----------------------------------------------------------------------------
(* The refinement: what a step of a sole writer looks like through the      *)
(* mapping, and that the steps of the others are stutters.                 *)

(* Nothing visible, a part, or everything.                                 *)
LEMMA SeenFacts ==
  ASSUME TypeOK, NEW w \in Writer
  PROVE  /\ Visible(w) = {} <=> SeenOf(w) = "none"
         /\ Len(Outputs[w]) \notin Visible(w) => SeenOf(w) \in {"none", "some"}
         /\ Visible(w) = Items(w) => SeenOf(w) = "all"
  <1>1. Len(Outputs[w]) \in Items(w)
    BY OutputsFacts
  <1>2. QED
    BY <1>1 DEF SeenOf

(* A step of a writer that shares no output, seen through its outcome and   *)
(* its extent, is one of the four actions of EvidencePublication or a       *)
(* stutter.                                                                 *)
LEMMA SoleStep ==
  ASSUME IInv, IInv', NEW w \in SoleWriter, Proceed(w) \/ Kill(w)
  PROVE  /\ OutcomeOf(w) = "pending"
         /\ \/ OutcomeOf(w)' = "pending" /\ SeenOf(w)' \in {"none", "some"}
            \/ OutcomeOf(w)' = "published" /\ SeenOf(w)' = "all"
            \/ /\ OutcomeOf(w)' = "withdrawn"
               /\ SeenOf(w) = "none" /\ SeenOf(w)' = "none"
            \/ /\ OutcomeOf(w)' = "torn"
               /\ SeenOf(w) = "some" /\ SeenOf(w)' = "some"
  <1>1. w \in Writer /\ Alone(w) /\ TypeOK /\ TypeOK'
    BY DEF SoleWriter, IInv
  <1>2. VisibleInv(w) /\ VisibleInv(w)'
    BY <1>1 DEF IInv
  <1>3. phase[w] \notin Ended
    BY DEF Proceed, RequireOutputPath, Abandon, StartStaging, MakeTemp, WriteTemp,
           Replace, Fail, UnlinkTarget, UnlinkTemp, Reraise, Kill, Ended
  <1>4. OutcomeOf(w) = "pending" /\ Len(Outputs[w]) \notin Visible(w)
    BY <1>2, <1>3 DEF OutcomeOf, VisibleInv, Ended
  <1>5. Alone(w)' /\ Items(w)' = Items(w)
    BY <1>1 DEF Alone, Items, Target
  <1>6. /\ Visible(w)' = {} <=> SeenOf(w)' = "none"
        /\ Len(Outputs[w]) \notin Visible(w)' => SeenOf(w)' \in {"none", "some"}
        /\ Visible(w)' = Items(w) => SeenOf(w)' = "all"
    <2>1. Len(Outputs[w]) \in Items(w)
      BY <1>1, OutputsFacts
    <2>2. QED
      BY <1>5, <2>1 DEF SeenOf
  <1>7. CASE phase'[w] = "returned"
    <2>1. Visible(w)' = Items(w)
      BY <1>2, <1>5, <1>7 DEF VisibleInv
    <2>2. QED
      BY <1>4, <1>6, <1>7, <2>1 DEF OutcomeOf
  <1>8. CASE phase'[w] \notin Ended
    <2>1. phase'[w] # "returned"
      BY <1>8 DEF Ended
    <2>2. Len(Outputs[w]) \notin Visible(w)'
      BY <1>2, <2>1 DEF VisibleInv
    <2>3. QED
      BY <1>4, <1>6, <1>8, <2>1, <2>2 DEF OutcomeOf
  <1>9. CASE phase'[w] \in Ended \ {"returned"}
    <2>1. Visible(w)' = Visible(w)
      <3>1. file' = file
        BY <1>1, <1>3, <1>9 DEF Proceed, RequireOutputPath, Abandon, StartStaging,
           MakeTemp, WriteTemp, Replace, Fail, UnlinkTarget, UnlinkTemp, Reraise,
           Kill, Advance, Goto, Ended, TypeOK
      <3>2. QED
        BY <3>1 DEF Visible, Items, Target
    <2>2. OutcomeOf(w)' = IF Visible(w)' = {} THEN "withdrawn" ELSE "torn"
      BY <1>9 DEF OutcomeOf
    <2>3. /\ Visible(w) = {} <=> SeenOf(w) = "none"
          /\ SeenOf(w) \in {"none", "some"}
      BY <1>1, <1>4, SeenFacts
    <2>4. QED
      BY <1>4, <1>6, <2>1, <2>2, <2>3
  <1>10. QED
    BY <1>7, <1>8, <1>9

(* A step of any writer maps to a step of EvidencePublication or to a       *)
(* stutter.                                                                 *)
LEMMA RefinementStep ==
  IInv /\ IInv' /\ [Next]_vars
     => [Publication!Next]_<<[w \in SoleWriter |-> OutcomeOf(w)],
                             [w \in SoleWriter |-> SeenOf(w)]>>
  <1> DEFINE out == [w \in SoleWriter |-> OutcomeOf(w)]
             sn == [w \in SoleWriter |-> SeenOf(w)]
  <1> SUFFICES ASSUME IInv, IInv', [Next]_vars
               PROVE  Publication!Next \/ (out' = out /\ sn' = sn)
    OBVIOUS
  <1>1. SoleWriter' = SoleWriter /\ SoleWriter \subseteq Writer
    BY DEF SoleWriter, Alone, Items, Target
  <1>2. CASE UNCHANGED vars
    <2>1. \A w \in SoleWriter : OutcomeOf(w)' = OutcomeOf(w) /\ SeenOf(w)' = SeenOf(w)
      BY <1>2 DEF vars, OutcomeOf, SeenOf, Visible, Items, Target
    <2>2. QED
      BY <1>1, <2>1
  <1>3. ASSUME NEW w \in Writer, Proceed(w) \/ Kill(w)
        PROVE  Publication!Next \/ (out' = out /\ sn' = sn)
    <2>1. ASSUME NEW v \in SoleWriter, v # w
          PROVE  OutcomeOf(v)' = OutcomeOf(v) /\ SeenOf(v)' = SeenOf(v)
      <3>1. v \in Writer /\ Alone(v) /\ TypeOK
        BY <1>1 DEF SoleWriter, IInv
      <3>2. phase'[v] = phase[v] /\ Visible(v)' = Visible(v)
        BY <1>3, <2>1, <3>1, OthersUntouched
      <3>3. Items(v)' = Items(v)
        BY DEF Items
      <3>4. QED
        BY <3>2, <3>3 DEF OutcomeOf, SeenOf
    <2>2. CASE w \notin SoleWriter
      BY <1>1, <2>1, <2>2
    <2>3. CASE w \in SoleWriter
      <3>1. /\ out' = [out EXCEPT ![w] = OutcomeOf(w)']
            /\ sn' = [sn EXCEPT ![w] = SeenOf(w)']
        BY <1>1, <2>1, <2>3
      <3>2. /\ OutcomeOf(w) = "pending"
            /\ \/ OutcomeOf(w)' = "pending" /\ SeenOf(w)' \in {"none", "some"}
               \/ OutcomeOf(w)' = "published" /\ SeenOf(w)' = "all"
               \/ /\ OutcomeOf(w)' = "withdrawn"
                  /\ SeenOf(w) = "none" /\ SeenOf(w)' = "none"
               \/ /\ OutcomeOf(w)' = "torn"
                  /\ SeenOf(w) = "some" /\ SeenOf(w)' = "some"
        BY <1>3, <2>3, SoleStep
      <3>3. out[w] = OutcomeOf(w) /\ sn[w] = SeenOf(w)
        BY <2>3
      <3>4. \/ Publication!Expose(w) \/ Publication!Publish(w)
            \/ Publication!Withdraw(w) \/ Publication!Tear(w)
        <4>1. CASE OutcomeOf(w)' = "pending" /\ SeenOf(w)' \in {"none", "some"}
          <5>1. out' = out
            BY <2>3, <3>1, <3>2, <4>1
          <5>2. QED
            BY <3>1, <3>2, <3>3, <4>1, <5>1 DEF Publication!Expose
        <4>2. CASE OutcomeOf(w)' = "published" /\ SeenOf(w)' = "all"
          BY <3>1, <3>2, <3>3, <4>2 DEF Publication!Publish
        <4>3. CASE OutcomeOf(w)' = "withdrawn" /\ SeenOf(w) = "none" /\ SeenOf(w)' = "none"
          <5>1. sn' = sn
            BY <2>3, <3>1, <4>3
          <5>2. QED
            BY <3>1, <3>2, <3>3, <4>3, <5>1 DEF Publication!Withdraw
        <4>4. CASE OutcomeOf(w)' = "torn" /\ SeenOf(w) = "some" /\ SeenOf(w)' = "some"
          <5>1. sn' = sn
            BY <2>3, <3>1, <4>4
          <5>2. QED
            BY <3>1, <3>2, <3>3, <4>4, <5>1 DEF Publication!Tear
        <4>5. QED
          BY <3>2, <4>1, <4>2, <4>3, <4>4
      <3>5. QED
        BY <2>3, <3>4 DEF Publication!Next
    <2>4. QED
      BY <2>2, <2>3
  <1>4. QED
    BY <1>2, <1>3 DEF Next

(* Initial states map to initial states.                                    *)
LEMMA RefinementInit == Init => Publication!Init
  <1> SUFFICES ASSUME Init PROVE Publication!Init
    OBVIOUS
  <1>1. \A w \in SoleWriter : OutcomeOf(w) = "pending" /\ SeenOf(w) = "none"
    <2>1. ASSUME NEW w \in SoleWriter PROVE OutcomeOf(w) = "pending" /\ SeenOf(w) = "none"
      <3>1. w \in Writer /\ Visible(w) = {}
        BY OutputsFacts, CommitAssumption DEF Init, Visible, SoleWriter
      <3>2. phase[w] = "checking"
        BY <3>1 DEF Init
      <3>3. QED
        BY <3>1, <3>2 DEF OutcomeOf, SeenOf, Ended
    <2>2. QED
      BY <2>1
  <1>2. QED
    BY <1>1 DEF Publication!Init

(* For every set of writers the staged commit implements one atomic        *)
(* publication of each set of artifacts nobody else writes to.             *)
THEOREM AtomicPublication == Spec => PublishesAtomically
  BY CommitInvariant, RefinementInit, RefinementStep, PTL
     DEF Spec, PublishesAtomically, Publication!Spec

-----------------------------------------------------------------------------
(* How many steps a call still has.  Staging takes two per output, moving   *)
(* one, an unwinding one per target and temporary it undoes; an exception   *)
(* can come at any point of the first two.                                 *)
Rank(w) ==
  LET n == Len(Outputs[w])
      left == n + 1 - next[w] IN
  CASE phase[w] = "checking" -> 5 * n + 2 + left
    [] phase[w] = "running" -> 5 * n + 2
    [] phase[w] = "staging" -> 3 * n + 1 + 2 * left
    [] phase[w] = "writing" -> 3 * n + 2 * left
    [] phase[w] = "committing" -> 2 * n + 1 + left
    [] phase[w] = "unwinding" -> Cardinality(committed[w]) + Cardinality(tracked[w]) + 1
    [] OTHER -> 0

(* No call can go on for ever, however its failures and those of its        *)
(* clean-up fall and whatever other calls do: each of its own steps uses up *)
(* one of at most 6n + 2 for n outputs, nobody else's step gives one back,  *)
(* and none is left exactly when it has ended (the loops of                *)
(* _write_artifacts_atomic and its handler).                               *)
CallsAreBounded ==
  \A w \in Writer :
     /\ Rank(w) \in 0..(6 * Len(Outputs[w]) + 2)
     /\ Rank(w) = 0 <=> phase[w] \in Ended

EveryStepCounts ==
  \A w \in Writer :
     Proceed(w) \/ Kill(w)
       => /\ Rank(w)' < Rank(w)
          /\ \A v \in Writer \ {w} : Rank(v)' = Rank(v)

(* The part of EveryCallEnds that no scheduling is needed for: a call that  *)
(* has not ended is never waiting.  The handler finds the first of what it *)
(* has to undo or has nothing to undo.                                     *)
NobodyWaits ==
  \A w \in Writer :
     phase[w] \notin Ended =>
       \/ phase[w] \in {"checking", "running", "staging", "writing", "committing"}
       \/ /\ phase[w] = "unwinding"
          /\ \/ \E i \in Items(w) : First(i, committed[w])
             \/ committed[w] = {} /\ \E i \in Items(w) : First(i, tracked[w])
             \/ committed[w] = {} /\ tracked[w] = {}

(* What a handler has to undo are finitely many outputs.                   *)
LEMMA UndoFacts ==
  ASSUME TypeOK, NEW w \in Writer, NEW S \in SUBSET Items(w)
  PROVE  /\ IsFiniteSet(S) /\ Cardinality(S) \in Nat
         /\ Cardinality(S) <= Len(Outputs[w])
  <1> DEFINE n == Len(Outputs[w])
  <1>1. n \in Nat /\ n > 0 /\ Items(w) = 1..n
    BY OutputsFacts
  <1>2. IsFiniteSet(1..n) /\ Cardinality(1..n) = n
    <2> HIDE DEF n
    <2>1. IsFiniteSet(1..n) /\ Cardinality(1..n) = IF 1 > n THEN 0 ELSE n - 1 + 1
      BY <1>1, FS_Interval
    <2>2. QED
      BY <1>1, <2>1
  <1>3. IsFiniteSet(S) /\ Cardinality(S) <= n
    BY <1>1, <1>2, FS_Subset
  <1>4. QED
    BY <1>3, FS_CardinalityType

(* The numbers the rank is made of.                                        *)
LEMMA RankParts ==
  ASSUME TypeOK, NEW w \in Writer
  PROVE  /\ Len(Outputs[w]) \in Nat /\ Len(Outputs[w]) > 0
         /\ next[w] \in Nat /\ next[w] > 0 /\ next[w] <= Len(Outputs[w])
         /\ Cardinality(committed[w]) \in Nat /\ Cardinality(tracked[w]) \in Nat
         /\ Cardinality(committed[w]) <= Len(Outputs[w])
         /\ Cardinality(tracked[w]) <= Len(Outputs[w])
         /\ IsFiniteSet(committed[w]) /\ IsFiniteSet(tracked[w])
         /\ phase[w] \in Phases
  <1>1. committed[w] \in SUBSET Items(w) /\ tracked[w] \in SUBSET Items(w)
    BY DEF TypeOK
  <1>2. next[w] \in Items(w) /\ phase[w] \in Phases
    BY DEF TypeOK
  <1>3. QED
    BY <1>1, <1>2, OutputsFacts, UndoFacts

(* The rank at each control point.                                         *)
LEMMA RankValue ==
  ASSUME NEW w \in Writer
  PROVE  LET n == Len(Outputs[w])
             left == n + 1 - next[w] IN
         /\ phase[w] = "checking" => Rank(w) = 5 * n + 2 + left
         /\ phase[w] = "running" => Rank(w) = 5 * n + 2
         /\ phase[w] = "staging" => Rank(w) = 3 * n + 1 + 2 * left
         /\ phase[w] = "writing" => Rank(w) = 3 * n + 2 * left
         /\ phase[w] = "committing" => Rank(w) = 2 * n + 1 + left
         /\ phase[w] = "unwinding"
              => Rank(w) = Cardinality(committed[w]) + Cardinality(tracked[w]) + 1
         /\ phase[w] \in Ended => Rank(w) = 0
  BY DEF Rank, Ended

(* A call has ended exactly when no step of its own is left.                *)
LEMMA RankBounds == TypeOK => CallsAreBounded
  <1> SUFFICES ASSUME TypeOK, NEW w \in Writer
               PROVE  /\ Rank(w) \in 0..(6 * Len(Outputs[w]) + 2)
                      /\ Rank(w) = 0 <=> phase[w] \in Ended
    BY DEF CallsAreBounded
  <1>1. CASE phase[w] \in Ended
    BY <1>1, RankParts, RankValue
  <1>2. CASE phase[w] = "unwinding"
    BY <1>2, RankParts, RankValue DEF Ended
  <1>3. CASE phase[w] = "checking"
    BY <1>3, RankParts, RankValue DEF Ended
  <1>4. CASE phase[w] = "running"
    BY <1>4, RankParts, RankValue DEF Ended
  <1>5. CASE phase[w] = "staging"
    BY <1>5, RankParts, RankValue DEF Ended
  <1>6. CASE phase[w] = "writing"
    BY <1>6, RankParts, RankValue DEF Ended
  <1>7. CASE phase[w] = "committing"
    BY <1>7, RankParts, RankValue DEF Ended
  <1>8. QED
    BY <1>1, <1>2, <1>3, <1>4, <1>5, <1>6, <1>7, RankParts DEF Phases

(* Nobody else's step changes what a call has left to do.                   *)
LEMMA RankOfOthers ==
  ASSUME TypeOK, NEW w \in Writer, NEW v \in Writer, v # w, Proceed(w) \/ Kill(w)
  PROVE  Rank(v)' = Rank(v)
  <1>1. /\ phase'[v] = phase[v] /\ next'[v] = next[v]
        /\ tracked'[v] = tracked[v] /\ committed'[v] = committed[v]
    BY OthersUntouched
  <1>2. QED
    BY <1>1 DEF Rank

(* A step of its own brings a call nearer to its end.                       *)
LEMMA RankOfOwn ==
  ASSUME TypeOK, TypeOK', NEW w \in Writer, Proceed(w) \/ Kill(w)
  PROVE  Rank(w)' < Rank(w)
  <1> DEFINE n == Len(Outputs[w])
             C == Cardinality(committed[w])
             T == Cardinality(tracked[w])
  <1>1. /\ n \in Nat /\ n > 0 /\ next[w] \in 1..n /\ C \in 0..n /\ T \in 0..n
        /\ IsFiniteSet(committed[w]) /\ IsFiniteSet(tracked[w])
    BY RankParts
  <1>2. /\ next'[w] \in 1..n
        /\ Cardinality(committed'[w]) \in 0..n /\ Cardinality(tracked'[w]) \in 0..n
    <2>1. /\ next'[w] \in Items(w) /\ committed'[w] \in SUBSET Items(w)
          /\ tracked'[w] \in SUBSET Items(w)
      BY DEF TypeOK, Items
    <2>2. QED
      BY <2>1, OutputsFacts, UndoFacts
  <1>3. /\ phase \in [Writer -> Phases] /\ next \in [Writer -> Nat]
        /\ tracked \in [Writer -> SUBSET Nat] /\ committed \in [Writer -> SUBSET Nat]
    BY DEF TypeOK
  <1>v. LET m == n + 1 - next'[w] IN
        /\ phase'[w] = "checking" => Rank(w)' = 5 * n + 2 + m
        /\ phase'[w] = "running" => Rank(w)' = 5 * n + 2
        /\ phase'[w] = "staging" => Rank(w)' = 3 * n + 1 + 2 * m
        /\ phase'[w] = "writing" => Rank(w)' = 3 * n + 2 * m
        /\ phase'[w] = "committing" => Rank(w)' = 2 * n + 1 + m
        /\ phase'[w] = "unwinding"
             => Rank(w)' = Cardinality(committed'[w]) + Cardinality(tracked'[w]) + 1
        /\ phase'[w] \in Ended => Rank(w)' = 0
    BY DEF Rank, Ended
  <1>w. /\ phase[w] \notin Ended => Rank(w) > 0
        /\ Rank(w) \in Nat
    BY RankBounds, <1>1 DEF CallsAreBounded
  <1>4. ASSUME NEW to \in Phases, Goto(w, to)
        PROVE  phase'[w] = to /\ next'[w] = 1
    BY <1>3, <1>4 DEF Goto
  <1>5. CASE RequireOutputPath(w)
    <2>1. phase[w] = "checking" /\ Rank(w) = 5 * n + 2 + (n + 1 - next[w])
      BY <1>5, RankValue DEF RequireOutputPath
    <2>2. CASE Goto(w, "refused")
      BY <1>v, <1>w, <1>4, <2>1, <2>2 DEF Phases, Ended
    <2>3. CASE Advance(w, "running") /\ next[w] < n
      <3>1. next'[w] = next[w] + 1 /\ phase'[w] = "checking"
        BY <1>3, <2>1, <2>3 DEF Advance
      <3>2. QED
        BY <1>1, <1>v, <2>1, <3>1
    <2>4. CASE Advance(w, "running") /\ ~(next[w] < n)
      <3>1. phase'[w] = "running"
        BY <1>3, <2>4 DEF Advance
      <3>2. QED
        BY <1>1, <1>v, <2>1, <3>1
    <2>5. QED
      BY <1>5, <2>2, <2>3, <2>4 DEF RequireOutputPath
  <1>6. CASE Abandon(w)
    BY <1>6, <1>v, <1>w, <1>4 DEF Abandon, Phases, Ended
  <1>7. CASE StartStaging(w)
    <2>1. phase[w] = "running" /\ phase'[w] = "staging" /\ next'[w] = 1
      BY <1>7, <1>4 DEF StartStaging, Phases
    <2>2. QED
      BY <1>1, <1>v, <2>1, RankValue
  <1>8. CASE MakeTemp(w)
    <2>1. phase[w] = "staging" /\ phase'[w] = "writing" /\ next'[w] = next[w]
      BY <1>8, <1>3 DEF MakeTemp
    <2>2. QED
      BY <1>1, <1>v, <2>1, RankValue
  <1>9. CASE WriteTemp(w)
    <2>1. phase[w] = "writing" /\ Rank(w) = 3 * n + 2 * (n + 1 - next[w])
      BY <1>9, RankValue DEF WriteTemp
    <2>2. CASE next[w] < n
      <3>1. phase'[w] = "staging" /\ next'[w] = next[w] + 1
        BY <1>9, <1>3, <2>2 DEF WriteTemp
      <3>2. QED
        BY <1>1, <1>v, <2>1, <3>1
    <2>3. CASE ~(next[w] < n)
      <3>1. phase'[w] = "committing" /\ next'[w] = 1
        BY <1>9, <1>4, <2>3 DEF WriteTemp, Phases
      <3>2. QED
        BY <1>1, <1>v, <2>1, <3>1
    <2>4. QED
      BY <2>2, <2>3
  <1>10. CASE Replace(w)
    <2>1. phase[w] = "committing" /\ Rank(w) = 2 * n + 1 + (n + 1 - next[w])
      BY <1>10, RankValue DEF Replace
    <2>2. CASE next[w] < n
      <3>1. phase'[w] = "committing" /\ next'[w] = next[w] + 1
        BY <1>10, <1>3, <2>1, <2>2 DEF Replace, Advance
      <3>2. QED
        BY <1>1, <1>v, <2>1, <3>1
    <2>3. CASE ~(next[w] < n)
      <3>1. phase'[w] = "returned"
        BY <1>10, <1>3, <2>3 DEF Replace, Advance
      <3>2. QED
        BY <1>v, <1>w, <2>1, <3>1 DEF Ended
    <2>4. QED
      BY <2>2, <2>3
  <1>11. CASE Fail(w)
    <2>1. phase'[w] = "unwinding"
      BY <1>11, <1>4 DEF Fail, Phases
    <2>2. Rank(w)' <= 2 * n + 1
      BY <1>1, <1>2, <1>v, <2>1
    <2>3. phase[w] \in {"staging", "writing", "committing"}
      BY <1>11 DEF Fail
    <2>4. Rank(w) > 2 * n + 1
      <3>1. CASE phase[w] = "staging"
        BY <1>1, <3>1, RankValue
      <3>2. CASE phase[w] = "writing"
        BY <1>1, <3>2, RankValue
      <3>3. CASE phase[w] = "committing"
        BY <1>1, <3>3, RankValue
      <3>4. QED
        BY <2>3, <3>1, <3>2, <3>3
    <2>5. Rank(w)' \in Nat
      BY <1>1, <1>2, <1>v, <2>1
    <2>6. QED
      BY <1>1, <1>w, <2>2, <2>4, <2>5
  <1>12. CASE UnlinkTarget(w)
    <2>1. PICK i \in Items(w) : /\ i \in committed[w]
                                /\ committed'[w] = committed[w] \ {i}
      BY <1>12, <1>3 DEF UnlinkTarget, First
    <2>2. /\ phase[w] = "unwinding" /\ phase'[w] = "unwinding"
          /\ tracked'[w] = tracked[w]
      BY <1>12 DEF UnlinkTarget
    <2>3. Cardinality(committed'[w]) = C - 1
      BY <1>1, <2>1, FS_RemoveElement
    <2>4. QED
      BY <1>1, <1>v, <2>2, <2>3, RankValue
  <1>13. CASE UnlinkTemp(w)
    <2>1. PICK i \in Items(w) : /\ i \in tracked[w]
                                /\ tracked'[w] = tracked[w] \ {i}
      BY <1>13, <1>3 DEF UnlinkTemp, First
    <2>2. /\ phase[w] = "unwinding" /\ phase'[w] = "unwinding"
          /\ committed'[w] = committed[w]
      BY <1>13 DEF UnlinkTemp
    <2>3. Cardinality(tracked'[w]) = T - 1
      BY <1>1, <2>1, FS_RemoveElement
    <2>4. QED
      BY <1>1, <1>v, <2>2, <2>3, RankValue
  <1>14. CASE Reraise(w)
    BY <1>14, <1>v, <1>w, <1>4 DEF Reraise, Phases, Ended
  <1>15. CASE Kill(w)
    BY <1>15, <1>v, <1>w, <1>4 DEF Kill, Phases, Ended
  <1>16. QED
    BY <1>5, <1>6, <1>7, <1>8, <1>9, <1>10, <1>11, <1>12, <1>13, <1>14, <1>15
       DEF Proceed

(* Every call is over after at most 6n + 2 steps of its own.                *)
THEOREM CallsEndInBoundedSteps ==
  Spec => []CallsAreBounded /\ [][EveryStepCounts]_vars
  <1>1. TypeOK /\ TypeOK' /\ [Next]_vars => [EveryStepCounts]_vars
    <2> SUFFICES ASSUME TypeOK, TypeOK', [Next]_vars PROVE [EveryStepCounts]_vars
      OBVIOUS
    <2>1. EveryStepCounts
      BY RankOfOwn, RankOfOthers DEF EveryStepCounts
    <2>2. QED
      BY <2>1
  <1>2. QED
    BY <1>1, RankBounds, TypeCorrect, PTL DEF Spec

(* Of a set of numbers that is not empty one is the least.                  *)
LEMMA LeastNumber ==
  ASSUME NEW S \in SUBSET Nat, S # {}
  PROVE  \E i \in S : First(i, S)
  <1>1. PICK i \in S : \A j \in S : <<j, i>> \notin OpToRel(<, Nat)
    BY WFMin, NatLessThanWellFounded
  <1>2. \A j \in S : j < i => <<j, i>> \in OpToRel(<, Nat)
    BY DEF OpToRel
  <1>3. \A j \in S : ~(j < i)
    BY <1>1, <1>2
  <1>4. \A j \in S : i <= j
    BY <1>3
  <1>5. QED
    BY <1>4 DEF First

(* A call that has not ended can go on, whatever the others do.             *)
THEOREM CallsNeverWait == Spec => []NobodyWaits
  <1>1. TypeOK => NobodyWaits
    <2> SUFFICES ASSUME TypeOK, NEW w \in Writer, phase[w] = "unwinding"
                 PROVE  \/ \E i \in Items(w) : First(i, committed[w])
                        \/ committed[w] = {} /\ \E i \in Items(w) : First(i, tracked[w])
                        \/ committed[w] = {} /\ tracked[w] = {}
      BY DEF NobodyWaits, TypeOK, Phases
    <2>1. /\ committed[w] \in SUBSET Nat /\ committed[w] \subseteq Items(w)
          /\ tracked[w] \in SUBSET Nat /\ tracked[w] \subseteq Items(w)
      BY DEF TypeOK
    <2>2. CASE committed[w] # {}
      BY <2>1, <2>2, LeastNumber
    <2>3. CASE committed[w] = {} /\ tracked[w] # {}
      BY <2>1, <2>3, LeastNumber
    <2>4. QED
      BY <2>2, <2>3
  <1>2. QED
    BY <1>1, TypeCorrect, PTL

-----------------------------------------------------------------------------
(* The temporaries of a call.                                              *)
TempInv(w) ==
  /\ phase[w] \in {"checking", "running"} => full[w] = {} /\ tracked[w] = {}
  /\ phase[w] \in {"staging", "writing"} => full[w] = 1..(next[w] - 1)
  /\ phase[w] = "staging" => tracked[w] = full[w]
  /\ phase[w] = "writing" => /\ full[w] \subseteq tracked[w]
                             /\ tracked[w] \subseteq full[w] \cup {next[w]}
  /\ phase[w] = "committing"
       => full[w] = next[w]..Len(Outputs[w]) /\ tracked[w] = full[w]
  /\ phase[w] = "returned" => full[w] = {} /\ partial[w] = {} /\ tracked[w] = {}

TempsInv == \A w \in Writer : TempInv(w)

(* What os.replace moves to a target is a temporary whose write is          *)
(* complete, and none is half written at that time: a reader never sees a  *)
(* part of an artifact.                                                    *)
MovesWhatIsComplete ==
  \A w \in Writer : Replace(w) => next[w] \in full[w] /\ partial[w] = {}

(* A call that returns leaves its artifacts and nothing else: "no orphaned  *)
(* partial artifacts are left" (run_read_only_action).                     *)
ReturnsClean ==
  \A w \in Writer : phase[w] = "returned" => full[w] = {} /\ partial[w] = {}

(* No call has a temporary yet.                                            *)
LEMMA TempsInit == Init => TempsInv
  BY DEF Init, TempsInv, TempInv

(* A step of its own keeps a call's temporaries in line with its loops.     *)
LEMMA OwnTemps ==
  ASSUME IInv, TempsInv, NEW w \in Writer, Proceed(w) \/ Kill(w)
  PROVE  TempInv(w)'
  <1> DEFINE n == Len(Outputs[w])
  <1>1. /\ n \in Nat /\ n > 0 /\ next[w] \in 1..n /\ Items(w) = 1..n
    BY RankParts, OutputsFacts DEF IInv
  <1>2. /\ phase \in [Writer -> Phases] /\ next \in [Writer -> Nat]
        /\ partial \in [Writer -> SUBSET Nat] /\ full \in [Writer -> SUBSET Nat]
        /\ tracked \in [Writer -> SUBSET Nat]
    BY DEF IInv, TypeOK
  <1>3. TempInv(w) /\ StageInv(w)
    BY DEF IInv, TempsInv
  <1>4. ASSUME NEW to \in Phases, Goto(w, to)
        PROVE  phase'[w] = to /\ next'[w] = 1
    BY <1>2, <1>4 DEF Goto
  <1>5. CASE RequireOutputPath(w)
    <2>1. phase'[w] \in {"checking", "running", "refused"}
      BY <1>2, <1>5 DEF RequireOutputPath, Advance, Goto
    <2>2. QED
      BY <1>3, <1>5, <2>1 DEF RequireOutputPath, TempInv
  <1>6. CASE StartStaging(w)
    <2>1. phase[w] = "running" /\ phase'[w] = "staging" /\ next'[w] = 1
      BY <1>4, <1>6 DEF StartStaging, Phases
    <2>2. full'[w] = full[w] /\ tracked'[w] = tracked[w]
      BY <1>6 DEF StartStaging
    <2>3. 1..(next'[w] - 1) = {}
      BY <2>1
    <2>4. QED
      BY <1>3, <2>1, <2>2, <2>3 DEF TempInv
  <1>7. CASE MakeTemp(w)
    <2>1. /\ phase[w] = "staging" /\ phase'[w] = "writing" /\ next'[w] = next[w]
          /\ full'[w] = full[w] /\ tracked[w] \subseteq tracked'[w]
          /\ tracked'[w] \subseteq tracked[w] \cup {next[w]}
      BY <1>2, <1>7 DEF MakeTemp
    <2>2. QED
      BY <1>3, <2>1 DEF TempInv
  <1>8. CASE WriteTemp(w)
    <2>1. /\ phase[w] = "writing"
          /\ full'[w] = full[w] \cup {next[w]} /\ tracked'[w] = tracked[w] \cup {next[w]}
      BY <1>2, <1>8 DEF WriteTemp
    <2>2. full[w] = 1..(next[w] - 1) /\ tracked[w] \subseteq full[w] \cup {next[w]}
      BY <1>3, <2>1 DEF TempInv
    <2>3. full[w] \subseteq tracked'[w]
      BY <1>3, <2>1 DEF TempInv
    <2>4. full'[w] = 1..next[w] /\ tracked'[w] = full'[w]
      BY <1>1, <2>1, <2>2, <2>3
    <2>5. CASE next[w] < n
      <3>1. phase'[w] = "staging" /\ next'[w] = next[w] + 1
        BY <1>2, <1>8, <2>5 DEF WriteTemp
      <3>2. next'[w] - 1 = next[w]
        BY <1>1, <3>1
      <3>3. QED
        BY <2>4, <3>1, <3>2 DEF TempInv
    <2>6. CASE ~(next[w] < n)
      <3>1. phase'[w] = "committing" /\ next'[w] = 1
        BY <1>4, <1>8, <2>6 DEF WriteTemp, Phases
      <3>2. next[w] = n
        BY <1>1, <2>6
      <3>3. QED
        BY <2>4, <3>1, <3>2 DEF TempInv
    <2>7. QED
      BY <2>5, <2>6
  <1>9. CASE Replace(w)
    <2>1. /\ phase[w] = "committing" /\ partial'[w] = partial[w]
          /\ full'[w] = full[w] \ {next[w]} /\ tracked'[w] = tracked[w] \ {next[w]}
      BY <1>2, <1>9 DEF Replace
    <2>2. full[w] = next[w]..n /\ tracked[w] = full[w] /\ partial[w] = {}
      BY <1>3, <2>1 DEF TempInv, StageInv
    <2>3. CASE next[w] < n
      <3>1. phase'[w] = "committing" /\ next'[w] = next[w] + 1
        BY <1>2, <1>9, <2>1, <2>3 DEF Replace, Advance
      <3>2. full'[w] = next'[w]..n /\ tracked'[w] = full'[w]
        BY <1>1, <2>1, <2>2, <3>1
      <3>3. QED
        BY <3>1, <3>2 DEF TempInv
    <2>4. CASE ~(next[w] < n)
      <3>1. phase'[w] = "returned"
        BY <1>2, <1>9, <2>4 DEF Replace, Advance
      <3>2. full'[w] = {} /\ tracked'[w] = {}
        BY <1>1, <2>1, <2>2, <2>4
      <3>3. QED
        BY <2>1, <2>2, <3>1, <3>2 DEF TempInv
    <2>5. QED
      BY <2>3, <2>4
  <1>10. CASE Abandon(w) \/ Fail(w) \/ Reraise(w) \/ Kill(w)
    <2>1. phase'[w] \in {"refused", "unwinding", "raised", "killed"}
      BY <1>4, <1>10 DEF Abandon, Fail, Reraise, Kill, Phases, Ended
    <2>2. QED
      BY <2>1 DEF TempInv
  <1>11. CASE UnlinkTarget(w) \/ UnlinkTemp(w)
    <2>1. phase'[w] = "unwinding"
      BY <1>11 DEF UnlinkTarget, UnlinkTemp
    <2>2. QED
      BY <2>1 DEF TempInv
  <1>12. QED
    BY <1>5, <1>6, <1>7, <1>8, <1>9, <1>10, <1>11 DEF Proceed

(* Every step keeps them.                                                  *)
LEMMA TempsStep == IInv /\ TempsInv /\ [Next]_vars => TempsInv'
  <1> SUFFICES ASSUME IInv, TempsInv, [Next]_vars PROVE TempsInv'
    OBVIOUS
  <1>1. CASE UNCHANGED vars
    BY <1>1 DEF vars, TempsInv, TempInv
  <1>2. ASSUME NEW w \in Writer, Proceed(w) \/ Kill(w), NEW v \in Writer
        PROVE  TempInv(v)'
    <2>1. CASE v = w
      BY <1>2, <2>1, OwnTemps
    <2>2. CASE v # w
      <3>1. /\ phase'[v] = phase[v] /\ next'[v] = next[v]
            /\ partial'[v] = partial[v] /\ full'[v] = full[v]
            /\ tracked'[v] = tracked[v]
        BY <1>2, <2>2, OthersUntouched DEF IInv
      <3>2. QED
        BY <3>1 DEF TempsInv, TempInv
    <2>3. QED
      BY <2>1, <2>2
  <1>3. QED
    BY <1>1, <1>2 DEF Next, TempsInv

(* Only complete temporaries are published, and a call that returns leaves  *)
(* none behind.                                                            *)
THEOREM OnlyCompleteIsPublished ==
  Spec => [][MovesWhatIsComplete]_vars /\ []ReturnsClean
  <1>1. Spec => []TempsInv
    BY TempsInit, TempsStep, CommitInvariant, PTL DEF Spec
  <1>2. IInv /\ TempsInv => MovesWhatIsComplete
    <2> SUFFICES ASSUME IInv, TempsInv, NEW w \in Writer, Replace(w)
                 PROVE  next[w] \in full[w] /\ partial[w] = {}
      BY DEF MovesWhatIsComplete
    <2>1. phase[w] = "committing"
      BY DEF Replace
    <2>2. full[w] = next[w]..Len(Outputs[w]) /\ partial[w] = {}
      BY <2>1 DEF TempsInv, TempInv, IInv, StageInv
    <2>3. QED
      BY <2>2, RankParts DEF IInv
  <1>3. TempsInv => ReturnsClean
    BY DEF TempsInv, TempInv, ReturnsClean
  <1>4. IInv /\ TempsInv => [MovesWhatIsComplete]_vars
    BY <1>2
  <1>5. QED
    BY <1>1, <1>3, <1>4, CommitInvariant, PTL
===============================================================================
