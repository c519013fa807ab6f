------------------------------ MODULE DriveProofs ------------------------------
(***************************************************************************)
(* Theorems about Drive for every set of lane processes, of verification   *)
(* files and of packed paths, and for every number of iterations and edits.*)
(*                                                                         *)
(* None of the three properties is inductive.  Exclusive (whoever is       *)
(* between Start and End is the one inside drive.lock) makes every step of *)
(* another drive harmless to this one's plan and to what it has measured;  *)
(* Trace ties the frozen digests to what the red gate read, the stamps to  *)
(* each other, and what the last gate read to the tree, each from the step *)
(* that measures it to the step that relies on it.                         *)
(*                                                                         *)
(* The locks are looked at through what a drive can do to them (Flow):     *)
(* each is used as Mutex says, and they are taken in one order.  StepsLeft *)
(* is a bound on what is left of a drive that none of the others can raise.*)
(***************************************************************************)
EXTENDS Drive, FiniteSetTheorems, TLAPS

USE PackAssumption, DriveAssumption

-----------------------------------------------------------------------------
(* Type correctness.                                                       *)

TypeOfDrive == /\ files \in [Verification -> Contents]
               /\ stamp \in 0..Edits
               /\ plan \in Plans
               /\ pc \in [Lanes -> Labels]
               /\ iter \in [Lanes -> 0..MaxIters]
               /\ doing \in [Lanes -> Plans]
               /\ before \in [Lanes -> 0..Edits]
               /\ holder \subseteq Lanes
               /\ browser \subseteq Lanes \cup Others
               /\ runs \in 0..OtherRuns

TypeOfVerdicts == /\ baseline \in [Lanes -> [Verification -> Contents]]
                  /\ red \in [Lanes -> Readings]
                  /\ seen \in [Lanes -> Readings]
                  /\ unseen \in [Lanes -> BOOLEAN]

LEMMA TypeParts == TypeOK <=> TypeOfPack /\ TypeOfDrive /\ TypeOfVerdicts
  BY DEF TypeOK, TypeOfDrive, TypeOfVerdicts

\* What the verdicts and the plan start from and go back to.
LEMMA Blank == /\ NoFiles \in [Verification -> Contents]
               /\ NoReading \in Readings
               /\ NoPlan \in Plans
  BY DEF NoFiles, NoReading, NoPlan, Readings, Plans, Contents

LEMMA InitType == Init => TypeOK
<1> SUFFICES ASSUME Init PROVE TypeOK
  OBVIOUS
<1>1. TypeOfPack
  BY DEF Init, InitPack, TypeOfPack, Shapes, Phases
<1>2. TypeOfDrive
  BY Blank DEF Init, TypeOfDrive, Contents, Labels, Lock!Init, Browser!Init
<1>3. TypeOfVerdicts
  BY Blank DEF Init, TypeOfVerdicts
<1>4. QED BY <1>1, <1>2, <1>3, TypeParts

LEMMA EndType ==
  ASSUME TypeOK, NEW d \in Lanes, NEW how \in Ended, End(d, how)
  PROVE  TypeOK'
<1> USE DEF End, Set, Goto, tree
<1>1. TypeOfPack'
  BY DEF TypeOK, TypeOfPack, DropPack, Enter, Phases
<1>2. TypeOfDrive'
  BY Blank DEF TypeOK, TypeOfDrive, Labels, Lock!Leave
<1>3. TypeOfVerdicts'
  <2>1. CASE how = "passed"
    BY <2>1, Blank DEF TypeOK, TypeOfVerdicts
  <2>2. CASE how # "passed"
    <3>1. /\ baseline' = [baseline EXCEPT ![d] = NoFiles]
          /\ red' = [red EXCEPT ![d] = NoReading]
          /\ seen' = [seen EXCEPT ![d] = NoReading]
          /\ unseen' = [unseen EXCEPT ![d] = FALSE]
      BY <2>2
    <3>2. TypeOfVerdicts
      BY DEF TypeOK, TypeOfVerdicts
    <3>3. red' \in [Lanes -> Readings] /\ seen' \in [Lanes -> Readings]
      BY <3>1, <3>2, Blank DEF TypeOfVerdicts
    <3>4. baseline' \in [Lanes -> [Verification -> Contents]] /\ unseen' \in [Lanes -> BOOLEAN]
      BY <3>1, <3>2, Blank, Zenon DEF TypeOfVerdicts
    <3>5. QED BY <3>3, <3>4 DEF TypeOfVerdicts
  <2>3. QED BY <2>1, <2>2
<1>4. QED BY <1>1, <1>2, <1>3 DEF TypeOK, TypeOfDrive, TypeOfVerdicts

LEMMA EditType == TypeOK /\ EditTree => /\ files' \in [Verification -> Contents]
                                        /\ shape' \in [Packed -> Shapes]
                                        /\ stamp' \in 0..Edits
<1> SUFFICES ASSUME TypeOK, EditTree
             PROVE  /\ files' \in [Verification -> Contents]
                    /\ shape' \in [Packed -> Shapes]
                    /\ stamp' \in 0..Edits
  OBVIOUS
<1>1. stamp' \in 0..Edits
  BY DEF TypeOK, EditTree
<1>2. files \in [Verification -> Contents] /\ shape \in [Packed -> Shapes]
  BY DEF TypeOK, TypeOfPack
<1>3. CASE UNCHANGED <<files, shape>>
  BY <1>1, <1>2, <1>3
<1>4. ASSUME NEW p \in Verification, NEW c \in Contents,
             files' = [files EXCEPT ![p] = c], UNCHANGED shape
      PROVE  files' \in [Verification -> Contents] /\ shape' \in [Packed -> Shapes]
  BY <1>2, <1>4
<1>5. ASSUME NEW p \in Packed, NEW s \in Shapes,
             shape' = [shape EXCEPT ![p] = s], UNCHANGED files
      PROVE  files' \in [Verification -> Contents] /\ shape' \in [Packed -> Shapes]
  BY <1>2, <1>5
<1>6. QED BY <1>1, <1>3, <1>4, <1>5 DEF EditTree

LEMMA IterateType ==
  ASSUME TypeOK, NEW d \in Lanes, iter[d] < MaxIters, Iterate(d)
  PROVE  TypeOfPack' /\ TypeOfDrive'
  BY DEF TypeOK, TypeOfPack, TypeOfDrive, Iterate, BeginPack, Enter, Phases, Labels,
         Set, Goto, tree

\* A path is being looked at or read only if it is one of the pack.
LEMMA PackType ==
  ASSUME TypeOfPack, NEW d \in Lanes, PackStep(d),
         phase[d] = "opening" => current[d] \in Packed
  PROVE  TypeOfPack'
<1> USE DEF TypeOfPack, Enter, Phases, Shapes
<1>1. CASE Validate(d) BY <1>1 DEF Validate
<1>2. CASE Copy(d)
  <2>1. [path |-> current[d], file |-> shape[current[d]]] \in [path : Packed, file : Shapes]
    BY <1>2 DEF Copy
  <2>2. QED BY <1>2, <2>1 DEF Copy, Read
<1>3. CASE CopyFails(d) BY <1>3 DEF CopyFails
<1>4. CASE Staged(d) BY <1>4 DEF Staged
<1>5. ASSUME NEW p \in Packed, Pick(d, p) PROVE TypeOfPack'
  BY <1>5 DEF Pick
<1>6. ASSUME NEW p \in Packed, Refuse(d, p) PROVE TypeOfPack'
  BY <1>6 DEF Refuse
<1>7. ASSUME NEW p \in Packed, PassOver(d, p) PROVE TypeOfPack'
  BY <1>7 DEF PassOver
<1>8. QED BY <1>1, <1>2, <1>3, <1>4, <1>5, <1>6, <1>7 DEF PackStep

-----------------------------------------------------------------------------
(* The induction.                                                          *)

\* Whoever is between Start and End is the one inside drive.lock.
Exclusive == /\ \A d \in Lanes : Running(d) => d \in holder
             /\ \A a, b \in holder : a = b

\* The first iteration is counted by Freeze.
Uncounted == \A d \in Lanes :
                pc[d] \in {"away", "probing", "probed", "freezing"} => iter[d] = 0

\* The copy is clean, and so is the path that comes next.
Clean == /\ PackIsClean
         /\ \A d \in Lanes : phase[d] = "opening" => current[d] \in Packed \ Private

\* The plan file is this drive's own from write_plan until gjc has read it.
Own == /\ \A d \in Lanes : pc[d] = "launching" => plan = [by |-> d, iter |-> iter[d]]
       /\ ImplementsOwnPlan

Frozen == {"packing", "waiting", "asking", "writing", "launching", "working", "comparing",
           "checking", "gating", "judging"}

\* From each measurement to the step that relies on it.
Trace(d) ==
    /\ ~unseen[d] /\ pc[d] \in {"probed", "freezing"} => red[d].files = files
    /\ ~unseen[d] /\ pc[d] \in Frozen => red[d].files = baseline[d]
    /\ Running(d) /\ pc[d] # "probing" => red[d].stamp <= stamp
    /\ pc[d] \in {"launching", "working", "comparing"} =>
          red[d].stamp <= before[d] /\ before[d] <= stamp
    /\ pc[d] \in {"checking", "gating"} => red[d].stamp < stamp
    /\ pc[d] = "judging" =>
          /\ red[d].stamp < seen[d].stamp
          /\ ~unseen[d] => \/ Tampering(baseline[d], seen[d].files) = {}
                           \/ seen[d].files = files

IInv == TypeOK /\ Exclusive /\ Uncounted /\ Clean /\ Own /\ PassIsEarned /\ \A d \in Lanes : Trace(d)

LEMMA InitInv == Init => IInv
<1> SUFFICES ASSUME Init PROVE IInv
  OBVIOUS
<1>1. TypeOK BY InitType
<1>2. \A d \in Lanes : pc[d] = "away" /\ phase[d] = "idle" /\ pack[d] = {}
  BY DEF Init, InitPack
<1>3. Exclusive
  BY <1>2 DEF Init, Exclusive, Running, Lock!Init
<1>9. Uncounted BY DEF Init, Uncounted
<1>4. Clean BY <1>2 DEF Clean, PackIsClean
<1>5. Own BY <1>2 DEF Own, ImplementsOwnPlan
<1>6. PassIsEarned BY <1>2 DEF PassIsEarned
<1>7. \A d \in Lanes : Trace(d) BY <1>2 DEF Trace, Running, Frozen
<1>8. QED BY <1>1, <1>3, <1>4, <1>5, <1>6, <1>7, <1>9 DEF IInv

\* Every step keeps the type invariant.
LEMMA TypeStep == TypeOK /\ Uncounted /\ Clean /\ [Next]_vars => TypeOK'
<1> SUFFICES ASSUME TypeOK, Uncounted, Clean, [Next]_vars PROVE TypeOK'
  OBVIOUS
<1> USE DEF Set, Goto
<1> DEFINE Rest == TypeOfPack' /\ TypeOfDrive' /\ TypeOfVerdicts'
<1>0. Rest => TypeOK'
  BY DEF TypeOK, TypeOfDrive, TypeOfVerdicts
<1>t. TypeOfPack /\ TypeOfDrive /\ TypeOfVerdicts
  BY TypeParts
<1>r. Reading \in Readings
  BY DEF TypeOK, Reading, Readings
<1>p. UNCHANGED <<shape, snapshot>> => TypeOfPack'
  BY <1>t DEF TypeOfPack, snapshot
<1>v. UNCHANGED verdicts => TypeOfVerdicts'
  BY <1>t DEF TypeOfVerdicts, verdicts
<1> HIDE DEF Rest
<1>1. ASSUME NEW d \in Lanes, Start(d) PROVE TypeOK'
  <2>1. TypeOfPack'
    BY <1>1, <1>p DEF Start, tree
  <2>2. TypeOfDrive'
    BY <1>1, <1>t DEF Start, TypeOfDrive, Labels, Ended, tree, Lock!Enter
  <2>3. TypeOfVerdicts'
    BY <1>1, <1>v DEF Start
  <2>4. QED BY <2>1, <2>2, <2>3, <1>0 DEF Rest
<1>2. ASSUME NEW d \in Lanes, Probe(d) PROVE TypeOK'
  <2>1. TypeOfPack'
    BY <1>2, <1>p DEF Probe, tree
  <2>2. TypeOfDrive'
    BY <1>2, <1>t DEF Probe, TypeOfDrive, Labels, tree
  <2>3. TypeOfVerdicts'
    BY <1>2, <1>t, <1>r DEF Probe, TypeOfVerdicts
  <2>4. QED BY <2>1, <2>2, <2>3, <1>0 DEF Rest
<1>3. ASSUME NEW d \in Lanes, ProbeIsRed(d) PROVE TypeOK'
  <2>1. TypeOfPack'
    BY <1>3, <1>p DEF ProbeIsRed, tree
  <2>2. TypeOfDrive'
    BY <1>3, <1>t DEF ProbeIsRed, TypeOfDrive, Labels, tree
  <2>3. TypeOfVerdicts'
    BY <1>3, <1>v DEF ProbeIsRed
  <2>4. QED BY <2>1, <2>2, <2>3, <1>0 DEF Rest
<1>4. ASSUME NEW d \in Lanes, Freeze(d) PROVE TypeOK'
  <2>1. pc[d] = "freezing" /\ Iterate(d) /\ baseline' = [baseline EXCEPT ![d] = files]
    BY <1>4 DEF Freeze
  <2>2. TypeOfPack' /\ TypeOfDrive'
    BY <2>1, IterateType DEF Uncounted
  <2>3. TypeOfVerdicts'
    BY <1>4, <1>t DEF Freeze, TypeOfVerdicts, TypeOfDrive
  <2>4. QED BY <2>1, <2>2, <2>3, <1>0 DEF Rest
<1>5. ASSUME NEW d \in Lanes, SnapshotReady(d) PROVE TypeOK'
  <2>1. TypeOfPack'
    BY <1>5, <1>p DEF SnapshotReady, tree
  <2>2. TypeOfDrive'
    BY <1>5, <1>t DEF SnapshotReady, TypeOfDrive, Labels, tree
  <2>3. TypeOfVerdicts'
    BY <1>5, <1>v DEF SnapshotReady
  <2>4. QED BY <2>1, <2>2, <2>3, <1>0 DEF Rest
<1>6. ASSUME NEW d \in Lanes, Ask(d) PROVE TypeOK'
  <2>1. TypeOfPack'
    BY <1>6, <1>p DEF Ask, tree
  <2>2. TypeOfDrive'
    BY <1>6, <1>t DEF Ask, TypeOfDrive, Labels, tree, Browser!Enter
  <2>3. TypeOfVerdicts'
    BY <1>6, <1>v DEF Ask
  <2>4. QED BY <2>1, <2>2, <2>3, <1>0 DEF Rest
<1>7. ASSUME NEW d \in Lanes, Answer(d) PROVE TypeOK'
  <2>1. TypeOfPack'
    BY <1>7, <1>t DEF Answer, TypeOfPack, DropPack, Enter, Phases, tree
  <2>2. TypeOfDrive'
    BY <1>7, <1>t DEF Answer, TypeOfDrive, Labels, tree, Browser!Leave
  <2>3. TypeOfVerdicts'
    BY <1>7, <1>v DEF Answer
  <2>4. QED BY <2>1, <2>2, <2>3, <1>0 DEF Rest
<1>8. ASSUME NEW d \in Lanes, WritePlan(d) PROVE TypeOK'
  <2>1. TypeOfPack'
    BY <1>8, <1>p DEF WritePlan, tree
  <2>2. TypeOfDrive'
    BY <1>8, <1>t DEF WritePlan, TypeOfDrive, Labels, Plans, tree
  <2>3. TypeOfVerdicts'
    BY <1>8, <1>v DEF WritePlan
  <2>4. QED BY <2>1, <2>2, <2>3, <1>0 DEF Rest
<1>9. ASSUME NEW d \in Lanes, Implement(d) PROVE TypeOK'
  <2>1. TypeOfPack'
    BY <1>9, <1>p DEF Implement, tree
  <2>2. TypeOfDrive'
    BY <1>9, <1>t DEF Implement, TypeOfDrive, Labels, tree
  <2>3. TypeOfVerdicts'
    BY <1>9, <1>v DEF Implement
  <2>4. QED BY <2>1, <2>2, <2>3, <1>0 DEF Rest
<1>10. ASSUME NEW d \in Lanes, ImplementerEdits(d) PROVE TypeOK'
  <2>1. TypeOfPack'
    BY <1>10, <1>t, EditType DEF ImplementerEdits, TypeOfPack, snapshot
  <2>2. TypeOfDrive'
    BY <1>10, <1>t, EditType DEF ImplementerEdits, TypeOfDrive
  <2>3. TypeOfVerdicts'
    BY <1>10, <1>v DEF ImplementerEdits
  <2>4. QED BY <2>1, <2>2, <2>3, <1>0 DEF Rest
<1>11. ASSUME NEW d \in Lanes, ImplementerEnds(d) PROVE TypeOK'
  <2>1. TypeOfPack'
    BY <1>11, <1>p DEF ImplementerEnds, tree
  <2>2. TypeOfDrive'
    BY <1>11, <1>t DEF ImplementerEnds, TypeOfDrive, Labels, tree
  <2>3. TypeOfVerdicts'
    BY <1>11, <1>v DEF ImplementerEnds
  <2>4. QED BY <2>1, <2>2, <2>3, <1>0 DEF Rest
<1>12. ASSUME NEW d \in Lanes, Gate(d) PROVE TypeOK'
  <2>1. TypeOfPack'
    BY <1>12, <1>p DEF Gate, tree
  <2>2. TypeOfDrive'
    BY <1>12, <1>t DEF Gate, TypeOfDrive, Labels, tree
  <2>3. TypeOfVerdicts'
    BY <1>12, <1>t, <1>r DEF Gate, TypeOfVerdicts
  <2>4. QED BY <2>1, <2>2, <2>3, <1>0 DEF Rest
<1>13. ASSUME NEW d \in Lanes, Snapshot(d) PROVE TypeOK'
  <2>1. TypeOfPack'
    BY <1>13, <1>t, PackType DEF Snapshot, Clean
  <2>2. TypeOfDrive'
    BY <1>13, <1>t DEF Snapshot, TypeOfDrive
  <2>3. TypeOfVerdicts'
    BY <1>13, <1>v DEF Snapshot
  <2>4. QED BY <2>1, <2>2, <2>3, <1>0 DEF Rest
<1>14. ASSUME NEW d \in Lanes, ProbeIsGreen(d) PROVE TypeOK'
  BY <1>14, EndType DEF ProbeIsGreen, Ended
<1>15. ASSUME NEW d \in Lanes, SnapshotRefused(d) PROVE TypeOK'
  BY <1>15, EndType DEF SnapshotRefused, Ended
<1>16. ASSUME NEW d \in Lanes, NoAnswer(d) PROVE TypeOK'
  BY <1>16, EndType DEF NoAnswer, Ended
<1>17. ASSUME NEW d \in Lanes, ImplementerFails(d) PROVE TypeOK'
  BY <1>17, EndType DEF ImplementerFails, Ended
<1>18. ASSUME NEW d \in Lanes, GateFails(d) PROVE TypeOK'
  BY <1>18, EndType DEF GateFails, Ended
<1>19. ASSUME NEW d \in Lanes, Die(d) PROVE TypeOK'
  BY <1>19, EndType DEF Die, Ended
<1>20. ASSUME NEW d \in Lanes, Compare(d) PROVE TypeOK'
  <2>1. CASE End(d, "error") BY <2>1, EndType DEF Ended
  <2>2. CASE ~End(d, "error")
    <3>1. pc' = [pc EXCEPT ![d] = "checking"] /\ UNCHANGED <<tree, snapshot, plan, iter, doing, before,
                                                   verdicts, holder, browser, runs>>
      BY <1>20, <2>2, Zenon DEF Compare
    <3>2. TypeOfPack' BY <3>1, <1>p DEF tree
    <3>3. TypeOfDrive' BY <3>1, <1>t DEF TypeOfDrive, Labels, tree
    <3>4. TypeOfVerdicts' BY <3>1, <1>v
    <3>5. QED BY <3>2, <3>3, <3>4, <1>0 DEF Rest
  <2>3. QED BY <2>1, <2>2
<1>21. ASSUME NEW d \in Lanes, Check(d) PROVE TypeOK'
  <2>1. CASE End(d, "error") BY <2>1, EndType DEF Ended
  <2>2. CASE ~End(d, "error")
    <3>1. pc' = [pc EXCEPT ![d] = "gating"] /\ UNCHANGED <<tree, snapshot, plan, iter, doing, before,
                                                   verdicts, holder, browser, runs>>
      BY <1>21, <2>2, Zenon DEF Check
    <3>2. TypeOfPack' BY <3>1, <1>p DEF tree
    <3>3. TypeOfDrive' BY <3>1, <1>t DEF TypeOfDrive, Labels, tree
    <3>4. TypeOfVerdicts' BY <3>1, <1>v
    <3>5. QED BY <3>2, <3>3, <3>4, <1>0 DEF Rest
  <2>3. QED BY <2>1, <2>2
<1>22. ASSUME NEW d \in Lanes, Judge(d) PROVE TypeOK'
  <2>1. CASE \E how \in Ended : End(d, how) BY <2>1, EndType
  <2>2. CASE iter[d] < MaxIters /\ Iterate(d) /\ UNCHANGED verdicts
    <3>1. TypeOfPack' /\ TypeOfDrive' BY <2>2, IterateType
    <3>2. TypeOfVerdicts' BY <2>2, <1>v
    <3>3. QED BY <3>1, <3>2, <1>0 DEF Rest
  <2>3. QED BY <1>22, <2>1, <2>2 DEF Judge, Verdict, Ended
<1>23. CASE BystanderEdits
  <2>1. TypeOfPack' BY <1>23, <1>t, EditType DEF BystanderEdits, TypeOfPack, snapshot
  <2>2. TypeOfDrive' BY <1>23, <1>t, EditType DEF BystanderEdits, TypeOfDrive
  <2>3. unseen' \in [Lanes -> BOOLEAN]
    <3>1. unseen \in [Lanes -> BOOLEAN] BY <1>t DEF TypeOfVerdicts
    <3>2. QED BY <1>23, <3>1, Zenon DEF BystanderEdits
  <2>4. TypeOfVerdicts' BY <1>23, <1>t, <2>3 DEF BystanderEdits, TypeOfVerdicts
  <2>5. QED BY <2>1, <2>2, <2>4, <1>0 DEF Rest
<1>24. ASSUME NEW q \in Others, OtherTakes(q) PROVE TypeOK'
  <2>1. TypeOfPack'
    BY <1>24, <1>p DEF OtherTakes, tree
  <2>2. TypeOfDrive'
    BY <1>24, <1>t DEF OtherTakes, TypeOfDrive, tree, Browser!Enter
  <2>3. TypeOfVerdicts'
    BY <1>24, <1>v DEF OtherTakes
  <2>4. QED BY <2>1, <2>2, <2>3, <1>0 DEF Rest
<1>25. ASSUME NEW q \in Others, OtherLeaves(q) PROVE TypeOK'
  <2>1. TypeOfPack'
    BY <1>25, <1>p DEF OtherLeaves, tree
  <2>2. TypeOfDrive'
    BY <1>25, <1>t DEF OtherLeaves, TypeOfDrive, tree, Browser!Leave
  <2>3. TypeOfVerdicts'
    BY <1>25, <1>v DEF OtherLeaves
  <2>4. QED BY <2>1, <2>2, <2>3, <1>0 DEF Rest
<1>26. CASE UNCHANGED vars
  <2>1. TypeOfPack' BY <1>26, <1>p DEF vars, tree
  <2>2. TypeOfDrive' BY <1>26, <1>t DEF vars, tree, TypeOfDrive
  <2>3. TypeOfVerdicts' BY <1>26, <1>v DEF vars
  <2>4. QED BY <2>1, <2>2, <2>3, <1>0 DEF Rest
<1>27. QED
  BY <1>1, <1>2, <1>3, <1>4, <1>5, <1>6, <1>7, <1>8, <1>9, <1>10, <1>11, <1>12,
     <1>13, <1>14, <1>15, <1>16, <1>17, <1>18, <1>19, <1>20, <1>21, <1>22, <1>23,
          <1>24, <1>25, <1>26
  DEF Next, LaneStep, ChildStep

\* Whatever a drive does after Start moves no other drive.
LaneMoves(d) == LaneStep(d) \/ ChildStep(d) \/ Die(d)

LEMMA OneMoves ==
  ASSUME TypeOK, NEW d \in Lanes, LaneMoves(d)
  PROVE  Running(d) /\ pc' = [pc EXCEPT ![d] = pc'[d]]
<1> USE DEF Set, Goto, Running, Ended
<1>0. pc \in [Lanes -> Labels] BY DEF TypeOK
<1>1. CASE Probe(d) BY <1>0, <1>1 DEF Probe
<1>2. CASE ProbeIsRed(d) BY <1>0, <1>2 DEF ProbeIsRed
<1>3. CASE Freeze(d) BY <1>0, <1>3 DEF Freeze, Iterate
<1>4. CASE Snapshot(d) BY <1>0, <1>4 DEF Snapshot
<1>5. CASE SnapshotReady(d) BY <1>0, <1>5 DEF SnapshotReady
<1>6. CASE Ask(d) BY <1>0, <1>6 DEF Ask
<1>7. CASE Answer(d) BY <1>0, <1>7 DEF Answer
<1>8. CASE WritePlan(d) BY <1>0, <1>8 DEF WritePlan
<1>9. CASE Implement(d) BY <1>0, <1>9 DEF Implement
<1>10. CASE ImplementerEdits(d) BY <1>0, <1>10 DEF ImplementerEdits
<1>11. CASE ImplementerEnds(d) BY <1>0, <1>11 DEF ImplementerEnds
<1>12. CASE Gate(d) BY <1>0, <1>12 DEF Gate
<1>13. CASE ProbeIsGreen(d) BY <1>0, <1>13 DEF ProbeIsGreen, End
<1>14. CASE SnapshotRefused(d) BY <1>0, <1>14 DEF SnapshotRefused, End
<1>15. CASE NoAnswer(d) BY <1>0, <1>15 DEF NoAnswer, End
<1>16. CASE ImplementerFails(d) BY <1>0, <1>16 DEF ImplementerFails, End
<1>17. CASE GateFails(d) BY <1>0, <1>17 DEF GateFails, End
<1>18. CASE Die(d) BY <1>0, <1>18 DEF Die, End
<1>19. CASE Compare(d) BY <1>0, <1>19 DEF Compare, End
<1>20. CASE Check(d) BY <1>0, <1>20 DEF Check, End
<1>21. CASE Judge(d) BY <1>0, <1>21 DEF Judge, End, Verdict, Iterate
<1>22. QED BY <1>1, <1>2, <1>3, <1>4, <1>5, <1>6, <1>7, <1>8, <1>9, <1>10, <1>11,
     <1>12, <1>13, <1>14, <1>15, <1>16, <1>17, <1>18, <1>19, <1>20, <1>21
  DEF LaneMoves, LaneStep, ChildStep

LEMMA Alone ==
  ASSUME Exclusive, NEW d \in Lanes, NEW e \in Lanes, Running(d), Running(e)
  PROVE  d = e
  BY DEF Exclusive

\* Exclusive and Uncounted are kept.
LEMMA ControlStep == TypeOK /\ Exclusive /\ Uncounted /\ [Next]_vars => Exclusive' /\ Uncounted'
<1> SUFFICES ASSUME TypeOK, Exclusive, Uncounted, [Next]_vars PROVE Exclusive' /\ Uncounted'
  OBVIOUS
<1>0. pc \in [Lanes -> Labels] /\ iter \in [Lanes -> 0..MaxIters] /\ holder \subseteq Lanes
  BY DEF TypeOK
<1> USE DEF Set, Goto, Running, Exclusive, Uncounted, Ended
<1>1. ASSUME NEW d \in Lanes, Start(d) PROVE Exclusive' /\ Uncounted'
  BY <1>0, <1>1 DEF Start, Lock!Enter
<1>e. ASSUME NEW d \in Lanes, NEW how \in Ended, End(d,
     how) PROVE Exclusive' /\ Uncounted'
  BY <1>0, <1>e DEF End, Lock!Leave
<1>i. ASSUME NEW d \in Lanes, Running(d), Iterate(d) PROVE Exclusive' /\ Uncounted'
  BY <1>0, <1>i DEF Iterate
<1>2. ASSUME NEW d \in Lanes, Probe(d) PROVE Exclusive' /\ Uncounted'
  BY <1>0, <1>2 DEF Probe
<1>3. ASSUME NEW d \in Lanes, ProbeIsRed(d) PROVE Exclusive' /\ Uncounted'
  BY <1>0, <1>3 DEF ProbeIsRed
<1>4. ASSUME NEW d \in Lanes, Freeze(d) PROVE Exclusive' /\ Uncounted'
  BY <1>4, <1>i DEF Freeze
<1>5. ASSUME NEW d \in Lanes, Snapshot(d) PROVE Exclusive' /\ Uncounted'
  BY <1>0, <1>5 DEF Snapshot
<1>6. ASSUME NEW d \in Lanes, SnapshotReady(d) PROVE Exclusive' /\ Uncounted'
  BY <1>0, <1>6 DEF SnapshotReady
<1>7. ASSUME NEW d \in Lanes, Ask(d) PROVE Exclusive' /\ Uncounted'
  BY <1>0, <1>7 DEF Ask
<1>8. ASSUME NEW d \in Lanes, Answer(d) PROVE Exclusive' /\ Uncounted'
  BY <1>0, <1>8 DEF Answer
<1>9. ASSUME NEW d \in Lanes, WritePlan(d) PROVE Exclusive' /\ Uncounted'
  BY <1>0, <1>9 DEF WritePlan
<1>10. ASSUME NEW d \in Lanes, Implement(d) PROVE Exclusive' /\ Uncounted'
  BY <1>0, <1>10 DEF Implement
<1>11. ASSUME NEW d \in Lanes, ImplementerEdits(d) PROVE Exclusive' /\ Uncounted'
  BY <1>0, <1>11 DEF ImplementerEdits
<1>12. ASSUME NEW d \in Lanes, ImplementerEnds(d) PROVE Exclusive' /\ Uncounted'
  BY <1>0, <1>12 DEF ImplementerEnds
<1>13. ASSUME NEW d \in Lanes, Gate(d) PROVE Exclusive' /\ Uncounted'
  BY <1>0, <1>13 DEF Gate
<1>14. ASSUME NEW d \in Lanes, ProbeIsGreen(d) PROVE Exclusive' /\ Uncounted'
  BY <1>14, <1>e DEF ProbeIsGreen
<1>15. ASSUME NEW d \in Lanes, SnapshotRefused(d) PROVE Exclusive' /\ Uncounted'
  BY <1>15, <1>e DEF SnapshotRefused
<1>16. ASSUME NEW d \in Lanes, NoAnswer(d) PROVE Exclusive' /\ Uncounted'
  BY <1>16, <1>e DEF NoAnswer
<1>17. ASSUME NEW d \in Lanes, ImplementerFails(d) PROVE Exclusive' /\ Uncounted'
  BY <1>17, <1>e DEF ImplementerFails
<1>18. ASSUME NEW d \in Lanes, GateFails(d) PROVE Exclusive' /\ Uncounted'
  BY <1>18, <1>e DEF GateFails
<1>19. ASSUME NEW d \in Lanes, Die(d) PROVE Exclusive' /\ Uncounted'
  BY <1>19, <1>e DEF Die
<1>20. ASSUME NEW d \in Lanes, Compare(d) PROVE Exclusive' /\ Uncounted'
  BY <1>0, <1>20, <1>e DEF Compare
<1>21. ASSUME NEW d \in Lanes, Check(d) PROVE Exclusive' /\ Uncounted'
  BY <1>0, <1>21, <1>e DEF Check
<1>22. ASSUME NEW d \in Lanes, Judge(d) PROVE Exclusive' /\ Uncounted'
  BY <1>22, <1>e, <1>i DEF Judge, Verdict
<1>23. CASE BystanderEdits BY <1>23 DEF BystanderEdits
<1>24. ASSUME NEW q \in Others,
     OtherTakes(q) \/ OtherLeaves(q) PROVE Exclusive' /\ Uncounted'
  BY <1>24 DEF OtherTakes, OtherLeaves
<1>25. CASE UNCHANGED vars BY <1>25 DEF vars
<1>26. QED
  BY <1>1, <1>2, <1>3, <1>4, <1>5, <1>6, <1>7, <1>8, <1>9, <1>10, <1>11, <1>12,
     <1>13, <1>14, <1>15, <1>16, <1>17, <1>18, <1>19, <1>20, <1>21, <1>22, <1>23,
          <1>24, <1>25
  DEF Next, LaneStep, ChildStep

\* The copy stays clean: only Copy adds to it, and Pick chooses what it adds.
LEMMA CleanStep == TypeOK /\ Clean /\ [Next]_vars => Clean'
<1> SUFFICES ASSUME TypeOK, Clean, [Next]_vars PROVE Clean'
  OBVIOUS
<1>0. TypeOfPack BY DEF TypeOK
<1> USE DEF Clean, PackIsClean
<1>u. UNCHANGED snapshot => Clean'
  BY DEF snapshot
<1>d. ASSUME NEW d \in Lanes, DropPack(d) PROVE Clean'
  BY <1>0, <1>d DEF DropPack, Enter, TypeOfPack
<1>e. ASSUME NEW d \in Lanes, NEW how \in Ended, End(d, how) PROVE Clean'
  BY <1>e, <1>d DEF End
<1>i. ASSUME NEW d \in Lanes, Iterate(d) PROVE Clean'
  BY <1>0, <1>i DEF Iterate, BeginPack, Enter, TypeOfPack
<1>s. ASSUME NEW d \in Lanes, Snapshot(d) PROVE Clean'
  <2> USE DEF TypeOfPack, Enter
  <2>1. CASE Validate(d) BY <1>0, <2>1 DEF Validate
  <2>2. CASE Copy(d)
    <3>1. current[d] \in Packed \ Private /\ shape[current[d]] # "link"
      BY <2>2 DEF Copy
    <3>2. pack' = [pack EXCEPT ![d] =
                      @ \cup {[path |-> current[d], file |-> shape[current[d]]]}]
      BY <2>2 DEF Copy, Read
    <3>3. phase' = [phase EXCEPT ![d] = "staging"] /\ UNCHANGED current
      BY <2>2 DEF Copy
    <3>4. \A e \in Lanes : \A x \in pack'[e] : x.file # "link" /\ x.path \notin Private
      BY <1>0, <3>1, <3>2
    <3>5. QED BY <1>0, <3>3, <3>4
  <2>3. CASE CopyFails(d) BY <1>0, <2>3 DEF CopyFails
  <2>4. CASE Staged(d) BY <1>0, <2>4 DEF Staged
  <2>5. ASSUME NEW p \in Packed, Pick(d, p) PROVE Clean'
    BY <1>0, <2>5 DEF Pick
  <2>6. ASSUME NEW p \in Packed, Refuse(d, p) PROVE Clean'
    BY <1>0, <2>6 DEF Refuse
  <2>7. ASSUME NEW p \in Packed, PassOver(d, p) PROVE Clean'
    BY <1>0, <2>7 DEF PassOver
  <2>8. QED BY <1>s, <2>1, <2>2, <2>3, <2>4, <2>5, <2>6, <2>7 DEF Snapshot, PackStep
<1>1. ASSUME NEW d \in Lanes, Start(d) PROVE Clean'
  BY <1>1, <1>u DEF Start
<1>2. ASSUME NEW d \in Lanes, LaneMoves(d) PROVE Clean'
  <2>1. CASE Probe(d) BY <2>1, <1>u DEF Probe
  <2>2. CASE ProbeIsRed(d) BY <2>2, <1>u DEF ProbeIsRed
  <2>3. CASE Freeze(d) BY <2>3, <1>i DEF Freeze
  <2>4. CASE SnapshotReady(d) BY <2>4, <1>u DEF SnapshotReady
  <2>5. CASE Ask(d) BY <2>5, <1>u DEF Ask
  <2>6. CASE Answer(d) BY <2>6, <1>d DEF Answer
  <2>7. CASE WritePlan(d) BY <2>7, <1>u DEF WritePlan
  <2>8. CASE Implement(d) BY <2>8, <1>u DEF Implement
  <2>9. CASE ImplementerEdits(d) BY <2>9, <1>u DEF ImplementerEdits
  <2>10. CASE ImplementerEnds(d) BY <2>10, <1>u DEF ImplementerEnds
  <2>11. CASE Gate(d) BY <2>11, <1>u DEF Gate
  <2>12. CASE ProbeIsGreen(d) BY <2>12, <1>e DEF ProbeIsGreen, Ended
  <2>13. CASE SnapshotRefused(d) BY <2>13, <1>e DEF SnapshotRefused, Ended
  <2>14. CASE NoAnswer(d) BY <2>14, <1>e DEF NoAnswer, Ended
  <2>15. CASE ImplementerFails(d) BY <2>15, <1>e DEF ImplementerFails, Ended
  <2>16. CASE GateFails(d) BY <2>16, <1>e DEF GateFails, Ended
  <2>17. CASE Die(d) BY <2>17, <1>e DEF Die, Ended
  <2>18. CASE Compare(d) BY <2>18, <1>e, <1>u DEF Compare, Ended
  <2>19. CASE Check(d) BY <2>19, <1>e, <1>u DEF Check, Ended
  <2>20. CASE Judge(d) BY <2>20, <1>e, <1>i DEF Judge, Verdict, Ended
  <2>21. QED
    BY <1>2, <1>s, <2>1, <2>2, <2>3, <2>4, <2>5, <2>6, <2>7, <2>8, <2>9, <2>10,
       <2>11, <2>12, <2>13, <2>14, <2>15, <2>16, <2>17, <2>18, <2>19, <2>20
    DEF LaneMoves, LaneStep, ChildStep
<1>3. CASE BystanderEdits BY <1>3, <1>u DEF BystanderEdits
<1>4. ASSUME NEW q \in Others, OtherTakes(q) \/ OtherLeaves(q) PROVE Clean'
  BY <1>4, <1>u DEF OtherTakes, OtherLeaves
<1>5. CASE UNCHANGED vars BY <1>5, <1>u DEF vars
<1>6. QED BY <1>1, <1>2, <1>3, <1>4, <1>5 DEF Next, LaneMoves

OwnOf(d) == /\ pc[d] = "launching" => plan = [by |-> d, iter |-> iter[d]]
            /\ pc[d] = "working" => doing[d] = [by |-> d, iter |-> iter[d]]

\* A drive at rest has nothing to lose, and keeps what a PASS rests on.
LEMMA AtRest ==
  ASSUME NEW e \in Lanes, ~Running(e)
  PROVE  Trace(e) /\ OwnOf(e)
  BY DEF Trace, OwnOf, Running, Ended, Frozen

\* The others while one drive moves.
LEMMA Elsewhere ==
  ASSUME TypeOK, Exclusive, NEW d \in Lanes, NEW e \in Lanes, e # d, LaneMoves(d)
  PROVE  (Trace(e) /\ OwnOf(e))'
<1>1. Running(d) /\ pc' = [pc EXCEPT ![d] = pc'[d]]
  BY OneMoves
<1>2. ~Running(e)
  BY <1>1, Alone
<1>3. pc'[e] = pc[e]
  BY <1>1 DEF TypeOK
<1>4. ~Running(e)'
  BY <1>2, <1>3 DEF Running
<1>5. QED BY <1>4, Zenon DEF Trace, OwnOf, Running, Ended, Frozen

LEMMA OwnMoves ==
  ASSUME TypeOK, NEW d \in Lanes, OwnOf(d), LaneMoves(d)
  PROVE  OwnOf(d)'
<1>0. pc \in [Lanes -> Labels] /\ doing \in [Lanes -> Plans] /\ iter \in [Lanes -> 0..MaxIters]
  BY DEF TypeOK
<1> USE DEF Set, Goto, OwnOf, Ended
<1>e. ASSUME NEW how \in Ended, End(d, how) PROVE OwnOf(d)'
  BY <1>0, <1>e DEF End
<1>i. ASSUME Iterate(d) PROVE OwnOf(d)'
  BY <1>0, <1>i DEF Iterate
<1>1. CASE Probe(d) BY <1>0, <1>1 DEF Probe
<1>2. CASE ProbeIsRed(d) BY <1>0, <1>2 DEF ProbeIsRed
<1>3. CASE Freeze(d) BY <1>3, <1>i DEF Freeze
<1>4. CASE Snapshot(d) BY <1>0, <1>4 DEF Snapshot
<1>5. CASE SnapshotReady(d) BY <1>0, <1>5 DEF SnapshotReady
<1>6. CASE Ask(d) BY <1>0, <1>6 DEF Ask
<1>7. CASE Answer(d) BY <1>0, <1>7 DEF Answer
<1>8. CASE WritePlan(d) BY <1>0, <1>8 DEF WritePlan
<1>9. CASE Implement(d) BY <1>0, <1>9 DEF Implement
<1>10. CASE ImplementerEdits(d) BY <1>0, <1>10 DEF ImplementerEdits
<1>11. CASE ImplementerEnds(d) BY <1>0, <1>11 DEF ImplementerEnds
<1>12. CASE Gate(d) BY <1>0, <1>12 DEF Gate
<1>13. CASE ProbeIsGreen(d) BY <1>13, <1>e DEF ProbeIsGreen
<1>14. CASE SnapshotRefused(d) BY <1>14, <1>e DEF SnapshotRefused
<1>15. CASE NoAnswer(d) BY <1>15, <1>e DEF NoAnswer
<1>16. CASE ImplementerFails(d) BY <1>16, <1>e DEF ImplementerFails
<1>17. CASE GateFails(d) BY <1>17, <1>e DEF GateFails
<1>18. CASE Die(d) BY <1>18, <1>e DEF Die
<1>19. CASE Compare(d) BY <1>0, <1>19, <1>e DEF Compare
<1>20. CASE Check(d) BY <1>0, <1>20, <1>e DEF Check
<1>21. CASE Judge(d) BY <1>21, <1>e, <1>i DEF Judge, Verdict
<1>22. QED BY <1>1, <1>2, <1>3, <1>4, <1>5, <1>6, <1>7, <1>8, <1>9, <1>10, <1>11,
     <1>12, <1>13, <1>14, <1>15, <1>16, <1>17, <1>18, <1>19, <1>20, <1>21
  DEF LaneMoves, LaneStep, ChildStep

LEMMA TraceMoves ==
  ASSUME TypeOK, NEW d \in Lanes, Trace(d), LaneMoves(d)
  PROVE  Trace(d)'
<1>0. /\ pc \in [Lanes -> Labels] /\ before \in [Lanes -> 0..Edits] /\ stamp \in 0..Edits
      /\ red \in [Lanes -> Readings] /\ seen \in [Lanes -> Readings]
      /\ baseline \in [Lanes -> [Verification -> Contents]]
      /\ unseen \in [Lanes -> BOOLEAN]
  BY DEF TypeOK
<1>s. red[d].stamp \in Nat /\ seen[d].stamp \in Nat /\ before[d] \in Nat /\ stamp \in Nat
  BY <1>0 DEF Readings
<1> USE DEF Set, Goto, Trace, Running, Frozen, Ended, tree, verdicts
<1>e. ASSUME NEW how \in Ended, End(d, how) PROVE Trace(d)'
  BY <1>0, <1>e DEF End
<1>i. ASSUME Iterate(d), pc[d] \in {"freezing", "judging"}, UNCHANGED <<red, unseen>>,
             ~unseen[d] => red[d].files = baseline'[d]
      PROVE  Trace(d)'
  BY <1>0, <1>i DEF Iterate
<1>1. CASE Probe(d) BY <1>0, <1>s, <1>1 DEF Probe, Reading
<1>2. CASE ProbeIsRed(d) BY <1>0, <1>s, <1>2 DEF ProbeIsRed
<1>3. CASE Freeze(d) BY <1>0, <1>3, <1>i DEF Freeze
<1>4. CASE Snapshot(d) BY <1>0, <1>s, <1>4 DEF Snapshot
<1>5. CASE SnapshotReady(d) BY <1>0, <1>s, <1>5 DEF SnapshotReady
<1>6. CASE Ask(d) BY <1>0, <1>s, <1>6 DEF Ask
<1>7. CASE Answer(d) BY <1>0, <1>s, <1>7 DEF Answer
<1>8. CASE WritePlan(d) BY <1>0, <1>s, <1>8 DEF WritePlan
<1>9. CASE Implement(d) BY <1>0, <1>s, <1>9 DEF Implement
<1>10. CASE ImplementerEdits(d) BY <1>0, <1>s, <1>10 DEF ImplementerEdits, EditTree
<1>11. CASE ImplementerEnds(d) BY <1>0, <1>s, <1>11 DEF ImplementerEnds
<1>12. CASE Gate(d) BY <1>0, <1>s, <1>12 DEF Gate, Reading
<1>13. CASE ProbeIsGreen(d) BY <1>13, <1>e DEF ProbeIsGreen
<1>14. CASE SnapshotRefused(d) BY <1>14, <1>e DEF SnapshotRefused
<1>15. CASE NoAnswer(d) BY <1>15, <1>e DEF NoAnswer
<1>16. CASE ImplementerFails(d) BY <1>16, <1>e DEF ImplementerFails
<1>17. CASE GateFails(d) BY <1>17, <1>e DEF GateFails
<1>18. CASE Die(d) BY <1>18, <1>e DEF Die
<1>19. CASE Compare(d)
  <2>1. CASE stamp = before[d] BY <1>19, <2>1, <1>e DEF Compare
  <2>2. CASE stamp # before[d]
    <3>1. /\ pc[d] = "comparing" /\ pc' = [pc EXCEPT ![d] = "checking"]
          /\ UNCHANGED <<files, stamp, baseline, red, seen, unseen>>
      BY <1>19, <2>2 DEF Compare
    <3>2. red[d].stamp < stamp
      BY <3>1, <2>2, <1>s
    <3>3. QED BY <1>0, <3>1, <3>2, <1>s
  <2>3. QED BY <2>1, <2>2
<1>20. CASE Check(d) BY <1>0, <1>s, <1>20, <1>e DEF Check
<1>21. CASE Judge(d) BY <1>21, <1>e, <1>i DEF Judge, Verdict
<1>22. QED BY <1>1, <1>2, <1>3, <1>4, <1>5, <1>6, <1>7, <1>8, <1>9, <1>10, <1>11,
     <1>12, <1>13, <1>14, <1>15, <1>16, <1>17, <1>18, <1>19, <1>20, <1>21
  DEF LaneMoves, LaneStep, ChildStep

LEMMA BystanderTrace ==
  ASSUME TypeOK, NEW d \in Lanes, Trace(d), BystanderEdits
  PROVE  Trace(d)'
<1>0. /\ stamp \in Nat /\ stamp' = stamp + 1
      /\ red[d].stamp \in Nat /\ seen[d].stamp \in Nat /\ before[d] \in Nat
  BY DEF TypeOK, Readings, BystanderEdits, EditTree
<1>1. UNCHANGED <<pc, before, baseline, red, seen>>
  BY DEF BystanderEdits
<1>2. unseen'[d] = (unseen[d] \/ (files' # files /\ LeavesNoTrace(d)))
  BY DEF BystanderEdits
<1>3. ~unseen'[d] => ~unseen[d]
  BY <1>2
<1>4. ~unseen'[d] /\ pc[d] \in {"probed", "freezing"} => files' = files
  BY <1>2 DEF LeavesNoTrace
<1>5. ~unseen'[d] /\ pc[d] = "judging" =>
         files' = files \/ Tampering(baseline[d], seen[d].files) = {}
  BY <1>2 DEF LeavesNoTrace
<1>6. (~unseen[d] /\ pc[d] \in {"probed", "freezing"} => red[d].files = files)'
  BY <1>1, <1>3, <1>4 DEF Trace
<1>7. (~unseen[d] /\ pc[d] \in Frozen => red[d].files = baseline[d])'
  BY <1>1, <1>3 DEF Trace, Frozen
<1>8. (/\ Running(d) /\ pc[d] # "probing" => red[d].stamp <= stamp
       /\ pc[d] \in {"launching", "working", "comparing"} =>
             red[d].stamp <= before[d] /\ before[d] <= stamp
       /\ pc[d] \in {"checking", "gating"} => red[d].stamp < stamp)'
  BY <1>0, <1>1 DEF Trace, Running
<1>9. (pc[d] = "judging" =>
          /\ red[d].stamp < seen[d].stamp
          /\ ~unseen[d] => \/ Tampering(baseline[d], seen[d].files) = {}
                           \/ seen[d].files = files)'
  <2>1. (pc[d] = "judging" => red[d].stamp < seen[d].stamp)'
    BY <1>1 DEF Trace
  <2>2. ASSUME pc[d] = "judging", ~unseen'[d]
        PROVE  Tampering(baseline[d], seen[d].files) = {} \/ seen[d].files = files'
    BY <1>3, <1>5, <2>2 DEF Trace
  <2>3. (Tampering(baseline[d], seen[d].files))' = Tampering(baseline[d], seen[d].files)
    BY <1>1 DEF Tampering
  <2>4. QED BY <1>1, <2>1, <2>2, <2>3
<1>10. QED BY <1>6, <1>7, <1>8, <1>9 DEF Trace

LEMMA EarnedMoves ==
  ASSUME TypeOK, NEW d \in Lanes, Trace(d), LaneMoves(d), PassIsEarned
  PROVE  PassIsEarned'
<1>0. /\ pc \in [Lanes -> Labels]
      /\ red \in [Lanes -> Readings] /\ seen \in [Lanes -> Readings]
      /\ unseen \in [Lanes -> BOOLEAN]
  BY DEF TypeOK
<1> USE DEF Set, Goto, PassIsEarned, verdicts
<1>e. ASSUME NEW how \in Ended \ {"passed"}, End(d, how) PROVE PassIsEarned'
  BY <1>0, <1>e DEF End
<1>i. ASSUME Iterate(d), UNCHANGED <<red, seen, unseen>> PROVE PassIsEarned'
  BY <1>0, <1>i DEF Iterate
<1>p. ASSUME pc[d] = "judging", Tampering(baseline[d], files) = {}, End(d, "passed")
      PROVE  PassIsEarned'
  <2>1. UNCHANGED <<red, seen, unseen>> /\ pc' = [pc EXCEPT ![d] = "passed"]
    BY <1>p DEF End
  <2>2. ASSUME ~unseen[d]
        PROVE  Tampering(red[d].files, seen[d].files) = {} /\ red[d].stamp < seen[d].stamp
    BY <1>p, <2>2 DEF Trace, Frozen
  <2>3. (Tampering(red[d].files, seen[d].files))' = Tampering(red[d].files,
       seen[d].files)
    BY <2>1 DEF Tampering
  <2>4. QED BY <1>0, <2>1, <2>2, <2>3
<1>r. ASSUME UNCHANGED <<seen, unseen>>, NEW v, red' = [red EXCEPT ![d] = v],
             pc' = [pc EXCEPT ![d] = "probed"]
      PROVE  PassIsEarned'
  BY <1>0, <1>r
<1>g. ASSUME UNCHANGED <<red, unseen>>, NEW v, seen' = [seen EXCEPT ![d] = v],
             pc' = [pc EXCEPT ![d] = "judging"]
      PROVE  PassIsEarned'
  BY <1>0, <1>g
<1>1. CASE Probe(d) BY <1>1, <1>r DEF Probe
<1>2. CASE ProbeIsRed(d) BY <1>0, <1>2 DEF ProbeIsRed
<1>3. CASE Freeze(d) BY <1>3, <1>i DEF Freeze
<1>4. CASE Snapshot(d) BY <1>0, <1>4 DEF Snapshot
<1>5. CASE SnapshotReady(d) BY <1>0, <1>5 DEF SnapshotReady
<1>6. CASE Ask(d) BY <1>0, <1>6 DEF Ask
<1>7. CASE Answer(d) BY <1>0, <1>7 DEF Answer
<1>8. CASE WritePlan(d) BY <1>0, <1>8 DEF WritePlan
<1>9. CASE Implement(d) BY <1>0, <1>9 DEF Implement
<1>10. CASE ImplementerEdits(d) BY <1>0, <1>10 DEF ImplementerEdits
<1>11. CASE ImplementerEnds(d) BY <1>0, <1>11 DEF ImplementerEnds
<1>12. CASE Gate(d) BY <1>12, <1>g DEF Gate
<1>13. CASE ProbeIsGreen(d) BY <1>13, <1>e DEF ProbeIsGreen, Ended
<1>14. CASE SnapshotRefused(d) BY <1>14, <1>e DEF SnapshotRefused, Ended
<1>15. CASE NoAnswer(d) BY <1>15, <1>e DEF NoAnswer, Ended
<1>16. CASE ImplementerFails(d) BY <1>16, <1>e DEF ImplementerFails, Ended
<1>17. CASE GateFails(d) BY <1>17, <1>e DEF GateFails, Ended
<1>18. CASE Die(d) BY <1>18, <1>e DEF Die, Ended
<1>19. CASE Compare(d) BY <1>0, <1>19, <1>e DEF Compare, Ended
<1>20. CASE Check(d) BY <1>0, <1>20, <1>e DEF Check, Ended
<1>21. CASE Judge(d) BY <1>21, <1>e, <1>i, <1>p DEF Judge, Verdict, Ended
<1>22. QED BY <1>1, <1>2, <1>3, <1>4, <1>5, <1>6, <1>7, <1>8, <1>9, <1>10, <1>11,
     <1>12, <1>13, <1>14, <1>15, <1>16, <1>17, <1>18, <1>19, <1>20, <1>21
  DEF LaneMoves, LaneStep, ChildStep

\* The inductive invariant is kept.
LEMMA Induct == IInv /\ [Next]_vars => IInv'
<1> SUFFICES ASSUME IInv, [Next]_vars PROVE IInv'
  OBVIOUS
<1> USE DEF IInv
<1>1. TypeOK' BY TypeStep
<1>2. Exclusive' /\ Uncounted' BY ControlStep
<1>3. Clean' BY CleanStep
<1>o. Own <=> \A d \in Lanes : OwnOf(d)
  BY DEF Own, OwnOf, ImplementsOwnPlan
<1> DEFINE Rest == PassIsEarned /\ \A d \in Lanes : Trace(d) /\ OwnOf(d)
<1>4. Rest'
  <2>1. ASSUME NEW d \in Lanes, Start(d) PROVE Rest'
    <3>1. /\ UNCHANGED <<tree, plan, iter, doing, before, verdicts>>
          /\ pc[d] = "away"
          /\ pc' = [pc EXCEPT ![d] = "probing"] \/ pc' = [pc EXCEPT ![d] = "busy"]
      BY <2>1 DEF Start, Goto, Set
    <3>2. PassIsEarned'
      BY <3>1 DEF PassIsEarned, TypeOK, verdicts, Tampering
    <3>3. ASSUME NEW e \in Lanes, e # d PROVE (Trace(e) /\ OwnOf(e))'
      <4>1. pc'[e] = pc[e] BY <3>1, <3>3 DEF TypeOK
      <4>2. OwnOf(e)' BY <1>o, <3>1, <4>1 DEF OwnOf
      <4>3. Trace(e)'
        BY <3>1, <4>1 DEF Trace, Running, tree, verdicts, Tampering
      <4>4. QED BY <4>2, <4>3
    <3>4. (Trace(d) /\ OwnOf(d))'
      BY <3>1 DEF Trace, OwnOf, Running, Ended, Frozen, TypeOK
    <3>5. QED BY <3>2, <3>3, <3>4
  <2>2. ASSUME NEW d \in Lanes, LaneMoves(d) PROVE Rest'
    <3>1. PassIsEarned' BY <2>2, EarnedMoves
    <3>2. (Trace(d) /\ OwnOf(d))' BY <1>o, <2>2, TraceMoves, OwnMoves
    <3>3. \A e \in Lanes : e # d => (Trace(e) /\ OwnOf(e))' BY <2>2, Elsewhere
    <3>4. QED BY <3>1, <3>2, <3>3
  <2>3. CASE BystanderEdits
    <3>1. UNCHANGED <<pc, plan, iter, doing, red, seen>> BY <2>3 DEF BystanderEdits
    <3>2. \A d \in Lanes : OwnOf(d)' BY <1>o, <3>1 DEF OwnOf
    <3>3. \A d \in Lanes : Trace(d)' BY <2>3, BystanderTrace
    <3>4. \A d \in Lanes : ~unseen'[d] => ~unseen[d] BY <2>3 DEF BystanderEdits
    <3>5. PassIsEarned' BY <3>1, <3>4 DEF PassIsEarned, Tampering
    <3>6. QED BY <3>2, <3>3, <3>5
  <2>4. ASSUME UNCHANGED <<tree, plan, pc, iter, doing, before, verdicts>> PROVE Rest'
    <3>1. PassIsEarned' BY <2>4 DEF PassIsEarned, verdicts, Tampering
    <3>2. ASSUME NEW e \in Lanes PROVE (Trace(e) /\ OwnOf(e))'
      <4>1. OwnOf(e)' BY <1>o, <2>4 DEF OwnOf
      <4>2. Trace(e)' BY <2>4 DEF Trace, Running, tree, verdicts, Tampering
      <4>3. QED BY <4>1, <4>2
    <3>3. QED BY <3>1, <3>2
  <2>5. ASSUME NEW q \in Others, OtherTakes(q) \/ OtherLeaves(q) PROVE Rest'
    BY <2>5, <2>4 DEF OtherTakes, OtherLeaves
  <2>6. CASE UNCHANGED vars BY <2>6, <2>4 DEF vars
  <2>7. QED BY <2>1, <2>2, <2>3, <2>5, <2>6 DEF Next, LaneMoves
<1>5. Own' BY <1>4 DEF Own, OwnOf, ImplementsOwnPlan
<1>6. QED BY <1>1, <1>2, <1>3, <1>4, <1>5

-----------------------------------------------------------------------------
(* The theorems.                                                           *)

\* IInv holds in every reachable state.
THEOREM Invariance == Spec => []IInv
<1>1. Init => IInv BY InitInv
<1>2. IInv /\ [Next]_vars => IInv' BY Induct
<1>3. QED BY <1>1, <1>2, PTL DEF Spec

\* Type correctness.
THEOREM TypeCorrect == Spec => []TypeOK
<1>1. IInv => TypeOK BY DEF IInv
<1>2. QED BY <1>1, Invariance, PTL

\* At most one drive of a root is between its start and its end, and that one
\* is inside drive.lock.
THEOREM OneDriveAtATime == Spec => []Exclusive
<1>1. IInv => Exclusive BY DEF IInv
<1>2. QED BY <1>1, Invariance, PTL

\* An implementer works on the plan of its own drive and iteration.
THEOREM PlansAreOwn == Spec => []ImplementsOwnPlan
<1>1. IInv => ImplementsOwnPlan BY DEF IInv, Own
<1>2. QED BY <1>1, Invariance, PTL

\* A PASS rests on the verification that was red before any work.
THEOREM PassesAreEarned == Spec => []PassIsEarned
<1>1. IInv => PassIsEarned BY DEF IInv
<1>2. QED BY <1>1, Invariance, PTL

\* Nothing is in a pack under a private name or in the place of a link, whatever
\* becomes of the worktree, directories on the way to a file included.
THEOREM PacksAreClean == Spec => []PackIsClean
<1>1. IInv => PackIsClean BY DEF IInv, Clean
<1>2. QED BY <1>1, Invariance, PTL

-----------------------------------------------------------------------------
(* The locks.                                                              *)

\* The steps of a drive that take and leave neither lock, count no iteration
\* and do not end it: those that lead on, and those that stay where they are.
Edges == {<<"probing", "probed">>, <<"probed", "freezing">>, <<"packing", "waiting">>,
          <<"writing", "launching">>, <<"launching", "working">>, <<"working", "comparing">>,
          <<"comparing", "checking">>, <<"checking", "gating">>, <<"gating", "judging">>}

Walks(d) == /\ \E e \in Edges : pc[d] = e[1] /\ pc' = [pc EXCEPT ![d] = e[2]]
            /\ UNCHANGED <<iter, phase, todo, holder, browser>>

Stays(d) == /\ Snapshot(d) \/ (ImplementerEdits(d) /\ UNCHANGED <<phase, todo>>)
            /\ UNCHANGED <<pc, iter, holder, browser>>

Ends(d) == \E how \in Ended : End(d, how)

\* What a drive can do after Start, as far as locks and iterations go.
LEMMA Flow ==
  ASSUME TypeOK, NEW d \in Lanes, LaneMoves(d)
  PROVE  \/ Ends(d) \/ Ask(d) \/ Answer(d) \/ Walks(d) \/ Stays(d)
         \/ pc[d] \in {"freezing", "judging"} /\ Iterate(d)
<1> USE DEF Goto, Set
<1>0. pc \in [Lanes -> Labels] BY DEF TypeOK
<1> DEFINE Step(a, b) == /\ pc[d] = a /\ pc' = [pc EXCEPT ![d] = b]
                         /\ UNCHANGED <<iter, phase, todo, holder, browser>>
<1>w. ASSUME NEW a, NEW b, <<a, b>> \in Edges, Step(a, b) PROVE Walks(d)
  <2>1. <<a, b>>[1] = a /\ <<a, b>>[2] = b OBVIOUS
  <2>2. QED BY <1>w, <2>1 DEF Walks
<1> HIDE DEF Step
<1>1. CASE Probe(d)
  <2>1. Step("probing", "probed") BY <1>1 DEF Probe, Step, snapshot
  <2>2. QED BY <2>1, <1>w DEF Edges
<1>2. CASE ProbeIsRed(d)
  <2>1. Step("probed", "freezing") BY <1>2 DEF ProbeIsRed, Step, snapshot
  <2>2. QED BY <2>1, <1>w DEF Edges
<1>3. CASE Freeze(d) BY <1>3 DEF Freeze
<1>4. CASE Snapshot(d) BY <1>4 DEF Snapshot, Stays
<1>5. CASE SnapshotReady(d)
  <2>1. Step("packing", "waiting") BY <1>5 DEF SnapshotReady, Step, snapshot
  <2>2. QED BY <2>1, <1>w DEF Edges
<1>6. CASE Ask(d) \/ Answer(d) BY <1>6
<1>8. CASE WritePlan(d)
  <2>1. Step("writing", "launching") BY <1>8 DEF WritePlan, Step, snapshot
  <2>2. QED BY <2>1, <1>w DEF Edges
<1>9. CASE Implement(d)
  <2>1. Step("launching", "working") BY <1>9 DEF Implement, Step, snapshot
  <2>2. QED BY <2>1, <1>w DEF Edges
<1>10. CASE ImplementerEdits(d) BY <1>10 DEF ImplementerEdits, Stays, snapshot
<1>11. CASE ImplementerEnds(d)
  <2>1. Step("working", "comparing") BY <1>11 DEF ImplementerEnds, Step, snapshot
  <2>2. QED BY <2>1, <1>w DEF Edges
<1>12. CASE Gate(d)
  <2>1. Step("gating", "judging") BY <1>12 DEF Gate, Step, snapshot
  <2>2. QED BY <2>1, <1>w DEF Edges
<1>13. CASE \/ ProbeIsGreen(d) \/ SnapshotRefused(d) \/ NoAnswer(d) \/ ImplementerFails(d)
             \/ GateFails(d) \/ Die(d)
  BY <1>13 DEF ProbeIsGreen, SnapshotRefused, NoAnswer, ImplementerFails, GateFails, Die,
     Ends, Ended
<1>14. CASE Compare(d)
  <2>1. Ends(d) \/ Step("comparing", "checking")
    BY <1>14 DEF Compare, Step, Ends, Ended, snapshot
  <2>2. QED BY <2>1, <1>w DEF Edges
<1>15. CASE Check(d)
  <2>1. Ends(d) \/ Step("checking", "gating")
    BY <1>15 DEF Check, Step, Ends, Ended, snapshot
  <2>2. QED BY <2>1, <1>w DEF Edges
<1>16. CASE Judge(d) BY <1>16 DEF Judge, Verdict, Ends, Ended
<1>17. QED
  BY <1>1, <1>2, <1>3, <1>4, <1>5, <1>6, <1>8, <1>9, <1>10, <1>11, <1>12, <1>13, <1>14,
     <1>15, <1>16
  DEF LaneMoves, LaneStep, ChildStep

\* What everybody else can do to the locks.
LEMMA WorldFlow ==
  ASSUME [Next]_vars
  PROVE  \/ \E d \in Lanes : Start(d) \/ LaneMoves(d)
         \/ \E o \in Others : OtherTakes(o) \/ OtherLeaves(o)
         \/ UNCHANGED <<pc, iter, phase, todo, holder, browser>>
  BY DEF Next, LaneMoves, BystanderEdits, vars, snapshot

\* Whoever is inside the browser lock among the drives is asking, and the other
\* way round.
InBrowser == \A d \in Lanes : d \in browser <=> pc[d] = "asking"

LEMMA InBrowserStep == TypeOK /\ InBrowser /\ [Next]_vars => InBrowser'
<1> SUFFICES ASSUME TypeOK, InBrowser, [Next]_vars PROVE InBrowser'
  OBVIOUS
<1> USE DEF InBrowser, Goto, Set
<1>0. pc \in [Lanes -> Labels] /\ Lanes \cap Others = {} BY DEF TypeOK
<1>1. ASSUME NEW d \in Lanes, Start(d) PROVE InBrowser'
  BY <1>0, <1>1 DEF Start
<1>2. ASSUME NEW d \in Lanes, LaneMoves(d) PROVE InBrowser'
  <2>1. CASE Ends(d) BY <1>0, <2>1 DEF Ends, End, Ended
  <2>2. CASE Ask(d) BY <1>0, <2>2 DEF Ask, Browser!Enter
  <2>3. CASE Answer(d) BY <1>0, <2>3 DEF Answer, Browser!Leave
  <2>4. CASE Walks(d) BY <1>0, <2>4 DEF Walks, Edges
  <2>5. CASE pc[d] \in {"freezing", "judging"} /\ Iterate(d) BY <1>0, <2>5 DEF Iterate
  <2>6. CASE Stays(d) BY <2>6 DEF Stays
  <2>7. QED BY <1>2, <2>1, <2>2, <2>3, <2>4, <2>5, <2>6, Flow
<1>3. ASSUME NEW o \in Others, OtherTakes(o) \/ OtherLeaves(o) PROVE InBrowser'
  BY <1>0, <1>3 DEF OtherTakes, OtherLeaves, Browser!Enter, Browser!Leave
<1>4. CASE UNCHANGED <<pc, browser>> BY <1>4
<1>5. QED BY <1>1, <1>2, <1>3, <1>4, WorldFlow

\* A drive is inside the browser lock exactly while it asks for a plan.
THEOREM BrowserIsAskers == Spec => []InBrowser
<1>1. Init => InBrowser BY DEF Init, InBrowser, Browser!Init
<1>2. QED BY <1>1, InBrowserStep, TypeCorrect, PTL DEF Spec

\* The two locks are taken in one order: who waits for the browser, or is inside,
\* has drive.lock and is the only drive of the root that does.
LocksInOrder ==
    \A d \in Lanes : pc[d] = "waiting" \/ d \in browser => holder = {d}

\* drive.lock is only asked for without waiting (Start), and whoever waits for the
\* browser has it in hand and is alone of its root: the waits close no circle.
THEOREM LocksTakenInOrder == Spec => []LocksInOrder
<1>1. IInv /\ InBrowser => LocksInOrder
  BY DEF IInv, InBrowser, Exclusive, LocksInOrder, Running, Ended
<1>2. QED BY <1>1, Invariance, BrowserIsAskers, PTL

\* Every step is one of drive.lock or leaves it alone.
LEMMA LockSimulation == TypeOK /\ [Next]_vars => [Lock!Next]_holder
<1> SUFFICES ASSUME TypeOK, [Next]_vars PROVE [Lock!Next]_holder
  OBVIOUS
<1>1. ASSUME NEW d \in Lanes, Start(d) PROVE [Lock!Next]_holder
  BY <1>1 DEF Start, Lock!Next
<1>2. ASSUME NEW d \in Lanes, LaneMoves(d) PROVE [Lock!Next]_holder
  <2>1. CASE Ends(d) BY <2>1 DEF Ends, End, Lock!Next
  <2>2. UNCHANGED holder \/ Ends(d)
    BY <1>2, Flow DEF Ask, Answer, Walks, Stays, Iterate
  <2>3. QED BY <2>1, <2>2
<1>3. ASSUME NEW o \in Others, OtherTakes(o) \/ OtherLeaves(o) PROVE UNCHANGED holder
  BY <1>3 DEF OtherTakes, OtherLeaves
<1>4. QED BY <1>1, <1>2, <1>3, WorldFlow

\* Every step is one of the browser lock or leaves it alone.
LEMMA BrowserSimulation == TypeOK /\ [Next]_vars => [Browser!Next]_browser
<1> SUFFICES ASSUME TypeOK, [Next]_vars PROVE [Browser!Next]_browser
  OBVIOUS
<1>1. ASSUME NEW d \in Lanes, LaneMoves(d) PROVE [Browser!Next]_browser
  <2>1. CASE Ends(d)
    <3>1. browser' = browser \ {d} BY <2>1 DEF Ends, End
    <3>2. CASE d \in browser BY <3>1, <3>2 DEF Browser!Next, Browser!Leave
    <3>3. CASE d \notin browser BY <3>1, <3>3
    <3>4. QED BY <3>2, <3>3
  <2>2. CASE Ask(d) BY <2>2 DEF Ask, Browser!Next
  <2>3. CASE Answer(d) BY <2>3 DEF Answer, Browser!Next
  <2>4. CASE Walks(d) \/ Stays(d) BY <2>4 DEF Walks, Stays
  <2>5. CASE Iterate(d) BY <2>5 DEF Iterate
  <2>6. QED BY <1>1, <2>1, <2>2, <2>3, <2>4, <2>5, Flow
<1>2. ASSUME NEW o \in Others, OtherTakes(o) \/ OtherLeaves(o) PROVE [Browser!Next]_browser
  BY <1>2 DEF OtherTakes, OtherLeaves, Browser!Next
<1>3. ASSUME NEW d \in Lanes, Start(d) PROVE UNCHANGED browser
  BY <1>3 DEF Start
<1>4. QED BY <1>1, <1>2, <1>3, WorldFlow

\* A drive uses drive.lock and the browser lock as Mutex promises, on every way
\* out of `lane drive` and when it is killed.
LEMMA LocksUsedAsPromised == Spec => Lock!Spec /\ Browser!Spec
<1>1. Init => Lock!Init /\ Browser!Init BY DEF Init
<1>2. QED
  BY <1>1, LockSimulation, BrowserSimulation, TypeCorrect, PTL
  DEF Spec, Lock!Spec, Browser!Spec

BrowserLaws == INSTANCE MutexProofs WITH Procs <- Lanes \cup Others, inside <- browser

\* One process of the machine is inside the browser lock, and while a drive is
\* nobody else comes in: its pack is sent alone.
THEOREM AsksAlone ==
    Spec => [](\A d \in Lanes : pc[d] = "asking" => browser = {d})
<1>1. Browser!Spec => BrowserLaws!Spec
  BY DEF Browser!Spec, Browser!Init, Browser!Next, Browser!Enter, Browser!Leave,
     BrowserLaws!Spec, BrowserLaws!Init, BrowserLaws!Next, BrowserLaws!Enter,
     BrowserLaws!Leave
<1>2. InBrowser /\ BrowserLaws!AtMostOne
        => \A d \in Lanes : pc[d] = "asking" => browser = {d}
  BY DEF InBrowser, BrowserLaws!AtMostOne
<1>3. QED
  BY <1>1, <1>2, LocksUsedAsPromised, BrowserLaws!OneInside, BrowserIsAskers, PTL

-----------------------------------------------------------------------------
(* How long a drive can be.                                                *)

Paths == Cardinality(Packed)

\* The steps left of a pack: two per path not looked at yet, and where it is.
PackSteps(d) ==
    IF pc[d] # "packing" THEN 0
    ELSE 2 * Cardinality(todo[d]) + (CASE phase[d] \in {"validating", "opening"} -> 2
                                       [] phase[d] = "staging" -> 1
                                       [] OTHER -> 0)

\* The steps left of the iteration, or before the first.
Rank(label) == CASE label \in {"judging", "freezing"} -> 1
                 [] label \in {"gating", "probed"} -> 2
                 [] label \in {"checking", "probing"} -> 3
                 [] label \in {"comparing", "away"} -> 4
                 [] label = "working" -> 5
                 [] label = "launching" -> 6
                 [] label = "writing" -> 7
                 [] label = "asking" -> 8
                 [] label = "waiting" -> 9
                 [] label = "packing" -> 10
                 [] OTHER -> 0

Round == 2 * Paths + 13

StepsLeft(d) == IF pc[d] \in Ended THEN 0
                ELSE (MaxIters - iter[d]) * Round + Rank(pc[d]) + PackSteps(d)

\* A pack not staged yet gets nearer to it with each step of its copy.
LEMMA PackGetsOn ==
  ASSUME TypeOK, IsFiniteSet(Packed), NEW d \in Lanes, Snapshot(d)
  PROVE  PackSteps(d) \in Nat /\ PackSteps(d)' \in Nat /\ PackSteps(d)' < PackSteps(d)
<1> DEFINE n == Cardinality(todo[d])
<1>1. phase \in [Lanes -> Phases] /\ todo \in [Lanes -> SUBSET Packed]
  BY DEF TypeOK, TypeOfPack
<1>2. IsFiniteSet(todo[d]) /\ n \in Nat
  BY <1>1, FS_Subset, FS_CardinalityType
<1>3. pc[d] = "packing" /\ pc'[d] = "packing" /\ PackStep(d)
  BY DEF Snapshot
<1>4. ASSUME NEW p \in todo[d], todo' = [todo EXCEPT ![d] = @ \ {p}]
      PROVE  Cardinality(todo'[d]) = n - 1 /\ n - 1 \in Nat
  <2>1. todo'[d] = todo[d] \ {p} BY <1>1, <1>4
  <2>2. Cardinality(todo[d] \ {p}) = n - 1 BY <1>2, FS_RemoveElement
  <2>3. IsFiniteSet(todo[d] \ {p}) BY <1>2, FS_Subset
  <2>4. QED BY <2>1, <2>2, <2>3, FS_CardinalityType
<1> USE <1>1, <1>2, <1>3 DEF PackSteps, Enter, Phases
<1>5. CASE Validate(d) BY <1>5 DEF Validate
<1>6. CASE Copy(d) BY <1>6 DEF Copy
<1>7. CASE CopyFails(d) BY <1>7 DEF CopyFails
<1>8. CASE Staged(d)
  <2>1. phase[d] = "staging" /\ phase'[d] = "staged" /\ todo' = todo BY <1>8 DEF Staged
  <2>2. QED BY <2>1
<1>9. ASSUME NEW p \in Packed, Pick(d, p)
      PROVE  PackSteps(d) \in Nat /\ PackSteps(d)' \in Nat /\ PackSteps(d)' < PackSteps(d)
  <2>1. Cardinality(todo'[d]) = n - 1 /\ n - 1 \in Nat BY <1>4, <1>9 DEF Pick
  <2>2. phase[d] = "staging" /\ phase'[d] = "opening" BY <1>9 DEF Pick
  <2>3. QED BY <2>1, <2>2
<1>10. ASSUME NEW p \in Packed, Refuse(d, p)
       PROVE  PackSteps(d) \in Nat /\ PackSteps(d)' \in Nat /\ PackSteps(d)' < PackSteps(d)
  BY <1>10 DEF Refuse
<1>11. ASSUME NEW p \in Packed, PassOver(d, p)
       PROVE  PackSteps(d) \in Nat /\ PackSteps(d)' \in Nat /\ PackSteps(d)' < PackSteps(d)
  <2>1. Cardinality(todo'[d]) = n - 1 /\ n - 1 \in Nat BY <1>4, <1>11 DEF PassOver
  <2>2. phase[d] = "staging" /\ phase'[d] = "staging" BY <1>11 DEF PassOver
  <2>3. QED BY <2>1, <2>2
<1>12. QED BY <1>5, <1>6, <1>7, <1>8, <1>9, <1>10, <1>11 DEF PackStep

\* The iterations left are whole rounds, and one fewer after the next begins.
LEMMA Rounds ==
  ASSUME IsFiniteSet(Packed), NEW i \in 0..MaxIters
  PROVE  /\ Round \in Nat /\ (MaxIters - i) * Round \in Nat
         /\ (MaxIters - (i + 1)) * Round = (MaxIters - i) * Round - Round
         /\ (MaxIters - i) * Round =< MaxIters * Round
<1>1. Round \in Nat BY FS_CardinalityType DEF Round, Paths
<1>2. ASSUME NEW m \in Nat, NEW k \in Nat PROVE m * k \in Nat OBVIOUS
<1>3. ASSUME NEW m \in Int, NEW k \in Nat PROVE (m - 1) * k = m * k - k OBVIOUS
<1>4. ASSUME NEW m \in Nat, NEW j \in Nat, NEW k \in Nat PROVE (m - j) * k =< m * k
  <2>1. (m - j) * k = m * k - j * k /\ j * k \in Nat BY <1>2
  <2>2. QED BY <2>1, <1>2
<1>5. MaxIters - i \in Nat /\ MaxIters - (i + 1) = (MaxIters - i) - 1 OBVIOUS
<1>6. QED BY <1>1, <1>2, <1>3, <1>4, <1>5

LEMMA StepsLeftType ==
  ASSUME TypeOK, IsFiniteSet(Packed), NEW d \in Lanes
  PROVE  /\ PackSteps(d) \in 0 .. 2 * Paths + 2
         /\ StepsLeft(d) \in 0 .. MaxIters * Round + 2 * Paths + 12
         /\ pc[d] \notin Ended => 0 < StepsLeft(d)
<1>1. todo[d] \subseteq Packed /\ iter[d] \in 0..MaxIters /\ pc[d] \in Labels
  BY DEF TypeOK, TypeOfPack
<1>2. Cardinality(todo[d]) \in 0..Paths /\ Paths \in Nat
  BY <1>1, FS_Subset, FS_CardinalityType DEF Paths
<1>3. PackSteps(d) \in 0 .. 2 * Paths + 2
  BY <1>2 DEF PackSteps
<1>4. Rank(pc[d]) \in 0..10 /\ (pc[d] \notin Ended => 0 < Rank(pc[d]))
  BY <1>1 DEF Rank, Labels, Ended
<1> DEFINE left == (MaxIters - iter[d]) * Round
<1>5. left \in Nat /\ MaxIters * Round \in Nat /\ left =< MaxIters * Round
  <2>1. left \in Nat /\ left =< MaxIters * Round BY <1>1, Rounds
  <2>2. (MaxIters - 0) * Round \in Nat BY Rounds
  <2>3. QED BY <2>1, <2>2
<1>6. StepsLeft(d) = IF pc[d] \in Ended THEN 0 ELSE left + Rank(pc[d]) + PackSteps(d)
  BY DEF StepsLeft
<1> HIDE DEF left
<1>7. QED BY <1>2, <1>3, <1>4, <1>5, <1>6

\* What stands for progress: no step adds to what is left of a drive, and each of
\* lane's own takes from it.
GetsOn(d) == StepsLeft(d)' =< StepsLeft(d) /\ (LaneStep(d) => StepsLeft(d)' < StepsLeft(d))

\* A drive that moves gets nearer to its end, or its implementer edits.
LEMMA MoverGetsOn ==
  ASSUME TypeOK, Uncounted, IsFiniteSet(Packed), NEW d \in Lanes, LaneMoves(d), TypeOK'
  PROVE  GetsOn(d)
<1>0. /\ pc \in [Lanes -> Labels] /\ iter \in [Lanes -> 0..MaxIters] /\ iter[d] \in 0..MaxIters
      /\ pc[d] \notin Ended /\ Paths \in Nat /\ Round \in Nat
      /\ todo \in [Lanes -> SUBSET Packed] /\ phase \in [Lanes -> Phases]
  BY OneMoves, Rounds, FS_CardinalityType DEF TypeOK, TypeOfPack, Running, Paths
<1> DEFINE left == (MaxIters - iter[d]) * Round
<1>1. /\ left \in Nat /\ PackSteps(d) \in 0 .. 2 * Paths + 2
      /\ StepsLeft(d) = left + Rank(pc[d]) + PackSteps(d)
      /\ StepsLeft(d) \in Nat /\ 0 < StepsLeft(d)
  BY <1>0, Rounds, StepsLeftType DEF StepsLeft
<1>a. ASSUME iter'[d] = iter[d], pc'[d] \notin Ended
      PROVE  StepsLeft(d)' = left + Rank(pc'[d]) + PackSteps(d)'
  BY <1>a DEF StepsLeft, Rank
<1> HIDE DEF left
<1>2. CASE Ends(d)
  <2>1. pc'[d] \in Ended BY <1>0, <1>2 DEF Ends, End, Goto, Set
  <2>2. StepsLeft(d)' = 0 BY <2>1 DEF StepsLeft
  <2>3. QED BY <1>1, <2>2 DEF GetsOn
<1>3. ASSUME NEW a \in Labels, NEW b \in Labels, pc[d] = a, pc'[d] = b, iter' = iter,
             a # "packing", b # "packing", b \notin Ended, Rank(b) < Rank(a)
      PROVE  GetsOn(d)
  <2>1. PackSteps(d) = 0 /\ PackSteps(d)' = 0 BY <1>3 DEF PackSteps
  <2>2. Rank(a) \in Nat /\ Rank(b) \in Nat BY DEF Rank
  <2>3. StepsLeft(d)' = left + Rank(b) /\ StepsLeft(d) = left + Rank(a)
    BY <1>1, <1>3, <1>a, <2>1, <2>2
  <2>4. QED BY <1>1, <1>3, <2>2, <2>3 DEF GetsOn
<1>4. CASE Ask(d)
  <2>1. pc[d] = "waiting" /\ pc'[d] = "asking" /\ iter' = iter
    BY <1>0, <1>4 DEF Ask, Goto, Set
  <2>2. QED BY <1>3, <2>1 DEF Rank, Labels, Ended
<1>5. CASE Answer(d)
  <2>1. pc[d] = "asking" /\ pc'[d] = "writing" /\ iter' = iter
    BY <1>0, <1>5 DEF Answer, Goto, Set
  <2>2. QED BY <1>3, <2>1 DEF Rank, Labels, Ended
<1>6. CASE Walks(d)
  <2>1. PICK e \in Edges : pc[d] = e[1] /\ pc' = [pc EXCEPT ![d] = e[2]]
    BY <1>6 DEF Walks
  <2>2. iter' = iter /\ pc'[d] = e[2] BY <1>0, <1>6, <2>1 DEF Walks
  <2>3. CASE e = <<"packing", "waiting">>
    <3>1. pc[d] = "packing" /\ pc'[d] = "waiting" BY <2>1, <2>2, <2>3
    <3>2. PackSteps(d)' = 0 BY <3>1 DEF PackSteps
    <3>3. StepsLeft(d)' = left + 9 BY <1>1, <1>a, <2>2, <3>1, <3>2 DEF Rank, Ended
    <3>4. StepsLeft(d) >= left + 10 BY <1>0, <1>1, <3>1 DEF Rank
    <3>5. QED BY <1>1, <3>3, <3>4 DEF GetsOn
  <2>4. CASE e # <<"packing", "waiting">>
    <3>1. /\ e[1] \in Labels /\ e[2] \in Labels /\ e[1] # "packing" /\ e[2] # "packing"
          /\ e[2] \notin Ended /\ Rank(e[2]) < Rank(e[1])
      BY <2>4 DEF Edges, Labels, Ended, Rank
    <3>2. QED BY <1>3, <2>1, <2>2, <3>1
  <2>5. QED BY <2>3, <2>4
<1>7. CASE Stays(d) /\ Snapshot(d)
  <2>1. pc[d] = "packing" /\ pc'[d] = pc[d] /\ iter'[d] = iter[d]
    BY <1>7 DEF Stays, Snapshot
  <2>2. StepsLeft(d)' = left + 10 + PackSteps(d)' /\ StepsLeft(d) = left + 10 + PackSteps(d)
    BY <1>1, <1>a, <2>1 DEF Rank, Ended
  <2>3. PackSteps(d) \in Nat /\ PackSteps(d)' \in Nat /\ PackSteps(d)' < PackSteps(d)
    BY <1>7, PackGetsOn
  <2>4. QED BY <1>1, <2>2, <2>3 DEF GetsOn
<1>8. CASE Stays(d) /\ ~Snapshot(d)
  <2>1. pc[d] = "working" /\ UNCHANGED <<pc, iter, phase, todo>>
    BY <1>8 DEF Stays, ImplementerEdits
  <2>2. PackSteps(d) = 0 /\ PackSteps(d)' = 0 BY <2>1 DEF PackSteps
  <2>3. StepsLeft(d)' = left + 5 /\ StepsLeft(d) = left + 5
    BY <1>1, <1>a, <2>1, <2>2 DEF Rank, Ended
  <2>4. ~End(d, "error") BY <1>0, <2>1 DEF End, Goto, Set
  <2>5. ~LaneStep(d)
    BY <2>1, <2>4 DEF LaneStep, Probe, GateFails, Freeze, Snapshot, SnapshotRefused,
       SnapshotReady, Ask, NoAnswer, WritePlan, Implement, ImplementerFails, Compare,
       Check, Gate
  <2>6. QED BY <1>1, <2>3, <2>5 DEF GetsOn
<1>9. CASE pc[d] \in {"freezing", "judging"} /\ Iterate(d)
  <2>1. iter'[d] = iter[d] + 1 /\ pc'[d] = "packing"
    BY <1>0, <1>9 DEF Iterate, Goto, Set
  <2>2. todo'[d] = Packed /\ phase'[d] = "validating"
    BY <1>0, <1>9 DEF Iterate, BeginPack, Enter
  <2>3. PackSteps(d)' = 2 * Paths + 2 BY <2>1, <2>2 DEF PackSteps, Paths
  <2>4. StepsLeft(d)' = (MaxIters - (iter[d] + 1)) * Round + 10 + PackSteps(d)'
    BY <2>1 DEF StepsLeft, Rank, Ended
  <2>5. (MaxIters - (iter[d] + 1)) * Round = left - Round BY <1>0, Rounds DEF left
  <2>6. Rank(pc[d]) = 1 BY <1>9 DEF Rank
  <2>7. StepsLeft(d)' = left - 1
    BY <1>0, <1>1, <2>3, <2>4, <2>5 DEF Round
  <2>8. StepsLeft(d) >= left + 1 BY <1>0, <1>1, <2>6
  <2>9. QED BY <1>1, <2>7, <2>8 DEF GetsOn
<1>10. QED BY <1>2, <1>4, <1>5, <1>6, <1>7, <1>8, <1>9, Flow

\* What another drive does leaves this one where it is.
LEMMA Untouched ==
  ASSUME TypeOK, NEW d \in Lanes, NEW e \in Lanes, d # e, Start(e) \/ LaneMoves(e)
  PROVE  UNCHANGED <<pc[d], iter[d], phase[d], todo[d]>>
<1>0. /\ pc \in [Lanes -> Labels] /\ iter \in [Lanes -> 0..MaxIters]
      /\ todo \in [Lanes -> SUBSET Packed] /\ phase \in [Lanes -> Phases]
  BY DEF TypeOK, TypeOfPack
<1> USE <1>0 DEF Goto, Set, Enter, snapshot
<1>1. CASE Start(e) BY <1>1 DEF Start
<1>2. CASE Ends(e) BY <1>2 DEF Ends, End, DropPack
<1>3. CASE Ask(e) BY <1>3 DEF Ask
<1>4. CASE Answer(e) BY <1>4 DEF Answer, DropPack
<1>5. CASE Walks(e) BY <1>5 DEF Walks
<1>6. CASE Iterate(e) BY <1>6 DEF Iterate, BeginPack
<1>7. CASE Stays(e) /\ Snapshot(e)
  <2>1. UNCHANGED <<pc, iter>> /\ PackStep(e) BY <1>7 DEF Stays, Snapshot
  <2>2. UNCHANGED <<phase[d], todo[d]>>
    BY <2>1 DEF PackStep, Validate, Copy, CopyFails, Staged, Pick, Refuse, PassOver
  <2>3. QED BY <2>1, <2>2
<1>8. CASE Stays(e) /\ ~Snapshot(e) BY <1>8 DEF Stays
<1>9. QED BY <1>1, <1>2, <1>3, <1>4, <1>5, <1>6, <1>7, <1>8, Flow

\* `lane drive` cannot go on for ever by its own doing: it takes no more than
\* (2 * paths + 13) * iterations + 2 * paths + 12 steps of its own, the start among
\* them, where paths are those its pack is made from.  Each takes one off, and
\* nothing that its engine, implementer and gate, a bystander, another drive or
\* another process does adds one.
THEOREM DrivesAreBounded ==
  ASSUME IsFiniteSet(Packed)
  PROVE  Spec => /\ [](\A d \in Lanes : StepsLeft(d) \in 0 .. MaxIters * Round + 2 * Paths + 12)
                 /\ [][\A d \in Lanes : GetsOn(d)]_vars
<1>1. IInv => \A d \in Lanes : StepsLeft(d) \in 0 .. MaxIters * Round + 2 * Paths + 12
  BY StepsLeftType DEF IInv
<1>2. ASSUME IInv, IInv', [Next]_vars, NEW d \in Lanes PROVE GetsOn(d) \/ UNCHANGED vars
  <2> USE DEF IInv
  <2>0. pc \in [Lanes -> Labels] BY <1>2 DEF TypeOK
  <2>1. CASE LaneMoves(d) BY <2>1, <1>2, MoverGetsOn
  <2>2. CASE ~LaneMoves(d)
    <3>1. ~LaneStep(d) BY <2>2 DEF LaneMoves
    <3>2. StepsLeft(d) \in Int BY <1>1, <1>2
    <3>3. ASSUME UNCHANGED <<pc[d], iter[d], phase[d], todo[d]>> PROVE GetsOn(d)
      <4>1. StepsLeft(d)' = StepsLeft(d) BY <3>3 DEF StepsLeft, PackSteps
      <4>2. QED BY <3>1, <3>2, <4>1 DEF GetsOn
    <3>4. CASE Start(d)
      <4>1. pc[d] = "away" /\ iter' = iter /\ pc'[d] \in {"probing", "busy"}
        BY <1>2, <2>0, <3>4 DEF Start, Goto, Set
      <4>2. PackSteps(d) = 0 /\ PackSteps(d)' = 0 BY <4>1 DEF PackSteps
      <4>3. CASE pc'[d] = "busy"
        <5>1. StepsLeft(d)' = 0 BY <4>3 DEF StepsLeft, Ended
        <5>2. 0 =< StepsLeft(d) BY <1>1, <1>2
        <5>3. QED BY <3>1, <5>1, <5>2 DEF GetsOn
      <4>4. CASE pc'[d] = "probing"
        <5> DEFINE left == (MaxIters - iter[d]) * Round
        <5>1. left \in Int BY <1>2, Rounds DEF TypeOK
        <5>2. StepsLeft(d)' = left + 3 /\ StepsLeft(d) = left + 4
          BY <4>1, <4>2, <4>4, <5>1 DEF StepsLeft, Rank, Ended
        <5>3. QED BY <3>1, <5>1, <5>2 DEF GetsOn
      <4>5. QED BY <4>1, <4>3, <4>4
    <3>5. ASSUME NEW e \in Lanes, Start(e) \/ LaneMoves(e), e # d PROVE GetsOn(d)
      BY <1>2, <3>3, <3>5, Untouched
    <3>6. ASSUME NEW o \in Others, OtherTakes(o) \/ OtherLeaves(o) PROVE GetsOn(d)
      BY <3>3, <3>6 DEF OtherTakes, OtherLeaves, snapshot
    <3>7. CASE UNCHANGED <<pc, iter, phase, todo, holder, browser>>
      BY <3>3, <3>7
    <3>8. QED BY <1>2, <2>2, <3>4, <3>5, <3>6, <3>7, WorldFlow
  <2>3. QED BY <2>1, <2>2
<1>3. IInv /\ IInv' /\ [Next]_vars => [\A d \in Lanes : GetsOn(d)]_vars
  BY <1>2
<1>4. QED BY <1>1, <1>3, Invariance, PTL DEF Spec
=============================================================================
