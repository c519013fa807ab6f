----------------------------- MODULE ProcRunProofs -----------------------------
(***************************************************************************)
(* Theorems about ProcRun for every process tree and every bound on the    *)
(* interrupts.                                                             *)
(*                                                                         *)
(* NothingOutlives speaks of the two ends of a call only.  What carries it *)
(* there is that an empty group stays empty, because only its members give *)
(* birth to members (EmptyStays), and that _stop reaches its wait for the  *)
(* leader with the group empty (Emptied).  Causes ties the reason for the  *)
(* end of the call to the way it took.  CallLeft bounds the call.          *)
(***************************************************************************)
EXTENDS ProcRun, Integers, TLAPS

\* Before the child exists nothing does, and nothing has been read or waited for.
NotStarted == pc = "spawning" => /\ Running = {} /\ ~reaped /\ ~reading /\ ~drained

\* The reason for which a call ends, and what has happened if it is this one.
Causes == /\ pc \in {"spawning", "unguarded", "draining", "checking"} => cause = "none"
          /\ pc \in {"stopping", "grace", "force", "reaping"} => cause # "none"
          /\ cause = "none" => termed = {}
          /\ cause = "leftover" => ~keep /\ drained
          /\ cause = "none" /\ pc \in {"checking", "closing", "awaiting", "returned"}
               => drained
          /\ pc = "returned" => cause \in {"none", "leftover"}

\* The pipes are closed for good once the readers have seen their end.
PipesClosed == drained => open = {}

\* Where a call that was interrupted in the drain at most has emptied its group.
Emptied == /\ pc = "reaping" => GroupRunning = {}
           /\ pc \in {"closing", "awaiting", "returned"} /\ Guarded
                => GroupRunning = {} \/ (keep /\ cause = "none")
           /\ pc = "raised" /\ Guarded => GroupRunning = {}

IInv == TypeOK /\ NotStarted /\ Causes /\ PipesClosed /\ Emptied

\* The initial state satisfies the inductive invariant.
LEMMA InitInv == Init => IInv
  BY RunAssumption
  DEF Init, IInv, TypeOK, NotStarted, Causes, PipesClosed, Emptied, Running,
      GroupRunning, Labels

\* The steps of the child's tree.
Tree == \E m \in Members : Fork(m) \/ CloseOutput(m) \/ Exit(m)

\* The call's own steps leave the tree alone, except that it is started and killed.
Quiet == \/ SpawnFails \/ EnterTry \/ StartReaders \/ WaitLeader \/ JoinReaders
         \/ TimesOut \/ ReaderFails \/ Drained \/ CheckLeftovers \/ PollReaps
         \/ GroupGone \/ GraceOver \/ Reap \/ PipesClose \/ Return \/ GiveUpWait
         \/ Interrupt \/ LaneDies \/ Tick

\* The cases of a step.
LEMMA Cases == Next => Spawn \/ SignalTerm \/ Kill \/ Quiet \/ Tree
  BY DEF Next, Call, Failure, Quiet, Tree, ClosePipes, CloseBetweenReads

\* A quiet step leaves the tree as it was.
LEMMA QuietTree == Quiet => UNCHANGED tree
  BY DEF Quiet, SpawnFails, EnterTry, StartReaders, WaitLeader, JoinReaders,
         TimesOut, ReaderFails, CutShort, Drained, CheckLeftovers, PollReaps,
         GroupGone, GraceOver, Reap, PipesClose, Return, GiveUpWait, Interrupt,
         LaneDies, Tick, tree

\* Every step keeps the type invariant.
LEMMA TypeStep == TypeOK /\ NotStarted /\ [Next]_vars => TypeOK'
<1> SUFFICES ASSUME TypeOK, NotStarted, [Next]_vars PROVE TypeOK'
  OBVIOUS
<1> USE RunAssumption DEF TypeOK, Labels
<1>1. CASE Spawn
  <2>1. open' \subseteq Running'
    BY <1>1 DEF Spawn, Running
  <2>2. QED BY <1>1, <2>1 DEF Spawn, NotStarted
<1>2. CASE SignalTerm
  BY <1>2 DEF SignalTerm, GroupRunning, Running
<1>3. CASE Kill
  <2>1. open' \subseteq Running'
    BY <1>3 DEF Kill, GroupRunning, Running
  <2>2. status' \in [Members -> {"unborn", "running", "exited"}]
    BY <1>3 DEF Kill
  <2>3. reaped' => status'[leader] = "exited"
    BY <1>3 DEF Kill
  <2>4. QED BY <1>3, <2>1, <2>2, <2>3 DEF Kill
<1>4. CASE Quiet
  <2>1. /\ status' = status /\ open' = open /\ termed' = termed
        /\ Running' = Running
    BY <1>4, QuietTree DEF tree, Running
  <2>2. CASE SpawnFails
    BY <2>1, <2>2 DEF SpawnFails
  <2>3. CASE EnterTry
    BY <2>1, <2>3 DEF EnterTry
  <2>4. CASE WaitLeader
    BY <2>1, <2>4 DEF WaitLeader
  <2>5. CASE JoinReaders
    BY <2>1, <2>5 DEF JoinReaders
  <2>6. CASE TimesOut
    BY <2>1, <2>6 DEF TimesOut, CutShort
  <2>7. CASE ReaderFails
    BY <2>1, <2>7 DEF ReaderFails, CutShort
  <2>8. CASE Drained
    BY <2>1, <2>8 DEF Drained
  <2>9. CASE CheckLeftovers
    BY <2>1, <2>9 DEF CheckLeftovers
  <2>10. CASE PollReaps
    BY <2>1, <2>10 DEF PollReaps
  <2>11. CASE GroupGone
    BY <2>1, <2>11 DEF GroupGone
  <2>12. CASE GraceOver
    BY <2>1, <2>12 DEF GraceOver
  <2>13. CASE Reap
    BY <2>1, <2>13 DEF Reap
  <2>14. CASE PipesClose
    BY <2>1, <2>14 DEF PipesClose
  <2>14a. CASE StartReaders
    BY <2>1, <2>14a DEF StartReaders
  <2>14b. CASE Return
    BY <2>1, <2>14b DEF Return
  <2>14c. CASE GiveUpWait
    BY <2>1, <2>14c DEF GiveUpWait
  <2>15. CASE Interrupt
    BY <2>1, <2>15 DEF Interrupt
  <2>16. CASE LaneDies
    BY <2>1, <2>16 DEF LaneDies
  <2>17. CASE Tick
    BY <2>1, <2>17 DEF Tick
  <2>18. QED
    BY <1>4, <2>2, <2>3, <2>4, <2>5, <2>6, <2>7, <2>8, <2>9, <2>10,
       <2>11, <2>12, <2>13, <2>14, <2>14a, <2>14b, <2>14c, <2>15, <2>16,
       <2>17 DEF Quiet
<1>5. ASSUME NEW m \in Members, Fork(m) PROVE TypeOK'
  <2>1. open' \subseteq Running'
    BY <1>5 DEF Fork, lane, Running
  <2>2. status' \in [Members -> {"unborn", "running", "exited"}]
    BY <1>5 DEF Fork
  <2>3. reaped' => status'[leader] = "exited"
    BY <1>5 DEF Fork, lane
  <2>4. QED BY <1>5, <2>1, <2>2, <2>3 DEF Fork, lane
<1>6. ASSUME NEW m \in Members, CloseOutput(m) PROVE TypeOK'
  <2>1. open' \subseteq Running'
    BY <1>6 DEF CloseOutput, Running
  <2>2. QED BY <1>6, <2>1 DEF CloseOutput, lane
<1>7. ASSUME NEW m \in Members, Exit(m) PROVE TypeOK'
  <2>1. open' \subseteq Running'
    BY <1>7 DEF Exit, Running
  <2>2. status' \in [Members -> {"unborn", "running", "exited"}]
    BY <1>7 DEF Exit
  <2>3. reaped' => status'[leader] = "exited"
    BY <1>7 DEF Exit, lane
  <2>4. QED BY <1>7, <2>1, <2>2, <2>3 DEF Exit, lane
<1>8. CASE UNCHANGED vars
  BY <1>8 DEF vars, lane, tree, Running
<1>9. QED
  BY <1>1, <1>2, <1>3, <1>4, <1>5, <1>6, <1>7, <1>8, Cases DEF Tree

\* A step of the tree leaves the lane process as it was.
LEMMA TreeLane ==
  ASSUME Tree
  PROVE  /\ pc' = pc /\ keep' = keep /\ cause' = cause /\ hit' = hit
         /\ reaped' = reaped /\ reading' = reading /\ drained' = drained
         /\ termed' = termed
<1>1. ASSUME NEW m \in Members, Fork(m) PROVE UNCHANGED <<lane, termed>>
  BY <1>1 DEF Fork
<1>2. ASSUME NEW m \in Members, CloseOutput(m) PROVE UNCHANGED <<lane, termed>>
  BY <1>2 DEF CloseOutput
<1>3. ASSUME NEW m \in Members, Exit(m) PROVE UNCHANGED <<lane, termed>>
  BY <1>3 DEF Exit
<1>4. UNCHANGED <<lane, termed>>
  BY <1>1, <1>2, <1>3 DEF Tree
<1>5. QED BY <1>4 DEF lane

\* A group with nobody left in it never gets a member again: a member that
\* leaves the session is not one, and only members give birth to members.
LEMMA EmptyStays ==
  ASSUME TypeOK, GroupRunning = {}, Tree
  PROVE  GroupRunning' = {}
<1> USE DEF TypeOK, GroupRunning, Running
<1>1. ASSUME NEW m \in Members, Fork(m) PROVE GroupRunning' = {}
  <2>1. m \in Daemons
    BY <1>1 DEF Fork
  <2>2. QED BY <1>1, <2>1 DEF Fork
<1>2. ASSUME NEW m \in Members, CloseOutput(m) PROVE GroupRunning' = {}
  BY <1>2 DEF CloseOutput
<1>3. ASSUME NEW m \in Members, Exit(m) PROVE GroupRunning' = {}
  BY <1>3 DEF Exit
<1>4. QED BY <1>1, <1>2, <1>3 DEF Tree

\* Pipes that nobody holds are not opened again.
LEMMA ClosedStays ==
  ASSUME open = {}, Tree
  PROVE  open' = {}
  BY DEF Tree, Fork, CloseOutput, Exit

\* Without a running process none is born.
LEMMA NobodyBorn ==
  ASSUME TypeOK, Running = {}, Tree
  PROVE  Running' = {}
  BY DEF TypeOK, Tree, Fork, CloseOutput, Exit, Running, GroupRunning

\* Every step keeps what holds before the child exists.
LEMMA NotStartedStep == TypeOK /\ NotStarted /\ [Next]_vars => NotStarted'
<1> SUFFICES ASSUME TypeOK, NotStarted, [Next]_vars, pc' = "spawning"
             PROVE  Running' = {} /\ ~reaped' /\ ~reading' /\ ~drained'
  BY DEF NotStarted
<1>1. CASE Spawn \/ SignalTerm \/ Kill
  BY <1>1 DEF Spawn, SignalTerm, Kill
<1>2. CASE Quiet
  <2>1. Running' = Running
    BY <1>2, QuietTree DEF tree, Running
  <2>2. CASE SpawnFails
    BY <2>1, <2>2 DEF SpawnFails, NotStarted, LeaderTurn, ReaderTurn
  <2>3. CASE EnterTry
    BY <2>1, <2>3 DEF EnterTry, NotStarted, LeaderTurn, ReaderTurn
  <2>4. CASE WaitLeader
    BY <2>1, <2>4 DEF WaitLeader, NotStarted, LeaderTurn, ReaderTurn
  <2>5. CASE JoinReaders
    BY <2>1, <2>5 DEF JoinReaders, NotStarted, LeaderTurn, ReaderTurn
  <2>6. CASE TimesOut
    BY <2>1, <2>6 DEF TimesOut, CutShort, NotStarted, LeaderTurn, ReaderTurn
  <2>7. CASE ReaderFails
    BY <2>1, <2>7 DEF ReaderFails, CutShort, NotStarted, LeaderTurn, ReaderTurn
  <2>8. CASE Drained
    BY <2>1, <2>8 DEF Drained, NotStarted, LeaderTurn, ReaderTurn
  <2>9. CASE CheckLeftovers
    BY <2>1, <2>9 DEF CheckLeftovers, NotStarted, LeaderTurn, ReaderTurn
  <2>10. CASE PollReaps
    BY <2>1, <2>10 DEF PollReaps, NotStarted, LeaderTurn, ReaderTurn
  <2>11. CASE GroupGone
    BY <2>1, <2>11 DEF GroupGone, NotStarted, LeaderTurn, ReaderTurn
  <2>12. CASE GraceOver
    BY <2>1, <2>12 DEF GraceOver, NotStarted, LeaderTurn, ReaderTurn
  <2>13. CASE Reap
    BY <2>1, <2>13 DEF Reap, NotStarted, LeaderTurn, ReaderTurn
  <2>14. CASE PipesClose
    BY <2>1, <2>14 DEF PipesClose, NotStarted, LeaderTurn, ReaderTurn
  <2>14a. CASE StartReaders
    BY <2>1, <2>14a DEF StartReaders, NotStarted, LeaderTurn, ReaderTurn
  <2>14b. CASE Return
    BY <2>1, <2>14b DEF Return, NotStarted, LeaderTurn, ReaderTurn
  <2>14c. CASE GiveUpWait
    BY <2>1, <2>14c DEF GiveUpWait, NotStarted, LeaderTurn, ReaderTurn
  <2>15. CASE Interrupt
    BY <2>1, <2>15 DEF Interrupt, NotStarted, LeaderTurn, ReaderTurn
  <2>16. CASE LaneDies
    BY <2>1, <2>16 DEF LaneDies, NotStarted, LeaderTurn, ReaderTurn
  <2>17. CASE Tick
    BY <2>1, <2>17 DEF Tick, NotStarted, LeaderTurn, ReaderTurn
  <2>18. QED
    BY <1>2, <2>2, <2>3, <2>4, <2>5, <2>6, <2>7, <2>8, <2>9, <2>10,
       <2>11, <2>12, <2>13, <2>14, <2>14a, <2>14b, <2>14c, <2>15, <2>16,
       <2>17 DEF Quiet
<1>3. CASE Tree
  BY <1>3, TreeLane, NobodyBorn DEF NotStarted
<1>4. CASE UNCHANGED vars
  BY <1>4 DEF vars, lane, tree, NotStarted, Running
<1>5. QED BY <1>1, <1>2, <1>3, <1>4, Cases

\* Every step keeps the reason of an ending in line with its way.
LEMMA CausesStep == TypeOK /\ NotStarted /\ Causes /\ [Next]_vars => Causes'
<1> SUFFICES ASSUME TypeOK, NotStarted, Causes, [Next]_vars PROVE Causes'
  OBVIOUS
<1> USE DEF Causes
<1>1. CASE Spawn
  BY <1>1 DEF Spawn
<1>2. CASE SignalTerm
  BY <1>2 DEF SignalTerm
<1>3. CASE Kill
  BY <1>3 DEF Kill
<1>4. CASE Quiet
  <2>1. termed' = termed
    BY <1>4, QuietTree DEF tree
  <2>2. CASE SpawnFails
    BY <2>1, <2>2 DEF SpawnFails
  <2>3. CASE EnterTry
    BY <2>1, <2>3 DEF EnterTry
  <2>4. CASE WaitLeader
    BY <2>1, <2>4 DEF WaitLeader
  <2>5. CASE JoinReaders
    BY <2>1, <2>5 DEF JoinReaders, ReaderTurn
  <2>6. CASE TimesOut
    BY <2>1, <2>6 DEF TimesOut, CutShort
  <2>7. CASE ReaderFails
    BY <2>1, <2>7 DEF ReaderFails, CutShort
  <2>8. CASE Drained
    BY <2>1, <2>8 DEF Drained
  <2>9. CASE CheckLeftovers
    BY <2>1, <2>9 DEF CheckLeftovers
  <2>10. CASE PollReaps
    BY <2>1, <2>10 DEF PollReaps
  <2>11. CASE GroupGone
    BY <2>1, <2>11 DEF GroupGone
  <2>12. CASE GraceOver
    BY <2>1, <2>12 DEF GraceOver
  <2>13. CASE Reap
    BY <2>1, <2>13 DEF Reap
  <2>14. CASE PipesClose
    BY <2>1, <2>14 DEF PipesClose
  <2>14a. CASE StartReaders
    BY <2>1, <2>14a DEF StartReaders
  <2>14b. CASE Return
    BY <2>1, <2>14b DEF Return
  <2>14c. CASE GiveUpWait
    BY <2>1, <2>14c DEF GiveUpWait
  <2>15. CASE Interrupt
    BY <2>1, <2>15 DEF Interrupt
  <2>16. CASE LaneDies
    BY <2>1, <2>16 DEF LaneDies
  <2>17. CASE Tick
    BY <2>1, <2>17 DEF Tick
  <2>18. QED
    BY <1>4, <2>2, <2>3, <2>4, <2>5, <2>6, <2>7, <2>8, <2>9, <2>10,
       <2>11, <2>12, <2>13, <2>14, <2>14a, <2>14b, <2>14c, <2>15, <2>16,
       <2>17 DEF Quiet
<1>5. CASE Tree
  BY <1>5, TreeLane
<1>6. CASE UNCHANGED vars
  BY <1>6 DEF vars, lane, tree
<1>7. QED BY <1>1, <1>2, <1>3, <1>4, <1>5, <1>6, Cases

\* Every step keeps the pipes closed once the readers have seen their end.
LEMMA PipesClosedStep == NotStarted /\ PipesClosed /\ [Next]_vars => PipesClosed'
<1> SUFFICES ASSUME NotStarted, PipesClosed, [Next]_vars, drained'
             PROVE  open' = {}
  BY DEF PipesClosed
<1> USE DEF PipesClosed
<1>1. CASE Spawn
  BY <1>1 DEF Spawn, NotStarted
<1>2. CASE SignalTerm
  BY <1>2 DEF SignalTerm
<1>3. CASE Kill
  BY <1>3 DEF Kill
<1>4. CASE Quiet
  <2>1. open' = open
    BY <1>4, QuietTree DEF tree
  <2>2. CASE SpawnFails
    BY <2>1, <2>2 DEF SpawnFails
  <2>3. CASE EnterTry
    BY <2>1, <2>3 DEF EnterTry
  <2>4. CASE WaitLeader
    BY <2>1, <2>4 DEF WaitLeader
  <2>5. CASE JoinReaders
    BY <2>1, <2>5 DEF JoinReaders
  <2>6. CASE TimesOut
    BY <2>1, <2>6 DEF TimesOut, CutShort
  <2>7. CASE ReaderFails
    BY <2>1, <2>7 DEF ReaderFails, CutShort
  <2>8. CASE Drained
    BY <2>1, <2>8 DEF Drained
  <2>9. CASE CheckLeftovers
    BY <2>1, <2>9 DEF CheckLeftovers
  <2>10. CASE PollReaps
    BY <2>1, <2>10 DEF PollReaps
  <2>11. CASE GroupGone
    BY <2>1, <2>11 DEF GroupGone
  <2>12. CASE GraceOver
    BY <2>1, <2>12 DEF GraceOver
  <2>13. CASE Reap
    BY <2>1, <2>13 DEF Reap
  <2>14. CASE PipesClose
    BY <2>1, <2>14 DEF PipesClose
  <2>14a. CASE StartReaders
    BY <2>1, <2>14a DEF StartReaders
  <2>14b. CASE Return
    BY <2>1, <2>14b DEF Return
  <2>14c. CASE GiveUpWait
    BY <2>1, <2>14c DEF GiveUpWait
  <2>15. CASE Interrupt
    BY <2>1, <2>15 DEF Interrupt
  <2>16. CASE LaneDies
    BY <2>1, <2>16 DEF LaneDies
  <2>17. CASE Tick
    BY <2>1, <2>17 DEF Tick
  <2>18. QED
    BY <1>4, <2>2, <2>3, <2>4, <2>5, <2>6, <2>7, <2>8, <2>9, <2>10,
       <2>11, <2>12, <2>13, <2>14, <2>14a, <2>14b, <2>14c, <2>15, <2>16,
       <2>17 DEF Quiet
<1>5. CASE Tree
  BY <1>5, TreeLane, ClosedStays
<1>6. CASE UNCHANGED vars
  BY <1>6 DEF vars, lane, tree
<1>7. QED BY <1>1, <1>2, <1>3, <1>4, <1>5, <1>6, Cases

\* Every step keeps the group empty where the call has emptied it.
LEMMA EmptiedStep ==
  TypeOK /\ NotStarted /\ Causes /\ Emptied /\ [Next]_vars => Emptied'
<1> SUFFICES ASSUME TypeOK, NotStarted, Causes, Emptied, [Next]_vars PROVE Emptied'
  OBVIOUS
<1> USE DEF Emptied, Guarded
<1>1. CASE Spawn
  BY <1>1 DEF Spawn
<1>2. CASE SignalTerm
  BY <1>2 DEF SignalTerm
<1>3. CASE Kill
  <2>1. GroupRunning' = {}
    BY <1>3 DEF Kill, GroupRunning, Running, TypeOK
  <2>2. QED BY <1>3, <2>1 DEF Kill
<1>4. CASE Quiet
  <2>1. GroupRunning' = GroupRunning
    BY <1>4, QuietTree DEF tree, GroupRunning, Running
  <2>2. CASE SpawnFails
    BY <2>1, <2>2 DEF SpawnFails, NotStarted, GroupRunning
  <2>3. CASE EnterTry
    BY <2>1, <2>3 DEF EnterTry
  <2>4. CASE WaitLeader
    BY <2>1, <2>4 DEF WaitLeader
  <2>5. CASE JoinReaders
    BY <2>1, <2>5 DEF JoinReaders
  <2>6. CASE TimesOut
    BY <2>1, <2>6 DEF TimesOut, CutShort
  <2>7. CASE ReaderFails
    BY <2>1, <2>7 DEF ReaderFails, CutShort
  <2>8. CASE Drained
    BY <2>1, <2>8 DEF Drained
  <2>9. CASE CheckLeftovers
    BY <2>1, <2>9 DEF CheckLeftovers, Causes, GroupExists
  <2>10. CASE PollReaps
    BY <2>1, <2>10 DEF PollReaps
  <2>11. CASE GroupGone
    BY <2>1, <2>11 DEF GroupGone, GroupExists
  <2>12. CASE GraceOver
    BY <2>1, <2>12 DEF GraceOver
  <2>13. CASE Reap
    BY <2>1, <2>13 DEF Reap
  <2>14. CASE PipesClose
    BY <2>1, <2>14 DEF PipesClose, Causes
  <2>14a. CASE StartReaders
    BY <2>1, <2>14a DEF StartReaders, Causes
  <2>14b. CASE Return
    BY <2>1, <2>14b DEF Return, Causes
  <2>14c. CASE GiveUpWait
    BY <2>1, <2>14c DEF GiveUpWait, Causes
  <2>15. CASE Interrupt
    BY <2>1, <2>15 DEF Interrupt, TypeOK, Labels
  <2>16. CASE LaneDies
    BY <2>1, <2>16 DEF LaneDies
  <2>17. CASE Tick
    BY <2>1, <2>17 DEF Tick
  <2>18. QED
    BY <1>4, <2>2, <2>3, <2>4, <2>5, <2>6, <2>7, <2>8, <2>9, <2>10,
       <2>11, <2>12, <2>13, <2>14, <2>14a, <2>14b, <2>14c, <2>15, <2>16,
       <2>17 DEF Quiet
<1>5. CASE Tree
  BY <1>5, TreeLane, EmptyStays
<1>6. CASE UNCHANGED vars
  BY <1>6 DEF vars, lane, tree, GroupRunning, Running
<1>7. QED BY <1>1, <1>2, <1>3, <1>4, <1>5, <1>6, Cases

-----------------------------------------------------------------------------
\* The inductive invariant holds in every behaviour of a supervised call.
THEOREM Invariance == Spec => []IInv
<1>1. IInv /\ [Next]_vars => IInv'
  BY TypeStep, NotStartedStep, CausesStep, PipesClosedStep, EmptiedStep DEF IInv
<1>2. QED BY InitInv, <1>1, PTL DEF Spec

\* Type correctness: only running members hold a pipe, and a leader that was
\* waited for has exited.
THEOREM TypeCorrect == Spec => []TypeOK
<1>1. IInv => TypeOK
  BY DEF IInv
<1>2. QED BY Invariance, <1>1, PTL

\* Whatever the child's tree does, however large it is and whichever of its
\* members ignore SIGTERM: a call that was interrupted in the drain at most,
\* and was not asked to keep what the child started, leaves no member of the
\* group running.
THEOREM GroupEnds == Spec => []NothingOutlives
<1>1. IInv => NothingOutlives
  BY DEF IInv, Emptied, Causes, NothingOutlives
<1>2. QED BY Invariance, <1>1, PTL

\* A result is returned only after the last holder of the pipes is gone.
THEOREM OutputWhole == Spec => []OutputComplete
<1>1. IInv => OutputComplete
  BY DEF IInv, Causes, PipesClosed, OutputComplete
<1>2. QED BY Invariance, <1>1, PTL

\* A call that keeps its descendants and succeeds has signalled none of them.
THEOREM LauncherSpares == Spec => []LauncherSparesBrowser
<1>1. IInv => LauncherSparesBrowser
  BY DEF IInv, Causes, LauncherSparesBrowser
<1>2. QED BY Invariance, <1>1, PTL

-----------------------------------------------------------------------------
(* The safety half of DeadlineBoundsCall: every step of the call brings it  *)
(* nearer to its end, and past the deadline none of them waits for the     *)
(* child's group.                                                           *)

\* The child was born, and a call that goes on without a cause has waited for it.
Waited == /\ pc \notin {"spawning", "raised", "killed"} => status[leader] # "unborn"
          /\ pc \in {"checking", "closing", "awaiting"} /\ cause = "none" => reaped

\* Every step keeps it.
LEMMA WaitedStep == TypeOK /\ Causes /\ Waited /\ [Next]_vars => Waited'
<1> SUFFICES ASSUME TypeOK, Causes, Waited, [Next]_vars PROVE Waited'
  OBVIOUS
<1> USE RunAssumption DEF Waited
<1>1. CASE Spawn
  BY <1>1 DEF Spawn, TypeOK
<1>2. CASE SignalTerm
  BY <1>2 DEF SignalTerm
<1>3. CASE Kill
  BY <1>3 DEF Kill
<1>4. CASE Quiet
  <2>1. status' = status
    BY <1>4, QuietTree DEF tree
  <2>2. CASE \/ SpawnFails \/ EnterTry \/ StartReaders \/ WaitLeader \/ JoinReaders
             \/ Drained
    BY <2>1, <2>2 DEF SpawnFails, EnterTry, StartReaders, WaitLeader, JoinReaders,
                      Drained
  <2>3. CASE TimesOut \/ ReaderFails
    BY <2>1, <2>3 DEF TimesOut, ReaderFails, CutShort
  <2>4. CASE \/ CheckLeftovers \/ PollReaps \/ GroupGone \/ GraceOver \/ Reap
             \/ PipesClose \/ Return \/ GiveUpWait
    BY <2>1, <2>4 DEF CheckLeftovers, PollReaps, GroupGone, GraceOver, Reap,
                      PipesClose, Return, GiveUpWait
  <2>5. CASE Interrupt
    BY <2>1, <2>5 DEF Interrupt
  <2>6. CASE LaneDies \/ Tick
    BY <2>1, <2>6 DEF LaneDies, Tick
  <2>7. QED BY <1>4, <2>2, <2>3, <2>4, <2>5, <2>6 DEF Quiet
<1>5. ASSUME NEW m \in Members, Fork(m) \/ CloseOutput(m) \/ Exit(m) PROVE Waited'
  <2>1. /\ pc' = pc /\ cause' = cause /\ reaped' = reaped
    BY <1>5, TreeLane DEF Tree
  <2>2. status[leader] # "unborn" => status'[leader] # "unborn"
    BY <1>5 DEF Fork, CloseOutput, Exit, TypeOK
  <2>3. QED BY <2>1, <2>2
<1>6. CASE UNCHANGED vars
  BY <1>6 DEF vars, lane, tree
<1>7. QED BY <1>1, <1>2, <1>3, <1>4, <1>5, <1>6, Cases DEF Tree

\* How many steps the way from a label to the end of the call still has.
Rank(l) == CASE l = "spawning"  -> 10
             [] l = "unguarded" -> 9
             [] l = "draining"  -> 8
             [] l = "checking"  -> 7
             [] l = "stopping"  -> 6
             [] l = "grace"     -> 5
             [] l = "force"     -> 4
             [] l = "reaping"   -> 3
             [] l = "closing"   -> 2
             [] l = "awaiting"  -> 1
             [] OTHER           -> 0

\* The steps the call has left at most: it also waits for the leader once, and
\* starts and joins the readers once.
CallLeft == Rank(pc) + (IF reaped THEN 0 ELSE 1)
                     + (IF drained THEN 0 ELSE IF reading THEN 1 ELSE 2)

\* The tree and the clock leave the measure alone, every other step lowers it.
CallGetsOn == \/ CallLeft' < CallLeft
              \/ (Tree \/ Tick) /\ CallLeft' = CallLeft

\* Where the drain may be left by a timeout.
MayTimeOut == /\ deadline = "passed"
              /\ \/ LeaderTurn /\ status[leader] = "running"
                 \/ ReaderTurn /\ open # {}

\* Past its deadline the drain is through, starts its readers, has what it waits
\* for, or times out.  After it whoever waits for the leader finds it dead, and
\* the close of the pipes is kept from going on by none but descendants in
\* sessions of their own: it goes on at once if there are none, or if they let
\* go of the pipes.
OnlyDaemonsHold ==
    /\ pc = "draining" /\ deadline = "passed" =>
          \/ reaped /\ drained
          \/ ~reading /\ ~drained
          \/ LeaderTurn /\ status[leader] = "exited"
          \/ ReaderTurn /\ open = {}
          \/ MayTimeOut
    /\ pc \in {"reaping", "closing", "awaiting"} /\ Guarded
          => status[leader] = "exited"
    /\ pc = "closing" /\ Guarded => HeldByDaemon \/ ~PipesBlocked

\* The rank of each label.
LEMMA Ranks ==
  /\ \A l \in Labels : Rank(l) \in 0..10
  /\ Rank("spawning") = 10 /\ Rank("unguarded") = 9 /\ Rank("draining") = 8
  /\ Rank("checking") = 7 /\ Rank("stopping") = 6 /\ Rank("grace") = 5
  /\ Rank("force") = 4 /\ Rank("reaping") = 3 /\ Rank("closing") = 2
  /\ Rank("awaiting") = 1
  /\ \A l \in Final : Rank(l) = 0
  BY DEF Rank, Labels, Final

\* Every step of the call lowers the measure.
LEMMA GetsOnStep == IInv /\ [Next]_vars => [CallGetsOn]_vars
<1> SUFFICES ASSUME TypeOK, NotStarted, Next PROVE CallGetsOn
  BY DEF IInv
<1> USE Ranks DEF CallGetsOn, CallLeft, TypeOK, Final
<1>1. CASE Spawn
  BY <1>1 DEF Spawn
<1>2. CASE SignalTerm
  BY <1>2 DEF SignalTerm
<1>3. CASE Kill
  BY <1>3 DEF Kill
<1>4. CASE Quiet
  <2>1. CASE SpawnFails \/ EnterTry \/ StartReaders
    BY <2>1 DEF SpawnFails, EnterTry, StartReaders
  <2>2. CASE WaitLeader \/ JoinReaders
    BY <2>2 DEF WaitLeader, JoinReaders, LeaderTurn, ReaderTurn
  <2>3. CASE Drained
    BY <2>3 DEF Drained
  <2>4. CASE TimesOut \/ ReaderFails
    BY <2>4 DEF TimesOut, ReaderFails, CutShort
  <2>5. CASE CheckLeftovers
    BY <2>5 DEF CheckLeftovers
  <2>6. CASE PollReaps
    BY <2>6 DEF PollReaps
  <2>7. CASE GroupGone \/ GraceOver
    BY <2>7 DEF GroupGone, GraceOver
  <2>8. CASE Reap
    BY <2>8 DEF Reap
  <2>9. CASE PipesClose \/ Return \/ GiveUpWait
    BY <2>9 DEF PipesClose, Return, GiveUpWait
  <2>10. CASE Interrupt
    BY <2>10 DEF Interrupt
  <2>11. CASE LaneDies
    BY <2>11 DEF LaneDies, Labels
  <2>12. CASE Tick
    BY <2>12 DEF Tick
  <2>13. QED
    BY <1>4, <2>1, <2>2, <2>3, <2>4, <2>5, <2>6, <2>7, <2>8, <2>9, <2>10,
       <2>11, <2>12 DEF Quiet
<1>5. CASE Tree
  BY <1>5, TreeLane
<1>6. QED BY <1>1, <1>2, <1>3, <1>4, <1>5, Cases

\* A call takes at most thirteen steps of its own, whatever the child's tree
\* does and wherever an interrupt strikes, and past its deadline none of them
\* waits for a process of the child's group: what is left to wait for is a pipe
\* held by a descendant in a session of its own.  DeadlineBoundsCall follows for
\* an interpreter that keeps executing the call.
THEOREM CallIsBounded == Spec => /\ [](CallLeft \in 0..13)
                                 /\ [][CallGetsOn]_vars
                                 /\ []OnlyDaemonsHold
<1>1. IInv => CallLeft \in 0..13
  <2> SUFFICES ASSUME TypeOK PROVE CallLeft \in 0..13
    BY DEF IInv
  <2>1. Rank(pc) \in 0..10
    BY Ranks DEF TypeOK
  <2>2. QED BY <2>1 DEF CallLeft, TypeOK
<1>2. Init => Waited
  BY DEF Init, Waited
<1>3. IInv /\ Waited /\ [Next]_vars => Waited'
  BY WaitedStep DEF IInv
<1>4. IInv /\ Waited => OnlyDaemonsHold
  <2> SUFFICES ASSUME IInv, Waited PROVE OnlyDaemonsHold
    OBVIOUS
  <2> USE RunAssumption DEF IInv, TypeOK
  <2>1. status[leader] \in {"unborn", "running", "exited"}
    OBVIOUS
  <2>2. GroupRunning = {} => status[leader] # "running"
    BY DEF GroupRunning, Running
  <2>3. ASSUME pc \in {"reaping", "closing", "awaiting"}, Guarded
        PROVE  status[leader] = "exited"
    BY <2>1, <2>2, <2>3 DEF Emptied, Waited
  <2>4. ASSUME pc = "draining", deadline = "passed"
        PROVE  \/ reaped /\ drained
               \/ ~reading /\ ~drained
               \/ LeaderTurn /\ status[leader] = "exited"
               \/ ReaderTurn /\ open = {}
               \/ MayTimeOut
    <3>1. (reaped /\ drained) \/ (~reading /\ ~drained) \/ LeaderTurn \/ ReaderTurn
      BY DEF LeaderTurn, ReaderTurn
    <3>2. status[leader] \in {"running", "exited"}
      BY <2>1, <2>4 DEF Waited
    <3>3. QED BY <2>4, <3>1, <3>2 DEF MayTimeOut
  <2>5. ASSUME pc = "closing", Guarded, PipesBlocked PROVE HeldByDaemon
    <3>1. drained => open = {}
      BY DEF PipesClosed
    <3>2. GroupRunning = {}
      BY <2>5, <3>1 DEF Emptied, Causes, PipesBlocked
    <3>3. PICK m \in open : TRUE
      BY <2>5 DEF PipesBlocked
    <3>4. m \in Daemons
      BY <3>2, <3>3 DEF GroupRunning
    <3>5. QED BY <2>5, <3>3, <3>4 DEF HeldByDaemon, PipesBlocked
  <2>6. QED BY <2>3, <2>4, <2>5 DEF OnlyDaemonsHold
<1>5. QED BY Invariance, GetsOnStep, <1>1, <1>2, <1>3, <1>4, PTL DEF Spec
=============================================================================
