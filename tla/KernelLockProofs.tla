---------------------------- MODULE KernelLockProofs ----------------------------
(***************************************************************************)
(* Theorems about KernelLock for every set of processes and of inodes.     *)
(*                                                                         *)
(* MutualExclusion is not inductive: nothing in it says that two processes *)
(* in the loop wait on the same inode.  The argument needs OneFile (every  *)
(* open descriptor is on the file now at the kernel path, because no step  *)
(* of lane or of the world it models unlinks that path) and Owner (past    *)
(* _try_lock the inode's flock carries the process's name).                *)
(***************************************************************************)
EXTENDS KernelLock, Naturals, TLAPS

OneFile == \A p \in Procs : fd[p] # NoFile => fd[p] = at["kernel"]

Owner == \A p \in Procs : Entered(p) => lock[fd[p]] = p

HolderFile == \A p \in Procs :
                 pc[p] \in {"recording", "inside"} => text[fd[p]] = p

\* An inode is locked by a call that has it open and is not over yet.
NoStaleLock == \A i \in Inodes : lock[i] # NoProc =>
                  /\ fd[lock[i]] = i
                  /\ Entered(lock[i]) \/ pc[lock[i]] = "closing"

IInv == TypeOK /\ OneFile /\ Owner /\ HolderFile /\ NoStaleLock

\* Two processes past _try_lock are one: the induction's working form of
\* MutualExclusion.
LEMMA OwnersAgree ==
  ASSUME TypeOK, OneFile, Owner
  PROVE  MutualExclusion
<1>1. SUFFICES ASSUME NEW p \in Procs, NEW q \in Procs, Entered(p), Entered(q)
               PROVE  p = q
  BY DEF MutualExclusion
<1>2. fd[p] # NoFile /\ fd[q] # NoFile
  BY <1>1 DEF TypeOK, Entered
<1>3. fd[p] = fd[q]
  BY <1>2 DEF OneFile
<1>4. lock[fd[p]] = p /\ lock[fd[q]] = q
  BY <1>1 DEF Owner
<1>5. QED BY <1>3, <1>4

\* The initial state satisfies the inductive invariant.
LEMMA InitInv == Init => IInv
  BY LockAssumption
  DEF Init, IInv, TypeOK, OneFile, Owner, HolderFile, NoStaleLock, Entered, Labels, Paths

\* What opening a path may yield is an inode, and the one it leads to if any.
LEMMA OpenableIsInode ==
  ASSUME TypeOK, NEW x \in Paths, NEW i \in Openable(x)
  PROVE  i \in Inodes /\ i # NoFile /\ (at[x] # NoFile => i = at[x])
  BY LockAssumption DEF TypeOK, Openable, Fresh

\* Every step keeps the type invariant.
LEMMA TypeStep == TypeOK /\ [Next]_vars => TypeOK'
<1> SUFFICES ASSUME TypeOK, [Next]_vars PROVE TypeOK'
  OBVIOUS
<1> USE LockAssumption DEF TypeOK, Labels, Goto
<1>1. ASSUME NEW p \in Procs, Open(p) PROVE TypeOK'
  <2>1. PICK i \in Openable(LockPath) :
            /\ fd' = [fd EXCEPT ![p] = i]
            /\ at' = [at EXCEPT ![LockPath] = i]
    BY <1>1 DEF Open
  <2>2. i \in Inodes /\ i # NoFile
    BY <2>1, OpenableIsInode DEF LockPath, Paths
  <2>3. passed' \in [Procs -> BOOLEAN]
    BY <1>1 DEF Open
  <2>4. QED BY <1>1, <2>1, <2>2, <2>3 DEF Open, LockPath, Paths
<1>2. ASSUME NEW p \in Procs, Tick(p) PROVE TypeOK'
  BY <1>2 DEF Tick
<1>3. ASSUME NEW p \in Procs, TryLock(p) PROVE TypeOK'
  BY <1>3 DEF TryLock
<1>4. ASSUME NEW p \in Procs, Busy(p) \/ TryFails(p) \/ Wake(p) PROVE TypeOK'
  BY <1>4 DEF Busy, TryFails, Wake
<1>5. ASSUME NEW p \in Procs, WriteHolder(p) \/ WriteHolderFails(p) PROVE TypeOK'
  BY <1>5 DEF WriteHolder, WriteHolderFails
<1>6. ASSUME NEW p \in Procs, RecordHolder(p) PROVE TypeOK'
  <2>1. PICK i \in Openable("identity") :
            /\ at' = [at EXCEPT !["identity"] = i]
            /\ text' = [text EXCEPT ![i] = p]
    BY <1>6 DEF RecordHolder
  <2>2. i \in Inodes
    BY <2>1, OpenableIsInode DEF Paths
  <2>3. QED BY <1>6, <2>1, <2>2 DEF RecordHolder, Paths
<1>7. ASSUME NEW p \in Procs, RecordHolderFails(p) \/ LeaveBlock(p) PROVE TypeOK'
  BY <1>7 DEF RecordHolderFails, LeaveBlock
<1>8. ASSUME NEW p \in Procs, Unlock(p) PROVE TypeOK'
  BY <1>8 DEF Unlock
<1>9. ASSUME NEW p \in Procs, Close(p) \/ Crash(p) PROVE TypeOK'
  BY <1>9 DEF Close, Crash, Dropped
<1>10. ASSUME NEW p \in Procs, Interrupt(p) PROVE TypeOK'
  BY <1>10 DEF Interrupt
<1>11. CASE Wipe
  BY <1>11 DEF Wipe, Paths
<1>12. CASE UNCHANGED vars
  BY <1>12 DEF vars
<1>13. QED
  BY <1>1, <1>2, <1>3, <1>4, <1>5, <1>6, <1>7, <1>8, <1>9, <1>10, <1>11, <1>12
  DEF Next, Step

\* Every step keeps all open descriptors on the file at the kernel path.
LEMMA OneFileStep == TypeOK /\ OneFile /\ [Next]_vars => OneFile'
<1> SUFFICES ASSUME TypeOK, OneFile, [Next]_vars PROVE OneFile'
  OBVIOUS
<1> USE LockAssumption DEF TypeOK, OneFile
<1>1. ASSUME NEW p \in Procs, Open(p) PROVE OneFile'
  <2>1. PICK i \in Openable("kernel") :
            /\ fd' = [fd EXCEPT ![p] = i]
            /\ at' = [at EXCEPT !["kernel"] = i]
    BY <1>1 DEF Open, LockPath
  <2>2. i \in Inodes /\ (at["kernel"] # NoFile => i = at["kernel"])
    BY <2>1, OpenableIsInode DEF Paths
  <2>3. QED BY <2>1, <2>2 DEF Paths
<1>2. ASSUME NEW p \in Procs, RecordHolder(p) PROVE OneFile'
  BY <1>2 DEF RecordHolder, Paths
<1>3. ASSUME NEW p \in Procs, Close(p) \/ Crash(p) PROVE OneFile'
  BY <1>3 DEF Close, Crash
<1>4. CASE Wipe
  BY <1>4 DEF Wipe, Paths
<1>5. CASE UNCHANGED <<fd, at>>
  BY <1>5
<1>6. QED
  BY <1>1, <1>2, <1>3, <1>4, <1>5
  DEF Next, Step, vars, Tick, TryLock, Busy, TryFails, Wake, WriteHolder,
      WriteHolderFails, RecordHolderFails, LeaveBlock, Unlock, Interrupt

\* Every step keeps the flock in the name of whoever is past _try_lock.
LEMMA OwnerStep == TypeOK /\ OneFile /\ Owner /\ [Next]_vars => Owner'
<1> SUFFICES ASSUME TypeOK, OneFile, Owner, [Next]_vars,
                    NEW p \in Procs, Entered(p)'
             PROVE  lock'[fd'[p]] = p
  BY DEF Owner
<1>0. MutualExclusion
  BY OwnersAgree
<1> USE LockAssumption DEF TypeOK, Owner, Entered, Goto
<1>1. ASSUME NEW q \in Procs, Open(q) PROVE lock'[fd'[p]] = p
  BY <1>1 DEF Open
<1>2. ASSUME NEW q \in Procs, TryLock(q) PROVE lock'[fd'[p]] = p
  <2>1. CASE p = q
    BY <1>2, <2>1 DEF TryLock
  <2>2. CASE p # q
    <3>1. Entered(p) /\ fd[p] # NoFile /\ fd[q] # NoFile
      BY <1>2, <2>2 DEF TryLock
    <3>2. lock[fd[p]] = p /\ lock[fd[q]] = NoProc
      BY <1>2, <3>1 DEF TryLock
    <3>3. QED BY <3>1, <3>2 DEF OneFile
  <2>3. QED BY <2>1, <2>2
<1>3. ASSUME NEW q \in Procs, Unlock(q) PROVE lock'[fd'[p]] = p
  <2>1. p # q /\ Entered(p) /\ Entered(q)
    BY <1>3 DEF Unlock
  <2>2. QED BY <1>0, <2>1 DEF MutualExclusion
<1>4. ASSUME NEW q \in Procs, Close(q) \/ Crash(q) PROVE lock'[fd'[p]] = p
  <2>1. p # q /\ Entered(p) /\ fd'[p] = fd[p] /\ fd[p] \in Inodes
    BY <1>4 DEF Close, Crash
  <2>2. lock' = Dropped(q)
    BY <1>4 DEF Close, Crash
  <2>3. QED BY <2>1, <2>2 DEF Dropped
<1>5. ASSUME NEW q \in Procs,
             \/ Tick(q) \/ Busy(q) \/ TryFails(q) \/ Wake(q)
             \/ WriteHolder(q) \/ WriteHolderFails(q)
             \/ RecordHolder(q) \/ RecordHolderFails(q) \/ LeaveBlock(q)
             \/ Interrupt(q)
      PROVE  lock'[fd'[p]] = p
  <2>1. UNCHANGED <<fd, lock>>
    BY <1>5 DEF Tick, Busy, TryFails, Wake, WriteHolder, WriteHolderFails,
                RecordHolder, RecordHolderFails, LeaveBlock, Interrupt
  <2>2. Entered(p)
    BY <1>5 DEF Tick, Busy, TryFails, Wake, WriteHolder, WriteHolderFails,
                RecordHolder, RecordHolderFails, LeaveBlock, Interrupt
  <2>3. QED BY <2>1, <2>2
<1>6. CASE Wipe \/ UNCHANGED vars
  BY <1>6 DEF Wipe, vars
<1>7. QED
  BY <1>1, <1>2, <1>3, <1>4, <1>5, <1>6 DEF Next, Step

\* Every step keeps the holder's pid in the file it locked: only the holder
\* writes to that inode, even when the receipt shares the tree or the name.
LEMMA HolderFileStep ==
  TypeOK /\ OneFile /\ Owner /\ HolderFile /\ [Next]_vars => HolderFile'
<1> SUFFICES ASSUME TypeOK, OneFile, Owner, HolderFile, [Next]_vars,
                    NEW p \in Procs, pc'[p] \in {"recording", "inside"}
             PROVE  text'[fd'[p]] = p
  BY DEF HolderFile
<1>0. MutualExclusion
  BY OwnersAgree
<1> USE LockAssumption DEF TypeOK, HolderFile, Goto
<1>1. ASSUME NEW q \in Procs, WriteHolder(q) PROVE text'[fd'[p]] = p
  <2>1. p = q
    BY <1>0, <1>1 DEF WriteHolder, MutualExclusion, Entered
  <2>2. fd[q] \in Inodes
    BY <1>1 DEF WriteHolder
  <2>3. QED BY <1>1, <2>1, <2>2 DEF WriteHolder
<1>2. ASSUME NEW q \in Procs, RecordHolder(q) PROVE text'[fd'[p]] = p
  <2>1. p = q
    BY <1>0, <1>2 DEF RecordHolder, MutualExclusion, Entered
  <2>2. text[fd[p]] = p /\ fd[p] \in Inodes /\ fd' = fd
    BY <1>2, <2>1 DEF RecordHolder
  <2>3. PICK i \in Openable("identity") : text' = [text EXCEPT ![i] = p]
    BY <1>2, <2>1 DEF RecordHolder
  <2>4. QED BY <2>2, <2>3
<1>3. ASSUME NEW q \in Procs, Step(q) \/ Tick(q) \/ Interrupt(q) \/ Crash(q),
             ~WriteHolder(q), ~RecordHolder(q)
      PROVE  text'[fd'[p]] = p
  <2>1. text' = text
    BY <1>3 DEF Step, Tick, Interrupt, Crash, Open, TryLock, Busy, TryFails,
                Wake, WriteHolderFails, RecordHolderFails, LeaveBlock, Unlock,
                Close
  <2>2. pc[p] \in {"recording", "inside"} /\ fd'[p] = fd[p]
    BY <1>3 DEF Step, Tick, Interrupt, Crash, Open, TryLock, Busy, TryFails,
                Wake, WriteHolderFails, RecordHolderFails, LeaveBlock, Unlock,
                Close
  <2>3. QED BY <2>1, <2>2
<1>4. CASE Wipe \/ UNCHANGED vars
  BY <1>4 DEF Wipe, vars
<1>5. QED
  BY <1>1, <1>2, <1>3, <1>4 DEF Next

\* Every step keeps each lock with a call that is still there to free it.
LEMMA NoStaleLockStep == TypeOK /\ NoStaleLock /\ [Next]_vars => NoStaleLock'
<1> SUFFICES ASSUME TypeOK, NoStaleLock, [Next]_vars, NEW i \in Inodes, lock'[i] # NoProc
             PROVE  /\ fd'[lock'[i]] = i
                    /\ Entered(lock[i])' \/ pc'[lock'[i]] = "closing"
  BY DEF NoStaleLock
<1> USE LockAssumption DEF TypeOK, NoStaleLock, Goto, Entered
<1>1. ASSUME NEW p \in Procs, TryLock(p)
      PROVE  fd'[lock'[i]] = i /\ (Entered(lock[i])' \/ pc'[lock'[i]] = "closing")
  BY <1>1 DEF TryLock
<1>2. ASSUME NEW p \in Procs, Unlock(p) \/ Close(p) \/ Crash(p)
      PROVE  fd'[lock'[i]] = i /\ (Entered(lock[i])' \/ pc'[lock'[i]] = "closing")
  BY <1>2 DEF Unlock, Close, Crash, Dropped
<1>3. ASSUME NEW p \in Procs, Open(p)
      PROVE  fd'[lock'[i]] = i /\ (Entered(lock[i])' \/ pc'[lock'[i]] = "closing")
  <2>1. pc[p] = "idle" /\ lock' = lock /\ lock[i] # p
    BY <1>3 DEF Open
  <2>2. pc'[lock[i]] = pc[lock[i]] /\ fd'[lock[i]] = fd[lock[i]]
    BY <1>3, <2>1 DEF Open
  <2>3. QED BY <2>1, <2>2
<1>4. ASSUME NEW p \in Procs,
             \/ Tick(p) \/ Busy(p) \/ TryFails(p) \/ Wake(p) \/ WriteHolder(p)
             \/ WriteHolderFails(p) \/ RecordHolder(p) \/ RecordHolderFails(p)
             \/ LeaveBlock(p) \/ Interrupt(p)
      PROVE  fd'[lock'[i]] = i /\ (Entered(lock[i])' \/ pc'[lock'[i]] = "closing")
  BY <1>4 DEF Tick, Busy, TryFails, Wake, WriteHolder, WriteHolderFails, RecordHolder,
     RecordHolderFails, LeaveBlock, Interrupt
<1>5. CASE Wipe \/ UNCHANGED vars
  BY <1>5 DEF Wipe, vars
<1>6. QED BY <1>1, <1>2, <1>3, <1>4, <1>5 DEF Next, Step

\* The inductive invariant holds in every behaviour of the lock.
THEOREM Invariance == Spec => []IInv
<1>1. IInv /\ [Next]_vars => IInv'
  BY TypeStep, OneFileStep, OwnerStep, HolderFileStep, NoStaleLockStep DEF IInv
<1>2. QED BY InitInv, <1>1, PTL DEF Spec

\* Type correctness: every variable keeps its set, and a descriptor is open
\* exactly while its process is in `exclusive`.
THEOREM TypeCorrect == Spec => []TypeOK
<1>1. IInv => TypeOK
  BY DEF IInv
<1>2. QED BY Invariance, <1>1, PTL

\* However many processes call `exclusive`, whatever is deleted from the
\* receipt tree and whoever dies, no two are in the block together.
THEOREM Exclusion == Spec => []MutualExclusion
<1>1. IInv => MutualExclusion
  BY OwnersAgree DEF IInv
<1>2. QED BY Invariance, <1>1, PTL

\* The pid in the kernel file is the pid of whoever is inside.
THEOREM HolderNamed == Spec => []HolderFileNamesHolder
<1>1. IInv => HolderFileNamesHolder
  <2>1. SUFFICES ASSUME IInv, NEW p \in Procs, pc[p] = "inside"
                 PROVE  at["kernel"] # NoFile /\ text[at["kernel"]] = p
    BY DEF HolderFileNamesHolder
  <2>2. fd[p] # NoFile /\ text[fd[p]] = p
    BY <2>1 DEF IInv, TypeOK, HolderFile
  <2>3. QED BY <2>1, <2>2 DEF IInv, OneFile
<1>2. QED BY Invariance, <1>1, PTL

\* Whoever finds the lock busy waits for another call that is past _try_lock and
\* not yet closed, on the same file: never for a process that died or left.
BlockedByTheLiving ==
  \A p \in Procs : Waiting(p) /\ lock[fd[p]] # NoProc =>
    LET owner == lock[fd[p]]
    IN  /\ owner \in Procs \ {p} /\ fd[owner] = fd[p]
        /\ Entered(owner) \/ pc[owner] = "closing"

\* No lock outlives its process, wherever processes die and are interrupted:
\* the half of WaitMeansTraffic that needs no fairness.
THEOREM NobodyWaitsForTheDead == Spec => []BlockedByTheLiving
<1>1. ASSUME IInv, NEW p \in Procs, Waiting(p), lock[fd[p]] # NoProc
      PROVE  LET owner == lock[fd[p]]
             IN  /\ owner \in Procs \ {p} /\ fd[owner] = fd[p]
                 /\ Entered(owner) \/ pc[owner] = "closing"
  <2> DEFINE owner == lock[fd[p]]
  <2>1. fd[p] \in Inodes /\ owner \in Procs
    BY <1>1 DEF IInv, TypeOK, Waiting
  <2>2. fd[owner] = fd[p] /\ (Entered(owner) \/ pc[owner] = "closing")
    BY <1>1, <2>1 DEF IInv, NoStaleLock
  <2>3. owner # p
    BY <1>1, <2>2 DEF Waiting, Entered
  <2>4. QED BY <2>1, <2>2, <2>3
<1>2. IInv => BlockedByTheLiving
  BY <1>1 DEF BlockedByTheLiving
<1>3. QED BY Invariance, <1>2, PTL

\* How many of its own steps a call may still take in the acquisition loop once
\* its deadline has passed.
Polls(p) == IF pc[p] = "sleeping" THEN 2 ELSE IF pc[p] = "trying" THEN 1 ELSE 0

\* The deadline stays passed, nothing adds to those steps and each takes one off.
LateCallLeaves(p) == passed[p] /\ Waiting(p) =>
                        /\ passed'[p]
                        /\ Polls(p)' =< Polls(p)
                        /\ Step(p) => Polls(p)' < Polls(p)

\* A call whose deadline has passed is out of the loop after two steps of its own
\* at most, whatever others do with the lock: what BoundedCallsReturn rests on
\* besides fairness.
THEOREM LateCallsLeave == Spec => [][\A p \in Procs : LateCallLeaves(p)]_vars
<1>1. ASSUME TypeOK, [Next]_vars, NEW p \in Procs PROVE LateCallLeaves(p)
  <2>1. SUFFICES ASSUME passed[p], Waiting(p)
                 PROVE  /\ passed'[p]
                        /\ Polls(p)' =< Polls(p)
                        /\ Step(p) => Polls(p)' < Polls(p)
    BY DEF LateCallLeaves
  <2> USE <1>1, <2>1 DEF TypeOK, Waiting, Goto
  <2>2. ASSUME Step(p)
        PROVE  /\ passed'[p] = passed[p]
               /\ \/ pc[p] = "sleeping" /\ pc'[p] = "trying"
                  \/ pc[p] = "trying" /\ pc'[p] \in {"holding", "closing"}
    BY <2>2 DEF Step, Open, TryLock, Busy, TryFails, Wake, WriteHolder,
       WriteHolderFails, RecordHolder, RecordHolderFails, LeaveBlock, Unlock, Close
  <2>3. ASSUME Tick(p) \/ Interrupt(p) \/ Crash(p)
        PROVE  passed'[p] = passed[p] /\ (pc'[p] = pc[p] \/ pc'[p] \in {"closing", "idle"})
    BY <2>3 DEF Tick, Interrupt, Crash
  <2>4. ASSUME NEW q \in Procs, q # p, Step(q) \/ Tick(q) \/ Interrupt(q) \/ Crash(q)
        PROVE  passed'[p] = passed[p] /\ pc'[p] = pc[p]
    BY <2>4 DEF Step, Open, Tick, TryLock, Busy, TryFails, Wake, WriteHolder,
       WriteHolderFails, RecordHolder, RecordHolderFails, LeaveBlock, Unlock, Close,
       Interrupt, Crash
  <2>5. ASSUME Wipe \/ UNCHANGED vars
        PROVE  passed'[p] = passed[p] /\ pc'[p] = pc[p]
    BY <2>5 DEF Wipe, vars
  <2>6. /\ passed'[p] = passed[p]
        /\ \/ pc'[p] \in {pc[p], "holding", "closing", "idle"}
           \/ pc[p] = "sleeping" /\ pc'[p] = "trying"
    BY <2>2, <2>3, <2>4, <2>5 DEF Next
  <2>7. passed'[p]
    BY <2>6
  <2>8. QED BY <2>2, <2>6, <2>7 DEF Polls
<1>2. TypeOK /\ [Next]_vars => [\A p \in Procs : LateCallLeaves(p)]_vars
  BY <1>1
<1>3. QED BY <1>2, TypeCorrect, PTL DEF Spec

-----------------------------------------------------------------------------
\* Every step of the detailed lock is a step of the promise or a stutter.
LEMMA StepSimulation == IInv /\ IInv' /\ [Next]_vars
                           => [Promise!Next]_{p \in Procs : Entered(p)}
<1> SUFFICES ASSUME IInv, IInv', [Next]_vars
             PROVE  [Promise!Next]_{p \in Procs : Entered(p)}
  OBVIOUS
<1> DEFINE in == {p \in Procs : Entered(p)}
<1>0. MutualExclusion
  BY OwnersAgree DEF IInv
<1> USE LockAssumption DEF IInv, TypeOK, Goto, Entered
<1>1. ASSUME NEW p \in Procs, TryLock(p) PROVE Promise!Enter(p)
  <2>1. fd[p] # NoFile /\ lock[fd[p]] = NoProc
    BY <1>1 DEF TryLock
  <2>2. ASSUME NEW q \in Procs, Entered(q) PROVE FALSE
    <3>1. fd[q] # NoFile /\ lock[fd[q]] = q
      BY <2>2 DEF Owner
    <3>2. fd[p] = fd[q]
      BY <2>1, <3>1 DEF OneFile
    <3>3. QED BY <2>1, <3>1, <3>2
  <2>3. in = {}
    BY <2>2
  <2>4. in' = {p}
    BY <1>1, <2>2 DEF TryLock
  <2>5. QED BY <2>3, <2>4 DEF Promise!Enter
<1>2. ASSUME NEW p \in Procs, Unlock(p) \/ Crash(p) \/ Interrupt(p) \/ Close(p)
      PROVE  Promise!Leave(p) \/ in' = in
  <2>1. ~Entered(p)' \/ (Entered(p) /\ Entered(p)')
    BY <1>2 DEF Unlock, Crash, Interrupt, Close
  <2>2. \A q \in Procs : q # p => (Entered(q)' <=> Entered(q))
    BY <1>2 DEF Unlock, Crash, Interrupt, Close
  <2>3. CASE Entered(p) /\ ~Entered(p)'
    <3>1. p \in in /\ in' = in \ {p}
      BY <2>2, <2>3
    <3>2. QED BY <3>1 DEF Promise!Leave
  <2>4. CASE Entered(p) <=> Entered(p)'
    BY <2>2, <2>4
  <2>5. QED BY <2>1, <2>3, <2>4
<1>3. ASSUME NEW p \in Procs,
             \/ Open(p) \/ Tick(p) \/ Busy(p) \/ TryFails(p) \/ Wake(p)
             \/ WriteHolder(p) \/ WriteHolderFails(p)
             \/ RecordHolder(p) \/ RecordHolderFails(p) \/ LeaveBlock(p)
      PROVE  in' = in
  <2>1. \A q \in Procs : Entered(q)' <=> Entered(q)
    BY <1>3 DEF Open, Tick, Busy, TryFails, Wake, WriteHolder,
                WriteHolderFails, RecordHolder, RecordHolderFails, LeaveBlock
  <2>2. QED BY <2>1
<1>4. CASE Wipe \/ UNCHANGED vars
  BY <1>4 DEF Wipe, vars
<1>5. QED
  BY <1>1, <1>2, <1>3, <1>4 DEF Next, Step, Promise!Next

\* `exclusive` implements the promise its docstring makes.
THEOREM Refinement == Spec => ImplementsMutex
<1>1. Init => Promise!Init
  BY DEF Init, Promise!Init, Entered
<1>2. QED
  BY <1>1, Invariance, StepSimulation, PTL DEF ImplementsMutex, Promise!Spec, Spec
=============================================================================
