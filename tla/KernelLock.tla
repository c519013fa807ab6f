------------------------------ MODULE KernelLock ------------------------------
(***************************************************************************)
(* src/lane/locks.py: `exclusive`, the lock every lane process takes       *)
(* around the browser (and around a drive or a repair of one worktree).    *)
(*                                                                         *)
(* flock(2) belongs to an inode, not to a name: two processes exclude each *)
(* other only if they opened the same inode.  The model therefore keeps    *)
(* the files apart from the names that lead to them.  The environment may  *)
(* delete the artifact tree that holds the identity path at any moment,    *)
(* and may kill any process at any step.                                   *)
(***************************************************************************)
CONSTANTS Procs,       \* lane processes (a process id may run many calls)
          Bounded,     \* those that pass a timeout; the others wait forever
          Inodes,      \* inodes the filesystem can hand out
          NoProc, NoFile

ASSUME LockAssumption == /\ Bounded \subseteq Procs
                         /\ NoProc \notin Procs
                         /\ NoFile \notin Inodes

VARIABLES pc,          \* where each process is in `exclusive`
          fd,          \* the inode its open descriptor refers to
          passed,      \* its deadline is reached
          lock,        \* per inode, the process holding the flock
          at,          \* per path, the inode it leads to
          text         \* per inode, the pid written in it

vars == <<pc, fd, passed, lock, at, text>>

\* "kernel": kernel_lock_path(path), in the private per-user directory.
\* "identity": path itself, which carries the receipt for humans.
Paths == {"kernel", "identity"}

Labels == {"idle", "trying", "sleeping", "holding", "recording", "inside",
           "releasing", "closing"}

Init == /\ pc = [p \in Procs |-> "idle"]
        /\ fd = [p \in Procs |-> NoFile]
        /\ passed = [p \in Procs |-> FALSE]
        /\ lock = [i \in Inodes |-> NoProc]
        /\ at = [x \in Paths |-> NoFile]
        /\ text = [i \in Inodes |-> NoProc]

\* An inode is free once no path and no descriptor leads to it.
Fresh == Inodes \ ({at[x] : x \in Paths} \cup {fd[p] : p \in Procs})

\* The inodes that opening path x with O_CREAT may yield.
Openable(x) == IF at[x] = NoFile THEN Fresh ELSE {at[x]}

Goto(p, label) == pc' = [pc EXCEPT ![p] = label]

-----------------------------------------------------------------------------
\* Defect: lock the caller's own path instead of the private kernel file.
LockPathInTree == "identity"

\* The name under which the load-bearing file is opened.
LockPath == "kernel"

\* _open_kernel_lock, then the deadline: a timeout of 0 has already passed
\* when the loop first asks, a positive one has not.
Open(p) == /\ pc[p] = "idle"
           /\ \E i \in Openable(LockPath) :
                /\ fd' = [fd EXCEPT ![p] = i]
                /\ at' = [at EXCEPT ![LockPath] = i]
           /\ \E late \in IF p \in Bounded THEN BOOLEAN ELSE {FALSE} :
                passed' = [passed EXCEPT ![p] = late]
           /\ Goto(p, "trying")
           /\ UNCHANGED <<lock, text>>

\* The clock reaches the deadline of a call that has one.
Tick(p) == /\ p \in Bounded
           /\ pc[p] \in {"trying", "sleeping"}
           /\ ~passed[p]
           /\ passed' = [passed EXCEPT ![p] = TRUE]
           /\ UNCHANGED <<pc, fd, lock, at, text>>

\* Defect: a shared lock, which any number of descriptors may hold.
TryLockShared(p) == /\ pc[p] = "trying"
                    /\ lock' = [lock EXCEPT ![fd[p]] = p]
                    /\ Goto(p, "holding")
                    /\ UNCHANGED <<fd, passed, at, text>>

\* _try_lock succeeds: LOCK_EX on the inode behind the descriptor.
TryLock(p) == /\ pc[p] = "trying"
              /\ lock[fd[p]] = NoProc
              /\ lock' = [lock EXCEPT ![fd[p]] = p]
              /\ Goto(p, "holding")
              /\ UNCHANGED <<fd, passed, at, text>>

\* Defect: sleep again however late it is.
BusyForever(p) == /\ pc[p] = "trying"
                  /\ lock[fd[p]] # NoProc
                  /\ Goto(p, "sleeping")
                  /\ UNCHANGED <<fd, passed, lock, at, text>>

\* _try_lock reports the lock busy: LockBusy once the deadline has passed,
\* otherwise sleep POLL_SECONDS and try again.
Busy(p) == /\ pc[p] = "trying"
           /\ lock[fd[p]] # NoProc
           /\ Goto(p, IF passed[p] THEN "closing" ELSE "sleeping")
           /\ UNCHANGED <<fd, passed, lock, at, text>>

\* _try_lock fails for any other reason: the OSError is the caller's.
TryFails(p) == /\ pc[p] = "trying"
               /\ Goto(p, "closing")
               /\ UNCHANGED <<fd, passed, lock, at, text>>

Wake(p) == /\ pc[p] = "sleeping"
           /\ Goto(p, "trying")
           /\ UNCHANGED <<fd, passed, lock, at, text>>

\* Defect: write the pid only into a new file, never over an older pid.
WriteHolderOnce(p) == /\ pc[p] = "holding"
                      /\ text' = IF text[fd[p]] = NoProc
                                   THEN [text EXCEPT ![fd[p]] = p] ELSE text
                      /\ Goto(p, "recording")
                      /\ UNCHANGED <<fd, passed, lock, at>>

\* _write_kernel_holder: the pid goes into the locked inode.
WriteHolder(p) == /\ pc[p] = "holding"
                  /\ text' = [text EXCEPT ![fd[p]] = p]
                  /\ Goto(p, "recording")
                  /\ UNCHANGED <<fd, passed, lock, at>>

\* A full disk: the error leaves through the finally clause.
WriteHolderFails(p) == /\ pc[p] = "holding"
                       /\ Goto(p, "releasing")
                       /\ UNCHANGED <<fd, passed, lock, at, text>>

\* _record_holder: the receipt is rewritten, or created where it was deleted.
RecordHolder(p) == /\ pc[p] = "recording"
                   /\ \E i \in Openable("identity") :
                        /\ at' = [at EXCEPT !["identity"] = i]
                        /\ text' = [text EXCEPT ![i] = p]
                   /\ Goto(p, "inside")
                   /\ UNCHANGED <<fd, passed, lock>>

\* The receipt is best effort: an OSError is swallowed.
RecordHolderFails(p) == /\ pc[p] = "recording"
                        /\ Goto(p, "inside")
                        /\ UNCHANGED <<fd, passed, lock, at, text>>

\* The with block returns or raises.
LeaveBlock(p) == /\ pc[p] = "inside"
                 /\ Goto(p, "releasing")
                 /\ UNCHANGED <<fd, passed, lock, at, text>>

Unlock(p) == /\ pc[p] = "releasing"
             /\ lock' = [lock EXCEPT ![fd[p]] = NoProc]
             /\ Goto(p, "closing")
             /\ UNCHANGED <<fd, passed, at, text>>

\* Closing the last descriptor drops whatever flock it still held.
Dropped(p) == [i \in Inodes |-> IF i = fd[p] /\ lock[i] = p THEN NoProc
                                                            ELSE lock[i]]

\* Defect: the finally clause forgets handle.close().
CloseLeaks(p) == /\ pc[p] = "closing"
                 /\ lock' = Dropped(p)
                 /\ Goto(p, "idle")
                 /\ UNCHANGED <<fd, passed, at, text>>

Close(p) == /\ pc[p] = "closing"
            /\ lock' = Dropped(p)
            /\ fd' = [fd EXCEPT ![p] = NoFile]
            /\ Goto(p, "idle")
            /\ UNCHANGED <<passed, at, text>>

\* SIGTERM or Ctrl-C raises wherever the main thread stands.  `acquired` is set
\* one statement after the flock, so the finally clause may skip _unlock and
\* leave the release to the close.
Interrupt(p) == /\ \/ pc[p] \in {"trying", "sleeping", "holding"} /\ Goto(p, "closing")
                   \/ pc[p] \in {"holding", "recording"} /\ Goto(p, "releasing")
                /\ UNCHANGED <<fd, passed, lock, at, text>>

\* Defect: a lock that outlives its process, as a pid file does.
CrashLeavesLock(p) == /\ pc[p] # "idle"
                      /\ fd' = [fd EXCEPT ![p] = NoFile]
                      /\ Goto(p, "idle")
                      /\ UNCHANGED <<passed, lock, at, text>>

\* The process dies anywhere; the kernel closes its descriptor.
Crash(p) == /\ pc[p] # "idle"
            /\ lock' = Dropped(p)
            /\ fd' = [fd EXCEPT ![p] = NoFile]
            /\ Goto(p, "idle")
            /\ UNCHANGED <<passed, at, text>>

\* Somebody deletes the worktree or the artifact directory with the receipt.
Wipe == /\ at["identity"] # NoFile
        /\ at' = [at EXCEPT !["identity"] = NoFile]
        /\ UNCHANGED <<pc, fd, passed, lock, text>>

-----------------------------------------------------------------------------
\* The steps of the call itself, as opposed to the clock's and the world's.
Step(p) == \/ Open(p)
           \/ TryLock(p) \/ Busy(p) \/ TryFails(p) \/ Wake(p)
           \/ WriteHolder(p) \/ WriteHolderFails(p)
           \/ RecordHolder(p) \/ RecordHolderFails(p)
           \/ LeaveBlock(p) \/ Unlock(p) \/ Close(p)

Next == \/ \E p \in Procs : Step(p) \/ Tick(p) \/ Interrupt(p) \/ Crash(p)
        \/ Wipe

Spec == Init /\ [][Next]_vars

\* A call that has started keeps running and time passes.  Nothing obliges a
\* process to start a call or to die, and the poll is not a fair queue.
Fairness == \A p \in Procs : /\ WF_vars(Step(p) /\ pc[p] # "idle")
                             /\ WF_vars(Tick(p))

FairSpec == Spec /\ Fairness

-----------------------------------------------------------------------------
Entered(p) == pc[p] \in {"holding", "recording", "inside", "releasing"}

Waiting(p) == pc[p] \in {"trying", "sleeping"}

\* Every variable in its set, and a descriptor open exactly during a call.
TypeOK == /\ pc \in [Procs -> Labels]
          /\ fd \in [Procs -> Inodes \cup {NoFile}]
          /\ passed \in [Procs -> BOOLEAN]
          /\ lock \in [Inodes -> Procs \cup {NoProc}]
          /\ at \in [Paths -> Inodes \cup {NoFile}]
          /\ text \in [Inodes -> Procs \cup {NoProc}]
          /\ \A p \in Procs : fd[p] = NoFile <=> pc[p] = "idle"

\* No two processes are ever past a successful _try_lock and before their
\* _unlock together, although the receipt tree may be deleted and recreated
\* and processes may die between any two steps.
MutualExclusion == \A p, q \in Procs : Entered(p) /\ Entered(q) => p = q

\* Whoever is inside the block is named by the file at the kernel path: what
\* an operator reads there during a run is the run's own pid.
HolderFileNamesHolder ==
    \A p \in Procs : pc[p] = "inside" =>
        at["kernel"] # NoFile /\ text[at["kernel"]] = p

\* A call with a timeout always comes back from the acquisition loop.
BoundedCallsReturn == \A p \in Bounded : Waiting(p) ~> ~Waiting(p)

\* A caller waits forever only while others keep getting the lock: a dead or
\* departed holder never blocks it.
WaitMeansTraffic ==
    \A p \in Procs : <>[]Waiting(p) => []<>(\E q \in Procs : pc[q] = "holding")

\* The detailed lock keeps the abstract promise: those between _try_lock and
\* _unlock are the ones inside, and they enter one at a time.
Promise == INSTANCE Mutex WITH inside <- {p \in Procs : Entered(p)}

ImplementsMutex == Promise!Spec
=============================================================================
