-------------------------------- MODULE Mutex --------------------------------
(***************************************************************************)
(* What `locks.exclusive` promises its callers, whatever it is made of:    *)
(* at most one process is inside the block, a process enters only when     *)
(* nobody is inside, and it leaves by returning, by raising or by dying.   *)
(*                                                                         *)
(* The docstring of src/lane/locks.py states the promise ("the browser is  *)
(* a single-flight resource ... released when its process dies").          *)
(* That KernelLock implements it is checked and proved.  Serve, Review and *)
(* Drive are built on it: they change the browser lock by its actions, so  *)
(* do Drive its drive.lock and Repair its repair.lock.                     *)
(***************************************************************************)
CONSTANT Procs

VARIABLE inside        \* the processes between acquisition and release

Init == inside = {}

\* The kernel grants the lock.
Enter(p) == /\ inside = {}
            /\ inside' = {p}

\* The block ends, or the kernel cleans up after a dead process.
Leave(p) == /\ p \in inside
            /\ inside' = inside \ {p}

Next == \E p \in Procs : Enter(p) \/ Leave(p)

Spec == Init /\ [][Next]_inside
=============================================================================
