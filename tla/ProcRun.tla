-------------------------------- MODULE ProcRun --------------------------------
(***************************************************************************)
(* src/lane/proc.py: one call of `run`, `run_tail` or `run_relay` on POSIX,*)
(* with the child it spawns, the child's process group and the pipes both  *)
(* sides hold.  The child is the leader of a session of its own; it and    *)
(* its descendants fork, close their output and exit when they please.     *)
(* The lane process may be interrupted (SIGTERM turned into SystemExit, or *)
(* Ctrl-C) at any statement of the call, and may be killed outright.  The  *)
(* end of the `with process` block is CPython's Popen.__exit__ (external). *)
(***************************************************************************)
EXTENDS FiniteSets, Naturals

CONSTANTS Members,        \* processes the child's tree may come to hold
          leader,         \* the child itself
          Stubborn,       \* members that ignore SIGTERM
          Daemons,        \* members that start a session of their own
          MaxInterrupts   \* signals the lane process receives in one call

ASSUME RunAssumption == /\ leader \in Members \ Daemons
                        /\ Stubborn \subseteq Members
                        /\ Daemons \subseteq Members
                        /\ MaxInterrupts \in Nat

VARIABLES pc,         \* where the call is
          mode,       \* "run" (and run_relay), or "tail"
          keep,       \* allow_descendants
          deadline,   \* "none", "ahead" or "passed"
          cause,      \* why the call is being cut short, if it is
          hit,        \* the labels at which an interrupt struck
          status,     \* per member: "unborn", "running" or "exited"
          open,       \* the members holding a write end of the pipes
          termed,     \* the members a SIGTERM has reached
          reaped,     \* the leader has been waited for
          reading,    \* a reader thread is inside read1 and holds its buffer's lock
          drained     \* every reader thread has reached end of file

lane == <<pc, mode, keep, deadline, cause, hit, reaped, reading, drained>>
tree == <<status, open, termed>>
vars == <<lane, tree>>

Labels == {"spawning", "unguarded", "draining", "checking", "stopping",
           "grace", "force", "reaping", "closing", "awaiting",
           "returned", "raised", "killed"}

Final == {"returned", "raised", "killed"}

Init == /\ pc = "spawning"
        /\ mode \in {"run", "tail"}
        /\ keep \in IF mode = "run" THEN BOOLEAN ELSE {FALSE}
        /\ deadline \in {"none", "ahead"}
        /\ cause = "none"
        /\ hit = {}
        /\ status = [m \in Members |-> "unborn"]
        /\ open = {}
        /\ termed = {}
        /\ reaped = FALSE
        /\ reading = FALSE
        /\ drained = FALSE

Running == {m \in Members : status[m] = "running"}

\* The running members a signal to the group still reaches.
GroupRunning == Running \ Daemons

\* _group_exists: signal 0 also finds a leader that exited but was not reaped.
GroupExists == GroupRunning # {} \/ (status[leader] = "exited" /\ ~reaped)

-----------------------------------------------------------------------------
(* The call.                                                               *)

\* Popen returned; the try block that would stop the child is not entered yet.
Spawn == /\ pc = "spawning"
         /\ pc' = "unguarded"
         /\ status' = [status EXCEPT ![leader] = "running"]
         /\ open' = {leader}
         /\ UNCHANGED <<mode, keep, deadline, cause, hit, reaped, reading, drained,
                        termed>>

\* No such program: nothing was started.
SpawnFails == /\ pc = "spawning"
              /\ pc' = "raised"
              /\ UNCHANGED <<mode, keep, deadline, cause, hit, reaped, reading,
                             drained, tree>>

EnterTry == /\ pc = "unguarded"
            /\ pc' = "draining"
            /\ UNCHANGED <<mode, keep, deadline, cause, hit, reaped, reading, drained,
                           tree>>

StartReaders == /\ pc = "draining" /\ ~reading /\ ~drained
                /\ reading' = TRUE
                /\ UNCHANGED <<pc, mode, keep, deadline, cause, hit, reaped, drained,
                               tree>>

\* _drain_output waits for the leader and then for the readers; run_tail reads
\* to the end of file first and then waits.
LeaderTurn == ~reaped /\ (reading \/ drained) /\ (mode = "tail" => drained)
ReaderTurn == ~drained /\ reading /\ (mode = "run" => reaped)

WaitLeader == /\ pc = "draining" /\ LeaderTurn
              /\ status[leader] = "exited"
              /\ reaped' = TRUE
              /\ UNCHANGED <<pc, mode, keep, deadline, cause, hit, reading, drained,
                             tree>>

\* Defect: take what was read so far once the leader is gone.
JoinReadersEarly == /\ pc = "draining" /\ ReaderTurn
                    /\ reaped \/ open = {}
                    /\ drained' = TRUE /\ reading' = FALSE
                    /\ UNCHANGED <<pc, mode, keep, deadline, cause, hit, reaped, tree>>

\* Defect: wait until the child's tree is gone instead of its output's end.
JoinReadersWaitsForTree == /\ pc = "draining" /\ ReaderTurn
                           /\ Running = {}
                           /\ drained' = TRUE /\ reading' = FALSE
                           /\ UNCHANGED <<pc, mode, keep, deadline, cause, hit, reaped,
                                          tree>>

\* The readers see end of file when nobody holds a write end any more.
JoinReaders == /\ pc = "draining" /\ ReaderTurn
               /\ open = {}
               /\ drained' = TRUE /\ reading' = FALSE
               /\ UNCHANGED <<pc, mode, keep, deadline, cause, hit, reaped, tree>>

\* The wait or the join runs past the deadline, or a reader thread failed.
CutShort(why) == /\ pc = "draining"
                 /\ pc' = "stopping"
                 /\ cause' = why
                 /\ UNCHANGED <<mode, keep, deadline, hit, reaped, drained, tree>>

TimesOut == /\ deadline = "passed"
            /\ \/ LeaderTurn /\ status[leader] = "running"
               \/ ReaderTurn /\ open # {}
            /\ CutShort("timeout")
            /\ UNCHANGED reading

\* A read or a decoding raised, which is looked at when the readers are joined,
\* or a thread did not start, the other pipe's reader running or not.
ReaderFails == /\ \/ ReaderTurn /\ reading' = FALSE
                  \/ ~reading /\ ~drained /\ reading' \in BOOLEAN
               /\ CutShort("error")

Drained == /\ pc = "draining" /\ reaped /\ drained
           /\ pc' = "checking"
           /\ UNCHANGED <<mode, keep, deadline, cause, hit, reaped, reading, drained,
                          tree>>

\* Defect: stop whatever the launcher left, the browser it was asked for too.
CheckLeftoversAlways == /\ pc = "checking"
                        /\ IF GroupExists
                             THEN pc' = "stopping" /\ cause' = "leftover"
                             ELSE pc' = "closing" /\ UNCHANGED cause
                        /\ UNCHANGED <<mode, keep, deadline, hit, reaped, reading,
                                       drained, tree>>

\* The call succeeded; what its child left behind is stopped unless asked for.
CheckLeftovers == /\ pc = "checking"
                  /\ IF ~keep /\ GroupExists
                       THEN pc' = "stopping" /\ cause' = "leftover"
                       ELSE pc' = "closing" /\ UNCHANGED cause
                  /\ UNCHANGED <<mode, keep, deadline, hit, reaped, reading, drained,
                                 tree>>

-----------------------------------------------------------------------------
(* _stop: SIGTERM to the group, a grace period, SIGKILL, reap.             *)

SignalTerm == /\ pc = "stopping"
              /\ termed' = termed \cup GroupRunning
              /\ pc' = "grace"
              /\ UNCHANGED <<mode, keep, deadline, cause, hit, reaped, reading,
                             drained, status, open>>

\* Defect: take a leader that the poll found alive for one it reaped.
PollReapsBlind == /\ pc = "grace"
                  /\ ~reaped
                  /\ reaped' = TRUE
                  /\ UNCHANGED <<pc, mode, keep, deadline, cause, hit, reading,
                                 drained, tree>>

\* A poll reaps an exited leader, so that its zombie does not stand for it.
PollReaps == /\ pc = "grace"
             /\ status[leader] = "exited" /\ ~reaped
             /\ reaped' = TRUE
             /\ UNCHANGED <<pc, mode, keep, deadline, cause, hit, reading, drained,
                            tree>>

\* Defect: the grace period ends with the leader, not with its group.
GroupGoneByLeader == /\ pc = "grace"
                     /\ status[leader] = "exited"
                     /\ pc' = "reaping"
                     /\ UNCHANGED <<mode, keep, deadline, cause, hit, reaped, reading,
                                    drained, tree>>

\* The poll finds the group gone: the second look at it skips the SIGKILL.
GroupGone == /\ pc = "grace"
             /\ ~GroupExists
             /\ pc' = "reaping"
             /\ UNCHANGED <<mode, keep, deadline, cause, hit, reaped, reading, drained,
                            tree>>

\* TERMINATE_GRACE_SECONDS are over.
GraceOver == /\ pc = "grace"
             /\ pc' = "force"
             /\ UNCHANGED <<mode, keep, deadline, cause, hit, reaped, reading, drained,
                            tree>>

\* Defect: after the grace period wait again instead of killing.
NoKill == /\ pc = "force"
          /\ pc' = "reaping"
          /\ UNCHANGED <<mode, keep, deadline, cause, hit, reaped, reading, drained,
                         tree>>

\* SIGKILL cannot be ignored: every member still in the group is gone.
Kill == /\ pc = "force"
        /\ status' = [m \in Members |-> IF m \in GroupRunning THEN "exited"
                                                              ELSE status[m]]
        /\ open' = open \ GroupRunning
        /\ pc' = "reaping"
        /\ UNCHANGED <<mode, keep, deadline, cause, hit, reaped, reading, drained,
                       termed>>

\* process.wait() at the end of _stop.
Reap == /\ pc = "reaping"
        /\ status[leader] = "exited"
        /\ reaped' = TRUE
        /\ pc' = "closing"
        /\ UNCHANGED <<mode, keep, deadline, cause, hit, reading, drained, tree>>

\* Popen.__exit__ closes the pipes first.  A close needs the lock its reader
\* holds while it is inside read1, and no timeout bounds it.
PipesBlocked == reading /\ open # {}

PipesClose == /\ pc = "closing"
              /\ pc' = "awaiting"
              /\ UNCHANGED <<mode, keep, deadline, cause, hit, reaped, reading,
                             drained, tree>>

ClosePipes == ~PipesBlocked /\ PipesClose

\* A holder writes, and the close gets the lock between two reads.
CloseBetweenReads == PipesBlocked /\ PipesClose

\* Then it waits for the leader, and the call returns its result or the
\* exception goes on.
Return == /\ pc = "awaiting"
          /\ status[leader] = "exited"
          /\ reaped' = TRUE
          /\ pc' = IF cause \in {"none", "leftover"} THEN "returned" ELSE "raised"
          /\ UNCHANGED <<mode, keep, deadline, cause, hit, reading, drained, tree>>

\* On a KeyboardInterrupt it waits for a quarter of a second only.
GiveUpWait == /\ pc = "awaiting" /\ cause = "signal"
              /\ pc' = "raised"
              /\ UNCHANGED <<mode, keep, deadline, cause, hit, reaped, reading,
                             drained, tree>>

-----------------------------------------------------------------------------
(* Signals to the lane process.                                            *)

\* SystemExit rises at the statement being executed.  In the drain it reaches
\* the clause that stops the child; before it only __exit__, or nothing at
\* all, stands between the child and the exit; inside _stop it ends _stop.  A
\* blocked close is not interrupted: the signal waits until it is over.
Interrupt == /\ Cardinality(hit) < MaxInterrupts
             /\ \/ pc = "unguarded" /\ pc' \in {"raised", "closing"}
                \/ pc = "draining" /\ pc' = "stopping"
                \/ /\ pc \in {"checking", "stopping", "grace", "force", "reaping"}
                   /\ pc' = "closing"
                \/ pc = "closing" /\ ~PipesBlocked /\ pc' = "raised"
                \/ pc = "awaiting" /\ pc' = "raised"
             /\ cause' = "signal"
             /\ hit' = hit \cup {pc}
             /\ UNCHANGED <<mode, keep, deadline, reaped, reading, drained, tree>>

\* SIGKILL, or a thread of `lane serve` whose process exits: no clause runs.
LaneDies == /\ pc \notin Final
            /\ pc' = "killed"
            /\ UNCHANGED <<mode, keep, deadline, cause, hit, reaped, reading, drained,
                           tree>>

Tick == /\ deadline = "ahead"
        /\ deadline' = "passed"
        /\ UNCHANGED <<pc, mode, keep, cause, hit, reaped, reading, drained, tree>>

-----------------------------------------------------------------------------
(* The child's tree.                                                       *)

\* A running member forks m, which may inherit the pipes it holds.  Only a
\* member of the group can give birth to one.
Fork(m) == /\ status[m] = "unborn" /\ m # leader
           /\ \E parent \in IF m \in Daemons THEN Running ELSE GroupRunning :
                \/ UNCHANGED open
                \/ parent \in open /\ open' = open \cup {m}
           /\ status' = [status EXCEPT ![m] = "running"]
           /\ UNCHANGED <<lane, termed>>

CloseOutput(m) == /\ m \in open
                  /\ open' = open \ {m}
                  /\ UNCHANGED <<lane, status, termed>>

\* It exits on its own or, unless it ignores the signal, on a SIGTERM.
Exit(m) == /\ status[m] = "running"
           /\ status' = [status EXCEPT ![m] = "exited"]
           /\ open' = open \ {m}
           /\ UNCHANGED <<lane, termed>>

\* Steps the interpreter takes once it can.
Call == \/ Spawn \/ EnterTry \/ StartReaders
        \/ WaitLeader \/ JoinReaders \/ TimesOut \/ Drained
        \/ CheckLeftovers
        \/ SignalTerm \/ PollReaps \/ GroupGone \/ GraceOver \/ Kill \/ Reap
        \/ ClosePipes \/ Return

\* What goes wrong with nothing obliging it to.
Failure == \/ SpawnFails \/ ReaderFails \/ Interrupt \/ LaneDies
           \/ CloseBetweenReads \/ GiveUpWait

Next == \/ Call \/ Failure \/ Tick
        \/ \E m \in Members : Fork(m) \/ CloseOutput(m) \/ Exit(m)

Spec == Init /\ [][Next]_vars

\* The interpreter keeps executing the call and time passes.  The only thing
\* assumed of the child is that a member which honours SIGTERM exits on it.
Fairness == /\ WF_vars(Call) /\ WF_vars(Tick) /\ WF_vars(GraceOver)
            /\ \A m \in Members \ Stubborn : WF_vars(Exit(m) /\ m \in termed)

FairSpec == Spec /\ Fairness

-----------------------------------------------------------------------------
\* Every variable in its set; only running members hold a pipe, and only an
\* exited leader is reaped.
TypeOK == /\ pc \in Labels
          /\ mode \in {"run", "tail"}
          /\ keep \in BOOLEAN
          /\ deadline \in {"none", "ahead", "passed"}
          /\ cause \in {"none", "timeout", "error", "leftover", "signal"}
          /\ hit \subseteq Labels
          /\ status \in [Members -> {"unborn", "running", "exited"}]
          /\ open \subseteq Running
          /\ termed \subseteq Members
          /\ reaped \in BOOLEAN
          /\ reading \in BOOLEAN
          /\ drained \in BOOLEAN
          /\ reaped => status[leader] = "exited"

\* No interrupt struck outside the drain, the one place the code guards: one
\* between the fork and the try block reaches no clause that stops the child, and
\* one inside _stop's grace period ends _stop before its SIGKILL.
Guarded == hit \subseteq {"draining"}

\* When the call is over, by a result, a timeout or an interrupt during the
\* drain, no process of the child's group is running, unless the call succeeded
\* and its caller asked to keep what the child started.
NothingOutlives ==
    pc \in {"returned", "raised"} /\ Guarded /\ ~(pc = "returned" /\ keep)
      => GroupRunning = {}

\* A result is complete: nobody is left who could still write to the pipes,
\* not even a descendant in a session of its own.
OutputComplete == pc = "returned" => open = {}

\* A launcher's success leaves the browser it started alone.
LauncherSparesBrowser == pc = "returned" /\ keep => termed = {}

\* The call hangs in the close of a pipe whose reader waits for a process that
\* left the session, which no signal to the group reaches.
HeldByDaemon == pc = "closing" /\ reading /\ open \cap Daemons # {}

\* A timeout bounds the call whatever the child's group does: ignoring SIGTERM,
\* closing its output and living on, or leaving a descendant with the pipe.
\* Only a descendant in a session of its own that never lets go of the pipe can
\* keep the call from returning, and it can do so for good.
DeadlineBoundsCall ==
    pc = "draining" /\ deadline # "none"
      ~> pc \in Final \/ ~Guarded \/ []HeldByDaemon

\* A call without a timeout still ends once its child exited and the pipes are
\* closed.
EndsWhenQuiet ==
    <>[](status[leader] = "exited" /\ open = {}) => <>(pc \in Final)
=============================================================================
