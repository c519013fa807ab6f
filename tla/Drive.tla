--------------------------------- MODULE Drive ---------------------------------
(***************************************************************************)
(* src/lane/drive.py and cli._drive: `lane drive`, the loop of plan,       *)
(* implementation and gate in one worktree.                                *)
(*                                                                         *)
(* Two drives of one root meet at drive.lock, a KernelLock asked without   *)
(* waiting; a planning request stages its pack (PackSnapshot) and then     *)
(* waits for the machine-wide browser lock.  Both locks are Mutex here.    *)
(* A bystander (an editor, the operator, another agent) may edit the       *)
(* worktree at any time, the implementer only while it runs: bubblewrap's  *)
(* pid namespace and --die-with-parent leave none of it behind.            *)
(*                                                                         *)
(* `files` is what the gate's verdict depends on, by content; every edit   *)
(* of the tree moves `stamp`, as it moves a size or an mtime.              *)
(***************************************************************************)
EXTENDS PackSnapshot

CONSTANTS MaxIters,      \* --max-iters
          Verification,  \* paths gate_digests may cover
          Present,       \* those that exist at the start
          Sealed,        \* those that may not appear: sealed names, gate paths
          Others,        \* other lane processes that drive the browser
          OtherRuns,     \* bound on the runs of all of them
          Edits          \* bound on the edits of the worktree

ASSUME DriveAssumption == /\ MaxIters \in Nat \ {0}
                          /\ Present \subseteq Verification
                          /\ Sealed \subseteq Verification
                          /\ Lanes \cap Others = {}
                          /\ OtherRuns \in Nat
                          /\ Edits \in Nat

VARIABLES files,     \* the worktree: content of each verification path
          stamp,     \* edits of the worktree so far
          plan,      \* .ai-bridge/current-plan.md: whose plan, and which
          pc,        \* per drive, where it is
          iter,      \* its iteration
          doing,     \* the plan its implementer was given
          before,    \* the fingerprint taken before the implementation
          baseline,  \* the digests it froze
          red,       \* what the gate that ran before any work judged
          seen,      \* what the last gate judged
          unseen,    \* history: an edit of `files` that no check can see
          holder,    \* who is inside drive.lock
          browser,   \* who is inside the browser lock
          runs       \* runs of the other lane processes

tree == <<files, stamp, shape>>
verdicts == <<baseline, red, seen, unseen>>
vars == <<tree, snapshot, plan, pc, iter, doing, before, verdicts, holder, browser, runs>>

Lock == INSTANCE Mutex WITH Procs <- Lanes, inside <- holder
Browser == INSTANCE Mutex WITH Procs <- Lanes \cup Others, inside <- browser

Contents == {"absent", "found", "changed"}
Readings == [files : [Verification -> Contents], stamp : Nat]
Plans == [by : Lanes, iter : Nat] \cup {[by |-> NoPath, iter |-> 0]}

Ended == {"passed", "failed", "satisfied", "busy", "error", "dead"}
Labels == {"away", "probing", "probed", "freezing", "packing", "waiting", "asking",
           "writing", "launching", "working", "comparing", "checking", "gating",
           "judging"} \cup Ended

NoPlan == [by |-> NoPath, iter |-> 0]
NoFiles == [p \in Verification |-> "absent"]
NoReading == [files |-> NoFiles, stamp |-> 0]

Init == /\ files = [p \in Verification |-> IF p \in Present THEN "found" ELSE "absent"]
        /\ stamp = 0
        /\ InitPack
        /\ plan = NoPlan
        /\ pc = [d \in Lanes |-> "away"]
        /\ iter = [d \in Lanes |-> 0]
        /\ doing = [d \in Lanes |-> NoPlan]
        /\ before = [d \in Lanes |-> 0]
        /\ baseline = [d \in Lanes |-> NoFiles]
        /\ red = [d \in Lanes |-> NoReading]
        /\ seen = [d \in Lanes |-> NoReading]
        /\ unseen = [d \in Lanes |-> FALSE]
        /\ Lock!Init
        /\ Browser!Init
        /\ runs = 0

Set(f, d, v) == [f EXCEPT ![d] = v]
Goto(d, label) == pc' = Set(pc, d, label)

Running(d) == pc[d] \notin Ended \cup {"away"}

\* gate_tampering: frozen files deleted or rewritten, sealed ones added.
Tampering(frozen, now) ==
    {p \in Verification : \/ frozen[p] # "absent" /\ now[p] # frozen[p]
                          \/ frozen[p] = "absent" /\ now[p] # "absent" /\ p \in Sealed}

\* The command is over: what it holds is given back on the way out and what it
\* knew is gone, but for what a PASS rests on, kept for PassIsEarned.
End(d, how) == /\ Goto(d, how)
               /\ Lock!Leave(d)
               /\ browser' = browser \ {d}
               /\ DropPack(d)
               /\ iter' = Set(iter, d, 0)
               /\ doing' = Set(doing, d, NoPlan)
               /\ before' = Set(before, d, 0)
               /\ baseline' = Set(baseline, d, NoFiles)
               /\ IF how = "passed"
                  THEN UNCHANGED <<red, seen, unseen>>
                  ELSE /\ red' = Set(red, d, NoReading)
                       /\ seen' = Set(seen, d, NoReading)
                       /\ unseen' = Set(unseen, d, FALSE)
               /\ UNCHANGED <<tree, plan, runs>>

-----------------------------------------------------------------------------
(* The lock and the gate before any work.                                  *)

\* Defect: the drive does not ask for the lock.
StartUnlocked(d) == /\ pc[d] = "away"
                    /\ Goto(d, "probing")
                    /\ holder' = holder \cup {d}
                    /\ UNCHANGED <<tree, snapshot, plan, iter, doing, before, verdicts,
                                   browser, runs>>

\* exclusive(drive.lock, timeout=0): held, or LockBusy at once.
Start(d) == /\ pc[d] = "away"
            /\ \/ Lock!Enter(d) /\ Goto(d, "probing")
               \/ holder # {} /\ Goto(d, "busy") /\ UNCHANGED holder
            /\ UNCHANGED <<tree, snapshot, plan, iter, doing, before, verdicts, browser, runs>>

\* The gate reads what it judges.  One moment stands for the run.
Reading == [files |-> files, stamp |-> stamp]

Probe(d) == /\ pc[d] = "probing"
            /\ red' = Set(red, d, Reading)
            /\ Goto(d, "probed")
            /\ UNCHANGED <<tree, snapshot, plan, iter, doing, before, baseline, seen, unseen,
                           holder, browser, runs>>

\* Already green: nothing is planned and no message spent.
ProbeIsGreen(d) == pc[d] = "probed" /\ End(d, "satisfied")

ProbeIsRed(d) == /\ pc[d] = "probed"
                 /\ Goto(d, "freezing")
                 /\ UNCHANGED <<tree, snapshot, plan, iter, doing, before, verdicts, holder,
                                browser, runs>>

\* The next iteration: its planning request begins with a pack of its own.
Iterate(d) == /\ iter' = Set(iter, d, iter[d] + 1)
              /\ Goto(d, "packing")
              /\ BeginPack(d)
              /\ UNCHANGED <<tree, plan, doing, before, holder, browser, runs>>

\* gate_digests, once per drive.
Freeze(d) == /\ pc[d] = "freezing"
             /\ baseline' = Set(baseline, d, files)
             /\ Iterate(d)
             /\ UNCHANGED <<red, seen, unseen>>

-----------------------------------------------------------------------------
(* The plan.                                                               *)

Snapshot(d) == /\ pc[d] = "packing" /\ phase[d] \notin {"staged", "refused"}
               /\ PackStep(d)
               /\ UNCHANGED <<files, stamp, plan, pc, iter, doing, before, verdicts, holder,
                              browser, runs>>

SnapshotRefused(d) == /\ pc[d] = "packing" /\ phase[d] = "refused"
                      /\ End(d, "error")

SnapshotReady(d) == /\ pc[d] = "packing" /\ phase[d] = "staged"
                    /\ Goto(d, "waiting")
                    /\ UNCHANGED <<tree, snapshot, plan, iter, doing, before, verdicts, holder,
                                   browser, runs>>

\* The browser lock is waited for without a timeout, drive.lock in hand.
Ask(d) == /\ pc[d] = "waiting"
          /\ Browser!Enter(d)
          /\ Goto(d, "asking")
          /\ UNCHANGED <<tree, snapshot, plan, iter, doing, before, verdicts, holder, runs>>

\* The engine brings an answer that is neither empty nor a refusal.
Answer(d) == /\ pc[d] = "asking"
             /\ Browser!Leave(d)
             /\ DropPack(d)
             /\ Goto(d, "writing")
             /\ UNCHANGED <<tree, plan, iter, doing, before, verdicts, holder, runs>>

\* It fails, or its timeout strikes.
NoAnswer(d) == pc[d] = "asking" /\ End(d, "error")

\* write_plan, then the fingerprint, which leaves .ai-bridge out.
WritePlan(d) == /\ pc[d] = "writing"
                /\ plan' = [by |-> d, iter |-> iter[d]]
                /\ before' = Set(before, d, stamp)
                /\ Goto(d, "launching")
                /\ UNCHANGED <<tree, snapshot, iter, doing, verdicts, holder, browser, runs>>

-----------------------------------------------------------------------------
(* The implementation.                                                     *)

\* gjc is started on @plan and reads the file.
Implement(d) == /\ pc[d] = "launching"
                /\ doing' = Set(doing, d, plan)
                /\ Goto(d, "working")
                /\ UNCHANGED <<tree, snapshot, plan, iter, before, verdicts, holder, browser, runs>>

\* One edit of the worktree: of the product, of a verification file or of what
\* a path of the pack is.
EditTree == /\ stamp < Edits
            /\ stamp' = stamp + 1
            /\ \/ UNCHANGED <<files, shape>>
               \/ \E p \in Verification, c \in Contents :
                     files' = [files EXCEPT ![p] = c] /\ UNCHANGED shape
               \/ \E p \in Packed, s \in Shapes :
                     shape' = [shape EXCEPT ![p] = s] /\ UNCHANGED files

ImplementerEdits(d) == /\ pc[d] = "working"
                       /\ EditTree
                       /\ UNCHANGED <<snapshot, plan, pc, iter, doing, before, verdicts, holder,
                                      browser, runs>>

ImplementerEnds(d) == /\ pc[d] = "working"
                      /\ Goto(d, "comparing")
                      /\ UNCHANGED <<tree, snapshot, plan, iter, doing, before, verdicts, holder,
                                     browser, runs>>

\* Defect: only the first gjc is given IMPLEMENT_TIMEOUT_SECONDS, not the one
\* that goes on with --continue.
FailsOnlyAtFirst(d) == pc[d] = "working" /\ iter[d] = 1 /\ End(d, "error")

\* IMPLEMENT_TIMEOUT_SECONDS, a failure to start and a non-zero exit: DriveError.
ImplementerFails(d) == pc[d] = "working" /\ End(d, "error")

-----------------------------------------------------------------------------
(* The gate.                                                               *)

\* An implementation that changed nothing gets no verdict.
Compare(d) == /\ pc[d] = "comparing"
              /\ IF stamp = before[d]
                 THEN End(d, "error")
                 ELSE /\ Goto(d, "checking")
                      /\ UNCHANGED <<tree, snapshot, plan, iter, doing, before, verdicts,
                                     holder, browser, runs>>

\* assert_verification_intact before the gate could run.
Check(d) == /\ pc[d] = "checking"
            /\ IF Tampering(baseline[d], files) # {}
               THEN End(d, "error")
               ELSE /\ Goto(d, "gating")
                    /\ UNCHANGED <<tree, snapshot, plan, iter, doing, before, verdicts,
                                   holder, browser, runs>>

Gate(d) == /\ pc[d] = "gating"
           /\ seen' = Set(seen, d, Reading)
           /\ Goto(d, "judging")
           /\ UNCHANGED <<tree, snapshot, plan, iter, doing, before, baseline, red, unseen,
                          holder, browser, runs>>

\* The gate cannot run or outlives gate_timeout: no verdict, DriveError.
GateFails(d) == pc[d] \in {"probed", "judging"} /\ End(d, "error")

\* What an exit code is worth after assert_verification_intact: void, a pass, or
\* a failure that the next planning request is told of.
Verdict(d, intact) ==
    IF ~intact THEN End(d, "error")
    ELSE \/ End(d, "passed")
         \/ iter[d] = MaxIters /\ End(d, "failed")
         \/ iter[d] < MaxIters /\ Iterate(d) /\ UNCHANGED verdicts

\* Defect: the verification is not looked at again once the gate has run.
JudgeUnchecked(d) == pc[d] = "judging" /\ Verdict(d, TRUE)

\* The gate ends, the verification is checked again, the verdict counts.
Judge(d) == pc[d] = "judging" /\ Verdict(d, Tampering(baseline[d], files) = {})

-----------------------------------------------------------------------------
(* The rest of the world.                                                  *)

\* Edits that leave no trace for the checks: of the verification between the
\* red gate and the freeze, and one that puts back what a gate has read.
LeavesNoTrace(d) == \/ pc[d] \in {"probed", "freezing"}
                    \/ pc[d] = "judging" /\ Tampering(baseline[d], seen[d].files) # {}

BystanderEdits ==
    /\ EditTree
    /\ unseen' = [d \in Lanes |-> unseen[d] \/ (files' # files /\ LeavesNoTrace(d))]
    /\ UNCHANGED <<snapshot, plan, pc, iter, doing, before, baseline, red, seen, holder,
                   browser, runs>>

\* Ctrl-C, SIGTERM or SIGKILL: the kernel drops the locks, and with the lane
\* process its sandboxed child is gone.
Die(d) == Running(d) /\ End(d, "dead")

OtherTakes(o) == /\ runs < OtherRuns
                 /\ runs' = runs + 1
                 /\ Browser!Enter(o)
                 /\ UNCHANGED <<tree, snapshot, plan, pc, iter, doing, before, verdicts, holder>>

OtherLeaves(o) == /\ Browser!Leave(o)
                  /\ UNCHANGED <<tree, snapshot, plan, pc, iter, doing, before, verdicts, holder,
                                 runs>>

-----------------------------------------------------------------------------
\* Steps lane takes by itself, its timeouts included.
LaneStep(d) == \/ Probe(d) \/ GateFails(d) \/ Freeze(d)
               \/ Snapshot(d) \/ SnapshotRefused(d) \/ SnapshotReady(d)
               \/ Ask(d) \/ NoAnswer(d) \/ WritePlan(d)
               \/ Implement(d) \/ ImplementerFails(d)
               \/ Compare(d) \/ Check(d) \/ Gate(d)

\* What the engine, the implementer and the gate do, and need not.
ChildStep(d) == \/ ProbeIsGreen(d) \/ ProbeIsRed(d) \/ Answer(d)
                \/ ImplementerEdits(d) \/ ImplementerEnds(d) \/ Judge(d)

Next == \/ \E d \in Lanes : Start(d) \/ LaneStep(d) \/ ChildStep(d) \/ Die(d)
        \/ BystanderEdits
        \/ \E o \in Others : OtherTakes(o) \/ OtherLeaves(o)

Spec == Init /\ [][Next]_vars

\* Every wait of a drive but the one for the browser has a timeout, and whoever
\* has the browser leaves it in the end.
Fairness == /\ \A d \in Lanes : WF_vars(LaneStep(d))
            /\ \A o \in Others : WF_vars(OtherLeaves(o))

FairSpec == Spec /\ Fairness

-----------------------------------------------------------------------------
\* Every variable in its set, and a plan is worked on by one who was there.
TypeOK == /\ TypeOfPack
          /\ files \in [Verification -> Contents]
          /\ stamp \in 0..Edits
          /\ plan \in Plans
          /\ pc \in [Lanes -> Labels]
          /\ iter \in [Lanes -> 0..MaxIters]
          /\ doing \in [Lanes -> Plans]
          /\ before \in [Lanes -> 0..Edits]
          /\ baseline \in [Lanes -> [Verification -> Contents]]
          /\ red \in [Lanes -> Readings]
          /\ seen \in [Lanes -> Readings]
          /\ unseen \in [Lanes -> BOOLEAN]
          /\ holder \subseteq Lanes
          /\ browser \subseteq Lanes \cup Others
          /\ runs \in 0..OtherRuns

\* "Two drives in the same root would execute each other's plans" (cli._drive):
\* an implementer works on the plan that its own drive asked for in this
\* iteration, whoever else starts, ends or dies meanwhile.
ImplementsOwnPlan ==
    \A d \in Lanes : pc[d] = "working" => doing[d] = [by |-> d, iter |-> iter[d]]

\* A PASS is earned: the gate that passed judged the verification that was red
\* before any work, but for added test modules, in a tree that was edited since.
\* Two edits of a bystander escape the digests, and are excepted (unseen).
PassIsEarned ==
    \A d \in Lanes : pc[d] = "passed" /\ ~unseen[d] =>
        /\ Tampering(red[d].files, seen[d].files) = {}
        /\ red[d].stamp < seen[d].stamp

\* Every drive comes to an end, with drive.lock free: no child that hangs and no
\* queue for the browser keeps it.
DrivesEnd == \A d \in Lanes : Running(d) ~> ~Running(d) /\ d \notin holder
=============================================================================
