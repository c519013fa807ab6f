-------------------------------- MODULE Review --------------------------------
(***************************************************************************)
(* src/lane/review.py and its commands in src/lane/cli.py: the lane        *)
(* processes that drive the engine against one project's artifact          *)
(* directory, `.insane-review/`.                                           *)
(*                                                                         *)
(* A run is one lane process with one command: `lane review` (Reviews),    *)
(* `lane harvest` (Harvests), `lane followup` (Followups) or the planning  *)
(* request of `lane drive` (Asks).  It starts at most one engine, under    *)
(* the machine-wide browser lock, the abstract Mutex that KernelLock       *)
(* implements.  The engine names its files with a tag of its own           *)
(* (vendor/pack_and_ask.py, run_tag), so the files of a run are indexed by *)
(* the run.  An engine survives a lane process that is killed, and one     *)
(* that is interrupted at the wrong moment.  A text is what the page       *)
(* delivered: an "answer", an answer "quoting" the engine's own report     *)
(* line, a "refusal" page or an "echo" of the prompt.                      *)
(***************************************************************************)
EXTENDS FiniteSets, Naturals

CONSTANTS Reviews, Harvests, Followups, Asks,
          Terse,          \* runs whose prompt is shorter than MIN_ECHO_CHARS
          Texts,          \* what a page may deliver
          LanesMayDie,    \* lane processes may be killed
          WritesMayFail,  \* a manifest, a response or the receipt may fail (OSError)
          MaxWipes,       \* bound on deletions of the artifact directory
          None

Runs == Reviews \cup Harvests \cup Followups \cup Asks

ASSUME ReviewAssumption ==
    /\ Reviews \cap Harvests = {} /\ Reviews \cap Followups = {}
    /\ Reviews \cap Asks = {}     /\ Harvests \cap Followups = {}
    /\ Harvests \cap Asks = {}    /\ Followups \cap Asks = {}
    /\ Terse \subseteq Runs
    /\ Texts \subseteq {"answer", "quoting", "refusal", "echo"}
    /\ LanesMayDie \in BOOLEAN
    /\ WritesMayFail \in BOOLEAN
    /\ MaxWipes \in Nat
    /\ None \notin Runs

VARIABLES pc,        \* per run, where its lane process is
          noted,     \* the newest manifest and its mtime, read before the run
          began,     \* history: the time of that reading
          before,    \* responses and manifests listed under the lock
          engine,    \* per run, its engine process
          page,      \* history: the text the engine saved
          response,  \* the response_*.md files: run -> text
          manifest,  \* the manifest_*.json files: run -> mtime, 0 for no file
          rejected,  \* the rejected_*.md files
          log,       \* the failed_*.log files: run -> mtime, 0 for no file
          receipt,   \* latest-failure.json, outside the artifact directory
          tree,      \* the artifact directory exists
          wipes,     \* deletions of the artifact directory so far
          clock,     \* mtime of the latest manifest or log
          candidate, \* what response_from_successful_run returned
          report,    \* the response a run reported with exit 0
          hint,      \* the conversation named as the free retry
          ending,    \* how the command ended
          inside     \* who holds the browser lock

lane  == <<pc, noted, began, before, candidate, report, hint, ending>>
files == <<response, manifest, rejected, log, receipt, tree, wipes, clock>>
turn  == <<engine, page>>
vars  == <<lane, files, turn, inside>>

Browser == INSTANCE Mutex WITH Procs <- Runs

Labels   == {"away", "waiting", "running", "judging", "rejecting", "unlinking",
             "logging", "signing", "hinting", "over"}
Working  == {"ready", "sent", "bound", "waited", "saved"}
Engines  == Working \cup {"none", "exit 0", "exit 1", "killed"}
Endings  == {"none", "reported", "failed", "timed out", "raised", "interrupted", "died"}

\* rejection_reason: a refusal page is never an answer; an echo only shows against
\* a prompt that is long enough, and a harvest has none to compare with.
Acceptable(r, text) == \/ text \in {"answer", "quoting"}
                       \/ text = "echo" /\ r \in Harvests \cup Terse

Present(f) == {r \in Runs : f[r] # "absent"}
Written(f) == {r \in Runs : f[r] > 0}

\* newest_manifest, conversation_of
Newest(f) == CHOOSE r \in Written(f) : \A q \in Written(f) : f[q] <= f[r]
NewestManifest ==
    IF Written(manifest) = {} THEN [run |-> None, mtime |-> 0]
    ELSE [run |-> Newest(manifest), mtime |-> manifest[Newest(manifest)]]

Nothing == [run |-> None, mtime |-> 0]

Init == /\ pc = [r \in Runs |-> "away"]
        /\ noted = [r \in Runs |-> Nothing]
        /\ began = [r \in Runs |-> 0]
        /\ before = [r \in Runs |-> [responses |-> {}, manifests |-> {}]]
        /\ engine = [r \in Runs |-> "none"]
        /\ page = [r \in Runs |-> "absent"]
        /\ response = [r \in Runs |-> "absent"]
        /\ manifest = [r \in Runs |-> 0]
        /\ rejected = {}
        /\ log = [r \in Runs |-> 0]
        /\ receipt = None
        /\ tree = FALSE
        /\ wipes = 0
        /\ clock = 0
        /\ candidate = [r \in Runs |-> None]
        /\ report = [r \in Runs |-> None]
        /\ hint = [r \in Runs |-> None]
        /\ ending = [r \in Runs |-> "none"]
        /\ Browser!Init

Set(f, r, v)   == [f EXCEPT ![r] = v]
Goto(r, label) == pc' = Set(pc, r, label)
End(r, how)    == Goto(r, "over") /\ ending' = Set(ending, r, how)

-----------------------------------------------------------------------------
\* The command before the engine.

\* _review notes the newest manifest, _harvest and _followup choose it as their
\* source and refuse to start without one.  Then the artifact directory is made
\* and the command waits for the browser.
Begin(r) ==
    /\ pc[r] = "away"
    /\ noted' = Set(noted, r, NewestManifest)
    /\ began' = Set(began, r, clock)
    /\ \/ /\ r \in Reviews \cup Asks \/ NewestManifest # Nothing
          /\ Goto(r, "waiting") /\ tree' = TRUE /\ UNCHANGED ending
       \/ /\ r \in Harvests \cup Followups /\ NewestManifest = Nothing
          /\ End(r, "raised") /\ UNCHANGED tree
    /\ UNCHANGED <<before, candidate, report, hint, turn, inside,
                   response, manifest, rejected, log, receipt, wipes, clock>>

\* The lock is granted, the directory listed and the engine started.
StartEngine(r) ==
    /\ pc[r] = "waiting"
    /\ Browser!Enter(r)
    /\ before' = Set(before, r, IF r \in Asks THEN before[r]
                                ELSE [responses |-> Present(response),
                                      manifests |-> Written(manifest)])
    /\ engine' = Set(engine, r, IF r \in Harvests THEN "bound" ELSE "ready")
    /\ tree' = TRUE
    /\ Goto(r, "running")
    /\ UNCHANGED <<noted, began, candidate, report, hint, ending, page,
                   response, manifest, rejected, log, receipt, wipes, clock>>

\* The engine cannot be started: proc.run raises OSError out of the block.
CannotStart(r) ==
    /\ pc[r] = "waiting"
    /\ inside = {}
    /\ End(r, "raised")
    /\ UNCHANGED <<noted, began, before, candidate, report, hint, files, turn, inside>>

-----------------------------------------------------------------------------
\* The engine (vendor/pack_and_ask.py).  A send that the page does not confirm is
\* made again by the next attempt, which changes nothing here.

Send(r) ==
    /\ engine[r] = "ready"
    /\ engine' = Set(engine, r, IF r \in Followups THEN "bound" ELSE "sent")
    /\ UNCHANGED <<lane, files, page, inside>>

\* write_run_manifest replaces the file and swallows every exception.
WriteManifest(r) ==
    \/ tree /\ clock' = clock + 1 /\ manifest' = Set(manifest, r, clock')
    \/ (~tree \/ WritesMayFail) /\ UNCHANGED <<clock, manifest>>

\* Only a fresh chat is bound: the conversation's URL is captured and written.
Bind(r) ==
    /\ engine[r] = "sent"
    /\ engine' = Set(engine, r, "bound")
    /\ WriteManifest(r)
    /\ UNCHANGED <<lane, page, inside, response, rejected, log, receipt, tree, wipes>>

\* The wait of the attempt that sent is over, and a fresh chat writes its manifest
\* again.  The attempts that look for the answer there afterwards write none, nor
\* does a run that continues or harvests a conversation.
EndWait(r) ==
    /\ engine[r] = "bound" /\ r \in Reviews \cup Asks
    /\ engine' = Set(engine, r, "waited")
    /\ WriteManifest(r)
    /\ UNCHANGED <<lane, page, inside, response, rejected, log, receipt, tree, wipes>>

\* An attempt has a text, and the response is saved under the run's tag; unlike the
\* manifest's, a failure of this write ends the engine.
SaveResponse(r) ==
    /\ engine[r] = IF r \in Reviews \cup Asks THEN "waited" ELSE "bound"
    /\ \/ /\ tree
          /\ \E text \in Texts : /\ page' = Set(page, r, text)
                                /\ response' = Set(response, r, text)
          /\ engine' = Set(engine, r, "saved")
       \/ /\ ~tree \/ WritesMayFail
          /\ engine' = Set(engine, r, "exit 1")
          /\ UNCHANGED <<page, response>>
    /\ UNCHANGED <<lane, inside, manifest, rejected, log, receipt, tree, wipes, clock>>

Succeed(r) ==
    /\ engine[r] = "saved"
    /\ engine' = Set(engine, r, "exit 0")
    /\ UNCHANGED <<lane, files, page, inside>>

\* Login wall, model not verified, quota, no answer, conversation not captured.
Fail(r) ==
    /\ engine[r] \in {"ready", "sent", "bound", "waited"}
    /\ engine' = Set(engine, r, "exit 1")
    /\ UNCHANGED <<lane, files, page, inside>>

-----------------------------------------------------------------------------
\* The command after the engine.

\* The run's manifest lies beside its response, and neither was there before.
Certified(r) == /\ r \notin before[r].responses
                /\ manifest[r] > 0
                /\ r \notin before[r].manifests

\* Defect: take a response that appeared during the run for its own
\* (newest_new_response, which the code keeps but no longer calls).
CandidateNewest(r) ==
    LET new == Present(response) \ before[r].responses IN
    IF engine[r] # "exit 0" \/ new = {} THEN None
    ELSE CHOOSE q \in new : new # {r} => q # r

\* response_from_successful_run: exit 0, exactly one report line on stdout.
Candidate(r) ==
    IF /\ engine[r] = "exit 0"
       /\ page[r] # "quoting"
       /\ response[r] # "absent"
       /\ Certified(r)
    THEN r ELSE None

\* The engine is over: the candidate is chosen and the browser let go.
Return(r) ==
    /\ pc[r] = "running"
    /\ r \notin Asks
    /\ engine[r] \in {"exit 0", "exit 1"}
    /\ candidate' = Set(candidate, r, Candidate(r))
    /\ Browser!Leave(r)
    /\ Goto(r, "judging")
    /\ UNCHANGED <<noted, began, before, report, hint, ending, files, turn>>

\* ask judges the text on stdout; what is wrong with it is raised as ReviewError.
ReturnPlan(r) ==
    /\ pc[r] = "running"
    /\ r \in Asks
    /\ engine[r] \in {"exit 0", "exit 1"}
    /\ Browser!Leave(r)
    /\ \/ /\ engine[r] = "exit 0" /\ Acceptable(r, page[r])
          /\ report' = Set(report, r, r)
          /\ End(r, "reported")
       \/ /\ engine[r] = "exit 1" \/ ~Acceptable(r, page[r])
          /\ End(r, "failed")
          /\ UNCHANGED report
    /\ UNCHANGED <<noted, began, before, candidate, hint, files, turn>>

\* Defect: the browser is let go, and nobody stops the engine.
TimeOutOnly(r) ==
    /\ pc[r] = "running"
    /\ r \in Reviews \cup Asks
    /\ engine[r] \in Working
    /\ Browser!Leave(r)
    /\ End(r, IF r \in Reviews THEN "timed out" ELSE "failed")
    /\ UNCHANGED <<noted, began, before, candidate, report, hint, files, turn>>

\* Defect: the engine is given no deadline.
NoTimeOut(r) == /\ pc[r] = "away" /\ engine[r] = "killed"
                /\ UNCHANGED vars

\* proc.run(timeout=max_wait + 300) of review and drive kills the engine.  ask
\* turns the exception into ReviewError; run lets it through, as main does.
TimeOut(r) ==
    /\ pc[r] = "running"
    /\ r \in Reviews \cup Asks
    /\ engine[r] \in Working
    /\ engine' = Set(engine, r, "killed")
    /\ Browser!Leave(r)
    /\ End(r, IF r \in Reviews THEN "timed out" ELSE "failed")
    /\ UNCHANGED <<noted, began, before, candidate, report, hint, files, page>>

\* Defect: a review whose engine succeeded ends at once when its response is not
\* accepted.
FruitlessQuiet(r) ==
    \/ r \in Reviews /\ engine[r] # "exit 0" /\ Goto(r, "logging") /\ UNCHANGED ending
    \/ (r \notin Reviews \/ engine[r] = "exit 0") /\ End(r, "failed")

\* Where a command goes that has nothing to report: only run keeps evidence,
\* only _review names a retry.
Fruitless(r) ==
    \/ r \in Reviews /\ Goto(r, "logging") /\ UNCHANGED ending
    \/ r \notin Reviews /\ End(r, "failed")

\* The text of the candidate, read again after the lock is released.
Judged(r) == IF candidate[r] = None THEN "absent" ELSE response[candidate[r]]

\* _verified
Verify(r) ==
    /\ pc[r] = "judging"
    /\ \/ /\ Judged(r) = "absent"
          /\ Fruitless(r)
          /\ UNCHANGED report
       \/ /\ Judged(r) # "absent" /\ Acceptable(r, Judged(r))
          /\ report' = Set(report, r, candidate[r])
          /\ End(r, "reported")
       \/ /\ Judged(r) # "absent" /\ ~Acceptable(r, Judged(r))
          /\ Goto(r, "rejecting")
          /\ UNCHANGED <<report, ending>>
    /\ UNCHANGED <<noted, began, before, candidate, hint, files, turn, inside>>

\* Defect: the response is unlinked before its text is copied.
CopyAfterUnlink(r) ==
    /\ pc[r] = "rejecting"
    /\ response' = Set(response, candidate[r], "absent")
    /\ Goto(r, "unlinking")
    /\ UNCHANGED <<noted, began, before, candidate, report, hint, ending, turn, inside,
                   manifest, rejected, log, receipt, tree, wipes, clock>>

\* reject, first half: the text is copied to rejected_*.md.
CopyRejected(r) ==
    /\ pc[r] = "rejecting"
    /\ \/ /\ response[candidate[r]] # "absent"
          /\ rejected' = rejected \cup {candidate[r]}
          /\ Goto(r, "unlinking") /\ UNCHANGED ending
       \/ /\ response[candidate[r]] = "absent"
          /\ End(r, "raised") /\ UNCHANGED rejected
    /\ UNCHANGED <<noted, began, before, candidate, report, hint, turn, inside,
                   response, manifest, log, receipt, tree, wipes, clock>>

\* Defect: the rejected text keeps its response name as well.
KeepRejected(r) ==
    /\ pc[r] = "unlinking"
    /\ Fruitless(r)
    /\ UNCHANGED <<noted, began, before, candidate, report, hint, files, turn, inside>>

\* reject, second half: the response_*.md is unlinked, ReviewError if it is gone.
Unlink(r) ==
    /\ pc[r] = "unlinking"
    /\ \/ /\ response[candidate[r]] # "absent"
          /\ response' = Set(response, candidate[r], "absent")
          /\ Fruitless(r)
       \/ /\ response[candidate[r]] = "absent"
          /\ End(r, "raised") /\ UNCHANGED response
    /\ UNCHANGED <<noted, began, before, candidate, report, hint, turn, inside,
                   manifest, rejected, log, receipt, tree, wipes, clock>>

\* Defect: the receipt is written although the log was not.
WriteLogMaybe(r) ==
    /\ pc[r] = "logging"
    /\ Goto(r, "signing")
    /\ UNCHANGED <<noted, began, before, candidate, report, hint, ending, files, turn, inside>>

\* persist_failure: the log, then the receipt that names it.  Nothing is kept of
\* an engine that said nothing, and an OSError ends the attempt quietly.
WriteLog(r) ==
    /\ pc[r] = "logging"
    /\ clock' = clock + 1
    /\ log' = Set(log, r, clock + 1)
    /\ tree' = TRUE
    /\ Goto(r, "signing")
    /\ UNCHANGED <<noted, began, before, candidate, report, hint, ending, turn, inside,
                   response, manifest, rejected, receipt, wipes>>

WriteReceipt(r) ==
    /\ pc[r] = "signing"
    /\ receipt' = r
    /\ Goto(r, "hinting")
    /\ UNCHANGED <<noted, began, before, candidate, report, hint, ending, turn, inside,
                   response, manifest, rejected, log, tree, wipes, clock>>

KeepNothing(r) ==
    /\ pc[r] = "logging" \/ (pc[r] = "signing" /\ WritesMayFail)
    /\ Goto(r, "hinting")
    /\ UNCHANGED <<noted, began, before, candidate, report, hint, ending, files, turn, inside>>

\* Defect: name the newest conversation whatever its age.
HintAlways(r) ==
    /\ pc[r] = "hinting"
    /\ hint' = Set(hint, r, NewestManifest.run)
    /\ End(r, "failed")
    /\ UNCHANGED <<noted, began, before, candidate, report, files, turn, inside>>

\* _print_harvest_hint: silent when the newest manifest is the one noted.
Hint(r) ==
    /\ pc[r] = "hinting"
    /\ hint' = Set(hint, r, IF NewestManifest = noted[r] THEN None ELSE NewestManifest.run)
    /\ End(r, "failed")
    /\ UNCHANGED <<noted, began, before, candidate, report, files, turn, inside>>

-----------------------------------------------------------------------------
\* What happens to lane processes and to their files.

LetGo(r) == inside' = inside \ {r}

\* SIGTERM or Ctrl-C: the lock is released on the way out and the engine stopped,
\* but not when the signal comes before proc.run has it in its try, or while it
\* is being stopped already.
Interrupt(r) ==
    /\ pc[r] \notin {"away", "over"}
    /\ \/ engine[r] \in Working /\ engine' = Set(engine, r, "killed")
       \/ UNCHANGED engine
    /\ LetGo(r)
    /\ End(r, "interrupted")
    /\ UNCHANGED <<noted, began, before, candidate, report, hint, files, page>>

\* SIGKILL: the kernel frees the lock, the engine's own session lives on.
Die(r) ==
    /\ LanesMayDie
    /\ pc[r] \notin {"away", "over"}
    /\ LetGo(r)
    /\ End(r, "died")
    /\ UNCHANGED <<noted, began, before, candidate, report, hint, files, turn>>

\* Another program deletes the artifact directory; the receipt is not in it.
Wipe ==
    /\ wipes < MaxWipes
    /\ tree
    /\ wipes' = wipes + 1
    /\ tree' = FALSE
    /\ response' = [r \in Runs |-> "absent"]
    /\ manifest' = [r \in Runs |-> 0]
    /\ rejected' = {}
    /\ log' = [r \in Runs |-> 0]
    /\ UNCHANGED <<lane, turn, inside, receipt, clock>>

EngineStep(r) == \/ Send(r) \/ Bind(r) \/ EndWait(r)
                 \/ SaveResponse(r) \/ Succeed(r) \/ Fail(r)

LaneStep(r) == \/ StartEngine(r) \/ CannotStart(r)
               \/ Return(r) \/ ReturnPlan(r) \/ TimeOut(r)
               \/ Verify(r) \/ CopyRejected(r) \/ Unlink(r)
               \/ WriteLog(r) \/ WriteReceipt(r) \/ KeepNothing(r) \/ Hint(r)

Finished == (\A r \in Runs : pc[r] = "over" /\ engine[r] \notin Working) /\ UNCHANGED vars

Next == \/ \E r \in Runs : \/ Begin(r) \/ LaneStep(r) \/ EngineStep(r)
                           \/ Interrupt(r) \/ Die(r)
        \/ Wipe
        \/ Finished

\* A lane process runs until it is over, and the clock reaches the deadline of a
\* review or a plan.  The engine of a harvest or a followup has no deadline, so
\* its own bounded waits have to end it.  Nothing is asked of other engines.
Fairness == /\ \A r \in Runs : WF_vars(LaneStep(r))
            /\ \A r \in Harvests \cup Followups : WF_vars(EngineStep(r))

Spec == Init /\ [][Next]_vars
FairSpec == Spec /\ Fairness

-----------------------------------------------------------------------------
\* Properties

TypeOfNames ==
    /\ pc \in [Runs -> Labels]
    /\ engine \in [Runs -> Engines]
    /\ page \in [Runs -> Texts \cup {"absent"}]
    /\ response \in [Runs -> Texts \cup {"absent"}]
    /\ rejected \in SUBSET Runs
    /\ receipt \in Runs \cup {None}
    /\ tree \in BOOLEAN
    /\ candidate \in [Runs -> Runs \cup {None}]
    /\ report \in [Runs -> Runs \cup {None}]
    /\ hint \in [Runs -> Runs \cup {None}]
    /\ ending \in [Runs -> Endings]
    /\ inside \in SUBSET Runs

TypeOfCounts ==
    /\ began \in [Runs -> Nat]
    /\ manifest \in [Runs -> Nat]
    /\ log \in [Runs -> Nat]
    /\ wipes \in 0..MaxWipes
    /\ clock \in Nat

TypeOfNotes ==
    /\ noted \in [Runs -> [run : Runs \cup {None}, mtime : Nat]]
    /\ before \in [Runs -> [responses : SUBSET Runs, manifests : SUBSET Runs]]

\* The types; and only a response is rejected.
TypeOK ==
    /\ TypeOfNames /\ TypeOfCounts /\ TypeOfNotes
    /\ \A r \in Runs : pc[r] \in {"rejecting", "unlinking"} => candidate[r] # None

\* A command reports success only for the answer its own engine brought, which
\* is no refusal, and no echo of a prompt that is long enough to tell, whatever
\* other runs and the engines of killed lane processes leave in the directory.
ReportIsOwnAnswer ==
    \A r \in Runs : report[r] # None => /\ report[r] = r
                                        /\ engine[r] = "exit 0"
                                        /\ page[r] \notin {"absent", "refusal"}
                                        /\ page[r] = "echo" => r \in Harvests \cup Terse

\* A text that was paid for is on disk from the moment the engine saved it: a
\* rejection that is interrupted or killed between its steps loses nothing.
TextSurvives ==
    wipes = 0 => \A r \in Runs : page[r] # "absent" =>
        r \in rejected \/ response[r] = page[r]

\* A review that ran to its end leaves no refusal under a response name, and of
\* echoes only those of short prompts, wherever its directory was deleted and made
\* again meanwhile.  It does so only as long as its manifest lies beside it:
\* without one, nothing is taken for its response, and what there is stays.
ReviewLeavesNoRefusal ==
    \A r \in Reviews : ending[r] \in {"reported", "failed"} /\ manifest[r] > 0 =>
        response[r] # "refusal" /\ (response[r] = "echo" => r \in Terse)

\* Engines take turns at the browser: one that is at work has its command inside
\* the lock, alone, whatever timed out or was raised before; only the engine of a
\* command that was killed or interrupted may be left at work outside it.
EnginesTakeTurns ==
    \A r \in Runs : engine[r] \in Working =>
        inside = {r} \/ ending[r] \in {"died", "interrupted"}

\* The free retry never points at a conversation whose manifest was last written
\* before the command began (cli.py, _print_harvest_hint).
HintIsFresh ==
    [][\A r \in Runs : hint'[r] # hint[r] => manifest[hint'[r]] > began[r]]_vars

\* A review that runs to a failure with its own message bound to a conversation
\* names some retry, also when other runs come between.
FailureNamesARetry ==
    [][\A r \in Reviews : /\ ending[r] = "none" /\ ending'[r] = "failed"
                          /\ manifest[r] > 0
                          => hint'[r] # None]_vars

\* latest-failure.json names a log that was written in full, whoever writes it
\* and wherever the writer is interrupted or killed.
ReceiptNamesLog == wipes = 0 /\ receipt # None => log[receipt] > 0

\* Every command comes to an end: none waits for the browser forever.
CommandsEnd == \A r \in Runs : (pc[r] # "away") ~> (pc[r] = "over")

-----------------------------------------------------------------------------
\* What a document says and the code does not do.

\* `lane harvest` recovers the answer of a conversation that was paid for.
HarvestDelivers ==
    \A r \in Harvests : ending[r] = "failed" =>
        ~(engine[r] = "exit 0" /\ page[r] = "answer" /\ wipes = 0)
=============================================================================
