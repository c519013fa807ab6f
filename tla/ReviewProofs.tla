---------------------------- MODULE ReviewProofs ----------------------------
(***************************************************************************)
(* Theorems about Review for every set of runs of every kind, whether or   *)
(* not lane processes are killed and the artifact directory is deleted.    *)
(*                                                                         *)
(* The invariant has three parts.  Own says of each run where its command  *)
(* is, what its engine may have done and what its files hold; a step of    *)
(* one run leaves all of that of another run alone (OthersStay).  Times    *)
(* orders the manifests of all runs and relates them to what a command     *)
(* noted before it waited; only the hint needs it.  The receipt is shared. *)
(*                                                                         *)
(* The sections after the invariant are about steps and about the browser: *)
(* the lock is used as Mutex says, so that engines work one at a time; a   *)
(* saved answer goes only by the command that refused it; StepsLeft counts *)
(* what a command and its engine may still do.                             *)
(***************************************************************************)
EXTENDS Review, TLAPS

\* An engine is started once, by a command that waited; a command judges only
\* after its engine ended by itself, and reports or hints only at its end.
Progress(r) ==
  /\ pc[r] \in {"away", "waiting"} => engine[r] = "none"
  /\ engine[r] \in {"none", "ready", "sent", "bound", "waited"} => page[r] = "absent"
  /\ pc[r] \in {"judging", "rejecting", "unlinking", "logging", "signing", "hinting"}
       => engine[r] \in {"exit 0", "exit 1"}
  /\ pc[r] # "over" => ending[r] = "none" /\ hint[r] = None
  /\ ending[r] \in {"reported", "failed"} => engine[r] \notin Working

\* What a response file holds is what its engine read off the page, and it was
\* saved by an engine that got so far; no manifest comes before the message.
OwnText(r) ==
  /\ response[r] \in {"absent", page[r]}
  /\ response[r] # "absent" => engine[r] \in {"saved", "exit 0", "killed"}
  /\ engine[r] \in {"none", "ready", "sent"} => manifest[r] = 0

\* No run finds its own files in the listing made before its engine.
Listed(r) == r \notin before[r].responses /\ r \notin before[r].manifests

\* A candidate is the run's own, of an engine that succeeded.
OwnCandidate(r) ==
  /\ candidate[r] = None \/ (candidate[r] = r /\ engine[r] = "exit 0")
  /\ pc[r] \in {"rejecting", "unlinking"} => candidate[r] = r

\* As long as nothing was deleted: a text is under its response name or rejected,
\* a rejection has its copy before the original goes, a receipt has its log.
InHand(r) ==
  wipes = 0 => /\ engine[r] # "none" => tree
               /\ pc[r] = "unlinking" => r \in rejected
               /\ pc[r] = "signing" => log[r] > 0
               /\ page[r] # "absent" => r \in rejected \/ response[r] = page[r]

\* The text is no refusal, and no echo that would show against the prompt.
Told(r, text) == text # "refusal" /\ (text = "echo" => r \in Terse)

\* A review past its verification, or judging without a candidate, left neither
\* a refusal nor the echo of a long prompt beside its manifest.
Clean(r) ==
  r \in Reviews /\ (\/ pc[r] \in {"logging", "signing", "hinting"}
                    \/ pc[r] = "judging" /\ candidate[r] = None
                    \/ ending[r] \in {"reported", "failed"})
    => manifest[r] = 0 \/ Told(r, response[r])

\* ReportIsOwnAnswer, of one run.
Reported(r) == report[r] # None => /\ report[r] = r
                                   /\ engine[r] = "exit 0"
                                   /\ page[r] \notin {"absent", "refusal"}
                                   /\ page[r] = "echo" => r \in Harvests \cup Terse

Own(r) == /\ Progress(r) /\ OwnText(r) /\ Listed(r) /\ OwnCandidate(r)
          /\ InHand(r) /\ Clean(r) /\ Reported(r)

\* A manifest is younger than its run's beginning; what was noted is not.
Aged(r) == /\ manifest[r] > 0 => manifest[r] > began[r]
           /\ manifest[r] <= clock /\ began[r] <= clock /\ noted[r].mtime <= began[r]

\* As long as a manifest is left from before a command began, the one it noted is
\* there too: the youngest of those, or rewritten since.
Remembered(r, q) ==
  pc[r] # "away" /\ manifest[q] > 0 /\ manifest[q] <= began[r]
  => /\ noted[r].run \in Runs
     /\ manifest[q] <= noted[r].mtime
     /\ \/ manifest[noted[r].run] = noted[r].mtime
        \/ manifest[noted[r].run] > began[r]

\* There is a newest manifest, and no two are equally old.
Ordered ==
  /\ \A q \in Runs : manifest[q] > 0 =>
       \E x \in Runs : manifest[x] > 0 /\ \A y \in Runs : manifest[y] <= manifest[x]
  /\ \A q, x \in Runs : manifest[q] > 0 /\ manifest[q] = manifest[x] => q = x

Times == /\ Ordered
         /\ \A r \in Runs : Aged(r)
         /\ \A r, q \in Runs : Remembered(r, q)

IInv == TypeOK /\ (\A r \in Runs : Own(r)) /\ Times /\ ReceiptNamesLog

-----------------------------------------------------------------------------
\* The initial state satisfies the invariant.
LEMMA InitInv == Init => IInv
<1> SUFFICES ASSUME Init PROVE IInv
  OBVIOUS
<1> USE DEF Init
<1>1. TypeOfNames
  BY DEF TypeOfNames, Labels, Engines, Working, Endings, Browser!Init
<1>2. TypeOfCounts
  BY ReviewAssumption DEF TypeOfCounts
<1>3. TypeOfNotes
  BY DEF TypeOfNotes, Nothing
<1>4. ASSUME NEW r \in Runs PROVE Own(r)
  BY DEF Own, Progress, OwnText, Listed, OwnCandidate, InHand, Clean, Reported, Working
<1>5. Times
  BY DEF Times, Ordered, Aged, Remembered, Nothing
<1>6. ReceiptNamesLog
  BY DEF ReceiptNamesLog
<1>7. QED BY <1>1, <1>2, <1>3, <1>4, <1>5, <1>6 DEF IInv, TypeOK

\* Every step is one of a run, a deletion of the directory, or none.
RunAct(r) ==
  \/ Begin(r) \/ StartEngine(r) \/ CannotStart(r) \/ Send(r) \/ Bind(r)
  \/ EndWait(r) \/ SaveResponse(r) \/ Succeed(r) \/ Fail(r) \/ Return(r)
  \/ ReturnPlan(r) \/ TimeOut(r) \/ Verify(r) \/ CopyRejected(r) \/ Unlink(r) \/ WriteLog(r)
  \/ WriteReceipt(r) \/ KeepNothing(r) \/ Hint(r) \/ Interrupt(r) \/ Die(r)

LEMMA Cases ==
  ASSUME [Next]_vars
  PROVE  (\E r \in Runs : RunAct(r)) \/ Wipe \/ UNCHANGED vars
  BY DEF Next, LaneStep, EngineStep, Finished, RunAct

\* The next moment.
LEMMA Later == TypeOfCounts => clock + 1 \in Nat /\ clock + 1 > 0 /\ clock + 1 # 0
  BY DEF TypeOfCounts

\* The newest manifest is there when any is, and none is younger.
NewestSound ==
  /\ NewestManifest.run \in Runs \cup {None} /\ NewestManifest.mtime \in Nat
  /\ \A q \in Runs : manifest[q] > 0 =>
       /\ NewestManifest.run \in Runs
       /\ NewestManifest.mtime = manifest[NewestManifest.run]
       /\ manifest[q] <= NewestManifest.mtime
  /\ NewestManifest.run \in Runs => manifest[NewestManifest.run] > 0
  /\ NewestManifest.mtime <= clock

LEMMA NewestFact ==
  ASSUME TypeOfCounts, Times
  PROVE  NewestSound /\ NewestManifest = [run |-> NewestManifest.run, mtime |-> NewestManifest.mtime]
<1> USE DEF NewestSound
<1>1. CASE Written(manifest) = {}
  <2>1. NewestManifest = [run |-> None, mtime |-> 0]
    BY <1>1 DEF NewestManifest
  <2>2. \A q \in Runs : ~(manifest[q] > 0)
    BY <1>1 DEF Written
  <2>3. QED BY <2>1, <2>2, ReviewAssumption DEF TypeOfCounts
<1>2. CASE Written(manifest) # {}
  <2>1. PICK x \in Runs : manifest[x] > 0 /\ \A y \in Runs : manifest[y] <= manifest[x]
    BY <1>2 DEF Written, Times, Ordered
  <2>2. /\ Newest(manifest) \in Written(manifest)
        /\ \A q \in Written(manifest) : manifest[q] <= manifest[Newest(manifest)]
    BY <2>1 DEF Newest, Written
  <2>3. NewestManifest = [run |-> Newest(manifest), mtime |-> manifest[Newest(manifest)]]
    BY <1>2 DEF NewestManifest
  <2>4. Newest(manifest) \in Runs /\ manifest[Newest(manifest)] > 0
    BY <2>2 DEF Written
  <2>5. \A q \in Runs : manifest[q] > 0 => manifest[q] <= manifest[Newest(manifest)]
    BY <2>2 DEF Written
  <2>6. manifest[Newest(manifest)] <= clock /\ manifest[Newest(manifest)] \in Nat
    BY <2>4 DEF Times, Aged, TypeOfCounts
  <2>7. NewestManifest.run = Newest(manifest) /\ NewestManifest.mtime = manifest[Newest(manifest)]
    BY <2>3
  <2>8. QED BY <2>3, <2>4, <2>5, <2>6, <2>7
<1>3. QED BY <1>1, <1>2

\* What one run sees of its own and of the shared state when another one moves.
Same(q) ==
  /\ pc'[q] = pc[q] /\ noted'[q] = noted[q] /\ began'[q] = began[q] /\ before'[q] = before[q]
  /\ engine'[q] = engine[q] /\ page'[q] = page[q]
  /\ response'[q] = response[q] /\ manifest'[q] = manifest[q] /\ log'[q] = log[q]
  /\ q \in rejected' <=> q \in rejected
  /\ candidate'[q] = candidate[q] /\ report'[q] = report[q]
  /\ hint'[q] = hint[q] /\ ending'[q] = ending[q]

\* A step of one run changes nothing that belongs to another.
LEMMA OthersStay ==
  ASSUME TypeOfNames, TypeOfCounts, TypeOfNotes, NEW r \in Runs, OwnCandidate(r), RunAct(r),
         NEW q \in Runs, q # r
  PROVE  Same(q)
<1> USE DEF Same, Set
<1>1. CASE Begin(r)
  BY <1>1 DEF Begin, End, Goto, turn, TypeOfNames, TypeOfCounts, TypeOfNotes
<1>2. CASE StartEngine(r)
  BY <1>2 DEF StartEngine, Browser!Enter, Goto, TypeOfNames, TypeOfCounts,
     TypeOfNotes
<1>3. CASE CannotStart(r)
  BY <1>3 DEF CannotStart, End, Goto, files, turn, TypeOfNames, TypeOfCounts,
     TypeOfNotes
<1>4. CASE Send(r)
  BY <1>4 DEF Send, lane, files, TypeOfNames, TypeOfCounts, TypeOfNotes
<1>5. CASE Bind(r) \/ EndWait(r)
  BY <1>5 DEF Bind, EndWait, WriteManifest, lane, TypeOfNames, TypeOfCounts,
     TypeOfNotes
<1>6. CASE SaveResponse(r)
  BY <1>6 DEF SaveResponse, lane, TypeOfNames, TypeOfCounts,
     TypeOfNotes
<1>7. CASE Succeed(r)
  BY <1>7 DEF Succeed, lane, files, TypeOfNames, TypeOfCounts, TypeOfNotes
<1>8. CASE Fail(r)
  BY <1>8 DEF Fail, lane, files, TypeOfNames, TypeOfCounts, TypeOfNotes
<1>9. CASE Return(r)
  BY <1>9 DEF Return, Browser!Leave, Goto, files, turn, TypeOfNames,
     TypeOfCounts, TypeOfNotes
<1>10. CASE ReturnPlan(r)
  BY <1>10 DEF ReturnPlan, Browser!Leave, End, Goto, files, turn,
     TypeOfNames, TypeOfCounts, TypeOfNotes
<1>11. CASE TimeOut(r)
  BY <1>11 DEF TimeOut, Browser!Leave, End, Goto, files, TypeOfNames,
     TypeOfCounts, TypeOfNotes
<1>12. CASE Verify(r)
  BY <1>12 DEF Verify, End, Goto, Fruitless, files, turn, TypeOfNames,
     TypeOfCounts, TypeOfNotes
<1>13. CASE CopyRejected(r)
  BY <1>13 DEF CopyRejected, End, Goto, turn, TypeOfNames, TypeOfCounts,
     TypeOfNotes, OwnCandidate
<1>14. CASE Unlink(r)
  BY <1>14 DEF Unlink, End, Goto, Fruitless, turn, TypeOfNames, TypeOfCounts,
     TypeOfNotes, OwnCandidate
<1>15. CASE WriteLog(r)
  BY <1>15 DEF WriteLog, Goto, turn, TypeOfNames, TypeOfCounts, TypeOfNotes
<1>16. CASE WriteReceipt(r)
  BY <1>16 DEF WriteReceipt, Goto, turn, TypeOfNames, TypeOfCounts,
     TypeOfNotes
<1>17. CASE KeepNothing(r)
  BY <1>17 DEF KeepNothing, Goto, files, turn, TypeOfNames, TypeOfCounts,
     TypeOfNotes
<1>18. CASE Hint(r)
  BY <1>18 DEF Hint, End, Goto, files, turn, TypeOfNames, TypeOfCounts,
     TypeOfNotes
<1>19. CASE Interrupt(r)
  BY <1>19 DEF Interrupt, LetGo, End, Goto, files, TypeOfNames, TypeOfCounts,
     TypeOfNotes
<1>20. CASE Die(r)
  BY <1>20 DEF Die, LetGo, End, Goto, files, turn, TypeOfNames, TypeOfCounts,
     TypeOfNotes
<1>21. QED BY <1>1, <1>2, <1>3, <1>4, <1>5, <1>6, <1>7, <1>8, <1>9, <1>10,
       <1>11, <1>12, <1>13, <1>14, <1>15, <1>16, <1>17, <1>18, <1>19, <1>20 DEF RunAct

\* No run deletes the directory.
LEMMA WipesStay ==
  ASSUME NEW r \in Runs, TypeOfNames, RunAct(r)
  PROVE  wipes' = wipes /\ (tree => tree')
<1>1. CASE Begin(r)
  BY <1>1 DEF Begin
<1>2. CASE StartEngine(r)
  BY <1>2 DEF StartEngine
<1>3. CASE CannotStart(r)
  BY <1>3 DEF CannotStart, files
<1>4. CASE Send(r)
  BY <1>4 DEF Send, files
<1>5. CASE Bind(r) \/ EndWait(r)
  BY <1>5 DEF Bind, EndWait
<1>6. CASE SaveResponse(r)
  BY <1>6 DEF SaveResponse
<1>7. CASE Succeed(r)
  BY <1>7 DEF Succeed, files
<1>8. CASE Fail(r)
  BY <1>8 DEF Fail, files
<1>9. CASE Return(r)
  BY <1>9 DEF Return, files
<1>10. CASE ReturnPlan(r)
  BY <1>10 DEF ReturnPlan, files
<1>11. CASE TimeOut(r)
  BY <1>11 DEF TimeOut, files
<1>12. CASE Verify(r)
  BY <1>12 DEF Verify, files
<1>13. CASE CopyRejected(r)
  BY <1>13 DEF CopyRejected
<1>14. CASE Unlink(r)
  BY <1>14 DEF Unlink
<1>15. CASE WriteLog(r)
  BY <1>15 DEF WriteLog
<1>16. CASE WriteReceipt(r)
  BY <1>16 DEF WriteReceipt
<1>17. CASE KeepNothing(r)
  BY <1>17 DEF KeepNothing, files
<1>18. CASE Hint(r)
  BY <1>18 DEF Hint, files
<1>19. CASE Interrupt(r)
  BY <1>19 DEF Interrupt, files
<1>20. CASE Die(r)
  BY <1>20 DEF Die, files
<1>21. QED BY <1>1, <1>2, <1>3, <1>4, <1>5, <1>6, <1>7, <1>8, <1>9, <1>10,
       <1>11, <1>12, <1>13, <1>14, <1>15, <1>16, <1>17, <1>18, <1>19, <1>20 DEF RunAct

\* Types: names and flags.
LEMMA NamesStep ==
  ASSUME NEW r \in Runs, TypeOfNames, OwnCandidate(r),
         NewestManifest.run \in Runs \cup {None}, RunAct(r)
  PROVE  TypeOfNames'
<1> USE DEF TypeOfNames, Labels, Engines, Working, Endings, Set
<1>1. CASE Begin(r)
  BY <1>1 DEF Begin, End, Goto, turn
<1>2. CASE StartEngine(r)
  BY <1>2 DEF StartEngine, Browser!Enter, Goto
<1>3. CASE CannotStart(r)
  BY <1>3 DEF CannotStart, End, Goto, files, turn
<1>4. CASE Send(r)
  BY <1>4 DEF Send, lane, files
<1>5. CASE Bind(r) \/ EndWait(r)
  BY <1>5 DEF Bind, EndWait, WriteManifest, lane
<1>6. CASE SaveResponse(r)
  <2>1. engine' \in [Runs -> Engines] /\ page' \in [Runs -> Texts \cup {"absent"}]
    BY <1>6 DEF SaveResponse
  <2>2. response' \in [Runs -> Texts \cup {"absent"}]
    BY <1>6 DEF SaveResponse
  <2>3. QED BY <1>6, <2>1, <2>2 DEF SaveResponse, lane
<1>7. CASE Succeed(r)
  BY <1>7 DEF Succeed, lane, files
<1>8. CASE Fail(r)
  BY <1>8 DEF Fail, lane, files
<1>9. CASE Return(r)
  BY <1>9 DEF Return, Browser!Leave, Goto, files, turn, Candidate
<1>10. CASE ReturnPlan(r)
  <2>1. pc' \in [Runs -> Labels] /\ ending' \in [Runs -> Endings]
    BY <1>10 DEF ReturnPlan, End, Goto
  <2>2. report' \in [Runs -> Runs \cup {None}]
    BY <1>10 DEF ReturnPlan
  <2>3. inside' \in SUBSET Runs
    BY <1>10 DEF ReturnPlan, Browser!Leave
  <2>4. QED BY <1>10, <2>1, <2>2, <2>3 DEF ReturnPlan, files, turn
<1>11. CASE TimeOut(r)
  BY <1>11 DEF TimeOut, Browser!Leave, End, Goto, files
<1>12. CASE Verify(r)
  BY <1>12 DEF Verify, End, Goto, Fruitless, files, turn
<1>13. CASE CopyRejected(r)
  <2>1. pc' \in [Runs -> Labels] /\ ending' \in [Runs -> Endings]
    BY <1>13 DEF CopyRejected, End, Goto
  <2>2. candidate[r] = r
    BY <1>13 DEF CopyRejected, OwnCandidate
  <2>3. rejected' \in {rejected, rejected \cup {r}}
    BY <1>13, <2>2 DEF CopyRejected
  <2>4. QED BY <1>13, <2>1, <2>3 DEF CopyRejected, turn
<1>14. CASE Unlink(r)
  BY <1>14 DEF Unlink, End, Goto, Fruitless, turn, OwnCandidate
<1>15. CASE WriteLog(r)
  BY <1>15 DEF WriteLog, Goto, turn
<1>16. CASE WriteReceipt(r)
  BY <1>16 DEF WriteReceipt, Goto, turn
<1>17. CASE KeepNothing(r)
  BY <1>17 DEF KeepNothing, Goto, files, turn
<1>18. CASE Hint(r)
  BY <1>18 DEF Hint, End, Goto, files, turn
<1>19. CASE Interrupt(r)
  BY <1>19 DEF Interrupt, LetGo, End, Goto, files
<1>20. CASE Die(r)
  BY <1>20 DEF Die, LetGo, End, Goto, files, turn
<1>21. QED BY <1>1, <1>2, <1>3, <1>4, <1>5, <1>6, <1>7, <1>8, <1>9, <1>10,
       <1>11, <1>12, <1>13, <1>14, <1>15, <1>16, <1>17, <1>18, <1>19, <1>20 DEF RunAct

\* Types: what is counted.
LEMMA CountsStep ==
  ASSUME NEW r \in Runs, TypeOfCounts, RunAct(r)
  PROVE  TypeOfCounts'
<1> USE DEF TypeOfCounts, Set
<1>1. CASE Begin(r)
  BY <1>1 DEF Begin, End, Goto
<1>2. CASE Bind(r) \/ EndWait(r)
  BY <1>2 DEF Bind, EndWait, WriteManifest, lane
<1>3. CASE SaveResponse(r)
  BY <1>3 DEF SaveResponse, lane
<1>4. CASE WriteLog(r)
  BY <1>4 DEF WriteLog, Goto
<1>5. CASE StartEngine(r) \/ CannotStart(r) \/ Send(r) \/ Succeed(r) \/ Fail(r) \/
        Return(r) \/ ReturnPlan(r) \/ TimeOut(r) \/ Verify(r) \/ CopyRejected(r) \/
        Unlink(r) \/ WriteReceipt(r) \/ KeepNothing(r) \/ Hint(r) \/ Interrupt(r) \/
        Die(r)
  BY <1>5 DEF StartEngine, CannotStart, Send, Succeed, Fail, Return,
     ReturnPlan, TimeOut, Verify, CopyRejected, Unlink, WriteReceipt,
     KeepNothing, Hint, Interrupt, Die, lane, files
<1>6. QED BY <1>1, <1>2, <1>3, <1>4, <1>5 DEF RunAct

\* Types: what a command noted.
LEMMA NotesStep ==
  ASSUME NEW r \in Runs, TypeOfNotes,
         NewestManifest \in [run : Runs \cup {None}, mtime : Nat], RunAct(r)
  PROVE  TypeOfNotes'
<1> USE DEF TypeOfNotes, Set
<1>1. CASE Begin(r)
  BY <1>1 DEF Begin, End, Goto
<1>2. CASE StartEngine(r)
  BY <1>2 DEF StartEngine, Browser!Enter, Goto, Present, Written
<1>3. CASE CannotStart(r) \/ Send(r) \/ Bind(r) \/ EndWait(r) \/ SaveResponse(r) \/ Succeed(r) \/
        Fail(r) \/ Return(r) \/ ReturnPlan(r) \/ TimeOut(r) \/ Verify(r) \/
        CopyRejected(r) \/ Unlink(r) \/ WriteLog(r) \/ WriteReceipt(r) \/
        KeepNothing(r) \/ Hint(r) \/ Interrupt(r) \/ Die(r)
  BY <1>3 DEF CannotStart, Send, Bind, EndWait, SaveResponse, Succeed, Fail, Return,
     ReturnPlan, TimeOut, Verify, CopyRejected, Unlink, WriteLog,
     WriteReceipt, KeepNothing, Hint, Interrupt, Die, lane
<1>4. QED BY <1>1, <1>2, <1>3 DEF RunAct

\* A command and its engine move as Progress says.
LEMMA ProgressStep ==
  ASSUME NEW r \in Runs, TypeOfNames, Progress(r), RunAct(r)
  PROVE  Progress(r)'
<1> USE DEF TypeOfNames, Progress, Working, Set
<1>1. CASE Begin(r)
  BY <1>1 DEF Begin, End, Goto, turn
<1>2. CASE StartEngine(r)
  BY <1>2 DEF StartEngine, Browser!Enter, Goto
<1>3. CASE CannotStart(r)
  BY <1>3 DEF CannotStart, End, Goto, turn
<1>4. CASE Send(r)
  BY <1>4 DEF Send, lane
<1>5. CASE Bind(r) \/ EndWait(r)
  BY <1>5 DEF Bind, EndWait, WriteManifest, lane
<1>6. CASE SaveResponse(r)
  BY <1>6 DEF SaveResponse, lane
<1>7. CASE Succeed(r)
  BY <1>7 DEF Succeed, lane
<1>8. CASE Fail(r)
  BY <1>8 DEF Fail, lane
<1>9. CASE Return(r)
  BY <1>9 DEF Return, Browser!Leave, Goto, turn
<1>10. CASE ReturnPlan(r)
  BY <1>10 DEF ReturnPlan, Browser!Leave, End, Goto, turn
<1>11. CASE TimeOut(r)
  BY <1>11 DEF TimeOut, Browser!Leave, End, Goto
<1>12. CASE Verify(r)
  BY <1>12 DEF Verify, End, Goto, Fruitless, turn
<1>13. CASE CopyRejected(r)
  BY <1>13 DEF CopyRejected, End, Goto, turn
<1>14. CASE Unlink(r)
  BY <1>14 DEF Unlink, End, Goto, Fruitless, turn
<1>15. CASE WriteLog(r)
  BY <1>15 DEF WriteLog, Goto, turn
<1>16. CASE WriteReceipt(r)
  BY <1>16 DEF WriteReceipt, Goto, turn
<1>17. CASE KeepNothing(r)
  BY <1>17 DEF KeepNothing, Goto, turn
<1>18. CASE Hint(r)
  BY <1>18 DEF Hint, End, Goto, turn
<1>19. CASE Interrupt(r)
  BY <1>19 DEF Interrupt, LetGo, End, Goto
<1>20. CASE Die(r)
  BY <1>20 DEF Die, LetGo, End, Goto, turn
<1>21. QED BY <1>1, <1>2, <1>3, <1>4, <1>5, <1>6, <1>7, <1>8, <1>9, <1>10,
       <1>11, <1>12, <1>13, <1>14, <1>15, <1>16, <1>17, <1>18, <1>19, <1>20 DEF RunAct

\* A response holds its engine's text.
LEMMA OwnTextStep ==
  ASSUME NEW r \in Runs, TypeOfNames, TypeOfCounts, Progress(r), OwnText(r),
         OwnCandidate(r), RunAct(r)
  PROVE  OwnText(r)'
<1> USE DEF TypeOfNames, TypeOfCounts, OwnText, Set
<1>1. CASE StartEngine(r)
  BY <1>1 DEF StartEngine, Browser!Enter, Goto, Progress
<1>2. CASE Send(r)
  BY <1>2 DEF Send, files
<1>3. CASE Bind(r) \/ EndWait(r)
  BY <1>3, ReviewAssumption DEF Bind, EndWait, WriteManifest
<1>4. CASE SaveResponse(r)
  <2>1. response[r] = "absent"
    BY <1>4 DEF SaveResponse
  <2>2. CASE \E text \in Texts : /\ page' = Set(page, r, text)
                                /\ response' = Set(response, r, text)
    <3>1. page'[r] = response'[r] BY <2>2
    <3>2. manifest' = manifest /\ engine'[r] \in {"saved", "exit 1"}
      BY <1>4 DEF SaveResponse
    <3>3. engine'[r] = "exit 1" => response' = response
      BY <1>4 DEF SaveResponse
    <3>4. QED BY <2>1, <3>1, <3>2, <3>3
  <2>3. CASE UNCHANGED <<page, response>>
    <3>1. manifest' = manifest /\ engine'[r] \in {"saved", "exit 1"}
      BY <1>4 DEF SaveResponse
    <3>2. QED BY <2>1, <2>3, <3>1
  <2>4. QED BY <1>4, <2>2, <2>3 DEF SaveResponse
<1>5. CASE Succeed(r)
  BY <1>5 DEF Succeed, files
<1>6. CASE Fail(r)
  BY <1>6 DEF Fail, files
<1>7. CASE TimeOut(r)
  BY <1>7 DEF TimeOut, Browser!Leave, End, Goto, files, Working
<1>8. CASE Unlink(r)
  BY <1>8 DEF Unlink, End, Goto, Fruitless, turn, OwnCandidate
<1>9. CASE Interrupt(r)
  BY <1>9 DEF Interrupt, LetGo, End, Goto, files, Working
<1>10. CASE Begin(r) \/ CannotStart(r) \/ Return(r) \/ ReturnPlan(r) \/ Verify(r) \/
        CopyRejected(r) \/ WriteLog(r) \/ WriteReceipt(r) \/ KeepNothing(r) \/ Hint(r) \/
        Die(r)
  BY <1>10 DEF Begin, CannotStart, Return, ReturnPlan, Verify, CopyRejected,
     WriteLog, WriteReceipt, KeepNothing, Hint, Die, files, turn
<1>11. QED BY <1>1, <1>2, <1>3, <1>4, <1>5, <1>6, <1>7, <1>8, <1>9, <1>10 DEF RunAct

\* A listing is made before the engine wrote anything.
LEMMA ListedStep ==
  ASSUME NEW r \in Runs, TypeOfNotes, Progress(r), OwnText(r), Listed(r),
         RunAct(r)
  PROVE  Listed(r)'
<1> USE DEF TypeOfNotes, Listed, Set
<1>1. CASE StartEngine(r)
  <2>1. response[r] = "absent" /\ manifest[r] = 0
    BY <1>1 DEF StartEngine, Progress, OwnText
  <2>2. r \notin Present(response) /\ r \notin Written(manifest)
    BY <2>1 DEF Present, Written
  <2>3. QED BY <1>1, <2>2 DEF StartEngine
<1>2. CASE Begin(r) \/ CannotStart(r) \/ Send(r) \/ Bind(r) \/ EndWait(r) \/ SaveResponse(r) \/
        Succeed(r) \/ Fail(r) \/ Return(r) \/ ReturnPlan(r) \/ TimeOut(r) \/ Verify(r) \/
        CopyRejected(r) \/ Unlink(r) \/ WriteLog(r) \/ WriteReceipt(r) \/
        KeepNothing(r) \/ Hint(r) \/ Interrupt(r) \/ Die(r)
  BY <1>2 DEF Begin, CannotStart, Send, Bind, EndWait, SaveResponse, Succeed, Fail,
     Return, ReturnPlan, TimeOut, Verify, CopyRejected, Unlink, WriteLog,
     WriteReceipt, KeepNothing, Hint, Interrupt, Die, lane
<1>3. QED BY <1>1, <1>2 DEF RunAct

\* The candidate is the run's own.
LEMMA OwnCandidateStep ==
  ASSUME NEW r \in Runs, TypeOfNames, Progress(r), OwnCandidate(r), RunAct(r)
  PROVE  OwnCandidate(r)'
<1> USE DEF TypeOfNames, OwnCandidate, Set
<1>1. CASE Begin(r)
  BY <1>1, ReviewAssumption DEF Begin, End, Goto, turn
<1>2. CASE StartEngine(r)
  BY <1>2 DEF StartEngine, Browser!Enter, Goto, Progress
<1>3. CASE CannotStart(r)
  BY <1>3 DEF CannotStart, End, Goto, turn
<1>4. CASE Send(r)
  BY <1>4 DEF Send, lane
<1>5. CASE Bind(r) \/ EndWait(r)
  BY <1>5 DEF Bind, EndWait, WriteManifest, lane
<1>6. CASE SaveResponse(r)
  BY <1>6 DEF SaveResponse, lane
<1>7. CASE Succeed(r)
  BY <1>7 DEF Succeed, lane
<1>8. CASE Fail(r)
  BY <1>8 DEF Fail, lane
<1>9. CASE Return(r)
  BY <1>9, ReviewAssumption DEF Return, Browser!Leave, Goto, turn, Candidate
<1>10. CASE ReturnPlan(r)
  BY <1>10 DEF ReturnPlan, Browser!Leave, End, Goto, turn
<1>11. CASE TimeOut(r)
  BY <1>11 DEF TimeOut, Browser!Leave, End, Goto, Working
<1>12. CASE Verify(r)
  BY <1>12, ReviewAssumption DEF Verify, End, Goto, Fruitless, turn, Judged
<1>13. CASE CopyRejected(r)
  BY <1>13 DEF CopyRejected, End, Goto, turn
<1>14. CASE Unlink(r)
  BY <1>14 DEF Unlink, End, Goto, Fruitless, turn
<1>15. CASE WriteLog(r)
  BY <1>15 DEF WriteLog, Goto, turn
<1>16. CASE WriteReceipt(r)
  BY <1>16 DEF WriteReceipt, Goto, turn
<1>17. CASE KeepNothing(r)
  BY <1>17 DEF KeepNothing, Goto, turn
<1>18. CASE Hint(r)
  BY <1>18 DEF Hint, End, Goto, turn
<1>19. CASE Interrupt(r)
  BY <1>19 DEF Interrupt, LetGo, End, Goto, Working
<1>20. CASE Die(r)
  BY <1>20 DEF Die, LetGo, End, Goto, turn
<1>21. QED BY <1>1, <1>2, <1>3, <1>4, <1>5, <1>6, <1>7, <1>8, <1>9, <1>10,
       <1>11, <1>12, <1>13, <1>14, <1>15, <1>16, <1>17, <1>18, <1>19, <1>20 DEF RunAct

\* No step loses a text.
LEMMA InHandStep ==
  ASSUME NEW r \in Runs, TypeOfNames, TypeOfCounts, Progress(r), OwnText(r),
         OwnCandidate(r), InHand(r), RunAct(r)
  PROVE  InHand(r)'
<1> USE DEF TypeOfNames, TypeOfCounts, InHand, Set
<1>1. CASE Begin(r)
  BY <1>1 DEF Begin, End, Goto, turn
<1>2. CASE StartEngine(r)
  BY <1>2 DEF StartEngine, Browser!Enter, Goto
<1>3. CASE CannotStart(r)
  BY <1>3 DEF CannotStart, End, Goto, files, turn
<1>4. CASE Send(r)
  BY <1>4 DEF Send, lane, files
<1>5. CASE Bind(r) \/ EndWait(r)
  BY <1>5 DEF Bind, EndWait, WriteManifest, lane
<1>6. CASE SaveResponse(r)
  <2>1. pc' = pc /\ page[r] = "absent" /\ UNCHANGED <<rejected, log, tree, wipes>>
    BY <1>6 DEF SaveResponse, lane, Progress
  <2>2. page'[r] = page[r] \/ page'[r] = response'[r]
    BY <1>6 DEF SaveResponse
  <2>3. engine[r] # "none" BY <1>6 DEF SaveResponse
  <2>4. QED BY <2>1, <2>2, <2>3
<1>7. CASE Succeed(r)
  BY <1>7 DEF Succeed, lane, files
<1>8. CASE Fail(r)
  BY <1>8 DEF Fail, lane, files
<1>9. CASE Return(r)
  BY <1>9 DEF Return, Browser!Leave, Goto, files, turn
<1>10. CASE ReturnPlan(r)
  BY <1>10 DEF ReturnPlan, Browser!Leave, End, Goto, files, turn
<1>11. CASE TimeOut(r)
  BY <1>11 DEF TimeOut, Browser!Leave, End, Goto, files, Working
<1>12. CASE Verify(r)
  BY <1>12 DEF Verify, End, Goto, Fruitless, files, turn
<1>13. CASE CopyRejected(r)
  BY <1>13 DEF CopyRejected, End, Goto, turn, OwnCandidate
<1>14. CASE Unlink(r)
  BY <1>14 DEF Unlink, End, Goto, Fruitless, turn, OwnCandidate
<1>15. CASE WriteLog(r)
  BY <1>15, Later DEF WriteLog, Goto, turn
<1>16. CASE WriteReceipt(r)
  BY <1>16 DEF WriteReceipt, Goto, turn
<1>17. CASE KeepNothing(r)
  BY <1>17 DEF KeepNothing, Goto, files, turn
<1>18. CASE Hint(r)
  BY <1>18 DEF Hint, End, Goto, files, turn
<1>19. CASE Interrupt(r)
  BY <1>19 DEF Interrupt, LetGo, End, Goto, files, Working
<1>20. CASE Die(r)
  BY <1>20 DEF Die, LetGo, End, Goto, files, turn
<1>21. QED BY <1>1, <1>2, <1>3, <1>4, <1>5, <1>6, <1>7, <1>8, <1>9, <1>10,
       <1>11, <1>12, <1>13, <1>14, <1>15, <1>16, <1>17, <1>18, <1>19, <1>20 DEF RunAct

\* Verification lets no refusal and no echo of a review through.
LEMMA CleanStep ==
  ASSUME NEW r \in Runs, TypeOfNames, TypeOfCounts, Progress(r), OwnText(r), Listed(r),
         OwnCandidate(r), Clean(r), RunAct(r)
  PROVE  Clean(r)'
<1> USE DEF TypeOfNames, Clean, Told, Set
<1>1. CASE Begin(r)
  BY <1>1 DEF Begin, End, Goto
<1>2. CASE StartEngine(r)
  BY <1>2 DEF StartEngine, Browser!Enter, Goto
<1>3. CASE CannotStart(r)
  BY <1>3 DEF CannotStart, End, Goto, files
<1>4. CASE SaveResponse(r)
  BY <1>4 DEF SaveResponse, lane, Progress, Working
<1>5. CASE Return(r)
  <2>1. /\ candidate'[r] = Candidate(r) /\ pc'[r] = "judging" /\ engine[r] \in {"exit 0", "exit 1"}
        /\ response' = response /\ manifest' = manifest /\ ending' = ending /\ pc[r] = "running"
    BY <1>5 DEF Return, Goto, files
  <2>2. ASSUME r \in Reviews, Candidate(r) = None, manifest[r] # 0 PROVE Told(r, response[r])
    <3>1. r # None
      BY ReviewAssumption
    <3>0. manifest[r] > 0
      BY <2>2 DEF TypeOfCounts
    <3>2. engine[r] = "exit 0" /\ response[r] # "absent" => page[r] = "quoting"
      BY <2>2, <3>0, <3>1 DEF Candidate, Certified, OwnText, Listed
    <3>3. QED BY <2>1, <3>2 DEF OwnText
  <2>3. QED BY <2>1, <2>2 DEF Progress
<1>6. CASE ReturnPlan(r)
  BY <1>6, ReviewAssumption DEF ReturnPlan, Browser!Leave, End, Goto, files
<1>7. CASE TimeOut(r)
  BY <1>7 DEF TimeOut, Browser!Leave, End, Goto, files
<1>8. CASE Verify(r)
  <2>1. /\ response' = response /\ manifest' = manifest
        /\ pc'[r] = "logging" \/ ending'[r] \in {"reported", "failed"}
           => Judged(r) = "absent" \/ Acceptable(r, Judged(r))
        /\ pc[r] = "judging"
        /\ pc'[r] \in {"logging", "over", "rejecting"} /\ candidate' = candidate
        /\ r \in Reviews /\ pc'[r] = "rejecting" => ending'[r] = ending[r]
    BY <1>8 DEF Verify, End, Goto, Fruitless, files, Progress
  <2>2. Judged(r) = "absent" => candidate[r] = None \/ response[r] = "absent"
    BY DEF Judged, OwnCandidate
  <2>3. Judged(r) # "absent" => response[r] = Judged(r)
    BY DEF Judged, OwnCandidate
  <2>4. r \in Reviews /\ Acceptable(r, Judged(r)) => Told(r, Judged(r))
    BY ReviewAssumption DEF Acceptable
  <2>5. QED BY <2>1, <2>2, <2>3, <2>4 DEF Progress
<1>9. CASE CopyRejected(r)
  BY <1>9 DEF CopyRejected, End, Goto
<1>10. CASE Unlink(r)
  BY <1>10 DEF Unlink, End, Goto, Fruitless, OwnCandidate
<1>11. CASE WriteLog(r)
  BY <1>11 DEF WriteLog, Goto
<1>12. CASE WriteReceipt(r)
  BY <1>12 DEF WriteReceipt, Goto
<1>13. CASE KeepNothing(r)
  BY <1>13 DEF KeepNothing, Goto, files
<1>14. CASE Hint(r)
  BY <1>14 DEF Hint, End, Goto, files
<1>15. CASE Interrupt(r)
  BY <1>15 DEF Interrupt, LetGo, End, Goto, files
<1>16. CASE Die(r)
  BY <1>16 DEF Die, LetGo, End, Goto, files
<1>17. CASE Send(r) \/ Bind(r) \/ EndWait(r) \/ Succeed(r) \/ Fail(r)
  BY <1>17 DEF Send, Bind, EndWait, Succeed, Fail, lane, files, Progress, Working
<1>18. QED BY <1>1, <1>2, <1>3, <1>4, <1>5, <1>6, <1>7, <1>8, <1>9, <1>10,
       <1>11, <1>12, <1>13, <1>14, <1>15, <1>16, <1>17 DEF RunAct

\* What is reported was verified.
LEMMA ReportedStep ==
  ASSUME NEW r \in Runs, TypeOfNames, Progress(r), OwnText(r), OwnCandidate(r),
         Reported(r), RunAct(r)
  PROVE  Reported(r)'
<1> USE DEF TypeOfNames, Reported, Set
<1>1. CASE StartEngine(r)
  BY <1>1 DEF StartEngine, Browser!Enter, Goto, Progress
<1>2. CASE Send(r)
  BY <1>2 DEF Send, lane
<1>3. CASE Bind(r) \/ EndWait(r)
  BY <1>3 DEF Bind, EndWait, WriteManifest, lane
<1>4. CASE SaveResponse(r)
  BY <1>4 DEF SaveResponse, lane, Progress
<1>5. CASE Succeed(r)
  BY <1>5 DEF Succeed, lane
<1>6. CASE Fail(r)
  BY <1>6 DEF Fail, lane
<1>7. CASE ReturnPlan(r)
  BY <1>7 DEF ReturnPlan, Browser!Leave, End, Goto, turn, Acceptable, Progress
<1>8. CASE TimeOut(r)
  BY <1>8 DEF TimeOut, Browser!Leave, End, Goto, Working
<1>9. CASE Verify(r)
  BY <1>9 DEF Verify, End, Goto, Fruitless, turn, Judged, Acceptable,
     OwnCandidate, OwnText
<1>10. CASE Interrupt(r)
  BY <1>10 DEF Interrupt, LetGo, End, Goto, Working
<1>11. CASE Begin(r) \/ CannotStart(r) \/ Return(r) \/ CopyRejected(r) \/ Unlink(r) \/
        WriteLog(r) \/ WriteReceipt(r) \/ KeepNothing(r) \/ Hint(r) \/ Die(r)
  BY <1>11 DEF Begin, CannotStart, Return, CopyRejected, Unlink, WriteLog,
     WriteReceipt, KeepNothing, Hint, Die, lane, turn
<1>12. QED BY <1>1, <1>2, <1>3, <1>4, <1>5, <1>6, <1>7, <1>8, <1>9, <1>10, <1>11 DEF RunAct

\* A log is written before the receipt that names it.
LEMMA ReceiptStep ==
  ASSUME NEW r \in Runs, TypeOfNames, TypeOfCounts, InHand(r), ReceiptNamesLog,
         RunAct(r)
  PROVE  ReceiptNamesLog'
<1> USE DEF ReceiptNamesLog, Set
<1>1. CASE WriteLog(r)
  BY <1>1, Later DEF WriteLog, Goto, TypeOfNames, TypeOfCounts
<1>2. CASE WriteReceipt(r)
  BY <1>2 DEF WriteReceipt, Goto, InHand
<1>3. CASE Begin(r) \/ StartEngine(r) \/ CannotStart(r) \/ Send(r) \/ Bind(r) \/
        EndWait(r) \/ SaveResponse(r) \/ Succeed(r) \/ Fail(r) \/ Return(r) \/ ReturnPlan(r) \/
        TimeOut(r) \/ Verify(r) \/ CopyRejected(r) \/ Unlink(r) \/ KeepNothing(r) \/
        Hint(r) \/ Interrupt(r) \/ Die(r)
  BY <1>3 DEF Begin, StartEngine, CannotStart, Send, Bind, EndWait, SaveResponse,
     Succeed, Fail, Return, ReturnPlan, TimeOut, Verify, CopyRejected,
     Unlink, KeepNothing, Hint, Interrupt, Die, files
<1>4. QED BY <1>1, <1>2, <1>3 DEF RunAct

\* A run writes no manifest, or its own with the next time.
WritesOwn(r) ==
  \/ manifest' = manifest /\ clock' \in {clock, clock + 1}
  \/ manifest' = Set(manifest, r, clock + 1) /\ clock' = clock + 1

\* What was noted stays, and no command begins.
Keeps ==
  /\ UNCHANGED <<noted, began>>
  /\ \A x \in Runs : pc'[x] # "away" => pc[x] # "away"

\* After its beginning a command notes nothing more.
LEMMA Moves ==
  ASSUME TypeOfNames, TypeOfCounts, NEW r \in Runs, RunAct(r), ~Begin(r)
  PROVE  WritesOwn(r) /\ Keeps
<1>1. CASE StartEngine(r)
  BY <1>1 DEF StartEngine, Goto, WritesOwn, Keeps, Set, TypeOfNames
<1>2. CASE CannotStart(r)
  BY <1>2 DEF CannotStart, End, Goto, files, WritesOwn, Keeps, Set,
     TypeOfNames
<1>3. CASE Send(r)
  BY <1>3 DEF Send, lane, files, WritesOwn, Keeps, Set, TypeOfNames
<1>4. CASE Bind(r) \/ EndWait(r)
  BY <1>4 DEF Bind, EndWait, WriteManifest, lane, WritesOwn, Keeps, Set, TypeOfNames
<1>5. CASE SaveResponse(r)
  BY <1>5 DEF SaveResponse, lane, WritesOwn, Keeps, Set,
     TypeOfNames
<1>6. CASE Succeed(r)
  BY <1>6 DEF Succeed, lane, files, WritesOwn, Keeps, Set, TypeOfNames
<1>7. CASE Fail(r)
  BY <1>7 DEF Fail, lane, files, WritesOwn, Keeps, Set, TypeOfNames
<1>8. CASE Return(r)
  BY <1>8 DEF Return, Goto, files, WritesOwn, Keeps, Set, TypeOfNames
<1>9. CASE ReturnPlan(r)
  BY <1>9 DEF ReturnPlan, End, Goto, files, WritesOwn, Keeps, Set, TypeOfNames
<1>10. CASE TimeOut(r)
  BY <1>10 DEF TimeOut, End, Goto, files, WritesOwn, Keeps, Set, TypeOfNames
<1>11. CASE Verify(r)
  BY <1>11 DEF Verify, End, Goto, files, Fruitless, WritesOwn, Keeps, Set,
     TypeOfNames
<1>12. CASE CopyRejected(r)
  BY <1>12 DEF CopyRejected, End, Goto, WritesOwn, Keeps, Set, TypeOfNames
<1>13. CASE Unlink(r)
  BY <1>13 DEF Unlink, End, Goto, Fruitless, WritesOwn, Keeps, Set,
     TypeOfNames
<1>14. CASE WriteLog(r)
  BY <1>14 DEF WriteLog, Goto, WritesOwn, Keeps, Set, TypeOfNames
<1>15. CASE WriteReceipt(r)
  BY <1>15 DEF WriteReceipt, Goto, WritesOwn, Keeps, Set, TypeOfNames
<1>16. CASE KeepNothing(r)
  BY <1>16 DEF KeepNothing, Goto, files, WritesOwn, Keeps, Set, TypeOfNames
<1>17. CASE Hint(r)
  BY <1>17 DEF Hint, End, Goto, files, WritesOwn, Keeps, Set, TypeOfNames
<1>18. CASE Interrupt(r)
  BY <1>18 DEF Interrupt, End, Goto, files, WritesOwn, Keeps, Set, TypeOfNames
<1>19. CASE Die(r)
  BY <1>19 DEF Die, End, Goto, files, WritesOwn, Keeps, Set, TypeOfNames
<1>20. QED BY <1>1, <1>2, <1>3, <1>4, <1>5, <1>6, <1>7, <1>8, <1>9, <1>10,
       <1>11, <1>12, <1>13, <1>14, <1>15, <1>16, <1>17, <1>18, <1>19 DEF RunAct

\* Every step keeps Times: a manifest is written with a time of its own, later
\* than all that was noted before.
LEMMA TimesStep ==
  ASSUME TypeOfNames, TypeOfCounts, TypeOfNotes, NEW r \in Runs, RunAct(r),
         Progress(r), OwnText(r), Times
  PROVE  Times'
<1>1. CASE Begin(r)
  <2>1. /\ UNCHANGED <<manifest, clock>> /\ manifest[r] = 0
        /\ began' = [began EXCEPT ![r] = clock] /\ noted' = [noted EXCEPT ![r] = NewestManifest]
        /\ \A x \in Runs \ {r} : pc'[x] = pc[x]
    BY <1>1 DEF Begin, Goto, End, Set, Progress, OwnText, TypeOfNames
  <2>2. /\ NewestManifest.mtime <= clock
        /\ \A q \in Runs : manifest[q] > 0 =>
              /\ NewestManifest.run \in Runs
              /\ NewestManifest.mtime = manifest[NewestManifest.run]
              /\ manifest[q] <= NewestManifest.mtime
    <3>1. NewestSound
      BY NewestFact
    <3>2. QED BY <3>1 DEF NewestSound
  <2>3. Ordered'
    BY <2>1 DEF Times, Ordered
  <2>4. /\ noted'[r] = NewestManifest /\ began'[r] = clock /\ clock \in Nat
        /\ \A x \in Runs \ {r} : noted'[x] = noted[x] /\ began'[x] = began[x]
    BY <2>1 DEF TypeOfCounts, TypeOfNotes
  <2>5. ASSUME NEW x \in Runs PROVE Aged(x)'
    <3>1. Aged(x)
      BY DEF Times
    <3>2. CASE x = r
      BY <3>1, <3>2, <2>1, <2>2, <2>4 DEF Aged
    <3>3. CASE x # r
      BY <3>1, <3>3, <2>1, <2>4 DEF Aged
    <3>4. QED BY <3>2, <3>3
  <2>6. ASSUME NEW x \in Runs, NEW q \in Runs PROVE Remembered(x, q)'
    <3>1. CASE x = r
      BY <3>1, <2>1, <2>2, <2>4 DEF Remembered
    <3>2. CASE x # r
      BY <3>2, <2>1, <2>4 DEF Times, Remembered
    <3>3. QED BY <3>1, <3>2
  <2>7. QED BY <2>3, <2>5, <2>6 DEF Times
<1>2. CASE ~Begin(r)
  <2>1. WritesOwn(r) /\ Keeps
    BY <1>2, Moves
  <2> USE DEF TypeOfCounts
  <2>2. CASE manifest' = manifest /\ clock' \in {clock, clock + 1}
    <3>1. Ordered'
      BY <2>2 DEF Times, Ordered
    <3>2. \A x \in Runs : Aged(x)'
      <4>1. clock <= clock'
        BY <2>2
      <4>2. QED BY <4>1, <2>1, <2>2 DEF Times, Aged, Keeps, TypeOfNotes
    <3>3. \A x, q \in Runs : Remembered(x, q)'
      BY <2>1, <2>2 DEF Times, Remembered, Keeps
    <3>4. QED BY <3>1, <3>2, <3>3 DEF Times
  <2>3. CASE manifest' = Set(manifest, r, clock + 1) /\ clock' = clock + 1
    <3>1. /\ manifest'[r] = clock + 1
          /\ \A x \in Runs : x # r => manifest'[x] = manifest[x]
          /\ \A x \in Runs : manifest[x] <= clock /\ began[x] <= clock
      BY <2>3 DEF Set, Times, Aged
    <3>2. Ordered'
      BY <3>1, <2>3 DEF Times, Ordered
    <3>3. \A x \in Runs : Aged(x)'
      BY <3>1, <2>1, <2>3 DEF Times, Aged, Keeps, TypeOfNotes
    <3>4. ASSUME NEW x \in Runs, NEW q \in Runs,
                 pc'[x] # "away", manifest'[q] > 0, manifest'[q] <= began'[x]
          PROVE  /\ noted'[x].run \in Runs
                 /\ manifest'[q] <= noted'[x].mtime
                 /\ \/ manifest'[noted'[x].run] = noted'[x].mtime
                    \/ manifest'[noted'[x].run] > began'[x]
      <4>1. q # r /\ pc[x] # "away" /\ noted'[x] = noted[x] /\ began'[x] = began[x]
        BY <3>1, <3>4, <2>1 DEF Keeps
      <4>2. /\ noted[x].run \in Runs /\ manifest[q] <= noted[x].mtime
            /\ manifest[noted[x].run] = noted[x].mtime \/ manifest[noted[x].run] > began[x]
        BY <4>1, <3>1, <3>4 DEF Times, Remembered
      <4>3. QED BY <4>1, <4>2, <3>1
    <3>5. QED BY <3>2, <3>3, <3>4 DEF Times, Remembered
  <2>4. QED BY <2>1, <2>2, <2>3 DEF WritesOwn
<1>3. QED BY <1>1, <1>2

-----------------------------------------------------------------------------
\* What another run moves by leaves the parts of this one as they are.
LEMMA OwnStays ==
  ASSUME NEW q \in Runs, Own(q), Same(q), wipes' = wipes, tree => tree'
  PROVE  Own(q)'
<1> USE DEF Own, Same
<1>1. Progress(q)'
  BY DEF Progress
<1>2. OwnText(q)'
  BY DEF OwnText
<1>3. Listed(q)' /\ OwnCandidate(q)'
  BY DEF Listed, OwnCandidate
<1>4. InHand(q)'
  BY DEF InHand
<1>5. Clean(q)' /\ Reported(q)'
  BY DEF Clean, Told, Reported
<1>6. QED BY <1>1, <1>2, <1>3, <1>4, <1>5

\* A deletion of the artifact directory takes files, and nothing else.
LEMMA WipeInv == IInv /\ Wipe => IInv'
<1> SUFFICES ASSUME IInv, Wipe PROVE IInv'
  OBVIOUS
<1>1. /\ UNCHANGED <<lane, turn, inside, receipt, clock>>
      /\ wipes' = wipes + 1 /\ wipes < MaxWipes /\ tree' = FALSE
      /\ response' = [r \in Runs |-> "absent"] /\ manifest' = [r \in Runs |-> 0]
      /\ rejected' = {} /\ log' = [r \in Runs |-> 0]
  BY DEF Wipe
<1>2. wipes' # 0 /\ wipes' \in 0..MaxWipes
  BY <1>1, ReviewAssumption DEF IInv, TypeOK, TypeOfCounts
<1>3. TypeOfNames' /\ TypeOfNotes'
  BY <1>1 DEF IInv, TypeOK, TypeOfNames, TypeOfNotes, lane, turn
<1>4. TypeOfCounts'
  BY <1>1, <1>2 DEF IInv, TypeOK, TypeOfCounts, lane
<1>5. ASSUME NEW r \in Runs PROVE Own(r)'
  <2>1. Own(r)
    BY DEF IInv
  <2>2. response'[r] = "absent" /\ manifest'[r] = 0
    BY <1>1
  <2>3. Progress(r)' /\ Listed(r)' /\ OwnCandidate(r)' /\ Reported(r)'
    BY <1>1, <2>1 DEF Own, Progress, Listed, OwnCandidate, Reported, lane, turn
  <2>4. OwnText(r)' /\ Clean(r)'
    BY <2>2 DEF OwnText, Clean
  <2>5. InHand(r)'
    BY <1>2 DEF InHand
  <2>6. QED BY <2>3, <2>4, <2>5 DEF Own
<1>6. Times'
  <2>1. \A q \in Runs : ~(manifest'[q] > 0) /\ manifest'[q] = 0
    BY <1>1
  <2>2. \A r \in Runs : began'[r] <= clock' /\ noted'[r].mtime <= began'[r] /\ 0 <= clock'
    BY <1>1 DEF IInv, Times, Aged, TypeOK, TypeOfCounts, lane
  <2>3. QED BY <2>1, <2>2 DEF Times, Ordered, Aged, Remembered
<1>7. ReceiptNamesLog'
  BY <1>2 DEF ReceiptNamesLog
<1>8. TypeOK'
  BY <1>1, <1>3, <1>4 DEF IInv, TypeOK, lane
<1>9. QED BY <1>5, <1>6, <1>7, <1>8 DEF IInv

\* The invariant is inductive.
LEMMA StepInv == IInv /\ [Next]_vars => IInv'
<1> SUFFICES ASSUME IInv, [Next]_vars PROVE IInv'
  OBVIOUS
<1>1. ASSUME NEW r \in Runs, RunAct(r) PROVE IInv'
  <2>1. /\ TypeOfNames /\ TypeOfCounts /\ TypeOfNotes /\ Times /\ ReceiptNamesLog
        /\ \A q \in Runs : Own(q)
    BY DEF IInv, TypeOK
  <2>2. /\ Progress(r) /\ OwnText(r) /\ Listed(r) /\ OwnCandidate(r)
        /\ InHand(r) /\ Clean(r) /\ Reported(r)
    BY <2>1 DEF Own
  <2>3. /\ NewestManifest \in [run : Runs \cup {None}, mtime : Nat]
        /\ NewestManifest.run \in Runs \cup {None}
    <3>1. NewestSound /\ NewestManifest = [run |-> NewestManifest.run, mtime |-> NewestManifest.mtime]
      BY <2>1, NewestFact
    <3>2. NewestManifest.run \in Runs \cup {None} /\ NewestManifest.mtime \in Nat
      BY <3>1 DEF NewestSound
    <3>3. QED BY <3>1, <3>2
  <2>4. TypeOfNames' /\ TypeOfCounts' /\ TypeOfNotes'
    BY <1>1, <2>1, <2>2, <2>3, NamesStep, CountsStep, NotesStep
  <2>5. Own(r)'
    <3>1. Progress(r)' /\ OwnText(r)' /\ Listed(r)' /\ OwnCandidate(r)'
      BY <1>1, <2>1, <2>2, ProgressStep, OwnTextStep, ListedStep, OwnCandidateStep
    <3>2. InHand(r)' /\ Clean(r)' /\ Reported(r)'
      BY <1>1, <2>1, <2>2, InHandStep, CleanStep, ReportedStep
    <3>3. QED BY <3>1, <3>2 DEF Own
  <2>6. ASSUME NEW q \in Runs, q # r PROVE Own(q)'
    <3>1. Same(q)
      BY <1>1, <2>1, <2>2, <2>6, OthersStay
    <3>2. wipes' = wipes /\ (tree => tree')
      BY <1>1, <2>1, WipesStay
    <3>3. QED BY <2>1, <3>1, <3>2, OwnStays
  <2>7. Times' /\ ReceiptNamesLog'
    BY <1>1, <2>1, <2>2, TimesStep, ReceiptStep
  <2>8. \A q \in Runs : Own(q)'
    BY <2>5, <2>6
  <2>9. TypeOK'
    <3>1. \A q \in Runs : q # None BY ReviewAssumption
    <3>2. \A q \in Runs : OwnCandidate(q)' BY <2>8 DEF Own
    <3>3. QED BY <2>4, <3>1, <3>2 DEF TypeOK, OwnCandidate
  <2>10. QED BY <2>7, <2>8, <2>9 DEF IInv
<1>2. CASE UNCHANGED vars
  <2>1. UNCHANGED <<lane, files, turn>>
    BY <1>2 DEF vars
  <2>2. TypeOK'
    BY <1>2 DEF IInv, TypeOK, TypeOfNames, TypeOfCounts, TypeOfNotes, vars, lane, files, turn
  <2>3. \A r \in Runs : Own(r)'
    BY <2>1, OwnStays DEF IInv, Same, lane, files, turn
  <2>4. Times' /\ ReceiptNamesLog'
    BY <2>1 DEF IInv, Times, Ordered, Aged, Remembered, ReceiptNamesLog, lane, files
  <2>5. QED BY <2>2, <2>3, <2>4 DEF IInv
<1>3. QED BY <1>1, <1>2, Cases, WipeInv

\* It holds in every state.
LEMMA Inductive == Spec => []IInv
<1>1. QED BY InitInv, StepInv, PTL DEF Spec

-----------------------------------------------------------------------------
\* Every variable of Review keeps its type, and only a response is rejected.
THEOREM TypeCorrect == Spec => []TypeOK
<1>1. IInv => TypeOK
  BY DEF IInv
<1>2. QED BY <1>1, Inductive, PTL

\* A command reports success only for its own engine's answer and never for a
\* refusal, nor for the echo of a prompt that is long enough to show (_verified,
\* ask, rejection_reason), whatever other runs leave in the directory.
THEOREM ReportCorrect == Spec => []ReportIsOwnAnswer
<1>1. IInv => ReportIsOwnAnswer
  BY DEF IInv, Own, Reported, ReportIsOwnAnswer
<1>2. QED BY <1>1, Inductive, PTL

\* A text the engine saved is on disk, through any rejection, interrupt or death.
THEOREM NothingPaidForIsLost == Spec => []TextSurvives
<1>1. IInv => TextSurvives
  BY DEF IInv, Own, InHand, TextSurvives
<1>2. QED BY <1>1, Inductive, PTL

\* A review that ran to its end left no refusal, and no echo of a long prompt,
\* under a response name with its manifest beside it, whatever was deleted.
THEOREM FinishedReviewsAreClean == Spec => []ReviewLeavesNoRefusal
<1>1. IInv => ReviewLeavesNoRefusal
  BY DEF IInv, Own, Clean, Told, ReviewLeavesNoRefusal, Runs
<1>2. QED BY <1>1, Inductive, PTL

\* The trusted receipt names a log that was written (persist_failure).
THEOREM ReceiptCorrect == Spec => []ReceiptNamesLog
<1>1. IInv => ReceiptNamesLog
  BY DEF IInv
<1>2. QED BY <1>1, Inductive, PTL

\* Only the last step of a failing review names a conversation, and only it makes
\* a review a failure.
LEMMA OnlyHintEnds ==
  ASSUME NEW r \in Runs, TypeOfNames, RunAct(r)
  PROVE  \/ Hint(r)
         \/ hint' = hint /\ (r \in Reviews => ending'[r] = ending[r] \/ ending'[r] # "failed")
<1> USE DEF TypeOfNames, Set
<1>1. CASE Begin(r)
  BY <1>1 DEF Begin, End, Goto
<1>2. CASE CannotStart(r)
  BY <1>2 DEF CannotStart, End, Goto
<1>3. CASE ReturnPlan(r)
  BY <1>3, ReviewAssumption DEF ReturnPlan, Browser!Leave, End, Goto
<1>4. CASE TimeOut(r)
  BY <1>4 DEF TimeOut, Browser!Leave, End, Goto
<1>5. CASE Verify(r)
  BY <1>5 DEF Verify, End, Goto, Fruitless
<1>6. CASE CopyRejected(r)
  BY <1>6 DEF CopyRejected, End, Goto
<1>7. CASE Unlink(r)
  BY <1>7 DEF Unlink, End, Goto, Fruitless
<1>8. CASE Hint(r)
  BY <1>8 DEF Hint, End, Goto
<1>9. CASE Interrupt(r)
  BY <1>9 DEF Interrupt, LetGo, End, Goto
<1>10. CASE Die(r)
  BY <1>10 DEF Die, LetGo, End, Goto
<1>11. CASE StartEngine(r) \/ Send(r) \/ Bind(r) \/ EndWait(r) \/ SaveResponse(r) \/ Succeed(r) \/
        Fail(r) \/ Return(r) \/ WriteLog(r) \/ WriteReceipt(r) \/ KeepNothing(r)
  BY <1>11 DEF StartEngine, Send, Bind, EndWait, SaveResponse, Succeed, Fail, Return,
     WriteLog, WriteReceipt, KeepNothing, lane
<1>12. QED BY <1>1, <1>2, <1>3, <1>4, <1>5, <1>6, <1>7, <1>8, <1>9, <1>10, <1>11 DEF RunAct

\* The same of any step.
LEMMA HintStep ==
  ASSUME IInv, [Next]_vars, NEW r \in Runs,
         \/ hint'[r] # hint[r]
         \/ r \in Reviews /\ ending[r] = "none" /\ ending'[r] = "failed"
  PROVE  Hint(r)
<1>1. ASSUME NEW x \in Runs, RunAct(x) PROVE Hint(r)
  <2>1. TypeOfNames /\ TypeOfCounts /\ TypeOfNotes /\ OwnCandidate(x)
    BY DEF IInv, TypeOK, Own
  <2>2. x = r
    BY <1>1, <2>1, OthersStay DEF Same
  <2>3. QED BY <1>1, <2>1, <2>2, OnlyHintEnds
<1>2. CASE Wipe
  BY <1>2 DEF Wipe, lane
<1>3. CASE UNCHANGED vars
  BY <1>3 DEF vars, lane
<1>4. QED BY <1>1, <1>2, <1>3, Cases

\* A named conversation was bound or written again since the command began: the
\* newest manifest is either the one noted, or younger than what was noted
\* (_print_harvest_hint).
THEOREM HintsAreFresh == Spec => HintIsFresh
<1>1. IInv /\ [Next]_vars
      => \A r \in Runs : hint'[r] # hint[r] => manifest[hint'[r]] > began[r]
  <2> SUFFICES ASSUME IInv, [Next]_vars, NEW r \in Runs, hint'[r] # hint[r]
               PROVE  manifest[hint'[r]] > began[r]
    OBVIOUS
  <2>1. Hint(r)
    BY HintStep
  <2>2. /\ TypeOfNames /\ TypeOfCounts /\ TypeOfNotes /\ Times
        /\ Progress(r)
    BY DEF IInv, TypeOK, Own
  <2>3. pc[r] = "hinting" /\ hint[r] = None
    BY <2>1, <2>2 DEF Hint, Progress
  <2>4. NewestManifest # noted[r] /\ hint'[r] = NewestManifest.run /\ hint'[r] # None
    BY <2>1, <2>2, <2>3 DEF Hint, Set, TypeOfNames
  <2> DEFINE q == NewestManifest.run
  <2>5. NewestSound /\ NewestManifest = [run |-> q, mtime |-> NewestManifest.mtime]
    BY <2>2, NewestFact
  <2>6. q \in Runs /\ manifest[q] > 0 /\ NewestManifest.mtime = manifest[q]
    BY <2>4, <2>5 DEF NewestSound
  <2>7. manifest \in [Runs -> Nat] /\ began[r] \in Nat
    BY <2>2 DEF TypeOfCounts
  <2>8. ASSUME manifest[q] <= began[r] PROVE FALSE
    <3>1. /\ noted[r].run \in Runs
          /\ manifest[q] <= noted[r].mtime
          /\ \/ manifest[noted[r].run] = noted[r].mtime
             \/ manifest[noted[r].run] > began[r]
      BY <2>2, <2>3, <2>6, <2>8 DEF Times, Remembered
    <3>2. manifest[noted[r].run] <= manifest[q]
      BY <2>5, <2>6, <2>7, <3>1 DEF NewestSound
    <3>3. noted[r] \in [run : Runs \cup {None}, mtime : Nat]
      BY <2>2 DEF TypeOfNotes
    <3>4. noted[r].mtime \in Nat
      BY <3>3
    <3>5. manifest[noted[r].run] = noted[r].mtime /\ noted[r].mtime = manifest[q]
      BY <3>1, <3>2, <3>4, <2>6, <2>7, <2>8
    <3>6. noted[r].run = q
      BY <3>1, <3>5, <2>2, <2>6 DEF Times, Ordered
    <3>7. noted[r] = [run |-> q, mtime |-> NewestManifest.mtime]
      BY <3>3, <3>5, <3>6, <2>6
    <3>8. QED BY <3>7, <2>4, <2>5
  <2>9. QED BY <2>4, <2>6, <2>7, <2>8
<1>2. QED BY <1>1, Inductive, PTL DEF Spec, HintIsFresh

\* A review that fails with its own message bound names a retry: its manifest is
\* younger than the one it noted, so the newest is not that one.
THEOREM FailuresNameARetry == Spec => FailureNamesARetry
<1>1. IInv /\ [Next]_vars
      => \A r \in Reviews : /\ ending[r] = "none" /\ ending'[r] = "failed"
                            /\ manifest[r] > 0
                            => hint'[r] # None
  <2> SUFFICES ASSUME IInv, [Next]_vars, NEW r \in Reviews,
                      ending[r] = "none", ending'[r] = "failed", manifest[r] > 0
               PROVE  hint'[r] # None
    OBVIOUS
  <2>1. r \in Runs /\ None \notin Runs
    BY ReviewAssumption DEF Runs
  <2>2. Hint(r)
    BY <2>1, HintStep
  <2>3. TypeOfNames /\ TypeOfCounts /\ TypeOfNotes /\ Times
    BY DEF IInv, TypeOK
  <2>4. NewestSound
    BY <2>3, NewestFact
  <2>5. NewestManifest.run \in Runs /\ manifest[r] <= NewestManifest.mtime
    BY <2>1, <2>4 DEF NewestSound
  <2>6. manifest[r] > began[r] /\ noted[r].mtime <= began[r]
    BY <2>1, <2>3 DEF Times, Aged
  <2>7. noted[r].mtime \in Nat /\ manifest[r] \in Nat /\ began[r] \in Nat /\ NewestManifest.mtime \in Nat
    BY <2>1, <2>3, <2>4 DEF TypeOfCounts, TypeOfNotes, NewestSound
  <2>8. NewestManifest.mtime # noted[r].mtime
    BY <2>5, <2>6, <2>7
  <2>9. hint'[r] = NewestManifest.run
    BY <2>1, <2>2, <2>3, <2>8 DEF Hint, Set, TypeOfNames
  <2>10. QED BY <2>1, <2>5, <2>9
<1>2. QED BY <1>1, Inductive, PTL DEF Spec, FailureNamesARetry

-----------------------------------------------------------------------------
(* The browser.                                                            *)

\* A command is inside the browser lock exactly while it waits for its engine.
InTurn(r) == r \in inside <=> pc[r] = "running"

\* An engine at work has its command waiting, or lost it.
Tended(r) == engine[r] \in Working =>
               pc[r] = "running" \/ ending[r] \in {"died", "interrupted"}

\* What a step of a run does to the lock and to the two of it that depend on it.
LEMMA TurnMoves ==
  ASSUME TypeOfNames, NEW r \in Runs, InTurn(r), Tended(r), Progress(r), RunAct(r)
  PROVE  /\ InTurn(r)' /\ Tended(r)'
         /\ \A q \in Runs : q # r => (q \in inside' <=> q \in inside)
         /\ Browser!Enter(r) \/ Browser!Leave(r) \/ UNCHANGED inside
<1> USE DEF TypeOfNames, InTurn, Tended, Set, Goto, End, Working, Labels, Engines,
            Browser!Enter, Browser!Leave
<1>1. CASE Begin(r) BY <1>1 DEF Begin, turn, Progress
<1>2. CASE StartEngine(r) BY <1>2 DEF StartEngine
<1>3. CASE CannotStart(r) BY <1>3 DEF CannotStart, turn, Progress
<1>4. CASE Send(r) \/ Succeed(r) \/ Fail(r)
  BY <1>4 DEF Send, Succeed, Fail, lane
<1>5. CASE Bind(r) \/ EndWait(r) BY <1>5 DEF Bind, EndWait, lane
<1>6. CASE SaveResponse(r) BY <1>6 DEF SaveResponse, lane
<1>7. CASE Return(r) BY <1>7 DEF Return, turn
<1>8. CASE ReturnPlan(r) BY <1>8 DEF ReturnPlan, turn
<1>9. CASE TimeOut(r) BY <1>9 DEF TimeOut
<1>10. CASE Verify(r) BY <1>10 DEF Verify, Fruitless, turn, Progress
<1>11. CASE CopyRejected(r) BY <1>11 DEF CopyRejected, turn, Progress
<1>12. CASE Unlink(r) BY <1>12 DEF Unlink, Fruitless, turn, Progress
<1>13. CASE WriteLog(r) \/ WriteReceipt(r) \/ KeepNothing(r) \/ Hint(r)
  BY <1>13 DEF WriteLog, WriteReceipt, KeepNothing, Hint, turn, Progress
<1>14. CASE Interrupt(r)
  <2>1. inside' = inside \ {r} /\ pc'[r] = "over" /\ ending'[r] = "interrupted"
    BY <1>14 DEF Interrupt, LetGo
  <2>2. QED BY <2>1
<1>15. CASE Die(r)
  <2>1. inside' = inside \ {r} /\ pc'[r] = "over" /\ ending'[r] = "died"
    BY <1>15 DEF Die, LetGo
  <2>2. QED BY <2>1
<1>16. QED BY <1>1, <1>2, <1>3, <1>4, <1>5, <1>6, <1>7, <1>8, <1>9, <1>10, <1>11, <1>12,
       <1>13, <1>14, <1>15 DEF RunAct

Turns == \A r \in Runs : InTurn(r) /\ Tended(r)

LEMMA TurnStep ==
  ASSUME IInv, Turns, [Next]_vars
  PROVE  Turns' /\ [Browser!Next]_inside
<1>1. ASSUME NEW r \in Runs, RunAct(r) PROVE Turns' /\ [Browser!Next]_inside
  <2>1. TypeOfNames /\ TypeOfCounts /\ TypeOfNotes /\ Progress(r) /\ OwnCandidate(r)
    BY DEF IInv, TypeOK, Own
  <2>2. /\ InTurn(r)' /\ Tended(r)'
        /\ \A q \in Runs : q # r => (q \in inside' <=> q \in inside)
        /\ Browser!Enter(r) \/ Browser!Leave(r) \/ UNCHANGED inside
    BY <1>1, <2>1, TurnMoves DEF Turns
  <2>3. ASSUME NEW q \in Runs, q # r PROVE InTurn(q)' /\ Tended(q)'
    <3>1. pc'[q] = pc[q] /\ engine'[q] = engine[q] /\ ending'[q] = ending[q]
      BY <1>1, <2>1, <2>3, OthersStay DEF Same
    <3>2. QED BY <2>2, <2>3, <3>1 DEF Turns, InTurn, Tended
  <2>4. QED BY <2>2, <2>3 DEF Turns, Browser!Next
<1>2. CASE Wipe \/ UNCHANGED vars
  BY <1>2 DEF Wipe, vars, lane, turn, Turns, InTurn, Tended
<1>3. QED BY <1>1, <1>2, Cases

LEMMA TurnsHold == Spec => []Turns
<1>1. Init => Turns
  BY DEF Init, Turns, InTurn, Tended, Working, Browser!Init
<1>2. QED BY <1>1, TurnStep, Inductive, PTL DEF Spec

\* The lock is entered and left by Mutex's actions only.
LEMMA BrowserUsedAsPromised == Spec => Browser!Spec
<1>1. Init => Browser!Init BY DEF Init
<1>2. IInv /\ Turns /\ [Next]_vars => [Browser!Next]_inside BY TurnStep
<1>3. QED BY <1>1, <1>2, Inductive, TurnsHold, PTL DEF Spec, Browser!Spec

BrowserLaws == INSTANCE MutexProofs WITH Procs <- Runs, inside <- inside

\* Two engines never drive the one browser at a time unless the command of one of
\* them was killed or interrupted: whatever else ends a command (its deadline, an
\* error) has ended the engine before the lock goes to the next.
THEOREM EnginesWorkAlone == Spec => []EnginesTakeTurns
<1>1. Browser!Spec => BrowserLaws!Spec
  BY DEF Browser!Spec, Browser!Init, Browser!Next, Browser!Enter, Browser!Leave,
     BrowserLaws!Spec, BrowserLaws!Init, BrowserLaws!Next, BrowserLaws!Enter,
     BrowserLaws!Leave
<1>2. Turns /\ BrowserLaws!AtMostOne => EnginesTakeTurns
  BY DEF Turns, InTurn, Tended, BrowserLaws!AtMostOne, EnginesTakeTurns
<1>3. QED
  BY <1>1, <1>2, BrowserUsedAsPromised, BrowserLaws!OneInside, TurnsHold, PTL

-----------------------------------------------------------------------------
(* What becomes of an answer once it is saved.                             *)

\* A response about to be unlinked is one that was refused, with its copy made.
Condemned(r) == pc[r] \in {"rejecting", "unlinking"} /\ response[r] # "absent"
                => /\ ~Acceptable(r, response[r])
                   /\ pc[r] = "unlinking" => r \in rejected

LEMMA CondemnedMoves ==
  ASSUME TypeOfNames, NEW r \in Runs, Condemned(r), Progress(r), OwnCandidate(r), RunAct(r)
  PROVE  Condemned(r)'
<1> USE DEF TypeOfNames, Condemned, Set, Goto, End
<1>1. CASE Verify(r)
  <2>1. response' = response /\ pc' \in [Runs -> Labels]
    BY <1>1 DEF Verify, files, Fruitless, Labels
  <2>2. CASE pc'[r] \in {"rejecting", "unlinking"}
    <3>1. pc'[r] = "rejecting" /\ ~Acceptable(r, Judged(r)) /\ Judged(r) # "absent"
      BY <1>1, <2>2 DEF Verify, Fruitless
    <3>2. Judged(r) = response[r]
      BY <3>1 DEF Judged, OwnCandidate
    <3>3. QED BY <2>1, <3>1, <3>2 DEF Acceptable
  <2>3. QED BY <2>2
<1>2. CASE CopyRejected(r)
  BY <1>2 DEF CopyRejected, OwnCandidate, Acceptable
<1>3. CASE Bind(r) \/ EndWait(r) \/ SaveResponse(r) \/ Send(r) \/ Succeed(r) \/ Fail(r)
  <2>1. engine[r] \notin {"exit 0", "exit 1"} /\ pc' = pc
    BY <1>3 DEF Bind, EndWait, SaveResponse, Send, Succeed, Fail, lane
  <2>2. QED BY <2>1 DEF Progress
<1>4. CASE \/ Begin(r) \/ StartEngine(r) \/ CannotStart(r) \/ Return(r) \/ ReturnPlan(r)
           \/ TimeOut(r) \/ Unlink(r) \/ WriteLog(r) \/ WriteReceipt(r) \/ KeepNothing(r)
           \/ Hint(r) \/ Interrupt(r) \/ Die(r)
  <2>1. pc'[r] \notin {"rejecting", "unlinking"}
    BY <1>4 DEF Begin, StartEngine, CannotStart, Return, ReturnPlan, TimeOut, Unlink,
       WriteLog, WriteReceipt, KeepNothing, Hint, Interrupt, Die, Fruitless
  <2>2. QED BY <2>1
<1>5. QED BY <1>1, <1>2, <1>3, <1>4 DEF RunAct

\* An answer that is saved stays: other than with the whole directory it goes only
\* when its own command refuses it, and then its copy is there already.
AnswersStay ==
  [][\A q \in Runs : response[q] # "absent" /\ response'[q] # response[q]
                     => Wipe \/ (~Acceptable(q, response[q]) /\ q \in rejected)]_vars

\* Whoever unlinks, unlinks its own.
LEMMA WhoDeletes ==
  ASSUME TypeOfNames, NEW r \in Runs, OwnText(r), OwnCandidate(r), RunAct(r),
         response[r] # "absent", response'[r] # response[r]
  PROVE  pc[r] = "unlinking"
<1>1. CASE Unlink(r) BY <1>1 DEF Unlink
<1>2. CASE SaveResponse(r) BY <1>2 DEF SaveResponse, OwnText
<1>3. CASE ~Unlink(r) /\ ~SaveResponse(r)
  <2>1. response' = response
    BY <1>3 DEF RunAct, Begin, StartEngine, CannotStart, Send, Bind, EndWait, Succeed, Fail, Return,
       ReturnPlan, TimeOut, Verify, CopyRejected, WriteLog, WriteReceipt, KeepNothing, Hint,
       Interrupt, Die, files
  <2>2. QED BY <2>1
<1>4. QED BY <1>1, <1>2, <1>3

\* No interleaving of commands, engines that were left behind and failed writes
\* makes an answer disappear in another way.
THEOREM SavedAnswersStay == Spec => AnswersStay
<1> DEFINE Held == \A r \in Runs : Condemned(r)
<1>1. Init => Held BY DEF Init, Condemned
<1>2. ASSUME IInv, Held, [Next]_vars PROVE Held'
  <2>1. ASSUME NEW r \in Runs, RunAct(r), NEW q \in Runs PROVE Condemned(q)'
    <3>1. /\ TypeOfNames /\ TypeOfCounts /\ TypeOfNotes
          /\ Progress(r) /\ OwnCandidate(r) /\ Condemned(r) /\ Condemned(q)
      BY <1>2 DEF IInv, TypeOK, Own
    <3>2. CASE q = r BY <2>1, <3>1, <3>2, CondemnedMoves
    <3>3. CASE q # r
      <4>1. Same(q) BY <2>1, <3>1, <3>3, OthersStay
      <4>2. QED BY <3>1, <4>1 DEF Condemned, Same, Acceptable
    <3>4. QED BY <3>2, <3>3
  <2>2. CASE Wipe BY <2>2 DEF Wipe, Condemned
  <2>3. CASE UNCHANGED vars
    BY <1>2, <2>3 DEF vars, lane, files, Condemned, Acceptable
  <2>4. QED BY <1>2, <2>1, <2>2, <2>3, Cases
<1>3. ASSUME IInv, Held, [Next]_vars, NEW q \in Runs,
             response[q] # "absent", response'[q] # response[q]
      PROVE  Wipe \/ (~Acceptable(q, response[q]) /\ q \in rejected)
  <2>1. ASSUME NEW r \in Runs, RunAct(r)
        PROVE  ~Acceptable(q, response[q]) /\ q \in rejected
    <3>1. /\ TypeOfNames /\ TypeOfCounts /\ TypeOfNotes
          /\ OwnText(q) /\ OwnCandidate(q) /\ OwnCandidate(r) /\ Condemned(q)
      BY <1>3 DEF IInv, TypeOK, Own
    <3>2. q = r BY <1>3, <2>1, <3>1, OthersStay DEF Same
    <3>3. pc[q] = "unlinking" BY <1>3, <2>1, <3>1, <3>2, WhoDeletes
    <3>4. QED BY <1>3, <3>1, <3>3 DEF Condemned
  <2>2. ~UNCHANGED vars BY <1>3 DEF vars, files
  <2>3. QED BY <1>3, <2>1, <2>2, Cases
<1>4. IInv /\ Held /\ [Next]_vars
      => [\A q \in Runs : response[q] # "absent" /\ response'[q] # response[q]
                          => Wipe \/ (~Acceptable(q, response[q]) /\ q \in rejected)]_vars
  BY <1>3
<1> HIDE DEF Held
<1>5. QED BY <1>1, <1>2, <1>4, Inductive, PTL DEF Spec, AnswersStay

-----------------------------------------------------------------------------
(* How long a command can be.                                              *)

\* What is left of a command, and of its engine.
CommandLeft(label) == CASE label = "away" -> 9
                        [] label = "waiting" -> 8
                        [] label = "running" -> 7
                        [] label = "judging" -> 6
                        [] label = "rejecting" -> 5
                        [] label = "unlinking" -> 4
                        [] label = "logging" -> 3
                        [] label = "signing" -> 2
                        [] label = "hinting" -> 1
                        [] OTHER -> 0
EngineLeft(state) == CASE state = "none" -> 6
                       [] state = "ready" -> 5
                       [] state = "sent" -> 4
                       [] state = "bound" -> 3
                       [] state = "waited" -> 2
                       [] state = "saved" -> 1
                       [] OTHER -> 0

StepsLeft(r) == CommandLeft(pc[r]) + EngineLeft(engine[r])

\* No command waits for another after the browser lock, and none goes back: each
\* step of a run, its engine's and its killer's among them, brings it nearer to
\* its end, and no other run and no deletion takes it away from there.
RunGetsOn(r) == /\ StepsLeft(r)' =< StepsLeft(r)
                /\ RunAct(r) => StepsLeft(r)' < StepsLeft(r)

LEMMA Ranks ==
  /\ \A l : CommandLeft(l) \in 0..9
  /\ \A e : EngineLeft(e) \in 0..6
  /\ \A r : StepsLeft(r) \in 0..15
<1>1. \A l : CommandLeft(l) \in 0..9 BY DEF CommandLeft
<1>2. \A e : EngineLeft(e) \in 0..6 BY DEF EngineLeft
<1>3. ASSUME NEW m \in 0..9, NEW n \in 0..6 PROVE m + n \in 0..15 OBVIOUS
<1>4. QED BY <1>1, <1>2, <1>3 DEF StepsLeft

\* One of the two gets on and the other does not go back.
LEMMA EitherGetsOn ==
  ASSUME NEW r \in Runs,
         CommandLeft(pc'[r]) =< CommandLeft(pc[r]), EngineLeft(engine'[r]) =< EngineLeft(engine[r]),
         CommandLeft(pc'[r]) < CommandLeft(pc[r]) \/ EngineLeft(engine'[r]) < EngineLeft(engine[r])
  PROVE  StepsLeft(r)' < StepsLeft(r)
<1>1. /\ CommandLeft(pc'[r]) \in Nat /\ CommandLeft(pc[r]) \in Nat
      /\ EngineLeft(engine'[r]) \in Nat /\ EngineLeft(engine[r]) \in Nat
  BY Ranks
<1>2. /\ StepsLeft(r) = CommandLeft(pc[r]) + EngineLeft(engine[r])
      /\ StepsLeft(r)' = CommandLeft(pc'[r]) + EngineLeft(engine'[r])
  BY DEF StepsLeft
<1>3. QED BY <1>1, <1>2

\* Where a command and an engine that is over can go.
LEMMA Ways ==
  /\ \A l \in {"logging", "rejecting", "over"} : CommandLeft(l) < CommandLeft("judging")
  /\ \A l \in {"unlinking", "over"} : CommandLeft(l) < CommandLeft("rejecting")
  /\ \A l \in {"logging", "over"} : CommandLeft(l) < CommandLeft("unlinking")
  /\ \A l : l = "over" \/ CommandLeft(l) > 0 \/ l \notin Labels
  /\ CommandLeft("over") = 0
  /\ \A e \in {"exit 0", "exit 1", "killed"} : EngineLeft(e) = 0
<1>1. /\ \A l \in {"logging", "rejecting", "over"} : CommandLeft(l) < CommandLeft("judging")
      /\ \A l \in {"unlinking", "over"} : CommandLeft(l) < CommandLeft("rejecting")
      /\ \A l \in {"logging", "over"} : CommandLeft(l) < CommandLeft("unlinking")
      /\ \A l : l = "over" \/ CommandLeft(l) > 0 \/ l \notin Labels
      /\ CommandLeft("over") = 0
  BY DEF CommandLeft, Labels
<1>2. EngineLeft("exit 0") = 0 /\ EngineLeft("exit 1") = 0 /\ EngineLeft("killed") = 0
  BY Zenon DEF EngineLeft
<1>3. QED BY <1>1, <1>2

LEMMA RunActGetsOn ==
  ASSUME TypeOfNames, NEW r \in Runs, Progress(r), OwnCandidate(r), RunAct(r)
  PROVE  StepsLeft(r)' < StepsLeft(r)
<1>0. pc \in [Runs -> Labels] /\ engine \in [Runs -> Engines]
  BY DEF TypeOfNames
<1> USE DEF Set, Goto, End
<1>c. ASSUME UNCHANGED engine, CommandLeft(pc'[r]) < CommandLeft(pc[r])
      PROVE  StepsLeft(r)' < StepsLeft(r)
  <2>1. CommandLeft(pc'[r]) \in Nat /\ CommandLeft(pc[r]) \in Nat BY Ranks
  <2>2. EngineLeft(engine'[r]) =< EngineLeft(engine[r])
    <3>1. engine'[r] = engine[r] /\ EngineLeft(engine[r]) \in Nat BY <1>c, Ranks
    <3>2. QED BY <3>1
  <2>3. CommandLeft(pc'[r]) =< CommandLeft(pc[r]) BY <1>c, <2>1
  <2>4. QED BY <1>c, <2>2, <2>3, EitherGetsOn
<1>e. ASSUME UNCHANGED pc, EngineLeft(engine'[r]) < EngineLeft(engine[r])
      PROVE  StepsLeft(r)' < StepsLeft(r)
  <2>1. EngineLeft(engine'[r]) \in Nat /\ EngineLeft(engine[r]) \in Nat BY Ranks
  <2>2. CommandLeft(pc'[r]) =< CommandLeft(pc[r])
    <3>1. pc'[r] = pc[r] /\ CommandLeft(pc[r]) \in Nat BY <1>e, Ranks
    <3>2. QED BY <3>1
  <2>3. EngineLeft(engine'[r]) =< EngineLeft(engine[r]) BY <1>e, <2>1
  <2>4. QED BY <1>e, <2>2, <2>3, EitherGetsOn
<1>k. ASSUME pc'[r] = "over", pc[r] # "over", engine'[r] \in {engine[r], "killed"}
      PROVE  StepsLeft(r)' < StepsLeft(r)
  <2>1. CommandLeft(pc'[r]) < CommandLeft(pc[r]) /\ CommandLeft(pc'[r]) =< CommandLeft(pc[r])
    <3>1. pc[r] \in Labels BY <1>0
    <3>2. CommandLeft(pc[r]) > 0 /\ CommandLeft(pc'[r]) = 0 BY <1>k, <3>1, Ways
    <3>3. CommandLeft(pc[r]) \in Nat BY Ranks
    <3>4. QED BY <3>2, <3>3
  <2>2. EngineLeft(engine'[r]) =< EngineLeft(engine[r])
    <3>1. EngineLeft(engine[r]) \in Nat BY Ranks
    <3>2. EngineLeft("killed") = 0 BY Zenon, Ways
    <3>3. QED BY <1>k, <3>1, <3>2
  <2>3. QED BY <2>1, <2>2, EitherGetsOn
<1>1. CASE Begin(r)
  <2>1. pc[r] = "away" /\ pc'[r] \in {"waiting", "over"} /\ UNCHANGED engine
    BY <1>0, <1>1 DEF Begin, turn
  <2>2. QED BY <2>1, <1>c DEF CommandLeft
<1>2. CASE StartEngine(r)
  <2>1. /\ pc[r] = "waiting" /\ pc'[r] = "running"
        /\ engine[r] = "none" /\ engine'[r] \in {"ready", "bound"}
    BY <1>0, <1>2 DEF StartEngine, Progress
  <2>2. EngineLeft(engine'[r]) < EngineLeft(engine[r])
    BY <2>1 DEF EngineLeft
  <2>3. CommandLeft(pc'[r]) =< CommandLeft(pc[r])
    BY <2>1 DEF CommandLeft
  <2>4. EngineLeft(engine'[r]) =< EngineLeft(engine[r])
    BY <2>2, Ranks
  <2>5. QED BY <2>2, <2>3, <2>4, EitherGetsOn
<1>3. CASE CannotStart(r)
  <2>1. pc[r] = "waiting" /\ pc'[r] = "over" /\ UNCHANGED engine
    BY <1>0, <1>3 DEF CannotStart, turn
  <2>2. QED BY <2>1, <1>c DEF CommandLeft
<1>4. CASE Send(r) \/ Bind(r) \/ EndWait(r)
  <2>1. /\ \/ engine[r] = "ready" /\ engine'[r] \in {"sent", "bound"}
           \/ engine[r] = "sent" /\ engine'[r] = "bound"
           \/ engine[r] = "bound" /\ engine'[r] = "waited"
        /\ UNCHANGED pc
    BY <1>0, <1>4 DEF Send, Bind, EndWait, lane
  <2>2. QED BY <2>1, <1>e DEF EngineLeft
<1>5. CASE SaveResponse(r) \/ Succeed(r) \/ Fail(r)
  <2>1. /\ engine[r] \in {"ready", "sent", "bound", "waited", "saved"} /\ UNCHANGED pc
        /\ \/ engine[r] \in {"bound", "waited"} /\ engine'[r] = "saved"
           \/ engine'[r] \in {"exit 0", "exit 1", "killed"}
    BY <1>0, <1>5 DEF SaveResponse, Succeed, Fail, lane
  <2>2. CASE engine[r] \in {"bound", "waited"} /\ engine'[r] = "saved"
    BY <1>e, <2>1, <2>2 DEF EngineLeft
  <2>3. CASE engine'[r] \in {"exit 0", "exit 1", "killed"}
    <3>1. EngineLeft(engine'[r]) = 0 BY <2>3, Ways
    <3>2. engine[r] \in {"ready", "sent", "bound", "waited", "saved"} /\ UNCHANGED pc BY <2>1
    <3>3. EngineLeft(engine[r]) > 0 BY <3>2 DEF EngineLeft
    <3>4. QED BY <1>e, <3>1, <3>2, <3>3
  <2>4. QED BY <2>1, <2>2, <2>3
<1>7. CASE Return(r) \/ ReturnPlan(r)
  <2>1. pc[r] = "running" /\ pc'[r] \in {"judging", "over"} /\ UNCHANGED engine
    BY <1>0, <1>7 DEF Return, ReturnPlan, turn
  <2>2. QED BY <2>1, <1>c DEF CommandLeft
<1>9. CASE TimeOut(r)
  <2>1. pc[r] = "running" /\ pc'[r] = "over" /\ engine'[r] = "killed"
    BY <1>0, <1>9 DEF TimeOut
  <2>2. QED BY <2>1, <1>k
<1>10. CASE Verify(r)
  <2>1. /\ pc[r] = "judging" /\ pc'[r] \in {"over", "logging", "rejecting"}
        /\ UNCHANGED engine
    BY <1>0, <1>10 DEF Verify, Fruitless, turn
  <2>2. QED BY <2>1, <1>c, Ways
<1>11. CASE CopyRejected(r)
  <2>1. /\ pc[r] = "rejecting" /\ pc'[r] \in {"over", "unlinking"} /\ UNCHANGED engine
    BY <1>0, <1>11 DEF CopyRejected, turn
  <2>2. QED BY <2>1, <1>c, Ways
<1>12. CASE Unlink(r)
  <2>1. /\ pc[r] = "unlinking" /\ pc'[r] \in {"over", "logging"} /\ UNCHANGED engine
    BY <1>0, <1>12 DEF Unlink, Fruitless, turn
  <2>2. QED BY <2>1, <1>c, Ways
<1>13. CASE WriteLog(r) \/ WriteReceipt(r) \/ KeepNothing(r) \/ Hint(r)
  <2>1. /\ \/ pc[r] = "logging" /\ pc'[r] \in {"signing", "hinting"}
           \/ pc[r] = "signing" /\ pc'[r] = "hinting"
           \/ pc[r] = "hinting" /\ pc'[r] = "over"
        /\ UNCHANGED engine
    BY <1>0, <1>13 DEF WriteLog, WriteReceipt, KeepNothing, Hint, turn
  <2>2. QED BY <2>1, <1>c DEF CommandLeft
<1>14. CASE Interrupt(r)
  <2>1. /\ pc[r] # "over" /\ pc'[r] = "over" /\ engine'[r] \in {engine[r], "killed"}
    BY <1>0, <1>14 DEF Interrupt
  <2>2. QED BY <2>1, <1>k
<1>15. CASE Die(r)
  <2>1. pc[r] # "over" /\ pc'[r] = "over" /\ engine'[r] = engine[r]
    BY <1>0, <1>15 DEF Die, turn
  <2>2. QED BY <2>1, <1>k
<1>16. QED BY <1>1, <1>2, <1>3, <1>4, <1>5, <1>7, <1>9, <1>10, <1>11, <1>12, <1>13, <1>14,
       <1>15 DEF RunAct

\* A command takes at most 15 steps with its engine, whatever the others do.
THEOREM CommandsAreBounded ==
  Spec => /\ [](\A r \in Runs : StepsLeft(r) \in 0..15)
          /\ [][\A r \in Runs : RunGetsOn(r)]_vars
<1>1. \A r \in Runs : StepsLeft(r) \in 0..15
  BY Ranks
<1>2. ASSUME IInv, [Next]_vars, NEW q \in Runs PROVE RunGetsOn(q)
  <2>1. StepsLeft(q) \in Nat BY <1>1
  <2>2. ASSUME RunAct(q) PROVE RunGetsOn(q)
    <3>1. StepsLeft(q)' < StepsLeft(q)
      BY <1>2, <2>2, RunActGetsOn DEF IInv, TypeOK, Own
    <3>2. StepsLeft(q)' \in Nat
      <4>1. CommandLeft(pc'[q]) \in Nat /\ EngineLeft(engine'[q]) \in Nat BY Ranks
      <4>2. QED BY <4>1 DEF StepsLeft
    <3>3. QED BY <2>1, <3>1, <3>2 DEF RunGetsOn
  <2>3. ASSUME ~RunAct(q), UNCHANGED <<pc[q], engine[q]>> PROVE RunGetsOn(q)
    <3>1. StepsLeft(q)' = StepsLeft(q) BY <2>3 DEF StepsLeft
    <3>2. QED BY <2>1, <2>3, <3>1 DEF RunGetsOn
  <2>4. ASSUME NEW r \in Runs, RunAct(r), r # q PROVE UNCHANGED <<pc[q], engine[q]>>
    <3>1. TypeOfNames /\ TypeOfCounts /\ TypeOfNotes /\ OwnCandidate(r)
      BY <1>2 DEF IInv, TypeOK, Own
    <3>2. QED BY <2>4, <3>1, OthersStay DEF Same
  <2>5. CASE Wipe \/ UNCHANGED vars
    BY <2>2, <2>3, <2>5 DEF Wipe, vars, lane, turn
  <2>6. QED BY <1>2, <2>2, <2>3, <2>4, <2>5, Cases
<1>3. IInv /\ [Next]_vars => [\A r \in Runs : RunGetsOn(r)]_vars BY <1>2
<1>4. QED BY <1>1, <1>3, Inductive, PTL DEF Spec
=============================================================================
