# A TLA+ model of sol-lane

sol-lane drives one logged-in ChatGPT browser session from the command line:
`lane review`, `harvest`, `followup`, `drive` and `repair` are processes that
come and go, `lane serve` is a long-running HTTP endpoint, and each of them
starts an *engine* (`vendor/pack_and_ask.py`) that operates the one browser
over CDP. A message costs part of a subscription and takes minutes, so the
program's promises are about *not* doing things: no two engines at a time, no
message for nobody, no engine left behind, no page taken for an answer.

The modules in this directory state those promises over models of the code and
check them with TLC; the most important ones are proved with TLAPS for every
number of processes, clients and files. Paths below are those of the
repository (`src/lane/...`, `vendor/...`).

## 1. The system and its parts

| component | state it keeps | operations | what makes it hard | what must hold |
|---|---|---|---|---|
| lock (`locks.py`) | the kernel lock file, its pid, a receipt at the identity path | `exclusive`: open, poll, hold, release | processes race, die or are interrupted at any step; the artifact tree with the receipt may be deleted | exclusion, no lock survives its process, bounded calls return |
| supervision (`proc.py`) | one child, its process group, two pipes, a deadline | `run`, `run_tail`, `run_relay`, `_stop` | descendants that ignore SIGTERM, keep the pipe or leave the session; signals at any statement | nothing of the group outlives the call, output is whole, a deadline bounds the call (and what can defeat it) |
| endpoint (`serve.py`) | handler slots, the guard, one admission timer and one reply per request, worker threads | HTTP handlers, `_stream`, `_acquire`, `run_engine` | clients leave at any time, two locks are taken in a row, threads and the process die | one engine, no message for a client that left in the queue, no lost guard or slot, every staying client gets a final reply |
| review artifacts (`review.py`) | `response_*`, `manifest_*`, `rejected_*`, `failed_*`, the trusted receipt | `run`, `harvest`, `followup`, `ask`, `reject`, `persist_failure` | several runs and left-behind engines share the directory; crashes between writes; the directory may be deleted | only the verified answer of one's own engine is reported, no text that was paid for is lost, engines take turns, the receipt names a whole log |
| command line (`cli.py`) | the newest manifest noted before a run | `_review`, `_print_harvest_hint`, `_drive`, `_repair` | the note is taken before a wait | the hint names a conversation of this run, never an old one, and a failure with a spent message has one |
| drive loop (`drive.py`) | the frozen digests, the fingerprint before the work, the iteration, the plan file | `drive`, `gate_digests`, `assert_verification_intact`, `run_gate`, `write_plan` | an implementer and bystanders change what verifies the work; two drives share one plan file; children that hang | whoever implements has its own plan; PASS only on a gate that is the frozen one and saw a change; `drive.lock` comes back |
| engine (`vendor/pack_and_ask.py`) | the page, the bound conversation, the attempt, what the page showed before the send, the response and manifest files | the attempt loop of `main`, `wait_for_turn_response` | a send whose outcome is unknown, a message that lands late, a page that is moved, a run that is killed | what is saved answers the question that was asked; once a message was seen none is sent again; the run ends |
| engine source and export (`engine.py`) | the engine file, HEAD, the consumer's copy and its provenance record | `resolve`, `verify_file`, `export` | edits, commits and checkouts between the looks; a crash between the steps; another export to the same place, without a lock | a provenance record is true of the commit it names, and of the copy while no two builds are published at once |
| repair (`repair.py`) | receipts outside the project, logs in it, the logs found, the brief | `newest_failure`, `build_brief`, `run_repair` | a log that is rewritten between the two reads of it, newer receipts | a brief on a log the lane found quotes the recorded bytes |
| tool bridge (`tools.py`) | none (a function) | `parse_reply` | truncated, nested and malformed fences | a call is passed on only if it is complete and offered |
| configuration, pack snapshot (`config.py`) | a snapshot directory | `safe_pack_snapshot`, `load` | files and directories turn into links or secrets during the copy | no file that is a link and none under a secret-like name leaves the machine |
| salvage (`salvage.py`) | a page, the engine's or its own; files of unverified text | `salvage` | no lock: the engine moves or closes the page it reads | the text is of the chat the file names |
| paste bundle, Windows jobs | | | | not modelled, see section 6 |

How they interact: every component that starts an engine does it as
`with locks.exclusive(browser_lock): proc.run...(engine)`. `serve` puts an
in-process lock (the guard) before that; `drive` holds its own `drive.lock`
(no waiting) and calls `review.ask` once per iteration; `review`, `harvest`
and `followup` read and write one artifact directory per project root;
`repair` reads the failure evidence that `review` wrote and edits the engine file
that all of them start and that `lane engine export` publishes; `salvage` takes no
lock and may read the very page an engine is using.

## 2. The modules

| module | models | kind |
|---|---|---|
| `Mutex` | what `exclusive` promises | abstract specification |
| `MutexProofs` | what follows from `Mutex` for all its users | TLAPS |
| `KernelLock` | `locks.exclusive` | component; implements `Mutex` |
| `KernelLockProofs` | theorems about `KernelLock` | TLAPS |
| `ProcRun` | one supervised child process of `proc.py` | component |
| `ProcRunProofs` | theorems about `ProcRun` | TLAPS |
| `Serve` | `serve.py`, with the other lane processes of the machine | composition over `Mutex` |
| `ServeProofs` | theorems about `Serve` | TLAPS |
| `Review` | `review.py` with its commands in `cli.py`: several lane processes and their engines on one artifact directory | composition over `Mutex` |
| `ReviewProofs` | theorems about `Review` | TLAPS |
| `PackSnapshot` | `config.safe_pack_snapshot` against edits of the worktree | component |
| `Drive` | `drive.py` and `cli._drive`: several drives of one root | composition over `PackSnapshot` and two instances of `Mutex` |
| `DriveProofs` | theorems about `Drive` | TLAPS |
| `EngineRun` | the attempt loop of `vendor/pack_and_ask.py` | component |
| `Salvage` | `salvage.py` beside an engine run | composition, extends `EngineRun` |
| `EngineRunProofs` | theorems about `EngineRun` and `Salvage` | TLAPS |
| `EngineSource` | `engine.py`: the engine file, `resolve` and `export` | component |
| `Repair` | `repair.py`, with the exports and the operator | composition over `EngineSource` and `Mutex` |
| `RepairProofs` | theorems about `EngineSource` and `Repair` | TLAPS |
| `MC*` | the small sets TLC uses | model checking |

Operators named as a defect (a comment that starts with "Defect:") are not
part of any specification. Each is a mutated form of the definition below it
and is used to see that a property can fail.

### KernelLock

The state is that of `exclusive` per process (`pc`, the descriptor `fd`, whether
the deadline has `passed`) and of the file system: `at` says which inode each of
the two paths leads to, `lock` who holds the flock of an inode, `text` the pid
written in it. One action per statement that can be told apart from outside:
`Open` (`_open_kernel_lock`), `TryLock`/`Busy`/`TryFails` (the three outcomes of
`_try_lock`), `Wake` (the 0.2 s sleep), `WriteHolder`, `RecordHolder`,
`LeaveBlock`, `Unlock`, `Close`. The world adds `Tick` (the clock), `Wipe`
(somebody deletes the tree with the receipt), `Interrupt` (SystemExit or
KeyboardInterrupt in the main thread, also between the flock and
`acquired = True`, which is why `Close` and not `Unlock` frees the lock in that
case) and `Crash`. A timeout of 0, which `drive` and `repair` use, is a deadline
that has passed when the loop first asks.

### ProcRun

One call, `pc` following `_managed_process`, the drain, the check for leftovers,
`_stop` and the two parts of `Popen.__exit__`; beside it the child's tree: members are born,
close their output and exit when they please, some ignore SIGTERM
(`Stubborn`), some start a session of their own (`Daemons`) and are out of the
group's reach. `mode` chooses between the order of `run`/`run_relay` (wait, then
join the readers) and of `run_tail` (read to the end, then wait). `__exit__` first closes the
pipes (`ClosePipes`) and then waits for the leader (`Return`). A reader thread that was started
and did not finish (`reading`) sits in `read1` with the buffer's lock while anybody holds a write
end (`PipesBlocked`); the close waits for that lock without a timeout, and gets it if a holder
happens to write (`CloseBetweenReads`). `hit` records
where interrupts struck, so that the properties can say which windows the code
protects.

### Serve

Per connection: the handler's `pc`, whether the client is there, its admission
timer, what it has been sent, and its `runner` (the call of `run_engine`, made in
the handler thread by a plain request and in a worker thread by a stream). Shared:
`guard`, the free `slots`, the holder of the machine-wide lock (`inside`, through
the actions of `Mutex`) and the set of `engines` running, which outlives the
processes that started them. `Others` are lane processes such as `lane review`
that take the browser, run an engine and leave. Validation of a request is a
verdict: `Admit` or `AnswerAtOnce`. A write to a client that left may still be
buffered by the kernel or fail; `_client_gone` sees every departure except behind
unread bytes (`Chatty`). On a keep-alive connection the thread turns to the next
request at once (`KeepOpen`), with a new timer.

### Review

A run is one lane process with one command, of the kind its set says: `Reviews`,
`Harvests`, `Followups`, `Asks` (the planning request of `drive`). Per run: `pc`,
what `_review` noted of the newest manifest (`noted`), the listing taken under the
lock (`before`), the engine, and the outcome (`candidate`, `report`, `hint`,
`ending`). Shared: the files of the artifact directory, indexed by the run whose
tag they carry, the receipt outside it, and the browser lock (`inside`, through the
actions of `Mutex`). `clock` is a logical mtime. `page` and `began` are history.

The engine is the part of `vendor/pack_and_ask.py` that its caller can see: it sends (`Send`),
binds a fresh chat and writes its manifest (`Bind`), writes it again when its wait is over
(`EndWait`), saves a response (`SaveResponse`), or fails at any point. A manifest that cannot be
written is passed over (`WriteManifest`), a response that cannot be written ends the engine. The
text is one of `Texts`: an answer, an answer that quotes the report line, a refusal, an echo of
the prompt. `Acceptable` is `rejection_reason`: an echo only shows against a prompt of
`MIN_ECHO_CHARS` or more, so not in the runs of `Terse`, and a harvest has no prompt. The engine
survives a lane process that is killed, or interrupted where `proc.run` does not stop it, and
then writes its files while another run holds the browser. After it, `Return`/`ReturnPlan`,
`Verify`, the two halves of `reject` (`CopyRejected`, `Unlink`), the two of `persist_failure`
(`WriteLog`, `WriteReceipt`) and `_print_harvest_hint` (`Hint`) are steps of their own, each of
which may be the last (`Interrupt`, `Die`).

Left out of it: the manifests of an attempt that binds anew because the wait of an earlier one
raised (a run writes its manifest twice at most), two manifests with the same mtime, a
`rejected_` copy cut off inside its write, and a pack snapshot that fails (the command then ends
before its engine).

### PackSnapshot and Drive

`PackSnapshot` is `safe_pack_snapshot`, one copy per lane: `Validate` is
`assert_safe_pack`; `Pick`, `PassOver` and `Refuse` are what `lstat` and the second
look at the name say of one path; `Copy` is the `open` with `O_NOFOLLOW` and its
`fstat`. Between any two of them the worktree (`shape`) may change. A path is absent, a plain
file, a link, or a file behind a directory that is a link ("behind"): `Validate` and `Pick` see
that, `Copy` does not, since `O_NOFOLLOW` is about the last component.

`Drive` has one `pc` per drive of a root. Shared are the worktree (`files`, what the
gate judges by, and `stamp`, which every edit moves as it moves an mtime), the plan
file (`plan`) and two locks, each an instance of `Mutex`: `drive.lock` (`holder`), asked
for without waiting, and the browser lock (`browser`), waited for without a timeout with
`drive.lock` in hand. In the order of the code: `Start`, the gate before any work
(`Probe`), `Freeze` (`gate_digests`), and per iteration the pack, `Ask`/`Answer`,
`WritePlan` with the fingerprint, `Implement`, which reads the plan file, `Compare` (an
implementation that changed nothing), `Check`, `Gate`, `Judge` (the second
`assert_verification_intact` and the verdict). Each way out is `End`. The implementer
edits while it runs, a bystander at any time. `red` and `seen` are what the two gates
read; `unseen` marks the edits that digests cannot see: one between the red gate and the
freeze, and one that is put back before the next look.

### EngineRun and Salvage

One run of the engine; `mode` says whether it sends to a new chat, to an existing one,
or only reads. The site is, per turn, the chat it is in and the state of its answer
(`unsent`, `inflight`, `writing`, `partial`, `complete`, `blocked`); it moves by itself
(`Progress`, `Flip`), and a person may move the page (`Drift`). The engine sees only
what the page shows: how many answers and copy buttons there are against the counts it
took before the send (`base`, `counts`), and the address. Its actions follow the loop:
`OpenHome`/`OpenBound`, `Snapshot`, `Click` (or `ClickRaises`: the send happened and the
call still failed), `Confirm`/`NotSent` (40 s), `Bind`/`BindFails`, `Return`, `Settle`,
`Copy`/`TakeShown`, `Quota`, `Timeout`, and `Finish`. `Kill` and `Harvest` are the lane
that dies and the later run that reads the chat its manifest names. `evidence` (messages
the page was seen to hold) and `moved` (the page was moved where the engine cannot tell)
are history.

`Salvage` adds a second reader without a lock. `FindPage` takes the open page with the
chat in its address, which may be the engine's, or a tab of its own; `Follow` says what
an engine step does to a page it shares.

### EngineSource and Repair

`EngineSource` is the engine file in its repository (`work`, `history`, `head`), the consumer's
copy and its record (`dest`, `marker`). `VerifyPin`, `ShowHead` and `VerifyCommitted` are the
three looks of `resolve` (the file against the pin, `git show HEAD`, the file again);
`ReadCommit`, `ReadBlob`, `ClearMarker`, `Replace`, `WriteMarker` are the steps of `export`,
each of which may be the last (`Abandon`). The operator edits, commits and checks out at any
time. A build is pinned to a digest. Nothing keeps exports of different builds to one
destination apart; `crossed` (history) says that two of them have been between the clearing of
the record and the new one at once.

`Repair` adds logs, which lie in a project where others may write (`Alter`), and
receipts, which do not. `Discover` reads one project's receipt and its log,
`ChooseNewest` or `ChooseGiven` (`--evidence`) chooses, `BuildBrief` reads the chosen log
again, `WriteBrief` takes `repair.lock` (`Mutex`), and the session edits the engine file
(`EditEngine`).

## 3. What the runs show

| run | instance | shows |
|---|---|---|
| `KernelLock` | 3 processes (1 with a timeout), 3 inodes, fair | exclusion, the pid in the file, `KernelLock` implements `Mutex`; bounded calls return; a waiter starves only through traffic |
| `ProcRun` | child that ignores SIGTERM + helper + SIGTERM-ignoring member + daemon, up to 2 interrupts, fair | nothing of the group outlives a call that was interrupted at most during the drain; output is complete; a launcher's browser is spared; a deadline bounds the call unless a daemon keeps a pipe for good; without one the end of the child and its output does |
| `Serve_safety` | plain + stream + plain with unread bytes, 2 slots, 1 other process with 2 runs | one engine under the lock, no message for a plain client that left before its turn, guard, slots and replies accounted for |
| `Serve_faults` | plain + stream, threads may fail to start, lane processes may die, fair | the guard still covers the work and comes back; only an engine that lost its process works outside the browser lock; a silent client loses its thread |
| `Serve_departed_stream` | plain + stream | *violation*: a queued stream whose client left starts the engine |
| `Review_safety` | 2 reviews, 1 with a short prompt; processes may die, writes fail; 1 deletion of the directory | own answers only, no text lost, no refusal under a response name beside its manifest, engines take turns, receipt and hint |
| `Review_kinds` | harvest + followup + planning request, processes may die, writes fail, fair | every command ends |
| `Review_harvest` | review + harvest | *violation*: a harvest that brought the answer is refused |
| `Drive` | 2 drives of one root, 2 iterations each, 1 other process, 2 edits of the tree, fair | an implementer works on its own drive's plan; a PASS is earned; packs hold no link and no secret name; every drive ends and `drive.lock` comes back |
| `EngineRun` | all three kinds of run, 2 attempts, 1 drift, 1 kill with a harvest after it, 1 salvage, fair | what is saved answers the question asked; nothing is sent after a message was seen; salvaged text is of its chat; the run ends |
| `EngineRun_resend` | the same, not fair | *violation*: two messages of one run |
| `Repair` | 2 exporters and 1 repair, each again and again, 2 builds, 2 commits, 2 failures of 1 project, 1 altered log | a provenance record is true of the history, and of the copy until two builds are published at once; a brief on a log the lane found quotes what was recorded |

Bounds. Three processes are what exclusion with a bystander needs; the third
inode lets the receipt be deleted and created again while the kernel file and an
older receipt are open. The process tree has one member of each kind that the
code distinguishes. In `Serve`, two slots for three connections exhaust the pool;
one connection of each path plus one more make queues, overtaking and 503s
happen. In `Review`, two runs are what a mistaken response, manifest or receipt
needs; one deletion of the directory (`MaxWipes`) can fall between any two steps, and
the counter also lets a property say "nothing was deleted". One of the two prompts is short
(`Terse`), so that a reported echo and a rejected one both happen. `Review_kinds` gives the page
an answer and a refusal only (`Texts`): what the text is decides between ways that all end.

In `Drive`, two drives are what a plan in the wrong hands needs and two iterations
(`MaxIters`) what a second pack, a stale plan and a verdict on the last iteration need; of the
two edits (`Edits`) one can be the implementation and one strike the verification, or both be
a bystander's that put a file back. The verification has a file of each kind that
`gate_tampering` tells apart (one that exists, one that may be added, one that may not), the
pack a plain path and a secret one. In `EngineRun`, two attempts (`Attempts`) are the lane's default;
with one drift (`Drifts`) the page can be moved at any step, and one kill (`Kills`) is followed by
a harvest that is a whole run. In `Repair`, two exporters, two commits (`Commits`), two builds and
two failures (`Logs`) are what a record or a brief about the wrong one needs; both failures are of
one project, whose receipt the second one replaces. Builds and exporters are interchangeable in
every definition, hence the `SYMMETRY`. `Alters` bounds what others do to logs. The
theorems cover any number of exporters, repairs and projects. `OtherRuns`, the number
of runs of the other lane processes, is bounded for TLC in `Serve` and `Drive`; without a
bound the browser lock could be denied to a runner forever, see fairness.

The largest runs have 5.1 million (`Review_safety`), 5.0 million (`Repair`) and 0.7 million
(`ProcRun`) distinct states.

The type invariants of `Review`, `Drive`, `EngineRun`, `Salvage` and
`Repair` are proved rather than run.

Fairness. Only what the interpreter, the kernel and the clock do by themselves is weakly fair: a
started call continues, threads run, timers fire, a deadline passes, the engine ends (`serve`
gives `proc.run` a timeout, and `DeadlineBoundsCall` is the property that makes a timeout an
end). Clients, crashes, wipes and other processes' arrivals are never forced. Neither the polled
file lock nor `threading.Lock` is a queue, so no strong fairness is assumed and no property
promises a particular waiter its turn: `WaitMeansTraffic` says exactly what is left, and
`GuardComesBack` holds because the other processes make finitely many runs. In `Review` the
steps of a lane process are fair, a deadline included; of the engines only those of harvests and
followups are, because those have no deadline and end by their own bounded waits. `KernelLock`'s
fairness includes that a block ends; `harvest` and `followup` call `proc.run` without a timeout,
so for them that rests on `EndsWhenQuiet`. That a timed call ends rests on `DeadlineBoundsCall`,
and so on no process outside the group keeping its pipe for good: `GuardComesBack`,
`CommandsEnd` and `DrivesEnd` are said under that condition, since there `proc.run` is one step
that returns or times out. In `Drive` a lane's own steps and its timeouts are fair (the planning
request, the implementer and the gate each have one) and so is another process's leaving of the
browser; that an answer comes, an implementer ends by itself or a gate turns green is not. In
`EngineRun` only the engine's own steps are fair, all of whose waits have a deadline; the site
never has to move.

Deadlock is checked in `KernelLock`, in `Repair`, in `Review` (where all commands over and no
engine left is a state that may repeat) and in the runs of `Serve` in which the server
cannot exit. It is not checked where the system really stops: a supervised call
ends (`ProcRun`), a server exits, the drives and an engine run end (`Drive`, `EngineRun`),
and in the violation run of `Serve`.

### Where the code and its documents disagree

Each of the first three has a run that finds it.

1. **A stream that queued and lost its client starts the engine**
   (`Serve_departed_stream`). `_acquire` looks again only `if not heartbeat`
   (serve.py:567); the comment at serve.py:505-507 and docs/sol-pro-mode.md:170
   promise otherwise. The tests cover a client that left a heartbeat earlier.
2. **A harvest never succeeds** (`Review_harvest`). `response_from_successful_run`
   wants a manifest beside the response, and the engine writes none for a
   conversation it did not start (review.py:343). The same goes for a followup.
3. **One run may send two messages** (`EngineRun_resend`). A message that is not on
   the page 40 s after the click is `not_sent`, and the next attempt sends it again;
   so does an exception after the click. repair.py:58-59 tells the maintainer that
   "sending is once" and that a retry after a send must not resend. `ResendIsBlind`
   is what does hold: once the page was seen to hold a message, none is sent again.

The models show the next three too; no run is spent on them.

4. **Two engines after an exit.** Ctrl-C or SIGTERM ends `serve`
   with its daemon threads; the engine has its own session and lives on while the
   kernel frees the lock. README.md:24-25 binds child cleanup to kernel lifetime on
   all three systems; on POSIX only the lock is. (`SingleFlight` is checked without
   `LanesMayDie`.)
5. **A hint to somebody else's conversation.** `_review` notes the
   newest manifest *before* it waits for the browser (cli.py:447); a run of another
   process in between is "new". `HintIsFresh` is what does hold.
6. **A timeout keeps nothing.** `TimeoutExpired` passes through
   `review.run` and `_review`: no evidence, no hint, though the message was spent and
   its manifest is on disk (cli.py:466). `FailureNamesARetry` holds for the failures
   that come back as an outcome.

One more lies between the models. README.md:280 says that the engine is verified right
before it drives the browser. `cli._engine` does it before the waits for `drive.lock`
and for the browser, and `lane serve` once at its start, so the file that is
run may have been edited since, by the session of a `lane repair` for one.

The models hold more behaviours of this sort; the properties are stated so as to
say what is left:

* an interrupt between the fork and the `try` of `proc.run`, or a second one inside
  `_stop`, leaves processes running that proc.py's docstring says are stopped
  (`Guarded` in `NothingOutlives`);
* the same two interrupts leave an engine of `review` or `ask` at work with the browser lock
  free; `EnginesTakeTurns` allows it for a command that was interrupted, and
  `OnlyOrphansOverlap` for a server that exited;
* a process that left the session of the child and keeps its pipe open hangs a call that has a
  timeout. The drain gives up at the deadline and `_stop` ends the group, but
  `Popen.__exit__` (proc.py:296) then closes the pipe that the reader thread is still reading,
  and blocks. The reader threads are daemons so that nobody need wait for them, and proc.py:403
  calls them bounded. `DeadlineBoundsCall` names this one case (`HeldByDaemon`);
* `rejection_reason` compares with the prompt only from `MIN_ECHO_CHARS` on (review.py:374-375),
  as its tests want it: the echo of a short prompt is reported as a success. The properties
  leave out the runs of `Terse`;
* `write_run_manifest` swallows its failures and the response is saved later
  (pack_and_ask.py:853-867, 2323-2333). Without a manifest nothing is taken for the response
  (review.py:343), so a refusal keeps the name of an answer, as it does when the command is
  killed or interrupted first. Hence the condition on `manifest` in `ReviewLeavesNoRefusal`;
* serve.py:528 says "the message is already in flight" of a worker that may still
  wait for the machine-wide lock, and that then sends for nobody;
* `ask` raises on a refusal, but the engine's response_*.md stays, against
  docs/field-notes.md:82 (`ReviewLeavesNoRefusal` is said of reviews only);
* two reviews that fail at once write log and receipt outside any lock, so the
  receipt may name the older log (`ReceiptNamesLog` says only that it names one);
* a follow-up that is retried starts with counts of zero; if its answer stops short,
  the copy button of the older turn may give the text that is saved, and a follow-up on
  a chat whose last answer was unfinished may take that answer when it ends late. Hence
  the conditions on `conv`, `long` and `counts` in `SavedIsOwnAnswer`;
* a harvest of a chat that was there before promises nothing about *which* of its turns
  it brings;
* a file of the pack that turns into a symbolic link after the validation and before
  `lstat` is left out without a word (`PassOver`): the pack is clean but smaller;
* a directory on the way to a file of the pack that is replaced by a link after
  `_has_symlink_component` (config.py:241) is read through, and what lies behind it is sent.
  `PackIsClean` is about the file itself, and says so;
* a verification file that is put back before the next look escapes the digests
  (`unseen` in `PassIsEarned`);
* exports of two builds to one destination that are between the clearing of the record and the
  new one at once can leave the record of one beside the copy of the other: there is no lock on
  the destination. `MarkerIsTrue` says of the copy what holds while that has not happened
  (`crossed`), and of the history what holds even then;
* steps 2 and 4 of the ladder in a repair brief are `lane doctor` and `lane review`, and
  after a session that failed cli.py:554 says to run `lane repair --evidence` again. Once the
  session edited the engine file, `VerifyPin` or `VerifyCommitted` refuses all
  three until the edit is committed and pinned.

## 4. What is proved

`KernelLockProofs` proves, for every set of processes and every set of inodes,
`TypeOK`, `MutualExclusion`, `HolderFileNamesHolder` and that `KernelLock`
implements `Mutex` (`ImplementsMutex`). The assumptions are those of the module
(`LockAssumption`: the two "nothing" values are not processes or inodes).
`MutualExclusion` alone is not inductive, since nothing in it says that two
processes wait on the same inode. The inductive invariant `IInv` adds

* `OneFile`: every open descriptor is on the file now at the kernel path. It holds
  because no step unlinks that path; a lock on the identity path breaks here
  (`Wipe`), which is the reason the code keeps the lock file elsewhere;
* `Owner`: past `_try_lock`, the inode's flock carries the process's name;
* `HolderFile`: from `_write_kernel_holder` on, the locked inode carries its pid.

The step lemmas take one step per action; the refinement maps the processes
between `_try_lock` and `_unlock` to `inside`. Two more theorems are what the liveness
properties rest on besides fairness: `NobodyWaitsForTheDead` (whoever polls a busy lock
polls for a call that is still in it; with `NoStaleLock` in the invariant, no lock
outlives its process, which is half of `WaitMeansTraffic`) and `LateCallsLeave` (past
its deadline a call is out of the loop after two steps of its own; `BoundedCallsReturn`).

`MutexProofs` says what any user of the lock may rely on: `OneInside` and `NeverHandedOver`
(between two holders nobody is inside). That `exclusive` keeps this promise is the result, of
`ImplementsMutex`. That `Serve`, `Review`, `Drive` and `Repair` take their locks as `Mutex` says
is no result: they change them by its actions, and the lemmas that say so only carry `OneInside`
over. What is a result of each is who does what inside: where an engine may be at work
(`OverlapNeedsADeath`, `EnginesWorkAlone`), who sends a pack (`AsksAlone`), who edits the engine file
(`RepairsTakeTurns`).

`ProcRunProofs` proves, for every process tree, every choice of members that
ignore SIGTERM or leave the session and every number of interrupts, `TypeOK`,
`NothingOutlives`, `OutputComplete` and `LauncherSparesBrowser`
(`RunAssumption`: the child itself does not leave its own session). The first is
about the two ends of a call only; the inductive invariant adds

* `Emptied`: `_stop` reaches its last wait with the group empty. The lemma
  `EmptyStays` keeps it so: only members give birth to members, so an empty group
  never fills again. This is where the code's order (a kill of the *group* before
  the wait for the leader) matters;
* `Causes`: which reasons for the end of a call go with which way through it, so
  that a return without a reason is known to have come through the whole drain;
* `PipesClosed` and `NotStarted`: what the readers saw is final, and nothing is
  there before the child is.

`CallIsBounded` is the safety half of `DeadlineBoundsCall`: each step of the call lowers
`CallLeft`, which is 13 at most and which the child's tree and the clock leave alone; past
the deadline every wait of the drain is over or may time out, the wait for the leader finds it
dead, because `Emptied` says the group is, and the close of the pipes waits for nobody
unless a process outside the group holds one (`WaitsForNobody`, `HeldByDaemon`).

`ServeProofs` proves, for every set of connections and of other lane processes and every pool
size, `TypeOK`, `GuardCoversWork`, `DepartedPlainSpendsNothing` and `OnlyOrphansOverlap`, all of
them also when threads cannot be started and lane processes die; `SingleFlight` as long as none
dies with its engine; `GuardHeldByLiveHandler`, `SlotsAccountedFor` and `NobodyIsDropped` as
long as threads can be started. `ServeAssumption` says that the sets are what their names say
and that the pool has a slot. The invariant:

* `Places`: which request may hold the guard, and that a runner works only for one
  that does (the abandoned one included) and exists only for one that did;
* `Departures`: a client that left stays away for the rest of its request. With
  `Places` it makes the second look of `_acquire` sufficient for plain requests;
* `Holders` and `Engines`: the browser lock has one holder, who is driving, and an
  engine belongs to a driving owner;
* `Accounts`: free slots and busy handlers are together the pool. `TypeOK` needs it
  too: nothing but the count keeps `release` from exceeding the bound. The set of
  busy handlers is finite because each took a slot, so no finiteness of the set of
  connections is assumed;
* `Replies`: a handler writes a client off only when it left, and whoever is done with a
  request has sent its last word. The one that owes a reply to a client still there is
  the stream whose worker could not be started, which keeps the guard as well: that is why
  `NobodyIsDropped` is said of threads that start.

`ReviewProofs` proves, for every set of runs of each command, with lane processes
that die, writes that fail and any number of deletions of the tree or not,
`TypeOK`, `ReportIsOwnAnswer`, `TextSurvives`, `ReviewLeavesNoRefusal`,
`ReceiptNamesLog`, `EnginesTakeTurns` and the two step properties of the hint, `HintIsFresh` and
`FailureNamesARetry`. `ReviewAssumption` says that a run is of one command and that
no run is called "nothing". None of the properties is inductive. The invariant is

* `Own(r)`, a statement about one run only: which files of its own there can be at
  which point of its command and of its engine (`Progress`, `OwnText`), that the
  listing made before the engine starts cannot hold its own files (`Listed`), that
  the candidate it judges is one of its own (`OwnCandidate`), and what each of the
  steps "copy, unlink, log, sign" has left behind when the next one is taken
  (`InHand`, `Clean`, `Reported`). That other runs share the directory is then one
  lemma, `OthersStay`: no step of a run disturbs `Own` of another;
* `Times`: modification times tell manifests apart and the latest one is unique
  (`Ordered`), none lies ahead of the clock (`Aged`), and a manifest as old as the
  note a command took is not younger than the noted one, or the noted one was written
  again since (`Remembered`). Only the hint needs it: "the newest manifest is not the
  one I noted" proves that something was written since;
* `ReceiptNamesLog`, about the one trusted receipt that all runs share.

`EnginesTakeTurns` (`EnginesWorkAlone`) has an invariant of its own: a command is inside the
browser lock exactly while it waits for its engine (`InTurn`), and an engine at work has its
command waiting, or that command was killed or interrupted (`Tended`). Two theorems go beyond
the runs' properties:

* `SavedAnswersStay`, about steps: a response file goes only with the directory or when its
  own command refused it, its copy made (`Condemned`);
* `CommandsAreBounded`: a command and its engine take 15 steps together at most, the
  measure behind `CommandsEnd`.

`DriveProofs` proves, for every set of lanes, verification and pack paths and every
number of iterations and edits, `TypeOK`, `ImplementsOwnPlan`, `PassIsEarned`,
`PackIsClean` and that `drive.lock` admits one drive at a time (`Exclusive`). The
assumptions are those of `PackSnapshot` and `Drive`: a secret path is a path of the pack, what exists
is a verification path, lanes and other processes differ. The invariant is

* `Exclusive`: whoever is between `Start` and `End` is the one inside `drive.lock`. It is what
  makes the plan file of a running drive its own (`Own`): without it another drive may write
  between `write_plan` and the start of gjc;
* `Uncounted`: no iteration is counted before the digests are frozen, which bounds the
  iterations from the one place that starts them;
* `Clean`: a pack holds what `Copy` read, and a path about to be copied is no secret one; of a
  directory that became a link it says nothing;
* `Trace(d)`: the digests frozen are those the red gate read, the fingerprint is not older
  than the red gate, and past `Compare` the tree has moved since; after the last gate, what
  it judged is still the worktree or the difference is one a check will see. Each part is
  said from the step that measures to the step that relies on it.

`AsksAlone`: a pack is sent by the only process inside the browser lock. `LocksTakenInOrder` is
why the two locks cannot lock each other out: `drive.lock` is never waited for, and who waits
for the browser has it. `DrivesAreBounded` gives the number of steps a drive may take, for a
pack of finitely many paths (the one assumption added here: a directory is finite); the
lexicographic order of iteration, place and paths still to be copied is one number, `StepsLeft`.

`EngineRunProofs` proves, for every number of attempts, drifts and kills, and for each
kind of run, `TypeOK`, `SavedIsOwnAnswer` and `ResendIsBlind` (`EngineAssumption`: the
home page, no page and no chat are not chats); and, for every number of salvages, that a
run beside salvages is a run (`SalvageSpec` implements `Spec`, so the first three hold of it as
well), `SalvageTypeOK` and `SalvageIsOfItsChat`. The invariant is

* `Sending`: a run that has seen its message is bound, has ended or is about to bind, and
  nothing it can still reach is a click; where it may click, the attempt's own message is
  unsent. This is where the code's order (bind before wait, `continue_sent` before the
  confirmation) matters;
* `Placing`: unless the page was moved unseen, each chat but the old one holds one turn,
  so that an answer found in the chat of the run is the answer to its message;
* `Copying` and `Saving`: the turn about to be copied is in the bound chat, finished, and
  none of those the page showed before the send;
* `Entitled`: a composer is made ready only in a run that is not bound, or for the one
  follow-up. With `Sending` it gives `OnlyOwedSends`: every message that leaves is owed, whatever
  the earlier attempts came to, so the double message of section 3 is the only kind there is
  (no message of the run was seen on the page). `BoundForGood` is the other half of the order
  in `main`: a bound run never changes its chat;
* `RunLeft`, the measure of `RunsAreBounded`: 9 per attempt, 2 per movement of the page by a
  person. It is what `RunEnds` rests on besides fairness;
* for a salvage, `Untouched` (where the page is as long as nobody moves it: a run only leaves a
  chat by closing its page) and `Reading` (what is held under the name of a chat was sent there).

`RepairProofs` proves, for every set of builds, exporters, repairs, projects and every number of
commits and failures, `SourceTypeOK`, `RepairTypeOK`, `MarkerIsTrue` and `BriefIsRecorded`. The
invariant is `Exporting` (an exporter past `ReadBlob` holds the bytes of the commit it names,
and commits do not change: `AppendKeeps`), `Publishing` (`MarkerIsTrue`, and a record names a
commit there is), `Uncrossed` (until two builds are published at once, whoever publishes is of
one build, finds no record or one of that build, and has put that build in place) and `Briefing`
(a log that was found and is chosen was quoted only as it was recorded). `SourceSparesRepairs`
and `RepairSparesExports` say that the two halves of the composition leave each other alone but
for the engine file. Two theorems are about that file and what is published of it:
`RepairsTakeTurns` (a session is alone in `repair.lock`, and besides the operator only that
session changes the file) and `OnlyCommittedIsPublished` (what `export` puts at the destination
are the bytes of the commit it names, even if the file and HEAD moved on while it worked).

Every safety property that a passing run checks is stated by a theorem. Only model-checked are
the liveness properties (`BoundedCallsReturn`, `WaitMeansTraffic`, `DeadlineBoundsCall`,
`EndsWhenQuiet`, `GuardComesBack`, `AdmissionIsBounded`, `CommandsEnd`, `DrivesEnd`,
`RunEnds`), since fairness and ENABLED are outside the prover's reach. For six of them a theorem
gives the part that is not about fairness: `NobodyWaitsForTheDead`, `LateCallsLeave`,
`CallIsBounded`, `CommandsAreBounded`, `DrivesAreBounded`, `RunsAreBounded`. The measures bound the
steps that are taken; that a step can be taken is what TLC adds. The properties of the
violation runs are false.

## 5. Plan

Done: `Review`, `Drive` with the pack snapshot, `EngineRun` with `Salvage`, and
`EngineSource` with `Repair`, each with its theorems. Left, in this order:

1. `Drive` and `Review` on one artifact directory and one engine file: a planning request is
   one step of `Drive` today, and the start of an engine is not a step of `EngineSource`; the
   file that was verified and the file that is run could then be told apart.
2. `ToolBridge`: `parse_reply` over line kinds against a reference definition.
3. The override by `LANE_ENGINE` and a checkout without git in `EngineSource`.
4. A measure for a request that holds the guard, as for the other components: the part of
   `GuardComesBack` and `AdmissionIsBounded` that is not about fairness.

As modules are added, the runs stay few: what two runs of a module ask is merged
where their bounds allow it, and a disagreement with the documents that the text of
section 3 tells as well gives up its run.

## 6. Not modelled

The engine's DOM, clipboard and packer helpers, the choice of a model and the attaching of
files (one refusal or none in `EngineRun`), `paste`, TOML reading, argument parsing, token
comparison, prompt rendering, the wording of briefs and JSON shapes are input/output
without shared state. `tools.parse_reply` is a pure function of one reply; its verdict is in
`Serve`. A person who moves the page back to the home page of a chat site is not in
`EngineRun` (a person goes to a chat or closes the page). Windows branches (msvcrt locks, job
objects) are left out: the models state the POSIX behaviour. Process ids are not reused
in `ProcRun`. In `Drive` a gate's run is one look at the files. In `Review` the engine of a harvest
or a followup ends by itself; what can keep it is in `ProcRun`.
