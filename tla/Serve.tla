--------------------------------- MODULE Serve ---------------------------------
(***************************************************************************)
(* src/lane/serve.py: `lane serve`, one process answering HTTP requests    *)
(* through the one browser, and the other lane processes of the machine    *)
(* that want the same browser.                                             *)
(*                                                                         *)
(* A connection is served by a handler thread out of a bounded pool.  A    *)
(* completion request takes the server's `guard` (a threading.Lock), and   *)
(* its runner then takes the machine-wide browser lock, the abstract Mutex *)
(* that KernelLock implements, and runs one engine process under it.  A    *)
(* plain request calls the runner in its handler thread, a stream starts a *)
(* worker thread and sends heartbeats meanwhile.  Clients leave whenever   *)
(* they please, and the admission timer may cut a connection off.          *)
(***************************************************************************)
EXTENDS FiniteSets, Naturals

CONSTANTS Clients,       \* connections, each carrying one request at a time
          Streams,       \* those that ask for "stream": true
          Chatty,        \* those that send bytes beyond the request body
          Others,        \* other lane processes that drive the browser
          OtherRuns,     \* bound on the runs of each of them
          MaxHandlers,   \* MAX_CONCURRENT_HANDLERS
          ThreadsMayFail,\* threading may fail to start a thread
          LanesMayDie,   \* lane processes may exit with their engine running
          Nobody

ASSUME ServeAssumption == /\ Streams \subseteq Clients
                          /\ Chatty \subseteq Clients
                          /\ Clients \cap Others = {}
                          /\ Nobody \notin Clients
                          /\ OtherRuns \in Nat
                          /\ MaxHandlers \in Nat \ {0}
                          /\ ThreadsMayFail \in BOOLEAN
                          /\ LanesMayDie \in BOOLEAN

VARIABLES pc,        \* per client, where its handler thread is
          client,    \* "here", or "gone" once the peer left or was shut down
          timer,     \* the admission timer: "off", "armed" or "firing"
          departed,  \* history: the client left before its request had the guard
          reply,     \* what the client has been sent
          runner,    \* the call of run_engine made for the request
          guard,     \* who holds the server's threading.Lock
          slots,     \* free permits of the handler pool
          inside,    \* who holds the machine-wide browser lock
          engines,   \* owners of the engine processes now running
          other,     \* per other lane process, where it is
          runs,      \* per other lane process, the runs it started
          up         \* the server process exists

handlers == <<pc, client, timer, departed, reply>>
world    == <<other, runs>>
vars == <<handlers, runner, guard, slots, inside, engines, world, up>>

Browser == INSTANCE Mutex WITH Procs <- Clients \cup Others

Labels == {"away", "reading", "opening", "queued", "granted", "running",
           "abandoned", "replying", "replied", "leaving", "dead"}

Init == /\ pc = [r \in Clients |-> "away"]
        /\ client = [r \in Clients |-> "gone"]
        /\ timer = [r \in Clients |-> "off"]
        /\ departed = [r \in Clients |-> "no"]
        /\ reply = [r \in Clients |-> "none"]
        /\ runner = [r \in Clients |-> "none"]
        /\ guard = Nobody
        /\ slots = MaxHandlers
        /\ Browser!Init
        /\ engines = {}
        /\ other = [o \in Others |-> "idle"]
        /\ runs = [o \in Others |-> 0]
        /\ up = TRUE

Set(f, r, v) == [f EXCEPT ![r] = v]
Goto(r, label) == pc' = Set(pc, r, label)

\* A write reaches a client that is there; to one that left, it may still be
\* buffered by the kernel or fail with BrokenPipeError or ConnectionResetError.
WriteMayFail(r) == client[r] = "gone"

\* _client_gone: the socket is readable and a peek returns nothing, which it
\* does not while unread bytes are in front of the end of file.
SeenGone(r) == client[r] = "gone" /\ r \notin Chatty

RunnerActive(r) == runner[r] \in {"waiting", "driving", "unlocking"}

RunnerOver(r) == runner[r] \in {"answered", "failed"}

-----------------------------------------------------------------------------
(* The pool and admission.                                                 *)

\* process_request: a free slot becomes a handler thread with its timer armed.
Connect(r) == /\ up /\ pc[r] = "away"
              /\ slots > 0
              /\ slots' = slots - 1
              /\ Goto(r, "reading")
              /\ client' = Set(client, r, "here")
              /\ timer' = Set(timer, r, "armed")
              /\ reply' = Set(reply, r, "none")
              /\ UNCHANGED <<departed, runner, guard, inside, engines, world, up>>

\* Defect: the 503 path gives back a slot it never had.
TurnAwayReleases(r) == /\ up /\ pc[r] = "away"
                       /\ slots = 0
                       /\ reply' = Set(reply, r, "refused")
                       /\ slots' = slots + 1
                       /\ UNCHANGED <<pc, client, timer, departed, runner, guard, inside,
                                      engines, world, up>>

\* No slot: 503 and the connection is closed, without a thread.
TurnAway(r) == /\ up /\ pc[r] = "away"
               /\ slots = 0
               /\ reply' = Set(reply, r, "refused")
               /\ UNCHANGED <<pc, client, timer, departed, runner, guard, slots, inside,
                              engines, world, up>>

\* The thread cannot be started: the slot was taken and nobody will free it.
ConnectFails(r) == /\ up /\ pc[r] = "away" /\ ThreadsMayFail
                   /\ slots > 0
                   /\ slots' = slots - 1
                   /\ UNCHANGED <<handlers, runner, guard, inside, engines, world, up>>

\* Cancelling comes too late for a timer that has begun to fire.
Cancelled(r) == IF timer[r] = "armed" THEN "off" ELSE timer[r]

\* A well-formed completion request: do_POST up to the choice of the path.
Admit(r) == /\ up /\ pc[r] = "reading"
            /\ Goto(r, IF r \in Streams THEN "opening" ELSE "queued")
            /\ timer' = Set(timer, r, Cancelled(r))
            /\ reply' = Set(reply, r, "owed")
            /\ UNCHANGED <<client, departed, runner, guard, slots, inside, engines, world, up>>

\* Whatever is answered without the engine: the model list, and every request
\* turned down for its route, token, length, body or content.
AnswerAtOnce(r) == /\ up /\ pc[r] = "reading"
                   /\ client[r] = "here"
                   /\ Goto(r, "replied")
                   /\ timer' = Set(timer, r, Cancelled(r))
                   /\ reply' = Set(reply, r, "refused")
                   /\ UNCHANGED <<client, departed, runner, guard, slots, inside, engines, world, up>>

\* The read ends short: the client left, was cut off or let the socket's own
\* timeout pass (with a 408 if it had got as far as a request line).
GiveUpReading(r) == /\ up /\ pc[r] = "reading"
                    /\ Goto(r, "leaving")
                    /\ timer' = Set(timer, r, Cancelled(r))
                    /\ UNCHANGED <<client, departed, reply, runner, guard, slots, inside,
                                   engines, world, up>>

\* REQUEST_TIMEOUT_SECONDS after the request began.
TimerElapses(r) == /\ up /\ timer[r] = "armed"
                   /\ timer' = Set(timer, r, "firing")
                   /\ UNCHANGED <<pc, client, departed, reply, runner, guard, slots, inside,
                                  engines, world, up>>

\* What a departure now is worth remembering as: from behind another request,
\* otherwise before the guard, or from a request that has had it.
Departure(r) == IF pc[r] = "queued" /\ guard # Nobody THEN "behind"
                ELSE IF pc[r] \in {"reading", "opening", "queued"} THEN "early"
                ELSE "no"

\* The connection ends under the handler's feet.
CutOff(r) == /\ client' = Set(client, r, "gone")
             /\ departed' = IF client[r] = "here" THEN Set(departed, r, Departure(r))
                                                 ELSE departed

\* Defect: note the expiry and forget to shut the connection down.
ExpireSilently(r) == /\ up /\ timer[r] = "firing"
                     /\ timer' = Set(timer, r, "off")
                     /\ UNCHANGED <<pc, client, departed, reply, runner, guard, slots, inside,
                                    engines, world, up>>

\* _expire_admission shuts the socket down under the handler's feet.
Expire(r) == /\ up /\ timer[r] = "firing"
             /\ timer' = Set(timer, r, "off")
             /\ CutOff(r)
             /\ UNCHANGED <<pc, reply, runner, guard, slots, inside, engines, world, up>>

HangUp(r) == /\ up /\ pc[r] # "away" /\ client[r] = "here"
             /\ CutOff(r)
             /\ UNCHANGED <<pc, timer, reply, runner, guard, slots, inside, engines, world, up>>

\* On a keep-alive connection the thread turns to the next request at once,
\* whether or not the client ever sends one.
KeepOpen(r) == /\ up /\ pc[r] = "replied"
               /\ Goto(r, "reading")
               /\ timer' = Set(timer, r, IF timer[r] = "firing" THEN "firing" ELSE "armed")
               /\ departed' = Set(departed, r, "no")
               /\ reply' = Set(reply, r, "none")
               /\ runner' = Set(runner, r, "none")
               /\ UNCHANGED <<client, guard, slots, inside, engines, world, up>>

Finish(r) == /\ up /\ pc[r] = "replied"
             /\ Goto(r, "leaving")
             /\ UNCHANGED <<client, timer, departed, reply, runner, guard, slots, inside,
                            engines, world, up>>

\* The socket is closed, a timer still firing finds nothing to shut down, and
\* the connection may be made again.
Disconnect(r) == /\ Goto(r, "away")
                 /\ client' = Set(client, r, "gone")
                 /\ timer' = Set(timer, r, "off")
                 /\ departed' = Set(departed, r, "no")
                 /\ reply' = Set(reply, r, "none")
                 /\ runner' = Set(runner, r, "none")
                 /\ UNCHANGED <<guard, inside, engines, world, up>>

\* Defect: only a handler that answered gives its slot back.
ReleaseSlotAfterReply(r) ==
    /\ up /\ pc[r] = "leaving"
    /\ slots' = IF reply[r] \in {"answer", "error", "refused"} THEN slots + 1 ELSE slots
    /\ Disconnect(r)

\* The finally clause of process_request_thread.
ReleaseSlot(r) == /\ up /\ pc[r] = "leaving"
                  /\ slots' = slots + 1
                  /\ Disconnect(r)

-----------------------------------------------------------------------------
(* Queueing for the browser within the server.                             *)

\* Headers and the first heartbeat of a stream.
OpenStream(r) == /\ up /\ pc[r] = "opening"
                 /\ \/ /\ reply' = Set(reply, r, "opened")
                       /\ Goto(r, "queued")
                    \/ /\ WriteMayFail(r)
                       /\ Goto(r, "leaving")
                       /\ UNCHANGED reply
                 /\ UNCHANGED <<client, timer, departed, runner, guard, slots, inside, engines,
                                world, up>>

TakeGuard(r) == /\ up /\ pc[r] = "queued"
                /\ guard = Nobody
                /\ guard' = r
                /\ Goto(r, "granted")
                /\ UNCHANGED <<client, timer, departed, reply, runner, slots, inside, engines,
                               world, up>>

\* guard.acquire timed out behind another request: a heartbeat that fails, or
\* a look at the socket, ends the request before it cost anything.
LeaveQueue(r) == /\ up /\ pc[r] = "queued"
                 /\ guard # Nobody
                 /\ IF r \in Streams THEN WriteMayFail(r) ELSE SeenGone(r)
                 /\ Goto(r, "leaving")
                 /\ UNCHANGED <<client, timer, departed, reply, runner, guard, slots, inside,
                                engines, world, up>>

StartRunner(r) == /\ Goto(r, "running")
                  /\ runner' = Set(runner, r, "waiting")
                  /\ UNCHANGED <<client, timer, departed, reply, guard, slots, inside, engines,
                                 world, up>>

\* Defect: a plain request that got the guard does not look again.
StartPlainUnchecked(r) == /\ up /\ pc[r] = "granted" /\ r \notin Streams
                          /\ StartRunner(r)

\* The last lines of _acquire for a plain request: look once more, then run.
StartPlain(r) == /\ up /\ pc[r] = "granted" /\ r \notin Streams
                 /\ ~SeenGone(r)
                 /\ StartRunner(r)

GiveGuardBack(r) == /\ up /\ pc[r] = "granted" /\ r \notin Streams
                    /\ SeenGone(r)
                    /\ guard' = Nobody
                    /\ Goto(r, "leaving")
                    /\ UNCHANGED <<client, timer, departed, reply, runner, slots, inside,
                                   engines, world, up>>

\* A stream starts its worker without another look at the client.
StartWorker(r) == /\ up /\ pc[r] = "granted" /\ r \in Streams
                  /\ StartRunner(r)

\* worker.start() stands before the try whose finally releases the guard.
StartWorkerFails(r) == /\ up /\ pc[r] = "granted" /\ r \in Streams /\ ThreadsMayFail
                       /\ Goto(r, "leaving")
                       /\ UNCHANGED <<client, timer, departed, reply, runner, guard, slots,
                                      inside, engines, world, up>>

-----------------------------------------------------------------------------
(* run_engine.                                                             *)

\* The browser lock is granted and the engine process started.
TakeBrowser(r) == /\ up /\ runner[r] = "waiting"
                  /\ Browser!Enter(r)
                  /\ runner' = Set(runner, r, "driving")
                  /\ engines' = engines \cup {r}
                  /\ UNCHANGED <<handlers, guard, slots, world, up>>

\* The lock cannot be opened: an OSError becomes a ServeError.
LockFails(r) == /\ up /\ runner[r] = "waiting"
                /\ runner' = Set(runner, r, "failed")
                /\ UNCHANGED <<handlers, guard, slots, inside, engines, world, up>>

\* Defect: the with block is left when the engine was started, not when it ended.
LetBrowserGoEarly(r) == /\ up /\ runner[r] = "driving"
                        /\ Browser!Leave(r)
                        /\ runner' = Set(runner, r, "unlocking")
                        /\ UNCHANGED <<handlers, guard, slots, engines, world, up>>

\* proc.run comes back when the engine and its group are gone: it exited, or
\* its timeout stopped it (ProcRun).
EngineEnds(r) == /\ up /\ runner[r] = "driving"
                 /\ engines' = engines \ {r}
                 /\ runner' = Set(runner, r, "unlocking")
                 /\ UNCHANGED <<handlers, guard, slots, inside, world, up>>

\* The lock is released, then the result is judged: a non-zero exit, an empty
\* answer, a refusal page and a timeout are failures.
LetBrowserGo(r) == /\ up /\ runner[r] = "unlocking"
                   /\ Browser!Leave(r)
                   /\ \E result \in {"answered", "failed"} :
                         runner' = Set(runner, r, result)
                   /\ UNCHANGED <<handlers, guard, slots, engines, world, up>>

-----------------------------------------------------------------------------
(* Waiting for the runner and replying.                                    *)

\* Defect: the hang-up ends the handler, and the finally clause the guard.
AbandonAtOnce(r) == /\ up /\ pc[r] = "running" /\ r \in Streams
                    /\ RunnerActive(r) /\ WriteMayFail(r)
                    /\ guard' = Nobody
                    /\ Goto(r, "leaving")
                    /\ UNCHANGED <<client, timer, departed, reply, runner, slots, inside,
                                   engines, world, up>>

\* A heartbeat fails while the worker is alive: the handler joins the worker.
Abandon(r) == /\ up /\ pc[r] = "running" /\ r \in Streams
              /\ RunnerActive(r) /\ WriteMayFail(r)
              /\ Goto(r, "abandoned")
              /\ UNCHANGED <<client, timer, departed, reply, runner, guard, slots, inside,
                             engines, world, up>>

\* Defect: nobody gives the guard back once the heartbeat failed.
RunnerReturnsToListener(r) ==
    /\ up /\ pc[r] = "running" /\ RunnerOver(r)
    /\ guard' = Nobody
    /\ Goto(r, "replying")
    /\ UNCHANGED <<client, timer, departed, reply, runner, slots, inside, engines, world, up>>

\* Defect: a runner that raised takes the guard with it.
RunnerReturnsAnswer(r) ==
    /\ up /\ pc[r] \in {"running", "abandoned"} /\ RunnerOver(r)
    /\ guard' = IF runner[r] = "answered" THEN Nobody ELSE guard
    /\ Goto(r, IF pc[r] = "running" THEN "replying" ELSE "leaving")
    /\ UNCHANGED <<client, timer, departed, reply, runner, slots, inside, engines, world, up>>

\* The runner returned or raised: the guard is free, whoever is still there.
RunnerReturns(r) ==
    /\ up /\ pc[r] \in {"running", "abandoned"} /\ RunnerOver(r)
    /\ guard' = Nobody
    /\ Goto(r, IF pc[r] = "running" THEN "replying" ELSE "leaving")
    /\ UNCHANGED <<client, timer, departed, reply, runner, slots, inside, engines, world, up>>

\* Defect: a failure ends the stream without its error frame and [DONE].
ReplyOnlyAnswers(r) ==
    /\ up /\ pc[r] = "replying"
    /\ Goto(r, IF r \in Streams THEN "leaving" ELSE "replied")
    /\ reply' = IF runner[r] = "answered" THEN Set(reply, r, "answer") ELSE reply
    /\ UNCHANGED <<client, timer, departed, runner, guard, slots, inside, engines, world, up>>

\* The answer, or an error when the runner failed or split_reply found a tool
\* call it cannot pass on.  A stream's connection is closed after [DONE].
Reply(r) ==
    /\ up /\ pc[r] = "replying"
    /\ \E result \in IF runner[r] = "answered" THEN {"answer", "error"} ELSE {"error"} :
          reply' = Set(reply, r, result)
    /\ Goto(r, IF r \in Streams \/ WriteMayFail(r) THEN "leaving" ELSE "replied")
    /\ UNCHANGED <<client, timer, departed, runner, guard, slots, inside, engines, world, up>>

-----------------------------------------------------------------------------
(* The rest of the machine.                                                *)

\* Another lane process takes the browser for a run.
OtherStarts(o) == /\ other[o] = "idle" /\ runs[o] < OtherRuns
                  /\ Browser!Enter(o)
                  /\ engines' = engines \cup {o}
                  /\ other' = Set(other, o, "driving")
                  /\ runs' = Set(runs, o, runs[o] + 1)
                  /\ UNCHANGED <<handlers, runner, guard, slots, up>>

OtherEngineEnds(o) == /\ other[o] = "driving"
                      /\ engines' = engines \ {o}
                      /\ other' = Set(other, o, "unlocking")
                      /\ UNCHANGED <<handlers, runner, guard, slots, inside, runs, up>>

OtherLeaves(o) == /\ other[o] = "unlocking"
                  /\ Browser!Leave(o)
                  /\ other' = Set(other, o, "idle")
                  /\ UNCHANGED <<handlers, runner, guard, slots, engines, runs, up>>

\* SIGKILL, or an interrupt where proc.run does not guard its child (ProcRun): the
\* kernel drops the lock; the engine is in a session of its own.
OtherDies(o) == /\ LanesMayDie /\ other[o] = "driving"
                /\ Browser!Leave(o)
                /\ other' = Set(other, o, "dead")
                /\ UNCHANGED <<handlers, runner, guard, slots, engines, runs, up>>

\* Ctrl-C, SIGTERM or SIGKILL: serve() returns from the main thread, every
\* handler and worker is a daemon thread and vanishes, the kernel closes the
\* lock, and an engine goes on in its own session.
ServerExits == /\ LanesMayDie /\ up
               /\ up' = FALSE
               /\ pc' = [r \in Clients |-> "dead"]
               /\ client' = [r \in Clients |-> "gone"]
               /\ timer' = [r \in Clients |-> "off"]
               /\ runner' = [r \in Clients |-> "none"]
               /\ guard' = Nobody
               /\ inside' = inside \ Clients
               /\ UNCHANGED <<departed, reply, slots, engines, world>>

\* The lane process that started engine e is gone.
Orphan(e) == IF e \in Clients THEN ~up ELSE other[e] = "dead"

\* Such an engine ends on its own.
OrphanEnds(e) == /\ e \in engines /\ Orphan(e)
                 /\ engines' = engines \ {e}
                 /\ UNCHANGED <<handlers, runner, guard, slots, inside, world, up>>

-----------------------------------------------------------------------------
\* Steps the server's threads take once they can.
HandlerStep(r) == \/ GiveUpReading(r) /\ client[r] = "gone"
                  \/ KeepOpen(r) \/ Finish(r) \/ ReleaseSlot(r)
                  \/ OpenStream(r) \/ TakeGuard(r) \/ LeaveQueue(r)
                  \/ StartPlain(r) \/ GiveGuardBack(r)
                  \/ StartWorker(r) \/ RunnerReturns(r) \/ Reply(r)

RunnerStep(r) == TakeBrowser(r) \/ EngineEnds(r) \/ LetBrowserGo(r)

TimerStep(r) == TimerElapses(r) \/ Expire(r)

\* What clients, the network and failures do, and nothing obliges them to do.
ClientStep(r) == \/ Connect(r) \/ TurnAway(r) \/ ConnectFails(r)
                 \/ Admit(r) \/ AnswerAtOnce(r) \/ GiveUpReading(r)
                 \/ HangUp(r) \/ Abandon(r)
                 \/ LockFails(r) \/ StartWorkerFails(r)

OtherStep(o) == OtherEngineEnds(o) \/ OtherLeaves(o)

Next == \/ \E r \in Clients : \/ HandlerStep(r) \/ RunnerStep(r)
                              \/ TimerStep(r) \/ ClientStep(r)
        \/ \E o \in Others : OtherStep(o) \/ OtherStarts(o) \/ OtherDies(o)
        \/ ServerExits
        \/ \E e \in Clients \cup Others : OrphanEnds(e)

Spec == Init /\ [][Next]_vars

\* Threads run, timers fire, an engine ends (proc.run has a timeout).  Neither
\* lock is a queue: the guard and the browser lock are only weakly fair.
Fairness == /\ \A r \in Clients : /\ WF_vars(HandlerStep(r))
                                  /\ WF_vars(RunnerStep(r))
                                  /\ WF_vars(TimerStep(r))
            /\ \A o \in Others : WF_vars(OtherStep(o))

FairSpec == Spec /\ Fairness

-----------------------------------------------------------------------------
\* Every variable in its set; in particular the pool never has more free slots
\* than it was made with.
TypeOK == /\ pc \in [Clients -> Labels]
          /\ client \in [Clients -> {"here", "gone"}]
          /\ timer \in [Clients -> {"off", "armed", "firing"}]
          /\ departed \in [Clients -> {"no", "early", "behind"}]
          /\ reply \in [Clients -> {"none", "owed", "opened", "answer", "error", "refused"}]
          /\ runner \in [Clients -> {"none", "waiting", "driving", "unlocking",
                                     "answered", "failed"}]
          /\ guard \in Clients \cup {Nobody}
          /\ slots \in 0..MaxHandlers
          /\ inside \subseteq Clients \cup Others
          /\ engines \subseteq Clients \cup Others
          /\ other \in [Others -> {"idle", "driving", "unlocking", "dead"}]
          /\ runs \in [Others -> 0..OtherRuns]
          /\ up \in BOOLEAN

\* While no lane process dies with its engine running, at most one engine
\* drives the browser, and its owner holds the machine-wide lock.
SingleFlight == engines \subseteq inside /\ \A a, b \in inside : a = b

\* From the start of a runner to its end its request holds the guard, also
\* when the client hung up and nobody waits for the answer.
GuardCoversWork == \A r \in Clients : RunnerActive(r) => guard = r

\* The guard is never held by a request whose handler has moved on.
GuardHeldByLiveHandler ==
    guard # Nobody => pc[guard] \in {"granted", "running", "abandoned"}

\* A plain request whose client left before it had the guard never reaches the
\* engine, however the departure and the grant are ordered.
DepartedPlainSpendsNothing ==
    \A r \in Clients \ (Streams \cup Chatty) :
        departed[r] \in {"early", "behind"} => runner[r] = "none"

\* Every slot that is not free belongs to one live handler thread.
SlotsAccountedFor ==
    up => slots + Cardinality({r \in Clients : pc[r] # "away"}) = MaxHandlers

\* A client that stays is never dropped between admission and a final reply.
NobodyIsDropped ==
    \A r \in Clients : pc[r] = "leaving" /\ client[r] = "here"
                          => reply[r] \notin {"owed", "opened"}

\* Also when the server exits or another lane process dies in the middle of a
\* run: an engine that works without the browser lock has lost its lane process,
\* and no server that is up and no living process shares the browser by itself.
OnlyOrphansOverlap == \A e \in engines : Orphan(e) \/ e \in inside

\* While its handler is at work on the request the guard comes back, whatever
\* becomes of the client, of the runner and of the other lane processes.  Only
\* a handler that left it behind (StartWorkerFails) keeps it for good.
GuardComesBack ==
    \A r \in Clients :
        guard = r ~> guard # r \/ pc[r] \notin {"granted", "running", "abandoned"}

\* A client that sends nothing, or too slowly, does not keep its thread.
AdmissionIsBounded == \A r \in Clients : pc[r] = "reading" ~> pc[r] # "reading"

\* "A request that queues behind another one and then loses its client must
\* not wake up later and spend a Pro message for nobody" (_stream's comment).
DepartedStreamSpendsNothing ==
    \A r \in Streams : departed[r] = "behind" => runner[r] \notin {"driving", "unlocking"}
=============================================================================
