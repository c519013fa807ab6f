------------------------------ MODULE ServeProofs ------------------------------
(***************************************************************************)
(* Theorems about Serve for every set of connections and of other lane     *)
(* processes, every size of the pool, and (unless a theorem says so) also  *)
(* when threads fail to start and lane processes die.                      *)
(*                                                                         *)
(* The properties are not inductive.  Places says where a request with the *)
(* guard or with a runner can be, which is what makes the guard cover the  *)
(* work; Departures remembers that a client that left stays away for the   *)
(* rest of its request; Holders ties the browser lock and the engines to   *)
(* whoever is driving; Accounts counts the slots, and is also why the pool *)
(* never has more of them than it was made with.                           *)
(***************************************************************************)
EXTENDS Serve, FiniteSetTheorems, TLAPS

\* A request between the guard's grant and its release holds it, and nobody else
\* unless a worker could not be started; a runner is at work only under such a
\* request and exists only for one that had it.
Places ==
  \A r \in Clients :
    /\ pc[r] \in {"granted", "running", "abandoned"} => guard = r
    /\ ~ThreadsMayFail /\ guard = r => pc[r] \in {"granted", "running", "abandoned"}
    /\ RunnerActive(r) => pc[r] \in {"running", "abandoned"}
    /\ pc[r] \in {"away", "reading", "opening", "queued", "granted"} => runner[r] = "none"

\* A departure is remembered for as long as the request it belongs to lasts.
Departures ==
  \A r \in Clients : departed[r] # "no" => client[r] = "gone" /\ pc[r] # "away"

\* The browser lock has one holder at most, who is the one driving.
Holders ==
  /\ \A a, b \in inside : a = b
  /\ \A r \in Clients : runner[r] \in {"driving", "unlocking"} => r \in inside
  /\ \A o \in Others : other[o] \in {"driving", "unlocking"} => o \in inside

\* No engine outlives the step that waits for it, unless its lane process dies.
Engines ==
  /\ \A r \in Clients : r \in engines /\ up => runner[r] = "driving"
  /\ \A o \in Others : o \in engines => other[o] \in {"driving", "dead"}
  /\ ~LanesMayDie => up /\ \A o \in Others : other[o] # "dead"

Busy == {r \in Clients : pc[r] # "away"}

\* The free slots and the handlers at work are together no more than the pool
\* has; they are as many unless a thread failed to start.
Accounts ==
  up => /\ IsFiniteSet(Busy)
        /\ slots + Cardinality(Busy) =< MaxHandlers
        /\ ~ThreadsMayFail => slots + Cardinality(Busy) = MaxHandlers

\* A handler that writes off its client knows that it left, and one that is done
\* with a request has sent the last word of it.  The one that owes a reply to a
\* client still there is a stream without its worker, and it keeps the guard.
Replies ==
  \A r \in Clients :
    /\ pc[r] = "reading" => reply[r] = "none"
    /\ pc[r] = "abandoned" => client[r] = "gone"
    /\ pc[r] = "replied" => reply[r] \in {"answer", "error", "refused"}
    /\ pc[r] = "leaving" /\ client[r] = "here" /\ reply[r] \in {"owed", "opened"}
         => ThreadsMayFail /\ r \in Streams /\ guard = r

IInv == /\ TypeOK /\ Places /\ Departures /\ DepartedPlainSpendsNothing
        /\ Holders /\ Engines /\ Accounts /\ Replies

\* The initial state satisfies the inductive invariant.
LEMMA InitInv == Init => IInv
<1> SUFFICES ASSUME Init PROVE IInv
  OBVIOUS
<1> USE ServeAssumption DEF Init
<1>1. TypeOK
  BY DEF TypeOK, Labels, Browser!Init
<1>2. Places /\ Departures /\ DepartedPlainSpendsNothing /\ Holders /\ Engines /\ Replies
  BY DEF Places, RunnerActive, Departures, DepartedPlainSpendsNothing, Holders,
     Engines, Replies, Browser!Init
<1>3. Accounts
  <2>1. Busy = {}
    BY DEF Busy
  <2>2. QED BY <2>1, FS_EmptySet DEF Accounts
<1>4. QED BY <1>1, <1>2, <1>3 DEF IInv

\* Every step is one of a connection, of another process or of the world.
ClientAct(r) ==
  \/ Connect(r) \/ TurnAway(r) \/ ConnectFails(r) \/ Admit(r) \/ AnswerAtOnce(r)
  \/ GiveUpReading(r) \/ TimerElapses(r) \/ Expire(r) \/ HangUp(r) \/ KeepOpen(r)
  \/ Finish(r) \/ ReleaseSlot(r) \/ OpenStream(r) \/ TakeGuard(r) \/ LeaveQueue(r)
  \/ StartPlain(r) \/ GiveGuardBack(r) \/ StartWorker(r) \/ StartWorkerFails(r) \/ TakeBrowser(r)
  \/ LockFails(r) \/ EngineEnds(r) \/ LetBrowserGo(r) \/ Abandon(r) \/ RunnerReturns(r)
  \/ Reply(r)

OtherAct(o) == OtherStarts(o) \/ OtherEngineEnds(o) \/ OtherLeaves(o) \/ OtherDies(o)

LEMMA Cases ==
  ASSUME Next
  PROVE  \/ \E r \in Clients : ClientAct(r)
         \/ \E o \in Others : OtherAct(o)
         \/ ServerExits
         \/ \E e \in Clients \cup Others : OrphanEnds(e)
  BY DEF Next, HandlerStep, RunnerStep, TimerStep, ClientStep, OtherStep,
     ClientAct, OtherAct

\* A connection that leaves gives its slot back to a pool that has room for it.
LEMMA RoomForSlot ==
  ASSUME TypeOK, Accounts, NEW r \in Clients, up, pc[r] # "away"
  PROVE  slots + 1 \in 0..MaxHandlers
<1>1. IsFiniteSet(Busy) /\ Busy # {}
  BY DEF Accounts, Busy
<1>2. Cardinality(Busy) \in Nat /\ Cardinality(Busy) # 0
  BY <1>1, FS_CardinalityType, FS_EmptySet
<1>3. QED BY <1>2, ServeAssumption DEF Accounts, TypeOK

\* Every step keeps the type invariant.
LEMMA TypeStep == TypeOK /\ Accounts /\ [Next]_vars => TypeOK'
<1> SUFFICES ASSUME TypeOK, Accounts, [Next]_vars PROVE TypeOK'
  OBVIOUS
<1> USE ServeAssumption DEF TypeOK, Labels, Set, Goto
<1>1. ASSUME NEW r \in Clients, ClientAct(r) PROVE TypeOK'
  <2>1. CASE Connect(r)
    BY <2>1 DEF Connect, handlers, world
  <2>2. CASE TurnAway(r)
    BY <2>2 DEF TurnAway, handlers, world
  <2>3. CASE ConnectFails(r)
    BY <2>3 DEF ConnectFails, handlers, world
  <2>4. CASE Admit(r)
    BY <2>4 DEF Admit, Cancelled, handlers, world
  <2>5. CASE AnswerAtOnce(r)
    BY <2>5 DEF AnswerAtOnce, Cancelled, handlers, world
  <2>6. CASE GiveUpReading(r)
    BY <2>6 DEF GiveUpReading, Cancelled, handlers, world
  <2>7. CASE TimerElapses(r)
    BY <2>7 DEF TimerElapses, handlers, world
  <2>8. CASE Expire(r)
    BY <2>8 DEF Expire, CutOff, Departure, handlers, world
  <2>9. CASE HangUp(r)
    BY <2>9 DEF HangUp, CutOff, Departure, handlers, world
  <2>10. CASE KeepOpen(r)
    BY <2>10 DEF KeepOpen, handlers, world
  <2>11. CASE Finish(r)
    BY <2>11 DEF Finish, handlers, world
  <2>12. CASE ReleaseSlot(r)
    BY <2>12, RoomForSlot DEF ReleaseSlot, Disconnect, handlers, world
  <2>13. CASE OpenStream(r)
    BY <2>13 DEF OpenStream, handlers, world
  <2>14. CASE TakeGuard(r)
    BY <2>14 DEF TakeGuard, handlers, world
  <2>15. CASE LeaveQueue(r)
    BY <2>15 DEF LeaveQueue, handlers, world
  <2>16. CASE StartPlain(r)
    BY <2>16 DEF StartPlain, StartRunner, handlers, world
  <2>17. CASE GiveGuardBack(r)
    BY <2>17 DEF GiveGuardBack, handlers, world
  <2>18. CASE StartWorker(r)
    BY <2>18 DEF StartWorker, StartRunner, handlers, world
  <2>19. CASE StartWorkerFails(r)
    BY <2>19 DEF StartWorkerFails, handlers, world
  <2>20. CASE TakeBrowser(r)
    BY <2>20 DEF TakeBrowser, Browser!Enter, handlers, world
  <2>21. CASE LockFails(r)
    BY <2>21 DEF LockFails, handlers, world
  <2>22. CASE EngineEnds(r)
    BY <2>22 DEF EngineEnds, handlers, world
  <2>23. CASE LetBrowserGo(r)
    BY <2>23 DEF LetBrowserGo, Browser!Leave, handlers, world
  <2>24. CASE Abandon(r)
    BY <2>24 DEF Abandon, handlers, world
  <2>25. CASE RunnerReturns(r)
    BY <2>25 DEF RunnerReturns, handlers, world
  <2>26. CASE Reply(r)
    BY <2>26 DEF Reply, handlers, world
  <2>27. QED
    BY <1>1, <2>1, <2>2, <2>3, <2>4, <2>5, <2>6, <2>7, <2>8, <2>9,
       <2>10, <2>11, <2>12, <2>13, <2>14, <2>15, <2>16, <2>17, <2>18, <2>19,
       <2>20, <2>21, <2>22, <2>23, <2>24, <2>25, <2>26 DEF ClientAct
<1>2. ASSUME NEW o \in Others, OtherAct(o) PROVE TypeOK'
  <2>1. CASE OtherStarts(o)
    BY <2>1 DEF OtherStarts, Browser!Enter, handlers, world
  <2>2. CASE OtherEngineEnds(o)
    BY <2>2 DEF OtherEngineEnds, handlers, world
  <2>3. CASE OtherLeaves(o)
    BY <2>3 DEF OtherLeaves, Browser!Leave, handlers, world
  <2>4. CASE OtherDies(o)
    BY <2>4 DEF OtherDies, Browser!Leave, handlers, world
  <2>5. QED BY <1>2, <2>1, <2>2, <2>3, <2>4 DEF OtherAct
<1>3. CASE ServerExits
  BY <1>3 DEF ServerExits, world
<1>4. ASSUME NEW e \in Clients \cup Others, OrphanEnds(e) PROVE TypeOK'
  BY <1>4 DEF OrphanEnds, handlers, world
<1>5. CASE UNCHANGED vars
  BY <1>5 DEF vars, handlers, world
<1>6. QED BY <1>1, <1>2, <1>3, <1>4, <1>5, Cases

\* What other processes and orphaned engines do is nothing to the handlers.
LEMMA WorldOnly ==
  ASSUME (\E o \in Others : OtherAct(o)) \/ (\E e \in Clients \cup Others : OrphanEnds(e))
  PROVE  UNCHANGED <<pc, client, departed, reply, runner, guard, slots, up>>
<1>1. ASSUME NEW o \in Others, OtherStarts(o)
      PROVE  UNCHANGED <<pc, client, departed, reply, runner, guard, slots, up>>
  BY <1>1 DEF OtherStarts, handlers
<1>2. ASSUME NEW o \in Others, OtherEngineEnds(o)
      PROVE  UNCHANGED <<pc, client, departed, reply, runner, guard, slots, up>>
  BY <1>2 DEF OtherEngineEnds, handlers
<1>3. ASSUME NEW o \in Others, OtherLeaves(o)
      PROVE  UNCHANGED <<pc, client, departed, reply, runner, guard, slots, up>>
  BY <1>3 DEF OtherLeaves, handlers
<1>4. ASSUME NEW o \in Others, OtherDies(o)
      PROVE  UNCHANGED <<pc, client, departed, reply, runner, guard, slots, up>>
  BY <1>4 DEF OtherDies, handlers
<1>5. ASSUME NEW e \in Clients \cup Others, OrphanEnds(e)
      PROVE  UNCHANGED <<pc, client, departed, reply, runner, guard, slots, up>>
  BY <1>5 DEF OrphanEnds, handlers
<1>6. QED BY <1>1, <1>2, <1>3, <1>4, <1>5 DEF OtherAct

\* Every step keeps the guard with the request at work, and runners with it.
LEMMA PlacesStep == TypeOK /\ Places /\ [Next]_vars => Places'
<1> SUFFICES ASSUME TypeOK, Places, [Next]_vars PROVE Places'
  OBVIOUS
<1> USE ServeAssumption DEF TypeOK, Places, RunnerActive, Set, Goto
<1>1. ASSUME NEW r \in Clients, ClientAct(r) PROVE Places'
  <2>1. CASE Connect(r)
    BY <2>1 DEF Connect
  <2>2. CASE Admit(r)
    BY <2>2 DEF Admit, Cancelled
  <2>3. CASE AnswerAtOnce(r)
    BY <2>3 DEF AnswerAtOnce, Cancelled
  <2>4. CASE GiveUpReading(r)
    BY <2>4 DEF GiveUpReading, Cancelled
  <2>5. CASE KeepOpen(r)
    BY <2>5 DEF KeepOpen
  <2>6. CASE Finish(r)
    BY <2>6 DEF Finish
  <2>7. CASE ReleaseSlot(r)
    BY <2>7 DEF ReleaseSlot, Disconnect
  <2>8. CASE OpenStream(r)
    BY <2>8 DEF OpenStream
  <2>9. CASE TakeGuard(r)
    BY <2>9 DEF TakeGuard
  <2>10. CASE LeaveQueue(r)
    BY <2>10 DEF LeaveQueue
  <2>11. CASE StartPlain(r)
    BY <2>11 DEF StartPlain, StartRunner
  <2>12. CASE GiveGuardBack(r)
    BY <2>12 DEF GiveGuardBack
  <2>13. CASE StartWorker(r)
    BY <2>13 DEF StartWorker, StartRunner
  <2>14. CASE StartWorkerFails(r)
    BY <2>14 DEF StartWorkerFails
  <2>15. CASE TakeBrowser(r)
    BY <2>15 DEF TakeBrowser, Browser!Enter, handlers
  <2>16. CASE LockFails(r)
    BY <2>16 DEF LockFails, handlers
  <2>17. CASE EngineEnds(r)
    BY <2>17 DEF EngineEnds, handlers
  <2>18. CASE LetBrowserGo(r)
    BY <2>18 DEF LetBrowserGo, Browser!Leave, handlers
  <2>19. CASE Abandon(r)
    BY <2>19 DEF Abandon
  <2>20. CASE RunnerReturns(r)
    BY <2>20 DEF RunnerReturns, RunnerOver
  <2>21. CASE Reply(r)
    BY <2>21 DEF Reply
  <2>22. CASE TurnAway(r) \/ ConnectFails(r) \/ TimerElapses(r) \/ Expire(r) \/ HangUp(r)
    <3>1. UNCHANGED <<pc, runner, guard>>
      BY <2>22 DEF TurnAway, ConnectFails, TimerElapses, Expire, HangUp, handlers
    <3>2. QED BY <3>1
  <2>23. QED
    BY <1>1, <2>1, <2>2, <2>3, <2>4, <2>5, <2>6, <2>7, <2>8, <2>9,
       <2>10, <2>11, <2>12, <2>13, <2>14, <2>15, <2>16, <2>17, <2>18, <2>19,
       <2>20, <2>21, <2>22 DEF ClientAct
<1>2. CASE ServerExits
  BY <1>2 DEF ServerExits
<1>3. CASE UNCHANGED <<pc, runner, guard>>
  BY <1>3
<1>4. QED BY <1>1, <1>2, <1>3, Cases, WorldOnly DEF vars, handlers

\* Every step keeps a departure in mind, and a plain request whose client left
\* before its turn from the engine.
LEMMA DeparturesStep ==
  TypeOK /\ Places /\ Departures /\ DepartedPlainSpendsNothing /\ [Next]_vars
    => Departures' /\ DepartedPlainSpendsNothing'
<1> DEFINE Goal == Departures /\ DepartedPlainSpendsNothing
<1> SUFFICES ASSUME TypeOK, Places, Goal, [Next]_vars PROVE Goal'
  OBVIOUS
<1> USE ServeAssumption DEF TypeOK, Departures, DepartedPlainSpendsNothing, Set, Goto
<1>1. ASSUME NEW r \in Clients, ClientAct(r) PROVE Goal'
  <2>1. CASE Connect(r)
    BY <2>1 DEF Connect, Places
  <2>2. CASE Expire(r)
    BY <2>2 DEF Expire, CutOff, Departure, Places
  <2>3. CASE HangUp(r)
    BY <2>3 DEF HangUp, CutOff, Departure, Places
  <2>4. CASE KeepOpen(r)
    BY <2>4 DEF KeepOpen
  <2>5. CASE ReleaseSlot(r)
    BY <2>5 DEF ReleaseSlot, Disconnect
  <2>6. CASE StartPlain(r)
    BY <2>6 DEF StartPlain, StartRunner, SeenGone
  <2>7. CASE StartWorker(r)
    BY <2>7 DEF StartWorker, StartRunner
  <2>8. CASE TakeBrowser(r)
    BY <2>8 DEF TakeBrowser, Browser!Enter, handlers
  <2>9. CASE LockFails(r)
    BY <2>9 DEF LockFails, handlers
  <2>10. CASE EngineEnds(r)
    BY <2>10 DEF EngineEnds, handlers
  <2>11. CASE LetBrowserGo(r)
    BY <2>11 DEF LetBrowserGo, Browser!Leave, handlers
  <2>12. CASE \/ TurnAway(r) \/ ConnectFails(r) \/ Admit(r) \/ AnswerAtOnce(r)
              \/ GiveUpReading(r) \/ TimerElapses(r) \/ Finish(r) \/ OpenStream(r)
              \/ TakeGuard(r) \/ LeaveQueue(r) \/ GiveGuardBack(r) \/ StartWorkerFails(r)
              \/ Abandon(r) \/ RunnerReturns(r) \/ Reply(r)
    <3>1. UNCHANGED <<client, departed, runner>>
      BY <2>12 DEF TurnAway, ConnectFails, Admit, AnswerAtOnce, GiveUpReading,
         TimerElapses, Finish, OpenStream, TakeGuard, LeaveQueue,
         GiveGuardBack,
              StartWorkerFails, Abandon, RunnerReturns, Reply, Cancelled, handlers
    <3>2. \A q \in Clients : pc'[q] = "away" => pc[q] = "away"
      BY <2>12 DEF TurnAway, ConnectFails, Admit, AnswerAtOnce, GiveUpReading,
         TimerElapses, Finish, OpenStream, TakeGuard, LeaveQueue,
         GiveGuardBack,
              StartWorkerFails, Abandon, RunnerReturns, Reply, Cancelled, handlers
    <3>3. QED BY <3>1, <3>2
  <2>13. QED
    BY <1>1, <2>1, <2>2, <2>3, <2>4, <2>5, <2>6, <2>7, <2>8, <2>9,
       <2>10, <2>11, <2>12 DEF ClientAct
<1>2. CASE ServerExits
  BY <1>2 DEF ServerExits
<1>3. CASE UNCHANGED <<pc, client, departed, runner>>
  BY <1>3
<1>4. QED BY <1>1, <1>2, <1>3, Cases, WorldOnly DEF vars, handlers

\* Every step keeps the browser lock with whoever drives, and with one only.
LEMMA HoldersStep ==
  TypeOK /\ Places /\ Holders /\ Engines /\ [Next]_vars => Holders' /\ Engines'
<1> DEFINE Goal == Holders /\ Engines
<1> SUFFICES ASSUME TypeOK, Places, Goal, [Next]_vars PROVE Goal'
  OBVIOUS
<1> USE ServeAssumption DEF TypeOK, Holders, Engines, Set, Goto
<1>1. ASSUME NEW r \in Clients, ClientAct(r) PROVE Goal'
  <2>1. CASE TakeBrowser(r)
    BY <2>1 DEF TakeBrowser, Browser!Enter, world
  <2>2. CASE LockFails(r)
    BY <2>2 DEF LockFails, world
  <2>3. CASE EngineEnds(r)
    BY <2>3 DEF EngineEnds, world
  <2>4. CASE LetBrowserGo(r)
    BY <2>4 DEF LetBrowserGo, Browser!Leave, world
  <2>5. CASE StartPlain(r)
    BY <2>5 DEF StartPlain, StartRunner, world, Places, RunnerActive
  <2>6. CASE StartWorker(r)
    BY <2>6 DEF StartWorker, StartRunner, world, Places, RunnerActive
  <2>7. CASE KeepOpen(r)
    BY <2>7 DEF KeepOpen, world, Places, RunnerActive
  <2>8. CASE ReleaseSlot(r)
    BY <2>8 DEF ReleaseSlot, Disconnect, world, Places, RunnerActive
  <2>9. CASE \/ Connect(r) \/ TurnAway(r) \/ ConnectFails(r) \/ Admit(r)
             \/ AnswerAtOnce(r) \/ GiveUpReading(r) \/ TimerElapses(r) \/ Expire(r)
             \/ HangUp(r) \/ Finish(r) \/ OpenStream(r) \/ TakeGuard(r)
             \/ LeaveQueue(r) \/ GiveGuardBack(r) \/ StartWorkerFails(r) \/ Abandon(r)
             \/ RunnerReturns(r) \/ Reply(r)
    <3>1. UNCHANGED <<runner, inside, engines, other, up>>
      BY <2>9 DEF Connect, TurnAway, ConnectFails, Admit, AnswerAtOnce,
         GiveUpReading, TimerElapses, Expire, HangUp, Finish, OpenStream,
         TakeGuard,
              LeaveQueue, GiveGuardBack, StartWorkerFails, Abandon,
              RunnerReturns, Reply, Cancelled, CutOff, handlers, world
    <3>2. QED BY <3>1
  <2>10. QED
    BY <1>1, <2>1, <2>2, <2>3, <2>4, <2>5, <2>6, <2>7, <2>8, <2>9 DEF ClientAct
<1>2. ASSUME NEW o \in Others, OtherAct(o) PROVE Goal'
  <2>1. CASE OtherStarts(o)
    BY <2>1 DEF OtherStarts, Browser!Enter
  <2>2. CASE OtherEngineEnds(o)
    BY <2>2 DEF OtherEngineEnds
  <2>3. CASE OtherLeaves(o)
    BY <2>3 DEF OtherLeaves, Browser!Leave
  <2>4. CASE OtherDies(o)
    BY <2>4 DEF OtherDies, Browser!Leave
  <2>5. QED BY <1>2, <2>1, <2>2, <2>3, <2>4 DEF OtherAct
<1>3. CASE ServerExits
  BY <1>3 DEF ServerExits, world
<1>4. ASSUME NEW e \in Clients \cup Others, OrphanEnds(e) PROVE Goal'
  BY <1>4 DEF OrphanEnds, Orphan, world
<1>5. CASE UNCHANGED vars
  BY <1>5 DEF vars, world
<1>6. QED BY <1>1, <1>2, <1>3, <1>4, <1>5, Cases

\* Every step keeps the slots accounted for.
LEMMA AccountsStep == TypeOK /\ Accounts /\ [Next]_vars => Accounts'
<1> SUFFICES ASSUME TypeOK, Accounts, [Next]_vars, up' PROVE Accounts'
  BY DEF Accounts
<1> USE ServeAssumption DEF TypeOK, Set, Goto
<1>1. ASSUME NEW r \in Clients, ClientAct(r) PROVE Accounts'
  <2>0. /\ up /\ IsFiniteSet(Busy) /\ Cardinality(Busy) \in Nat
        /\ slots + Cardinality(Busy) =< MaxHandlers
        /\ ~ThreadsMayFail => slots + Cardinality(Busy) = MaxHandlers
    <3>1. up
      BY <1>1 DEF ClientAct, Connect, TurnAway, ConnectFails, Admit,
         AnswerAtOnce, GiveUpReading, TimerElapses, Expire, HangUp, KeepOpen,
           Finish, ReleaseSlot, OpenStream, TakeGuard, LeaveQueue, StartPlain,
           GiveGuardBack, StartWorker, StartWorkerFails, TakeBrowser, LockFails,
           EngineEnds, LetBrowserGo, Abandon, RunnerReturns, Reply, StartRunner
    <3>2. QED BY <3>1, FS_CardinalityType DEF Accounts
  <2>1. CASE Connect(r)
    <3>1. Busy' = Busy \cup {r} /\ r \notin Busy
      BY <2>1 DEF Connect, Busy
    <3>2. IsFiniteSet(Busy') /\ Cardinality(Busy') = Cardinality(Busy) + 1
      BY <2>0, <3>1, FS_AddElement
    <3>3. slots' = slots - 1
      BY <2>1 DEF Connect
    <3>4. QED BY <2>0, <3>2, <3>3 DEF Accounts
  <2>2. CASE ReleaseSlot(r)
    <3>1. Busy' = Busy \ {r} /\ r \in Busy
      BY <2>2 DEF ReleaseSlot, Disconnect, Busy
    <3>2. IsFiniteSet(Busy') /\ Cardinality(Busy') = Cardinality(Busy) - 1
      BY <2>0, <3>1, FS_RemoveElement
    <3>3. slots' = slots + 1
      BY <2>2 DEF ReleaseSlot
    <3>4. QED BY <2>0, <3>2, <3>3 DEF Accounts
  <2>3. CASE ConnectFails(r)
    <3>1. Busy' = Busy /\ slots' = slots - 1 /\ ThreadsMayFail
      BY <2>3 DEF ConnectFails, Busy, handlers
    <3>2. QED BY <2>0, <3>1 DEF Accounts
  <2>4. CASE \/ TurnAway(r) \/ TimerElapses(r) \/ Expire(r) \/ HangUp(r)
             \/ TakeBrowser(r) \/ LockFails(r) \/ EngineEnds(r) \/ LetBrowserGo(r)
    <3>1. UNCHANGED <<pc, slots>>
      BY <2>4 DEF TurnAway, TimerElapses, Expire, HangUp, TakeBrowser,
         LockFails, EngineEnds, LetBrowserGo, Cancelled, CutOff, handlers
    <3>2. QED BY <2>0, <3>1 DEF Accounts, Busy
  <2>5. CASE \/ Admit(r) \/ AnswerAtOnce(r) \/ GiveUpReading(r) \/ KeepOpen(r)
             \/ Finish(r) \/ OpenStream(r) \/ TakeGuard(r) \/ LeaveQueue(r)
             \/ StartPlain(r) \/ GiveGuardBack(r) \/ StartWorker(r) \/ StartWorkerFails(r)
             \/ Abandon(r) \/ RunnerReturns(r) \/ Reply(r)
    <3> DEFINE Moves == /\ slots' = slots
                        /\ pc'[r] # "away" /\ pc[r] # "away"
                        /\ \A q \in Clients \ {r} : pc'[q] = pc[q]
    <3>1. ASSUME Admit(r) PROVE Moves
      BY <3>1 DEF Admit, Cancelled
    <3>2. ASSUME AnswerAtOnce(r) \/ GiveUpReading(r) PROVE Moves
      BY <3>2 DEF AnswerAtOnce, GiveUpReading, Cancelled
    <3>3. ASSUME KeepOpen(r) PROVE Moves
      BY <3>3 DEF KeepOpen
    <3>4. ASSUME Finish(r) \/ OpenStream(r) \/ TakeGuard(r) \/ LeaveQueue(r) PROVE Moves
      BY <3>4 DEF Finish, OpenStream, TakeGuard, LeaveQueue
    <3>5. ASSUME StartPlain(r) \/ GiveGuardBack(r) \/ StartWorker(r)
                 \/ StartWorkerFails(r)
          PROVE  Moves
      BY <3>5 DEF StartPlain, GiveGuardBack, StartWorker, StartWorkerFails,
         StartRunner
    <3>6. ASSUME Abandon(r) \/ RunnerReturns(r) \/ Reply(r) PROVE Moves
      BY <3>6 DEF Abandon, RunnerReturns, Reply
    <3>7. Moves
      BY <2>5, <3>1, <3>2, <3>3, <3>4, <3>5, <3>6
    <3>8. Busy' = Busy
      BY <3>7 DEF Busy
    <3>9. QED BY <2>0, <3>7, <3>8 DEF Accounts
  <2>6. QED BY <1>1, <2>1, <2>2, <2>3, <2>4, <2>5 DEF ClientAct
<1>2. CASE ServerExits
  BY <1>2 DEF ServerExits
<1>3. CASE UNCHANGED <<pc, slots, up>>
  BY <1>3 DEF Accounts, Busy
<1>4. QED BY <1>1, <1>2, <1>3, Cases, WorldOnly DEF vars, handlers

\* Every step keeps what clients are owed.
LEMMA RepliesStep == TypeOK /\ Places /\ Replies /\ [Next]_vars => Replies'
<1> SUFFICES ASSUME TypeOK, Places, Replies, [Next]_vars PROVE Replies'
  OBVIOUS
<1> USE ServeAssumption DEF TypeOK, Replies, Set, Goto
<1>1. ASSUME NEW r \in Clients, ClientAct(r) PROVE Replies'
  <2>1. CASE Connect(r)
    BY <2>1 DEF Connect
  <2>2. CASE TurnAway(r)
    BY <2>2 DEF TurnAway
  <2>3. CASE Admit(r)
    BY <2>3 DEF Admit
  <2>4. CASE AnswerAtOnce(r)
    BY <2>4 DEF AnswerAtOnce
  <2>5. CASE GiveUpReading(r)
    BY <2>5 DEF GiveUpReading
  <2>6. CASE Expire(r)
    BY <2>6 DEF Expire, CutOff
  <2>7. CASE HangUp(r)
    BY <2>7 DEF HangUp, CutOff
  <2>8. CASE KeepOpen(r)
    BY <2>8 DEF KeepOpen
  <2>9. CASE Finish(r)
    BY <2>9 DEF Finish
  <2>10. CASE ReleaseSlot(r)
    BY <2>10 DEF ReleaseSlot, Disconnect
  <2>11. CASE OpenStream(r)
    BY <2>11 DEF OpenStream, WriteMayFail
  <2>12. CASE TakeGuard(r)
    BY <2>12 DEF TakeGuard
  <2>13. CASE LeaveQueue(r)
    BY <2>13 DEF LeaveQueue, WriteMayFail, SeenGone
  <2>14. CASE StartPlain(r)
    BY <2>14 DEF StartPlain, StartRunner
  <2>15. CASE GiveGuardBack(r)
    <3>1. client[r] = "gone" /\ guard = r
      BY <2>15 DEF GiveGuardBack, SeenGone, Places
    <3>2. QED BY <2>15, <3>1 DEF GiveGuardBack
  <2>16. CASE StartWorker(r)
    BY <2>16 DEF StartWorker, StartRunner
  <2>17. CASE StartWorkerFails(r)
    BY <2>17 DEF StartWorkerFails, Places
  <2>18. CASE Abandon(r)
    BY <2>18 DEF Abandon, WriteMayFail
  <2>19. CASE RunnerReturns(r)
    <3>1. guard = r
      BY <2>19 DEF RunnerReturns, Places
    <3>2. QED BY <2>19, <3>1 DEF RunnerReturns
  <2>20. CASE Reply(r)
    <3>1. /\ UNCHANGED <<client, guard>>
          /\ pc' \in {Set(pc, r, "leaving"), Set(pc, r, "replied")}
          /\ \E result \in {"answer", "error"} : reply' = Set(reply, r, result)
      BY <2>20 DEF Reply
    <3>2. QED BY <3>1
  <2>21. CASE \/ ConnectFails(r) \/ TimerElapses(r) \/ TakeBrowser(r) \/ LockFails(r)
              \/ EngineEnds(r) \/ LetBrowserGo(r)
    <3>1. UNCHANGED <<pc, client, reply, guard>>
      BY <2>21 DEF ConnectFails, TimerElapses, TakeBrowser, LockFails, EngineEnds,
         LetBrowserGo, handlers
    <3>2. QED BY <3>1
  <2>22. QED
    BY <1>1, <2>1, <2>2, <2>3, <2>4, <2>5, <2>6, <2>7, <2>8, <2>9, <2>10, <2>11,
       <2>12, <2>13, <2>14, <2>15, <2>16, <2>17, <2>18, <2>19, <2>20, <2>21
    DEF ClientAct
<1>2. CASE ServerExits
  BY <1>2 DEF ServerExits
<1>3. CASE UNCHANGED <<pc, client, reply, guard>>
  BY <1>3
<1>4. QED BY <1>1, <1>2, <1>3, Cases, WorldOnly DEF vars, handlers

-----------------------------------------------------------------------------
\* The inductive invariant holds in every behaviour of the server and of the
\* processes around it.
THEOREM Invariance == Spec => []IInv
<1>1. IInv /\ [Next]_vars => IInv'
  BY TypeStep, PlacesStep, DeparturesStep, HoldersStep, AccountsStep, RepliesStep DEF IInv
<1>2. QED BY InitInv, <1>1, PTL DEF Spec

\* Type correctness; in particular the pool is never given back more slots than
\* were taken from it.
THEOREM TypeCorrect == Spec => []TypeOK
<1>1. IInv => TypeOK
  BY DEF IInv
<1>2. QED BY Invariance, <1>1, PTL

\* A runner is at work only while its request holds the guard, whoever hung up,
\* whatever timer fired and whichever thread could not be started.
THEOREM GuardCovers == Spec => []GuardCoversWork
<1>1. IInv => GuardCoversWork
  BY DEF IInv, Places, GuardCoversWork
<1>2. QED BY Invariance, <1>1, PTL

\* No plain request spends a message for a client that left before its turn.
THEOREM PlainSpendsNothing == Spec => []DepartedPlainSpendsNothing
<1>1. IInv => DepartedPlainSpendsNothing
  BY DEF IInv
<1>2. QED BY Invariance, <1>1, PTL

\* One engine at a time, under the lock of its owner, as long as no lane process
\* dies with its engine running.
THEOREM OneFlight == Spec => [](~LanesMayDie => SingleFlight)
<1>1. IInv => (~LanesMayDie => SingleFlight)
  BY DEF IInv, TypeOK, Holders, Engines, SingleFlight
<1>2. QED BY Invariance, <1>1, PTL

\* Every slot that is not free belongs to one live handler, as long as threads
\* can be started.
THEOREM SlotsKept == Spec => [](~ThreadsMayFail => SlotsAccountedFor)
<1>1. IInv => (~ThreadsMayFail => SlotsAccountedFor)
  BY DEF IInv, Accounts, Busy, SlotsAccountedFor
<1>2. QED BY Invariance, <1>1, PTL

\* The guard belongs to a handler that will give it back, as long as threads can
\* be started: a worker that cannot be leaves it taken.
THEOREM GuardLives == Spec => [](~ThreadsMayFail => GuardHeldByLiveHandler)
<1>1. IInv => (~ThreadsMayFail => GuardHeldByLiveHandler)
  BY DEF IInv, TypeOK, Places, GuardHeldByLiveHandler
<1>2. QED BY Invariance, <1>1, PTL

\* A client that stays gets a final reply, as long as threads can be started.
THEOREM NothingOwedIsDropped == Spec => [](~ThreadsMayFail => NobodyIsDropped)
<1>1. IInv => (~ThreadsMayFail => NobodyIsDropped)
  BY DEF IInv, Replies, NobodyIsDropped
<1>2. QED BY Invariance, <1>1, PTL

\* Whoever dies and whatever thread fails: an engine that works without the lock
\* of its owner has lost its owner.
THEOREM OverlapNeedsADeath == Spec => []OnlyOrphansOverlap
<1>1. IInv => OnlyOrphansOverlap
  BY DEF IInv, TypeOK, Holders, Engines, OnlyOrphansOverlap, Orphan
<1>2. QED BY Invariance, <1>1, PTL
=============================================================================
