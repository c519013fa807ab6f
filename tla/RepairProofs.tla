------------------------------ MODULE RepairProofs ------------------------------
(***************************************************************************)
(* The engine file's exports and repairs, for any number of exporters,     *)
(* repairs, projects, failures, commits and edits.                         *)
(***************************************************************************)
EXTENDS Repair, TLAPS

(* An export that read its blob holds bytes of the commit it names. *)
Exporting ==
    \A e \in Exporters :
        /\ pin[e] = NoBytes <=> pc[e] = "away"
        /\ pc[e] \in {"shown", "committed"} => commit[e] \in 1 .. Len(history)
        /\ pc[e] \in {"blob", "cleared", "replaced"} =>
             commit[e] \in 1 .. Len(history) /\ history[commit[e]] = pin[e]

(* Where no two builds publish at once, an export that cleared the record   *)
(* sees no record of other bytes come back before its own, and no other     *)
(* copy after its own.                                                      *)
Uncrossed ==
    ~crossed =>
        \A e \in Publishers :
            /\ marker = NoMarker \/ marker.sha256 = pin[e]
            /\ pc[e] = "replaced" => dest = pin[e]
            /\ \A f \in Publishers : pin[f] = pin[e]

Publishing == /\ marker # NoMarker => marker.source_commit \in 1 .. Len(history)
              /\ MarkerIsTrue

SourceInv == SourceTypeOK /\ Exporting /\ Uncrossed /\ Publishing

Briefing ==
    \A r \in Repairers :
        /\ pc[r] \in {"chosen", "brief", "session"} => evidence[r] \in Names
        /\ pc[r] \in {"brief", "session"} /\ evidence[r] \in found[r] =>
             quoted[r] = "recorded"

Inv == SourceInv /\ RepairTypeOK /\ Briefing

LEMMA AppendKeeps ==
    ASSUME NEW S, NEW s \in Seq(S), NEW x \in S
    PROVE /\ Append(s, x) \in Seq(S) /\ Len(Append(s, x)) = Len(s) + 1
          /\ \A i \in 1 .. Len(s) : Append(s, x)[i] = s[i]
OBVIOUS

(* A repository as it is found, with no record and no receipt yet. *)
THEOREM Initial == Init => Inv
<1> SUFFICES ASSUME Init PROVE Inv
  OBVIOUS
<1>1. SourceInv
  <2>1. PICK b \in Bytes : work = b /\ history = <<b>>
    BY DEF Init, SourceInit
  <2>2. history \in Seq(Bytes) /\ Len(history) = 1
    BY <2>1
  <2>3. SourceTypeOK
    <3>1. 0 \in 0 .. Commits /\ 1 \in 1 .. Commits
      BY SourceAssumption
    <3>2. pc \in [Procs -> Stages] /\ pin \in [Procs -> Bytes \cup {NoBytes}]
          /\ commit \in [Procs -> 0 .. Commits]
      BY <3>1 DEF Init, SourceInit, Stages
    <3>3. head \in 1 .. Len(history) /\ Len(history) \in 1 .. Commits
      BY <2>2, <3>1 DEF Init, SourceInit
    <3>4. marker \in Markers
      BY DEF Init, SourceInit, Markers
    <3>5. work \in Bytes /\ dest \in Bytes \cup {NoBytes} /\ crossed \in BOOLEAN
      BY <2>1 DEF Init, SourceInit
    <3> QED
      BY <2>2, <3>2, <3>3, <3>4, <3>5 DEF SourceTypeOK
  <2> QED
    <3>1. marker = NoMarker /\ \A p \in Procs : pc[p] = "away" /\ pin[p] = NoBytes
      BY DEF Init, SourceInit
    <3>2. Publishers = {}
      BY <3>1 DEF Publishers, Procs
    <3> QED
      BY <2>3, <3>1, <3>2
         DEF SourceInv, Exporting, Uncrossed, Publishing, MarkerIsTrue, Procs
<1>2. RepairTypeOK /\ Briefing
  BY RepairAssumption
     DEF Init, SourceInit, RepairInit, RepairTypeOK, Briefing, Texts,
     RepairLock!Init, Procs
<1> QED
  BY <1>1, <1>2 DEF Inv

--------------------------------------------------------------------------------
(* The source.                                                             *)

LEMMA LeavesKeepsTypes ==
    ASSUME SourceTypeOK, NEW p \in Procs, Leaves(p)
    PROVE /\ pc' \in [Procs -> Stages]
          /\ pin' \in [Procs -> Bytes \cup {NoBytes}]
          /\ commit' \in [Procs -> 0 .. Commits]
<1>1. 0 \in 0 .. Commits
  BY SourceAssumption
<1>2. commit' \in [Procs -> 0 .. Commits]
  BY <1>1 DEF SourceTypeOK, Leaves
<1> QED
  BY <1>2 DEF SourceTypeOK, Leaves, Stages

LEMMA ExportKeeps ==
    ASSUME SourceInv, NEW e \in Exporters, Export(e)
    PROVE SourceInv'
<1> USE DEF SourceInv, SourceTypeOK, Exporting, Publishing, MarkerIsTrue, Uncrossed, Publishers
<1>0. Exporters \subseteq Procs
  BY DEF Procs
<1>1. CASE VerifyPin(e)
  BY <1>0, <1>1, SourceAssumption DEF VerifyPin, Goes, repository, published, Stages
<1>2. CASE ShowHead(e)
  BY <1>0, <1>2, SourceAssumption DEF ShowHead, Goes, repository, published, Stages
<1>3. CASE VerifyCommitted(e)
  BY <1>0, <1>3, SourceAssumption DEF VerifyCommitted, Goes, repository, published,
     Stages
<1>4. CASE Reject(e) \/ Abandon(e)
  <2>1. Leaves(e) /\ UNCHANGED <<work, history, head, dest, marker, crossed>>
    BY <1>4 DEF Reject, Abandon, repository, published
  <2>2. pc' \in [Procs -> Stages] /\ pin' \in [Procs -> Bytes \cup {NoBytes}]
        /\ commit' \in [Procs -> 0 .. Commits]
    BY <1>0, <2>1, LeavesKeepsTypes
  <2>3. pc'[e] = "away" /\ pin'[e] = NoBytes
        /\ \A f \in Exporters \ {e} :
             pc'[f] = pc[f] /\ pin'[f] = pin[f] /\ commit'[f] = commit[f]
    BY <1>0, <2>1 DEF Leaves
  <2>4. SourceTypeOK' /\ Publishing'
    BY <2>1, <2>2
  <2>5. Exporting' /\ Uncrossed'
    BY <2>1, <2>3
  <2> QED
    BY <2>4, <2>5
<1>5. CASE ReadCommit(e)
  BY <1>0, <1>5, SourceAssumption DEF ReadCommit, Goes, repository, published, Stages
<1>6. CASE ReadBlob(e)
  BY <1>0, <1>6 DEF ReadBlob, Goes, repository, published, Stages
<1>7. CASE ClearMarker(e)
  <2>1. SourceTypeOK' /\ Publishing' /\ Exporting'
    BY <1>0, <1>7 DEF ClearMarker, Goes, Joins, repository, Stages, Markers
  <2>2. ~crossed' => \A f, g \in Publishers' : pin[f] = pin[g]
    BY <1>0, <1>7 DEF ClearMarker, Goes, Joins
  <2>3. ~crossed' => \A f \in Publishers' : pc'[f] = "replaced" => dest = pin[f]
    BY <1>0, <1>7 DEF ClearMarker, Goes, Joins
  <2> QED
    BY <1>7, <2>1, <2>2, <2>3 DEF ClearMarker, repository
<1>8. CASE Replace(e)
  BY <1>0, <1>8 DEF Replace, Goes, repository, Stages
<1>9. CASE WriteMarker(e)
  <2>1. pin[e] \in Bytes /\ commit[e] \in 1 .. Len(history) /\ history[commit[e]] = pin[e]
        /\ commit[e] \in 1 .. Commits
    BY <1>0, <1>9, SourceAssumption DEF WriteMarker
  <2>2. marker' = [sha256 |-> pin[e],
       source_commit |-> commit[e]] /\ marker' \in Markers
    BY <1>9, <2>1 DEF WriteMarker, Markers
  <2>3. pc'[e] = "away" /\ pin'[e] = NoBytes
        /\ \A f \in Exporters \ {e} :
             pc'[f] = pc[f] /\ pin'[f] = pin[f] /\ commit'[f] = commit[f]
    BY <1>0, <1>9 DEF WriteMarker, Leaves
  <2>4. SourceTypeOK'
    BY <1>0, <1>9, <2>2, LeavesKeepsTypes DEF WriteMarker, repository
  <2>5. Exporting' /\ Publishing' /\ Uncrossed'
    BY <1>9, <2>1, <2>2, <2>3 DEF WriteMarker, repository
  <2> QED
    BY <2>4, <2>5
<1> QED
  BY <1>1, <1>2, <1>3, <1>4, <1>5, <1>6, <1>7, <1>8, <1>9 DEF Export

LEMMA OperatorKeeps ==
    ASSUME SourceInv, Operator
    PROVE SourceInv' /\ UNCHANGED pc
<1>1. CASE Edit
  BY <1>1 DEF SourceInv, SourceTypeOK, Exporting, Uncrossed, Publishers, Publishing,
     MarkerIsTrue, Edit, Writes,
              published
<1>2. CASE Commit
  <2>1. history' \in Seq(Bytes) /\ Len(history') = Len(history) + 1
        /\ \A i \in 1 .. Len(history) : history'[i] = history[i]
    BY <1>2, AppendKeeps DEF Commit, SourceInv, SourceTypeOK
  <2>2. Len(history) \in Nat
    BY DEF SourceInv, SourceTypeOK
  <2> QED
    BY <1>2, <2>1, <2>2, SourceAssumption
       DEF SourceInv, SourceTypeOK, Exporting, Uncrossed, Publishers, Publishing,
       MarkerIsTrue, Commit, published
<1>3. CASE Checkout
  <2>1. history[head'] \in Bytes
    BY <1>3 DEF Checkout, SourceInv, SourceTypeOK
  <2> QED
    BY <1>3, <2>1 DEF SourceInv, SourceTypeOK, Exporting, Uncrossed, Publishers,
       Publishing, MarkerIsTrue,
                      Checkout, Writes, published
<1> QED
  BY <1>1, <1>2, <1>3 DEF Operator, Edit, Commit, Checkout

(* What a repair may do to the source: its own state, and the file. *)
LEMMA RepairSparesExports ==
    ASSUME SourceInv,
           UNCHANGED <<history, head, published>>,
           work' \in Bytes,
           pc' \in [Procs -> Stages], pin' \in [Procs -> Bytes \cup {NoBytes}],
           commit' \in [Procs -> 0 .. Commits],
           \A e \in Exporters : pc'[e] = pc[e] /\ pin'[e] = pin[e] /\ commit'[e] = commit[e]
    PROVE SourceInv'
BY DEF SourceInv, SourceTypeOK, Exporting, Uncrossed, Publishers, Publishing,
   MarkerIsTrue, published

LEMMA RepairKeepsSource ==
    ASSUME Inv, NEW r \in Repairers, RunRepair(r)
    PROVE SourceInv'
<1>1. r \in Procs /\ r \notin Exporters /\ Exporters \subseteq Procs
  BY SourceAssumption DEF Procs
<1>2. head \in 0 .. Commits
  BY SourceAssumption DEF Inv, SourceInv, SourceTypeOK
<1>3. CASE Leaves(r) /\ UNCHANGED <<repository, published>>
  <2>1. pc' \in [Procs -> Stages] /\ pin' \in [Procs -> Bytes \cup {NoBytes}]
        /\ commit' \in [Procs -> 0 .. Commits] /\ work' \in Bytes
    BY <1>1, <1>3, LeavesKeepsTypes DEF Inv, SourceInv, SourceTypeOK, repository
  <2>2. \A e \in Exporters : pc'[e] = pc[e] /\ pin'[e] = pin[e] /\ commit'[e] = commit[e]
    BY <1>1, <1>3 DEF Leaves, Inv, SourceInv, SourceTypeOK
  <2> QED
    BY <1>3, <2>1, <2>2, RepairSparesExports DEF Inv, repository
<1>4. CASE \E from, to \in Stages : Goes(r, from, to) /\ UNCHANGED <<repository,
     published, pin, commit>>
  BY <1>1, <1>4, RepairSparesExports DEF Goes, Inv, SourceInv, SourceTypeOK, repository
<1>5. CASE VerifyPin(r) \/ ShowHead(r) \/ VerifyCommitted(r)
  <2>1. pc' \in [Procs -> Stages] /\ pin' \in [Procs -> Bytes \cup {NoBytes}] /\ work' \in Bytes
    BY <1>5 DEF VerifyPin, ShowHead, VerifyCommitted, Goes, Inv, SourceInv,
       SourceTypeOK,
                repository, Stages
  <2>2. commit' \in [Procs -> 0 .. Commits]
    BY <1>2, <1>5, SourceAssumption
       DEF VerifyPin, ShowHead, VerifyCommitted, Inv, SourceInv, SourceTypeOK
  <2>3. \A e \in Exporters : pc'[e] = pc[e] /\ pin'[e] = pin[e] /\ commit'[e] = commit[e]
    BY <1>1, <1>5 DEF VerifyPin, ShowHead, VerifyCommitted, Goes, Inv, SourceInv,
       SourceTypeOK
  <2> QED
    BY <1>5, <2>1, <2>2, <2>3, RepairSparesExports
       DEF VerifyPin, ShowHead, VerifyCommitted, Inv, repository
<1>6. CASE UNCHANGED sourceVars
  BY <1>1, <1>6, RepairSparesExports
     DEF sourceVars, Inv, SourceInv, SourceTypeOK, repository
<1>7. CASE EditEngine(r)
  BY <1>1, <1>7, RepairSparesExports
     DEF EditEngine, Writes, Inv, SourceInv, SourceTypeOK, repository
<1> QED
  <2>1. Verify(r) => VerifyPin(r) \/ ShowHead(r) \/ VerifyCommitted(r)
                       \/ (Leaves(r) /\ UNCHANGED <<repository, published>>)
    BY DEF Verify, Reject
  <2>2. ASSUME NEW root \in Roots, Discover(r, root) PROVE UNCHANGED sourceVars
    BY <2>2 DEF Discover
  <2>3. ChooseNewest(r) \/ ChooseGiven(r) =>
          Goes(r, "resolved", "chosen") /\ UNCHANGED <<repository, published, pin, commit>>
    BY DEF ChooseNewest, ChooseGiven
  <2>4. BuildBrief(r) => Goes(r, "chosen", "brief") /\ UNCHANGED <<repository,
       published, pin, commit>>
    BY DEF BuildBrief
  <2>5. WriteBrief(r) => Goes(r, "brief", "session") /\ UNCHANGED <<repository,
       published, pin, commit>>
    BY DEF WriteBrief
  <2>6. Stop(r) \/ EndSession(r) => Leaves(r) /\ UNCHANGED <<repository, published>>
    BY DEF Stop, EndSession
  <2>7. {"resolved", "chosen", "brief", "session"} \subseteq Stages
    BY DEF Stages
  <2> QED
    BY <1>3, <1>4, <1>5, <1>6, <1>7, <2>1, <2>2, <2>3, <2>4, <2>5, <2>6,
       <2>7 DEF RunRepair

--------------------------------------------------------------------------------
(* The evidence.                                                           *)

LEMMA PersistKeeps ==
    ASSUME Inv, NEW n \in Names, PersistLog(n) \/ PersistReceipt(n) \/ Alter(n)
    PROVE Inv'
<1>1. SourceInv'
  BY DEF Inv, SourceInv, SourceTypeOK, Exporting, Uncrossed, Publishers, Publishing,
     MarkerIsTrue,
         PersistLog, PersistReceipt, Alter, sourceVars, repository, published
<1>2. RepairTypeOK'
  <2>1. CASE PersistLog(n)
    BY <2>1 DEF Inv, RepairTypeOK, PersistLog, own, Texts
  <2>2. CASE PersistReceipt(n)
    BY <2>2, RepairAssumption DEF Inv, RepairTypeOK, PersistReceipt, own, Names
  <2>3. CASE Alter(n)
    <3>1. alters' \in 0 .. Alters
      BY <2>3, RepairAssumption DEF Inv, RepairTypeOK, Alter
    <3>2. text' \in [Names -> Texts]
      BY <2>3 DEF Inv, RepairTypeOK, Alter, Texts
    <3> QED
      BY <2>3, <3>1, <3>2 DEF Inv, RepairTypeOK, Alter, own
  <2> QED
    BY <2>1, <2>2, <2>3
<1>3. Briefing'
  BY DEF Inv, Briefing, PersistLog, PersistReceipt, Alter, own, sourceVars
<1> QED
  BY <1>1, <1>2, <1>3 DEF Inv

LEMMA RepairKeeps ==
    ASSUME Inv, NEW r \in Repairers, RunRepair(r)
    PROVE RepairTypeOK' /\ Briefing'
<1>0. r \in Procs /\ Repairers \subseteq Procs /\ pc \in [Procs -> Stages]
  BY DEF Procs, Inv, SourceInv, SourceTypeOK
<1>1. CASE Verify(r)
  BY <1>0, <1>1 DEF Verify, VerifyPin, ShowHead, VerifyCommitted, Reject, Goes,
     Leaves, Inv, RepairTypeOK,
                    Briefing, repairVars, evidenceVars, own
<1>2. CASE \E root \in Roots : Discover(r, root)
  <2>1. PICK root \in Roots : Discover(r, root)
    BY <1>2
  <2>2. pc' = pc /\ pc[r] = "resolved" /\ UNCHANGED <<evidence, quoted>>
        /\ \A q \in Repairers \ {r} : found'[q] = found[q]
    BY <2>1 DEF Discover, sourceVars, Inv, RepairTypeOK
  <2>3. RepairTypeOK'
    BY <2>1 DEF Discover, Inv, RepairTypeOK, evidenceVars
  <2>4. Briefing'
    BY <2>2 DEF Inv, Briefing
  <2> QED
    BY <2>3, <2>4
<1>3. CASE ChooseNewest(r) \/ ChooseGiven(r)
  BY <1>0, <1>3 DEF ChooseNewest, ChooseGiven, Goes, Inv, RepairTypeOK, Briefing,
     evidenceVars
<1>4. CASE BuildBrief(r)
  <2>1. evidence[r] \in Names /\ text[evidence[r]] \in Texts
    BY <1>4 DEF BuildBrief, Goes, Inv, Briefing, RepairTypeOK
  <2> QED
    BY <1>0, <1>4, <2>1 DEF BuildBrief, Goes, Inv, RepairTypeOK, Briefing, evidenceVars
<1>5. CASE Stop(r)
  BY <1>0, <1>5 DEF Stop, Leaves, Forgets, Inv, RepairTypeOK, Briefing, evidenceVars,
     Texts
<1>6. CASE WriteBrief(r)
  BY <1>0, <1>6 DEF WriteBrief, Goes, RepairLock!Enter, Inv, RepairTypeOK, Briefing,
     evidenceVars, own
<1>7. CASE EditEngine(r)
  BY <1>7 DEF EditEngine, Inv, RepairTypeOK, Briefing, repairVars, evidenceVars, own
<1>8. CASE EndSession(r)
  BY <1>0, <1>8 DEF EndSession, Leaves, Forgets, RepairLock!Leave, Inv, RepairTypeOK,
     Briefing,
                    evidenceVars, Texts
<1> QED
  BY <1>1, <1>2, <1>3, <1>4, <1>5, <1>6, <1>7, <1>8 DEF RunRepair

LEMMA SourceSparesRepairs ==
    ASSUME Inv, Source, UNCHANGED repairVars
    PROVE Inv' /\ \A r \in Repairers : pc'[r] = pc[r]
<1>1. SourceInv' /\ \A r \in Repairers : pc'[r] = pc[r]
  <2>1. ASSUME NEW e \in Exporters, Export(e)
        PROVE \A r \in Repairers : pc'[r] = pc[r]
    BY <2>1, SourceAssumption
       DEF Export, VerifyPin, ShowHead, VerifyCommitted, Reject, ReadCommit,
       ReadBlob, ClearMarker, Replace,
           WriteMarker, Abandon, Goes, Leaves, Inv, SourceInv, SourceTypeOK, Procs
  <2> QED
    BY <2>1, ExportKeeps, OperatorKeeps DEF Source, Inv
<1> QED
  BY <1>1 DEF Inv, RepairTypeOK, Briefing, repairVars, evidenceVars, own

LEMMA StepKeeps ==
    ASSUME Inv, [Next]_allVars
    PROVE Inv'
<1>1. CASE UNCHANGED allVars
  BY <1>1 DEF allVars, sourceVars, repairVars, repository, published, evidenceVars,
     own, Inv, SourceInv, SourceTypeOK, Exporting, Uncrossed, Publishers, Publishing,
     MarkerIsTrue, RepairTypeOK, Briefing
<1> QED
  BY <1>1, SourceSparesRepairs, PersistKeeps, RepairKeeps,
     RepairKeepsSource DEF Next, Inv

--------------------------------------------------------------------------------
THEOREM Invariance == Spec => []Inv
BY Initial, StepKeeps, PTL DEF Spec

(* Type correctness of the source and of the repairs. *)
THEOREM TypeCorrect == Spec => [](SourceTypeOK /\ RepairTypeOK)
BY Invariance, PTL DEF Inv, SourceInv

(* A provenance record names a commit that holds the bytes of its digest,   *)
(* whatever overlaps; and it is true of the copy beside it, at every moment *)
(* of every export, crashed or not, until exports of different builds       *)
(* publish at once.                                                         *)
THEOREM MarkersAreTrue == Spec => []MarkerIsTrue
BY Invariance, PTL DEF Inv, SourceInv, Publishing

(* A brief on a discovered log quotes what the failing run recorded. *)
THEOREM BriefsAreRecorded == Spec => []BriefIsRecorded
<1>1. Inv => BriefIsRecorded
  BY DEF Inv, Briefing, BriefIsRecorded
<1> QED
  BY <1>1, Invariance, PTL

--------------------------------------------------------------------------------
(* repair.lock.                                                            *)

(* A repair is inside its lock exactly as long as its session runs. *)
InSession == \A r \in Repairers : r \in inside <=> pc[r] = "session"

LEMMA SessionStep ==
    ASSUME Inv, InSession, [Next]_allVars
    PROVE InSession' /\ [RepairLock!Next]_inside
<1>0. pc \in [Procs -> Stages] /\ Repairers \subseteq Procs
  BY DEF Procs, Inv, SourceInv, SourceTypeOK
<1> USE <1>0 DEF InSession, Goes, Leaves, repairVars
<1>1. CASE Source /\ UNCHANGED repairVars
  BY <1>1, SourceSparesRepairs
<1>2. ASSUME NEW n \in Names, PersistLog(n) \/ PersistReceipt(n) \/ Alter(n)
      PROVE UNCHANGED <<pc, inside>>
  BY <1>2 DEF PersistLog, PersistReceipt, Alter, sourceVars
<1>3. ASSUME NEW r \in Repairers, RunRepair(r)
      PROVE InSession' /\ [RepairLock!Next]_inside
  <2>1. CASE Verify(r)
    BY <2>1 DEF Verify, VerifyPin, ShowHead, VerifyCommitted, Reject
  <2>2. CASE \E root \in Roots : Discover(r, root)
    BY <2>2 DEF Discover, sourceVars
  <2>3. CASE ChooseNewest(r) \/ ChooseGiven(r) \/ BuildBrief(r) \/ Stop(r)
    BY <2>3 DEF ChooseNewest, ChooseGiven, BuildBrief, Stop
  <2>4. CASE WriteBrief(r)
    BY <2>4 DEF WriteBrief, RepairLock!Enter, RepairLock!Next
  <2>5. CASE EditEngine(r)
    BY <2>5 DEF EditEngine
  <2>6. CASE EndSession(r)
    BY <2>6 DEF EndSession, RepairLock!Leave, RepairLock!Next
  <2> QED
    BY <1>3, <2>1, <2>2, <2>3, <2>4, <2>5, <2>6 DEF RunRepair
<1>4. CASE UNCHANGED allVars
  BY <1>4 DEF allVars, sourceVars
<1> QED
  BY <1>1, <1>2, <1>3, <1>4 DEF Next

(* Repairs use repair.lock as Mutex promises, however a session ends. *)
THEOREM LockUsedAsPromised == Spec => RepairLock!Spec /\ []InSession
<1>1. Init => InSession /\ RepairLock!Init
  BY DEF Init, SourceInit, RepairInit, InSession, RepairLock!Init, Procs
<1>2. Inv /\ InSession /\ [Next]_allVars => InSession' /\ [RepairLock!Next]_inside
  BY SessionStep
<1> QED
  BY <1>1, <1>2, Invariance, PTL DEF Spec, RepairLock!Spec

LockLaws == INSTANCE MutexProofs WITH Procs <- Repairers

(* Two gjc sessions never write the engine file at the same time, in any    *)
(* number of repairs: besides the operator's, each change of it is made by  *)
(* the only repair inside repair.lock.                                      *)
SessionsAreAlone ==
    /\ [](\A r \in Repairers : pc[r] = "session" => inside = {r})
    /\ [][work' # work => Operator \/ \E r \in Repairers : inside = {r} /\ EditEngine(r)]_allVars

(* Both halves of it follow from the lock and from where a session starts. *)
THEOREM RepairsTakeTurns == Spec => SessionsAreAlone
<1> DEFINE Alone == \A r \in Repairers : pc[r] = "session" => inside = {r}
<1>1. RepairLock!Spec => LockLaws!Spec
  BY DEF RepairLock!Spec, RepairLock!Init, RepairLock!Next, RepairLock!Enter,
     RepairLock!Leave,
         LockLaws!Spec, LockLaws!Init, LockLaws!Next, LockLaws!Enter, LockLaws!Leave
<1>2. InSession /\ LockLaws!AtMostOne => Alone
  BY DEF InSession, LockLaws!AtMostOne
<1>3. Alone /\ [Next]_allVars
        => [work' # work => Operator \/ \E r \in Repairers : inside = {r} /\ EditEngine(r)]_allVars
  <2> SUFFICES ASSUME Alone, Next, work' # work
               PROVE Operator \/ \E r \in Repairers : inside = {r} /\ EditEngine(r)
    OBVIOUS
  <2>1. ASSUME NEW e \in Exporters, Export(e) PROVE work' = work
    BY <2>1 DEF Export, VerifyPin, ShowHead, VerifyCommitted, Reject, ReadCommit,
       ReadBlob, ClearMarker,
                Replace, WriteMarker, Abandon, repository
  <2>2. ASSUME NEW n \in Names, PersistLog(n) \/ PersistReceipt(n) \/ Alter(n)
        PROVE work' = work
    BY <2>2 DEF PersistLog, PersistReceipt, Alter, sourceVars, repository
  <2>3. ASSUME NEW r \in Repairers, RunRepair(r), ~EditEngine(r) PROVE work' = work
    BY <2>3 DEF RunRepair, Verify, VerifyPin, ShowHead, VerifyCommitted, Reject,
       Discover, ChooseNewest,
                ChooseGiven, BuildBrief, Stop, WriteBrief, EndSession, sourceVars, repository
  <2>4. ASSUME NEW r \in Repairers, EditEngine(r) PROVE inside = {r}
    BY <2>4 DEF EditEngine
  <2> QED
    BY <2>1, <2>2, <2>3, <2>4 DEF Next, Source
<1> HIDE DEF Alone
<1>4. Spec => []Alone
  BY <1>1, <1>2, LockUsedAsPromised, LockLaws!OneInside, PTL
<1>5. Spec => [][work' # work => Operator
                   \/ \E r \in Repairers : inside = {r} /\ EditEngine(r)]_allVars
  BY <1>3, <1>4, PTL DEF Spec
<1> QED
  BY <1>4, <1>5 DEF SessionsAreAlone, Alone

--------------------------------------------------------------------------------
(* What is published.                                                      *)

(* `lane engine export` publishes committed bytes only: whatever the file    *)
(* holds by the time the copy is replaced, and wherever HEAD is then, what   *)
(* the consumer gets is in the history, at the commit that the record is     *)
(* about to name.                                                            *)
PublishedIsCommitted ==
    [][dest' # dest => \E e \in Exporters : dest' = history[commit[e]]]_allVars

(* Replace writes the blob that was read from the history, not the file. *)
THEOREM OnlyCommittedIsPublished == Spec => PublishedIsCommitted
<1>1. ASSUME Inv, Next, dest' # dest
      PROVE \E e \in Exporters : dest' = history[commit[e]]
  <2>1. ASSUME NEW e \in Exporters, Export(e) PROVE Replace(e)
    BY <1>1, <2>1 DEF Export, VerifyPin, ShowHead, VerifyCommitted, Reject,
       ReadCommit, ReadBlob,
                      ClearMarker, WriteMarker, Abandon, published
  <2>2. ASSUME NEW e \in Exporters, Replace(e) PROVE dest' = history[commit[e]]
    BY <1>1, <2>2 DEF Replace, Goes, Inv, SourceInv, Exporting
  <2>3. ASSUME Operator PROVE FALSE
    BY <1>1, <2>3 DEF Operator, Edit, Commit, Checkout, published
  <2>4. ASSUME NEW n \in Names,
       PersistLog(n) \/ PersistReceipt(n) \/ Alter(n) PROVE FALSE
    BY <1>1, <2>4 DEF PersistLog, PersistReceipt, Alter, sourceVars, published
  <2>5. ASSUME NEW r \in Repairers, RunRepair(r) PROVE FALSE
    BY <1>1, <2>5 DEF RunRepair, Verify, VerifyPin, ShowHead, VerifyCommitted,
       Reject, Discover,
                      ChooseNewest, ChooseGiven, BuildBrief, Stop, WriteBrief, EditEngine,
                      EndSession, sourceVars, published
  <2> QED
    BY <1>1, <2>1, <2>2, <2>3, <2>4, <2>5 DEF Next, Source
<1>2. Inv /\ [Next]_allVars
        => [dest' # dest => \E e \in Exporters : dest' = history[commit[e]]]_allVars
  BY <1>1
<1> QED
  BY <1>2, Invariance, PTL DEF Spec, PublishedIsCommitted
================================================================================
