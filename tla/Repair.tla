--------------------------------- MODULE Repair ---------------------------------
(***************************************************************************)
(* src/lane/repair.py and cli._repair: a failed run leaves a log in its    *)
(* project and a receipt with the log's digest in the lane's own state; a  *)
(* repair picks the newest log that a receipt vouches for, quotes it in a  *)
(* brief and hands the brief to a gjc session that edits the engine file.  *)
(*                                                                         *)
(* The log lies where an implementer may write, the receipt does not.  One *)
(* repair at a time is inside repair.lock, asked without waiting (Mutex).  *)
(***************************************************************************)
EXTENDS EngineSource, FiniteSets

CONSTANTS Logs,     \* bound on the failures; log n is named after its time
          Roots,    \* the projects
          Alters,   \* bound on what others do to the logs
          Place,    \* the project each lies in
          NoLog

ASSUME RepairAssumption == /\ Logs \in Nat /\ Alters \in Nat
                           /\ Place \in [1 .. Logs -> Roots]
                           /\ NoLog \notin Int

VARIABLES text,     \* per log, what its file holds
          receipt,  \* per project, the log its receipt vouches for
          left,     \* per repair, the projects still to look at
          found,    \* the logs it found vouched for (_DISCOVERED_EVIDENCE)
          evidence, \* the log it goes by
          quoted,   \* what its brief quotes
          inside,   \* who is inside repair.lock
          alters

evidenceVars == <<text, receipt, alters>>
own == <<left, found, evidence, quoted>>
repairVars == <<evidenceVars, own, inside>>
allVars == <<sourceVars, repairVars>>

RepairLock == INSTANCE Mutex WITH Procs <- Repairers

Names == 1 .. Logs
Texts == {"absent", "recorded", "altered", "unreadable"}

RepairTypeOK ==
    /\ text \in [Names -> Texts]
    /\ receipt \in [Roots -> Names \cup {NoLog}]
    /\ left \in [Repairers -> SUBSET Roots]
    /\ found \in [Repairers -> SUBSET Names]
    /\ evidence \in [Repairers -> Names \cup {NoLog}]
    /\ quoted \in [Repairers -> Texts]
    /\ inside \subseteq Repairers
    /\ alters \in 0 .. Alters

RepairInit == /\ text = [n \in Names |-> "absent"]
              /\ receipt = [r \in Roots |-> NoLog]
              /\ left = [r \in Repairers |-> Roots]
              /\ found = [r \in Repairers |-> {}]
              /\ evidence = [r \in Repairers |-> NoLog]
              /\ quoted = [r \in Repairers |-> "absent"]
              /\ RepairLock!Init
              /\ alters = 0

--------------------------------------------------------------------------------
(* persist_failure: the log, then the receipt; each may be the last thing  *)
(* the run does, and runs that fail together write in any order.           *)

PersistLog(n) ==
    /\ text[n] = "absent" /\ \A m \in 1 .. n - 1 : text[m] # "absent"
    /\ text' = [text EXCEPT ![n] = "recorded"]
    /\ UNCHANGED <<sourceVars, receipt, alters, own, inside>>

PersistReceipt(n) ==
    /\ text[n] # "absent"
    /\ receipt' = [receipt EXCEPT ![Place[n]] = n]
    /\ UNCHANGED <<sourceVars, text, alters, own, inside>>

(* An implementer, or anyone else with the project: other bytes, a link, a
   file that is too large. *)
Alter(n) ==
    /\ text[n] # "absent" /\ alters < Alters
    /\ \E t \in {"altered", "unreadable"} : text' = [text EXCEPT ![n] = t]
    /\ alters' = alters + 1
    /\ UNCHANGED <<sourceVars, receipt, own, inside>>

--------------------------------------------------------------------------------
(* lane repair                                                             *)

Forgets(r) == /\ left' = [left EXCEPT ![r] = Roots]
              /\ found' = [found EXCEPT ![r] = {}]
              /\ evidence' = [evidence EXCEPT ![r] = NoLog]
              /\ quoted' = [quoted EXCEPT ![r] = "absent"]

(* The engine file must be the committed one before the repair of it starts. *)
Verify(r) ==
    /\ \/ VerifyPin(r) \/ ShowHead(r) \/ VerifyCommitted(r)
       \/ pc[r] \in {"pinned", "shown"} /\ Reject(r)
    /\ UNCHANGED repairVars

(* newest_failure reads one project's receipt and the log it names, and
   remembers the log when the bytes are those the receipt vouches for. *)
Discover(r, root) ==
    /\ pc[r] = "resolved" /\ root \in left[r]
    /\ left' = [left EXCEPT ![r] = @ \ {root}]
    /\ found' = [found EXCEPT ![r] =
                    IF receipt[root] # NoLog /\ text[receipt[root]] = "recorded"
                    THEN @ \cup {receipt[root]} ELSE @]
    /\ UNCHANGED <<sourceVars, evidenceVars, evidence, quoted, inside>>

ChooseNewest(r) ==
    /\ left[r] = {} /\ Goes(r, "resolved", "chosen")
    /\ \E n \in found[r] : /\ \A m \in found[r] : m <= n
                           /\ evidence' = [evidence EXCEPT ![r] = n]
    /\ UNCHANGED <<repository, published, pin, commit, evidenceVars, left, found,
                   quoted, inside>>

(* --evidence: any log, vouched for or not. *)
ChooseGiven(r) ==
    /\ left[r] = Roots /\ Goes(r, "resolved", "chosen")
    /\ \E n \in Names : text[n] # "absent" /\ evidence' = [evidence EXCEPT ![r] = n]
    /\ left' = [left EXCEPT ![r] = {}]
    /\ UNCHANGED <<repository, published, pin, commit, evidenceVars, found,
                   quoted, inside>>

(* Defect: the brief quotes what is there, as it reads it. *)
BuildUnchecked(r) ==
    /\ Goes(r, "chosen", "brief")
    /\ text[evidence[r]] # "unreadable"
    /\ quoted' = [quoted EXCEPT ![r] = text[evidence[r]]]
    /\ UNCHANGED <<repository, published, pin, commit, evidenceVars, left, found,
                   evidence, inside>>

(* build_brief reads the log again. *)
BuildBrief(r) ==
    /\ Goes(r, "chosen", "brief")
    /\ text[evidence[r]] # "unreadable"
    /\ evidence[r] \in found[r] => text[evidence[r]] = "recorded"
    /\ quoted' = [quoted EXCEPT ![r] = text[evidence[r]]]
    /\ UNCHANGED <<repository, published, pin, commit, evidenceVars, left, found,
                   evidence, inside>>

(* No evidence, evidence that changed, --dry-run, a busy lock: no session. *)
Stop(r) ==
    /\ pc[r] \in {"resolved", "chosen", "brief"}
    /\ Leaves(r) /\ Forgets(r)
    /\ UNCHANGED <<repository, published, evidenceVars, inside>>

(* repair.lock, and the brief under a fresh name. *)
WriteBrief(r) ==
    /\ Goes(r, "brief", "session")
    /\ RepairLock!Enter(r)
    /\ UNCHANGED <<repository, published, pin, commit, evidenceVars, own>>

(* The session writes the engine file, and nothing else outside its state. *)
EditEngine(r) ==
    /\ pc[r] = "session"
    /\ \E b \in Bytes : Writes(b)
    /\ UNCHANGED <<history, head, published, pc, pin, commit, repairVars>>

(* It ends, it runs into its 30 minutes, or the lane dies and takes it along. *)
EndSession(r) ==
    /\ pc[r] = "session" /\ Leaves(r) /\ Forgets(r)
    /\ RepairLock!Leave(r)
    /\ UNCHANGED <<repository, published, evidenceVars>>

RunRepair(r) ==
    \/ Verify(r)
    \/ \E root \in Roots : Discover(r, root)
    \/ ChooseNewest(r) \/ ChooseGiven(r) \/ BuildBrief(r) \/ Stop(r)
    \/ WriteBrief(r) \/ EditEngine(r) \/ EndSession(r)

Source == \/ \E e \in Exporters : Export(e)
          \/ Operator

Init == SourceInit /\ RepairInit
Next == \/ Source /\ UNCHANGED repairVars
        \/ \E n \in Names : PersistLog(n) \/ PersistReceipt(n) \/ Alter(n)
        \/ \E r \in Repairers : RunRepair(r)
Spec == Init /\ [][Next]_allVars

--------------------------------------------------------------------------------
(* A brief whose log the lane found by itself quotes the bytes that the    *)
(* failing run recorded, although others may write the log between the two *)
(* reads of it and the receipt may meanwhile vouch for another.            *)
BriefIsRecorded ==
    \A r \in Repairers :
        pc[r] = "session" /\ evidence[r] \in found[r] => quoted[r] = "recorded"
================================================================================
