-------------------------------- MODULE Salvage --------------------------------
(***************************************************************************)
(* src/lane/salvage.py: `lane salvage URL` beside an engine run.  It takes *)
(* no lock: it reads the page that shows the chat, which may be the        *)
(* engine's own, or a tab of its own that it opens and closes, and files   *)
(* what it read as unverified text of the chat it was asked for.           *)
(***************************************************************************)
EXTENDS EngineRun

CONSTANTS Salvages   \* bound on the calls

ASSUME SalvageAssumption == Salvages \in Nat

VARIABLES wanted,    \* the chat asked for
          view,      \* the page it holds: the engine's, its own, one that closed
          reading,   \* the answers read from it
          files,     \* salvaged files: the chat named and the text under it
          calls

salvage == <<wanted, view, reading, files, calls>>
allVars == <<vars, salvage>>

NoReading == [answers |-> {}, read |-> FALSE]
Readings == [answers : SUBSET Turns, read : BOOLEAN]

SalvageTypeOK ==
    /\ wanted \in Chats \cup {NoChat}
    /\ view \in {"none", "engine", "own", "closed"}
    /\ reading \in Readings
    /\ files \subseteq [of : Chats, text : SUBSET Turns]
    /\ calls \in 0 .. Salvages

SalvageInit == /\ Init
               /\ wanted = NoChat /\ view = "none" /\ reading = NoReading
               /\ files = {} /\ calls = 0

(* Defect: any open page of the browser will do. *)
FindAnyPage ==
    /\ wanted = NoChat /\ calls < Salvages
    /\ \E t \in Sites : wanted' = chat[t]
    /\ view' = IF at # Nowhere THEN "engine" ELSE "own"
    /\ calls' = calls + 1
    /\ UNCHANGED <<vars, reading, files>>

(* The open page with the chat's id in its address, else a new tab. *)
FindPage ==
    /\ wanted = NoChat /\ calls < Salvages
    /\ \E t \in Sites : wanted' = chat[t]
    /\ view' = IF at = wanted' THEN "engine" ELSE "own"
    /\ calls' = calls + 1
    /\ UNCHANGED <<vars, reading, files>>

Under == IF view = "engine" THEN at ELSE wanted

(* The engine closes its page whoever else holds it. *)
Follow == /\ view' = IF view = "engine" /\ at' = Nowhere THEN "closed" ELSE view
          /\ UNCHANGED <<wanted, reading, files, calls>>

(* The text of the assistant turns; the whole page when there is none. *)
ReadPage ==
    /\ wanted # NoChat /\ view # "closed" /\ ~reading.read
    /\ reading' = [answers |-> Answers(Under), read |-> TRUE]
    /\ UNCHANGED <<vars, wanted, view, files, calls>>

Done == wanted' = NoChat /\ view' = "none" /\ reading' = NoReading

(* Its own tab is closed before the file is written, under a name no file has. *)
Write ==
    /\ reading.read
    /\ files' = files \cup {[of |-> wanted, text |-> reading.answers]}
    /\ Done
    /\ UNCHANGED <<vars, calls>>

(* No browser, a page that went away, no text, a directory that is a link:
   nothing is filed, and a file begun is removed. *)
GiveUp ==
    /\ wanted # NoChat
    /\ Done
    /\ UNCHANGED <<vars, files, calls>>

SalvageStep == FindPage \/ ReadPage \/ Write \/ GiveUp
SalvageNext == (Next /\ Follow) \/ SalvageStep
SalvageSpec == SalvageInit /\ [][SalvageNext]_allVars
SalvageFairSpec == SalvageSpec /\ WF_allVars(EngineStep /\ Follow)

(* Salvaged text is of the chat the file names, although the page it was   *)
(* read from may be the engine's, which the engine may meanwhile close or  *)
(* move: only a person who moves that page can mislead it.                 *)
SalvageIsOfItsChat ==
    drifts = 0 => \A file \in files : \A t \in file.text : chat[t] = file.of
================================================================================
