------------------------------ MODULE EngineSource ------------------------------
(***************************************************************************)
(* src/lane/engine.py: vendor/pack_and_ask.py in its repository, and       *)
(* `lane engine export`, which publishes the committed bytes beside a      *)
(* provenance record.                                                      *)
(*                                                                         *)
(* A call carries the digest its build was pinned to, and may be of any    *)
(* build; the bytes themselves stand for their digest.  The operator       *)
(* edits, commits and checks out at any time, and no lock covers the file, *)
(* nor the destination: exports of any builds overlap there as they please.*)
(***************************************************************************)
EXTENDS Integers, Sequences

CONSTANTS Bytes,       \* contents of the engine file
          NoBytes,
          Exporters,   \* lane engine export
          Repairers,   \* lane repair
          Commits      \* bound on the commits

Procs == Exporters \cup Repairers

ASSUME SourceAssumption == /\ NoBytes \notin Bytes
                           /\ Commits \in Nat \ {0}
                           /\ Exporters \cap Repairers = {}

VARIABLES work,      \* vendor/pack_and_ask.py in the worktree
          history,   \* commits: the engine in each
          head,      \* HEAD
          dest,      \* the consumer's copy
          marker,    \* its provenance record
          crossed,   \* history: exports of different builds published at once
          pc,        \* per process, where it is
          pin,       \* per process, the bytes its build was pinned to
          commit     \* per process, the commit it reads

repository == <<work, history, head>>
published == <<dest, marker, crossed>>
sourceVars == <<repository, published, pc, pin, commit>>

NoMarker == [sha256 |-> NoBytes, source_commit |-> 0]
Markers == [sha256 : Bytes, source_commit : 1 .. Commits] \cup {NoMarker}
Stages == {"away", "pinned", "shown", "resolved", "committed", "blob", "cleared", "replaced",
           "chosen", "brief", "session"}

SourceTypeOK ==
    /\ work \in Bytes
    /\ history \in Seq(Bytes) /\ Len(history) \in 1 .. Commits
    /\ head \in 1 .. Len(history)
    /\ dest \in Bytes \cup {NoBytes}
    /\ marker \in Markers
    /\ crossed \in BOOLEAN
    /\ pc \in [Procs -> Stages]
    /\ pin \in [Procs -> Bytes \cup {NoBytes}]
    /\ commit \in [Procs -> 0 .. Commits]

SourceInit == /\ \E b \in Bytes : work = b /\ history = <<b>>
              /\ head = 1
              /\ dest \in Bytes \cup {NoBytes} /\ marker = NoMarker
              /\ crossed = FALSE
              /\ pc = [p \in Procs |-> "away"]
              /\ pin = [p \in Procs |-> NoBytes]
              /\ commit = [p \in Procs |-> 0]

Leaves(p) == /\ pc' = [pc EXCEPT ![p] = "away"]
             /\ pin' = [pin EXCEPT ![p] = NoBytes]
             /\ commit' = [commit EXCEPT ![p] = 0]

Goes(p, from, to) == pc[p] = from /\ pc' = [pc EXCEPT ![p] = to]

--------------------------------------------------------------------------------
(* resolve: two looks at the file and one at HEAD, each at its own time.   *)

VerifyPin(p) ==
    /\ Goes(p, "away", "pinned")
    /\ pin' = [pin EXCEPT ![p] = work]
    /\ UNCHANGED <<repository, published, commit>>

(* git show HEAD: the commit whose engine it has in hand. *)
ShowHead(p) ==
    /\ Goes(p, "pinned", "shown")
    /\ commit' = [commit EXCEPT ![p] = head]
    /\ UNCHANGED <<repository, published, pin>>

(* The file is read again and compared with what git showed; only an export
   needs its pin again. *)
VerifyCommitted(p) ==
    /\ Goes(p, "shown", "resolved")
    /\ history[commit[p]] = work
    /\ commit' = [commit EXCEPT ![p] = 0]
    /\ pin' = IF p \in Exporters THEN pin ELSE [pin EXCEPT ![p] = NoBytes]
    /\ UNCHANGED <<repository, published>>

(* EngineError: a dirty file, a moved HEAD, a git that fails or is not there. *)
Reject(p) ==
    /\ pc[p] \in {"pinned", "shown", "resolved", "committed"}
    /\ Leaves(p)
    /\ UNCHANGED <<repository, published>>

--------------------------------------------------------------------------------
(* export                                                                  *)

ReadCommit(e) ==
    /\ Goes(e, "resolved", "committed")
    /\ commit' = [commit EXCEPT ![e] = head]
    /\ UNCHANGED <<repository, published, pin>>

ReadBlob(e) ==
    /\ Goes(e, "committed", "blob")
    /\ history[commit[e]] = pin[e]
    /\ UNCHANGED <<repository, published, pin, commit>>

Publishers == {q \in Exporters : pc[q] \in {"cleared", "replaced"}}

(* Two builds publish at once from the moment an export finds another build's
   at work until one starts to publish with nobody else at it. *)
Joins(e) == crossed' = /\ Publishers # {}
                       /\ crossed \/ \E q \in Publishers : pin[q] # pin[e]

(* Defect: the record is only replaced, at the end. *)
KeepMarker(e) ==
    /\ Goes(e, "blob", "cleared")
    /\ Joins(e)
    /\ UNCHANGED <<repository, dest, marker, pin, commit>>

ClearMarker(e) ==
    /\ Goes(e, "blob", "cleared")
    /\ marker' = NoMarker
    /\ Joins(e)
    /\ UNCHANGED <<repository, dest, pin, commit>>

Replace(e) ==
    /\ Goes(e, "cleared", "replaced")
    /\ dest' = pin[e]
    /\ UNCHANGED <<repository, marker, crossed, pin, commit>>

WriteMarker(e) ==
    /\ pc[e] = "replaced"
    /\ marker' = [sha256 |-> pin[e], source_commit |-> commit[e]]
    /\ Leaves(e)
    /\ UNCHANGED <<repository, dest, crossed>>

(* Killed, or a write that failed: nothing is undone. *)
Abandon(e) ==
    /\ pc[e] \in {"blob", "cleared", "replaced"}
    /\ Leaves(e)
    /\ UNCHANGED <<repository, published>>

Export(e) == \/ VerifyPin(e) \/ ShowHead(e) \/ VerifyCommitted(e) \/ Reject(e)
             \/ ReadCommit(e) \/ ReadBlob(e) \/ ClearMarker(e) \/ Replace(e)
             \/ WriteMarker(e) \/ Abandon(e)

--------------------------------------------------------------------------------
(* The operator and git.                                                   *)

Writes(b) == work' = b

Edit == /\ \E b \in Bytes : Writes(b)
        /\ UNCHANGED <<history, head, published, pc, pin, commit>>

Commit == /\ Len(history) < Commits
          /\ history' = Append(history, work)
          /\ head' = Len(history')
          /\ UNCHANGED <<work, published, pc, pin, commit>>

Checkout == /\ head' \in 1 .. Len(history)
            /\ Writes(history[head'])
            /\ UNCHANGED <<history, published, pc, pin, commit>>

Operator == Edit \/ Commit \/ Checkout

--------------------------------------------------------------------------------
(* A provenance record tells the truth: the commit it names holds the bytes *)
(* whose digest it gives, and the consumer's copy is these bytes, whatever  *)
(* crashed before, and wherever HEAD and the file moved while exports ran.  *)
(* The half on the copy has exports of different builds kept apart by       *)
(* whoever starts them: the code does not, and where they cross the record  *)
(* of one may end up beside the copy of the other.                          *)
MarkerIsTrue ==
    marker # NoMarker => /\ history[marker.source_commit] = marker.sha256
                         /\ ~crossed => dest = marker.sha256
================================================================================
