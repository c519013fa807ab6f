------------------------------- MODULE EngineRun -------------------------------
(***************************************************************************)
(* vendor/pack_and_ask.py, main's attempt loop and wait_for_turn_response: *)
(* one engine run against a browser that a person may touch.               *)
(*                                                                         *)
(* A run sends one message to a new chat (fresh), sends one to an existing *)
(* chat (continue) or sends nothing and reads (harvest).  Message k is the *)
(* one attempt k sends; turn 0 is a turn the existing chat 0 already has.  *)
(* A message sent from the home page makes chat k.  Turn t has its place   *)
(* in a chat and the state its answer is in.  Turn 0 comes first in its    *)
(* chat; the order in which late messages land there is left open.         *)
(***************************************************************************)
EXTENDS Integers, FiniteSets

CONSTANTS Attempts,     \* retries + 1
          Drifts,       \* bound on what a person does to the page
          Kills,        \* bound on the runs that are killed
          Home,         \* the page that starts a chat
          Nowhere,      \* no page, or a page that crashed
          NoChat, NoAnswer

Chats == 0 .. Attempts
Turns == 0 .. Attempts

ASSUME EngineAssumption == /\ Attempts \in Nat \ {0} /\ Drifts \in Nat /\ Kills \in Nat
                           /\ {Home, Nowhere, NoChat} \cap Int = {}
                           /\ Home # Nowhere

VARIABLES mode,      \* which of the three kinds of run
          long,      \* answers are longer than the copy check needs
          pc,
          attempt,   \* the attempt, 0 before the first
          at,        \* where the page is
          chat,      \* per turn, the chat it is in
          answer,    \* per turn, the state of its message or answer
          base,      \* answers the page showed before the send (base_ids)
          counts,    \* how many answers and copy buttons it showed
          conv,      \* conv_url: the chat the run is bound to
          followed,  \* continue_sent
          manifest,  \* the chat the run manifest on disk names
          cur,       \* the answer whose text was stable
          saved,     \* the response
          evidence,  \* history: messages the page was seen to hold
          moved,     \* history: the page was moved when nothing can tell
          drifts, kills

page == <<at, drifts, moved>>
site == <<chat, answer>>
asked == <<base, counts, followed, evidence>>
vars == <<mode, long, pc, attempt, page, site, asked, conv, manifest, cur, saved, kills>>

Unlanded == {"unsent", "inflight"}
AnswerStates == Unlanded \cup {"writing", "partial", "complete", "blocked"}
Ended == {"saved", "failed", "unknown", "killed"}
Labels == {"loop", "opening", "preparing", "clicking", "confirming", "binding",
           "waiting", "copying"} \cup Ended
None == [answers |-> 0, copies |-> 0]

TypeOK ==
    /\ mode \in {"fresh", "continue", "harvest"}
    /\ {long, followed, moved} \subseteq BOOLEAN
    /\ pc \in Labels
    /\ attempt \in 0 .. Attempts
    /\ at \in Chats \cup {Home, Nowhere}
    /\ chat \in [Turns -> Chats \cup {NoChat}]
    /\ answer \in [Turns -> AnswerStates]
    /\ base \subseteq Turns
    /\ counts \in [answers : Nat, copies : Nat]
    /\ {conv, manifest} \subseteq Chats \cup {NoChat}
    /\ cur \in Turns \cup {NoAnswer}
    /\ saved \in [turn : Turns, whole : BOOLEAN] \cup {NoAnswer}
    /\ evidence \subseteq Turns
    /\ drifts \in 0 .. Drifts
    /\ kills \in 0 .. Kills

Init == /\ mode \in {"fresh", "continue", "harvest"}
        /\ long \in BOOLEAN
        /\ pc = "loop" /\ attempt = 0
        /\ at = Nowhere
        /\ chat = [t \in Turns |-> IF t = 0 THEN 0 ELSE NoChat]
        /\ answer \in {[t \in Turns |-> IF t = 0 THEN a ELSE "unsent"] :
                       a \in AnswerStates \ Unlanded}
        /\ base = {} /\ counts = None
        /\ conv = IF mode = "fresh" THEN NoChat ELSE 0
        /\ followed = FALSE /\ manifest = NoChat
        /\ cur = NoAnswer /\ saved = NoAnswer
        /\ evidence = {} /\ moved = FALSE
        /\ drifts = 0 /\ kills = 0

(***************************************************************************)
(* What a page shows.  The home page shows the message it just took until  *)
(* the address changes to the chat that message made.                      *)
(***************************************************************************)
Shown(p) == {t \in Turns : answer[t] \notin Unlanded
                           /\ (chat[t] = p \/ (p = Home /\ t = attempt))}
Answers(p) == {t \in Shown(p) : answer[t] \in {"writing", "partial", "complete"}}
Copyable(p) == {t \in Shown(p) : answer[t] = "complete"}
Streaming(p) == \E t \in Shown(p) : answer[t] = "writing"

Last(turns) == IF turns = {0} THEN {0} ELSE turns \ {0}   \* may be the last of them

Sent == {k \in 1 .. Attempts : answer[k] # "unsent"}
Follows == mode = "continue" /\ ~followed

--------------------------------------------------------------------------------
(* The attempt loop.  Leaving an attempt closes its page (finally).        *)

Leave(next) == pc' = next /\ at' = Nowhere

BeginAttempt ==
    /\ pc = "loop" /\ saved = NoAnswer /\ attempt < Attempts
    /\ attempt' = attempt + 1
    /\ pc' = "opening"
    /\ UNCHANGED <<mode, long, page, site, asked, conv, manifest, cur, saved, kills>>

(* The loop is over: the response is written, or the run says how to harvest. *)
Finish ==
    /\ pc = "loop" /\ (saved # NoAnswer \/ attempt = Attempts)
    /\ pc' = IF saved # NoAnswer THEN "saved" ELSE "failed"
    /\ UNCHANGED <<mode, long, attempt, page, site, asked, conv, manifest, cur, saved, kills>>

(* A bound run goes to its chat, and sends only the one follow-up. *)
OpenBound ==
    /\ pc = "opening" /\ conv # NoChat
    /\ at' = conv
    /\ counts' = None
    /\ pc' = IF Follows THEN "preparing" ELSE "waiting"
    /\ UNCHANGED <<mode, long, attempt, drifts, moved, site, base, followed, evidence,
                   conv, manifest, cur, saved, kills>>

OpenHome ==
    /\ pc = "opening" /\ conv = NoChat
    /\ at' = Home
    /\ pc' = "preparing"
    /\ UNCHANGED <<mode, long, attempt, drifts, moved, site, asked, conv, manifest, cur,
                   saved, kills>>

(* A login wall, an unverified model, a missing attachment, a composer that
   does not hold the whole prompt, a browser that is not there: nothing is sent. *)
Refuse ==
    /\ pc \in {"opening", "preparing", "clicking"}
    /\ Leave("loop")
    /\ UNCHANGED <<mode, long, attempt, drifts, moved, site, asked, conv, manifest, cur,
                   saved, kills>>

Snapshot ==
    /\ pc = "preparing" /\ at # Nowhere
    /\ base' = Answers(at)
    /\ counts' = [answers |-> Cardinality(Answers(at)), copies |-> Cardinality(Copyable(at))]
    /\ pc' = "clicking"
    /\ UNCHANGED <<mode, long, attempt, page, site, followed, evidence, conv, manifest, cur,
                   saved, kills>>

(* The message is on its way, to the chat of the page that held the composer. *)
Post == /\ answer' = [answer EXCEPT ![attempt] = "inflight"]
        /\ chat' = [chat EXCEPT ![attempt] = IF at = Home THEN attempt ELSE at]

Click ==
    /\ pc = "clicking" /\ at # Nowhere
    /\ Post
    /\ followed' = (mode = "continue")
    /\ pc' = "confirming"
    /\ UNCHANGED <<mode, long, attempt, page, base, counts, evidence, conv, manifest, cur,
                   saved, kills>>

(* The click reached the page and then raised: the attempt is over. *)
ClickRaises ==
    /\ pc = "clicking" /\ at # Nowhere
    /\ Post
    /\ Leave("loop")
    /\ UNCHANGED <<mode, long, attempt, drifts, moved, asked, conv, manifest, cur, saved,
                   kills>>

--------------------------------------------------------------------------------
(* wait_for_turn_response.                                                 *)

(* 40 s: a new user turn, or an address that is a chat's. *)
Seen == at \in Chats \/ attempt \in Shown(at)

Confirm ==
    /\ pc = "confirming" /\ Seen
    /\ evidence' = evidence \cup {attempt}
    /\ pc' = IF conv = NoChat THEN "binding" ELSE "waiting"
    /\ UNCHANGED <<mode, long, attempt, page, site, base, counts, followed, conv, manifest,
                   cur, saved, kills>>

NotSent ==
    /\ pc = "confirming" /\ ~Seen
    /\ Leave("loop")
    /\ UNCHANGED <<mode, long, attempt, drifts, moved, site, asked, conv, manifest, cur,
                   saved, kills>>

(* capture_conv_url and on_bind; a manifest that cannot be written is let go. *)
Bind ==
    /\ pc = "binding" /\ at \in Chats
    /\ conv' = at
    /\ manifest' \in {manifest, at}
    /\ pc' = "waiting"
    /\ UNCHANGED <<mode, long, attempt, page, site, asked, cur, saved, kills>>

(* Defect: an unknown location is one more failed attempt. *)
BindFailsRetries ==
    /\ pc = "binding" /\ at \notin Chats
    /\ Leave("loop")
    /\ UNCHANGED <<mode, long, attempt, drifts, moved, site, asked, conv, manifest, cur,
                   saved, kills>>

(* sent_unknown_location: no second message, no waiting. *)
BindFails ==
    /\ pc = "binding" /\ at \notin Chats
    /\ Leave("unknown")
    /\ UNCHANGED <<mode, long, attempt, drifts, moved, site, asked, conv, manifest, cur,
                   saved, kills>>

(* The address is not the bound chat's any more: go back. *)
Return ==
    /\ pc = "waiting" /\ at \notin {conv, Nowhere}
    /\ at' = conv
    /\ UNCHANGED <<mode, long, pc, attempt, drifts, moved, site, asked, conv, manifest, cur,
                   saved, kills>>

(* last_turn_complete, and a text whose message id is new. *)
Complete == /\ ~Streaming(at)
            /\ Cardinality(Answers(at)) > counts.answers
            /\ Cardinality(Copyable(at)) > counts.copies
            /\ Answers(at) \ base # {}

(* Defect: the address is checked before the wait only. *)
SettleAnywhere ==
    /\ pc = "waiting" /\ Complete
    /\ cur' \in Last(Answers(at) \ base)
    /\ pc' = "copying"
    /\ UNCHANGED <<mode, long, attempt, page, site, asked, conv, manifest, saved, kills>>

Settle ==
    /\ pc = "waiting" /\ at = conv /\ Complete
    /\ cur' \in Last(Answers(at) \ base)
    /\ pc' = "copying"
    /\ UNCHANGED <<mode, long, attempt, page, site, asked, conv, manifest, saved, kills>>

Saves(turn) == saved' = [turn |-> turn, whole |-> answer[turn] = "complete"]

(* copy_last_turn: the text under a copy button of whatever page is there,
   unless it does not hold the middle of the text that was stable. *)
Copy ==
    /\ pc = "copying"
    /\ Cardinality(Copyable(at)) > counts.copies
    /\ \E turn \in Last(Copyable(at)) : (turn = cur \/ ~long) /\ Saves(turn)
    /\ cur' = NoAnswer
    /\ Leave("loop")
    /\ UNCHANGED <<mode, long, attempt, drifts, moved, site, asked, conv, manifest, kills>>

(* Nothing usable was copied: the text the page showed. *)
TakeShown ==
    /\ pc = "copying"
    /\ Saves(cur)
    /\ cur' = NoAnswer
    /\ Leave("loop")
    /\ UNCHANGED <<mode, long, attempt, drifts, moved, site, asked, conv, manifest, kills>>

(* A usage limit where an answer should be ends the run. *)
Quota ==
    /\ pc = "waiting" /\ at = conv /\ ~Complete
    /\ \E t \in Shown(at) : answer[t] = "blocked"
    /\ Leave("failed")
    /\ UNCHANGED <<mode, long, attempt, drifts, moved, site, asked, conv, manifest, cur,
                   saved, kills>>

(* Defect: the loop goes back to the chat before it looks at the clock. *)
TimeoutOnChat ==
    /\ pc = "waiting" /\ at = conv
    /\ Leave("loop")
    /\ UNCHANGED <<mode, long, attempt, drifts, moved, site, asked, conv, manifest, cur,
                   saved, kills>>

(* The deadline: an unfinished answer is not saved. *)
Timeout ==
    /\ pc = "waiting"
    /\ Leave("loop")
    /\ UNCHANGED <<mode, long, attempt, drifts, moved, site, asked, conv, manifest, cur,
                   saved, kills>>

--------------------------------------------------------------------------------
(* The rest of the world.                                                  *)

(* A message lands late or never; an answer stops, goes on, ends or is refused. *)
Moves == {<<"inflight", "writing">>, <<"writing", "partial">>, <<"partial", "writing">>,
          <<"writing", "complete">>, <<"writing", "blocked">>}

Progress(t) ==
    /\ \E m \in Moves : answer[t] = m[1] /\ answer' = [answer EXCEPT ![t] = m[2]]
    /\ UNCHANGED <<mode, long, pc, attempt, page, chat, asked, conv, manifest, cur, saved,
                   kills>>

(* The home page takes the address of the chat its message made. *)
Flip ==
    /\ at = Home /\ attempt \in Shown(Home)
    /\ at' = attempt
    /\ UNCHANGED <<mode, long, pc, attempt, drifts, moved, site, asked, conv, manifest, cur,
                   saved, kills>>

(* The window is not to be touched.  If it is, the waiting loop can tell, and
   so can the check of a copied text that is long enough. *)
Drift(p) ==
    /\ drifts < Drifts /\ at \notin {Nowhere, p}
    /\ at' = p
    /\ drifts' = drifts + 1
    /\ moved' = (moved \/ ~(pc = "waiting" \/ (pc = "copying" /\ long)))
    /\ UNCHANGED <<mode, long, pc, attempt, site, asked, conv, manifest, cur, saved, kills>>

(* The run is killed, and another harvests the chat its manifest names. *)
Kill ==
    /\ pc \notin Ended /\ kills < Kills
    /\ Leave("killed")
    /\ cur' = NoAnswer
    /\ kills' = kills + 1
    /\ UNCHANGED <<mode, long, attempt, drifts, moved, site, asked, conv, manifest, saved>>

Harvest ==
    /\ pc \in {"killed", "failed"} /\ manifest # NoChat
    /\ mode' = "harvest"
    /\ pc' = "loop" /\ attempt' = 0
    /\ conv' = manifest
    /\ base' = {} /\ followed' = FALSE /\ saved' = NoAnswer
    /\ UNCHANGED <<long, page, site, counts, evidence, manifest, cur, kills>>

EngineStep ==
    \/ BeginAttempt \/ Finish \/ OpenBound \/ OpenHome \/ Refuse \/ Snapshot
    \/ Click \/ ClickRaises \/ Confirm \/ NotSent \/ Bind \/ BindFails
    \/ Return \/ Settle \/ Copy \/ TakeShown \/ Quota \/ Timeout

Sites == {t \in Turns : answer[t] \notin Unlanded}

World ==
    \/ \E t \in Turns : Progress(t)
    \/ Flip
    \/ \E p \in {chat[t] : t \in Sites} \cup {Nowhere} : Drift(p)
    \/ Kill \/ Harvest

Next == EngineStep \/ World
Spec == Init /\ [][Next]_vars
FairSpec == Spec /\ WF_vars(EngineStep)

--------------------------------------------------------------------------------
(* Properties.                                                             *)

(* What a run saves is the answer it asked for.  In a chat that this run,  *)
(* or the killed one it harvests for, made: that chat's own turn, finished. *)
(* After a follow-up: never the turn that was complete when it was sent.   *)
(* It holds however the browser is slow and however the run is retried, as *)
(* long as nobody moves the page where the engine cannot tell.             *)
SavedIsOwnAnswer ==
    saved # NoAnswer /\ ~moved =>
        /\ conv # 0 => chat[saved.turn] = conv /\ saved.whole
        /\ 0 \in base /\ (long \/ counts.copies > 0) => saved.turn # 0

(* A message is sent again only blindly: once the page was seen to hold a  *)
(* message (its turn, or the address it made), no attempt sends another,   *)
(* whether or not the run could tell where that message went.              *)
ResendIsBlind == \A k \in evidence : \A j \in Sent : j <= k

(* One message per run.  (repair.py:58: "sending is once ... A retry after *)
(* a send must not resend".)                                               *)
OneMessagePerRun == Cardinality({k \in Sent : answer[k] # "inflight"}) <= 1

(* A run ends, unless it is killed: its attempts and its waits are bounded. *)
RunEnds == <>(pc \in Ended)
================================================================================
