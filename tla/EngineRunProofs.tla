---------------------------- MODULE EngineRunProofs ----------------------------
(***************************************************************************)
(* What holds of an engine run for every number of attempts and whatever a *)
(* person does to the page, and of a salvage beside it.                    *)
(***************************************************************************)
EXTENDS Salvage, FiniteSetTheorems, TLAPS

LEMMA CountNone == Cardinality({}) = 0
BY FS_EmptySet

LEMMA CountOne == \A x : Cardinality({x}) = 1
BY FS_Singleton

(* A set with more elements than a natural number has one. *)
LEMMA MoreThan ==
    ASSUME NEW S, NEW n \in Nat, Cardinality(S) > n
    PROVE S # {}
BY CountNone

LEMMA Apart ==
    /\ Home \notin Chats /\ Nowhere \notin Chats /\ NoChat \notin Chats
    /\ Home # Nowhere /\ Attempts \in Nat \ {0} /\ 0 \in Chats /\ 0 \in Turns /\ Chats = Turns
    /\ Drifts \in Nat /\ Kills \in Nat
<1>1. \A c \in Chats : c \in Int
  BY EngineAssumption DEF Chats
<1> QED
  BY <1>1, EngineAssumption DEF Chats, Turns

LEMMA FewTurns ==
    ASSUME NEW S, S \subseteq Turns
    PROVE IsFiniteSet(S) /\ Cardinality(S) \in Nat
<1>1. IsFiniteSet(Turns)
  BY FS_Interval, EngineAssumption DEF Turns
<1> QED
  BY <1>1, FS_Subset, FS_CardinalityType

(* The turns a chat's page shows are the turns in that chat. *)
LEMMA ShownInChat ==
    ASSUME TypeOK, NEW c \in Chats
    PROVE \A t \in Shown(c) : t \in Turns /\ chat[t] = c /\ answer[t] \notin Unlanded
BY Apart DEF TypeOK, Shown

--------------------------------------------------------------------------------
(* The invariant.                                                          *)

(* A message is still to be sent only while none was seen, and a run that  *)
(* harvests is past sending.                                               *)
Sending ==
    /\ evidence # {} =>
         \/ pc \in {"binding", "unknown", "killed"}
         \/ /\ conv # NoChat /\ ~Follows
            /\ pc \notin {"preparing", "clicking", "confirming"}
    /\ pc \in {"confirming", "binding"} => ~Follows
    /\ pc = "binding" => conv = NoChat
    /\ mode = "harvest" =>
         conv # NoChat /\ pc \notin {"preparing", "clicking", "confirming", "binding"}
    /\ mode # "harvest" => \A j \in Sent : j <= attempt
    /\ pc \in {"preparing", "clicking"} \/ (pc = "opening" /\ mode # "harvest") =>
         attempt # 0 /\ answer[attempt] = "unsent"
    /\ pc = "confirming" => attempt # 0

(* Unless the page was moved unseen, each chat but the old one holds one turn. *)
Placing ==
    /\ mode = "continue" => conv = 0
    /\ \A t \in Turns : answer[t] # "unsent" => chat[t] \in Chats
    /\ ~moved => /\ \A t \in Turns : chat[t] \in {NoChat, 0, t}
                 /\ pc \in {"preparing", "clicking"} => at \in {Home, 0, Nowhere}

(* What is about to be copied, and what was saved. *)
Copying ==
    /\ pc \in {"waiting", "copying"} => conv # NoChat
    /\ pc = "copying" =>
         /\ cur \in Turns \ base
         /\ ~moved => /\ chat[cur] = conv
                      /\ conv # 0 => answer[cur] = "complete"
                      /\ ~long => at = conv

Saving ==
    /\ saved # NoAnswer => pc \in {"loop", "saved", "killed"}
    /\ SavedIsOwnAnswer

Inv == TypeOK /\ Sending /\ Placing /\ Copying /\ Saving /\ ResendIsBlind

(* Every kind of run starts within these states. *)
THEOREM Initial == Init => Inv
<1> SUFFICES ASSUME Init PROVE Inv
  OBVIOUS
<1>1. TypeOK
  <2>1. answer \in [Turns -> AnswerStates]
    BY DEF Init, AnswerStates, Unlanded
  <2>2. chat \in [Turns -> Chats \cup {NoChat}]
    BY Apart DEF Init
  <2>3. mode \in {"fresh", "continue", "harvest"} /\ conv \in Chats \cup {NoChat}
        /\ manifest \in Chats \cup {NoChat}
    BY Apart DEF Init
  <2>4. long \in BOOLEAN /\ followed \in BOOLEAN /\ moved \in BOOLEAN
    BY DEF Init
  <2>5. counts \in [answers : Nat,
       copies : Nat] /\ base \subseteq Turns /\ evidence \subseteq Turns
    BY DEF Init, None
  <2>6. pc \in Labels /\ attempt \in 0 .. Attempts /\ drifts \in 0 .. Drifts /\ kills \in 0 .. Kills
        /\ at = Nowhere /\ cur = NoAnswer /\ saved = NoAnswer
    BY Apart DEF Init, Labels
  <2> QED
    BY <2>1, <2>2, <2>3, <2>4, <2>5, <2>6 DEF TypeOK
<1>2. Sent = {}
  BY Apart DEF Init, Sent, Turns
<1>3. Sending /\ ResendIsBlind
  BY <1>2, Apart DEF Init, Sending, ResendIsBlind, Follows
<1>4. Placing /\ Copying /\ Saving
  BY Apart DEF Init, Placing, Copying, Saving, SavedIsOwnAnswer
<1> QED
  BY <1>1, <1>3, <1>4 DEF Inv

--------------------------------------------------------------------------------
(* Each step keeps the invariant.                                          *)

LEMMA BeginAttemptKeeps ==
    ASSUME Inv, BeginAttempt
    PROVE Inv'
<1>1. TypeOK'
  BY EngineAssumption, Apart DEF Inv, TypeOK, page, site, asked, Labels, Ended,
     BeginAttempt
<1>2. Sending'
  BY EngineAssumption, Apart DEF Inv, TypeOK, page, site, asked, Sending, Follows,
     Sent, BeginAttempt
<1>3. Placing'
  BY DEF Inv, page, site, asked, Placing, Sending, Follows, BeginAttempt
<1>4. Copying'
  BY DEF Inv, page, site, asked, Copying, BeginAttempt
<1>5. Saving'
  BY DEF Inv, page, site, asked, Saving, Copying, Placing, SavedIsOwnAnswer,
     BeginAttempt
<1>6. ResendIsBlind'
  BY DEF Inv, page, site, asked, ResendIsBlind, Sending, Sent, Follows, BeginAttempt
<1> QED
  BY <1>1, <1>2, <1>3, <1>4, <1>5, <1>6 DEF Inv

LEMMA FinishKeeps ==
    ASSUME Inv, Finish
    PROVE Inv'
<1>1. TypeOK'
  BY DEF Inv, TypeOK, page, site, asked, Labels, Ended, Finish
<1>2. Sending'
  BY DEF Inv, page, site, asked, Sending, Follows, Sent, Finish
<1>3. Placing'
  BY DEF Inv, page, site, asked, Placing, Sending, Follows, Finish
<1>4. Copying'
  BY DEF Inv, page, site, asked, Copying, Finish
<1>5. Saving'
  BY DEF Inv, page, site, asked, Saving, Copying, Placing, SavedIsOwnAnswer, Finish
<1>6. ResendIsBlind'
  BY DEF Inv, page, site, asked, ResendIsBlind, Sending, Sent, Follows, Finish
<1> QED
  BY <1>1, <1>2, <1>3, <1>4, <1>5, <1>6 DEF Inv

LEMMA OpenBoundKeeps ==
    ASSUME Inv, OpenBound
    PROVE Inv'
<1>1. TypeOK'
  BY DEF Inv, TypeOK, site, None, Labels, Ended, OpenBound
<1>2. Sending'
  BY DEF Inv, site, None, Sending, Follows, Sent, OpenBound
<1>3. Placing'
  BY DEF Inv, site, None, Placing, Sending, Follows, OpenBound
<1>4. Copying'
  BY DEF Inv, site, None, Copying, OpenBound
<1>5. Saving'
  BY DEF Inv, site, None, Saving, Copying, Placing, SavedIsOwnAnswer, OpenBound
<1>6. ResendIsBlind'
  BY DEF Inv, site, None, ResendIsBlind, Sending, Sent, Follows, OpenBound
<1> QED
  BY <1>1, <1>2, <1>3, <1>4, <1>5, <1>6 DEF Inv

LEMMA OpenHomeKeeps ==
    ASSUME Inv, OpenHome
    PROVE Inv'
<1>1. TypeOK'
  BY DEF Inv, TypeOK, site, asked, Labels, Ended, OpenHome
<1>2. Sending'
  BY DEF Inv, site, asked, Sending, Follows, Sent, OpenHome
<1>3. Placing'
  BY DEF Inv, site, asked, Placing, Sending, Follows, OpenHome
<1>4. Copying'
  BY DEF Inv, site, asked, Copying, OpenHome
<1>5. Saving'
  BY DEF Inv, site, asked, Saving, Copying, Placing, SavedIsOwnAnswer, OpenHome
<1>6. ResendIsBlind'
  BY DEF Inv, site, asked, ResendIsBlind, Sending, Sent, Follows, OpenHome
<1> QED
  BY <1>1, <1>2, <1>3, <1>4, <1>5, <1>6 DEF Inv

LEMMA RefuseKeeps ==
    ASSUME Inv, Refuse
    PROVE Inv'
<1>1. TypeOK'
  BY DEF Inv, TypeOK, site, asked, Leave, Labels, Ended, Refuse
<1>2. Sending'
  BY DEF Inv, site, asked, Leave, Sending, Follows, Sent, Refuse
<1>3. Placing'
  BY DEF Inv, site, asked, Leave, Placing, Sending, Follows, Refuse
<1>4. Copying'
  BY DEF Inv, site, asked, Leave, Copying, Refuse
<1>5. Saving'
  BY DEF Inv, site, asked, Leave, Saving, Copying, Placing, SavedIsOwnAnswer, Refuse
<1>6. ResendIsBlind'
  BY DEF Inv, site, asked, Leave, ResendIsBlind, Sending, Sent, Follows, Refuse
<1> QED
  BY <1>1, <1>2, <1>3, <1>4, <1>5, <1>6 DEF Inv

LEMMA SnapshotKeeps ==
    ASSUME Inv, Snapshot
    PROVE Inv'
<1>1. TypeOK'
  <2>1. Answers(at) \subseteq Turns /\ Copyable(at) \subseteq Turns
    BY DEF Answers, Copyable, Shown
  <2>2. Cardinality(Answers(at)) \in Nat /\ Cardinality(Copyable(at)) \in Nat
    BY <2>1, FewTurns
  <2> QED
    BY <2>1, <2>2 DEF Inv, TypeOK, page, site, Labels, Ended, Snapshot
<1>2. Sending'
  BY DEF Inv, page, site, Sending, Follows, Sent, Snapshot
<1>3. Placing'
  BY DEF Inv, page, site, Placing, Sending, Follows, Snapshot
<1>4. Copying'
  BY DEF Inv, page, site, Copying, Snapshot
<1>5. Saving'
  BY DEF Inv, page, site, Saving, Copying, Placing, SavedIsOwnAnswer, Snapshot
<1>6. ResendIsBlind'
  BY DEF Inv, page, site, ResendIsBlind, Sending, Sent, Follows, Snapshot
<1> QED
  BY <1>1, <1>2, <1>3, <1>4, <1>5, <1>6 DEF Inv

LEMMA ClickKeeps ==
    ASSUME Inv, Click
    PROVE Inv'
<1>1. TypeOK'
  BY EngineAssumption, Apart DEF Inv, TypeOK, page, Labels, Ended, AnswerStates,
     Unlanded, Click, Post
<1>2. Sending'
  <2>1. evidence = {} /\ attempt # 0 /\ mode # "harvest"
    BY DEF Inv, TypeOK, page, site, asked, Leave, None, Labels, Ended, AnswerStates,
       Unlanded, Sending, Click
  <2>2. mode' # "continue" \/ followed'
    BY DEF Click
  <2>3. \A j \in Sent' : j <= attempt
    BY <2>1 DEF Inv, page, Sending, Click, Post, Sent
  <2>4. pc' = "confirming" /\ evidence' = evidence /\ attempt' = attempt /\ mode' = mode
    BY DEF Click
  <2> QED
    BY <2>1, <2>2, <2>3, <2>4 DEF Sending, Follows
<1>3. Placing'
  BY EngineAssumption, Apart DEF Inv, TypeOK, page, Placing, Sending, Follows, Click,
     Post
<1>4. Copying'
  BY DEF Inv, page, Copying, Click, Post
<1>5. Saving'
  BY DEF Inv, page, Saving, Copying, Placing, SavedIsOwnAnswer, Click, Post
<1>6. ResendIsBlind'
  BY DEF Inv, page, ResendIsBlind, Sending, Sent, Follows, Click, Post
<1> QED
  BY <1>1, <1>2, <1>3, <1>4, <1>5, <1>6 DEF Inv

LEMMA ClickRaisesKeeps ==
    ASSUME Inv, ClickRaises
    PROVE Inv'
<1>1. TypeOK'
  BY EngineAssumption, Apart DEF Inv, TypeOK, asked, Leave, Labels, Ended,
     AnswerStates, Unlanded, ClickRaises, Post
<1>2. Sending'
  BY DEF Inv, asked, Leave, Sending, Follows, Sent, ClickRaises, Post
<1>3. Placing'
  BY EngineAssumption, Apart DEF Inv, TypeOK, asked, Leave, Placing, Sending,
     Follows, ClickRaises, Post
<1>4. Copying'
  BY DEF Inv, asked, Leave, Copying, ClickRaises, Post
<1>5. Saving'
  BY DEF Inv, asked, Leave, Saving, Copying, Placing, SavedIsOwnAnswer, ClickRaises,
     Post
<1>6. ResendIsBlind'
  BY DEF Inv, asked, Leave, ResendIsBlind, Sending, Sent, Follows, ClickRaises, Post
<1> QED
  BY <1>1, <1>2, <1>3, <1>4, <1>5, <1>6 DEF Inv

LEMMA ConfirmKeeps ==
    ASSUME Inv, Confirm
    PROVE Inv'
<1>1. TypeOK'
  BY EngineAssumption, Apart DEF Inv, TypeOK, page, site, Labels, Ended, Chats,
     Turns, Confirm
<1>2. Sending'
  BY DEF Inv, page, site, Sending, Follows, Sent, Confirm
<1>3. Placing'
  BY DEF Inv, page, site, Placing, Sending, Follows, Confirm
<1>4. Copying'
  BY DEF Inv, page, site, Copying, Confirm
<1>5. Saving'
  BY DEF Inv, page, site, Saving, Copying, Placing, SavedIsOwnAnswer, Confirm
<1>6. ResendIsBlind'
  BY DEF Inv, page, site, ResendIsBlind, Sending, Sent, Follows, Confirm
<1> QED
  BY <1>1, <1>2, <1>3, <1>4, <1>5, <1>6 DEF Inv

LEMMA NotSentKeeps ==
    ASSUME Inv, NotSent
    PROVE Inv'
<1>1. TypeOK'
  BY DEF Inv, TypeOK, site, asked, Leave, Labels, Ended, NotSent
<1>2. Sending'
  BY DEF Inv, site, asked, Leave, Sending, Follows, Sent, NotSent
<1>3. Placing'
  BY DEF Inv, site, asked, Leave, Placing, Sending, Follows, NotSent
<1>4. Copying'
  BY DEF Inv, site, asked, Leave, Copying, NotSent
<1>5. Saving'
  BY DEF Inv, site, asked, Leave, Saving, Copying, Placing, SavedIsOwnAnswer, NotSent
<1>6. ResendIsBlind'
  BY DEF Inv, site, asked, Leave, ResendIsBlind, Sending, Sent, Follows, NotSent
<1> QED
  BY <1>1, <1>2, <1>3, <1>4, <1>5, <1>6 DEF Inv

LEMMA BindKeeps ==
    ASSUME Inv, Bind
    PROVE Inv'
<1>1. TypeOK'
  BY DEF Inv, TypeOK, page, site, asked, Labels, Ended, Bind
<1>2. Sending'
  <2>1. pc' = "waiting" /\ conv' # NoChat /\ mode # "harvest" /\ ~Follows /\ mode' = mode
        /\ followed' = followed /\ Sent' = Sent /\ attempt' = attempt
    BY Apart DEF Inv, TypeOK, page, site, asked, Sending, Bind, Follows, Sent
  <2> QED
    BY <2>1 DEF Inv, Sending, Follows
<1>3. Placing'
  BY EngineAssumption, Apart DEF Inv, TypeOK, page, site, asked, Placing, Sending,
     Follows, Bind
<1>4. Copying'
  BY EngineAssumption, Apart DEF Inv, TypeOK, page, site, asked, Copying, Bind
<1>5. Saving'
  BY DEF Inv, page, site, asked, Saving, Copying, Placing, SavedIsOwnAnswer, Bind
<1>6. ResendIsBlind'
  BY DEF Inv, page, site, asked, ResendIsBlind, Sending, Sent, Follows, Bind
<1> QED
  BY <1>1, <1>2, <1>3, <1>4, <1>5, <1>6 DEF Inv

LEMMA BindFailsKeeps ==
    ASSUME Inv, BindFails
    PROVE Inv'
<1>1. TypeOK'
  BY DEF Inv, TypeOK, site, asked, Leave, Labels, Ended, BindFails
<1>2. Sending'
  BY DEF Inv, site, asked, Leave, Sending, Follows, Sent, BindFails
<1>3. Placing'
  BY DEF Inv, site, asked, Leave, Placing, Sending, Follows, BindFails
<1>4. Copying'
  BY DEF Inv, site, asked, Leave, Copying, BindFails
<1>5. Saving'
  BY DEF Inv, site, asked, Leave, Saving, Copying, Placing, SavedIsOwnAnswer, BindFails
<1>6. ResendIsBlind'
  BY DEF Inv, site, asked, Leave, ResendIsBlind, Sending, Sent, Follows, BindFails
<1> QED
  BY <1>1, <1>2, <1>3, <1>4, <1>5, <1>6 DEF Inv

LEMMA ReturnKeeps ==
    ASSUME Inv, Return
    PROVE Inv'
<1>1. TypeOK'
  BY DEF Inv, TypeOK, site, asked, Return, Copying
<1>2. Sending'
  BY DEF Inv, site, asked, Sending, Follows, Sent, Return
<1>3. Placing'
  BY DEF Inv, site, asked, Placing, Sending, Follows, Return
<1>4. Copying'
  BY DEF Inv, site, asked, Copying, Return
<1>5. Saving'
  BY DEF Inv, site, asked, Saving, Copying, Placing, SavedIsOwnAnswer, Return
<1>6. ResendIsBlind'
  BY DEF Inv, site, asked, ResendIsBlind, Sending, Sent, Follows, Return
<1> QED
  BY <1>1, <1>2, <1>3, <1>4, <1>5, <1>6 DEF Inv

LEMMA SettleKeeps ==
    ASSUME Inv, Settle
    PROVE Inv'
<1>1. TypeOK'
  BY DEF Inv, TypeOK, page, site, asked, Labels, Ended, Settle, Last, Answers, Shown
<1>2. Sending'
  BY DEF Inv, page, site, asked, Sending, Follows, Sent, Settle
<1>3. Placing'
  BY DEF Inv, page, site, asked, Placing, Sending, Follows, Settle
<1>4. Copying'
  <2>1. conv \in Chats /\ at = conv /\ cur' \in Answers(conv) /\ cur' \notin base
    BY DEF Inv, TypeOK, page, site, asked, Settle, Copying, Last
  <2>2. cur' \in Turns /\ chat[cur'] = conv
    BY <2>1, ShownInChat DEF Inv, Answers
  <2>3. ASSUME ~moved, conv # 0
        PROVE answer[cur'] = "complete"
    <3>1. PICK t \in Copyable(conv) : TRUE
      BY <2>1, MoreThan DEF Inv, TypeOK, page, site, asked, Labels, Ended, Settle,
         Complete
    <3>2. t \in Turns /\ chat[t] = conv /\ answer[t] = "complete"
      BY <2>1, <3>1, ShownInChat DEF Inv, Copyable
    <3>3. t = conv /\ cur' = conv
      BY <2>1, <2>2, <2>3, <3>2, Apart DEF Inv, Placing
    <3> QED
      BY <3>2, <3>3
  <2>4. pc' = "copying" /\ conv' = conv /\ at' = at /\ base' = base /\ chat' = chat
        /\ answer' = answer /\ moved' = moved /\ long' = long
    BY DEF Settle, page, site, asked
  <2> QED
    BY <2>1, <2>2, <2>3, <2>4, Apart DEF Copying
<1>5. Saving'
  BY DEF Inv, page, site, asked, Saving, Copying, Placing, SavedIsOwnAnswer, Settle
<1>6. ResendIsBlind'
  BY DEF Inv, page, site, asked, ResendIsBlind, Sending, Sent, Follows, Settle
<1> QED
  BY <1>1, <1>2, <1>3, <1>4, <1>5, <1>6 DEF Inv

LEMMA CopyKeeps ==
    ASSUME Inv, Copy
    PROVE Inv'
<1>1. TypeOK'
  BY DEF Inv, TypeOK, site, asked, Leave, Labels, Ended, Copy, Last, Copyable, Shown,
     Saves
<1>2. Sending'
  BY DEF Inv, site, asked, Leave, Sending, Follows, Sent, Copy
<1>3. Placing'
  BY DEF Inv, site, asked, Leave, Placing, Sending, Follows, Copy
<1>4. Copying'
  BY DEF Inv, site, asked, Leave, Copying, Copy
<1>5. Saving'
  <2>1. PICK turn \in Last(Copyable(at)) : (turn = cur \/ ~long) /\ Saves(turn)
    BY DEF Copy
  <2>2. pc = "copying" /\ pc' = "loop" /\ chat' = chat /\ conv' = conv /\ base' = base
        /\ counts' = counts /\ long' = long /\ moved' = moved
    BY DEF Copy, Leave, site, asked
  <2>3. turn \in Copyable(at) /\ turn \in Turns /\ answer[turn] = "complete"
    BY <2>1 DEF Last, Copyable, Shown
  <2>4. saved' = [turn |-> turn, whole |-> TRUE]
    BY <2>1, <2>3 DEF Saves
  <2>5. ASSUME ~moved, conv # 0
        PROVE chat[turn] = conv
    <3>1. CASE turn = cur
      BY <2>2, <2>5, <3>1 DEF Inv, Copying
    <3>2. CASE ~long
      <4>1. at = conv /\ conv \in Chats
        BY <2>2, <2>5, <3>2 DEF Inv, TypeOK, Copying
      <4> QED
        BY <2>3, <4>1, ShownInChat DEF Inv, Copyable
    <3> QED
      BY <2>1, <3>1, <3>2
  <2>6. ASSUME 0 \in base, long \/ counts.copies > 0
        PROVE turn # 0
    <3>1. cur # 0
      BY <2>2, <2>6 DEF Inv, Copying
    <3>2. CASE counts.copies > 0
      <4>0. Cardinality(Copyable(at)) > counts.copies /\ counts.copies \in Nat
        BY DEF Copy, Inv, TypeOK
      <4>1. Copyable(at) # {0}
        <5>1. Cardinality({0}) = 1
          BY CountOne
        <5> QED
          BY <3>2, <4>0, <5>1
      <4> QED
        BY <2>1, <4>1 DEF Last
    <3> QED
      BY <2>1, <2>6, <3>1, <3>2
  <2> QED
    BY <2>2, <2>4, <2>5, <2>6 DEF Saving, SavedIsOwnAnswer
<1>6. ResendIsBlind'
  BY DEF Inv, site, asked, Leave, ResendIsBlind, Sending, Sent, Follows, Copy
<1> QED
  BY <1>1, <1>2, <1>3, <1>4, <1>5, <1>6 DEF Inv

LEMMA TakeShownKeeps ==
    ASSUME Inv, TakeShown
    PROVE Inv'
<1>1. TypeOK'
  BY EngineAssumption, Apart DEF Inv, TypeOK, page, site, asked, Leave, None, Labels,
     Ended, AnswerStates, Unlanded, Chats, Turns, TakeShown, Saves, Copying
<1>2. Sending'
  BY DEF Inv, site, asked, Leave, Sending, Follows, Sent, TakeShown
<1>3. Placing'
  BY DEF Inv, site, asked, Leave, Placing, Sending, Follows, TakeShown
<1>4. Copying'
  BY DEF Inv, site, asked, Leave, Copying, TakeShown
<1>5. Saving'
  BY DEF Inv, site, asked, Leave, Saving, Copying, Placing, SavedIsOwnAnswer,
     TakeShown, Saves
<1>6. ResendIsBlind'
  BY DEF Inv, site, asked, Leave, ResendIsBlind, Sending, Sent, Follows, TakeShown
<1> QED
  BY <1>1, <1>2, <1>3, <1>4, <1>5, <1>6 DEF Inv

LEMMA QuotaKeeps ==
    ASSUME Inv, Quota
    PROVE Inv'
<1>1. TypeOK'
  BY DEF Inv, TypeOK, site, asked, Leave, Labels, Ended, Quota
<1>2. Sending'
  BY DEF Inv, site, asked, Leave, Sending, Follows, Sent, Quota
<1>3. Placing'
  BY DEF Inv, site, asked, Leave, Placing, Sending, Follows, Quota
<1>4. Copying'
  BY DEF Inv, site, asked, Leave, Copying, Quota
<1>5. Saving'
  BY DEF Inv, site, asked, Leave, Saving, Copying, Placing, SavedIsOwnAnswer, Quota
<1>6. ResendIsBlind'
  BY DEF Inv, site, asked, Leave, ResendIsBlind, Sending, Sent, Follows, Quota
<1> QED
  BY <1>1, <1>2, <1>3, <1>4, <1>5, <1>6 DEF Inv

LEMMA TimeoutKeeps ==
    ASSUME Inv, Timeout
    PROVE Inv'
<1>1. TypeOK'
  BY DEF Inv, TypeOK, site, asked, Leave, Labels, Ended, Timeout
<1>2. Sending'
  BY DEF Inv, site, asked, Leave, Sending, Follows, Sent, Timeout
<1>3. Placing'
  BY DEF Inv, site, asked, Leave, Placing, Sending, Follows, Timeout
<1>4. Copying'
  BY DEF Inv, site, asked, Leave, Copying, Timeout
<1>5. Saving'
  BY DEF Inv, site, asked, Leave, Saving, Copying, Placing, SavedIsOwnAnswer, Timeout
<1>6. ResendIsBlind'
  BY DEF Inv, site, asked, Leave, ResendIsBlind, Sending, Sent, Follows, Timeout
<1> QED
  BY <1>1, <1>2, <1>3, <1>4, <1>5, <1>6 DEF Inv

LEMMA ProgressKeeps ==
    ASSUME Inv, NEW t \in Turns, Progress(t)
    PROVE Inv'
<1>1. TypeOK'
  BY DEF Inv, TypeOK, page, asked, AnswerStates, Unlanded, Progress, Moves
<1>2. Sending'
  BY DEF Inv, page, asked, Sending, Follows, Sent, Progress, Moves
<1>3. Placing'
  BY DEF Inv, page, asked, Placing, Sending, Follows, Progress, Moves
<1>4. Copying'
  BY DEF Inv, page, asked, Copying, Progress, Moves
<1>5. Saving'
  BY DEF Inv, page, asked, Saving, Copying, Placing, SavedIsOwnAnswer, Progress, Moves
<1>6. ResendIsBlind'
  BY DEF Inv, page, asked, ResendIsBlind, Sending, Sent, Follows, Progress, Moves
<1> QED
  BY <1>1, <1>2, <1>3, <1>4, <1>5, <1>6 DEF Inv

LEMMA FlipKeeps ==
    ASSUME Inv, Flip
    PROVE Inv'
<1>1. TypeOK'
  BY EngineAssumption, Apart DEF Inv, TypeOK, site, asked, Chats, Turns, Flip
<1>2. Sending'
  BY DEF Inv, site, asked, Sending, Follows, Sent, Flip
<1>3. Placing'
  BY EngineAssumption, Apart DEF Inv, TypeOK, page, site, asked, Leave, None, Labels,
     Ended, AnswerStates, Unlanded, Chats, Turns, Placing, Sending, Follows, Flip, Shown
<1>4. Copying'
  BY EngineAssumption, Apart DEF Inv, TypeOK, site, asked, Copying, Flip
<1>5. Saving'
  BY DEF Inv, site, asked, Saving, Copying, Placing, SavedIsOwnAnswer, Flip
<1>6. ResendIsBlind'
  BY DEF Inv, site, asked, ResendIsBlind, Sending, Sent, Follows, Flip
<1> QED
  BY <1>1, <1>2, <1>3, <1>4, <1>5, <1>6 DEF Inv

LEMMA DriftKeeps ==
    ASSUME Inv, NEW p \in Chats \cup {Nowhere}, Drift(p)
    PROVE Inv'
<1>1. TypeOK'
  BY EngineAssumption, Apart DEF Inv, TypeOK, site, asked, Drift
<1>2. Sending'
  BY DEF Inv, site, asked, Sending, Follows, Sent, Drift
<1>3. Placing'
  BY DEF Inv, site, asked, Placing, Sending, Follows, Drift
<1>4. Copying'
  BY DEF Inv, site, asked, Copying, Drift
<1>5. Saving'
  BY DEF Inv, site, asked, Saving, Copying, Placing, SavedIsOwnAnswer, Drift
<1>6. ResendIsBlind'
  BY DEF Inv, site, asked, ResendIsBlind, Sending, Sent, Follows, Drift
<1> QED
  BY <1>1, <1>2, <1>3, <1>4, <1>5, <1>6 DEF Inv

LEMMA KillKeeps ==
    ASSUME Inv, Kill
    PROVE Inv'
<1>1. TypeOK'
  BY EngineAssumption, Apart DEF Inv, TypeOK, site, asked, Leave, Labels, Ended, Kill
<1>2. Sending'
  BY DEF Inv, site, asked, Leave, Sending, Follows, Sent, Kill
<1>3. Placing'
  BY DEF Inv, site, asked, Leave, Placing, Sending, Follows, Kill
<1>4. Copying'
  BY DEF Inv, site, asked, Leave, Copying, Kill
<1>5. Saving'
  BY DEF Inv, site, asked, Leave, Saving, Copying, Placing, SavedIsOwnAnswer, Kill
<1>6. ResendIsBlind'
  BY DEF Inv, site, asked, Leave, ResendIsBlind, Sending, Sent, Follows, Kill
<1> QED
  BY <1>1, <1>2, <1>3, <1>4, <1>5, <1>6 DEF Inv

LEMMA HarvestKeeps ==
    ASSUME Inv, Harvest
    PROVE Inv'
<1>1. TypeOK'
  BY EngineAssumption, Apart DEF Inv, TypeOK, page, site, Labels, Ended, Chats,
     Turns, Harvest
<1>2. Sending'
  BY DEF Inv, page, site, Sending, Follows, Sent, Harvest
<1>3. Placing'
  BY DEF Inv, page, site, Placing, Sending, Follows, Harvest
<1>4. Copying'
  BY DEF Inv, page, site, Copying, Harvest
<1>5. Saving'
  BY DEF Inv, page, site, Saving, Copying, Placing, SavedIsOwnAnswer, Harvest
<1>6. ResendIsBlind'
  BY DEF Inv, page, site, ResendIsBlind, Sending, Sent, Follows, Harvest
<1> QED
  BY <1>1, <1>2, <1>3, <1>4, <1>5, <1>6 DEF Inv

LEMMA StutterKeeps ==
    ASSUME Inv, UNCHANGED vars
    PROVE Inv'
BY DEF Inv, TypeOK, Sending, Placing, Copying, Saving, SavedIsOwnAnswer, ResendIsBlind,
       Follows, Sent, vars, page, site, asked

LEMMA StepKeeps ==
    ASSUME Inv, [Next]_vars
    PROVE Inv'
<1>1. CASE EngineStep
  BY <1>1, BeginAttemptKeeps, FinishKeeps, OpenBoundKeeps, OpenHomeKeeps,
     RefuseKeeps, SnapshotKeeps, ClickKeeps, ClickRaisesKeeps, ConfirmKeeps,
     NotSentKeeps, BindKeeps, BindFailsKeeps, ReturnKeeps, SettleKeeps, CopyKeeps,
     TakeShownKeeps, QuotaKeeps, TimeoutKeeps DEF EngineStep
<1>2. CASE World
  <2>1. CASE \E t \in Turns : Progress(t)
    BY <2>1, ProgressKeeps
  <2>2. CASE \E p \in {chat[t] : t \in Sites} \cup {Nowhere} : Drift(p)
    <3>1. \A t \in Sites : chat[t] \in Chats
      BY DEF Inv, Placing, Sites, Unlanded
    <3>2. PICK p \in Chats \cup {Nowhere} : Drift(p)
      BY <2>2, <3>1
    <3> QED
      BY <3>2, DriftKeeps
  <2> QED
    BY <1>2, <2>1, <2>2, FlipKeeps, KillKeeps, HarvestKeeps DEF World
<1> QED
  BY <1>1, <1>2, StutterKeeps DEF Next

(* A run stays within the states above. *)
THEOREM Invariance == Spec => []Inv
BY Initial, StepKeeps, PTL DEF Spec

(* Type correctness of an engine run. *)
THEOREM TypeCorrect == Spec => []TypeOK
BY Invariance, PTL DEF Inv

(* What a run saves is the answer it asked for, for every number of        *)
(* attempts, however late messages land and however often runs are killed. *)
THEOREM OwnAnswers == Spec => []SavedIsOwnAnswer
BY Invariance, PTL DEF Inv, Saving

(* No message is sent after the page was seen to hold one. *)
THEOREM BlindResends == Spec => []ResendIsBlind
BY Invariance, PTL DEF Inv

--------------------------------------------------------------------------------
(* What a run may send, and where it belongs.                              *)

(* A composer is only made ready for the first message of a chat, or for   *)
(* the one follow-up.                                                      *)
Entitled == pc \in {"preparing", "clicking"} => conv = NoChat \/ Follows

LEMMA EntitledStep ==
    ASSUME Entitled, [Next]_vars
    PROVE Entitled'
<1>1. CASE EngineStep
  BY <1>1 DEF EngineStep, BeginAttempt, Finish, OpenBound, OpenHome, Refuse, Snapshot, Click,
     ClickRaises, Confirm, NotSent, Bind, BindFails, Return, Settle, Copy, TakeShown, Quota,
     Timeout, Entitled, Follows, Leave, asked
<1>2. CASE World
  BY <1>2 DEF World, Progress, Flip, Drift, Kill, Harvest, Entitled, Follows, Leave, asked
<1>3. CASE UNCHANGED vars
  BY <1>3 DEF vars, asked, Entitled, Follows
<1> QED
  BY <1>1, <1>2, <1>3 DEF Next

(* A message leaves the run: `--harvest` sends none, a bound run none but   *)
(* its follow-up, and nobody sends one more once the page was seen to hold  *)
(* one (main: once bound, later attempts only collect; no re-sending).      *)
Sends == \E t \in Turns : answer[t] = "unsent" /\ answer'[t] # "unsent"
SendsAreOwed == [][Sends => /\ mode # "harvest"
                            /\ conv = NoChat \/ Follows
                            /\ evidence = {}
                            /\ answer[attempt] = "unsent"]_vars

(* A message leaves at its click only; one that arrives late left then. *)
THEOREM OnlyOwedSends == Spec => SendsAreOwed
<1>1. Spec => []Entitled
  <2>1. Init => Entitled
    BY DEF Init, Entitled
  <2> QED
    BY <2>1, EntitledStep, PTL DEF Spec
<1>2. ASSUME Inv, Entitled, Next, Sends
      PROVE mode # "harvest" /\ (conv = NoChat \/ Follows) /\ evidence = {}
            /\ answer[attempt] = "unsent"
  <2>1. CASE Click \/ ClickRaises
    BY <1>2, <2>1 DEF Click, ClickRaises, Inv, Sending, Entitled
  <2>2. CASE EngineStep /\ ~(Click \/ ClickRaises)
    BY <1>2, <2>2 DEF EngineStep, BeginAttempt, Finish, OpenBound, OpenHome, Refuse, Snapshot,
       Click, ClickRaises, Confirm, NotSent, Bind, BindFails, Return, Settle, Copy, TakeShown,
       Quota, Timeout, site, Sends
  <2>3. CASE \E t \in Turns : Progress(t)
    BY <1>2, <2>3 DEF Progress, Moves, Sends, Inv, TypeOK
  <2>4. CASE World /\ ~\E t \in Turns : Progress(t)
    BY <1>2, <2>4 DEF World, Flip, Drift, Kill, Harvest, site, Sends
  <2> QED
    BY <1>2, <2>1, <2>2, <2>3, <2>4 DEF Next
<1>3. Inv /\ Entitled /\ [Next]_vars
        => [Sends => /\ mode # "harvest"
                     /\ conv = NoChat \/ Follows
                     /\ evidence = {}
                     /\ answer[attempt] = "unsent"]_vars
  BY <1>2
<1> QED
  BY <1>1, <1>3, Invariance, PTL DEF Spec, SendsAreOwed

(* A run that is bound to a chat stays with it, in every later attempt and  *)
(* wherever the page goes; only another run, which harvests, is bound anew. *)
BindingStays == [][conv # NoChat => conv' = conv \/ Harvest]_vars

(* It holds wherever the page is moved and however an attempt ends. *)
THEOREM BoundForGood == Spec => BindingStays
<1>1. ASSUME Inv, Next, conv # NoChat, ~Harvest
      PROVE conv' = conv
  BY <1>1 DEF Next, EngineStep, BeginAttempt, Finish, OpenBound, OpenHome, Refuse, Snapshot,
     Click, ClickRaises, Confirm, NotSent, Bind, BindFails, Return, Settle, Copy, TakeShown,
     Quota, Timeout, World, Progress, Flip, Drift, Kill, Inv, Sending
<1>2. Inv /\ [Next]_vars => [conv # NoChat => conv' = conv \/ Harvest]_vars
  BY <1>1
<1> QED
  BY <1>2, Invariance, PTL DEF Spec, BindingStays

--------------------------------------------------------------------------------
(* How long a run can be.                                                  *)

(* What is left of an attempt: where it is, and the way back to the chat.  *)
AttemptLeft(label) == CASE label = "opening" -> 9
                        [] label = "preparing" -> 8
                        [] label = "clicking" -> 7
                        [] label = "confirming" -> 6
                        [] label = "binding" -> 5
                        [] label = "waiting" -> 3
                        [] label = "copying" -> 2
                        [] label = "loop" -> 1
                        [] OTHER -> 0
Astray == IF pc = "waiting" /\ at \notin {conv, Nowhere} THEN 1 ELSE 0

RunLeft == 2 * (Drifts - drifts)
           + (IF pc \in Ended THEN 0
              ELSE 9 * (Attempts - attempt) + AttemptLeft(pc) + Astray)

RunGetsOn == /\ EngineStep => RunLeft' < RunLeft
             /\ ~Harvest => RunLeft' =< RunLeft

LEMMA RunLeftType ==
    ASSUME TypeOK
    PROVE RunLeft \in 0 .. 9 * Attempts + 2 * Drifts + 9
<1>1. attempt \in 0 .. Attempts /\ drifts \in 0 .. Drifts /\ Attempts \in Nat /\ Drifts \in Nat
  BY Apart DEF TypeOK
<1>2. AttemptLeft(pc) + Astray \in 0 .. 9
  BY DEF AttemptLeft, Astray
<1> DEFINE rank == AttemptLeft(pc) + Astray
<1>3. RunLeft = 2 * (Drifts - drifts) + (IF pc \in Ended THEN 0 ELSE 9 * (Attempts - attempt) + rank)
  <2>1. AttemptLeft(pc) \in 0 .. 9 /\ Astray \in 0 .. 1
    BY DEF AttemptLeft, Astray
  <2> QED
    BY <1>1, <2>1 DEF RunLeft
<1> HIDE DEF rank
<1>4. rank \in 0 .. 9
  BY <1>2 DEF rank
<1> QED
  BY <1>1, <1>3, <1>4

LEMMA EngineGetsOn ==
    ASSUME Inv, EngineStep, TypeOK'
    PROVE RunLeft' < RunLeft /\ RunLeft' =< RunLeft
<1>0. /\ attempt \in Nat /\ drifts \in Nat /\ Attempts \in Nat /\ Drifts \in Nat
      /\ attempt' \in Nat /\ drifts' \in Nat
  BY Apart DEF Inv, TypeOK
<1> USE <1>0 DEF RunLeft, AttemptLeft, Astray, Ended, Leave
<1>1. CASE BeginAttempt
  BY <1>1 DEF BeginAttempt, page
<1>2. CASE Finish
  BY <1>2 DEF Finish, page, Inv, TypeOK
<1>3. CASE OpenBound
  BY <1>3 DEF OpenBound
<1>4. CASE OpenHome \/ Refuse \/ NotSent \/ ClickRaises
  BY <1>4 DEF OpenHome, Refuse, NotSent, ClickRaises
<1>5. CASE Snapshot \/ Click \/ Confirm
  BY <1>5 DEF Snapshot, Click, Confirm, page
<1>6. CASE Bind
  BY <1>6 DEF Bind, page
<1>7. CASE BindFails \/ Quota
  BY <1>7, Apart DEF BindFails, Quota, Inv, TypeOK
<1>8. CASE Return
  BY <1>8 DEF Return
<1>9. CASE Settle
  BY <1>9 DEF Settle, page
<1>10. CASE Copy \/ TakeShown \/ Timeout
  BY <1>10 DEF Copy, TakeShown, Timeout
<1> QED
  BY <1>1, <1>2, <1>3, <1>4, <1>5, <1>6, <1>7, <1>8, <1>9, <1>10 DEF EngineStep

LEMMA WorldLeaves ==
    ASSUME Inv, World, ~Harvest, TypeOK'
    PROVE RunLeft' =< RunLeft
<1>0. /\ attempt \in Nat /\ drifts \in Nat /\ Attempts \in Nat /\ Drifts \in Nat
      /\ attempt' \in Nat /\ drifts' \in Nat /\ attempt =< Attempts
  BY Apart DEF Inv, TypeOK
<1> USE <1>0 DEF RunLeft, AttemptLeft, Astray, Ended, Leave
<1>1. CASE \E t \in Turns : Progress(t)
  BY <1>1 DEF Progress, page
<1>2. CASE Flip
  <2>1. pc = "waiting" => at \notin {conv, Nowhere}
    BY <1>2, Apart DEF Flip, Inv, TypeOK, Copying
  <2> QED
    BY <1>2, <2>1 DEF Flip
<1>3. ASSUME NEW p, Drift(p) PROVE RunLeft' =< RunLeft
  BY <1>3 DEF Drift
<1>4. CASE Kill
  BY <1>4 DEF Kill
<1> QED
  BY <1>1, <1>2, <1>3, <1>4 DEF World

(* An engine run does not go on for ever by its own doing: from its start,  *)
(* or the harvest after it, it takes at most 9 steps per attempt and 2 per  *)
(* movement of its page by a person, and 9 more; its own steps each take    *)
(* one off, and neither the site, a person nor a kill adds one.             *)
THEOREM RunsAreBounded ==
    Spec => /\ [](RunLeft \in 0 .. 9 * Attempts + 2 * Drifts + 9)
            /\ [][RunGetsOn]_vars
<1>1. Inv => RunLeft \in 0 .. 9 * Attempts + 2 * Drifts + 9
  BY RunLeftType DEF Inv
<1>2. ASSUME Inv, Inv', Next PROVE RunGetsOn
  <2>1. CASE EngineStep
    BY <1>2, <2>1, EngineGetsOn DEF Inv, RunGetsOn
  <2>2. CASE World /\ ~EngineStep
    BY <1>2, <2>2, WorldLeaves DEF Inv, RunGetsOn
  <2> QED
    BY <1>2, <2>1, <2>2 DEF Next
<1>3. Inv /\ Inv' /\ [Next]_vars => [RunGetsOn]_vars
  BY <1>2
<1> QED
  BY <1>1, <1>3, Invariance, PTL DEF Spec

--------------------------------------------------------------------------------
(* A salvage beside the run.                                               *)

(* An engine run under a salvage is an engine run. *)
THEOREM SalvageLeavesTheRun == SalvageSpec => Spec
<1>1. [SalvageNext]_allVars => [Next]_vars
  BY DEF SalvageNext, SalvageStep, FindPage, ReadPage, Write, GiveUp, Done, allVars
<1> QED
  BY <1>1, PTL DEF SalvageSpec, SalvageInit, Spec

(* Where the page is, as long as nobody moves it. *)
Untouched ==
    /\ pc \in {"loop", "opening"} \cup Ended => at = Nowhere
    /\ drifts = 0 =>
         /\ pc \in {"preparing", "clicking", "confirming"} /\ conv # NoChat => at = conv
         /\ pc \in {"waiting", "copying"} => at = conv

(* Which page a salvage reads, and what it read there. *)
Reading ==
    /\ SalvageTypeOK
    /\ reading.read => wanted # NoChat
    /\ drifts = 0 =>
         /\ view = "engine" => at = wanted /\ wanted # NoChat
         /\ \A t \in reading.answers : answer[t] # "unsent" /\ chat[t] = wanted
         /\ \A file \in files : \A t \in file.text :
                t \in Turns /\ answer[t] # "unsent" /\ chat[t] = file.of

(* The invariant of a run beside a salvage. *)
SInv == Inv /\ Untouched /\ Reading

(* A message stays where it was sent. *)
LEMMA TurnsStay ==
    ASSUME Inv, [Next]_vars
    PROVE \A t \in Turns : answer[t] # "unsent" => answer'[t] # "unsent" /\ chat'[t] = chat[t]
<1>1. CASE Click \/ ClickRaises
  <2>1. answer[attempt] = "unsent" /\ Post
    BY <1>1 DEF Inv, Sending, Click, ClickRaises
  <2> QED
    BY <2>1 DEF Inv, TypeOK, Post
<1>2. CASE \E t \in Turns : Progress(t)
  BY <1>2 DEF Inv, TypeOK, Progress, Moves
<1>3. CASE EngineStep /\ ~(Click \/ ClickRaises)
  BY <1>3 DEF EngineStep, BeginAttempt, Finish, OpenBound, OpenHome, Refuse,
     Snapshot, Click, ClickRaises, Confirm, NotSent, Bind, BindFails, Return, Settle,
     Copy, TakeShown, Quota, Timeout, site
<1>4. CASE World /\ ~\E t \in Turns : Progress(t)
  BY <1>4 DEF World, Flip, Drift, Kill, Harvest, site
<1>5. CASE UNCHANGED vars
  BY <1>5 DEF vars, site
<1> QED
  BY <1>1, <1>2, <1>3, <1>4, <1>5 DEF Next

LEMMA PageStays ==
    ASSUME Inv, Untouched, [Next]_vars
    PROVE Untouched'
<1>1. CASE EngineStep
  BY <1>1, Apart DEF EngineStep, BeginAttempt, Finish, OpenBound, OpenHome, Refuse,
     Snapshot, Click, ClickRaises, Confirm, NotSent, Bind, BindFails, Return, Settle,
     Copy, TakeShown, Quota, Timeout, Untouched, Leave, Inv, Copying, Sending, TypeOK,
     page, site, asked, Ended, Seen
<1>2. CASE World
  BY <1>2, Apart DEF World, Progress, Flip, Drift, Kill, Harvest, Untouched, Leave,
     Inv, Copying, Sending, TypeOK, page, site, asked, Ended
<1>3. CASE UNCHANGED vars
  BY <1>3 DEF vars, page, Untouched
<1> QED
  BY <1>1, <1>2, <1>3 DEF Next

(* The engine moves its page only where it then stays, or closes it. *)
LEMMA PageMoves ==
    ASSUME Inv, Untouched, Next, drifts' = 0
    PROVE drifts = 0 /\ (at \in Chats => at' \in {at, Nowhere})
<1>1. CASE EngineStep
  BY <1>1, Apart DEF EngineStep, BeginAttempt, Finish, OpenBound, OpenHome, Refuse,
     Snapshot, Click, ClickRaises, Confirm, NotSent, Bind, BindFails, Return, Settle,
     Copy, TakeShown, Quota, Timeout, Untouched, Leave, Inv, TypeOK, Copying, page
<1>2. CASE World
  BY <1>2, Apart DEF World, Progress, Flip, Drift, Kill, Harvest, Leave, Inv, TypeOK,
     page
<1> QED
  BY <1>1, <1>2 DEF Next

(* A salvage keeps its variables in their sets: what it files was read from a chat. *)
LEMMA SalvageTypeStays ==
    ASSUME Inv, SalvageTypeOK, reading.read => wanted # NoChat, [SalvageNext]_allVars
    PROVE SalvageTypeOK'
<1>1. CASE Next /\ Follow
  BY <1>1 DEF SalvageTypeOK, Follow
<1>2. CASE FindPage
  <2>1. \A t \in Sites : chat[t] \in Chats
    BY DEF Inv, Placing, Sites, Unlanded
  <2> QED
    BY <1>2, <2>1, SalvageAssumption DEF SalvageTypeOK, FindPage
<1>3. CASE ReadPage
  <2>1. Answers(Under) \subseteq Turns
    BY DEF Answers, Shown
  <2> QED
    BY <1>3, <2>1 DEF SalvageTypeOK, Readings, ReadPage
<1>4. CASE Write
  <2>1. reading.answers \subseteq Turns /\ wanted \in Chats
    BY <1>4 DEF SalvageTypeOK, Readings, Write
  <2> QED
    BY <1>4, <2>1 DEF SalvageTypeOK, Readings, NoReading, Write, Done
<1>5. CASE GiveUp
  BY <1>5 DEF SalvageTypeOK, Readings, NoReading, GiveUp, Done
<1>6. CASE UNCHANGED allVars
  BY <1>6 DEF allVars, salvage, SalvageTypeOK
<1> QED
  BY <1>1, <1>2, <1>3, <1>4, <1>5, <1>6 DEF SalvageNext, SalvageStep

LEMMA ReadingKept ==
    ASSUME SInv, [SalvageNext]_allVars
    PROVE SInv'
<1>1. Inv' /\ Untouched'
  <2>1. [Next]_vars
    BY DEF SalvageNext, SalvageStep, FindPage, ReadPage, Write, GiveUp, Done, allVars
  <2> QED
    BY <2>1, StepKeeps, PageStays DEF SInv
<1>2. SalvageTypeOK'
  BY SalvageTypeStays DEF SInv, Reading
<1>3. Reading'
  <2>1. CASE Next /\ Follow
    <3>1. wanted' = wanted /\ reading' = reading /\ files' = files
          /\ view' = IF view = "engine" /\ at' = Nowhere THEN "closed" ELSE view
      BY <2>1 DEF Follow
    <3>2. \A t \in Turns : answer[t] # "unsent" => answer'[t] # "unsent" /\ chat'[t] = chat[t]
      BY <2>1, TurnsStay DEF SInv
    <3>3. ASSUME drifts' = 0
          PROVE drifts = 0 /\ (at \in Chats => at' \in {at, Nowhere})
      BY <2>1, <3>3, PageMoves DEF SInv
    <3>4. reading.answers \subseteq Turns
      BY DEF SInv, Reading, SalvageTypeOK, Readings
    <3> QED
      BY <1>2, <3>1, <3>2, <3>3, <3>4 DEF SInv, Reading, SalvageTypeOK, Readings
  <2>2. CASE FindPage
    <3>1. \A t \in Sites : chat[t] \in Chats
      BY DEF SInv, Inv, Placing, Sites, Unlanded
    <3>2. PICK t \in Sites : wanted' = chat[t]
      BY <2>2 DEF FindPage
    <3>3. wanted' \in Chats /\ wanted' # NoChat
      BY <3>1, <3>2, Apart
    <3>4. wanted = NoChat /\ view' = IF at = wanted' THEN "engine" ELSE "own"
      BY <2>2 DEF FindPage
    <3>5. drifts = 0 => reading.answers = {}
      BY <3>4, Apart DEF SInv, Inv, Placing, Reading, SalvageTypeOK,
         Readings
    <3>6. UNCHANGED <<reading, files, drifts, at, answer, chat>>
      BY <2>2 DEF FindPage, vars, page, site
    <3> QED
      BY <1>2, <3>3, <3>4, <3>5, <3>6 DEF SInv, Reading
  <2>3. CASE ReadPage
    <3>1. drifts = 0 => Under = wanted
      BY <2>3 DEF ReadPage, Under, SInv, Reading
    <3>2. wanted \in Chats /\ Answers(Under) \subseteq Turns
      BY <2>3 DEF ReadPage, SInv, Reading, SalvageTypeOK, Answers, Shown
    <3>3. \A t \in Answers(wanted) : t \in Turns /\ answer[t] # "unsent" /\ chat[t] = wanted
      BY <3>2, ShownInChat DEF SInv, Inv, Answers, Unlanded
    <3>4. reading' = [answers |-> Answers(Under), read |-> TRUE] /\ wanted # NoChat
      BY <2>3 DEF ReadPage
    <3>5. UNCHANGED <<wanted, view, files, drifts, at, answer, chat>>
      BY <2>3 DEF ReadPage, vars, page, site
    <3>6. reading'.answers = Answers(Under)
      BY <3>4
    <3>7. drifts = 0 => \A t \in reading'.answers : answer[t] # "unsent" /\ chat[t] = wanted
      BY <3>1, <3>3, <3>6
    <3> QED
      BY <1>2, <3>4, <3>5, <3>7 DEF SInv, Reading
  <2>4. CASE Write
    <3>1. wanted' = NoChat /\ view' = "none" /\ reading' = NoReading
          /\ reading.answers \subseteq Turns
      BY <2>4 DEF Write, Done, SInv, Reading, SalvageTypeOK, Readings
    <3>2. files' = files \cup {[of |-> wanted, text |-> reading.answers]}
          /\ UNCHANGED <<drifts, answer, chat>>
      BY <2>4 DEF Write, vars, page, site
    <3>3. NoReading.answers = {} /\ ~NoReading.read
      BY DEF NoReading
    <3> QED
      BY <1>2, <3>1, <3>2, <3>3 DEF SInv, Reading
  <2>5. CASE GiveUp
    <3>1. NoReading.answers = {} /\ ~NoReading.read
      BY DEF NoReading
    <3> QED
      BY <1>2, <2>5, <3>1 DEF GiveUp, Done, SInv, Reading, vars, page, site
  <2>6. CASE UNCHANGED allVars
    BY <1>2, <2>6 DEF allVars, vars, salvage, page, site, SInv, Reading
  <2> QED
    BY <2>1, <2>2, <2>3, <2>4, <2>5, <2>6 DEF SalvageNext, SalvageStep
<1> QED
  BY <1>1, <1>3 DEF SInv

(* A run beside salvages stays within these states. *)
THEOREM SalvageInvariance == SalvageSpec => []SInv
<1>1. SalvageInit => SInv
  <2> SUFFICES ASSUME SalvageInit PROVE SInv
    OBVIOUS
  <2>1. Inv
    BY Initial DEF SalvageInit
  <2>2. Untouched
    BY DEF SalvageInit, Init, Untouched, Ended
  <2>3. NoReading \in Readings /\ NoReading.answers = {} /\ ~NoReading.read
    BY DEF NoReading, Readings
  <2>4. Reading
    BY <2>3, SalvageAssumption DEF SalvageInit, Reading, SalvageTypeOK
  <2> QED
    BY <2>1, <2>2, <2>4 DEF SInv
<1> QED
  BY <1>1, ReadingKept, PTL DEF SalvageSpec

(* The variables of a salvage keep their sets. *)
THEOREM SalvageTypeCorrect == SalvageSpec => []SalvageTypeOK
<1>1. SInv => SalvageTypeOK
  BY DEF SInv, Reading
<1> QED
  BY <1>1, SalvageInvariance, PTL

(* A salvaged file holds text of the chat it names, unless a person moved the page. *)
THEOREM SalvagesAreTrue == SalvageSpec => []SalvageIsOfItsChat
<1>1. SInv => SalvageIsOfItsChat
  BY DEF SInv, Reading, SalvageIsOfItsChat
<1> QED
  BY <1>1, SalvageInvariance, PTL

================================================================================
