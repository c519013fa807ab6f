------------------------------- MODULE MCReview -------------------------------
(***************************************************************************)
(* Two reviews of one project, one with a short prompt, a review and a     *)
(* harvest, or a harvest beside a followup and a plan.                     *)
(***************************************************************************)
EXTENDS Review
CONSTANTS a, b, h, f, p

MCOne == {a}
MCTerse == {b}
MCTwo == {a, b}
MCHarvests == {h}
MCFollowups == {f}
MCAsks == {p}
MCNone == {}

MCTexts == {"answer", "quoting", "refusal", "echo"}
MCPlain == {"answer", "refusal"}
=============================================================================
