------------------------------- MODULE MCServe -------------------------------
(***************************************************************************)
(* One plain and one stream connection, and two of a kind where they have  *)
(* to queue behind each other, beside one other lane process.              *)
(***************************************************************************)
EXTENDS Serve
CONSTANTS plain, stream, chatty, review

MCTwo == {plain, stream}
MCThree == {plain, stream, chatty}
MCStreams == {stream}
MCChatty == {chatty}
MCOthers == {review}
MCNone == {}
=============================================================================
