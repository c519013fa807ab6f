------------------------------- MODULE MCDrive -------------------------------
(***************************************************************************)
(* Two drives of one root beside another lane process.  The verification   *)
(* is a test, a test module that may be added and one sealed name; the     *)
(* pack is one source file and one path with a secret-like name.           *)
(***************************************************************************)
EXTENDS Drive
CONSTANTS first, second, review, test, extra, conftest, source, secret

MCLanes == {first, second}
MCOthers == {review}
MCVerification == {test, extra, conftest}
MCPresent == {test}
MCSealed == {conftest}
MCPacked == {source, secret}
MCPrivate == {secret}
=============================================================================
