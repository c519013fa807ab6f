------------------------------ MODULE MCProcRun ------------------------------
(***************************************************************************)
(* A child that ignores SIGTERM, but may exit when it pleases, with three  *)
(* possible descendants: one that honours SIGTERM, one that ignores it and *)
(* one that leaves the session.                                            *)
(***************************************************************************)
EXTENDS ProcRun
CONSTANTS child, helper, stubborn, daemon

MCMembers == {child, helper, stubborn, daemon}
MCStubborn == {child, stubborn}
MCDaemons == {daemon}
=============================================================================
