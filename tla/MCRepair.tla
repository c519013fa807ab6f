------------------------------- MODULE MCRepair -------------------------------
(***************************************************************************)
(* Two exporters, each of either of two builds, and one repair after       *)
(* another; two failures in one project.                                   *)
(***************************************************************************)
EXTENDS Repair, TLC
CONSTANTS export, other, repair, first, second, lane

MCBytes == {first, second}
MCExporters == {export, other}
MCRepairers == {repair}
MCRoots == {lane}
MCPlace == <<lane, lane>>

(* No build and no exporter is told from another. *)
Symmetry == Permutations(MCBytes) \cup Permutations(MCExporters)
===============================================================================
