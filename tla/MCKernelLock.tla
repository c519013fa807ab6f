----------------------------- MODULE MCKernelLock -----------------------------
(***************************************************************************)
(* Three processes on one lock, one of them with a timeout, and enough     *)
(* inodes for the kernel file, a receipt and one recreated receipt.        *)
(***************************************************************************)
EXTENDS KernelLock
CONSTANTS p1, p2, p3, i1, i2, i3

MCProcs == {p1, p2, p3}
MCBounded == {p3}
MCInodes == {i1, i2, i3}
=============================================================================
