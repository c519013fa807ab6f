------------------------------ MODULE MutexProofs ------------------------------
(***************************************************************************)
(* What follows from Mutex alone, for every set of processes.  KernelLock  *)
(* inherits both theorems through its refinement (ImplementsMutex).  The   *)
(* models of its callers change their locks by the actions of Mutex, so    *)
(* that there both hold by construction.                                   *)
(***************************************************************************)
EXTENDS Mutex, TLAPS

\* The promise of exclusion.
AtMostOne == \A p, q \in inside : p = q

\* Two processes are never inside together.
THEOREM OneInside == Spec => []AtMostOne
<1>1. Init => AtMostOne
  BY DEF Init, AtMostOne
<1>2. AtMostOne /\ [Next]_inside => AtMostOne'
  BY DEF AtMostOne, Next, Enter, Leave
<1>3. QED BY <1>1, <1>2, PTL DEF Spec

\* The lock does not pass from one process to another: between two holders
\* there is a moment with nobody inside.
NoHandover == [][inside # {} => inside' \subseteq inside]_inside

\* Whoever comes in finds nobody inside.
THEOREM NeverHandedOver == Spec => NoHandover
<1>1. [Next]_inside => [inside # {} => inside' \subseteq inside]_inside
  BY DEF Next, Enter, Leave
<1>2. QED BY <1>1, PTL DEF Spec, NoHandover
=============================================================================
