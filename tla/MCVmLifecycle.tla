--------------------------- MODULE MCVmLifecycle ---------------------------
(***************************************************************************)
(* VmLifecycle on small instances: one key, one or two circuits, a grace   *)
(* period of two ticks.                                                    *)
(***************************************************************************)
EXTENDS VmLifecycle, TLC

\* Every action treats the circuits alike when each of them is an admin's, and
\* the keys alike always. Used in runs without liveness properties.
Symmetry == Permutations(Keys) \cup Permutations(Circuits)
=============================================================================
