---------------------------- MODULE MCHelperPool ----------------------------
(***************************************************************************)
(* Instances of HelperPool for TLC.                                        *)
(***************************************************************************)
EXTENDS HelperPool, TLC

\* Calls, and connections, are interchangeable.
Symmetric == Permutations(Calls) \cup Permutations(Conns)
=============================================================================
