---------------------------- MODULE MCToolCache ----------------------------
(***************************************************************************)
(* Small instances of ToolCache for TLC.                                   *)
(***************************************************************************)
EXTENDS ToolCache, TLC

\* Connections, keys and slots of flights are interchangeable.  Used for
\* safety only.
Symmetric ==
    Permutations(Callers) \cup Permutations(Keys) \cup Permutations(Flights)
=============================================================================
