---------------------------- MODULE MCManualEdit ----------------------------
(***************************************************************************)
(* A cluster with entries in every list and no resolvers: a save that      *)
(* changes only the version is the one that changes no entries.            *)
(***************************************************************************)
EXTENDS ManualEdit

CONSTANTS x, y

MCInitial == [entries |-> x, resolvers |-> None]
=============================================================================
