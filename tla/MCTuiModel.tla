------------------------------ MODULE MCTuiModel ------------------------------
(***************************************************************************)
(* One check and room for an alert to be added.  Two answers of the daemon  *)
(* may be on their way, which is what its timeout of 4 s leaves of a load   *)
(* every 2 s; cluster.yaml is read without waiting for anybody.             *)
(***************************************************************************)
EXTENDS TuiModel

CONSTANTS c, a

MCMaxLoads == [status |-> 2, config |-> 1]
MCKnown == <<[id |-> c, on |-> TRUE]>>
=============================================================================
