---------------------------- MODULE MCRpcConnection ----------------------------
(***************************************************************************)
(* A node that may connect twice and one that may connect once.            *)
(***************************************************************************)
EXTENDS RpcConnection

CONSTANTS n1, n2

MCMaxConns == (n1 :> 2) @@ (n2 :> 1)
=============================================================================
