------------------------------ MODULE Admission ------------------------------
(***************************************************************************)
(* What enrollment promises: a host becomes a peer by having consumed a    *)
(* token that it had presented, and in no other way.  A token is issued    *)
(* once, is valid until it admits one of the hosts that presented it or is *)
(* revoked, and stays dead.  Which copy of the configuration a request was *)
(* looked up in, in how many mutations it was served and which of them     *)
(* failed is not told here.                                                *)
(***************************************************************************)
CONSTANTS Token, Joiner, None

VARIABLES
    issued,     \* tokens issued so far
    valid,      \* those that can still admit somebody
    presented,  \* the token each host has presented
    admitted,   \* the token each host was admitted by
    peers

vars == <<issued, valid, presented, admitted, peers>>

Init ==
    /\ issued = {} /\ valid = {} /\ peers = {}
    /\ presented = [j \in Joiner |-> None]
    /\ admitted = [j \in Joiner |-> None]

Issue(t) ==
    /\ t \in Token \ issued
    /\ issued' = issued \union {t}
    /\ valid' = valid \union {t}
    /\ UNCHANGED <<presented, admitted, peers>>

Revoke(t) ==
    /\ t \in valid
    /\ valid' = valid \ {t}
    /\ UNCHANGED <<issued, presented, admitted, peers>>

\* A host may be late with its token.
Present(j, t) ==
    /\ presented[j] = None /\ t \in issued
    /\ presented' = [presented EXCEPT ![j] = t]
    /\ UNCHANGED <<issued, valid, admitted, peers>>

Admit(j, t) ==
    /\ t \in valid /\ presented[j] = t /\ admitted[j] = None
    /\ valid' = valid \ {t}
    /\ admitted' = [admitted EXCEPT ![j] = t]
    /\ peers' = peers \union {j}
    /\ UNCHANGED <<issued, presented>>

Expel(j) ==
    /\ j \in peers
    /\ peers' = peers \ {j}
    /\ UNCHANGED <<issued, valid, presented, admitted>>

Next ==
    \/ \E t \in Token : Issue(t) \/ Revoke(t)
    \/ \E j \in Joiner : Expel(j) \/ \E t \in Token : Present(j, t) \/ Admit(j, t)

Spec == Init /\ [][Next]_vars
=============================================================================
