--------------------------- MODULE MCConfigEdits ---------------------------
(***************************************************************************)
(* A cluster to edit: a check that lists one alert twice, by ID and by     *)
(* name, and suppresses another by its name, two alerts and a peer.        *)
(***************************************************************************)
EXTENDS ConfigEdits

CONSTANTS a, b, t1, r1, c1

MCAlertLists == {<<2, a>>}
MCSuppressed == {{}, {b}}
MCInitial ==
    [check |-> <<[id |-> 1, name |-> a, target |-> t1, alerts |-> <<2, a>>,
                  suppress |-> {b}, resolvers |-> r1, disabled |-> TRUE]>>,
     alert |-> <<[id |-> 2, name |-> a, target |-> t1, type |-> "smtp",
                  default |-> TRUE, disabled |-> FALSE],
                 [id |-> 3, name |-> b, target |-> t1, type |-> "discord",
                  default |-> TRUE, disabled |-> FALSE]>>,
     peer |-> <<[id |-> 4, target |-> t1, cert |-> c1]>>,
     resolvers |-> None]
=============================================================================
