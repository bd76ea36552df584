----------------------------- MODULE ConfigLog -----------------------------
(***************************************************************************)
(* What replication promises as long as nobody commits on top of anything  *)
(* but the newest configuration: one history, which every node walks       *)
(* through in order.  A version number is a place in that history, so it   *)
(* names one content everywhere; a node may skip places.  What a node has  *)
(* saved it never goes back behind; what it only holds in memory, because  *)
(* the write failed, a restart takes away, and a place that nobody holds   *)
(* any more may be given to another content.                               *)
(***************************************************************************)
EXTENDS Naturals, Sequences

CONSTANTS Node, Op

VARIABLES
    log,   \* log[v]: the mutations contained in version v
    mem,   \* the version each node holds in memory
    file   \* the version each node has saved

vars == <<log, mem, file>>

Init == log = <<{}>> /\ mem = [n \in Node |-> 1] /\ file = mem

\* n goes on to place v, and saves it unless the write fails.
Moves(n, v) ==
    /\ mem' = [mem EXCEPT ![n] = v]
    /\ file' = file \/ file' = [file EXCEPT ![n] = v]

\* A node that holds the newest version commits a mutation on top of it.
Commit(n, o) ==
    /\ \A m \in Node : mem[m] <= mem[n] /\ file[m] <= mem[n]
    /\ log' = Append(SubSeq(log, 1, mem[n]), log[mem[n]] \union {o})
    /\ Moves(n, mem[n] + 1)

\* A node takes over a newer version.
Learn(n) ==
    /\ \E v \in (mem[n] + 1) .. Len(log) : Moves(n, v)
    /\ UNCHANGED log

\* A node starts again from what it has saved.
Reload(n) ==
    /\ mem' = [mem EXCEPT ![n] = file[n]]
    /\ UNCHANGED <<log, file>>

Next == \E n \in Node : Learn(n) \/ Reload(n) \/ \E o \in Op : Commit(n, o)

Spec == Init /\ [][Next]_vars
=============================================================================
