------------------------------ MODULE Election ------------------------------
(***************************************************************************)
(* The quorum.Managers of a whole cluster, exchanging heartbeats.          *)
(*                                                                         *)
(* Membership is fixed: every node lists every node.  Each process ticks   *)
(* once per heartbeat interval, and its calls are over before the next one *)
(* (the call's limit is the interval), in any order.  A recompute is one   *)
(* step here; QuorumManager has the finer grain.                           *)
(*                                                                         *)
(* Processes crash and restart with empty tables, links between two nodes  *)
(* fail and heal, and replies get lost, at most MaxFaults times in all.    *)
(***************************************************************************)
EXTENDS ElectionRules

CONSTANT MaxFaults   \* bound on crashes, starts, cuts, repairs and lost replies

ASSUME MaxFaultsAssumption == MaxFaults \in Nat

VARIABLES
    up,          \* running processes
    known, age, streak, master,   \* QuorumManager's tables, one per node
    ticked,      \* nodes whose ticker has fired in this interval
    calls,       \* heartbeat calls in progress, <<caller, callee>>
    cut,         \* links that carry nothing, as two-element sets
    faults,      \* faults so far
    stable,      \* history: intervals since the last fault, saturating
    voters       \* history: the live set a node last elected from

tables == <<known, age, streak, master, voters>>
vars == <<up, tables, ticked, calls, cut, faults, stable>>

LongStable == DeadAfter + Cooldown + 2

TypeOK ==
    /\ up \subseteq Node
    /\ known \in [Node -> SUBSET Node]
    /\ age \in [Node -> [Node -> Age]]
    /\ streak \in [Node -> [Node -> Streak]]
    /\ master \in [Node -> Node \union {NoMaster}]
    /\ ticked \subseteq Node
    /\ \A c \in calls : c \in Node \X Node /\ c[1] # c[2]
    /\ cut \subseteq SUBSET Node
    /\ faults \in 0 .. MaxFaults
    /\ stable \in 0 .. LongStable
    /\ voters \in [Node -> SUBSET Node]

Zero == [n \in Node |-> 0]
Live(i) == LiveSet(i, known[i], age[i])
Connected(i, j) == i \in up /\ j \in up /\ {i, j} \notin cut

\* Every process starts together, each knowing only itself.
Init ==
    /\ up = Node
    /\ known = [i \in Node |-> {i}]
    /\ age = [i \in Node |-> Zero]
    /\ streak = [i \in Node |-> Zero]
    /\ master = [i \in Node |-> Elect({i}, QuorumSize(Node), NoMaster, Zero)]
    /\ voters = [i \in Node |-> {i}]
    /\ ticked = {}
    /\ calls = {}
    /\ cut = {}
    /\ faults = 0
    /\ stable = 0

\* markLive(n) at each node of the function heard, which gives the peer that
\* the node has just heard from.
MarkLive(heard) ==
    /\ known' = [i \in Node |-> IF i \in DOMAIN heard
                                THEN known[i] \union {heard[i]} ELSE known[i]]
    /\ age' = [i \in Node |-> IF i \in DOMAIN heard
                              THEN [age[i] EXCEPT ![heard[i]] = 0] ELSE age[i]]
    /\ streak' = [i \in Node |->
                    IF i \in DOMAIN heard /\ NewStreak(heard[i], known[i], age[i])
                    THEN [streak[i] EXCEPT ![heard[i]] = 0] ELSE streak[i]]

\* recomputeMaster at i, from the tables the same step has just updated.
Recompute(i) ==
    LET live == LiveSet(i, known'[i], age'[i])
    IN  /\ master' = [master EXCEPT ![i] =
                        Elect(live, QuorumSize(Node), @, streak'[i])]
        /\ voters' = [voters EXCEPT ![i] = live]

\* Something goes wrong, or is repaired.
Fault ==
    /\ faults < MaxFaults
    /\ faults' = faults + 1
    /\ stable' = 0

\* Mutant of Tick: a node calls itself too.
TickSelf(i) ==
    /\ i \in up \ ticked
    /\ ticked' = ticked \union {i}
    /\ calls' = calls \union ({i} \X Node)
    /\ MarkLive([n \in {i} |-> i])
    /\ Recompute(i)
    /\ UNCHANGED <<up, cut, faults, stable>>

\* The ticker of i: call every peer, mark self live, recompute.
Tick(i) ==
    /\ i \in up \ ticked
    /\ ticked' = ticked \union {i}
    /\ calls' = calls \union ({i} \X (Node \ {i}))
    /\ MarkLive([n \in {i} |-> i])
    /\ Recompute(i)
    /\ UNCHANGED <<up, cut, faults, stable>>

\* j handles the heartbeat of i (mark, recompute) and i gets the reply
\* (mark only).
Heartbeat(i, j) ==
    /\ <<i, j>> \in calls
    /\ Connected(i, j)
    /\ calls' = calls \ {<<i, j>>}
    /\ MarkLive([n \in {i, j} |-> IF n = i THEN j ELSE i])
    /\ Recompute(j)
    /\ UNCHANGED <<up, ticked, cut, faults, stable>>

\* j handles the heartbeat of i, whose reply is lost on the way.
ReplyLost(i, j) ==
    /\ <<i, j>> \in calls
    /\ Connected(i, j)
    /\ Fault
    /\ calls' = calls \ {<<i, j>>}
    /\ MarkLive([n \in {j} |-> i])
    /\ Recompute(j)
    /\ UNCHANGED <<up, ticked, cut>>

\* The call cannot be made, or its answer cannot come back: it times out.
HeartbeatFails(i, j) ==
    /\ <<i, j>> \in calls
    /\ ~Connected(i, j)
    /\ calls' = calls \ {<<i, j>>}
    /\ UNCHANGED <<up, tables, ticked, cut, faults, stable>>

\* A heartbeat interval ends: every ticker has fired, every call is over.
Advance ==
    /\ up \subseteq ticked /\ calls = {}
    /\ ticked' = {}
    /\ age' = [i \in Node |-> [n \in Node |->
                 IF n \in known[i] THEN Older(age[i][n], DeadAfter + 1) ELSE 0]]
    /\ streak' = [i \in Node |-> [n \in Node |->
                    IF n \in known[i] THEN Older(streak[i][n], Cooldown) ELSE 0]]
    /\ stable' = Older(stable, LongStable)
    /\ UNCHANGED <<up, known, master, voters, calls, cut, faults>>

\* The tables of i are those of a process that has not started.
Forget(i) ==
    /\ known' = [known EXCEPT ![i] = {}]
    /\ age' = [age EXCEPT ![i] = Zero]
    /\ streak' = [streak EXCEPT ![i] = Zero]
    /\ master' = [master EXCEPT ![i] = NoMaster]
    /\ voters' = [voters EXCEPT ![i] = {}]

\* The process dies with its tables and its calls.
Crash(i) ==
    /\ i \in up
    /\ Fault
    /\ up' = up \ {i}
    /\ Forget(i)
    /\ ticked' = ticked \ {i}
    /\ calls' = {c \in calls : c[1] # i}
    /\ UNCHANGED cut

\* Start: self is marked live and the election runs once; the first tick
\* comes an interval later.
Start(i) ==
    /\ i \in Node \ up
    /\ Fault
    /\ up' = up \union {i}
    /\ ticked' = ticked \union {i}
    /\ MarkLive([n \in {i} |-> i])
    /\ Recompute(i)
    /\ UNCHANGED <<calls, cut>>

\* A link between two nodes stops or resumes carrying calls.
ToggleLink(i, j) ==
    /\ i < j
    /\ Fault
    /\ cut' = IF {i, j} \in cut THEN cut \ {{i, j}} ELSE cut \union {{i, j}}
    /\ UNCHANGED <<up, tables, ticked, calls>>

Next ==
    \/ Advance
    \/ \E i \in Node : Tick(i) \/ Crash(i) \/ Start(i)
    \/ \E i, j \in Node :
         \/ Heartbeat(i, j) \/ ReplyLost(i, j) \/ HeartbeatFails(i, j)
         \/ ToggleLink(i, j)

Spec == Init /\ [][Next]_vars
----------------------------------------------------------------------------
(* Properties *)

\* Two masters, wherever they are believed in, were elected from live sets
\* that share a node: no two parts of a clean partition elect one each
\* (the quorum test of recomputeMaster against QuorumSize).
MastersShareAVoter ==
    \A i, j \in Node :
        master[i] \in Node /\ master[j] \in Node
            => voters[i] \intersect voters[j] # {}

\* The inductive form: a master was elected by a quorum it belongs to.
VotersInv ==
    \A i \in Node :
        master[i] \in Node => /\ master[i] \in voters[i]
                             /\ Cardinality(voters[i]) >= QuorumSize(Node)

\* When all running nodes can talk and form a quorum, then no later than a
\* dead-after window and a cooldown after the last fault all of them agree
\* on the lowest NodeID, whoever ruled whom before (recomputeMaster).
AgreementAfterCooldown ==
    /\ stable = LongStable
    /\ \A i, j \in up : Connected(i, j)
    /\ Cardinality(up) >= QuorumSize(Node)
    => \A i \in up : master[i] = Min(up)

\* A node that can reach too few others has no master from a dead-after
\* window and one tick after the last fault on: its stale tables do not
\* keep it in office (LiveSet, tick).
MinorityStepsDown ==
    \A i \in up :
        /\ stable > DeadAfter + 1
        /\ Cardinality({j \in up : Connected(i, j)}) < QuorumSize(Node)
        => master[i] = NoMaster

\* docs/architecture.md: no split-brain window even during a partial
\* partition; here, not even one that outlasts every timer.
NoLastingSplitBrain ==
    \A i, j \in up :
        stable = LongStable /\ master[i] = i /\ master[j] = j => i = j
=============================================================================
