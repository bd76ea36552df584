--------------------------- MODULE QuorumManager ---------------------------
(***************************************************************************)
(* quorum.Manager of one node, Self: the goroutines of one process that    *)
(* touch its liveness tables and its master.                               *)
(*                                                                         *)
(* The heartbeat ticker, every inbound heartbeat handler and every         *)
(* goroutine waiting for a heartbeat reply run concurrently.  The code     *)
(* holds m.mu for each table update, but recomputeMaster reads the live    *)
(* set and the quorum size before it takes the lock it decides under, so   *)
(* each recompute is three steps here, and any step of another goroutine,  *)
(* or the passing of time, may fall between them.                          *)
(*                                                                         *)
(* The peers that send heartbeats and answer them are the environment.     *)
(***************************************************************************)
EXTENDS ElectionRules

CONSTANTS
    Self,         \* this node
    Handlers,     \* heartbeat handlers that may run at the same time
    Ticker,       \* the goroutine of Start
    TermModulus   \* term is a uint64: 2^64 in the code

ASSUME SelfAssumption == Self \in Node
ASSUME TickerAssumption == Ticker \notin Handlers
ASSUME TermAssumption == TermModulus \in Nat \ {0}

VARIABLES
    peers,        \* NodeIDs of the Peers of cluster.yaml, now
    known,        \* keys of lastSeen
    age,          \* now - lastSeen, saturating
    streak,       \* now - liveSince, saturating
    master, term,
    outstanding,  \* peers whose reply to the last round is awaited
    pc, sample,   \* progress of each goroutine that recomputes the master
    unbroken      \* history: time n has been heard of without a silence
                  \* longer than DeadAfter (not in the code)

vars == <<peers, known, age, streak, master, term, outstanding, pc, sample,
          unbroken>>

Threads == Handlers \union {Ticker}
NoSample == [live |-> {}, need |-> 0]
PC == {"new", "idle", "mark", "live", "need"}

TypeOK ==
    /\ peers \subseteq Node
    /\ known \subseteq Node
    /\ age \in [Node -> Age]
    /\ streak \in [Node -> Streak]
    /\ master \in Node \union {NoMaster}
    /\ term \in 0 .. (TermModulus - 1)
    /\ outstanding \subseteq Node \ {Self}
    /\ pc \in [Threads -> PC]
    /\ sample \in [Threads -> [live : SUBSET Node, need : Nat]]
    /\ unbroken \in [Node -> Streak]

\* New: nothing is remembered, whatever the cluster configuration says.
Init ==
    /\ peers \in SUBSET Node /\ Self \in peers
    /\ known = {}
    /\ age = [n \in Node |-> 0]
    /\ streak = [n \in Node |-> 0]
    /\ master = NoMaster
    /\ term = 0
    /\ outstanding = {}
    /\ pc = [t \in Threads |-> IF t = Ticker THEN "new" ELSE "idle"]
    /\ sample = [t \in Threads |-> NoSample]
    /\ unbroken = [n \in Node |-> 0]

\* The tables after markLive(n).
MarkLive(n) ==
    /\ known' = known \union {n}
    /\ age' = [age EXCEPT ![n] = 0]
    /\ streak' = [streak EXCEPT ![n] =
                    IF NewStreak(n, known, age) THEN 0 ELSE @]
    /\ unbroken' = [unbroken EXCEPT ![n] = IF n \in known THEN @ ELSE 0]

At(t, from, to) == pc[t] = from /\ pc' = [pc EXCEPT ![t] = to]

\* Start marks self live and recomputes before the first tick.
Start ==
    /\ At(Ticker, "new", "mark")
    /\ MarkLive(Self)
    /\ UNCHANGED <<peers, master, term, outstanding, sample>>

\* Mutant of Tick: the node calls itself too.
TickSelf ==
    /\ At(Ticker, "idle", "mark")
    /\ outstanding' = peers
    /\ MarkLive(Self)
    /\ UNCHANGED <<peers, master, term, sample>>

\* tick: a heartbeat goes to every other peer (the calls of the previous
\* round have timed out, their limit is the interval itself), then self is
\* marked live and the election runs.
Tick ==
    /\ At(Ticker, "idle", "mark")
    /\ outstanding' = peers \ {Self}
    /\ MarkLive(Self)
    /\ UNCHANGED <<peers, master, term, sample>>

\* A reply to a heartbeat of the last round; there is no recompute.
HeartbeatReply(n) ==
    /\ n \in outstanding
    /\ outstanding' = outstanding \ {n}
    /\ MarkLive(n)
    /\ UNCHANGED <<peers, master, term, pc, sample>>

\* The call to n failed: nothing is recorded.
HeartbeatFailed(n) ==
    /\ n \in outstanding
    /\ outstanding' = outstanding \ {n}
    /\ UNCHANGED <<peers, known, age, streak, master, term, pc, sample, unbroken>>

\* HandleHeartbeat: any trusted node may call, member or not; a heartbeat
\* that names no sender, or this node, only recomputes.
HandleHeartbeat(h, from) ==
    /\ At(h, "idle", "mark")
    /\ IF from = Self THEN UNCHANGED <<known, age, streak, unbroken>>
                      ELSE MarkLive(from)
    /\ UNCHANGED <<peers, master, term, outstanding, sample>>

\* recomputeMaster, first read: the live set, under the read lock.
ReadLive(t) ==
    /\ At(t, "mark", "live")
    /\ sample' = [sample EXCEPT ![t].live = LiveSet(Self, known, age)]
    /\ UNCHANGED <<peers, known, age, streak, master, term, outstanding, unbroken>>

\* recomputeMaster, second read: the quorum size, under the config's lock.
ReadQuorum(t) ==
    /\ At(t, "live", "need")
    /\ sample' = [sample EXCEPT ![t].need = QuorumSize(peers)]
    /\ UNCHANGED <<peers, known, age, streak, master, term, outstanding, unbroken>>

\* recomputeMaster, the decision, under the lock: old samples, new streaks.
Commit(t) ==
    LET elected == Elect(sample[t].live, sample[t].need, master, streak) IN
    /\ At(t, "need", "idle")
    /\ sample' = [sample EXCEPT ![t] = NoSample]
    /\ master' = elected
    /\ term' = IF elected = master THEN term ELSE (term + 1) % TermModulus
    /\ UNCHANGED <<peers, known, age, streak, outstanding, unbroken>>

\* One heartbeat interval passes.
Advance ==
    /\ age' = [n \in Node |->
                 IF n \in known THEN Older(age[n], DeadAfter + 1) ELSE age[n]]
    /\ streak' = [n \in Node |->
                    IF n \in known THEN Older(streak[n], Cooldown) ELSE streak[n]]
    /\ unbroken' = [n \in Node |->
                      IF n \in known /\ age[n] < DeadAfter
                      THEN Older(unbroken[n], Cooldown) ELSE 0]
    /\ UNCHANGED <<peers, known, master, term, outstanding, pc, sample>>

\* A mutation or a replicated configuration changes the membership.
ChangePeers ==
    /\ peers' \in SUBSET Node
    /\ UNCHANGED <<known, age, streak, master, term, outstanding, pc, sample, unbroken>>

\* The process is restarted; only cluster.yaml survives.
Restart ==
    /\ known' = {}
    /\ age' = [n \in Node |-> 0]
    /\ streak' = [n \in Node |-> 0]
    /\ master' = NoMaster
    /\ term' = 0
    /\ outstanding' = {}
    /\ pc' = [t \in Threads |-> IF t = Ticker THEN "new" ELSE "idle"]
    /\ sample' = [t \in Threads |-> NoSample]
    /\ unbroken' = [n \in Node |-> 0]
    /\ UNCHANGED peers

Recompute(t) == ReadLive(t) \/ ReadQuorum(t) \/ Commit(t)

Next ==
    \/ Start
    \/ Tick
    \/ \E n \in Node : HeartbeatReply(n) \/ HeartbeatFailed(n)
    \/ \E h \in Handlers, from \in Node : HandleHeartbeat(h, from)
    \/ \E t \in Threads : Recompute(t)
    \/ Advance
    \/ ChangePeers
    \/ Restart

\* The ticker and every started recompute run; time passes.  Nothing is
\* assumed of the peers, the membership or restarts.
Fairness ==
    /\ WF_vars(Start) /\ WF_vars(Tick) /\ WF_vars(Advance)
    /\ \A t \in Threads : WF_vars(Recompute(t))

Spec == Init /\ [][Next]_vars
FairSpec == Spec /\ Fairness
----------------------------------------------------------------------------
(* Properties *)

\* The cooldown clock of every peer that is not overdue measures exactly how
\* long that peer has been heard of without a silence longer than the
\* dead-after window, whichever goroutine recorded the contacts (markLive).
StreakIsUnbroken ==
    \A n \in known : age[n] <= DeadAfter => streak[n] = unbroken[n]

\* The inductive form: an overdue peer counts as unheard, and a recompute
\* only ever samples nodes that have been heard of (LiveSet, Restart).
ContactInv ==
    /\ StreakIsUnbroken
    /\ \A n \in known : age[n] > DeadAfter => unbroken[n] = 0
    /\ \A t \in Threads : sample[t].live \subseteq known

\* A decision that replaces one master by another either saw the old one
\* missing from the live set it sampled, or promotes a lower NodeID of that
\* live set whose whole cooldown was served without a break, except that
\* the promoted node may itself have gone silent since the sample was taken
\* (recomputeMaster reads the live set before it locks).
DisplacementEarned ==
    [][\A t \in Threads :
         /\ pc[t] = "need" /\ pc'[t] = "idle"
         /\ master \in Node /\ master' \in Node /\ master' # master
         => /\ master' \in sample[t].live
            /\ master \in sample[t].live =>
                 /\ master' < master
                 /\ unbroken[master'] = Cooldown \/ age[master'] > DeadAfter]_vars

\* The process stays up and the membership stays as it is.
StaysUp == [][~Restart /\ UNCHANGED peers]_vars

\* The election rule in the long run: once the live set stays the same and
\* is a quorum, its lowest NodeID becomes master for good, whatever stale
\* samples were about to be committed (recomputeMaster under tick).
LowestLiveRules ==
    <>StaysUp =>
        \A L \in (SUBSET Node) \ {{}} :
            <>[](LiveSet(Self, known, age) = L /\ Cardinality(L) >= QuorumSize(peers))
                => <>[](master = Min(L))

\* A node that stops seeing a quorum gives its master up, and does not take
\* a stale one back (recomputeMaster's last branch).
StepsDownWithoutQuorum ==
    <>StaysUp /\ <>[](Cardinality(LiveSet(Self, known, age)) < QuorumSize(peers))
        => <>[](master = NoMaster)

\* The package comment of manager.go: the membership is the peers listed in
\* cluster.yaml, and the master is a live member.  The code does not keep
\* this: any trusted caller counts as live.
MasterIsElectedAmongMembers ==
    [][\A t \in Threads :
         /\ pc[t] = "need" /\ pc'[t] = "idle"
         /\ master' \in Node /\ master' # master
         => master' \in peers]_vars
=============================================================================
