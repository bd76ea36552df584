--------------------------- MODULE CheckPipeline ---------------------------
(***************************************************************************)
(* One check, from its probes to its alerts: internal/checks/scheduler.go  *)
(* and aggregator.go, the sink and the transition callback of              *)
(* internal/daemon/daemon.go, and the filter of                            *)
(* internal/alerts/dispatcher.go.                                          *)
(*                                                                         *)
(* Every node runs workers that probe the target and submit each result to *)
(* the node it takes for the master.  This is the aggregator of one node,  *)
(* Self, with the results that come its way: it stores each, judges the    *)
(* fresh ones and announces a committed flip.  Storing, judging and        *)
(* announcing are separate steps: the code releases the lock in between,   *)
(* and submissions of several nodes interleave.                            *)
(*                                                                         *)
(* The environment: who takes Self for the master, Self included (module   *)
(* Election), the edits of the check (module Replication; they reach every *)
(* node at once here), which node can reach the target, and the passing of *)
(* time, which makes stored results too old to count.                      *)
(***************************************************************************)
EXTENDS AggregationRules

CONSTANTS
    Self,       \* the node whose aggregator this is
    None,       \* no worker, no submission, no announcement, no evaluation yet
    MaxEvents   \* bound on the changes of the environment, all together

ASSUME NodeAssumption == IsFiniteSet(Node)
ASSUME SelfAssumption == Self \in Node
ASSUME NoneAssumption == None \notin State
ASSUME BoundsAssumption == MaxEvents \in Nat

VARIABLES
    followers,  \* nodes that take Self for the master
    reach,      \* nodes whose probes of the target succeed
    check,      \* the check in cluster.yaml: its presence and its content
    worker,     \* the content of the check that n's running worker probes
    dying,      \* nodes with a cancelled worker that has not returned yet
    sub,        \* submissions of n on their way or being handled: by its
                \* running worker, and by one that is past
    known,      \* whether the aggregator has a state for the check
    perCheck,   \* that state
    announced,  \* the state the last alert was about
    events,     \* environment changes so far
    verdicts,   \* history: the verdicts of the last evaluation and the one before
    due         \* history: outages committed and not announced yet

vars == <<followers, reach, check, worker, dying, sub, known, perCheck, announced,
          events, verdicts, due>>

Presence == {"on", "off", "gone"}
Content == {"old", "new"}
Slot == {"current", "past"}
Submission == [stage : {"sent"}, word : Word]
                \union [stage : {"stored"}]
                \union [stage : {"announce"}, was : State, now : State]

\* As many outages as there are handlers may wait to be announced.
MaxDue == 2 * Cardinality(Node)

NotJudged == [last |-> None, before |-> None]

TypeOK ==
    /\ followers \subseteq Node
    /\ reach \subseteq Node
    /\ check \in [presence : Presence, content : Content]
    /\ worker \in [Node -> Content \union {None}]
    /\ dying \subseteq Node
    /\ sub \in [Node -> [Slot -> Submission \union {None}]]
    /\ known \in BOOLEAN
    /\ perCheck \in CheckState
    /\ announced \in State \union {None}
    /\ events \in 0 .. MaxEvents
    /\ due \in 0 .. MaxDue
    /\ verdicts \in [last : State \union {None}, before : State \union {None}]

\* The processes start; whether the other nodes follow Self before it knows,
\* and what the target is like, is not theirs to say.
Init ==
    /\ followers \in {Node, Node \ {Self}}
    /\ reach \in SUBSET Node
    /\ check \in [presence : {"on", "off"}, content : {"old"}]
    /\ worker = [n \in Node |-> None]
    /\ dying = {}
    /\ sub = [n \in Node |-> [s \in Slot |-> None]]
    /\ known = FALSE
    /\ perCheck = NewState
    /\ announced = None
    /\ events = 0
    /\ verdicts = NotJudged
    /\ due = 0

\* ------------------------------------------------------------- scheduler
\* What reconcile wants n to run.
Wanted == IF check.presence = "on" THEN check.content ELSE None

\* reconcile: a worker whose check is disabled, removed or changed is
\* cancelled, but not waited for; an enabled check without a worker gets one.
\* The model bounds the submissions of past workers of a node to one.
Reconcile(n) ==
    /\ worker[n] # Wanted
    /\ worker' = [worker EXCEPT ![n] = Wanted]
    /\ dying' = IF worker[n] # None THEN dying \union {n} ELSE dying
    /\ IF sub[n]["current"] = None
       THEN UNCHANGED sub
       ELSE /\ sub[n]["past"] = None
            /\ sub' = [sub EXCEPT ![n] = [current |-> None, past |-> @["current"]]]
    /\ UNCHANGED <<followers, reach, check, known, perCheck, announced, events, verdicts, due>>

Send(n, s, ok) ==
    sub' = [sub EXCEPT ![n][s] = [stage |-> "sent", word |-> IF ok THEN "ok" ELSE "bad"]]

\* run: a probe of the running worker ends, and Submit of the daemon's sink
\* sends its result to this node's own aggregator if it is master, or to the
\* node it takes for the master; what goes elsewhere, or nowhere, is left out.
Probe(n) ==
    /\ worker[n] # None /\ n \in followers
    /\ sub[n]["current"] = None
    /\ Send(n, "current", n \in reach)
    /\ UNCHANGED <<followers, reach, check, worker, dying, known, perCheck, announced,
                   events, verdicts, due>>

\* run: a cancelled worker was in the middle of a probe, which may fail for
\* that alone, or its select takes the ticker's branch once more.
ProbeCancelled(n) ==
    /\ n \in dying /\ n \in followers
    /\ sub[n]["past"] = None
    /\ \E ok \in BOOLEAN : (ok => n \in reach) /\ Send(n, "past", ok)
    /\ UNCHANGED <<followers, reach, check, worker, dying, known, perCheck, announced,
                   events, verdicts, due>>

\* run: a cancelled worker returns.
Exit(n) ==
    /\ n \in dying /\ sub[n]["past"] = None
    /\ dying' = dying \ {n}
    /\ UNCHANGED <<followers, reach, check, worker, sub, known, perCheck, announced,
                   events, verdicts, due>>

At(n, s, stage) == sub[n][s] # None /\ sub[n][s].stage = stage
Done(n, s) == sub' = [sub EXCEPT ![n][s] = None]
Becomes(n, s, x) == sub' = [sub EXCEPT ![n][s] = x]
Event == events < MaxEvents /\ events' = events + 1

\* The report never reaches the master.
LoseReport(n, s) ==
    /\ n # Self /\ At(n, s, "sent")
    /\ Event
    /\ Done(n, s)
    /\ UNCHANGED <<followers, reach, check, worker, dying, known, perCheck, announced,
                   verdicts, due>>

\* The call of n times out, and its worker goes on, while the report is
\* still on its way or being handled.
GiveUp(n) ==
    /\ n # Self /\ sub[n]["current"] # None /\ sub[n]["past"] = None
    /\ Event
    /\ sub' = [sub EXCEPT ![n] = [current |-> None, past |-> @["current"]]]
    /\ UNCHANGED <<followers, reach, check, worker, dying, known, perCheck, announced,
                   verdicts, due>>

\* ------------------------------------------------------------ aggregator
\* Submit: the result replaces the last one of its node.  Whether this node
\* is master is not asked.
Store(n, s) ==
    /\ At(n, s, "sent")
    /\ perCheck' = [perCheck EXCEPT !.latest[n] = sub[n][s].word]
    /\ known' = TRUE
    /\ Becomes(n, s, [stage |-> "stored"])
    /\ UNCHANGED <<followers, reach, check, worker, dying, announced, events, verdicts, due>>

\* evaluate: a check that is no longer in cluster.yaml loses its state.
Forget(n, s) ==
    /\ At(n, s, "stored") /\ check.presence = "gone"
    /\ known' = FALSE
    /\ perCheck' = NewState
    /\ verdicts' = NotJudged
    /\ Done(n, s)
    /\ UNCHANGED <<followers, reach, check, worker, dying, announced, events, due>>

\* evaluate, under the lock: one more verdict, and perhaps a committed flip,
\* which this submission goes on to announce after the lock is released.  A
\* check that is removed between the lookup and the lock counts as present.
Evaluate(n, s) ==
    LET was == perCheck.committed
        now == Judged(perCheck).committed
    IN  /\ At(n, s, "stored")
        /\ IF known
           THEN /\ perCheck' = Judged(perCheck)
                /\ verdicts' = [last |-> Verdict(perCheck.latest), before |-> verdicts.last]
           ELSE UNCHANGED <<perCheck, verdicts>>
        /\ due' = IF known /\ now # was /\ now = "down" /\ due < MaxDue THEN due + 1 ELSE due
        /\ IF known /\ now # was
           THEN Becomes(n, s, [stage |-> "announce", was |-> was, now |-> now])
           ELSE Done(n, s)
        /\ UNCHANGED <<followers, reach, check, worker, dying, known, announced, events>>

\* The transition callback: dropped unless this node is master by now, and
\* silent for some transitions.
Announce(n, s) ==
    /\ At(n, s, "announce")
    /\ IF Self \in followers /\ ShouldAlert(sub[n][s].was, sub[n][s].now)
       THEN /\ announced' = sub[n][s].now
            /\ due' = IF sub[n][s].now = "down" /\ due > 0 THEN due - 1 ELSE due
       ELSE UNCHANGED <<announced, due>>
    /\ Done(n, s)
    /\ UNCHANGED <<followers, reach, check, worker, dying, known, perCheck, events,
                   verdicts>>

\* ----------------------------------------------------------- environment
\* n has no worker that reports to Self, or is gone.
Silent(n) == n \notin followers \/ worker[n] = None

Age(n) ==
    /\ perCheck.latest[n] \in {"ok", "bad"}
    /\ perCheck' = [perCheck EXCEPT !.latest[n] = Aged(@)]
    /\ UNCHANGED <<followers, reach, check, worker, dying, sub, known, announced,
                   verdicts, due>>

\* The result of a silent node leaves the fresh window.
Expire(n) == Silent(n) /\ Age(n) /\ UNCHANGED events

\* So does that of a node whose next report takes longer than the window.
ExpireLate(n) == ~Silent(n) /\ Age(n) /\ Event

\* A report is on its way for longer than the window.
Delay(n, s) ==
    /\ At(n, s, "sent")
    /\ Event
    /\ Becomes(n, s, [stage |-> "sent", word |-> Aged(sub[n][s].word)])
    /\ UNCHANGED <<followers, reach, check, worker, dying, known, perCheck, announced,
                   verdicts, due>>

Toggle(set, n) == IF n \in set THEN set \ {n} ELSE set \union {n}

\* n starts or stops to take Self for the master.
Elect(n) ==
    /\ Event
    /\ followers' = Toggle(followers, n)
    /\ UNCHANGED <<reach, check, worker, dying, sub, known, perCheck, announced, verdicts, due>>

\* The target, or some nodes' way to it, fails or comes back.
ChangeReach ==
    /\ Event
    /\ reach' \in (SUBSET Node) \ {reach}
    /\ UNCHANGED <<followers, check, worker, dying, sub, known, perCheck, announced,
                   verdicts, due>>

\* An operator changes, disables, enables or removes the check.
Edit ==
    /\ check.presence # "gone"
    /\ Event
    /\ \/ \E c \in Content \ {check.content} : check' = [check EXCEPT !.content = c]
       \/ \E p \in Presence \ {check.presence} : check' = [check EXCEPT !.presence = p]
    /\ UNCHANGED <<followers, reach, worker, dying, sub, known, perCheck, announced,
                   verdicts, due>>

Handle(n, s) == Store(n, s) \/ Forget(n, s) \/ Evaluate(n, s) \/ Announce(n, s)

Next ==
    \/ \E n \in Node :
         \/ Reconcile(n) \/ Probe(n) \/ ProbeCancelled(n) \/ Exit(n) \/ GiveUp(n)
         \/ Expire(n) \/ ExpireLate(n) \/ Elect(n)
    \/ \E n \in Node, s \in Slot : Handle(n, s) \/ LoseReport(n, s) \/ Delay(n, s)
    \/ ChangeReach \/ Edit

\* The scheduler ticks, workers probe, handlers go on, and a cancelled worker
\* does not lose its select to the ticker for ever; time passes, so results that
\* nobody renews get old.  Nothing else is assumed of the environment.
Fairness ==
    /\ \A n \in Node : WF_vars(Reconcile(n)) /\ WF_vars(Probe(n)) /\ SF_vars(Exit(n))
                       /\ WF_vars(Expire(n))
    /\ \A n \in Node, s \in Slot : WF_vars(Handle(n, s))

Spec == Init /\ [][Next]_vars
FairSpec == Spec /\ Fairness
----------------------------------------------------------------------------
(* Properties *)

\* The aggregator implements CheckVerdicts: with reports stored, judged and
\* announced in steps of their own, with expiry, removal and late callbacks, the
\* committed state still follows the verdicts one behind, and two equal ones
\* always commit (evaluate, the candidate and its counter).
Abstract == INSTANCE CheckVerdicts WITH
    Verdicts <- State, Unknown <- "unknown", committed <- perCheck.committed
ImplementsVerdicts == Abstract!Spec

\* Once the nodes that report to Self, itself among them, no longer reach the
\* target, Self ends with the check committed as down, whatever nodes that have
\* gone silent said last; once they all reach it, as up (Submit, evaluate and its
\* fresh window, the sink).
Reporting == check.presence = "on" /\ Self \in followers
Outage == Reporting /\ followers \intersect reach = {}
OutageIsCommitted ==
    /\ <>[]Outage => <>[](perCheck.committed = "down")
    /\ <>[](Reporting /\ followers \subseteq reach) => <>[](perCheck.committed = "up")

\* A node that is master all along announces every outage it commits, each with
\* an alert of its own, whichever handler commits it and however late its
\* callback runs (evaluate, the transition callback, shouldAlert).  Alerts may
\* still come in another order than the flips they are about.
AnnouncedByStandingMaster == [](Self \in followers) => <>[](due = 0)

\* Under a master that stays, the last alert about an outage that lasts is
\* "down".  The code does not keep this: the callback of an earlier recovery,
\* which runs outside the lock, may run last.
LastAlertIsRight ==
    [](Self \in followers) /\ <>[]Outage => <>[](announced = "down")

\* dispatcher.go, shouldAlert: any transition to Down still alerts.  An outage
\* that lasts, under a master that stays, is announced as down whatever the
\* master was before.  The code does not keep this: an outage that was
\* committed by a node that was not master yet stays unannounced.
OutageIsAnnounced == <>[]Outage => <>(announced = "down")

\* docs/configuration.md: no transitions are computed for a disabled check.
\* In particular one whose target every node reaches does not go down by
\* being disabled.  The code does not keep this: the cancelled probe of a
\* worker fails, and its result is judged.
DisablingIsNoOutage ==
    [][check.presence = "off" /\ reach = Node /\ perCheck.committed # "down"
         => perCheck'.committed # "down"]_vars
============================================================================
