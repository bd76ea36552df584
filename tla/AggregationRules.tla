-------------------------- MODULE AggregationRules --------------------------
(***************************************************************************)
(* The pure part of internal/checks/aggregator.go and of the alert filter  *)
(* in internal/alerts/dispatcher.go: what the fresh results of a check add *)
(* up to, when that commits a new state, and which commits are announced.  *)
(***************************************************************************)
EXTENDS Integers, FiniteSets

CONSTANT Node

State == {"unknown", "up", "down"}

\* What the table holds of a node: nothing, its last success or failure, or one
\* whose timestamp has left the fresh window.
Word == {"none", "ok", "bad", "oldOk", "oldBad"}

Aged(w) == IF w \in {"ok", "oldOk"} THEN "oldOk"
           ELSE IF w \in {"bad", "oldBad"} THEN "oldBad" ELSE w

\* HysteresisCount.
Hysteresis == 2

Saying(latest, w) == Cardinality({n \in Node : latest[n] = w})

\* Mutant of Verdict: results count whatever their age.
VerdictAnyAge(latest) ==
    LET ok  == Saying(latest, "ok") + Saying(latest, "oldOk")
        bad == Saying(latest, "bad") + Saying(latest, "oldBad")
    IN  IF ok + bad = 0 THEN "unknown" ELSE IF bad > ok THEN "down" ELSE "up"

\* evaluate: the candidate state the fresh results amount to; old ones stay in
\* the table and are passed over.
Verdict(latest) ==
    IF \A n \in Node : latest[n] \notin {"ok", "bad"} THEN "unknown"
    ELSE IF Saying(latest, "bad") > Saying(latest, "ok") THEN "down" ELSE "up"

\* Mutant of NewState: committed is left at Go's zero value.
NewStateZero == [latest |-> [n \in Node |-> "none"], committed |-> "",
                 candidate |-> "unknown", consecutive |-> 0]

\* Submit: the state of a check on its first result.
NewState == [latest |-> [n \in Node |-> "none"], committed |-> "unknown",
             candidate |-> "unknown", consecutive |-> 0]

CheckState == [latest : [Node -> Word], committed : State, candidate : State,
               consecutive : 0 .. Hysteresis]

\* Mutant of Judged: the streak of a candidate is not restarted by another one.
JudgedNoReset(st) ==
    LET v == Verdict(st.latest)
        k == IF st.consecutive < Hysteresis THEN st.consecutive + 1 ELSE Hysteresis
    IN  [st EXCEPT !.candidate = v, !.consecutive = k,
                   !.committed = IF k >= Hysteresis THEN v ELSE @]

\* evaluate: the check's state after one more evaluation.  The counter only
\* matters up to Hysteresis.
Judged(st) ==
    LET v == Verdict(st.latest)
        k == IF v # st.candidate THEN 1
             ELSE IF st.consecutive < Hysteresis THEN st.consecutive + 1
             ELSE Hysteresis
    IN  [st EXCEPT !.candidate = v, !.consecutive = k,
                   !.committed = IF k >= Hysteresis THEN v ELSE @]

\* Mutant of ShouldAlert: whatever leaves unknown is taken for a cold start.
ShouldAlertKnown(was, now) == now # "unknown" /\ was # "unknown"

\* shouldAlert: a check's first good news and its loss of data are silent.
ShouldAlert(was, now) ==
    now # "unknown" /\ ~(was = "unknown" /\ now = "up")
=============================================================================
