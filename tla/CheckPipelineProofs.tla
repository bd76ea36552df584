------------------------- MODULE CheckPipelineProofs -------------------------
(***************************************************************************)
(* What CheckPipeline promises, for any number of nodes and any bound on   *)
(* the changes of the environment: the types, and that no interleaving of  *)
(* reports commits a flip the fresh results did not earn twice in a row.   *)
(***************************************************************************)
EXTENDS CheckPipeline, FiniteSetTheorems, TLAPS

-----------------------------------------------------------------------------
(* The lemmas about the pure rules.                                        *)

\* A verdict is a state.
LEMMA VerdictFacts ==
    ASSUME NEW latest
    PROVE  Verdict(latest) \in State
  BY DEF Verdict, State

\* What one evaluation makes of a check's state (evaluate).
LEMMA JudgedFacts ==
    ASSUME NEW st \in CheckState
    PROVE  /\ Judged(st) \in CheckState
           /\ Judged(st).latest = st.latest
           /\ Judged(st).candidate = Verdict(st.latest)
           /\ Judged(st).consecutive >= 1
           /\ Judged(st).committed =
                IF st.consecutive >= 1 /\ st.candidate = Verdict(st.latest)
                THEN Verdict(st.latest) ELSE st.committed
           /\ Judged(st).committed # st.committed
                => /\ Judged(st).committed = Verdict(st.latest)
                   /\ st.consecutive >= 1
                   /\ st.candidate = Verdict(st.latest)
<1> DEFINE v == Verdict(st.latest)
           k == IF v # st.candidate THEN 1
                ELSE IF st.consecutive < Hysteresis THEN st.consecutive + 1
                ELSE Hysteresis
<1>1. v \in State
  BY VerdictFacts
<1>2. /\ st.latest \in [Node -> Word] /\ st.committed \in State
      /\ st.candidate \in State /\ st.consecutive \in 0 .. Hysteresis
      /\ st = [latest |-> st.latest, committed |-> st.committed,
               candidate |-> st.candidate, consecutive |-> st.consecutive]
  BY DEF CheckState
<1>3. k \in 0 .. Hysteresis /\ k >= 1
  BY <1>2 DEF Hysteresis
<1>4. k >= Hysteresis <=> v = st.candidate /\ st.consecutive >= 1
  BY <1>2 DEF Hysteresis
<1> DEFINE c == IF k >= Hysteresis THEN v ELSE st.committed
<1>5. Judged(st) = [latest |-> st.latest, committed |-> c, candidate |-> v,
                    consecutive |-> k]
  <2>1. Judged(st) = [st EXCEPT !.candidate = v, !.consecutive = k, !.committed = c]
    BY DEF Judged
  <2> HIDE DEF v, k, c
  <2> QED BY <1>2, <2>1
<1>6. c \in State
  BY <1>1, <1>2
<1>7. Judged(st) \in CheckState
  <2> HIDE DEF v, k, c
  <2> QED BY <1>1, <1>2, <1>3, <1>5, <1>6 DEF CheckState
<1>8. /\ Judged(st).latest = st.latest /\ Judged(st).candidate = v
      /\ Judged(st).committed = c /\ Judged(st).consecutive = k
  <2> HIDE DEF v, k, c
  <2> QED BY <1>5
<1>9. Judged(st).committed # st.committed
        => Judged(st).committed = v /\ st.consecutive >= 1 /\ st.candidate = v
  <2> HIDE DEF v, k
  <2> QED BY <1>4, <1>8
<1>10. Judged(st).committed = IF st.consecutive >= 1 /\ st.candidate = v
                              THEN v ELSE st.committed
  <2> HIDE DEF v, k
  <2> QED BY <1>4, <1>8
<1> QED
  BY <1>3, <1>7, <1>8, <1>9, <1>10

\* A check starts without results.
LEMMA NewStateType == NewState \in CheckState
  BY DEF NewState, CheckState, Word, State, Hysteresis

-----------------------------------------------------------------------------
(* The types.                                                              *)

Report == Submission \union {None}
SubType == [Node -> [Slot -> Report]]

\* A submission that moves on leaves the others alone.
LEMMA BecomesTyped ==
    ASSUME sub \in SubType, NEW n \in Node, NEW s \in Slot, NEW x \in Report,
           sub' = [sub EXCEPT ![n][s] = x]
    PROVE  sub' \in SubType
  BY DEF SubType

\* What the running worker has under way becomes a past worker's.
LEMMA ShiftTyped ==
    ASSUME sub \in SubType, NEW n \in Node,
           sub' = [sub EXCEPT ![n] = [current |-> None, past |-> sub[n]["current"]]]
    PROVE  sub' \in SubType
<1> DEFINE row == [current |-> None, past |-> sub[n]["current"]]
<1>1. sub[n]["current"] \in Report /\ None \in Report
  BY DEF SubType, Slot, Report
<1>2. row \in [Slot -> Report]
  <2>1. DOMAIN row = Slot /\ \A s \in Slot : row[s] \in Report
    BY <1>1 DEF Slot
  <2>2. row = [s \in Slot |-> row[s]]
    BY <2>1
  <2> HIDE DEF row
  <2>3. QED
    BY <2>1, <2>2
<1> HIDE DEF row
<1> QED
  BY <1>2 DEF row, SubType

\* A report on its way carries a word.
LEMMA SentWord ==
    ASSUME sub \in SubType, NEW n \in Node, NEW s \in Slot, At(n, s, "sent")
    PROVE  sub[n][s].word \in Word
<1>1. sub[n][s] \in Submission /\ sub[n][s].stage = "sent"
  BY DEF SubType, Report, At
<1> QED
  BY <1>1 DEF Submission

\* A submission whose flip is to be announced carries two states.
LEMMA AnnounceFacts ==
    ASSUME sub \in SubType, NEW n \in Node, NEW s \in Slot, At(n, s, "announce")
    PROVE  sub[n][s].was \in State /\ sub[n][s].now \in State
<1>1. sub[n][s] \in Submission /\ sub[n][s].stage = "announce"
  BY DEF SubType, Report, At
<1> QED
  BY <1>1 DEF Submission

\* The part of the type invariant that leaves out the aggregator's table.
Rest ==
    /\ followers \subseteq Node
    /\ reach \subseteq Node
    /\ check \in [presence : Presence, content : Content]
    /\ worker \in [Node -> Content \union {None}]
    /\ dying \subseteq Node
    /\ sub \in SubType
    /\ known \in BOOLEAN
    /\ announced \in State \union {None}
    /\ events \in 0 .. MaxEvents
    /\ due \in 0 .. MaxDue
    /\ verdicts \in [last : State \union {None}, before : State \union {None}]

LEMMA MaxDueIsNat == MaxDue \in Nat
  BY NodeAssumption, FS_CardinalityType DEF MaxDue

LEMMA RestInit == Init => Rest
<1> SUFFICES ASSUME Init
             PROVE  Rest
  OBVIOUS
<1>1. sub \in SubType
  BY DEF Init, SubType, Report
<1>2. check \in [presence : Presence, content : Content]
  BY DEF Init, Presence, Content
<1>3. followers \subseteq Node /\ reach \subseteq Node
  BY DEF Init
<1>4. worker \in [Node -> Content \union {None}] /\ dying \subseteq Node /\ known \in BOOLEAN
  BY DEF Init
<1>5. /\ announced \in State \union {None}
      /\ verdicts \in [last : State \union {None}, before : State \union {None}]
      /\ events \in 0 .. MaxEvents
      /\ due \in 0 .. MaxDue
  BY BoundsAssumption, MaxDueIsNat DEF Init, NotJudged
<1> QED
  BY <1>1, <1>2, <1>3, <1>4, <1>5 DEF Rest

\* The worker's steps.
LEMMA WorkerTypes ==
    ASSUME Rest, NEW n \in Node,
           Reconcile(n) \/ Probe(n) \/ ProbeCancelled(n) \/ Exit(n)
    PROVE  Rest'
<1>1. ASSUME NEW s \in Slot, NEW ok \in BOOLEAN, Send(n, s, ok)
      PROVE  sub' \in SubType
  <2>1. [stage |-> "sent", word |-> IF ok THEN "ok" ELSE "bad"] \in Report
    BY DEF Report, Submission, Word
  <2> QED
    BY <1>1, <2>1, BecomesTyped DEF Send, Rest
<1>2. "current" \in Slot /\ "past" \in Slot
  BY DEF Slot
<1>3. CASE Reconcile(n)
  <2>1. Wanted \in Content \union {None}
    BY DEF Rest, Wanted
  <2>2. worker' \in [Node -> Content \union {None}] /\ dying' \subseteq Node
    BY <1>3, <2>1 DEF Reconcile, Rest
  <2>3. sub' \in SubType
    BY <1>3, ShiftTyped DEF Reconcile, Rest
  <2> QED
    BY <1>3, <2>2, <2>3 DEF Reconcile, Rest
<1>4. CASE Probe(n)
  <2> DEFINE ok == n \in reach
  <2>1. ok \in BOOLEAN /\ Send(n, "current", ok)
    BY <1>4 DEF Probe
  <2> HIDE DEF ok
  <2>2. sub' \in SubType
    BY <1>1, <1>2, <2>1
  <2> QED
    BY <1>4, <2>2 DEF Probe, Rest
<1>5. CASE ProbeCancelled(n)
  <2>1. PICK ok \in BOOLEAN : Send(n, "past", ok)
    BY <1>5 DEF ProbeCancelled
  <2>2. sub' \in SubType
    BY <1>1, <1>2, <2>1
  <2> QED
    BY <1>5, <2>2 DEF ProbeCancelled, Rest
<1>6. CASE Exit(n)
  BY <1>6 DEF Exit, Rest
<1> QED
  BY <1>3, <1>4, <1>5, <1>6

\* The steps of a submission.
LEMMA HandlingTypes ==
    ASSUME Rest, perCheck \in CheckState, NEW n \in Node, NEW s \in Slot,
           Handle(n, s) \/ LoseReport(n, s) \/ Delay(n, s)
    PROVE  Rest'
<1>1. None \in Report /\ [stage |-> "stored"] \in Report
  BY DEF Report, Submission
<1>2. CASE Store(n, s)
  <2>1. sub' \in SubType
    BY <1>1, <1>2, BecomesTyped DEF Store, Becomes, Rest
  <2> QED
    BY <1>2, <2>1 DEF Store, Rest
<1>3. ASSUME Done(n, s)
      PROVE  sub' \in SubType
  BY <1>1, <1>3, BecomesTyped DEF Done, Rest
<1>4. CASE Forget(n, s)
  BY <1>3, <1>4 DEF Forget, NotJudged, Rest
<1>5. CASE Evaluate(n, s)
  <2>1. perCheck.committed \in State /\ Judged(perCheck).committed \in State
    BY JudgedFacts DEF CheckState
  <2>2. verdicts' \in [last : State \union {None}, before : State \union {None}]
    BY <1>5, VerdictFacts DEF Evaluate, Rest
  <2>3. [stage |-> "announce", was |-> perCheck.committed,
         now |-> Judged(perCheck).committed] \in Report
    BY <2>1 DEF Report, Submission
  <2>4. sub' \in SubType
    BY <1>3, <1>5, <2>3, BecomesTyped DEF Evaluate, Becomes, Rest
  <2>5. due' \in 0 .. MaxDue
    BY <1>5, MaxDueIsNat DEF Evaluate, Rest
  <2> QED
    BY <1>5, <2>2, <2>4, <2>5 DEF Evaluate, Rest
<1>6. CASE Announce(n, s)
  <2>1. sub[n][s].now \in State
    BY <1>6, AnnounceFacts DEF Announce, Rest
  <2>2. announced' \in State \union {None}
    BY <1>6, <2>1 DEF Announce, Rest
  <2>3. sub' \in SubType
    BY <1>3, <1>6 DEF Announce
  <2>4. due' \in 0 .. MaxDue
    BY <1>6, MaxDueIsNat DEF Announce, Rest
  <2> QED
    BY <1>6, <2>2, <2>3, <2>4 DEF Announce, Rest
<1>7. CASE LoseReport(n, s)
  <2>1. events' \in 0 .. MaxEvents
    BY <1>7, BoundsAssumption DEF LoseReport, Event, Rest
  <2> QED
    BY <1>3, <1>7, <2>1 DEF LoseReport, Rest
<1>8. CASE Delay(n, s)
  <2>1. events' \in 0 .. MaxEvents
    BY <1>8, BoundsAssumption DEF Delay, Event, Rest
  <2>2. sub[n][s].word \in Word
    BY <1>8, SentWord DEF Delay, Rest
  <2>3. Aged(sub[n][s].word) \in Word
    BY <2>2 DEF Aged, Word
  <2>4. [stage |-> "sent", word |-> Aged(sub[n][s].word)] \in Report
    BY <2>3 DEF Report, Submission
  <2>5. sub' \in SubType
    BY <1>8, <2>4, BecomesTyped DEF Delay, Becomes, Rest
  <2> QED
    BY <1>8, <2>1, <2>5 DEF Delay, Rest
<1> QED
  BY <1>2, <1>4, <1>5, <1>6, <1>7, <1>8 DEF Handle

\* The environment's steps.
LEMMA EnvironmentTypes ==
    ASSUME Rest, NEW n \in Node,
           GiveUp(n) \/ Expire(n) \/ ExpireLate(n) \/ Elect(n) \/ ChangeReach \/ Edit
    PROVE  Rest'
<1>1. Event => events' \in 0 .. MaxEvents
  BY BoundsAssumption DEF Event, Rest
<1>2. CASE GiveUp(n)
  <2>1. sub' \in SubType
    BY <1>2, ShiftTyped DEF GiveUp, Rest
  <2> QED
    BY <1>1, <1>2, <2>1 DEF GiveUp, Rest
<1>3. CASE Expire(n) \/ ExpireLate(n)
  BY <1>1, <1>3 DEF Expire, ExpireLate, Age, Rest
<1>4. CASE Elect(n)
  BY <1>1, <1>4 DEF Elect, Toggle, Rest
<1>5. CASE ChangeReach
  BY <1>1, <1>5 DEF ChangeReach, Rest
<1>6. CASE Edit
  <2>1. check' \in [presence : Presence, content : Content]
    BY <1>6 DEF Edit, Rest
  <2> QED
    BY <1>1, <1>6, <2>1 DEF Edit, Rest
<1> QED
  BY <1>2, <1>3, <1>4, <1>5, <1>6

-----------------------------------------------------------------------------
\* The steps that touch the aggregator's state: everything else leaves it.
AggregatorStep ==
    \E n \in Node, s \in Slot : Store(n, s) \/ Forget(n, s) \/ Evaluate(n, s)
Aging == \E n \in Node : Age(n)

LEMMA OtherSteps ==
    ASSUME [Next]_vars, ~AggregatorStep, ~Aging
    PROVE  UNCHANGED <<known, perCheck, verdicts>>
  BY DEF Next, Handle, AggregatorStep, Reconcile, Probe, ProbeCancelled, Exit, GiveUp,
         Elect, LoseReport, Delay, ChangeReach, Edit, Announce, Aging, Expire, ExpireLate, vars

\* The part of the type invariant the argument needs, and what ties the
\* history to the streak: a streak's candidate is the last verdict.
Streak ==
    /\ perCheck \in CheckState
    /\ perCheck.consecutive >= 1 => verdicts.last = perCheck.candidate
    /\ perCheck.consecutive = 0 => verdicts.last = None

LEMMA StreakInit == Init => Streak
<1>1. NewState.consecutive = 0
  BY DEF NewState
<1> QED
  BY <1>1, NewStateType DEF Init, NotJudged, Streak

LEMMA StreakStep ==
    ASSUME Streak, Rest, [Next]_vars
    PROVE  Streak'
<1>1. CASE ~AggregatorStep /\ ~Aging
  BY <1>1, OtherSteps DEF Streak
<1>2. CASE Aging
  <2>1. PICK n \in Node : Age(n)
    BY <1>2 DEF Aging
  <2>2. /\ perCheck' = [perCheck EXCEPT !.latest[n] = Aged(perCheck.latest[n])]
        /\ UNCHANGED <<known, verdicts>>
    BY <2>1 DEF Age
  <2>3. Aged(perCheck.latest[n]) \in Word
    BY <2>1 DEF Age, Aged, Word
  <2> QED
    BY <2>2, <2>3 DEF Streak, CheckState
<1>3. ASSUME NEW n \in Node, NEW s \in Slot, Store(n, s)
      PROVE  Streak'
  <2>1. PICK w \in Word : perCheck' = [perCheck EXCEPT !.latest[n] = w]
    BY <1>3, SentWord DEF Store, Rest
  <2>2. known' = TRUE /\ UNCHANGED verdicts
    BY <1>3 DEF Store
  <2> QED
    BY <2>1, <2>2 DEF Streak, CheckState
<1>4. ASSUME NEW n \in Node, NEW s \in Slot, Forget(n, s)
      PROVE  Streak'
  <2>1. perCheck' = NewState /\ verdicts'.last = None
    BY <1>4 DEF Forget, NotJudged
  <2>2. NewState.consecutive = 0
    BY DEF NewState
  <2> QED
    BY <2>1, <2>2, NewStateType DEF Streak
<1>5. ASSUME NEW n \in Node, NEW s \in Slot, Evaluate(n, s)
      PROVE  Streak'
  <2>1. known' = known
    BY <1>5 DEF Evaluate
  <2>2. CASE known
    <3>1. /\ perCheck' = Judged(perCheck)
          /\ verdicts' = [last |-> Verdict(perCheck.latest), before |-> verdicts.last]
      BY <1>5, <2>2 DEF Evaluate
    <3> QED
      BY <2>1, <3>1, JudgedFacts DEF Streak
  <2>3. CASE ~known
    BY <1>5, <2>1, <2>3 DEF Evaluate, Streak
  <2> QED
    BY <2>2, <2>3
<1> QED
  BY <1>1, <1>2, <1>3, <1>4, <1>5 DEF AggregatorStep

\* The only step that commits a flip of a check that has results and keeps
\* them is an evaluation.
LEMMA FlipIsEvaluation ==
    ASSUME Streak, [Next]_vars, perCheck'.committed # perCheck.committed
    PROVE  \/ perCheck' = Judged(perCheck)
           \/ known' = FALSE /\ perCheck' = NewState
<1>1. CASE ~AggregatorStep /\ ~Aging
  BY <1>1, OtherSteps
<1>2. ~Aging
  BY DEF Aging, Age, Streak, CheckState
<1>3. ASSUME NEW n \in Node, NEW s \in Slot, Store(n, s)
      PROVE  FALSE
  BY <1>3 DEF Store, Streak, CheckState
<1>4. ASSUME NEW n \in Node, NEW s \in Slot, Forget(n, s)
      PROVE  known' = FALSE /\ perCheck' = NewState
  BY <1>4 DEF Forget
<1>5. ASSUME NEW n \in Node, NEW s \in Slot, Evaluate(n, s)
      PROVE  perCheck' = Judged(perCheck)
  BY <1>5 DEF Evaluate
<1> QED
  BY <1>1, <1>2, <1>3, <1>4, <1>5 DEF AggregatorStep

LEMMA RestStep ==
    ASSUME Streak, Rest, [Next]_vars
    PROVE  Rest'
<1>1. CASE UNCHANGED vars
  BY <1>1 DEF vars, Rest
<1>2. CASE Next
  BY <1>2, WorkerTypes, HandlingTypes, EnvironmentTypes, SelfAssumption DEF Next, Streak
<1> QED
  BY <1>1, <1>2

\* The streak and the types hold throughout.
LEMMA Invariant == Spec => [](Streak /\ Rest)
<1>1. Streak /\ Rest /\ [Next]_vars => Streak' /\ Rest'
  BY StreakStep, RestStep
<1> QED
  BY <1>1, StreakInit, RestInit, PTL DEF Spec

-----------------------------------------------------------------------------
\* A flip is committed only if the fresh results amount to the new state and
\* the evaluation before, whoever triggered it, came to the same verdict.
Earned ==
    known /\ known' /\ perCheck'.committed # perCheck.committed
       => /\ perCheck'.committed = Verdict(perCheck.latest)
          /\ perCheck'.committed = verdicts.last

\* A flip is committed only on two equal verdicts in a row, whoever's reports
\* triggered the evaluations and however they interleave (evaluate).
THEOREM EarnedTheorem == Spec => [][Earned]_vars
<1>1. ASSUME Streak, [Next]_vars
      PROVE  Earned
  <2>1. SUFFICES ASSUME known, known', perCheck'.committed # perCheck.committed
                 PROVE  /\ perCheck'.committed = Verdict(perCheck.latest)
                        /\ perCheck'.committed = verdicts.last
    BY DEF Earned
  <2>2. perCheck' = Judged(perCheck)
    BY <1>1, <2>1, FlipIsEvaluation
  <2> QED
    BY <1>1, <2>1, <2>2, JudgedFacts DEF Streak
<1>2. Streak /\ [Next]_vars => [Earned]_vars
  BY <1>1
<1> QED
  BY <1>2, Invariant, PTL DEF Spec

-----------------------------------------------------------------------------
\* One evaluation follows the verdicts one behind.
LEMMA EvaluationJudges ==
    ASSUME Streak, perCheck' = Judged(perCheck),
           verdicts' = [last |-> Verdict(perCheck.latest), before |-> verdicts.last]
    PROVE  Abstract!Judge(Verdict(perCheck.latest))
<1> DEFINE v == Verdict(perCheck.latest)
<1>1. v \in State /\ v # None
  BY VerdictFacts, NoneAssumption
<1>2. perCheck \in CheckState /\ perCheck.consecutive \in 0 .. Hysteresis
  BY DEF Streak, CheckState
<1>3. perCheck.consecutive >= 1 /\ perCheck.candidate = v <=> v = verdicts.last
  <2>1. CASE perCheck.consecutive >= 1
    BY <2>1 DEF Streak
  <2>2. CASE perCheck.consecutive = 0
    BY <1>1, <2>2 DEF Streak
  <2> QED
    BY <1>2, <2>1, <2>2 DEF Hysteresis
<1>4. perCheck'.committed = IF perCheck.consecutive >= 1 /\ perCheck.candidate = v
                            THEN v ELSE perCheck.committed
  BY <1>2, JudgedFacts
<1>5. perCheck'.committed = IF v = verdicts.last THEN v ELSE perCheck.committed
  BY <1>3, <1>4
<1> QED
  BY <1>5 DEF Abstract!Judge

\* The aggregator implements CheckVerdicts: an evaluation is its Judge, the
\* removal of the check its Forget, and storing, expiring, announcing and all
\* the rest change nothing it can see (evaluate).
THEOREM VerdictsTheorem == Spec => ImplementsVerdicts
<1>1. Init => Abstract!Init
  BY DEF Init, NewState, NotJudged, Abstract!Init, Abstract!NotJudged
<1>2. ASSUME Streak, [Next]_vars
      PROVE  [Abstract!Next]_Abstract!vars
  <2>1. CASE ~AggregatorStep /\ ~Aging
    BY <1>2, <2>1, OtherSteps DEF Abstract!vars
  <2>2. ASSUME NEW n \in Node, Age(n)
        PROVE  UNCHANGED Abstract!vars
    BY <1>2, <2>2 DEF Age, Streak, CheckState, Abstract!vars
  <2>3. ASSUME NEW n \in Node, NEW s \in Slot, Store(n, s)
        PROVE  UNCHANGED Abstract!vars
    BY <1>2, <2>3 DEF Store, Streak, CheckState, Abstract!vars
  <2>4. ASSUME NEW n \in Node, NEW s \in Slot, Forget(n, s)
        PROVE  Abstract!Forget
    BY <2>4 DEF Forget, NewState, NotJudged, Abstract!Forget, Abstract!NotJudged
  <2>5. ASSUME NEW n \in Node, NEW s \in Slot, Evaluate(n, s)
        PROVE  [Abstract!Next]_Abstract!vars
    <3>1. CASE known
      <4>1. /\ perCheck' = Judged(perCheck)
            /\ verdicts' = [last |-> Verdict(perCheck.latest), before |-> verdicts.last]
        BY <2>5, <3>1 DEF Evaluate
      <4>2. Abstract!Judge(Verdict(perCheck.latest)) /\ Verdict(perCheck.latest) \in State
        BY <1>2, <4>1, EvaluationJudges, VerdictFacts
      <4> QED
        BY <4>2 DEF Abstract!Next
    <3>2. CASE ~known
      BY <2>5, <3>2 DEF Evaluate, Abstract!vars
    <3> QED
      BY <3>1, <3>2
  <2> QED
    BY <2>1, <2>2, <2>3, <2>4, <2>5 DEF AggregatorStep, Aging, Abstract!Next
<1>3. Streak /\ [Next]_vars => [Abstract!Next]_Abstract!vars
  BY <1>2
<1> QED
  BY <1>1, <1>3, Invariant, PTL DEF Spec, ImplementsVerdicts, Abstract!Spec

-----------------------------------------------------------------------------
\* Every variable keeps its type.
THEOREM TypeCorrect == Spec => []TypeOK
<1>1. Streak /\ Rest => TypeOK
  BY DEF Streak, Rest, SubType, Report, TypeOK
<1> QED
  BY <1>1, Invariant, PTL
=============================================================================
