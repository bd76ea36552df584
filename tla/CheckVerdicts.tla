---------------------------- MODULE CheckVerdicts ----------------------------
(***************************************************************************)
(* What the aggregator promises of a check's committed state: it is judged *)
(* again and again, and follows the verdicts one behind.  Two equal        *)
(* verdicts in a row commit it, always and at once; a single one never     *)
(* does, whatever was committed before.  Who judged, on whose report, and  *)
(* how many nodes had a word in it, is not told here.                      *)
(***************************************************************************)
CONSTANTS
    Verdicts,   \* what a check can be judged to be
    Unknown,    \* the one it starts with
    None        \* not judged yet

VARIABLES
    committed,
    verdicts   \* the last one and the one before it

vars == <<committed, verdicts>>

NotJudged == [last |-> None, before |-> None]

Init == committed = Unknown /\ verdicts = NotJudged

Judge(v) ==
    /\ committed' = IF v = verdicts.last THEN v ELSE committed
    /\ verdicts' = [last |-> v, before |-> verdicts.last]

\* The check is removed, and starts over if it comes back.
Forget == committed' = Unknown /\ verdicts' = NotJudged

Next == Forget \/ \E v \in Verdicts : Judge(v)

Spec == Init /\ [][Next]_vars
=============================================================================
