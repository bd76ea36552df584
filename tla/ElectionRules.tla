--------------------------- MODULE ElectionRules ---------------------------
(***************************************************************************)
(* The pure part of internal/quorum/manager.go: who is live, what a        *)
(* contact does to a peer's streak, and which master a live set elects.    *)
(* The modules that hold the state (QuorumManager, Election) apply these   *)
(* operators to it.                                                        *)
(*                                                                         *)
(* NodeIDs are strings compared lexicographically in the code; only their  *)
(* order matters, so a node is a natural number here.  Instants are kept   *)
(* as ages: age[n] is now - lastSeen[n], streak[n] is now - liveSince[n],  *)
(* in heartbeat intervals.  Both saturate just past the only value they    *)
(* are ever compared with.                                                 *)
(***************************************************************************)
EXTENDS FiniteSetsExt

CONSTANTS
    Node,        \* every node identity that may ever be heard of
    NoMaster,    \* the empty masterID
    DeadAfter,   \* deadAfter, in heartbeat intervals (4 in the code)
    Cooldown     \* masterCooldown, in heartbeat intervals (120 in the code)

ASSUME NodeAssumption == Node \subseteq Nat /\ IsFiniteSet(Node)
ASSUME NoMasterAssumption == NoMaster \notin Node
ASSUME DeadAfterAssumption == DeadAfter \in Nat \ {0}
ASSUME CooldownAssumption == Cooldown \in Nat

Age == 0 .. (DeadAfter + 1)
Streak == 0 .. Cooldown

\* One unit of time passes for a value that saturates at cap.
Older(x, cap) == IF x < cap THEN x + 1 ELSE cap

\* Mutant of LiveSet: nobody ever ages out.
LiveForever(self, known, age) == known

\* LiveSet: heard of within the dead-after window, or self.
LiveSet(self, known, age) == {n \in known : age[n] < DeadAfter \/ n = self}

\* Mutant of QuorumSize: half the membership is enough.
HalfSize(peers) == Cardinality(peers) \div 2

\* QuorumSize: a strict majority of the membership, 1 when it is empty.
QuorumSize(peers) == Cardinality(peers) \div 2 + 1

\* Mutant of NewStreak: a silence never ends a streak.
NewStreakOnce(n, known, age) == n \notin known

\* markLive starts a new streak only for a peer never heard of, or silent
\* for strictly longer than the dead-after window.
NewStreak(n, known, age) == n \notin known \/ age[n] > DeadAfter

\* Mutants of Elect: no cooldown; the incumbent stays for ever; an incumbent
\* survives the loss of the quorum.
ElectAtOnce(live, need, master, streak) ==
    IF live = {} \/ Cardinality(live) < need THEN NoMaster ELSE Min(live)
ElectOnce(live, need, master, streak) ==
    IF live = {} \/ Cardinality(live) < need THEN NoMaster
    ELSE IF master \in live THEN master ELSE Min(live)
ElectWithoutQuorum(live, need, master, streak) ==
    IF live = {} \/ Cardinality(live) < need THEN master
    ELSE IF master \in live THEN master ELSE Min(live)

\* The decision recomputeMaster takes under its lock from a live set and a
\* quorum size that it read before.
Elect(live, need, master, streak) ==
    IF live = {} \/ Cardinality(live) < need THEN NoMaster
    ELSE IF master \notin live THEN Min(live)
    ELSE LET earned == {n \in live : n < master /\ streak[n] >= Cooldown}
         IN  IF earned = {} THEN master ELSE Min(earned)
=============================================================================
