------------------------ MODULE QuorumManagerProofs ------------------------
(***************************************************************************)
(* The cooldown guarantee of one node's manager, for any number of nodes   *)
(* and handlers and any length of the windows.                             *)
(***************************************************************************)
EXTENDS QuorumManager, FiniteSetTheorems, WellFoundedInduction, TLAPS

-----------------------------------------------------------------------------
(* The operators of ElectionRules. *)

\* live[0] of a sorted, non-empty live set is an element of it that no other
\* element precedes.
LEMMA MinOfNaturals ==
  ASSUME NEW S, S \subseteq Nat, S # {}
  PROVE  Min(S) \in S /\ \A y \in S : Min(S) <= y
<1> DEFINE R == {ss \in Nat \X Nat : ss[1] < ss[2]}
<1>1. IsWellFoundedOn(R, Nat)
  BY NatLessThanWellFounded DEF OpToRel
<1>2. PICK x \in S : \A y \in S : ~(<<y, x>> \in R)
  <2> HIDE DEF R
  <2> QED BY <1>1, WFMin
<1>3. \A y \in S : x <= y
  <2> TAKE y \in S
  <2> ~(<<y, x>> \in R)
    BY <1>2
  <2> QED OBVIOUS
<1>4. QED
  BY <1>3 DEF Min

\* What recomputeMaster decides: no master below the quorum, otherwise a
\* member of the sampled live set; an incumbent of that live set is only
\* replaced by a lower NodeID that has served its cooldown.
LEMMA ElectDecision ==
  ASSUME NEW live \in SUBSET Node, NEW need, NEW leader, NEW served,
         Elect(live, need, leader, served) # NoMaster
  PROVE  LET e == Elect(live, need, leader, served) IN
         /\ e \in live
         /\ live # {}
         /\ ~(Cardinality(live) < need)
         /\ leader \in live /\ e # leader
              => e < leader /\ served[e] >= Cooldown
<1>1. live # {} /\ ~(Cardinality(live) < need)
  BY DEF Elect
<1>2. CASE leader \notin live
  <2>1. Elect(live, need, leader, served) = Min(live)
    BY <1>1, <1>2 DEF Elect
  <2>2. Min(live) \in live
    BY <1>1, MinOfNaturals, NodeAssumption
  <2>3. QED
    BY <1>1, <1>2, <2>1, <2>2
<1>3. CASE leader \in live
  <2> DEFINE earned == {n \in live : n < leader /\ served[n] >= Cooldown}
  <2>1. Elect(live, need, leader, served)
          = IF earned = {} THEN leader ELSE Min(earned)
    BY <1>1, <1>3 DEF Elect
  <2>2. CASE earned = {}
    BY <1>1, <1>3, <2>1, <2>2
  <2>3. CASE earned # {}
    <3>1. Min(earned) \in earned
      BY <2>3, MinOfNaturals, NodeAssumption
    <3>2. QED
      BY <1>1, <1>3, <2>1, <2>3, <3>1
  <2>4. QED
    BY <2>2, <2>3
<1>4. QED
  BY <1>2, <1>3

\* The decision is a node or no leader at all.
LEMMA ElectType ==
  ASSUME NEW live \in SUBSET Node, NEW need, NEW leader, NEW served
  PROVE  Elect(live, need, leader, served) \in Node \union {NoMaster}
BY ElectDecision

-----------------------------------------------------------------------------
(* The state. *)

\* The step that records a contact with n keeps the tables typed, whoever
\* the caller is (markLive).
LEMMA MarkLiveType ==
  ASSUME TypeOK, NEW n \in Node, MarkLive(n)
  PROVE  /\ known' \subseteq Node
         /\ age' \in [Node -> Age]
         /\ streak' \in [Node -> Streak]
         /\ unbroken' \in [Node -> Streak]
BY DeadAfterAssumption, CooldownAssumption DEF TypeOK, MarkLive, Age, Streak

\* Every variable keeps its type (all of manager.go's assignments).
THEOREM TypeCorrect == Spec => []TypeOK
<1>1. Init => TypeOK
  <2> SUFFICES ASSUME Init PROVE TypeOK
    OBVIOUS
  <2>1. 0 \in Age /\ 0 \in Streak /\ 0 \in 0 .. (TermModulus - 1)
    BY DeadAfterAssumption, CooldownAssumption, TermAssumption DEF Age, Streak
  <2>2. pc \in [Threads -> PC]
    BY DEF Init, PC
  <2>3. NoSample \in [live : SUBSET Node, need : Nat]
    BY DEF NoSample
  <2>4. QED
    BY <2>1, <2>2, <2>3 DEF Init, TypeOK
<1>2. TypeOK /\ [Next]_vars => TypeOK'
  <2> SUFFICES ASSUME TypeOK, [Next]_vars PROVE TypeOK'
    OBVIOUS
  <2>1. ASSUME NEW t \in Threads, NEW from, NEW to \in PC, At(t, from, to)
        PROVE  pc' \in [Threads -> PC]
    BY <2>1 DEF TypeOK, At
  <2>2. Ticker \in Threads /\ Handlers \subseteq Threads
    BY DEF Threads
  <2>3. CASE Start
    BY <2>1, <2>2, <2>3, MarkLiveType, SelfAssumption DEF Start, TypeOK, PC
  <2>4. CASE Tick
    <3>1. outstanding' \subseteq Node \ {Self}
      BY <2>4 DEF Tick, TypeOK
    <3>2. QED
      BY <2>1, <2>2, <2>4, <3>1, MarkLiveType, SelfAssumption DEF Tick, TypeOK, PC
  <2>5. ASSUME NEW n \in Node, HeartbeatReply(n)
        PROVE  TypeOK'
    BY <2>5, MarkLiveType DEF HeartbeatReply, TypeOK
  <2>6. ASSUME NEW n \in Node, HeartbeatFailed(n)
        PROVE  TypeOK'
    BY <2>6 DEF HeartbeatFailed, TypeOK
  <2>7. ASSUME NEW h \in Handlers, NEW from \in Node, HandleHeartbeat(h, from)
        PROVE  TypeOK'
    <3>1. pc' \in [Threads -> PC]
      BY <2>1, <2>2, <2>7 DEF HandleHeartbeat, PC
    <3>2. CASE from = Self
      BY <2>7, <3>1, <3>2 DEF HandleHeartbeat, TypeOK
    <3>3. CASE from # Self
      BY <2>7, <3>1, <3>3, MarkLiveType DEF HandleHeartbeat, TypeOK
    <3>4. QED
      BY <3>2, <3>3
  <2>8. ASSUME NEW t \in Threads, ReadLive(t)
        PROVE  TypeOK'
    <3>1. LiveSet(Self, known, age) \in SUBSET Node
      BY DEF TypeOK, LiveSet
    <3>2. sample' \in [Threads -> [live : SUBSET Node, need : Nat]]
      BY <2>8, <3>1 DEF ReadLive, TypeOK
    <3>3. QED
      BY <2>1, <2>8, <3>2 DEF ReadLive, TypeOK, PC
  <2>9. ASSUME NEW t \in Threads, ReadQuorum(t)
        PROVE  TypeOK'
    <3>1. Cardinality(peers) \in Nat
      BY NodeAssumption, FS_Subset, FS_CardinalityType DEF TypeOK
    <3>2. QuorumSize(peers) \in Nat
      BY <3>1 DEF QuorumSize
    <3>3. sample' \in [Threads -> [live : SUBSET Node, need : Nat]]
      BY <2>9, <3>2 DEF ReadQuorum, TypeOK
    <3>4. QED
      BY <2>1, <2>9, <3>3 DEF ReadQuorum, TypeOK, PC
  <2>10. ASSUME NEW t \in Threads, Commit(t)
         PROVE  TypeOK'
    <3>1. master' \in Node \union {NoMaster}
      BY <2>10, ElectType DEF Commit, TypeOK
    <3>2. term' \in 0 .. (TermModulus - 1)
      BY <2>10, TermAssumption DEF Commit, TypeOK
    <3>3. sample' \in [Threads -> [live : SUBSET Node, need : Nat]]
      BY <2>10 DEF Commit, TypeOK, NoSample
    <3>4. QED
      BY <2>1, <2>10, <3>1, <3>2, <3>3 DEF Commit, TypeOK, PC
  <2>11. CASE Advance
    <3>1. \A n \in Node : Older(age[n], DeadAfter + 1) \in Age
      BY DeadAfterAssumption DEF TypeOK, Age, Older
    <3>2. \A n \in Node : /\ Older(streak[n], Cooldown) \in Streak
                          /\ Older(unbroken[n], Cooldown) \in Streak
      BY CooldownAssumption DEF TypeOK, Streak, Older
    <3>3. age' \in [Node -> Age]
      BY <2>11, <3>1 DEF Advance, TypeOK
    <3>4. streak' \in [Node -> Streak] /\ unbroken' \in [Node -> Streak]
      BY <2>11, <3>2, CooldownAssumption DEF Advance, TypeOK, Streak
    <3>5. QED
      BY <2>11, <3>3, <3>4 DEF Advance, TypeOK
  <2>12. CASE ChangePeers
    BY <2>12 DEF ChangePeers, TypeOK
  <2>13. CASE Restart
    <3>1. 0 \in Age /\ 0 \in Streak /\ 0 \in 0 .. (TermModulus - 1)
      BY DeadAfterAssumption, CooldownAssumption, TermAssumption DEF Age, Streak
    <3>2. pc' \in [Threads -> PC]
      BY <2>13 DEF Restart, PC
    <3>3. NoSample \in [live : SUBSET Node, need : Nat]
      BY DEF NoSample
    <3>4. QED
      BY <2>13, <3>1, <3>2, <3>3 DEF Restart, TypeOK
  <2>14. CASE UNCHANGED vars
    BY <2>14 DEF vars, TypeOK
  <2>15. QED
    BY <2>3, <2>4, <2>5, <2>6, <2>7, <2>8, <2>9, <2>10, <2>11, <2>12, <2>13,
       <2>14 DEF Next, Recompute
<1>3. QED
  BY <1>1, <1>2, PTL DEF Spec

\* A contact starts a streak exactly when the history starts one, and the
\* node heard from becomes known (markLive).
LEMMA MarkLiveContact ==
  ASSUME TypeOK, ContactInv, NEW n \in Node, MarkLive(n)
  PROVE  /\ known \subseteq known'
         /\ \A m \in known' : age'[m] <= DeadAfter => streak'[m] = unbroken'[m]
         /\ \A m \in known' : age'[m] > DeadAfter => unbroken'[m] = 0
<1>1. known \subseteq known'
  BY DEF MarkLive
<1>2. ASSUME NEW m \in known', m # n
      PROVE  m \in known /\ age'[m] = age[m] /\ streak'[m] = streak[m]
             /\ unbroken'[m] = unbroken[m]
  BY <1>2 DEF MarkLive, TypeOK
<1>3. age'[n] = 0 /\ streak'[n] = unbroken'[n]
  <2>1. CASE n \notin known
    BY <2>1 DEF MarkLive, TypeOK, NewStreak
  <2>2. CASE n \in known /\ age[n] > DeadAfter
    BY <2>2 DEF MarkLive, TypeOK, NewStreak, ContactInv
  <2>3. CASE n \in known /\ ~(age[n] > DeadAfter)
    <3>1. age[n] <= DeadAfter
      BY <2>3, DeadAfterAssumption DEF TypeOK, Age
    <3>2. streak[n] = unbroken[n]
      BY <2>3, <3>1 DEF ContactInv, StreakIsUnbroken
    <3>3. QED
      BY <2>3, <3>2 DEF MarkLive, TypeOK, NewStreak
  <2>4. QED
    BY <2>1, <2>2, <2>3
<1>4. ~(0 > DeadAfter)
  BY DeadAfterAssumption
<1>5. QED
  BY <1>1, <1>2, <1>3, <1>4 DEF ContactInv, StreakIsUnbroken

\* The cooldown clock of a peer that is not overdue is the time that peer has
\* been heard of without a break, and samples only hold known nodes
\* (markLive, LiveSet, for every interleaving of the goroutines).
THEOREM CooldownClock == Spec => []ContactInv
<1>1. Init => ContactInv
  <2> SUFFICES ASSUME Init PROVE ContactInv
    OBVIOUS
  <2>1. known = {} /\ \A t \in Threads : sample[t].live = {}
    BY DEF Init, NoSample
  <2>2. QED
    BY <2>1 DEF ContactInv, StreakIsUnbroken
<1>2. TypeOK /\ ContactInv /\ [Next]_vars => ContactInv'
  <2> SUFFICES ASSUME TypeOK, ContactInv, [Next]_vars PROVE ContactInv'
    OBVIOUS
  <2>1. ASSUME NEW n \in Node, MarkLive(n), sample' = sample
        PROVE  ContactInv'
    <3>1. \A t \in Threads : sample'[t].live \subseteq known'
      BY <2>1, MarkLiveContact DEF ContactInv
    <3>2. QED
      BY <2>1, <3>1, MarkLiveContact DEF ContactInv, StreakIsUnbroken
  <2>2. ASSUME UNCHANGED <<known, age, streak, unbroken>>,
               \A t \in Threads : sample'[t].live \subseteq known
        PROVE  ContactInv'
    BY <2>2 DEF ContactInv, StreakIsUnbroken
  <2>3. \A t \in Threads : sample[t].live \subseteq known
    BY DEF ContactInv
  <2>4. CASE Start
    BY <2>1, <2>4, SelfAssumption DEF Start
  <2>5. CASE Tick
    BY <2>1, <2>5, SelfAssumption DEF Tick
  <2>6. ASSUME NEW n \in Node, HeartbeatReply(n)
        PROVE  ContactInv'
    BY <2>1, <2>6 DEF HeartbeatReply
  <2>7. ASSUME NEW n \in Node, HeartbeatFailed(n)
        PROVE  ContactInv'
    BY <2>2, <2>3, <2>7 DEF HeartbeatFailed
  <2>8. ASSUME NEW h \in Handlers, NEW from \in Node, HandleHeartbeat(h, from)
        PROVE  ContactInv'
    BY <2>1, <2>2, <2>3, <2>8 DEF HandleHeartbeat
  <2>9. ASSUME NEW t \in Threads, ReadLive(t)
        PROVE  ContactInv'
    <3>1. \A u \in Threads : sample'[u].live \subseteq known
      BY <2>3, <2>9 DEF ReadLive, TypeOK, LiveSet
    <3>2. QED
      BY <2>2, <2>9, <3>1 DEF ReadLive
  <2>10. ASSUME NEW t \in Threads, ReadQuorum(t)
         PROVE  ContactInv'
    <3>1. \A u \in Threads : sample'[u].live \subseteq known
      BY <2>3, <2>10 DEF ReadQuorum, TypeOK
    <3>2. QED
      BY <2>2, <2>10, <3>1 DEF ReadQuorum
  <2>11. ASSUME NEW t \in Threads, Commit(t)
         PROVE  ContactInv'
    <3>1. \A u \in Threads : sample'[u].live \subseteq known
      BY <2>3, <2>11 DEF Commit, TypeOK, NoSample
    <3>2. QED
      BY <2>2, <2>11, <3>1 DEF Commit
  <2>12. CASE Advance
    <3>1. known' = known /\ sample' = sample
      BY <2>12 DEF Advance
    <3>2. ASSUME NEW n \in known
          PROVE  /\ age'[n] <= DeadAfter => streak'[n] = unbroken'[n]
                 /\ age'[n] > DeadAfter => unbroken'[n] = 0
      <4>1. n \in Node /\ age[n] \in 0 .. (DeadAfter + 1) /\ DeadAfter \in Nat
        BY DeadAfterAssumption DEF TypeOK, Age
      <4>2. age'[n] = Older(age[n], DeadAfter + 1)
        BY <2>12, <4>1 DEF Advance
      <4>3. streak'[n] = Older(streak[n], Cooldown)
        BY <2>12, <4>1 DEF Advance
      <4>4. unbroken'[n] = IF age[n] < DeadAfter
                           THEN Older(unbroken[n], Cooldown) ELSE 0
        BY <2>12, <4>1 DEF Advance
      <4>5. CASE age[n] < DeadAfter
        <5>1. age'[n] <= DeadAfter
          BY <4>1, <4>2, <4>5 DEF Older
        <5>2. streak[n] = unbroken[n]
          BY <4>1, <4>5 DEF ContactInv, StreakIsUnbroken
        <5>3. QED
          BY <4>1, <4>2, <4>3, <4>4, <4>5, <5>1, <5>2 DEF Older
      <4>6. CASE ~(age[n] < DeadAfter)
        <5>1. age'[n] > DeadAfter
          BY <4>1, <4>2, <4>6 DEF Older
        <5>2. QED
          BY <4>1, <4>2, <4>4, <4>6, <5>1 DEF Older
      <4>7. QED
        BY <4>5, <4>6
    <3>3. QED
      BY <2>3, <3>1, <3>2 DEF ContactInv, StreakIsUnbroken
  <2>13. CASE ChangePeers
    BY <2>2, <2>3, <2>13 DEF ChangePeers
  <2>14. CASE Restart
    <3>1. known' = {} /\ \A t \in Threads : sample'[t].live = {}
      BY <2>14 DEF Restart, NoSample
    <3>2. QED
      BY <3>1 DEF ContactInv, StreakIsUnbroken
  <2>15. CASE UNCHANGED vars
    BY <2>2, <2>3, <2>15 DEF vars
  <2>16. QED
    BY <2>4, <2>5, <2>6, <2>7, <2>8, <2>9, <2>10, <2>11, <2>12, <2>13, <2>14,
       <2>15 DEF Next, Recompute
<1>3. QED
  BY <1>1, <1>2, TypeCorrect, PTL DEF Spec

\* The invariant the runs name: it is a part of the inductive one.
THEOREM StreakTheorem == Spec => []StreakIsUnbroken
<1>1. ContactInv => StreakIsUnbroken
  BY DEF ContactInv
<1>2. QED
  BY <1>1, CooldownClock, PTL

\* No interleaving of recomputes, contacts and the clock lets a node replace
\* a master that the decision saw live, unless it has a lower NodeID and has
\* served the whole cooldown (recomputeMaster).
THEOREM DisplacementTheorem == Spec => DisplacementEarned
<1> DEFINE Earned ==
      \A t \in Threads :
         /\ pc[t] = "need" /\ pc'[t] = "idle"
         /\ master \in Node /\ master' \in Node /\ master' # master
         => /\ master' \in sample[t].live
            /\ master \in sample[t].live =>
                 /\ master' < master
                 /\ unbroken[master'] = Cooldown \/ age[master'] > DeadAfter
<1>1. TypeOK /\ ContactInv /\ [Next]_vars => [Earned]_vars
  <2> SUFFICES ASSUME TypeOK, ContactInv, Next, NEW t \in Threads,
                      pc[t] = "need", pc'[t] = "idle",
                      master \in Node, master' \in Node, master' # master
               PROVE  /\ master' \in sample[t].live
                      /\ master \in sample[t].live =>
                           /\ master' < master
                           /\ \/ unbroken[master'] = Cooldown
                              \/ age[master'] > DeadAfter
    OBVIOUS
  <2>1. PICK u \in Threads : Commit(u)
    <3>1. ASSUME NEW n \in Node, HeartbeatReply(n) \/ HeartbeatFailed(n)
          PROVE  FALSE
      BY <3>1 DEF HeartbeatReply, HeartbeatFailed
    <3>2. ASSUME NEW h \in Handlers, NEW from \in Node, HandleHeartbeat(h, from)
          PROVE  FALSE
      BY <3>2 DEF HandleHeartbeat
    <3>3. ASSUME NEW u \in Threads, ReadLive(u) \/ ReadQuorum(u)
          PROVE  FALSE
      BY <3>3 DEF ReadLive, ReadQuorum
    <3>4. ~Start /\ ~Tick /\ ~Advance /\ ~ChangePeers
      BY DEF Start, Tick, Advance, ChangePeers
    <3>5. ~Restart
      BY NoMasterAssumption DEF Restart
    <3>6. QED
      BY <3>1, <3>2, <3>3, <3>4, <3>5 DEF Next, Recompute
  <2>2. u = t
    BY <2>1 DEF Commit, At, TypeOK
  <2> DEFINE elected == Elect(sample[t].live, sample[t].need, master, streak)
  <2>3. master' = elected /\ elected # NoMaster
    BY <2>1, <2>2, NoMasterAssumption DEF Commit
  <2>4. sample[t].live \in SUBSET Node
    BY DEF TypeOK
  <2>5. /\ elected \in sample[t].live
        /\ master \in sample[t].live /\ elected # master
             => elected < master /\ streak[elected] >= Cooldown
    <3> HIDE DEF elected
    <3> QED BY <2>3, <2>4, ElectDecision DEF elected
  <2>6. /\ elected \in known
        /\ age[elected] \in 0 .. (DeadAfter + 1)
        /\ streak[elected] \in 0 .. Cooldown
    BY <2>4, <2>5 DEF ContactInv, TypeOK, Age, Streak
  <2>7. age[elected] <= DeadAfter => streak[elected] = unbroken[elected]
    BY <2>6 DEF ContactInv, StreakIsUnbroken
  <2> HIDE DEF elected
  <2>8. QED
    BY <2>3, <2>5, <2>6, <2>7, DeadAfterAssumption, CooldownAssumption
<1>2. QED
  BY <1>1, TypeCorrect, CooldownClock, PTL DEF Spec, DisplacementEarned
============================================================================
