--------------------------- MODULE ElectionProofs ---------------------------
(***************************************************************************)
(* What majority voting and the clocks give this election for every        *)
(* cluster: any two masters, in whatever nodes' eyes and however stale,    *)
(* were elected by live sets that share a node; after the last fault a     *)
(* minority gives its master up, and a connected majority agrees on its    *)
(* lowest node.                                                            *)
(***************************************************************************)
EXTENDS Election, FiniteSetTheorems, WellFoundedInduction, TLAPS

-----------------------------------------------------------------------------
(* The operators of ElectionRules. *)

\* live[0] of a sorted, non-empty live set is an element of it that no other
\* element precedes.
LEMMA MinOfNaturals ==
  ASSUME NEW S, S \subseteq Nat, S # {}
  PROVE  Min(S) \in S /\ \A y \in S : Min(S) <= y
<1> DEFINE R == {ss \in Nat \X Nat : ss[1] < ss[2]}
<1>1. IsWellFoundedOn(R, Nat)
  BY NatLessThanWellFounded DEF OpToRel
<1>2. PICK x \in S : \A y \in S : ~(<<y, x>> \in R)
  <2> HIDE DEF R
  <2> QED BY <1>1, WFMin
<1>3. \A y \in S : x <= y
  <2> TAKE y \in S
  <2> ~(<<y, x>> \in R)
    BY <1>2
  <2> QED OBVIOUS
<1>4. QED
  BY <1>3 DEF Min

\* A live set is a set of known nodes.
LEMMA LiveSetSubset ==
  ASSUME NEW self, NEW peers, NEW since
  PROVE  LiveSet(self, peers, since) \subseteq peers
BY DEF LiveSet

\* The quorum size is a positive number, and two live sets of that size
\* within the membership share a member.
LEMMA QuorumsIntersect ==
  ASSUME NEW peers, IsFiniteSet(peers),
         NEW S \in SUBSET peers, NEW T \in SUBSET peers,
         Cardinality(S) >= QuorumSize(peers), Cardinality(T) >= QuorumSize(peers)
  PROVE  S \intersect T # {}
<1>1. /\ Cardinality(peers) \in Nat
      /\ Cardinality(S) \in Nat
      /\ Cardinality(T) \in Nat
  BY FS_CardinalityType, FS_Subset
<1>2. Cardinality(S) + Cardinality(T) > Cardinality(peers)
  BY <1>1 DEF QuorumSize
<1>3. QED
  BY <1>2, FS_MajoritiesIntersect

\* What recomputeMaster decides: no master below the quorum, otherwise a
\* member of the sampled live set; an incumbent of that live set is only
\* replaced by a lower NodeID that has served its cooldown.
LEMMA ElectDecision ==
  ASSUME NEW live \in SUBSET Node, NEW need, NEW leader, NEW served,
         Elect(live, need, leader, served) # NoMaster
  PROVE  LET e == Elect(live, need, leader, served) IN
         /\ e \in live
         /\ live # {}
         /\ ~(Cardinality(live) < need)
         /\ leader \in live /\ e # leader
              => e < leader /\ served[e] >= Cooldown
<1>1. live # {} /\ ~(Cardinality(live) < need)
  BY DEF Elect
<1>2. CASE leader \notin live
  <2>1. Elect(live, need, leader, served) = Min(live)
    BY <1>1, <1>2 DEF Elect
  <2>2. Min(live) \in live
    BY <1>1, MinOfNaturals, NodeAssumption
  <2>3. QED
    BY <1>1, <1>2, <2>1, <2>2
<1>3. CASE leader \in live
  <2> DEFINE earned == {n \in live : n < leader /\ served[n] >= Cooldown}
  <2>1. Elect(live, need, leader, served)
          = IF earned = {} THEN leader ELSE Min(earned)
    BY <1>1, <1>3 DEF Elect
  <2>2. CASE earned = {}
    BY <1>1, <1>3, <2>1, <2>2
  <2>3. CASE earned # {}
    <3>1. Min(earned) \in earned
      BY <2>3, MinOfNaturals, NodeAssumption
    <3>2. QED
      BY <1>1, <1>3, <2>1, <2>3, <3>1
  <2>4. QED
    BY <2>2, <2>3
<1>4. QED
  BY <1>2, <1>3

\* The decision is a node or no leader at all.
LEMMA ElectType ==
  ASSUME NEW live \in SUBSET Node, NEW need, NEW leader, NEW served
  PROVE  Elect(live, need, leader, served) \in Node \union {NoMaster}
BY ElectDecision

\* Ages and streaks stay in their ranges as time passes.
LEMMA OlderType ==
  ASSUME NEW cap \in Nat, NEW x \in 0 .. cap
  PROVE  /\ Older(x, cap) \in 0 .. cap
         /\ Older(x, cap) >= x
         /\ x < cap => Older(x, cap) = x + 1
BY DEF Older

-----------------------------------------------------------------------------
(* The state. *)

\* Contacts keep the tables typed (markLive).
LEMMA MarkLiveType ==
  ASSUME TypeOK, NEW H \in SUBSET Node, NEW heard \in [H -> Node], MarkLive(heard)
  PROVE  /\ known' \in [Node -> SUBSET Node]
         /\ age' \in [Node -> [Node -> Age]]
         /\ streak' \in [Node -> [Node -> Streak]]
<1>1. 0 \in Age /\ 0 \in Streak
  BY DeadAfterAssumption, CooldownAssumption DEF Age, Streak
<1>2. ASSUME NEW i \in Node
      PROVE  /\ i \in H => heard[i] \in Node
             /\ known[i] \in SUBSET Node
             /\ age[i] \in [Node -> Age]
             /\ streak[i] \in [Node -> Streak]
  BY DEF TypeOK
<1>3. DOMAIN heard = H
  OBVIOUS
<1>4. known' \in [Node -> SUBSET Node]
  BY <1>2, <1>3 DEF MarkLive
<1>5. age' \in [Node -> [Node -> Age]]
  BY <1>1, <1>2, <1>3 DEF MarkLive
<1>6. streak' \in [Node -> [Node -> Streak]]
  BY <1>1, <1>2, <1>3 DEF MarkLive
<1>7. QED
  BY <1>4, <1>5, <1>6

\* A recompute elects a node or nobody, from a set of nodes; if it elects a
\* node, the set is a quorum that contains it (recomputeMaster).
LEMMA RecomputeVoters ==
  ASSUME TypeOK, VotersInv, NEW i \in Node, Recompute(i),
         known' \in [Node -> SUBSET Node]
  PROVE  /\ master' \in [Node -> Node \union {NoMaster}]
         /\ voters' \in [Node -> SUBSET Node]
         /\ VotersInv'
<1> DEFINE live == LiveSet(i, known'[i], age'[i])
           elected == Elect(live, QuorumSize(Node), master[i], streak'[i])
<1>1. live \in SUBSET Node
  BY LiveSetSubset
<1>2. elected \in Node \union {NoMaster}
  <2> HIDE DEF live
  <2> QED BY <1>1, ElectType
<1>3. elected \in Node => /\ elected \in live
                          /\ Cardinality(live) >= QuorumSize(Node)
  <2> HIDE DEF live
  <2>1. Cardinality(live) \in Nat /\ Cardinality(Node) \in Nat
    BY <1>1, NodeAssumption, FS_Subset, FS_CardinalityType
  <2>2. QuorumSize(Node) \in Nat
    BY <2>1 DEF QuorumSize
  <2>3. QED
    BY <1>1, <2>1, <2>2, NoMasterAssumption, ElectDecision
<1>4. master' = [master EXCEPT ![i] = elected] /\ voters' = [voters EXCEPT ![i] = live]
  BY DEF Recompute
<1> HIDE DEF live, elected
<1>5. QED
  BY <1>1, <1>2, <1>3, <1>4 DEF TypeOK, VotersInv

\* A process that is down believes in no master (Manager.New).
LEMMA ForgetVoters ==
  ASSUME TypeOK, VotersInv, NEW i \in Node, Forget(i)
  PROVE  /\ master' \in [Node -> Node \union {NoMaster}]
         /\ voters' \in [Node -> SUBSET Node]
         /\ VotersInv'
BY NoMasterAssumption DEF TypeOK, VotersInv, Forget

Inv == TypeOK /\ VotersInv

\* Every variable keeps its type, and every master has the votes of a quorum.
THEOREM Voters == Spec => []Inv
<1>1. Init => Inv
  <2> SUFFICES ASSUME Init PROVE Inv
    OBVIOUS
  <2>1. Zero \in [Node -> Age] /\ Zero \in [Node -> Streak]
    BY DeadAfterAssumption, CooldownAssumption DEF Zero, Age, Streak
  <2>2. ASSUME NEW i \in Node
        PROVE  /\ master[i] \in Node \union {NoMaster}
               /\ master[i] \in Node => /\ master[i] \in voters[i]
                                        /\ Cardinality(voters[i]) >= QuorumSize(Node)
    <3> DEFINE elected == Elect({i}, QuorumSize(Node), NoMaster, Zero)
    <3>1. master[i] = elected /\ voters[i] = {i}
      BY DEF Init
    <3>2. elected \in Node \union {NoMaster}
      BY ElectType
    <3>3. Cardinality({i}) = 1 /\ Cardinality(Node) \in Nat
      BY NodeAssumption, FS_Singleton, FS_CardinalityType
    <3>4. QuorumSize(Node) \in Nat
      BY <3>3 DEF QuorumSize
    <3>5. elected # NoMaster => elected \in {i} /\ ~(Cardinality({i}) < QuorumSize(Node))
      BY ElectDecision
    <3> HIDE DEF elected
    <3>6. QED
      BY <3>1, <3>2, <3>3, <3>4, <3>5, NoMasterAssumption
  <2>3. LongStable \in Nat
    BY DeadAfterAssumption, CooldownAssumption DEF LongStable
  <2>4. master \in [Node -> Node \union {NoMaster}]
    BY <2>2 DEF Init
  <2>5. TypeOK
    BY <2>1, <2>3, <2>4, MaxFaultsAssumption DEF Init, TypeOK
  <2>6. QED
    BY <2>2, <2>5 DEF Inv, VotersInv
<1>2. Inv /\ [Next]_vars => Inv'
  <2> SUFFICES ASSUME TypeOK, VotersInv, [Next]_vars PROVE Inv'
    BY DEF Inv
  <2> USE DEF Inv
  <2>1. ASSUME NEW i \in Node, Recompute(i),
               NEW H \in SUBSET Node, NEW heard \in [H -> Node], MarkLive(heard),
               up' \subseteq Node, ticked' \subseteq Node,
               \A c \in calls' : c \in Node \X Node /\ c[1] # c[2], cut' \subseteq SUBSET Node,
               faults' \in 0 .. MaxFaults, stable' \in 0 .. LongStable
        PROVE  Inv'
    BY <2>1, MarkLiveType, RecomputeVoters DEF TypeOK
  <2>2. ASSUME Fault
        PROVE  faults' \in 0 .. MaxFaults /\ stable' \in 0 .. LongStable
    BY <2>2, MaxFaultsAssumption, DeadAfterAssumption, CooldownAssumption
       DEF Fault, TypeOK, LongStable
  <2>3. CASE Advance
    <3>1. DeadAfter + 1 \in Nat /\ Cooldown \in Nat /\ LongStable \in Nat
      BY DeadAfterAssumption, CooldownAssumption DEF LongStable
    <3>2. \A i, n \in Node : /\ Older(age[i][n], DeadAfter + 1) \in Age
                             /\ Older(streak[i][n], Cooldown) \in Streak
      BY <3>1, OlderType DEF TypeOK, Age, Streak
    <3>3. 0 \in Age /\ 0 \in Streak
      BY <3>1 DEF Age, Streak
    <3>4. age' \in [Node -> [Node -> Age]] /\ streak' \in [Node -> [Node -> Streak]]
      BY <2>3, <3>2, <3>3 DEF Advance
    <3>5. stable' \in 0 .. LongStable
      BY <2>3, <3>1, OlderType DEF Advance, TypeOK
    <3>6. QED
      BY <2>3, <3>4, <3>5 DEF Advance, TypeOK, VotersInv
  <2>4. ASSUME NEW i \in Node, Tick(i)
        PROVE  Inv'
    <3>1. [n \in {i} |-> i] \in [{i} -> Node] /\ {i} \in SUBSET Node
      OBVIOUS
    <3>2. ticked' \subseteq Node /\ \A c \in calls' : c \in Node \X Node /\ c[1] # c[2]
      BY <2>4 DEF Tick, TypeOK
    <3>3. QED
      BY <2>1, <2>4, <3>1, <3>2 DEF Tick, TypeOK
  <2>5. ASSUME NEW i \in Node, NEW j \in Node, Heartbeat(i, j)
        PROVE  Inv'
    <3> DEFINE heard == [n \in {i, j} |-> IF n = i THEN j ELSE i]
    <3>1. heard \in [{i, j} -> Node] /\ {i, j} \in SUBSET Node
      OBVIOUS
    <3>2. MarkLive(heard) /\ Recompute(j)
      BY <2>5 DEF Heartbeat
    <3> HIDE DEF heard
    <3>3. QED
      BY <2>1, <2>5, <3>1, <3>2 DEF Heartbeat, TypeOK
  <2>6. ASSUME NEW i \in Node, NEW j \in Node, ReplyLost(i, j)
        PROVE  Inv'
    <3>1. [n \in {j} |-> i] \in [{j} -> Node] /\ {j} \in SUBSET Node
      OBVIOUS
    <3>2. MarkLive([n \in {j} |-> i]) /\ Recompute(j) /\ Fault
      BY <2>6 DEF ReplyLost
    <3>3. QED
      BY <2>1, <2>2, <2>6, <3>1, <3>2 DEF ReplyLost, TypeOK
  <2>7. ASSUME NEW i \in Node, NEW j \in Node, HeartbeatFails(i, j)
        PROVE  Inv'
    BY <2>7 DEF HeartbeatFails, TypeOK, VotersInv, tables
  <2>8. ASSUME NEW i \in Node, NEW j \in Node, ToggleLink(i, j)
        PROVE  Inv'
    <3>1. cut' \subseteq SUBSET Node
      BY <2>8 DEF ToggleLink, TypeOK
    <3>2. QED
      BY <2>2, <2>8, <3>1 DEF ToggleLink, TypeOK, VotersInv, tables
  <2>9. ASSUME NEW i \in Node, Crash(i)
        PROVE  Inv'
    <3>1. Forget(i) /\ Fault
      BY <2>9 DEF Crash
    <3>2. /\ known' \in [Node -> SUBSET Node]
          /\ age' \in [Node -> [Node -> Age]]
          /\ streak' \in [Node -> [Node -> Streak]]
      BY <3>1, DeadAfterAssumption, CooldownAssumption
         DEF Forget, TypeOK, Zero, Age, Streak
    <3>3. QED
      BY <2>2, <2>9, <3>1, <3>2, ForgetVoters DEF Crash, TypeOK
  <2>10. ASSUME NEW i \in Node, Start(i)
         PROVE  Inv'
    <3>1. [n \in {i} |-> i] \in [{i} -> Node] /\ {i} \in SUBSET Node
      OBVIOUS
    <3>2. MarkLive([n \in {i} |-> i]) /\ Recompute(i) /\ Fault
      BY <2>10 DEF Start
    <3>3. QED
      BY <2>1, <2>2, <2>10, <3>1, <3>2 DEF Start, TypeOK
  <2>11. CASE UNCHANGED vars
    BY <2>11 DEF vars, tables, TypeOK, VotersInv
  <2>12. QED
    BY <2>3, <2>4, <2>5, <2>6, <2>7, <2>8, <2>9, <2>10, <2>11 DEF Next
<1>3. QED
  BY <1>1, <1>2, PTL DEF Spec

\* Two masters believed in at the same time, by any two nodes, were elected
\* from live sets with a common member, in a cluster of any size: disjoint
\* parts of a partition never elect one each (recomputeMaster, QuorumSize).
THEOREM SharedVoter == Spec => []MastersShareAVoter
<1>1. Inv => MastersShareAVoter
  <2> SUFFICES ASSUME TypeOK, VotersInv, NEW i \in Node, NEW j \in Node,
                      master[i] \in Node, master[j] \in Node
               PROVE  voters[i] \intersect voters[j] # {}
    BY DEF Inv, MastersShareAVoter
  <2>1. voters[i] \in SUBSET Node /\ voters[j] \in SUBSET Node
    BY DEF TypeOK
  <2>2. QED
    BY <2>1, NodeAssumption, QuorumsIntersect DEF VotersInv
<1>2. QED
  BY <1>1, Voters, PTL

\* Every variable keeps its type.
THEOREM TypeCorrect == Spec => []TypeOK
<1>1. Inv => TypeOK
  BY DEF Inv
<1>2. QED
  BY <1>1, Voters, PTL

-----------------------------------------------------------------------------
(* After the last fault.  stable counts the intervals since then, and a    *)
(* fault sets it back, so what holds of stable holds between two faults,   *)
(* in which neither links nor processes come and go.                       *)

\* The running nodes that i can exchange heartbeats with.
Reachable(i) == {j \in up : Connected(i, j)}
Minority(i) == Cardinality(Reachable(i)) < QuorumSize(Node)

\* A node can always reach itself.
SelfConnected == \A i \in Node : {i} \notin cut

\* Whom i cannot reach it has not heard of since the last fault.
Silence ==
    \A i \in up : \A j \in known[i] :
        j \notin Reachable(i) => age[i][j] >= stable \/ age[i][j] = DeadAfter + 1

\* Once the silence has lasted the window, whoever has recomputed sees nobody
\* it cannot reach, and after one more interval everybody has.
StepDown ==
    \A i \in up :
        Minority(i) /\ \/ stable >= DeadAfter /\ i \in ticked
                       \/ stable > DeadAfter
            => master[i] = NoMaster

MinorityInv == SelfConnected /\ Silence /\ StepDown

\* Every running node can talk to every other, and they form a quorum.
Whole == /\ \A i, j \in up : Connected(i, j)
         /\ Cardinality(up) >= QuorumSize(Node)

\* In an interval that no fault touches, a node whose ticker has fired hears
\* every other one as soon as its call is over.
Heard ==
    Whole /\ stable >= 1 =>
        \A i \in up \intersect ticked, j \in up :
            <<i, j>> \notin calls => j \in known[i] /\ age[i][j] = 0

\* From then on nobody falls silent, and the streaks grow with the clock.
Steady ==
    Whole /\ stable >= 2 =>
        \A i, j \in up :
            /\ j \in known[i]
            /\ age[i][j] <= 1
            /\ streak[i][j] >= stable - 1 \/ streak[i][j] = Cooldown

\* Once all streaks have served the cooldown, whoever recomputes elects the
\* lowest, and after one more interval everybody has.
Agreed ==
    Whole => \A i \in up :
        (stable >= LongStable - 1 /\ i \in ticked) \/ stable = LongStable
            => master[i] = Min(up)

AgreementInv == Heard /\ Steady /\ Agreed

-----------------------------------------------------------------------------
(* Facts that hold of any tables.                                          *)

\* A live set, once those out of reach are overdue, is within reach.
LEMMA LiveWithinReach ==
  ASSUME NEW i \in Node, NEW R \in SUBSET Node, NEW K \in SUBSET Node,
         NEW a \in [Node -> Age], i \in R,
         \A j \in K : j \notin R => a[j] >= DeadAfter
  PROVE  LiveSet(i, K, a) \subseteq R
BY DeadAfterAssumption DEF LiveSet, Age

\* Too few live nodes elect nobody.
LEMMA TooFewElectNobody ==
  ASSUME NEW R \in SUBSET Node, NEW live \in SUBSET R, NEW need \in Nat,
         Cardinality(R) < need, NEW m, NEW st
  PROVE  Elect(live, need, m, st) = NoMaster
<1>1. IsFiniteSet(R)
  BY NodeAssumption, FS_Subset
<1>2. Cardinality(live) \in Nat /\ Cardinality(R) \in Nat /\ Cardinality(live) <= Cardinality(R)
  BY <1>1, FS_Subset, FS_CardinalityType
<1>3. Cardinality(live) < need
  BY <1>2
<1>4. QED
  BY <1>3 DEF Elect

\* When everybody who is live has served the cooldown, the lowest is elected,
\* whoever was the incumbent.
LEMMA LowestIsElected ==
  ASSUME NEW live \in SUBSET Node, live # {}, NEW need,
         ~(Cardinality(live) < need), NEW m, NEW st,
         \A n \in live : st[n] >= Cooldown
  PROVE  Elect(live, need, m, st) = Min(live)
<1> DEFINE lowest == Min(live)
           earned == {n \in live : n < m /\ st[n] >= Cooldown}
<1>1. live \subseteq Nat /\ lowest \in live /\ \A n \in live : lowest <= n
  BY NodeAssumption, MinOfNaturals
<1>2. CASE m \notin live
  BY <1>2 DEF Elect
<1>3. CASE m \in live /\ earned = {}
  <2>1. Elect(live, need, m, st) = m
    BY <1>3 DEF Elect
  <2>2. ~(lowest < m)
    <3> HIDE DEF lowest
    <3> QED BY <1>1, <1>3
  <2>3. lowest = m
    <3> HIDE DEF lowest, earned
    <3> QED BY <1>1, <1>3, <2>2
  <2>4. QED
    BY <2>1, <2>3
<1>4. CASE m \in live /\ earned # {}
  <2>1. Elect(live, need, m, st) = Min(earned)
    BY <1>4 DEF Elect
  <2>2. Min(earned) \in earned /\ \A n \in earned : Min(earned) <= n
    BY <1>1, <1>4, MinOfNaturals
  <2>3. PICK e \in earned : e = Min(earned) /\ \A n \in earned : e <= n
    BY <2>2
  <2>4. Min(earned) = lowest
    <3>1. e \in live /\ e \in Nat /\ e < m /\ m \in Nat
      BY <1>1, <1>4
    <3>2. PICK l \in live : l = lowest /\ l \in Nat /\ l <= e
      <4> HIDE DEF lowest, earned
      <4> QED BY <1>1, <3>1
    <3>3. l < m
      BY <3>1, <3>2
    <3>4. st[l] >= Cooldown
      OBVIOUS
    <3>5. e <= l
      BY <2>3, <3>3, <3>4
    <3>6. e = l
      BY <3>1, <3>2, <3>5
    <3>7. QED
      <4> HIDE DEF lowest, earned
      <4> QED BY <2>3, <3>2, <3>6
  <2>5. QED
    BY <2>1, <2>4
<1>5. QED
  BY <1>2, <1>3, <1>4

\* What a contact changes: who was heard of counts as just heard, nobody is
\* forgotten, and a streak that the window has not broken goes on.
LEMMA ContactFacts ==
  ASSUME TypeOK, NEW H \in SUBSET Node, NEW heard \in [H -> Node], MarkLive(heard),
         NEW i \in Node, NEW j \in Node
  PROVE  /\ j \in known'[i] <=> j \in known[i] \/ (i \in H /\ j = heard[i])
         /\ age'[i][j] = IF i \in H /\ j = heard[i] THEN 0 ELSE age[i][j]
         /\ j \in known[i] /\ ~(age[i][j] > DeadAfter) => streak'[i][j] = streak[i][j]
<1>1. DOMAIN heard = H
  OBVIOUS
<1>2. age[i] \in [Node -> Age] /\ streak[i] \in [Node -> Streak]
  BY DEF TypeOK
<1>3. j \in known'[i] <=> j \in known[i] \/ (i \in H /\ j = heard[i])
  BY <1>1 DEF MarkLive
<1>4. age'[i][j] = IF i \in H /\ j = heard[i] THEN 0 ELSE age[i][j]
  BY <1>1, <1>2 DEF MarkLive
<1>5. ASSUME j \in known[i], ~(age[i][j] > DeadAfter)
      PROVE  streak'[i][j] = streak[i][j]
  <2>1. ~NewStreak(j, known[i], age[i])
    BY <1>5 DEF NewStreak
  <2>2. QED
    BY <1>1, <1>2, <2>1 DEF MarkLive
<1>6. QED
  BY <1>3, <1>4, <1>5

\* What the end of an interval changes.
LEMMA AdvanceFacts ==
  ASSUME TypeOK, Advance
  PROVE  /\ stable' \in Nat /\ stable' <= LongStable /\ stable \in Nat
         /\ stable' <= stable + 1 /\ stable <= stable'
         /\ \A i \in Node : \A j \in known[i] :
              /\ age[i][j] \in Age /\ age'[i][j] \in Age
              /\ age'[i][j] = age[i][j] + 1 \/ age'[i][j] = DeadAfter + 1
              /\ age'[i][j] <= age[i][j] + 1
              /\ streak[i][j] \in Streak /\ streak'[i][j] \in Streak
              /\ streak'[i][j] = streak[i][j] + 1 \/ streak'[i][j] = Cooldown
<1>1. DeadAfter + 1 \in Nat /\ Cooldown \in Nat /\ LongStable \in Nat
  BY DeadAfterAssumption, CooldownAssumption DEF LongStable
<1>2. stable \in 0 .. LongStable /\ stable' = Older(stable, LongStable)
  BY DEF TypeOK, Advance
<1>3. /\ stable' \in Nat /\ stable' <= LongStable /\ stable \in Nat
      /\ stable' <= stable + 1 /\ stable <= stable'
  BY <1>1, <1>2 DEF Older
<1>4. ASSUME NEW i \in Node, NEW j \in known[i]
      PROVE  /\ age[i][j] \in Age /\ age'[i][j] \in Age
             /\ age'[i][j] = age[i][j] + 1 \/ age'[i][j] = DeadAfter + 1
             /\ age'[i][j] <= age[i][j] + 1
             /\ streak[i][j] \in Streak /\ streak'[i][j] \in Streak
             /\ streak'[i][j] = streak[i][j] + 1 \/ streak'[i][j] = Cooldown
  <2>1. j \in Node /\ age[i][j] \in Age /\ streak[i][j] \in Streak
    BY DEF TypeOK
  <2>2. /\ age'[i][j] = Older(age[i][j], DeadAfter + 1)
        /\ streak'[i][j] = Older(streak[i][j], Cooldown)
    BY <2>1 DEF Advance
  <2>3. QED
    BY <1>1, <2>1, <2>2 DEF Older, Age, Streak
<1>5. QED
  BY <1>3, <1>4

-----------------------------------------------------------------------------
(* The invariants, step by step.                                           *)

FaultFreeInv == MinorityInv /\ AgreementInv

LEMMA BoundFacts == /\ DeadAfter \in Nat /\ DeadAfter >= 1 /\ Cooldown \in Nat
                    /\ LongStable \in Nat /\ LongStable = DeadAfter + Cooldown + 2
BY DeadAfterAssumption, CooldownAssumption DEF LongStable

\* A fault sets the clock back, and nothing is claimed before it has moved.
LEMMA FaultStep ==
  ASSUME TypeOK', stable' = 0, SelfConnected'
  PROVE  FaultFreeInv'
<1>1. Silence'
  <2> SUFFICES ASSUME NEW i \in up', NEW j \in known'[i]
               PROVE  age'[i][j] >= stable'
    BY DEF Silence
  <2>1. i \in Node /\ j \in Node
    BY DEF TypeOK
  <2>2. age'[i][j] \in Age
    BY <2>1 DEF TypeOK
  <2>3. QED
    BY <2>2, BoundFacts DEF Age
<1>2. ~(stable' >= 1) /\ ~(stable' >= 2) /\ ~(stable' >= DeadAfter) /\ ~(stable' > DeadAfter)
      /\ ~(stable' >= LongStable - 1) /\ ~(stable' = LongStable)
  BY BoundFacts
<1>3. StepDown' /\ Heard' /\ Steady' /\ Agreed'
  BY <1>2 DEF StepDown, Heard, Steady, Agreed
<1>4. QED
  BY <1>1, <1>3 DEF FaultFreeInv, MinorityInv, AgreementInv

\* A contact only concerns nodes that can reach each other.
LEMMA ContactSilence ==
  ASSUME TypeOK, Silence, UNCHANGED <<up, cut, stable>>,
         NEW H \in SUBSET Node, NEW heard \in [H -> Node], MarkLive(heard),
         \A h \in H : heard[h] \in Reachable(h)
  PROVE  Silence'
<1> SUFFICES ASSUME NEW i \in up, NEW j \in known'[i], j \notin Reachable(i)
             PROVE  age'[i][j] >= stable \/ age'[i][j] = DeadAfter + 1
  BY DEF Silence, Reachable, Connected
<1>1. i \in Node /\ up \subseteq Node
  BY DEF TypeOK
<1>2. j \in Node
  BY <1>1 DEF MarkLive, TypeOK
<1>3. ~(i \in H /\ j = heard[i])
  OBVIOUS
<1>4. j \in known[i] /\ age'[i][j] = age[i][j]
  BY <1>1, <1>2, <1>3, ContactFacts
<1>5. QED
  BY <1>4 DEF Silence

\* A recompute after the window elects nobody in a minority.
LEMMA RecomputeStepDown ==
  ASSUME TypeOK, TypeOK', SelfConnected, StepDown, Silence', UNCHANGED <<up, cut, stable>>,
         NEW i \in up, Recompute(i), ticked' \subseteq ticked \union {i}
  PROVE  StepDown'
<1>1. /\ i \in Node /\ up \subseteq Node /\ stable \in Nat
      /\ known'[i] \in SUBSET Node /\ age'[i] \in [Node -> Age]
  BY BoundFacts DEF TypeOK
<1>2. /\ \A k \in up : Reachable(k)' = Reachable(k)
      /\ \A k \in up : Minority(k)' <=> Minority(k)
  BY DEF Reachable, Connected, Minority
<1>3. ASSUME Minority(i), stable >= DeadAfter
      PROVE  master'[i] = NoMaster
  <2> DEFINE R == Reachable(i)
             live == LiveSet(i, known'[i], age'[i])
  <2>1. i \in R /\ R \in SUBSET Node
    <3>1. {i, i} = {i}
      OBVIOUS
    <3>2. QED
      BY <1>1, <3>1 DEF Reachable, Connected, SelfConnected
  <2>2. ASSUME NEW j \in known'[i], j \notin R
        PROVE  age'[i][j] >= DeadAfter
    <3>1. age'[i][j] >= stable \/ age'[i][j] = DeadAfter + 1
      BY <1>2, <2>2 DEF Silence
    <3>2. age'[i][j] \in Age
      BY <1>1
    <3>3. QED
      BY <1>1, <1>3, <3>1, <3>2, BoundFacts DEF Age
  <2>3. live \subseteq R
    <3> HIDE DEF R
    <3> QED BY <1>1, <2>1, <2>2, LiveWithinReach
  <2>4. QuorumSize(Node) \in Nat
    BY NodeAssumption, FS_CardinalityType DEF QuorumSize
  <2>5. Elect(live, QuorumSize(Node), master[i], streak'[i]) = NoMaster
    <3>1. Cardinality(R) < QuorumSize(Node)
      BY <1>3 DEF Minority
    <3> HIDE DEF R, live
    <3>2. QED
      BY <2>1, <2>3, <2>4, <3>1, TooFewElectNobody
  <2>6. QED
    BY <1>1, <2>5 DEF Recompute, TypeOK
<1>4. \A k \in Node \ {i} : master'[k] = master[k]
  BY DEF Recompute, TypeOK
<1>5. QED
  BY <1>1, <1>2, <1>3, <1>4, BoundFacts DEF StepDown

\* An interval ends: the silence has lasted one more, and everybody has
\* recomputed in it.
LEMMA AdvanceMinority ==
  ASSUME TypeOK, MinorityInv, Advance
  PROVE  MinorityInv'
<1>1. /\ \A i \in up : Reachable(i)' = Reachable(i)
      /\ \A i \in up : Minority(i)' <=> Minority(i)
      /\ UNCHANGED <<up, known, master, cut>> /\ ticked' = {} /\ up \subseteq ticked
  BY DEF Advance, Reachable, Connected, Minority
<1>2. Silence'
  <2> SUFFICES ASSUME NEW i \in up, NEW j \in known[i], j \notin Reachable(i)
               PROVE  age'[i][j] >= stable' \/ age'[i][j] = DeadAfter + 1
    BY <1>1 DEF Silence
  <2>1. age[i][j] >= stable \/ age[i][j] = DeadAfter + 1
    BY DEF MinorityInv, Silence
  <2>2. i \in Node /\ age[i][j] \in 0 .. DeadAfter + 1
    BY AdvanceFacts DEF TypeOK, Age
  <2>3. QED
    BY <2>1, <2>2, AdvanceFacts, BoundFacts DEF Age
<1>3. StepDown'
  <2>1. stable' > DeadAfter => stable >= DeadAfter
    BY AdvanceFacts, BoundFacts
  <2>2. QED
    BY <1>1, <2>1 DEF MinorityInv, StepDown
<1>4. QED
  BY <1>1, <1>2, <1>3 DEF MinorityInv, SelfConnected

\* What is steady stays so under contacts, which only freshen ages.
LEMMA ContactSteady ==
  ASSUME TypeOK, Steady, UNCHANGED <<up, cut, stable>>,
         NEW H \in SUBSET Node, NEW heard \in [H -> Node], MarkLive(heard)
  PROVE  Steady'
<1> SUFFICES ASSUME Whole, stable >= 2, NEW i \in up, NEW j \in up
             PROVE  /\ j \in known'[i]
                    /\ age'[i][j] <= 1
                    /\ streak'[i][j] >= stable - 1 \/ streak'[i][j] = Cooldown
  BY DEF Steady, Whole, Connected
<1>1. i \in Node /\ j \in Node /\ age[i][j] \in Age
  BY DEF TypeOK
<1>2. /\ j \in known[i] /\ age[i][j] <= 1
      /\ streak[i][j] >= stable - 1 \/ streak[i][j] = Cooldown
  BY DEF Steady
<1>3. ~(age[i][j] > DeadAfter)
  BY <1>1, <1>2, BoundFacts DEF Age
<1>4. QED
  BY <1>1, <1>2, <1>3, ContactFacts

\* Who recomputes while all is whole and every streak has served elects the
\* lowest.
LEMMA RecomputeAgrees ==
  ASSUME TypeOK, TypeOK', Agreed, Silence', Steady', UNCHANGED <<up, cut, stable>>,
         DeadAfter > 1,
         NEW i \in up, Recompute(i), ticked' \subseteq ticked \union {i}
  PROVE  Agreed'
<1>1. /\ i \in Node /\ up \in SUBSET Node /\ stable \in 0 .. LongStable
      /\ known'[i] \in SUBSET Node /\ age'[i] \in [Node -> Age]
      /\ streak'[i] \in [Node -> Streak]
  BY DEF TypeOK
<1>2. Whole' <=> Whole
  BY DEF Whole, Connected
<1>3. ASSUME Whole, stable >= LongStable - 1
      PROVE  master'[i] = Min(up)
  <2> DEFINE live == LiveSet(i, known'[i], age'[i])
  <2>1. stable >= DeadAfter /\ stable >= 2 /\ stable - 1 >= Cooldown
    BY <1>1, <1>3, BoundFacts
  <2>2. ASSUME NEW j \in up
        PROVE  j \in known'[i] /\ age'[i][j] < DeadAfter /\ streak'[i][j] >= Cooldown
    <3>1. /\ j \in known'[i] /\ age'[i][j] <= 1
          /\ streak'[i][j] >= stable - 1 \/ streak'[i][j] = Cooldown
      BY <1>2, <1>3, <2>1 DEF Steady
    <3>2. age'[i][j] \in Age /\ streak'[i][j] \in Streak
      BY <1>1
    <3>3. QED
      BY <1>1, <2>1, <3>1, <3>2, BoundFacts DEF Age, Streak
  <2>3. ASSUME NEW j \in known'[i], j \notin up
        PROVE  age'[i][j] >= DeadAfter
    <3>1. age'[i][j] >= stable \/ age'[i][j] = DeadAfter + 1
      BY <2>3 DEF Silence, Reachable
    <3>2. age'[i][j] \in Age
      BY <1>1
    <3>3. QED
      BY <1>1, <2>1, <3>1, <3>2, BoundFacts DEF Age
  <2>4. live \subseteq up
    BY <1>1, <2>3, LiveWithinReach
  <2>5. up \subseteq live
    BY <2>2 DEF LiveSet
  <2>6. live = up
    BY <2>4, <2>5
  <2> HIDE DEF live
  <2>7. ~(Cardinality(up) < QuorumSize(Node))
    <3>1. Cardinality(up) \in Nat /\ Cardinality(Node) \in Nat
      BY <1>1, NodeAssumption, FS_Subset, FS_CardinalityType
    <3>2. QuorumSize(Node) \in Nat
      BY <3>1 DEF QuorumSize
    <3>3. QED
      BY <1>3, <3>1, <3>2 DEF Whole
  <2>8. Elect(up, QuorumSize(Node), master[i], streak'[i]) = Min(up)
    BY <1>1, <2>2, <2>7, LowestIsElected
  <2>9. master' = [master EXCEPT ![i] = Elect(live, QuorumSize(Node), master[i], streak'[i])]
    BY DEF Recompute, live
  <2>10. QED
    BY <1>1, <2>6, <2>8, <2>9 DEF TypeOK
<1>4. \A k \in Node \ {i} : master'[k] = master[k]
  BY DEF Recompute, TypeOK
<1>5. stable = LongStable => stable >= LongStable - 1
  BY BoundFacts
<1>6. Min(up)' = Min(up)
  BY DEF Min
<1>7. SUFFICES ASSUME Whole, NEW k \in up,
                      \/ stable >= LongStable - 1 /\ k \in ticked'
                      \/ stable = LongStable
               PROVE  master'[k] = Min(up)
  BY <1>2, <1>6 DEF Agreed
<1>8. CASE k = i
  BY <1>3, <1>5, <1>7, <1>8
<1>9. CASE k # i
  <2>1. k \in ticked \/ stable = LongStable
    BY <1>7, <1>9
  <2>2. k \in Node /\ master'[k] = master[k]
    BY <1>1, <1>4, <1>9
  <2>3. QED
    BY <1>5, <1>7, <2>1, <2>2 DEF Agreed
<1>10. QED
  BY <1>8, <1>9

\* An interval ends: whoever was heard in it is fresh, and everybody has
\* recomputed.
LEMMA AdvanceAgreement ==
  ASSUME TypeOK, AgreementInv, Advance
  PROVE  AgreementInv'
<1>1. /\ UNCHANGED <<up, known, master, cut>> /\ ticked' = {} /\ up \subseteq ticked
      /\ calls = {}
      /\ Whole' <=> Whole
  BY DEF Advance, Whole, Connected
<1>2. Heard'
  BY <1>1 DEF Heard
<1>3. Steady'
  <2> SUFFICES ASSUME Whole, stable' >= 2, NEW i \in up, NEW j \in up
               PROVE  /\ j \in known[i]
                      /\ age'[i][j] <= 1
                      /\ streak'[i][j] >= stable' - 1 \/ streak'[i][j] = Cooldown
    BY <1>1 DEF Steady
  <2>1. stable >= 1 /\ stable' <= stable + 1 /\ stable \in Nat /\ stable' \in Nat
    BY AdvanceFacts
  <2>2. j \in known[i] /\ age[i][j] = 0
    BY <1>1, <2>1 DEF AgreementInv, Heard
  <2>3. i \in Node
    BY DEF TypeOK
  <2>4. /\ age'[i][j] <= 1
        /\ streak[i][j] \in Streak /\ streak'[i][j] \in Streak
        /\ streak'[i][j] = streak[i][j] + 1 \/ streak'[i][j] = Cooldown
    <3>1. age'[i][j] <= age[i][j] + 1 /\ age'[i][j] \in Age
      BY <2>2, <2>3, AdvanceFacts
    <3>2. age'[i][j] <= 1
      BY <2>2, <3>1 DEF Age
    <3>3. QED
      BY <2>2, <2>3, <3>2, AdvanceFacts
  <2>5. stable >= 2 => streak[i][j] >= stable - 1 \/ streak[i][j] = Cooldown
    BY DEF AgreementInv, Steady
  <2>6. streak'[i][j] >= stable' - 1 \/ streak'[i][j] = Cooldown
    BY <2>1, <2>4, <2>5, BoundFacts DEF Streak
  <2>7. QED
    BY <2>2, <2>4, <2>6
<1>4. Agreed'
  <2>1. stable' = LongStable => stable >= LongStable - 1
    BY AdvanceFacts, BoundFacts
  <2>2. Min(up)' = Min(up)
    BY <1>1 DEF Min
  <2>3. SUFFICES ASSUME Whole, stable' = LongStable, NEW k \in up
                 PROVE  master[k] = Min(up)
    BY <1>1, <2>2 DEF Agreed
  <2>4. QED
    BY <1>1, <2>1, <2>3 DEF AgreementInv, Agreed
<1>5. QED
  BY <1>2, <1>3, <1>4 DEF AgreementInv

\* A tick marks the node itself, which calls all the others.
LEMMA TickHeard ==
  ASSUME TypeOK, Heard, NEW i \in Node, Tick(i)
  PROVE  Heard'
<1> SUFFICES ASSUME Whole, stable >= 1, NEW k \in up \intersect ticked', NEW j \in up,
                    <<k, j>> \notin calls'
             PROVE  j \in known'[k] /\ age'[k][j] = 0
  BY DEF Heard, Tick, Whole, Connected
<1>1. k \in Node /\ j \in Node
  BY DEF TypeOK
<1>2. /\ MarkLive([n \in {i} |-> i]) /\ [n \in {i} |-> i] \in [{i} -> Node]
      /\ ticked' = ticked \union {i} /\ calls' = calls \union ({i} \X (Node \ {i}))
  BY DEF Tick
<1>3. CASE k = i
  <2>1. j = i
    BY <1>1, <1>2, <1>3
  <2>2. QED
    BY <1>1, <1>2, <1>3, <2>1, ContactFacts
<1>4. CASE k # i
  <2>1. j \in known[k] /\ age[k][j] = 0
    BY <1>2, <1>4 DEF Heard
  <2>2. QED
    BY <1>1, <1>2, <1>4, <2>1, ContactFacts
<1>5. QED
  BY <1>3, <1>4

\* A call that is over has been heard at both ends.
LEMMA HeartbeatHeard ==
  ASSUME TypeOK, Heard, NEW i \in Node, NEW j \in Node, Heartbeat(i, j),
         NEW heard \in [{i, j} -> Node], MarkLive(heard), heard[i] = j
  PROVE  Heard'
<1> SUFFICES ASSUME Whole, stable >= 1, NEW k \in up \intersect ticked, NEW l \in up,
                    <<k, l>> \notin calls'
             PROVE  l \in known'[k] /\ age'[k][l] = 0
  BY DEF Heard, Heartbeat, Whole, Connected
<1>1. k \in Node /\ l \in Node /\ {i, j} \in SUBSET Node
  BY DEF TypeOK
<1>2. CASE <<k, l>> = <<i, j>>
  BY <1>1, <1>2, ContactFacts
<1>3. CASE <<k, l>> # <<i, j>>
  <2>1. <<k, l>> \notin calls
    BY <1>3 DEF Heartbeat
  <2>2. l \in known[k] /\ age[k][l] = 0
    BY <2>1 DEF Heard
  <2>3. QED
    BY <1>1, <2>2, ContactFacts
<1>4. QED
  BY <1>2, <1>3

\* The initial states and every fault leave nothing to be claimed.
LEMMA InitFaultFree ==
  ASSUME TypeOK, Init
  PROVE  FaultFreeInv
<1>1. stable = 0 /\ SelfConnected
  BY DEF Init, SelfConnected
<1>2. Silence
  <2> SUFFICES ASSUME NEW i \in up, NEW j \in known[i]
               PROVE  age[i][j] >= stable
    BY DEF Silence
  <2>1. i \in Node /\ j \in Node
    BY DEF TypeOK
  <2>2. age[i][j] \in Age
    BY <2>1 DEF TypeOK
  <2>3. QED
    BY <1>1, <2>2, BoundFacts DEF Age
<1>3. ~(stable >= 1) /\ ~(stable >= 2) /\ ~(stable >= DeadAfter) /\ ~(stable > DeadAfter)
      /\ ~(stable >= LongStable - 1) /\ ~(stable = LongStable)
  BY <1>1, BoundFacts
<1>4. StepDown /\ Heard /\ Steady /\ Agreed
  BY <1>3 DEF StepDown, Heard, Steady, Agreed
<1>5. QED
  BY <1>1, <1>2, <1>4 DEF FaultFreeInv, MinorityInv, AgreementInv

LEMMA FaultActions ==
  ASSUME TypeOK', SelfConnected, NEW i \in Node, NEW j \in Node,
         ReplyLost(i, j) \/ ToggleLink(i, j) \/ Crash(i) \/ Start(i)
  PROVE  FaultFreeInv'
<1>1. stable' = 0
  BY DEF ReplyLost, ToggleLink, Crash, Start, Fault
<1>2. SelfConnected'
  <2>1. CASE ToggleLink(i, j)
    <3>1. i # j
      BY <2>1, NodeAssumption DEF ToggleLink
    <3>2. \A k \in Node : {k} # {i, j}
      BY <3>1
    <3>3. cut' \subseteq cut \union {{i, j}}
      BY <2>1 DEF ToggleLink
    <3>4. QED
      BY <3>2, <3>3 DEF SelfConnected
  <2>2. CASE UNCHANGED cut
    BY <2>2 DEF SelfConnected
  <2>3. QED
    BY <2>1, <2>2 DEF ReplyLost, Crash, Start
<1>3. QED
  BY <1>1, <1>2, FaultStep

\* What a tick and a heartbeat have in common: somebody hears from a node it
\* can reach, and recomputes.
LEMMA TickContact ==
  ASSUME TypeOK, SelfConnected, NEW i \in Node, Tick(i)
  PROVE  LET heard == [n \in {i} |-> i]
         IN  /\ i \in up /\ MarkLive(heard) /\ Recompute(i)
             /\ heard \in [{i} -> Node] /\ {i} \in SUBSET Node
             /\ \A h \in {i} : heard[h] \in Reachable(h)
             /\ UNCHANGED <<up, cut, stable>> /\ ticked' \subseteq ticked \union {i}
<1>1. {i, i} = {i} /\ up \subseteq Node
  BY DEF TypeOK
<1>2. i \in Reachable(i)
  BY <1>1 DEF Tick, SelfConnected, Reachable, Connected
<1>3. QED
  BY <1>2 DEF Tick

LEMMA HeartbeatContact ==
  ASSUME TypeOK, NEW i \in Node, NEW j \in Node, Heartbeat(i, j)
  PROVE  LET heard == [n \in {i, j} |-> IF n = i THEN j ELSE i]
         IN  /\ j \in up /\ MarkLive(heard) /\ Recompute(j)
             /\ heard \in [{i, j} -> Node] /\ {i, j} \in SUBSET Node
             /\ heard[i] = j
             /\ \A h \in {i, j} : heard[h] \in Reachable(h)
             /\ UNCHANGED <<up, cut, stable>> /\ ticked' \subseteq ticked \union {j}
<1> DEFINE heard == [n \in {i, j} |-> IF n = i THEN j ELSE i]
<1>1. {i, j} = {j, i} /\ i \in up /\ j \in up /\ {i, j} \notin cut
  BY DEF Heartbeat, Connected
<1>2. j \in Reachable(i) /\ i \in Reachable(j)
  BY <1>1 DEF Reachable, Connected
<1>3. heard[i] = j /\ heard[j] \in {i, j} /\ (j # i => heard[j] = i)
  OBVIOUS
<1>4. \A h \in {i, j} : heard[h] \in Reachable(h)
  <2> HIDE DEF heard
  <2>1. heard[i] \in Reachable(i)
    BY <1>2, <1>3
  <2>2. heard[j] \in Reachable(j)
    BY <1>2, <1>3, <2>1
  <2>3. QED
    BY <2>1, <2>2
<1>5. heard \in [{i, j} -> Node]
  OBVIOUS
<1>6. MarkLive(heard) /\ Recompute(j) /\ UNCHANGED <<up, ticked, cut, stable>>
  BY DEF Heartbeat
<1> HIDE DEF heard
<1>7. QED
  BY <1>1, <1>3, <1>4, <1>5, <1>6 DEF heard

\* Every step keeps what is known of a minority.
LEMMA MinorityStep ==
  ASSUME TypeOK, TypeOK', MinorityInv, [Next]_vars
  PROVE  MinorityInv'
<1>1. SelfConnected /\ Silence /\ StepDown
  BY DEF MinorityInv
<1>2. ASSUME NEW i \in up, NEW H \in SUBSET Node, NEW heard \in [H -> Node],
             MarkLive(heard), Recompute(i), \A h \in H : heard[h] \in Reachable(h),
             UNCHANGED <<up, cut, stable>>, ticked' \subseteq ticked \union {i}
      PROVE  MinorityInv'
  <2>1. Silence'
    BY <1>1, <1>2, ContactSilence
  <2>2. StepDown'
    BY <1>1, <1>2, <2>1, RecomputeStepDown
  <2>3. QED
    BY <1>1, <1>2, <2>1, <2>2 DEF MinorityInv, SelfConnected
<1>3. ASSUME NEW i \in Node, Tick(i)
      PROVE  MinorityInv'
  <2> DEFINE heard == [n \in {i} |-> i]
  <2>1. /\ i \in up /\ MarkLive(heard) /\ Recompute(i)
        /\ heard \in [{i} -> Node] /\ {i} \in SUBSET Node
        /\ \A h \in {i} : heard[h] \in Reachable(h)
        /\ UNCHANGED <<up, cut, stable>> /\ ticked' \subseteq ticked \union {i}
    BY <1>1, <1>3, TickContact
  <2> HIDE DEF heard
  <2>2. QED
    BY <1>2, <2>1
<1>4. ASSUME NEW i \in Node, NEW j \in Node, Heartbeat(i, j)
      PROVE  MinorityInv'
  <2> DEFINE heard == [n \in {i, j} |-> IF n = i THEN j ELSE i]
  <2>1. /\ j \in up /\ MarkLive(heard) /\ Recompute(j)
        /\ heard \in [{i, j} -> Node] /\ {i, j} \in SUBSET Node
        /\ \A h \in {i, j} : heard[h] \in Reachable(h)
        /\ UNCHANGED <<up, cut, stable>> /\ ticked' \subseteq ticked \union {j}
    BY <1>4, HeartbeatContact
  <2> HIDE DEF heard
  <2>2. QED
    BY <1>2, <2>1
<1>5. ASSUME NEW i \in Node, NEW j \in Node,
             ReplyLost(i, j) \/ ToggleLink(i, j) \/ Crash(i) \/ Start(i)
      PROVE  MinorityInv'
  BY <1>1, <1>5, FaultActions DEF FaultFreeInv
<1>6. CASE Advance
  BY <1>6, AdvanceMinority
<1>7. ASSUME UNCHANGED <<up, tables, ticked, cut, stable>>
      PROVE  MinorityInv'
  BY <1>7 DEF MinorityInv, SelfConnected, Silence, StepDown, Minority, Reachable,
              Connected, tables
<1>8. CASE UNCHANGED vars
  BY <1>7, <1>8 DEF vars
<1>9. ASSUME NEW i \in Node, NEW j \in Node, HeartbeatFails(i, j)
      PROVE  MinorityInv'
  BY <1>7, <1>9 DEF HeartbeatFails
<1>10. QED
  BY <1>3, <1>4, <1>5, <1>6, <1>8, <1>9 DEF Next

\* A node that can reach fewer than a quorum has no master from a dead-after
\* window and one tick after the last fault on, in a cluster of any size: its
\* stale tables keep nobody in office (LiveSet, tick).
THEOREM MinorityTheorem == Spec => []MinorityStepsDown
<1>1. Init /\ TypeOK => MinorityInv
  BY InitFaultFree DEF FaultFreeInv
<1>2. MinorityInv /\ TypeOK /\ TypeOK' /\ [Next]_vars => MinorityInv'
  BY MinorityStep
<1>3. MinorityInv /\ TypeOK => MinorityStepsDown
  <2> SUFFICES ASSUME StepDown, TypeOK, NEW i \in up, stable > DeadAfter + 1,
                      Cardinality({j \in up : Connected(i, j)}) < QuorumSize(Node)
               PROVE  master[i] = NoMaster
    BY DEF MinorityInv, MinorityStepsDown
  <2>1. stable > DeadAfter
    BY BoundFacts DEF TypeOK
  <2>2. QED
    BY <2>1 DEF StepDown, Minority, Reachable
<1>4. QED
  BY <1>1, <1>2, <1>3, TypeCorrect, PTL DEF Spec

\* Every step keeps what is known of a cluster without faults.
LEMMA AgreementStep ==
  ASSUME DeadAfter > 1, TypeOK, TypeOK', MinorityInv, MinorityInv', AgreementInv,
         [Next]_vars
  PROVE  AgreementInv'
<1>1. SelfConnected /\ Silence' /\ Heard /\ Steady /\ Agreed
  BY DEF MinorityInv, AgreementInv
<1>2. ASSUME NEW i \in up, NEW H \in SUBSET Node, NEW heard \in [H -> Node],
             MarkLive(heard), Recompute(i),
             UNCHANGED <<up, cut, stable>>, ticked' \subseteq ticked \union {i}
      PROVE  Steady' /\ Agreed'
  <2>1. Steady'
    BY <1>1, <1>2, ContactSteady
  <2>2. QED
    BY <1>1, <1>2, <2>1, RecomputeAgrees
<1>3. ASSUME NEW i \in Node, Tick(i)
      PROVE  AgreementInv'
  <2>1. Steady' /\ Agreed'
    BY <1>1, <1>2, <1>3, TickContact
  <2>2. QED
    BY <1>1, <1>3, <2>1, TickHeard DEF AgreementInv
<1>4. ASSUME NEW i \in Node, NEW j \in Node, Heartbeat(i, j)
      PROVE  AgreementInv'
  <2> DEFINE heard == [n \in {i, j} |-> IF n = i THEN j ELSE i]
  <2>1. /\ j \in up /\ MarkLive(heard) /\ Recompute(j)
        /\ heard \in [{i, j} -> Node] /\ {i, j} \in SUBSET Node
        /\ heard[i] = j
        /\ UNCHANGED <<up, cut, stable>> /\ ticked' \subseteq ticked \union {j}
    BY <1>4, HeartbeatContact
  <2> HIDE DEF heard
  <2>2. Steady' /\ Agreed'
    BY <1>2, <2>1
  <2>3. Heard'
    BY <1>1, <1>4, <2>1, HeartbeatHeard
  <2>4. QED
    BY <2>2, <2>3 DEF AgreementInv
<1>5. ASSUME NEW i \in Node, NEW j \in Node,
             ReplyLost(i, j) \/ ToggleLink(i, j) \/ Crash(i) \/ Start(i)
      PROVE  AgreementInv'
  BY <1>1, <1>5, FaultActions DEF FaultFreeInv
<1>6. CASE Advance
  BY <1>6, AdvanceAgreement
<1>7. ASSUME UNCHANGED <<up, tables, ticked, cut, stable>>
      PROVE  Steady' /\ Agreed'
  <2>1. Min(up)' = Min(up)
    BY <1>7 DEF Min
  <2>2. Whole' <=> Whole
    BY <1>7 DEF Whole, Connected
  <2>3. QED
    BY <1>1, <1>7, <2>1, <2>2 DEF Steady, Agreed, tables
<1>8. CASE UNCHANGED vars
  <2>1. Heard'
    BY <1>1, <1>8 DEF vars, tables, Heard, Whole, Connected
  <2>2. QED
    BY <1>7, <1>8, <2>1 DEF vars, AgreementInv
<1>9. ASSUME NEW i \in Node, NEW j \in Node, HeartbeatFails(i, j)
      PROVE  AgreementInv'
  <2>1. Whole => i \notin up \/ j \notin up
    BY <1>9 DEF HeartbeatFails, Whole
  <2>2. Heard'
    BY <1>1, <1>9, <2>1 DEF HeartbeatFails, tables, Heard, Whole, Connected
  <2>3. QED
    BY <1>7, <1>9, <2>2 DEF HeartbeatFails, AgreementInv
<1>10. QED
  BY <1>3, <1>4, <1>5, <1>6, <1>8, <1>9 DEF Next

\* Running nodes that can all talk and form a quorum agree on the lowest of
\* them a dead-after window and a cooldown after the last fault, in a cluster
\* of any size and whoever ruled before (recomputeMaster), as long as the
\* window is longer than one interval (the code has four of them): otherwise
\* a tick finds everybody overdue.
THEOREM AgreementTheorem ==
  ASSUME DeadAfter > 1
  PROVE  Spec => []AgreementAfterCooldown
<1>1. Init /\ TypeOK => MinorityInv /\ AgreementInv
  BY InitFaultFree DEF FaultFreeInv
<1>2. MinorityInv /\ TypeOK /\ TypeOK' /\ [Next]_vars => MinorityInv'
  BY MinorityStep
<1>3. /\ MinorityInv /\ MinorityInv' /\ AgreementInv
      /\ TypeOK /\ TypeOK' /\ [Next]_vars
      => AgreementInv'
  BY AgreementStep
<1>4. AgreementInv => AgreementAfterCooldown
  BY DEF AgreementInv, Agreed, Whole, AgreementAfterCooldown
<1>5. QED
  BY <1>1, <1>2, <1>3, <1>4, TypeCorrect, PTL DEF Spec
=============================================================================
