--------------------------- MODULE ManualEditProofs ---------------------------
(***************************************************************************)
(* What the watcher of cluster.yaml promises, for any number of nodes and  *)
(* any contents: an edit it has seen is replicated, unless it was left     *)
(* behind, whatever is committed, replaced, saved and restarted between    *)
(* its steps.                                                              *)
(*                                                                         *)
(* The argument: a write of the daemon that succeeds puts into the file    *)
(* what is in memory.  So what the watcher has compared and not yet pinned *)
(* either is no longer in the file, or agrees with the memory as it is     *)
(* now, or was saved again by the operator; and a forward that goes        *)
(* through commits something newer than its node has.                      *)
(***************************************************************************)
EXTENDS ManualEdit, TLAPS

\* What is about to be taken for seen without a forward, and is still in the
\* file, agrees with the memory.
ComparedAgrees ==
    \A n \in Node :
        /\ step[n] = "pin" /\ raw[n] = file[n] /\ file[n] # Broken
        /\ n \notin unsent
        => file[n].content.entries = mem[n].content.entries

\* What is taken for seen agrees with the memory, between the forwards.
SeenAgrees ==
    \A n \in Node :
        /\ step[n] \notin {"send", "forward"} /\ lastSum[n] = file[n] /\ file[n] # Broken
        /\ Newest(n) /\ n \notin unsent
        => file[n].content.entries = mem[n].content.entries

\* Only a file that could be parsed is forwarded.
ForwardParsed == \A n \in Node : step[n] \in {"send", "forward"} => raw[n] # Broken

IInv == TypeOK /\ ComparedAgrees /\ SeenAgrees /\ ForwardParsed

-----------------------------------------------------------------------------
(* The steps.                                                              *)

\* A write of the daemon, failing or not; whoever ends a forward with it is
\* outdated by it, or noted down.
LEMMA StoreStep ==
  ASSUME IInv, NEW n \in Node, NEW c \in Config, NEW missed \in SUBSET Node,
         Store(n, c, missed),
         raw' \in [Node -> File \union {None}], step' \in [Node -> Step],
         \A k \in Node : \/ step'[k] = step[k] /\ raw'[k] = raw[k]
                         \/ /\ step'[k] = "idle" /\ raw'[k] = None
                            /\ k \in missed \/ c.ver > mem[k].ver,
         UNCHANGED <<saves, restarts>>
  PROVE  IInv'
<1>1. /\ mem \in [Node -> Config] /\ file \in [Node -> File] /\ lastSum \in [Node -> File]
      /\ sent \subseteq Config /\ unsent \subseteq Node /\ fails \in 0 .. MaxFails
      /\ \A k \in Node : mem[k] \in sent /\ (raw[k] = None <=> step[k] = "idle")
  BY DEF IInv, TypeOK
<1>2. /\ mem' = [mem EXCEPT ![n] = c] /\ sent' = sent \union {c}
      /\ \/ /\ file' = [file EXCEPT ![n] = c] /\ lastSum' = [lastSum EXCEPT ![n] = c]
            /\ unsent' = (unsent \union missed) \ {n} /\ fails' = fails
         \/ /\ fails < MaxFails /\ fails' = fails + 1
            /\ unsent' = unsent \union missed \union {n}
            /\ UNCHANGED <<file, lastSum>>
  BY DEF Store
<1>3. /\ mem'[n] = c /\ \A k \in Node \ {n} : /\ mem'[k] = mem[k] /\ file'[k] = file[k]
                                              /\ lastSum'[k] = lastSum[k]
                                              /\ k \notin unsent' => k \notin unsent \union missed
      /\ n \notin unsent' => file'[n] = c /\ lastSum'[n] = c
  BY <1>1, <1>2
<1>4. TypeOK'
  <2>1. mem' \in [Node -> Config] /\ sent' \subseteq Config
    BY <1>1, <1>2
  <2>2. file' \in [Node -> File] /\ lastSum' \in [Node -> File]
    BY <1>1, <1>2 DEF File
  <2>3. unsent' \subseteq Node /\ fails' \in 0 .. MaxFails
    BY <1>1, <1>2, BoundsAssumption
  <2>4. \A k \in Node : mem'[k] \in sent' /\ (raw'[k] = None <=> step'[k] = "idle")
    BY <1>1, <1>2, <1>3
  <2>5. QED
    BY <2>1, <2>2, <2>3, <2>4 DEF IInv, TypeOK
<1>5. ComparedAgrees'
  <2> SUFFICES ASSUME NEW k \in Node, step'[k] = "pin", raw'[k] = file'[k], file'[k] # Broken,
                      k \notin unsent'
               PROVE  file'[k].content.entries = mem'[k].content.entries
    BY DEF ComparedAgrees
  <2>1. CASE k = n
    BY <1>3, <2>1
  <2>2. CASE k # n
    <3>1. /\ mem'[k] = mem[k] /\ file'[k] = file[k] /\ k \notin unsent
          /\ step[k] = "pin" /\ raw[k] = file[k]
      BY <1>3, <2>2
    <3>2. QED
      BY <3>1 DEF IInv, ComparedAgrees
  <2>3. QED
    BY <2>1, <2>2
<1>6. SeenAgrees'
  <2> SUFFICES ASSUME NEW k \in Node, step'[k] \notin {"send", "forward"},
                      lastSum'[k] = file'[k], file'[k] # Broken, Newest(k)', k \notin unsent'
               PROVE  file'[k].content.entries = mem'[k].content.entries
    BY DEF SeenAgrees
  <2>1. CASE k = n
    BY <1>3, <2>1
  <2>2. CASE k # n
    <3>1. /\ mem'[k] = mem[k] /\ file'[k] = file[k] /\ lastSum'[k] = lastSum[k]
          /\ k \notin unsent /\ k \notin missed
      BY <1>3, <2>2
    <3>2. sent' = sent \union {c}
      BY <1>2
    <3>3. \A d \in sent \union {c} : d # mem[k] => d.ver < mem[k].ver
      BY <3>1, <3>2 DEF Newest
    <3>4. Newest(k)
      BY <3>3 DEF Newest
    <3>5. c.ver \in Nat /\ mem[k].ver \in Nat
      BY <1>1 DEF Config
    <3>6. ~(c.ver > mem[k].ver)
      BY <3>3, <3>5
    <3>7. step'[k] = step[k]
      BY <3>1, <3>6
    <3>8. QED
      BY <3>1, <3>4, <3>7 DEF IInv, SeenAgrees
  <2>3. QED
    BY <2>1, <2>2
<1>7. ForwardParsed'
  BY DEF IInv, ForwardParsed
<1>8. QED
  BY <1>4, <1>5, <1>6, <1>7 DEF IInv

LEMMA MutateStep ==
  ASSUME IInv, NEW content \in Content, Mutate(content)
  PROVE  IInv'
<1> DEFINE c == [ver |-> mem[Master].ver + 1, content |-> content]
<1>1. mem[Master].ver \in 0 .. MaxVersion /\ mem[Master].ver < MaxVersion
  BY MasterAssumption DEF IInv, TypeOK, Config, Mutate, Commit
<1>2. c \in Config
  BY <1>1, BoundsAssumption DEF Config
<1>3. Store(Master, c, {}) /\ UNCHANGED <<raw, step, saves, restarts>>
  BY DEF Mutate, Commit
<1> HIDE DEF c
<1>4. raw \in [Node -> File \union {None}] /\ step \in [Node -> Step]
  BY DEF IInv, TypeOK
<1>5. QED
  BY <1>2, <1>3, <1>4, MasterAssumption, StoreStep

LEMMA ReplaceStep ==
  ASSUME IInv, NEW n \in Node, NEW c \in sent, Replace(n, c)
  PROVE  IInv'
<1>1. c \in Config /\ raw \in [Node -> File \union {None}] /\ step \in [Node -> Step]
  BY DEF IInv, TypeOK
<1>2. Store(n, c, {}) /\ UNCHANGED <<raw, step, saves, restarts>>
  BY DEF Replace
<1>3. QED
  BY <1>1, <1>2, StoreStep

\* A forward that goes through: the master's commit is newer than what the
\* node has, if the master is not behind.
LEMMA ForwardStep ==
  ASSUME IInv, NEW n \in Node, Forward(n)
  PROVE  IInv'
<1> DEFINE content == [entries |-> raw[n].content.entries, resolvers |-> None]
           c == [ver |-> mem[Master].ver + 1, content |-> content]
           missed == IF CaughtUp THEN {} ELSE {n}
<1>1. /\ mem[Master].ver \in 0 .. MaxVersion /\ mem[Master].ver < MaxVersion
      /\ mem \in [Node -> Config] /\ \A k \in Node : mem[k] \in sent
      /\ raw \in [Node -> File \union {None}] /\ step \in [Node -> Step]
  BY MasterAssumption DEF IInv, TypeOK, Config, Forward, Commit
<1>2. raw[n] \in Config
  BY <1>1 DEF Forward, IInv, ForwardParsed, TypeOK, File
<1>3. c \in Config /\ c.ver = mem[Master].ver + 1
  BY <1>1, <1>2, BoundsAssumption DEF Config, Content
<1>4. /\ Store(Master, c, missed) /\ Goto(n, "idle") /\ UNCHANGED <<saves, restarts>>
      /\ missed \in SUBSET Node
  BY DEF Forward, Commit
<1>5. n \in missed \/ c.ver > mem[n].ver
  <2> SUFFICES ASSUME CaughtUp
               PROVE  c.ver > mem[n].ver
    OBVIOUS
  <2>1. mem[n].ver <= mem[Master].ver /\ mem[n].ver \in Nat
    BY <1>1 DEF CaughtUp, Config
  <2>2. QED
    BY <1>1, <1>3, <2>1
<1> HIDE DEF c, missed
<1>6. /\ raw' \in [Node -> File \union {None}] /\ step' \in [Node -> Step]
      /\ \A k \in Node : \/ step'[k] = step[k] /\ raw'[k] = raw[k]
                         \/ k = n /\ step'[k] = "idle" /\ raw'[k] = None
  BY <1>1, <1>4 DEF Goto, Step
<1>7. QED
  BY <1>3, <1>4, <1>5, <1>6, MasterAssumption, StoreStep

\* The daemon starts with what is in the file.
LEMMA RestartStep ==
  ASSUME IInv, NEW n \in Node, Restart(n)
  PROVE  IInv'
<1>1. file[n] \in Config
  BY DEF IInv, TypeOK, Restart, File
<1>2. /\ mem' = [mem EXCEPT ![n] = file[n]] /\ lastSum' = [lastSum EXCEPT ![n] = file[n]]
      /\ raw' = [raw EXCEPT ![n] = None] /\ step' = [step EXCEPT ![n] = "idle"]
      /\ sent' = sent \union {file[n]} /\ unsent' = unsent \ {n}
      /\ UNCHANGED <<file, saves, fails>>
  BY DEF Restart
<1>3. /\ mem'[n] = file[n] /\ lastSum'[n] = file[n] /\ raw'[n] = None /\ step'[n] = "idle"
      /\ \A k \in Node \ {n} : /\ mem'[k] = mem[k] /\ lastSum'[k] = lastSum[k]
                               /\ raw'[k] = raw[k] /\ step'[k] = step[k]
                               /\ k \in unsent <=> k \in unsent'
  BY <1>2 DEF IInv, TypeOK
<1>4. restarts' \in 0 .. MaxRestarts
  BY BoundsAssumption DEF Restart, IInv, TypeOK
<1>5. TypeOK'
  <2>1. /\ mem' \in [Node -> Config] /\ lastSum' \in [Node -> File] /\ sent' \subseteq Config
        /\ raw' \in [Node -> File \union {None}] /\ step' \in [Node -> Step]
    BY <1>1, <1>2 DEF IInv, TypeOK, File, Step
  <2>2. \A k \in Node : mem'[k] \in sent' /\ (raw'[k] = None <=> step'[k] = "idle")
    BY <1>2, <1>3 DEF IInv, TypeOK
  <2>3. QED
    BY <1>2, <1>4, <2>1, <2>2 DEF IInv, TypeOK
<1>6. ComparedAgrees' /\ ForwardParsed'
  BY <1>2, <1>3 DEF IInv, ComparedAgrees, ForwardParsed
<1>7. SeenAgrees'
  <2> SUFFICES ASSUME NEW k \in Node \ {n}, Newest(k)'
               PROVE  Newest(k)
    BY <1>2, <1>3 DEF IInv, SeenAgrees
  <2>1. QED
    BY <1>2, <1>3 DEF Newest
<1>8. QED
  BY <1>5, <1>6, <1>7 DEF IInv

\* An operator's save: either the watcher will notice it, or it changes no
\* entries, or it is noted down.
LEMMA SaveStep ==
  ASSUME IInv, NEW n \in Node, NEW f \in File, SaveByHand(n, f)
  PROVE  IInv'
<1>1. /\ file' = [file EXCEPT ![n] = f]
      /\ unsent' = IF TakenForSeen(n, f) THEN unsent \union {n} ELSE unsent
      /\ UNCHANGED <<mem, sent, lastSum, raw, step, restarts, fails>>
  BY DEF SaveByHand
<1>2. saves' \in 0 .. MaxSaves
  BY BoundsAssumption DEF SaveByHand, IInv, TypeOK
<1>3. /\ file'[n] = f /\ \A k \in Node \ {n} : file'[k] = file[k]
      /\ \A k \in Node : k \notin unsent' => k \notin unsent
      /\ n \notin unsent' => ~TakenForSeen(n, f)
  BY <1>1 DEF IInv, TypeOK
<1>4. TypeOK'
  BY <1>1, <1>2 DEF IInv, TypeOK
<1>5. ComparedAgrees'
  <2> SUFFICES ASSUME NEW k \in Node, step[k] = "pin", raw[k] = file'[k], file'[k] # Broken,
                      k \notin unsent'
               PROVE  file'[k].content.entries = mem[k].content.entries
    BY <1>1 DEF ComparedAgrees
  <2>1. CASE k = n
    BY <1>3, <2>1 DEF TakenForSeen
  <2>2. CASE k # n
    BY <1>3, <2>2 DEF IInv, ComparedAgrees
  <2>3. QED
    BY <2>1, <2>2
<1>6. SeenAgrees'
  <2> SUFFICES ASSUME NEW k \in Node, step[k] \notin {"send", "forward"},
                      lastSum[k] = file'[k], file'[k] # Broken, Newest(k), k \notin unsent'
               PROVE  file'[k].content.entries = mem[k].content.entries
    BY <1>1 DEF SeenAgrees, Newest
  <2>1. CASE k = n
    BY <1>3, <2>1 DEF TakenForSeen
  <2>2. CASE k # n
    BY <1>3, <2>2 DEF IInv, SeenAgrees
  <2>3. QED
    BY <2>1, <2>2
<1>7. ForwardParsed'
  BY <1>1 DEF IInv, ForwardParsed
<1>8. QED
  BY <1>4, <1>5, <1>6, <1>7 DEF IInv

\* The watcher's own steps, apart from a forward that goes through.
LEMMA WatchStep ==
  ASSUME IInv, NEW n \in Node,
         \/ ReadFile(n) \/ CompareSum(n) \/ CompareContent(n) \/ Pin(n) \/ ForwardFails(n)
  PROVE  IInv'
<1>1. /\ mem \in [Node -> Config] /\ file \in [Node -> File] /\ lastSum \in [Node -> File]
      /\ raw \in [Node -> File \union {None}] /\ step \in [Node -> Step]
      /\ \A k \in Node : mem[k] \in sent /\ (raw[k] = None <=> step[k] = "idle")
      /\ UNCHANGED <<mem, sent, file, saves, restarts, fails>>
  BY DEF IInv, TypeOK, ReadFile, CompareSum, CompareContent, Pin, ForwardFails
<1>2. ASSUME NEW s \in Step, Goto(n, s), step[n] # "idle"
      PROVE  /\ raw' \in [Node -> File \union {None}] /\ step' \in [Node -> Step]
             /\ step'[n] = s /\ (s # "idle" => raw'[n] = raw[n])
             /\ \A k \in Node \ {n} : raw'[k] = raw[k] /\ step'[k] = step[k]
             /\ \A k \in Node : raw'[k] = None <=> step'[k] = "idle"
  BY <1>1, <1>2 DEF Goto
<1>3. {"idle", "read", "differs", "pin", "send", "forward"} = Step
  BY DEF Step
<1>4. \A k \in Node : Newest(k)' <=> Newest(k)
  BY <1>1 DEF Newest
<1>5. CASE ReadFile(n)
  <2>1. /\ raw' = [raw EXCEPT ![n] = file[n]] /\ step' = [step EXCEPT ![n] = "read"]
        /\ UNCHANGED <<lastSum, unsent>> /\ step[n] = "idle"
    BY <1>5 DEF ReadFile
  <2>2. file[n] # None
    BY <1>1, FileAssumption
  <2>3. /\ raw'[n] = file[n] /\ step'[n] = "read"
        /\ \A k \in Node \ {n} : raw'[k] = raw[k] /\ step'[k] = step[k]
    BY <1>1, <2>1
  <2>4. TypeOK'
    BY <1>1, <1>3, <2>1, <2>2 DEF IInv, TypeOK
  <2>5. ComparedAgrees' /\ SeenAgrees' /\ ForwardParsed'
    BY <1>1, <1>4, <2>1, <2>3 DEF IInv, ComparedAgrees, SeenAgrees, ForwardParsed
  <2>6. QED
    BY <2>4, <2>5 DEF IInv
<1>6. ASSUME NEW s \in Step, Goto(n, s), step[n] \in {"read", "differs"}, s # "forward",
             UNCHANGED <<lastSum, unsent>>,
             s = "pin" /\ raw[n] # Broken
                => raw[n].content.entries = mem[n].content.entries,
             s = "send" => raw[n] # Broken
      PROVE  IInv'
  <2>1. TypeOK'
    BY <1>1, <1>2, <1>6 DEF IInv, TypeOK
  <2>2. ComparedAgrees' /\ SeenAgrees' /\ ForwardParsed'
    BY <1>1, <1>2, <1>4, <1>6 DEF IInv, ComparedAgrees, SeenAgrees, ForwardParsed
  <2>3. QED
    BY <2>1, <2>2 DEF IInv
<1>7. CASE CompareSum(n)
  BY <1>3, <1>6, <1>7 DEF CompareSum
<1>8. CASE CompareContent(n)
  <2>1. CASE raw[n] = Broken \/ SameEntries(raw[n].content.entries, mem[n].content.entries)
    BY <1>3, <1>6, <1>8, <2>1 DEF CompareContent, SameEntries
  <2>2. CASE ~(raw[n] = Broken \/ SameEntries(raw[n].content.entries, mem[n].content.entries))
    BY <1>3, <1>6, <1>8, <2>2 DEF CompareContent
  <2>3. QED
    BY <2>1, <2>2
<1>9. CASE Pin(n)
  <2> DEFINE s == IF step[n] = "pin" THEN "idle" ELSE "forward"
  <2>1. /\ step[n] \in {"pin", "send"} /\ s \in Step /\ Goto(n, s)
        /\ lastSum' = [lastSum EXCEPT ![n] = raw[n]] /\ UNCHANGED unsent
        /\ (s # "forward" <=> step[n] = "pin")
    BY <1>3, <1>9 DEF Pin
  <2> HIDE DEF s
  <2>2. /\ raw' \in [Node -> File \union {None}] /\ step' \in [Node -> Step]
        /\ step'[n] = s /\ (s # "idle" => raw'[n] = raw[n])
        /\ \A k \in Node \ {n} : raw'[k] = raw[k] /\ step'[k] = step[k]
        /\ \A k \in Node : raw'[k] = None <=> step'[k] = "idle"
    BY <1>2, <2>1
  <2>3. raw[n] \in File
    BY <1>1, <2>1
  <2>4. /\ lastSum'[n] = raw[n] /\ lastSum' \in [Node -> File]
        /\ \A k \in Node \ {n} : lastSum'[k] = lastSum[k]
    BY <1>1, <2>1, <2>3
  <2>5. s \in {"idle", "forward"}
    BY DEF s
  <2>6. TypeOK'
    BY <1>1, <2>1, <2>2, <2>4 DEF IInv, TypeOK
  <2>7. ComparedAgrees' /\ ForwardParsed'
    BY <1>1, <2>1, <2>2, <2>5 DEF IInv, ComparedAgrees, ForwardParsed
  <2>8. SeenAgrees'
    <3> SUFFICES ASSUME NEW k \in Node, step'[k] \notin {"send", "forward"},
                        lastSum'[k] = file[k], file[k] # Broken, Newest(k), k \notin unsent
                 PROVE  file[k].content.entries = mem[k].content.entries
      BY <1>1, <1>4, <2>1 DEF SeenAgrees
    <3>1. CASE k = n
      BY <2>1, <2>2, <2>4, <3>1 DEF IInv, ComparedAgrees
    <3>2. CASE k # n
      BY <2>2, <2>4, <3>2 DEF IInv, SeenAgrees
    <3>3. QED
      BY <3>1, <3>2
  <2>9. QED
    BY <2>6, <2>7, <2>8 DEF IInv
<1>10. CASE ForwardFails(n)
  <2>1. /\ step[n] = "forward" /\ Goto(n, "idle") /\ unsent' = unsent \union {n}
        /\ UNCHANGED lastSum
    BY <1>10 DEF ForwardFails
  <2>2. /\ raw' \in [Node -> File \union {None}] /\ step' \in [Node -> Step]
        /\ step'[n] = "idle"
        /\ \A k \in Node \ {n} : raw'[k] = raw[k] /\ step'[k] = step[k]
        /\ \A k \in Node : raw'[k] = None <=> step'[k] = "idle"
    BY <1>2, <1>3, <2>1
  <2>3. TypeOK'
    BY <1>1, <2>1, <2>2 DEF IInv, TypeOK
  <2>4. ComparedAgrees' /\ SeenAgrees' /\ ForwardParsed'
    BY <1>1, <1>4, <2>1, <2>2 DEF IInv, ComparedAgrees, SeenAgrees, ForwardParsed
  <2>5. QED
    BY <2>3, <2>4 DEF IInv
<1>11. QED
  BY <1>5, <1>7, <1>8, <1>9, <1>10

-----------------------------------------------------------------------------
LEMMA Invariance == Spec => []IInv
<1>1. Init => IInv
  <2> SUFFICES ASSUME Init
               PROVE  IInv
    OBVIOUS
  <2> DEFINE c == [ver |-> Start, content |-> Initial]
  <2>1. c \in Config
    BY InitialAssumption DEF Config
  <2>2. /\ mem = [n \in Node |-> c] /\ sent = {c} /\ file = mem /\ lastSum = mem
        /\ raw = [n \in Node |-> None] /\ step = [n \in Node |-> "idle"]
        /\ saves = 0 /\ restarts = 0 /\ fails = 0 /\ unsent = {}
    BY DEF Init
  <2> HIDE DEF c
  <2>3. TypeOK
    BY <2>1, <2>2, BoundsAssumption DEF TypeOK, File, Step
  <2>4. QED
    BY <2>2, <2>3 DEF IInv, ComparedAgrees, SeenAgrees, ForwardParsed
<1>2. IInv /\ [Next]_vars => IInv'
  <2> SUFFICES ASSUME IInv, [Next]_vars
               PROVE  IInv'
    OBVIOUS
  <2>1. ASSUME NEW n \in Node, Watch(n)
        PROVE  IInv'
    BY <2>1, WatchStep, ForwardStep DEF Watch
  <2>2. ASSUME NEW n \in Node, NEW c \in sent, Replace(n, c)
        PROVE  IInv'
    BY <2>2, ReplaceStep
  <2>3. ASSUME NEW n \in Node, Restart(n)
        PROVE  IInv'
    BY <2>3, RestartStep
  <2>4. ASSUME NEW n \in Node, NEW f \in File, SaveByHand(n, f)
        PROVE  IInv'
    BY <2>4, SaveStep
  <2>5. ASSUME NEW c \in Content, Mutate(c)
        PROVE  IInv'
    BY <2>5, MutateStep
  <2>6. CASE UNCHANGED vars
    BY <2>6 DEF vars, IInv, TypeOK, ComparedAgrees, SeenAgrees, Newest, ForwardParsed
  <2>7. QED
    BY <2>1, <2>2, <2>3, <2>4, <2>5, <2>6 DEF Next
<1>3. QED
  BY <1>1, <1>2, PTL DEF Spec

\* Every variable keeps its type; in particular no daemon has a file in
\* memory that cannot be parsed (LoadClusterConfig).
THEOREM TypeCorrect == Spec => []TypeOK
<1>1. IInv => TypeOK
  BY DEF IInv
<1>2. QED
  BY <1>1, Invariance, PTL

\* An edit the watcher has seen is in the node's memory, once that is the
\* newest configuration of the cluster, unless the file was left behind or
\* could not be parsed: whatever is committed, replaced, saved or restarted
\* between the unlocked steps of checkManualEdit, with writes that fail and
\* versions edited by hand, on any number of nodes.
THEOREM SeenTheorem == Spec => []SeenMeansReplicated
<1>1. IInv => SeenMeansReplicated
  BY DEF IInv, SeenAgrees, SeenMeansReplicated
<1>2. QED
  BY <1>1, Invariance, PTL
===============================================================================
