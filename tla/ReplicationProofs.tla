------------------------- MODULE ReplicationProofs -------------------------
(***************************************************************************)
(* For any number of nodes, writers, mutations, crashes, lost messages and *)
(* failing writes, whoever the election makes master and however late a    *)
(* mutation is applied: until a node commits without holding the newest    *)
(* version (a fork), everything held anywhere is a place of one log, what  *)
(* was acknowledged is in the newest of it, and replication implements     *)
(* ConfigLog.  Fork or not, versions do not go back, and what was refused  *)
(* is never applied.                                                       *)
(***************************************************************************)
EXTENDS Replication, SequenceTheorems, TLAPS

\* Mutate and broadcast produce well-formed configurations.
LEMMA MutatedType ==
  ASSUME TypeOK, NEW n \in Node, NEW o \in Op
  PROVE  Mutated(n, o) \in Config
BY DEF TypeOK, Mutated, Config

\* Everything held is a place of the log, and the log only grows richer.
Placed ==
    /\ \A c \in Held : c.ver \in 1 .. Len(log) /\ c.ops = log[c.ver]
    /\ \A v, w \in 1 .. Len(log) : v <= w => log[v] \subseteq log[w]

\* What was reported as applied was written to a file, and is in it still.
Saved ==
    \A o \in Op : status[o] = "applied" => \E n \in Node : o \in disk[n].ops

\* The inductive invariant: only running nodes have a mutation to apply or a
\* broadcast to send, and until a fork all that is held is in the one log.
Orderly ==
    /\ owed \subseteq up
    /\ \A a \in admitted : a.at \in up
    /\ ~forked => Placed /\ Saved

\* The log after a commit at its end: everything up to there stays, and the new
\* content follows (Chronicled).
LEMMA LogExtends ==
  ASSUME TypeOK, Orderly, NEW n \in Node, n \in up, NEW o \in Op,
         Apply(n, o), ~forked'
  PROVE  /\ ~forked /\ NewestAt(n) /\ Placed /\ Saved
         /\ cfg[n].ver \in 1 .. Len(log) /\ cfg[n].ops = log[cfg[n].ver]
         /\ Mutated(n, o).ver = cfg[n].ver + 1
         /\ log' = Append(SubSeq(log, 1, cfg[n].ver), Mutated(n, o).ops)
         /\ log' \in Seq(SUBSET Op)
         /\ Len(log') = cfg[n].ver + 1
         /\ log'[cfg[n].ver + 1] = Mutated(n, o).ops
         /\ \A v \in 1 .. cfg[n].ver : log'[v] = log[v]
<1> DEFINE k == cfg[n].ver
           new == Mutated(n, o).ops
           old == SubSeq(log, 1, k)
<1>1. /\ ~forked /\ NewestAt(n) /\ Placed /\ Saved
      /\ log' = Append(old, new)
  BY DEF Apply, Chronicled, TypeOK, Orderly
<1>2. cfg[n] \in Held
  BY DEF Held
<1>3. k \in 1 .. Len(log) /\ cfg[n].ops = log[k]
  BY <1>1, <1>2 DEF Placed
<1>4. new \in SUBSET Op /\ Mutated(n, o).ver = k + 1
  BY DEF Mutated, TypeOK, Config
<1>5. log \in Seq(SUBSET Op) /\ Len(log) \in Nat
  BY DEF TypeOK
<1>6. /\ old \in Seq(SUBSET Op) /\ Len(old) = k
      /\ \A v \in 1 .. k : old[v] = log[v]
  <2> HIDE DEF k
  <2>1. k \in Nat /\ 1 <= k /\ \A v \in 1 .. k : v \in 1 .. Len(log) /\ 1 + v - 1 = v
    BY <1>3, <1>5
  <2>2. /\ old \in Seq(SUBSET Op)
        /\ Len(old) = k - 1 + 1
        /\ \A v \in 1 .. (k - 1 + 1) : old[v] = log[1 + v - 1]
    BY <1>3, <1>5, <2>1, SubSeqProperties
  <2>3. QED
    BY <2>1, <2>2
<1>7. /\ log' \in Seq(SUBSET Op) /\ Len(log') = k + 1
      /\ log'[k + 1] = new
      /\ \A v \in 1 .. k : log'[v] = old[v]
  <2> HIDE DEF k, old, new
  <2> QED BY <1>1, <1>4, <1>6
<1>8. QED
  BY <1>1, <1>3, <1>4, <1>6, <1>7

\* applyLocally, with or without a failing write, keeps its variables typed.
LEMMA ApplyType ==
  ASSUME TypeOK, Orderly, NEW n \in Node, n \in up, NEW o \in Op, Apply(n, o)
  PROVE  /\ cfg' \in [Node -> Config]
         /\ disk' \in [Node -> Config]
         /\ owed' \subseteq Node
         /\ status' \in [Op -> Status]
         /\ writeFailures' \in 0 .. MaxWriteFailures
         /\ forked' \in BOOLEAN
         /\ log' \in Seq(SUBSET Op)
<1>1. Mutated(n, o) \in Config
  BY MutatedType
<1>2. forked' \in BOOLEAN
  BY DEF Apply, Chronicled
<1>3. log' \in Seq(SUBSET Op)
  <2>1. CASE forked'
    BY <2>1 DEF Apply, Chronicled, TypeOK
  <2>2. CASE ~forked'
    BY <2>2, LogExtends
  <2>3. QED
    BY <2>1, <2>2
<1>4. cfg' \in [Node -> Config] /\ disk' \in [Node -> Config]
  BY <1>1 DEF Apply, TypeOK
<1>5. owed' \subseteq Node /\ status' \in [Op -> Status]
  BY DEF Apply, Answered, TypeOK, Status
<1>6. writeFailures' \in 0 .. MaxWriteFailures
  BY BoundsAssumption DEF Apply, TypeOK
<1>7. QED
  BY <1>2, <1>3, <1>4, <1>5, <1>6

\* Every step keeps the variables typed (cluster.go, replicator.go).
LEMMA TypeStep ==
  ASSUME TypeOK, Orderly, [Next]_vars
  PROVE  TypeOK'
<1>1. ASSUME NEW n \in Node, BecomeMaster(n) PROVE TypeOK'
  BY <1>1 DEF BecomeMaster, TypeOK
<1>2. ASSUME NEW n \in Node, LoseMaster(n) PROVE TypeOK'
  BY <1>2 DEF LoseMaster, TypeOK
<1>3. ASSUME NEW n \in Node, Broadcast(n) PROVE TypeOK'
  <2>1. \A m \in Node : [to |-> m, cfg |-> cfg[n]] \in [to : Node, cfg : Config]
    BY <1>3 DEF TypeOK
  <2>2. snapshots' \subseteq [to : Node, cfg : Config]
    BY <1>3, <2>1 DEF Broadcast, TypeOK
  <2>3. QED
    BY <1>3, <2>2 DEF Broadcast, TypeOK
<1>4. ASSUME NEW n \in Node, Crash(n) PROVE TypeOK'
  BY <1>4, BoundsAssumption DEF Crash, TypeOK
<1>5. ASSUME NEW n \in Node, Restart(n) PROVE TypeOK'
  BY <1>5 DEF Restart, TypeOK
<1>6. ASSUME NEW n \in Node, NEW o \in Op, MutateHere(n, o) PROVE TypeOK'
  <2>1. [at |-> n, op |-> o] \in [at : Node, op : Op]
    OBVIOUS
  <2>2. QED
    BY <1>6, <2>1 DEF MutateHere, TypeOK, Status
<1>7. ASSUME NEW n \in Node, NEW m \in Node, NEW o \in Op, Propose(n, m, o)
      PROVE  TypeOK'
  BY <1>7 DEF Propose, TypeOK, Status
<1>8. ASSUME NEW p \in proposals, RejectProposal(p) PROVE TypeOK'
  BY <1>8 DEF RejectProposal, Answered, TypeOK, Status
<1>9. ASSUME NEW p \in proposals, HandlePropose(p) PROVE TypeOK'
  <2>1. [at |-> p.to, op |-> p.op] \in [at : Node, op : Op]
    BY DEF TypeOK
  <2>2. QED
    BY <1>9, <2>1 DEF HandlePropose, TypeOK
<1>10. ASSUME NEW p \in proposals, LoseProposal(p) PROVE TypeOK'
  BY <1>10 DEF LoseProposal, TypeOK
<1>11. ASSUME NEW a \in admitted, ApplyLocally(a) PROVE TypeOK'
  <2>1. a.at \in Node /\ a.op \in Op /\ a.at \in up
    BY DEF TypeOK, Orderly
  <2>2. QED
    BY <1>11, <2>1, ApplyType DEF ApplyLocally, TypeOK
<1>12. ASSUME NEW o \in Op, Refuse(o) \/ ProposeFails(o) PROVE TypeOK'
  BY <1>12 DEF Refuse, ProposeFails, TypeOK, Status
<1>13. ASSUME NEW n \in Node, NEW p \in Node, Pull(n, p) PROVE TypeOK'
  BY <1>13 DEF Pull, TypeOK
<1>14. ASSUME NEW s \in snapshots, Replace(s) PROVE TypeOK'
  <2>1. s.to \in Node /\ s.cfg \in Config
    BY DEF TypeOK
  <2>2. cfg' \in [Node -> Config] /\ disk' \in [Node -> Config]
    BY <1>14, <2>1 DEF Replace, TypeOK
  <2>3. writeFailures' \in 0 .. MaxWriteFailures
    BY <1>14, BoundsAssumption DEF Replace, TypeOK
  <2>4. QED
    BY <1>14, <2>2, <2>3 DEF Replace, TypeOK
<1>15. ASSUME NEW s \in snapshots, LoseSnapshot(s) PROVE TypeOK'
  BY <1>15 DEF LoseSnapshot, TypeOK
<1>16. CASE UNCHANGED vars
  BY <1>16 DEF vars, TypeOK
<1>17. QED
  BY <1>1, <1>2, <1>3, <1>4, <1>5, <1>6, <1>7, <1>8, <1>9, <1>10, <1>11,
     <1>12, <1>13, <1>14, <1>15, <1>16 DEF Next

\* What lets a restart go back: the file is behind the memory, and only where
\* a write failed (Mutate and Replace change the memory before they save).
DiskBehind ==
    \A n \in Node : /\ disk[n].ver <= cfg[n].ver
                    /\ writeFailures = 0 => disk[n] = cfg[n]

\* Writing a newer configuration at one node, or failing to, keeps the file
\* no newer than the memory and takes neither back.
LEMMA NewerIsKept ==
  ASSUME TypeOK, DiskBehind, NEW n \in Node, NEW c \in Config,
         c.ver > cfg[n].ver, cfg' = [cfg EXCEPT ![n] = c],
         \/ disk' = [disk EXCEPT ![n] = c] /\ writeFailures' = writeFailures
         \/ disk' = disk /\ writeFailures' = writeFailures + 1
  PROVE  /\ DiskBehind'
         /\ \A m \in Node : disk'[m].ver >= disk[m].ver /\ ~(cfg'[m].ver < cfg[m].ver)
<1>1. /\ writeFailures \in Nat /\ c.ver \in Nat
      /\ \A m \in Node : cfg[m].ver \in Nat /\ disk[m].ver \in Nat
  BY BoundsAssumption DEF TypeOK, Config
<1>2. \A m \in Node : cfg'[m] = IF m = n THEN c ELSE cfg[m]
  BY DEF TypeOK
<1>3. CASE disk' = [disk EXCEPT ![n] = c] /\ writeFailures' = writeFailures
  <2>1. \A m \in Node : disk'[m] = IF m = n THEN c ELSE disk[m]
    BY <1>3 DEF TypeOK
  <2>2. QED
    BY <1>1, <1>2, <1>3, <2>1 DEF DiskBehind
<1>4. CASE disk' = disk /\ writeFailures' = writeFailures + 1
  <2>1. writeFailures' # 0
    BY <1>1, <1>4
  <2>2. QED
    BY <1>1, <1>2, <1>4, <2>1 DEF DiskBehind
<1>5. QED
  BY <1>3, <1>4

\* What a step may do to the versions.
Forward ==
    \A n \in Node :
       /\ disk'[n].ver >= disk[n].ver
       /\ cfg'[n].ver < cfg[n].ver => n \notin up /\ writeFailures > 0

\* Whoever writes and whoever crashes, no file and no memory goes back, except
\* in a restart after a failed write (Replace, Mutate, LoadClusterConfig).
LEMMA VersionStep ==
  ASSUME TypeOK, DiskBehind, [Next]_vars
  PROVE  DiskBehind' /\ Forward
<1>1. /\ writeFailures \in Nat
      /\ \A n \in Node : cfg[n].ver \in Nat /\ disk[n].ver \in Nat
  BY BoundsAssumption DEF TypeOK, Config
<1>2. ASSUME \A n \in Node : disk'[n].ver >= disk[n].ver /\ ~(cfg'[n].ver < cfg[n].ver)
      PROVE  Forward
  BY <1>2 DEF Forward
<1>3. ASSUME UNCHANGED <<cfg, disk, writeFailures>> PROVE DiskBehind' /\ Forward
  BY <1>1, <1>3 DEF DiskBehind, Forward
<1>4. ASSUME NEW n \in Node, NEW o \in Op, Apply(n, o) PROVE DiskBehind' /\ Forward
  <2>1. Mutated(n, o) \in Config /\ Mutated(n, o).ver > cfg[n].ver
    BY <1>1, MutatedType DEF Mutated
  <2>2. /\ cfg' = [cfg EXCEPT ![n] = Mutated(n, o)]
        /\ \/ disk' = [disk EXCEPT ![n] = Mutated(n, o)] /\ writeFailures' = writeFailures
           \/ disk' = disk /\ writeFailures' = writeFailures + 1
    BY <1>4 DEF Apply
  <2>3. QED
    BY <1>2, <2>1, <2>2, NewerIsKept
<1>5. ASSUME NEW a \in admitted, ApplyLocally(a)
      PROVE  DiskBehind' /\ Forward
  BY <1>4, <1>5 DEF ApplyLocally, TypeOK
<1>6. ASSUME NEW n \in Node, NEW o \in Op, MutateHere(n, o)
      PROVE  DiskBehind' /\ Forward
  BY <1>3, <1>6 DEF MutateHere
<1>7. ASSUME NEW s \in snapshots, Replace(s)
      PROVE  DiskBehind' /\ Forward
  <2>1. CASE s.cfg.ver <= cfg[s.to].ver
    BY <1>3, <1>7, <2>1 DEF Replace
  <2>2. CASE ~(s.cfg.ver <= cfg[s.to].ver)
    <3>1. s.to \in Node /\ s.cfg \in Config /\ s.cfg.ver \in Nat
      BY DEF TypeOK, Config
    <3>2. s.cfg.ver > cfg[s.to].ver
      BY <1>1, <2>2, <3>1
    <3>3. /\ cfg' = [cfg EXCEPT ![s.to] = s.cfg]
          /\ \/ disk' = [disk EXCEPT ![s.to] = s.cfg] /\ writeFailures' = writeFailures
             \/ disk' = disk /\ writeFailures' = writeFailures + 1
      BY <1>7, <2>2 DEF Replace
    <3>4. QED
      BY <1>2, <3>1, <3>2, <3>3, NewerIsKept
  <2>3. QED
    BY <2>1, <2>2
<1>8. ASSUME NEW n \in Node, Restart(n)
      PROVE  DiskBehind' /\ Forward
  <2>1. /\ n \notin up /\ disk' = disk /\ writeFailures' = writeFailures
        /\ \A m \in Node : cfg'[m] = IF m = n THEN disk[n] ELSE cfg[m]
    BY <1>8 DEF Restart, TypeOK
  <2>2. DiskBehind'
    BY <1>1, <2>1 DEF DiskBehind
  <2>3. ASSUME NEW m \in Node, cfg'[m].ver < cfg[m].ver
        PROVE  m \notin up /\ writeFailures > 0
    <3>1. m = n /\ cfg'[m] # cfg[m]
      BY <1>1, <2>1, <2>3
    <3>2. writeFailures # 0
      BY <2>1, <3>1 DEF DiskBehind
    <3>3. QED
      BY <1>1, <2>1, <3>1, <3>2
  <2>4. QED
    BY <1>1, <2>1, <2>2, <2>3 DEF Forward
<1>9. ASSUME NEW n \in Node, BecomeMaster(n) \/ LoseMaster(n) \/ Broadcast(n) \/ Crash(n)
      PROVE  DiskBehind' /\ Forward
  BY <1>3, <1>9 DEF BecomeMaster, LoseMaster, Broadcast, Crash
<1>10. ASSUME NEW n \in Node, NEW m \in Node, NEW o \in Op,
              Propose(n, m, o)
       PROVE  DiskBehind' /\ Forward
  BY <1>3, <1>10 DEF Propose
<1>11. ASSUME NEW n \in Node, NEW m \in Node, Pull(n, m)
       PROVE  DiskBehind' /\ Forward
  BY <1>3, <1>11 DEF Pull
<1>12. ASSUME NEW o \in Op, Refuse(o) \/ ProposeFails(o)
       PROVE  DiskBehind' /\ Forward
  BY <1>3, <1>12 DEF Refuse, ProposeFails
<1>13. ASSUME NEW p \in proposals,
              RejectProposal(p) \/ HandlePropose(p) \/ LoseProposal(p)
       PROVE  DiskBehind' /\ Forward
  BY <1>3, <1>13 DEF RejectProposal, HandlePropose, LoseProposal
<1>14. ASSUME NEW s \in snapshots, LoseSnapshot(s)
       PROVE  DiskBehind' /\ Forward
  BY <1>3, <1>14 DEF LoseSnapshot
<1>15. CASE UNCHANGED vars
  BY <1>3, <1>15 DEF vars
<1>16. QED
  BY <1>5, <1>6, <1>7, <1>8, <1>9, <1>10, <1>11, <1>12, <1>13, <1>14, <1>15
     DEF Next

-----------------------------------------------------------------------------
LEMMA HeldType ==
  ASSUME TypeOK, NEW c \in Held
  PROVE  c \in Config /\ c.ver \in Nat
BY DEF Held, TypeOK, Config

\* Replication, crashes and restarts only move configurations that exist, or
\* lose them (broadcast, PullFrom, Replace, LoadClusterConfig).
LEMMA NothingNew ==
  ASSUME TypeOK, owed \subseteq up,
         \/ \E n \in Node : Broadcast(n) \/ Restart(n) \/ Crash(n)
         \/ \E n, p \in Node : Pull(n, p)
         \/ \E s \in snapshots : Replace(s) \/ LoseSnapshot(s)
         \/ UNCHANGED <<up, cfg, disk, snapshots>>
  PROVE  Held' \subseteq Held
<1>1. ASSUME NEW n \in Node, Broadcast(n) PROVE Held' \subseteq Held
  <2>1. n \in up
    BY <1>1 DEF Broadcast
  <2>2. \A s \in snapshots' : s \in snapshots \/ s.cfg = cfg[n]
    BY <1>1 DEF Broadcast
  <2>3. QED
    BY <1>1, <2>1, <2>2 DEF Broadcast, Held
<1>2. ASSUME NEW n \in Node, Restart(n) PROVE Held' \subseteq Held
  <2>1. \A m \in up' : cfg'[m] = disk[m] \/ (m \in up /\ cfg'[m] = cfg[m])
    BY <1>2 DEF Restart, TypeOK
  <2>2. QED
    BY <1>2, <2>1 DEF Restart, Held, TypeOK
<1>3. ASSUME NEW n \in Node, Crash(n) PROVE Held' \subseteq Held
  BY <1>3 DEF Crash, Held
<1>4. ASSUME NEW n \in Node, NEW p \in Node, Pull(n, p) PROVE Held' \subseteq Held
  BY <1>4 DEF Pull, Held
<1>5. ASSUME NEW s \in snapshots, Replace(s) PROVE Held' \subseteq Held
  <2>1. s.to \in Node /\ up' = up /\ snapshots' \subseteq snapshots
    BY <1>5 DEF Replace, TypeOK
  <2>2. \A m \in Node : (cfg'[m] = cfg[m] \/ cfg'[m] = s.cfg)
                        /\ (disk'[m] = disk[m] \/ disk'[m] = s.cfg)
    BY <1>5 DEF Replace, TypeOK
  <2>3. QED
    BY <2>1, <2>2 DEF Held, TypeOK
<1>6. ASSUME NEW s \in snapshots, LoseSnapshot(s) PROVE Held' \subseteq Held
  BY <1>6 DEF LoseSnapshot, Held
<1>7. CASE UNCHANGED <<up, cfg, disk, snapshots>>
  BY <1>7 DEF Held
<1>8. QED
  BY <1>1, <1>2, <1>3, <1>4, <1>5, <1>6, <1>7

\* Steps that hold nothing new, neither commit nor answer, and keep in the
\* files what is in them, leave the invariant of the log.
LEMMA CopyOrderly ==
  ASSUME TypeOK, Orderly, Held' \subseteq Held, UNCHANGED <<log, forked>>,
         (owed \subseteq up)', (\A a \in admitted : a.at \in up)',
         ~forked => \A n \in Node : disk[n].ops \subseteq disk'[n].ops,
         \A o \in Op : status'[o] = "applied" => status[o] = "applied"
  PROVE  Orderly'
<1>1. ASSUME ~forked PROVE Placed' /\ Saved'
  <2>1. Placed'
    BY <1>1 DEF Orderly, Placed
  <2>2. Saved'
    BY <1>1 DEF Orderly, Saved
  <2>3. QED
    BY <2>1, <2>2
<1>2. QED
  BY <1>1 DEF Orderly

\* A commit without a fork: the new configuration takes the next place of the
\* log, behind everything that is held, and contains it all (Mutate).
LEMMA CommitOrderly ==
  ASSUME TypeOK, DiskBehind, Orderly, NEW n \in Node, n \in up, NEW o \in Op,
         Apply(n, o), UNCHANGED <<up, snapshots>>, admitted' \subseteq admitted
  PROVE  Orderly'
<1> DEFINE new == Mutated(n, o)
           k == cfg[n].ver
<1>1. (owed \subseteq up)' /\ (\A a \in admitted : a.at \in up)'
  BY DEF Apply, Orderly
<1>2. ASSUME ~forked' PROVE Placed' /\ Saved'
  <2>1. /\ NewestAt(n) /\ Placed /\ Saved
        /\ k \in 1 .. Len(log) /\ cfg[n].ops = log[k]
        /\ new.ver = k + 1
        /\ Len(log') = k + 1
        /\ log'[k + 1] = new.ops
        /\ \A v \in 1 .. k : log'[v] = log[v]
    BY <1>2, LogExtends
  <2>2. Len(log) \in Nat /\ k \in Nat
    BY DEF TypeOK, Config
  <2>3. new.ops = log[k] \union {o}
    BY <2>1 DEF Mutated
  <2>4. \A m \in Node : /\ cfg'[m] = cfg[m] \/ cfg'[m] = new
                        /\ disk'[m] = disk[m] \/ (m = n /\ disk'[m] = new)
    BY DEF Apply, TypeOK
  <2>5. Held' \subseteq Held \union {new}
    BY <2>4 DEF Held, TypeOK
  <2>6. \A c \in Held : c.ver \in 1 .. k
    BY <2>1, <2>2, HeldType DEF NewestAt, Placed
  <2> HIDE DEF new, k
  <2>7. ASSUME NEW c \in Held'
        PROVE  c.ver \in 1 .. Len(log') /\ c.ops = log'[c.ver]
    <3>1. CASE c = new
      BY <2>1, <2>2, <3>1
    <3>2. CASE c # new
      <4>1. c \in Held /\ c.ver \in 1 .. k /\ c.ops = log[c.ver]
        BY <2>5, <2>6, <3>2, <2>1 DEF Placed
      <4>2. QED
        BY <2>1, <2>2, <4>1
    <3>3. QED
      BY <3>1, <3>2
  <2>8. ASSUME NEW v \in 1 .. Len(log'), NEW w \in 1 .. Len(log'), v <= w
        PROVE  log'[v] \subseteq log'[w]
    <3>1. CASE w \in 1 .. k
      <4>1. v \in 1 .. k /\ v \in 1 .. Len(log) /\ w \in 1 .. Len(log)
        BY <2>1, <2>2, <2>8, <3>1
      <4>2. QED
        BY <2>1, <2>8, <3>1, <4>1 DEF Placed
    <3>2. CASE w = k + 1 /\ v \in 1 .. k
      <4>1. v \in 1 .. Len(log) /\ v <= k
        BY <2>1, <2>2, <3>2
      <4>2. log[v] \subseteq log[k]
        BY <2>1, <4>1 DEF Placed
      <4>3. QED
        BY <2>1, <2>3, <3>2, <4>2
    <3>3. CASE w = k + 1 /\ v = k + 1
      BY <3>3
    <3>4. QED
      BY <2>1, <2>2, <2>8, <3>1, <3>2, <3>3
  <2>9. \A m \in Node : disk[m].ops \subseteq disk'[m].ops
    <3>1. disk[n] \in Held
      BY DEF Held
    <3>2. disk[n].ops \subseteq new.ops
      <4>1. /\ disk[n].ver \in 1 .. k /\ disk[n].ver \in 1 .. Len(log)
            /\ disk[n].ops = log[disk[n].ver] /\ disk[n].ver <= k
        BY <2>1, <2>2, <2>6, <3>1 DEF Placed
      <4>2. log[disk[n].ver] \subseteq log[k]
        BY <2>1, <4>1 DEF Placed
      <4>3. QED
        BY <2>3, <4>1, <4>2
    <3>3. QED
      BY <2>4, <3>2
  <2>10. Saved'
    <3> SUFFICES ASSUME NEW q \in Op, status'[q] = "applied"
                 PROVE  \E m \in Node : q \in disk'[m].ops
      BY DEF Saved
    <3>1. CASE status[q] = "applied"
      BY <2>1, <2>9, <3>1 DEF Saved
    <3>2. CASE status[q] # "applied"
      <4>1. q = o /\ disk' = [disk EXCEPT ![n] = new]
        BY <3>2 DEF Apply, Answered, TypeOK, new
      <4>2. q \in disk'[n].ops
        BY <2>3, <4>1 DEF TypeOK
      <4>3. QED
        BY <4>2
    <3>3. QED
      BY <3>1, <3>2
  <2>11. QED
    BY <2>7, <2>8, <2>10 DEF Placed
<1>3. QED
  BY <1>1, <1>2 DEF Orderly

\* A snapshot that is taken over is newer than the file it replaces, so it
\* contains what is in it (Replace).
LEMMA ReplaceOrderly ==
  ASSUME TypeOK, DiskBehind, Orderly, NEW s \in snapshots, Replace(s)
  PROVE  Orderly'
<1>1. Held' \subseteq Held
  BY NothingNew DEF Orderly
<1>2. s.to \in Node /\ s.cfg \in Held /\ s.cfg.ver \in Nat
  BY DEF TypeOK, Held, Config
<1>3. ASSUME ~forked, NEW n \in Node
      PROVE  disk[n].ops \subseteq disk'[n].ops
  <2>1. CASE disk'[n] = disk[n]
    BY <2>1
  <2>2. CASE disk'[n] # disk[n]
    <3>1. n = s.to /\ disk'[n] = s.cfg /\ ~(s.cfg.ver <= cfg[n].ver)
      BY <2>2 DEF Replace, TypeOK
    <3>2. disk[n] \in Held /\ disk[n].ver <= cfg[n].ver
      BY DEF Held, DiskBehind
    <3>3. cfg[n].ver \in Nat /\ disk[n].ver \in Nat
      BY DEF TypeOK, Config
    <3>4. disk[n].ver <= s.cfg.ver
      BY <1>2, <3>1, <3>2, <3>3
    <3>5. disk[n].ops \subseteq s.cfg.ops
      BY <1>2, <1>3, <3>2, <3>4 DEF Orderly, Placed
    <3>6. QED
      BY <3>1, <3>5
  <2>3. QED
    BY <2>1, <2>2
<1>4. UNCHANGED <<up, owed, admitted, status, log, forked>>
  BY DEF Replace
<1>5. QED
  BY <1>1, <1>3, <1>4, CopyOrderly DEF Orderly

\* Every step keeps the invariant.
LEMMA OrderlyStep ==
  ASSUME TypeOK, DiskBehind, Orderly, [Next]_vars
  PROVE  Orderly'
<1>1. ASSUME NEW n \in Node, Broadcast(n) PROVE Orderly'
  <2>1. Held' \subseteq Held
    BY <1>1, NothingNew DEF Orderly
  <2>2. QED
    BY <1>1, <2>1, CopyOrderly DEF Broadcast, Orderly
<1>2. ASSUME NEW n \in Node, Restart(n) PROVE Orderly'
  <2>1. Held' \subseteq Held
    BY <1>2, NothingNew DEF Orderly
  <2>2. QED
    BY <1>2, <2>1, CopyOrderly DEF Restart, Orderly
<1>3. ASSUME NEW n \in Node, Crash(n) PROVE Orderly'
  <2>1. Held' \subseteq Held
    BY <1>3, NothingNew DEF Orderly
  <2>2. QED
    BY <1>3, <2>1, CopyOrderly DEF Crash, Orderly
<1>4. ASSUME NEW n \in Node, NEW p \in Node, Pull(n, p) PROVE Orderly'
  <2>1. Held' \subseteq Held
    BY <1>4, NothingNew DEF Orderly
  <2>2. QED
    BY <1>4, <2>1, CopyOrderly DEF Pull, Orderly
<1>5. ASSUME NEW s \in snapshots, LoseSnapshot(s) PROVE Orderly'
  <2>1. Held' \subseteq Held
    BY <1>5, NothingNew DEF Orderly
  <2>2. QED
    BY <1>5, <2>1, CopyOrderly DEF LoseSnapshot, Orderly
<1>6. ASSUME NEW s \in snapshots, Replace(s) PROVE Orderly'
  BY <1>6, ReplaceOrderly
<1>7. ASSUME NEW a \in admitted, ApplyLocally(a) PROVE Orderly'
  <2>1. a.at \in Node /\ a.at \in up /\ a.op \in Op
    BY DEF TypeOK, Orderly
  <2>2. QED
    BY <1>7, <2>1, CommitOrderly DEF ApplyLocally
<1>8. ASSUME UNCHANGED <<up, cfg, disk, snapshots, owed, log, forked>>,
             (\A a \in admitted : a.at \in up)',
             \A o \in Op : status'[o] = "applied" => status[o] = "applied"
      PROVE  Orderly'
  <2>1. Held' \subseteq Held
    BY <1>8, NothingNew DEF Orderly
  <2>2. QED
    BY <1>8, <2>1, CopyOrderly DEF Orderly
<1>9. ASSUME NEW n \in Node, BecomeMaster(n) \/ LoseMaster(n) PROVE Orderly'
  BY <1>8, <1>9 DEF BecomeMaster, LoseMaster, Orderly
<1>10. ASSUME NEW n \in Node, NEW o \in Op, MutateHere(n, o) PROVE Orderly'
  BY <1>8, <1>10 DEF MutateHere, Orderly, TypeOK
<1>11. ASSUME NEW n \in Node, NEW m \in Node, NEW o \in Op, Propose(n, m, o)
       PROVE  Orderly'
  BY <1>8, <1>11 DEF Propose, Orderly, TypeOK
<1>12. ASSUME NEW p \in proposals, HandlePropose(p) PROVE Orderly'
  BY <1>8, <1>12 DEF HandlePropose, Orderly
<1>13. ASSUME NEW p \in proposals, RejectProposal(p) \/ LoseProposal(p)
       PROVE  Orderly'
  BY <1>8, <1>13 DEF RejectProposal, LoseProposal, Answered, Orderly, TypeOK
<1>14. ASSUME NEW o \in Op, Refuse(o) \/ ProposeFails(o) PROVE Orderly'
  BY <1>8, <1>14 DEF Refuse, ProposeFails, Orderly, TypeOK
<1>15. CASE UNCHANGED vars
  BY <1>8, <1>15 DEF vars, Orderly
<1>16. QED
  BY <1>1, <1>2, <1>3, <1>4, <1>5, <1>6, <1>7, <1>9, <1>10, <1>11, <1>12, <1>13,
     <1>14, <1>15 DEF Next

LEMMA InitInv == Init => TypeOK /\ DiskBehind /\ Orderly
<1> SUFFICES ASSUME Init PROVE TypeOK /\ DiskBehind /\ Orderly
  OBVIOUS
<1>1. TypeOK
  <2>1. FirstConfig \in Config /\ log \in Seq(SUBSET Op)
    BY DEF Init, FirstConfig, Config
  <2>2. forked \in BOOLEAN
    BY DEF Init
  <2>3. QED
    BY <2>1, <2>2, BoundsAssumption DEF Init, TypeOK, Status
<1>2. DiskBehind
  BY DEF Init, DiskBehind, FirstConfig
<1>3. /\ \A c \in Held : c.ver = 1 /\ c.ops = {}
      /\ Len(log) = 1 /\ log[1] = {}
  BY DEF Init, Held, FirstConfig
<1>4. Placed
  BY <1>3 DEF Placed
<1>5. QED
  BY <1>1, <1>2, <1>4 DEF Init, Orderly, Saved

LEMMA Inductive == Spec => [](TypeOK /\ DiskBehind /\ Orderly)
<1>1. TypeOK /\ DiskBehind /\ Orderly /\ [Next]_vars
        => TypeOK' /\ DiskBehind' /\ Orderly'
  BY TypeStep, VersionStep, OrderlyStep
<1>2. QED
  BY <1>1, InitInv, PTL DEF Spec

\* Every variable keeps its type (cluster.go, replicator.go).
THEOREM TypeCorrect == Spec => []TypeOK
BY Inductive, PTL

\* No file ever goes back to an older version, and no node does in memory
\* except in a restart after a failed write, whoever writes and whoever
\* crashes (Replace, Mutate, LoadClusterConfig).
VersionNeverDecreases == [][Forward]_vars
THEOREM VersionTheorem == Spec => VersionNeverDecreases
<1>1. TypeOK /\ DiskBehind /\ [Next]_vars => [Forward]_vars
  BY VersionStep
<1>2. QED
  BY <1>1, Inductive, PTL DEF Spec, VersionNeverDecreases

\* docs/architecture.md's claim, and how far it goes: whoever is made master,
\* however late it applies a mutation, whatever crashes and whichever write
\* fails, a version names one content everywhere until a node commits without
\* holding the newest version (Mutate, Replace).
THEOREM OneContentTheorem == Spec => []OneContentUnlessForked
<1>1. Orderly => OneContentUnlessForked
  BY DEF Orderly, Placed, OneContentUnlessForked, OneContentPerVersion
<1>2. QED
  BY <1>1, Inductive, PTL

\* And until then what an operator was told to be applied is in the newest
\* configuration there is, across handovers, crashes and failed writes.
THEOREM DurableTheorem == Spec => []AcknowledgedSurvives
<1>1. Orderly => AcknowledgedSurvives
  <2> SUFFICES ASSUME Placed, Saved, NEW o \in Op, status[o] = "applied",
                      NEW c \in Held, \A d \in Held : d.ver <= c.ver
               PROVE  o \in c.ops
    BY DEF Orderly, AcknowledgedSurvives
  <2>1. PICK n \in Node : o \in disk[n].ops
    BY DEF Saved
  <2>2. disk[n] \in Held
    BY DEF Held
  <2>3. disk[n].ops \subseteq c.ops
    BY <2>2 DEF Placed
  <2>4. QED
    BY <2>1, <2>3
<1>2. QED
  BY <1>1, Inductive, PTL

-----------------------------------------------------------------------------
\* The two halves of the refinement mapping.
Mem == [n \in Node |-> IF n \in up THEN cfg[n].ver ELSE disk[n].ver]
File == [n \in Node |-> disk[n].ver]

\* A commit at the end of the log is ConfigLog's, saved or not.
LEMMA CommitImplements ==
  ASSUME TypeOK, Orderly, NEW n \in Node, n \in up, NEW o \in Op, Apply(n, o),
         UNCHANGED up, ~forked'
  PROVE  Abstract!Commit(n, o)
<1> DEFINE k == cfg[n].ver
<1>1. /\ NewestAt(n) /\ cfg[n].ops = log[k]
      /\ Mutated(n, o).ver = k + 1
      /\ log' = Append(SubSeq(log, 1, k), Mutated(n, o).ops)
  BY LogExtends
<1>2. Mem[n] = k /\ Mutated(n, o).ops = log[k] \union {o}
  BY <1>1 DEF Mem, Mutated
<1>3. \A m \in Node : Mem[m] <= k /\ File[m] <= k
  BY <1>1 DEF NewestAt, Held, Mem, File
<1>4. Mem' = [Mem EXCEPT ![n] = k + 1]
  <2>1. \A m \in Node : cfg'[m] = (IF m = n THEN Mutated(n, o) ELSE cfg[m])
                        /\ (m # n => disk'[m] = disk[m])
    BY DEF Apply, TypeOK
  <2>2. QED
    BY <1>1, <2>1 DEF Mem
<1>5. File' = File \/ File' = [File EXCEPT ![n] = k + 1]
  <2>1. CASE disk' = disk
    BY <2>1 DEF File
  <2>2. CASE disk' = [disk EXCEPT ![n] = Mutated(n, o)]
    <3>1. \A m \in Node : disk'[m] = IF m = n THEN Mutated(n, o) ELSE disk[m]
      BY <2>2 DEF TypeOK
    <3>2. QED
      BY <1>1, <3>1 DEF File
  <2>3. QED
    BY <2>1, <2>2 DEF Apply
<1>6. QED
  BY <1>1, <1>2, <1>3, <1>4, <1>5 DEF Abstract!Commit, Abstract!Moves, Mem, File

\* A snapshot that is taken over is a later place of the log.
LEMMA ReplaceImplements ==
  ASSUME TypeOK, Orderly, NEW s \in snapshots, Replace(s), ~forked
  PROVE  [Abstract!Next]_Abstract!vars
<1>1. s.to \in Node /\ s.to \in up /\ s.cfg \in Held /\ up' = up /\ log' = log
  BY DEF TypeOK, Held, Replace
<1>2. CASE s.cfg.ver <= cfg[s.to].ver
  BY <1>1, <1>2 DEF Replace, Abstract!vars
<1>3. CASE ~(s.cfg.ver <= cfg[s.to].ver)
  <2> DEFINE v == s.cfg.ver
  <2>1. v \in 1 .. Len(log) /\ cfg[s.to].ver \in Nat /\ Len(log) \in Nat
    BY <1>1 DEF Orderly, Placed, TypeOK, Config
  <2>2. v \in (Mem[s.to] + 1) .. Len(log)
    BY <1>1, <1>3, <2>1 DEF Mem
  <2>3. Mem' = [Mem EXCEPT ![s.to] = v]
    <3>1. \A m \in Node : cfg'[m] = (IF m = s.to THEN s.cfg ELSE cfg[m])
                          /\ (m # s.to => disk'[m] = disk[m])
      BY <1>1, <1>3 DEF Replace, TypeOK
    <3>2. QED
      BY <1>1, <3>1 DEF Mem
  <2>4. File' = File \/ File' = [File EXCEPT ![s.to] = v]
    <3>1. CASE disk' = disk
      BY <3>1 DEF File
    <3>2. CASE disk' = [disk EXCEPT ![s.to] = s.cfg]
      <4>1. \A m \in Node : disk'[m] = IF m = s.to THEN s.cfg ELSE disk[m]
        BY <3>2 DEF TypeOK
      <4>2. QED
        BY <4>1 DEF File
    <3>3. QED
      BY <1>3, <3>1, <3>2 DEF Replace
  <2> HIDE DEF v
  <2>5. Abstract!Learn(s.to)
    BY <1>1, <2>2, <2>3, <2>4 DEF Abstract!Learn, Abstract!Moves, Mem, File
  <2>6. QED
    BY <1>1, <2>5 DEF Abstract!Next
<1>4. QED
  BY <1>2, <1>3

\* A crash takes a node back to its file; the restart then changes nothing.
LEMMA CrashImplements ==
  ASSUME TypeOK, NEW n \in Node, Crash(n) \/ Restart(n)
  PROVE  [Abstract!Next]_Abstract!vars
<1>1. CASE Crash(n)
  <2>1. Mem' = [Mem EXCEPT ![n] = File[n]] /\ File' = File /\ log' = log
    BY <1>1 DEF Crash, Mem, File
  <2>2. Abstract!Reload(n)
    BY <2>1 DEF Abstract!Reload, Mem, File
  <2>3. QED
    BY <2>2 DEF Abstract!Next
<1>2. CASE Restart(n)
  <2>1. \A m \in Node : cfg'[m] = IF m = n THEN disk[n] ELSE cfg[m]
    BY <1>2 DEF Restart, TypeOK
  <2>2. Mem' = Mem /\ File' = File /\ log' = log
    BY <1>2, <2>1 DEF Restart, Mem, File
  <2>3. QED
    BY <2>2 DEF Abstract!vars, Mem, File
<1>3. QED
  BY <1>1, <1>2

\* Every step without a fork is one of ConfigLog, or changes nothing it sees.
LEMMA StepImplements ==
  ASSUME TypeOK, Orderly, [Next]_vars, ~forked'
  PROVE  [Abstract!Next]_Abstract!vars
<1>1. ASSUME UNCHANGED <<up, cfg, disk, log>>
      PROVE  [Abstract!Next]_Abstract!vars
  BY <1>1 DEF Abstract!vars
<1>2. ASSUME NEW a \in admitted, ApplyLocally(a)
      PROVE  [Abstract!Next]_Abstract!vars
  <2>1. a.at \in Node /\ a.at \in up /\ a.op \in Op
    BY DEF TypeOK, Orderly
  <2>2. Abstract!Commit(a.at, a.op)
    BY <1>2, <2>1, CommitImplements DEF ApplyLocally
  <2>3. QED
    BY <2>1, <2>2 DEF Abstract!Next
<1>3. ASSUME NEW s \in snapshots, Replace(s)
      PROVE  [Abstract!Next]_Abstract!vars
  BY <1>3, ReplaceImplements DEF Replace
<1>4. ASSUME NEW n \in Node, Crash(n) \/ Restart(n)
      PROVE  [Abstract!Next]_Abstract!vars
  BY <1>4, CrashImplements
<1>5. ASSUME NEW n \in Node, BecomeMaster(n) \/ LoseMaster(n) \/ Broadcast(n)
      PROVE  [Abstract!Next]_Abstract!vars
  BY <1>1, <1>5 DEF BecomeMaster, LoseMaster, Broadcast
<1>6. ASSUME NEW n \in Node, NEW m \in Node, NEW o \in Op,
             MutateHere(n, o) \/ Propose(n, m, o) \/ Pull(n, m)
      PROVE  [Abstract!Next]_Abstract!vars
  BY <1>1, <1>6 DEF MutateHere, Propose, Pull
<1>7. ASSUME NEW n \in Node, NEW o \in Op, MutateHere(n, o)
      PROVE  [Abstract!Next]_Abstract!vars
  BY <1>1, <1>7 DEF MutateHere
<1>8. ASSUME NEW n \in Node, NEW m \in Node, Pull(n, m)
      PROVE  [Abstract!Next]_Abstract!vars
  BY <1>1, <1>8 DEF Pull
<1>9. ASSUME NEW p \in proposals,
             RejectProposal(p) \/ HandlePropose(p) \/ LoseProposal(p)
      PROVE  [Abstract!Next]_Abstract!vars
  BY <1>1, <1>9 DEF RejectProposal, HandlePropose, LoseProposal
<1>10. ASSUME NEW o \in Op, Refuse(o) \/ ProposeFails(o)
       PROVE  [Abstract!Next]_Abstract!vars
  BY <1>1, <1>10 DEF Refuse, ProposeFails
<1>11. ASSUME NEW s \in snapshots, LoseSnapshot(s)
       PROVE  [Abstract!Next]_Abstract!vars
  BY <1>1, <1>11 DEF LoseSnapshot
<1>12. CASE UNCHANGED vars
  BY <1>1, <1>12 DEF vars
<1>13. QED
  BY <1>2, <1>3, <1>4, <1>5, <1>6, <1>7, <1>8, <1>9, <1>10, <1>11, <1>12 DEF Next

\* Until a fork, replication by any writers, with crashes, losses and failing
\* writes, implements ConfigLog: a commit is its Commit, an accepted snapshot
\* its Learn, a crash its Reload, and every other step, handovers included,
\* changes nothing it sees (Mutate, Replace, LoadClusterConfig).
THEOREM RefinementTheorem == Spec => ImplementsConfigLog
<1>1. Init => Abstract!Init
  BY DEF Init, Abstract!Init, FirstConfig
<1>2. TypeOK /\ Orderly /\ [Next]_vars
        => [~forked' => Abstract!Next]_(Abstract!vars)
  BY StepImplements
<1>3. QED
  BY <1>1, <1>2, Inductive, PTL DEF Spec, ImplementsConfigLog

-----------------------------------------------------------------------------
\* o is in no configuration, in memory, on disk or on its way.
Nowhere(o) ==
    /\ \A n \in Node : o \notin cfg[n].ops /\ o \notin disk[n].ops
    /\ \A s \in snapshots : o \notin s.cfg.ops

\* The proposals of o that wait for a decision, and the decisions that wait to
\* be carried out.
Waiting == {p.op : p \in proposals}
Deciding == {a.op : a \in admitted}

\* What one more record with an op, or one less, makes of them.
LEMMA OpsOf ==
  ASSUME NEW S, NEW r
  PROVE  /\ {p.op : p \in S \union {r}} = {p.op : p \in S} \union {r.op}
         /\ (\A p, q \in S : p.op = q.op => p = q) /\ r \in S
              => {p.op : p \in S \ {r}} = {p.op : p \in S} \ {r.op}
OBVIOUS

\* Nobody has applied o yet: it was not issued, was refused, is still on its
\* way to whoever is going to decide, or was let through a moment ago.
Undecided(o) == status[o] \in {"new", "rejected"} \/ o \in Waiting \union Deciding

\* A mutation is proposed once at most, a proposal is used up by the decision
\* about it, and so is the decision when it is carried out: what was refused
\* cannot be applied afterwards.
Unapplied ==
    /\ \A o \in Op : status[o] \in {"new", "rejected"} => o \notin Waiting \union Deciding
    /\ \A p, q \in proposals : p.op = q.op => p = q
    /\ \A a, b \in admitted : a.op = b.op => a = b
    /\ Waiting \intersect Deciding = {}
    /\ \A o \in Op : Undecided(o) => Nowhere(o)

\* applyLocally puts o into configurations, and nothing else.
LEMMA ApplyAddsOne ==
  ASSUME TypeOK, NEW n \in Node, NEW o \in Op, Apply(n, o), snapshots' = snapshots,
         NEW q \in Op, q # o, Nowhere(q)
  PROVE  Nowhere(q)'
<1>1. /\ cfg' = [cfg EXCEPT ![n] = Mutated(n, o)]
      /\ disk' = disk \/ disk' = [disk EXCEPT ![n] = Mutated(n, o)]
  BY DEF Apply
<1>2. q \notin Mutated(n, o).ops
  BY DEF Mutated, Nowhere
<1>3. QED
  BY <1>1, <1>2 DEF Nowhere, TypeOK

\* Who carries out a decision about o leaves none about it.
LEMMA ApplyDecides ==
  ASSUME TypeOK, Unapplied, NEW a \in admitted, ApplyLocally(a)
  PROVE  Unapplied'
<1>1. /\ a.at \in Node /\ a.op \in Op /\ Apply(a.at, a.op)
      /\ admitted' = admitted \ {a} /\ proposals' = proposals /\ snapshots' = snapshots
  BY DEF ApplyLocally, TypeOK
<1>2. a.op \in Deciding
  BY DEF Deciding
<1>3. status[a.op] \notin {"new", "rejected"} /\ a.op \notin Waiting
  BY <1>1, <1>2 DEF Unapplied
<1>4. /\ status'[a.op] \notin {"new", "rejected"}
      /\ \A q \in Op \ {a.op} : status'[q] = status[q]
  BY <1>1, <1>3 DEF Apply, Answered, TypeOK
<1>5. Waiting' = Waiting /\ Deciding' = Deciding \ {a.op}
  BY <1>1 DEF Unapplied, Waiting, Deciding
<1>6. ASSUME NEW q \in Op, Undecided(q)'
      PROVE  Nowhere(q)'
  <2>1. q # a.op /\ Undecided(q)
    BY <1>3, <1>4, <1>5, <1>6 DEF Undecided
  <2>2. QED
    BY <1>1, <2>1, ApplyAddsOne DEF Unapplied
<1>7. QED
  BY <1>1, <1>4, <1>5, <1>6 DEF Unapplied

\* The steps before a decision is carried out put o into no configuration.
LEMMA NoneAdded ==
  ASSUME Unapplied, UNCHANGED <<cfg, disk, snapshots>>,
         \A q \in Op : Undecided(q)' => Undecided(q)
  PROVE  \A q \in Op : Undecided(q)' => Nowhere(q)'
BY DEF Unapplied, Nowhere

\* Replication copies configurations that exist.
LEMMA CopiesAddNone ==
  ASSUME TypeOK, NEW q \in Op, Nowhere(q),
         \/ \E n \in Node : Broadcast(n) \/ Restart(n)
         \/ \E n, p \in Node : Pull(n, p)
         \/ \E s \in snapshots : Replace(s) \/ LoseSnapshot(s)
  PROVE  Nowhere(q)'
<1>1. ASSUME NEW n \in Node, Broadcast(n) PROVE Nowhere(q)'
  BY <1>1 DEF Broadcast, Nowhere
<1>2. ASSUME NEW n \in Node, Restart(n) PROVE Nowhere(q)'
  BY <1>2 DEF Restart, Nowhere, TypeOK
<1>3. ASSUME NEW n \in Node, NEW p \in Node, Pull(n, p) PROVE Nowhere(q)'
  BY <1>3 DEF Pull, Nowhere
<1>4. ASSUME NEW s \in snapshots, Replace(s) PROVE Nowhere(q)'
  BY <1>4 DEF Replace, Nowhere, TypeOK
<1>5. ASSUME NEW s \in snapshots, LoseSnapshot(s) PROVE Nowhere(q)'
  BY <1>5 DEF LoseSnapshot, Nowhere
<1>6. QED
  BY <1>1, <1>2, <1>3, <1>4, <1>5

\* What was refused for want of a master or a quorum is never applied, for any
\* writers, however their terms, crashes and failing writes overlap with
\* proposals and decisions that are late (HandleProposeMutation, LocalMutate).
THEOREM RefusedTheorem == Spec => []RejectedNeverApplied
<1>1. Init => Unapplied
  BY DEF Init, FirstConfig, Unapplied, Nowhere, Waiting, Deciding
<1>2. TypeOK /\ Unapplied /\ [Next]_vars => Unapplied'
  <2> SUFFICES ASSUME TypeOK, Unapplied, [Next]_vars PROVE Unapplied'
    OBVIOUS
  <2>1. ASSUME NEW n \in Node, NEW o \in Op, MutateHere(n, o) PROVE Unapplied'
    <3>1. /\ status[o] = "new" /\ status' = [status EXCEPT ![o] = "pending"]
          /\ admitted' = admitted \union {[at |-> n, op |-> o]}
          /\ UNCHANGED <<cfg, disk, snapshots, proposals>>
      BY <2>1 DEF MutateHere
    <3>2. o \notin Waiting \union Deciding /\ Undecided(o)
      BY <3>1 DEF Unapplied, Undecided
    <3>3. Waiting' = Waiting /\ Deciding' = Deciding \union {o}
      <4>1. Deciding' = Deciding \union {[at |-> n, op |-> o].op}
        BY <3>1, OpsOf DEF Deciding
      <4>2. QED
        BY <3>1, <4>1 DEF Waiting
    <3>4. \A q \in Op : status'[q] \in {"new", "rejected"}
            => q # o /\ status[q] \in {"new", "rejected"}
      BY <3>1 DEF TypeOK
    <3>5. \A q \in Op : Undecided(q)' => Undecided(q)
      BY <3>2, <3>3, <3>4 DEF Undecided
    <3>6. \A a, b \in admitted' : a.op = b.op => a = b
      <4>1. \A a \in admitted : a.op # o
        BY <3>2 DEF Deciding
      <4>2. QED
        BY <3>1, <4>1 DEF Unapplied
    <3>7. \A q \in Op : Undecided(q)' => Nowhere(q)'
      BY <3>1, <3>5, NoneAdded
    <3>8. QED
      BY <3>1, <3>2, <3>3, <3>4, <3>6, <3>7 DEF Unapplied
  <2>2. ASSUME NEW n \in Node, NEW m \in Node, NEW o \in Op, Propose(n, m, o)
        PROVE  Unapplied'
    <3>1. /\ status[o] = "new" /\ status' = [status EXCEPT ![o] = "pending"]
          /\ proposals' = proposals \union {[to |-> m, op |-> o]}
          /\ UNCHANGED <<cfg, disk, snapshots, admitted>>
      BY <2>2 DEF Propose
    <3>2. o \notin Waiting \union Deciding /\ Undecided(o)
      BY <3>1 DEF Unapplied, Undecided
    <3>3. Waiting' = Waiting \union {o} /\ Deciding' = Deciding
      <4>1. Waiting' = Waiting \union {[to |-> m, op |-> o].op}
        BY <3>1, OpsOf DEF Waiting
      <4>2. QED
        BY <3>1, <4>1 DEF Deciding
    <3>4. \A q \in Op : status'[q] \in {"new", "rejected"}
            => q # o /\ status[q] \in {"new", "rejected"}
      BY <3>1 DEF TypeOK
    <3>5. \A q \in Op : Undecided(q)' => Undecided(q)
      BY <3>2, <3>3, <3>4 DEF Undecided
    <3>6. \A p, r \in proposals' : p.op = r.op => p = r
      <4>1. \A p \in proposals : p.op # o
        BY <3>2 DEF Waiting
      <4>2. QED
        BY <3>1, <4>1 DEF Unapplied
    <3>7. \A q \in Op : Undecided(q)' => Nowhere(q)'
      BY <3>1, <3>5, NoneAdded
    <3>8. QED
      BY <3>1, <3>2, <3>3, <3>4, <3>6, <3>7 DEF Unapplied
  <2>3. ASSUME NEW p \in proposals, RejectProposal(p) PROVE Unapplied'
    <3>1. /\ p.op \in Op /\ proposals' = proposals \ {p}
          /\ \A q \in Op \ {p.op} : status'[q] = status[q]
          /\ UNCHANGED <<cfg, disk, snapshots, admitted>>
      BY <2>3 DEF RejectProposal, Answered, TypeOK
    <3>2. p.op \in Waiting
      BY DEF Waiting
    <3>3. Waiting' = Waiting \ {p.op} /\ Deciding' = Deciding
      BY <3>1 DEF Unapplied, Waiting, Deciding
    <3>4. p.op \notin Waiting' \union Deciding' /\ Undecided(p.op)
      BY <3>2, <3>3 DEF Unapplied, Undecided
    <3>5. \A q \in Op : Undecided(q)' => Undecided(q)
      BY <3>1, <3>3, <3>4 DEF Undecided
    <3>6. QED
      BY <3>1, <3>3, <3>4, <3>5, NoneAdded DEF Unapplied
  <2>4. ASSUME NEW p \in proposals, HandlePropose(p) PROVE Unapplied'
    <3>1. /\ p.op \in Op /\ proposals' = proposals \ {p}
          /\ admitted' = admitted \union {[at |-> p.to, op |-> p.op]}
          /\ UNCHANGED <<cfg, disk, snapshots, status>>
      BY <2>4 DEF HandlePropose, TypeOK
    <3>2. p.op \in Waiting
      BY DEF Waiting
    <3>3. Waiting' = Waiting \ {p.op} /\ Deciding' = Deciding \union {p.op}
      <4>1. Waiting' = Waiting \ {p.op}
        BY <3>1, OpsOf DEF Unapplied, Waiting
      <4>2. Deciding' = Deciding \union {[at |-> p.to, op |-> p.op].op}
        BY <3>1, OpsOf DEF Deciding
      <4>3. QED
        BY <4>1, <4>2
    <3>4. p.op \notin Deciding /\ status[p.op] \notin {"new", "rejected"}
      BY <3>1, <3>2 DEF Unapplied
    <3>5. \A q \in Op : Undecided(q)' => Undecided(q)
      BY <3>1, <3>2, <3>3 DEF Undecided
    <3>6. \A a, b \in admitted' : a.op = b.op => a = b
      <4>1. \A a \in admitted : a.op # p.op
        BY <3>4 DEF Deciding
      <4>2. QED
        BY <3>1, <4>1 DEF Unapplied
    <3>7. \A q \in Op : Undecided(q)' => Nowhere(q)'
      BY <3>1, <3>5, NoneAdded
    <3>8. QED
      BY <3>1, <3>3, <3>4, <3>6, <3>7 DEF Unapplied
  <2>5. ASSUME NEW p \in proposals, LoseProposal(p) PROVE Unapplied'
    <3>1. /\ proposals' \subseteq proposals
          /\ UNCHANGED <<cfg, disk, snapshots, status, admitted>>
      BY <2>5 DEF LoseProposal
    <3>2. Waiting' \subseteq Waiting /\ Deciding' = Deciding
      BY <3>1 DEF Waiting, Deciding
    <3>3. QED
      BY <3>1, <3>2, NoneAdded DEF Unapplied, Undecided
  <2>6. ASSUME NEW o \in Op, Refuse(o) \/ ProposeFails(o) PROVE Unapplied'
    <3>1. /\ \A q \in Op : status'[q] \in {"new", "rejected"}
                             => status[q] \in {"new", "rejected"}
          /\ UNCHANGED <<cfg, disk, snapshots, proposals, admitted>>
      BY <2>6 DEF Refuse, ProposeFails, TypeOK
    <3>2. Waiting' = Waiting /\ Deciding' = Deciding
      BY <3>1 DEF Waiting, Deciding
    <3>3. QED
      BY <3>1, <3>2, NoneAdded DEF Unapplied, Undecided
  <2>7. CASE \/ \E n \in Node : Broadcast(n) \/ Restart(n)
             \/ \E n, p \in Node : Pull(n, p)
             \/ \E s \in snapshots : Replace(s) \/ LoseSnapshot(s)
    <3>1. UNCHANGED <<proposals, admitted, status>>
      BY <2>7 DEF Broadcast, Restart, Pull, Replace, LoseSnapshot
    <3>2. \A q \in Op : Nowhere(q) => Nowhere(q)'
      BY <2>7, CopiesAddNone
    <3>3. QED
      BY <3>1, <3>2 DEF Unapplied, Undecided, Waiting, Deciding
  <2>8. ASSUME NEW n \in Node, BecomeMaster(n) \/ LoseMaster(n) \/ Crash(n)
        PROVE  Unapplied'
    <3>1. /\ admitted' \subseteq admitted
          /\ UNCHANGED <<cfg, disk, snapshots, status, proposals>>
      BY <2>8 DEF BecomeMaster, LoseMaster, Crash
    <3>2. Waiting' = Waiting /\ Deciding' \subseteq Deciding
      BY <3>1 DEF Waiting, Deciding
    <3>3. QED
      BY <3>1, <3>2, NoneAdded DEF Unapplied, Undecided
  <2>9. ASSUME NEW a \in admitted, ApplyLocally(a) PROVE Unapplied'
    BY <2>9, ApplyDecides
  <2>10. CASE UNCHANGED vars
    BY <2>10 DEF vars, Unapplied, Undecided, Nowhere, Waiting, Deciding
  <2>11. QED
    BY <2>1, <2>2, <2>3, <2>4, <2>5, <2>6, <2>7, <2>8, <2>9, <2>10 DEF Next
<1>3. TypeOK /\ Unapplied => RejectedNeverApplied
  <2> SUFFICES ASSUME TypeOK, Unapplied, NEW o \in Op, status[o] = "rejected",
                      NEW c \in Held
               PROVE  o \notin c.ops
    BY DEF RejectedNeverApplied
  <2>1. Nowhere(o)
    BY DEF Unapplied, Undecided
  <2>2. QED
    BY <2>1 DEF Held, Nowhere, TypeOK
<1>4. QED
  BY <1>1, <1>2, <1>3, TypeCorrect, PTL DEF Spec
============================================================================
