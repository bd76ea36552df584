------------------------------ MODULE ManualEdit ------------------------------
(***************************************************************************)
(* Editing cluster.yaml by hand: the watcher of internal/daemon/watcher.go *)
(* against the daemon's own writes of that file (Mutate and Replace of     *)
(* internal/config/cluster.go), which an operator's editor knows nothing   *)
(* of.                                                                     *)
(*                                                                         *)
(* The watcher takes the lock of the configuration for each of its steps   *)
(* and for none of them together, and reads the file without it.  A hash   *)
(* stands for what is hashed.  The writes of the daemon may fail, and the  *)
(* operator may save any file: one with an edited version, or an older     *)
(* copy.  Replication is one master that commits and everybody taking      *)
(* whatever is newer than what they have.                                  *)
(***************************************************************************)
EXTENDS Integers

CONSTANTS
    Node,
    Master,      \* the one that commits
    Entries,     \* peers, checks and alerts, all together
    Sparse,      \* those of Entries in which one of the three lists is empty
    Resolvers,   \* cluster-wide resolver lists
    None,        \* no resolvers; no file in the watcher's hands
    Broken,      \* a file that is no valid YAML
    Initial,     \* the content to start from
    Start,       \* the version of it: of a fresh cluster, or of a restored file
    MaxVersion,  \* bound on the versions
    MaxSaves,    \* bound on the saves by hand
    MaxRestarts, \* bound on the restarts
    MaxFails     \* bound on the writes that fail

ASSUME MasterAssumption == Master \in Node
ASSUME DataAssumption == Sparse \subseteq Entries /\ None \notin Resolvers
ASSUME BoundsAssumption ==
    /\ MaxVersion \in Nat /\ MaxSaves \in Nat
    /\ MaxRestarts \in Nat /\ MaxFails \in Nat

Content == [entries : Entries, resolvers : Resolvers \union {None}]
ASSUME InitialAssumption == Initial \in Content /\ Start \in 0 .. MaxVersion

Config == [ver : 0 .. MaxVersion, content : Content]
\* An edit of the comments goes the way of one of the resolvers or the version.
File == Config \union {Broken}
ASSUME FileAssumption == None \notin File

VARIABLES
    mem,      \* the ClusterConfig in memory
    sent,     \* what any daemon had in memory: all that a broadcast or a pull can carry
    file,     \* cluster.yaml
    lastSum,  \* of what the daemon last wrote, or has seen
    raw,      \* what the watcher has read
    step,     \* how far it is with it
    saves, restarts, fails,
    unsent    \* history: nodes whose file was left behind, up to their next write

vars == <<mem, sent, file, lastSum, raw, step, saves, restarts, fails, unsent>>

Step == {"idle", "read", "differs", "pin", "send", "forward"}

TypeOK ==
    /\ mem \in [Node -> Config]
    /\ sent \subseteq Config
    /\ file \in [Node -> File]
    /\ lastSum \in [Node -> File]
    /\ raw \in [Node -> File \union {None}]
    /\ step \in [Node -> Step]
    /\ saves \in 0 .. MaxSaves
    /\ restarts \in 0 .. MaxRestarts
    /\ fails \in 0 .. MaxFails
    /\ unsent \subseteq Node
    /\ \A n \in Node : mem[n] \in sent /\ (raw[n] = None <=> step[n] = "idle")

Init ==
    /\ mem = [n \in Node |-> [ver |-> Start, content |-> Initial]]
    /\ sent = {[ver |-> Start, content |-> Initial]}
    /\ file = mem
    /\ lastSum = file
    /\ raw = [n \in Node |-> None]
    /\ step = [n \in Node |-> "idle"]
    /\ saves = 0 /\ restarts = 0 /\ fails = 0
    /\ unsent = {}

-----------------------------------------------------------------------------
\* Mutate and Replace end in this: c is in memory, the file is overwritten,
\* whatever it held, and its hash is remembered.  AtomicWrite may fail, and
\* leaves the memory ahead of the file.
Store(n, c, missed) ==
    /\ mem' = [mem EXCEPT ![n] = c]
    /\ sent' = sent \union {c}
    /\ \/ /\ file' = [file EXCEPT ![n] = c]
          /\ lastSum' = [lastSum EXCEPT ![n] = c]
          /\ unsent' = (unsent \union missed) \ {n}
          /\ UNCHANGED fails
       \/ /\ fails < MaxFails
          /\ fails' = fails + 1
          /\ unsent' = unsent \union missed \union {n}
          /\ UNCHANGED <<file, lastSum>>

\* Mutate at the master, which makes content of what is in its memory.
Commit(content, missed) ==
    /\ mem[Master].ver < MaxVersion
    /\ Store(Master, [ver |-> mem[Master].ver + 1, content |-> content], missed)

\* Any other mutation, of the entries, of the resolvers or of neither.
Mutate(content) ==
    /\ Commit(content, {})
    /\ UNCHANGED <<raw, step, saves, restarts>>

\* Replace: a broadcast, or the answer to a pull.
Replace(n, c) ==
    /\ c.ver > mem[n].ver
    /\ Store(n, c, {})
    /\ UNCHANGED <<raw, step, saves, restarts>>

\* The watcher will not notice that f is saved: it remembers f, or is about
\* to, from before what is in memory now.
TakenForSeen(n, f) ==
    /\ f # Broken
    /\ f \in {raw[n], lastSum[n]}
    /\ f.content.entries # mem[n].content.entries
    /\ step[n] \notin {"send", "forward"}

\* An operator saves a file: with entries, resolvers and version as it likes,
\* an older copy among them, or a spoilt one.
SaveByHand(n, f) ==
    /\ saves < MaxSaves
    /\ f # file[n]
    /\ file' = [file EXCEPT ![n] = f]
    /\ saves' = saves + 1
    /\ unsent' = IF TakenForSeen(n, f) THEN unsent \union {n} ELSE unsent
    /\ UNCHANGED <<mem, sent, lastSum, raw, step, restarts, fails>>

\* Mutant of Restart: a file that cannot be parsed is let through.
RestartAnyway(n) ==
    /\ restarts < MaxRestarts
    /\ restarts' = restarts + 1
    /\ mem' = [mem EXCEPT ![n] = file[n]]
    /\ sent' = sent \union {file[n]}
    /\ lastSum' = [lastSum EXCEPT ![n] = file[n]]
    /\ raw' = [raw EXCEPT ![n] = None]
    /\ step' = [step EXCEPT ![n] = "idle"]
    /\ UNCHANGED <<file, saves, fails, unsent>>

\* The daemon stops and starts again: LoadClusterConfig takes what is in the
\* file for what it had saved, the version included.
Restart(n) ==
    /\ restarts < MaxRestarts
    /\ file[n] # Broken
    /\ restarts' = restarts + 1
    /\ mem' = [mem EXCEPT ![n] = file[n]]
    /\ sent' = sent \union {file[n]}
    /\ lastSum' = [lastSum EXCEPT ![n] = file[n]]
    /\ raw' = [raw EXCEPT ![n] = None]
    /\ step' = [step EXCEPT ![n] = "idle"]
    /\ unsent' = unsent \ {n}
    /\ UNCHANGED <<file, saves, fails>>

-----------------------------------------------------------------------------
(* checkManualEdit, once per tick.                                         *)

Goto(n, s) ==
    /\ step' = [step EXCEPT ![n] = s]
    /\ raw' = IF s = "idle" THEN [raw EXCEPT ![n] = None] ELSE raw

ReadFile(n) ==
    /\ step[n] = "idle"
    /\ raw' = [raw EXCEPT ![n] = file[n]]
    /\ step' = [step EXCEPT ![n] = "read"]
    /\ UNCHANGED <<mem, sent, file, lastSum, saves, restarts, fails, unsent>>

CompareSum(n) ==
    /\ step[n] = "read"
    /\ Goto(n, IF raw[n] = lastSum[n] THEN "idle" ELSE "differs")
    /\ UNCHANGED <<mem, sent, file, lastSum, saves, restarts, fails, unsent>>

\* An empty list in memory is nil, and one that was parsed is not: where a
\* list is empty, even the same entries compare as different.
SameEntries(e, f) == e = f /\ e \notin Sparse

\* Mutant of CompareContent: a file that cannot be parsed is left for the
\* next tick.
CompareContentRetry(n) ==
    /\ step[n] = "differs"
    /\ Goto(n, IF raw[n] = Broken THEN "idle" ELSE "send")
    /\ UNCHANGED <<mem, sent, file, lastSum, saves, restarts, fails, unsent>>

CompareContent(n) ==
    /\ step[n] = "differs"
    /\ Goto(n, IF raw[n] = Broken \/ SameEntries(raw[n].content.entries, mem[n].content.entries)
               THEN "pin" ELSE "send")
    /\ UNCHANGED <<mem, sent, file, lastSum, saves, restarts, fails, unsent>>

\* Mutant of Pin: the file is hashed again for it.
PinCurrent(n) ==
    /\ step[n] \in {"pin", "send"}
    /\ lastSum' = [lastSum EXCEPT ![n] = file[n]]
    /\ Goto(n, IF step[n] = "pin" THEN "idle" ELSE "forward")
    /\ UNCHANGED <<mem, sent, file, saves, restarts, fails, unsent>>

\* SetLastSavedSum, before anything is forwarded.
Pin(n) ==
    /\ step[n] \in {"pin", "send"}
    /\ lastSum' = [lastSum EXCEPT ![n] = raw[n]]
    /\ Goto(n, IF step[n] = "pin" THEN "idle" ELSE "forward")
    /\ UNCHANGED <<mem, sent, file, saves, restarts, fails, unsent>>

\* A master that starts from an edited version may be behind the others.
CaughtUp == \A c \in sent : c.ver <= mem[Master].ver

\* LocalMutate of a ReplaceConfig, which carries no resolvers.  What a master
\* commits that is behind, the others do not take.
Forward(n) ==
    /\ step[n] = "forward"
    /\ Commit([entries |-> raw[n].content.entries, resolvers |-> None],
              IF CaughtUp THEN {} ELSE {n})
    /\ Goto(n, "idle")
    /\ UNCHANGED <<saves, restarts>>

\* No quorum, no master, or no answer within ten seconds: the error is logged.
ForwardFails(n) ==
    /\ step[n] = "forward"
    /\ Goto(n, "idle")
    /\ unsent' = unsent \union {n}
    /\ UNCHANGED <<mem, sent, file, lastSum, saves, restarts, fails>>

Watch(n) == \/ ReadFile(n) \/ CompareSum(n) \/ CompareContent(n)
            \/ Pin(n) \/ Forward(n) \/ ForwardFails(n)

Next ==
    \/ \E n \in Node : Watch(n) \/ Restart(n)
    \/ \E n \in Node : \E f \in File : SaveByHand(n, f)
    \/ \E n \in Node : \E c \in sent : Replace(n, c)
    \/ \E c \in Content : Mutate(c)

Spec == Init /\ [][Next]_vars

\* The ticker of a running daemon keeps firing, and each step of the watcher
\* ends: a forward has a limit of ten seconds.
FairSpec == Spec /\ \A n \in Node : WF_vars(Watch(n))

-----------------------------------------------------------------------------
\* No other configuration is as new as that of n.
Newest(n) == \A c \in sent \ {mem[n]} : c.ver < mem[n].ver

\* A node with the newest configuration, whose watcher has nothing in hand and
\* whose file it has seen, has the entries of that configuration in its file:
\* no edit is swallowed between the unlocked steps of checkManualEdit.  Not so
\* a broken file, nor one that was left behind (unsent): after a forward that
\* failed or came to a master that was behind, a write that failed, or when
\* the operator saved again what the watcher takes for seen.
SeenMeansReplicated ==
    \A n \in Node :
        /\ step[n] = "idle" /\ lastSum[n] = file[n] /\ file[n] # Broken
        /\ Newest(n) /\ n \notin unsent
        => file[n].content.entries = mem[n].content.entries

\* As long as nobody edits a file by hand, nothing is forwarded: the watcher
\* does not take the daemon's own writes for edits (watcher.go:26-28, "so we
\* don't race against os.Rename from our own AtomicWrite").  The code does
\* not keep this.
OwnWritesAreNotEdits ==
    saves = 0 => \A n \in Node : step[n] # "forward"

\* Whatever is saved by hand is noticed, or overwritten by a newer version;
\* a file that cannot be parsed is noticed once.
EditsAreNoticed ==
    \A n \in Node : (file[n] # lastSum[n]) ~> (file[n] = lastSum[n])
===============================================================================
